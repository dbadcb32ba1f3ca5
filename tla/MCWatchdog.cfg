SPECIFICATION FairSpec
CONSTANTS
  Dogs = {d1, d2}
  Client = client
INVARIANTS DogsLeashed
PROPERTIES
  NoFalseAlarm
  Bites
