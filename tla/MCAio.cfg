SPECIFICATION FairSpec
CONSTANTS
  Requests = {r1, r2, r3, r4, r5}
  Max = 2
INVARIANTS
  NflExact
  NeverBlocks
  EachOnce
  NoIdleSlot
PROPERTY AllDelivered
CHECK_DEADLOCK FALSE
