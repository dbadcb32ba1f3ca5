SPECIFICATION Spec
CONSTANTS
  Conns = {c1, c2}
  Starter = starter
  NoThread = none
  MaxChain = 2
SYMMETRY Symmetry
INVARIANTS
  PairsTogether
  SendersExact
  NoLostBroadcast
CHECK_DEADLOCK FALSE
