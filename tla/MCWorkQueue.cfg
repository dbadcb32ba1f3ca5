SPECIFICATION Spec
CONSTANTS
  Threads = {t1, t2, t3}
  Work = {w1, w2, w3}
  Unwait = unwait
  MaxWait = 4
SYMMETRY Symmetry
INVARIANTS
  WorkConserved
  WaitersKnown
  WaitersExact
  NoIdleWork
CHECK_DEADLOCK FALSE
