SPECIFICATION Spec
CONSTANTS
  Threads = {t1, t2, t3}
  Work = {w1, w2}
  Unwait = unwait
  MaxWait = 4
SYMMETRY Symmetry
INVARIANT KickFindsWaiter
CHECK_DEADLOCK FALSE
