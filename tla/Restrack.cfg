CONSTANTS
  t1 = t1
  t2 = t2
  b1 = b1
  b2 = b2
  Threads = {t1, t2}
  Blocks = {b1, b2}
  RingSize = 2
  CallBound = 4
SPECIFICATION FairSpec
CHECK_DEADLOCK FALSE
INVARIANTS RestrackInv NoFalseLeak NoLeakMissed
PROPERTIES LossNoticed
