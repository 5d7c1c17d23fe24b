CONSTANTS
  m = m
  t2 = t2
  t3 = t3
  s1 = s1
  s2 = s2
  None = None
  Tids = {m, t2, t3}
  Main = m
  Signals = {s1, s2}
  Monitored = {s1}
SPECIFICATION FairSpec
CHECK_DEADLOCK FALSE
INVARIANTS TracingInv NotLeftStopped NoSignalLost
PROPERTIES QuitEnds
