SPECIFICATION FairSpec
CONSTANTS
  t1 = t1
  t2 = t2
  t3 = t3
  Monitors = {t1, t2, t3}
  Kind <- KindsPolling
  Limit = 2
  Thresholds = 2
  PrimaryDump = TRUE
INVARIANTS LimitStopsSession
PROPERTIES StopTerminates SessionEnds
