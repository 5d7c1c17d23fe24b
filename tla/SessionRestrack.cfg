SPECIFICATION FairSpec
CONSTANTS
  t1 = t1
  t2 = t2
  t3 = t3
  Monitors = {t1, t2}
  Kind <- KindsRestrack
  Limit = 2
  Thresholds = 1
  PrimaryDump = TRUE
INVARIANTS NoThreadLeft
