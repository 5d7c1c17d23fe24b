SPECIFICATION Spec
CONSTANTS
  t1 = t1
  t2 = t2
  t3 = t3
  Monitors = {t1}
  Kind <- KindsMemory
  Limit = 3
  Thresholds = 1
  PrimaryDump = TRUE
INVARIANTS
  EndsOnlyAtLimit
