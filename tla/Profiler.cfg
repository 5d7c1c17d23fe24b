CONSTANTS
  a = a
  b = b
  o1 = o1
  Threads = {a, b}
  Filters = 2
  DumpsToCollect = 1
  Thresholds = 2
  Objects = {o1}
  NoObject = NoObject
  Stamps = {1}
  FdLimit = 2
  CountBound = 2
  Nobody = Nobody
SPECIFICATION FairSpec
CHECK_DEADLOCK FALSE
INVARIANTS ProfilerInv DumpsKnown LowerFirst
PROPERTIES ProfilerLeaves ProcdumpLearns
