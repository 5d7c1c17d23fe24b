CONSTANTS
  r1 = r1
  r2 = r2
  r3 = r3
  m1 = m1
  m2 = m2
  NoMask = NoMask
  Nobody = Nobody
  Masks = {m1, m2}
  Requests = {r1, r2, r3}
  Pids = {1, 2}
  Pid <- TwoAndOne
  Stripe <- OwnStripes
  Backend <- NativeBackends
  Mask <- MixedMasks
  Custom <- OnlyThird
  Overwrite <- OnlyThird
  MaxClock = 1
SPECIFICATION FairSpec
INVARIANTS EngineInv FailureLeavesNothing DefaultNameFound
PROPERTIES EveryCallReturns
