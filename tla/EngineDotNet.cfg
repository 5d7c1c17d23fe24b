CONSTANTS
  r1 = r1
  r2 = r2
  r3 = r3
  m1 = m1
  m2 = m2
  NoMask = NoMask
  Nobody = Nobody
  Masks = {m1, m2}
  Requests = {r1, r2, r3}
  Pids = {1, 2, 3}
  Pid <- OnePerProcess
  Stripe <- OwnStripes
  Backend <- DotNetBackends
  Mask <- MixedMasks
  Custom <- MixedNames
  Overwrite <- No
  MaxClock = 1
SPECIFICATION Spec
INVARIANTS ReportedDumpStays
