SPECIFICATION FairSpec
CONSTANTS
  Pids <- TwoPids
  MaxBirths = 3
  Target = 1
INVARIANTS OrchestratorInv NothingMissed NewestChosen OkMeansDone
PROPERTIES MonitoredOnce StopsForAReason ShutdownReturns EndedReaped
