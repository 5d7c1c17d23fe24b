-------------------------- MODULE MCMonitorSession --------------------------
(* Values of the constants of MonitorSession for TLC: the thread sets that *)
(* different command lines produce.                                        *)
EXTENDS MonitorSession, TLC

CONSTANTS t1, t2, t3

\* -m 100,200 -tc 100 -pc System.Runtime:cpu-usage:50
KindsPolling == t1 :> "memory" @@ t2 :> "sampler" @@ t3 :> "counter"
\* -gcm 100 -sig 10 -restrack
KindsManaged == t1 :> "profiler" @@ t2 :> "signal" @@ t3 :> "collector"
\* -restrack alone (needs_manual_trigger)
KindsRestrack == t1 :> "collector" @@ t2 :> "manual"
\* -m 100
KindsMemory == t1 :> "memory"
=============================================================================
