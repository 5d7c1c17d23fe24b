------------------------ MODULE Orchestrator_proofs ------------------------
(***************************************************************************)
(* The safety properties of Orchestrator, for any number of pids, any      *)
(* number of processes over time and every mode: OrchestratorInv, and on   *)
(* top of it RoundInv, about what a round of discovery has still to look   *)
(* at.                                                                     *)
(***************************************************************************)
EXTENDS Orchestrator, WellFoundedInduction, TLAPS

\* What the invariant says besides the types.
Parts == SessionsHeld /\ IdentitiesGrow /\ MonitoredKnown /\ ClosingOne /\ StopReasons

\* The initial states of monitor_processes satisfy the invariant.
LEMMA InitInv == Init => OrchestratorInv
<1> SUFFICES ASSUME Init PROVE OrchestratorInv
  OBVIOUS
<1> USE OrchestratorAssumption DEF Init, Incarnations, Identities, None
<1>1. first \in BOOLEAN /\ shutdown \in BOOLEAN /\ aliveSeen \in BOOLEAN
      /\ match \in [Pids -> BOOLEAN]
  BY Zenon
<1>2. TypeOK
  BY <1>1 DEF TypeOK, Steps, Statuses
<1>3. Open = {} /\ Held = {}
  BY DEF Open, Held
<1>4. SessionsHeld /\ IdentitiesGrow /\ MonitoredKnown /\ ClosingOne
  BY <1>3 DEF SessionsHeld, IdentitiesGrow, MonitoredKnown, ClosingOne
<1>5. StopReasons
  BY DEF StopReasons, InReap, InDrain
<1> QED
  BY <1>2, <1>4, <1>5 DEF OrchestratorInv

\* Every step of the orchestrator and of the system around it keeps the types.
LEMMA TypeStep == ASSUME TypeOK, [Next]_vars PROVE TypeOK'
<1> USE OrchestratorAssumption
    DEF Incarnations, Identities, None, Steps, Statuses, vars, system, maps, closer
<1>1. CASE SamplePid
  BY <1>1 DEF TypeOK, SamplePid, Fail, Running
<1>2. CASE List
  <2>1. /\ first' \in BOOLEAN /\ shutdown' \in BOOLEAN
        /\ aliveSeen' \in BOOLEAN /\ match' \in [Pids -> BOOLEAN]
    BY <1>2, Zenon DEF TypeOK, List, Fail
  <2>2. todo' \subseteq Pids /\ completed' \subseteq Pids /\ steady' \subseteq Pids
    BY <1>2, Zenon DEF TypeOK, List, Fail
  <2> QED
    BY <1>2, <2>1, <2>2 DEF TypeOK, List, Fail
<1>3. CASE Discovered
  BY <1>3 DEF TypeOK, Discovered, Fail, Newest
<1>4. CASE AllStarted
  <2>1. /\ first' \in BOOLEAN /\ shutdown' \in BOOLEAN
        /\ aliveSeen' \in BOOLEAN /\ match' \in [Pids -> BOOLEAN]
    BY <1>4, Zenon DEF TypeOK, AllStarted
  <2>2. todo' \subseteq Pids /\ completed' \subseteq Pids /\ steady' \subseteq Pids
    BY <1>4, Zenon DEF TypeOK, AllStarted
  <2> QED
    BY <1>4, <2>1, <2>2 DEF TypeOK, AllStarted
<1>5. CASE CheckShutdown
  <2>1. /\ first' \in BOOLEAN /\ shutdown' \in BOOLEAN
        /\ aliveSeen' \in BOOLEAN /\ match' \in [Pids -> BOOLEAN]
    BY <1>5, Zenon DEF TypeOK, CheckShutdown, ActivePids
  <2>2. todo' \subseteq Pids /\ completed' \subseteq Pids /\ steady' \subseteq Pids
    BY <1>5, Zenon DEF TypeOK, CheckShutdown, ActivePids
  <2> QED
    BY <1>5, <2>1, <2>2 DEF TypeOK, CheckShutdown, ActivePids
<1>6. CASE ReapChecked
  BY <1>6 DEF TypeOK, ReapChecked
<1>7. CASE Reaped
  BY <1>7 DEF TypeOK, Reaped
<1>8. CASE NoDiscovery
  BY <1>8 DEF TypeOK, NoDiscovery
<1>9. CASE Wait
  BY <1>9 DEF TypeOK, Wait
<1>10. CASE ReturnOk
  BY <1>10 DEF TypeOK, ReturnOk
<1>11. CASE FinishJoin
  <2>1. /\ first' \in BOOLEAN /\ shutdown' \in BOOLEAN
        /\ aliveSeen' \in BOOLEAN /\ match' \in [Pids -> BOOLEAN]
    BY <1>11, Zenon DEF TypeOK, FinishJoin, Fail
  <2>2. todo' \subseteq Pids /\ completed' \subseteq Pids /\ steady' \subseteq Pids
    BY <1>11, Zenon DEF TypeOK, FinishJoin, Fail
  <2> QED
    BY <1>11, <2>1, <2>2 DEF TypeOK, FinishJoin, Fail
<1>12. ASSUME NEW p \in Pids, ReadName(p) PROVE TypeOK'
  <2>1. /\ first' \in BOOLEAN /\ shutdown' \in BOOLEAN
        /\ aliveSeen' \in BOOLEAN /\ match' \in [Pids -> BOOLEAN]
    BY <1>12, Zenon DEF TypeOK, ReadName, Fail
  <2>2. todo' \subseteq Pids /\ completed' \subseteq Pids /\ steady' \subseteq Pids
    BY <1>12, Zenon DEF TypeOK, ReadName, Fail
  <2> QED
    BY <1>12, <2>1, <2>2 DEF TypeOK, ReadName, Fail
<1>13. ASSUME NEW p \in Pids, SampleNext(p) PROVE TypeOK'
  <2>1. /\ first' \in BOOLEAN /\ shutdown' \in BOOLEAN
        /\ aliveSeen' \in BOOLEAN /\ match' \in [Pids -> BOOLEAN]
    BY <1>13, Zenon DEF TypeOK, SampleNext, Fail, Running
  <2>2. todo' \subseteq Pids /\ completed' \subseteq Pids /\ steady' \subseteq Pids
    BY <1>13, Zenon DEF TypeOK, SampleNext, Fail, Running
  <2> QED
    BY <1>13, <2>1, <2>2 DEF TypeOK, SampleNext, Fail, Running
<1>14. ASSUME NEW p \in Pids, SkipKnown(p) PROVE TypeOK'
  BY <1>14 DEF TypeOK, SkipKnown
<1>15. ASSUME NEW p \in Pids, FinishPrevious(p) PROVE TypeOK'
  <2>1. /\ first' \in BOOLEAN /\ shutdown' \in BOOLEAN
        /\ aliveSeen' \in BOOLEAN /\ match' \in [Pids -> BOOLEAN]
    BY <1>15, Zenon DEF TypeOK, FinishPrevious, Finish, Fail
  <2>2. todo' \subseteq Pids /\ completed' \subseteq Pids /\ steady' \subseteq Pids
    BY <1>15, Zenon DEF TypeOK, FinishPrevious, Finish, Fail
  <2> QED
    BY <1>15, <2>1, <2>2 DEF TypeOK, FinishPrevious, Finish, Fail
<1>16. ASSUME NEW p \in Pids, StartMonitor(p) PROVE TypeOK'
  <2>1. /\ first' \in BOOLEAN /\ shutdown' \in BOOLEAN
        /\ aliveSeen' \in BOOLEAN /\ match' \in [Pids -> BOOLEAN]
    BY <1>16, Zenon DEF TypeOK, StartMonitor, Fail
  <2>2. todo' \subseteq Pids /\ completed' \subseteq Pids /\ steady' \subseteq Pids
    BY <1>16, Zenon DEF TypeOK, StartMonitor, Fail
  <2>3. /\ UNCHANGED <<mode, births, pid, start, closing, back>>
        /\ main' \in {main, "returned"} /\ outcome' \in {outcome, "error"}
    BY <1>16 DEF StartMonitor, Fail, system, closer
  <2>4. active' \in [Pids -> Identities] /\ monitored' \in [Pids -> Identities]
    BY <1>16 DEF TypeOK, StartMonitor, maps
  <2>5. found' \in [Pids -> Identities] /\ status' \in [Incarnations -> Statuses]
    BY <1>16 DEF TypeOK, StartMonitor, Identities, Statuses
  <2> QED
    BY <1>16, <2>1, <2>2, <2>3, <2>4, <2>5 DEF TypeOK
<1>17. ASSUME NEW p \in Pids, ReapCheck(p) PROVE TypeOK'
  <2>1. /\ first' \in BOOLEAN /\ shutdown' \in BOOLEAN
        /\ aliveSeen' \in BOOLEAN /\ match' \in [Pids -> BOOLEAN]
    BY <1>17, Zenon DEF TypeOK, ReapCheck, Fail
  <2>2. todo' \subseteq Pids /\ completed' \subseteq Pids /\ steady' \subseteq Pids
    BY <1>17, Zenon DEF TypeOK, ReapCheck, Fail
  <2> QED
    BY <1>17, <2>1, <2>2 DEF TypeOK, ReapCheck, Fail
<1>18. ASSUME NEW p \in Pids, ReapFinish(p) PROVE TypeOK'
  <2>1. /\ first' \in BOOLEAN /\ shutdown' \in BOOLEAN
        /\ aliveSeen' \in BOOLEAN /\ match' \in [Pids -> BOOLEAN]
    BY <1>18, Zenon DEF TypeOK, ReapFinish, Finish, Fail
  <2>2. todo' \subseteq Pids /\ completed' \subseteq Pids /\ steady' \subseteq Pids
    BY <1>18, Zenon DEF TypeOK, ReapFinish, Finish, Fail
  <2> QED
    BY <1>18, <2>1, <2>2 DEF TypeOK, ReapFinish, Finish, Fail
<1>19. ASSUME NEW p \in Pids, DrainOne(p) PROVE TypeOK'
  <2>1. /\ first' \in BOOLEAN /\ shutdown' \in BOOLEAN
        /\ aliveSeen' \in BOOLEAN /\ match' \in [Pids -> BOOLEAN]
    BY <1>19, Zenon DEF TypeOK, DrainOne, Finish, Fail
  <2>2. todo' \subseteq Pids /\ completed' \subseteq Pids /\ steady' \subseteq Pids
    BY <1>19, Zenon DEF TypeOK, DrainOne, Finish, Fail
  <2> QED
    BY <1>19, <2>1, <2>2 DEF TypeOK, DrainOne, Finish, Fail
<1>20. ASSUME NEW p \in Pids, Born(p) PROVE TypeOK'
  BY <1>20 DEF TypeOK, Born
<1>21. ASSUME NEW p \in Pids, Dies(p) PROVE TypeOK'
  BY <1>21 DEF TypeOK, Dies
<1>22. ASSUME NEW p \in Pids, Renamed(p) PROVE TypeOK'
  BY <1>22 DEF TypeOK, Renamed
<1>23. ASSUME NEW b \in Incarnations, ThreadEnds(b) PROVE TypeOK'
  BY <1>23 DEF TypeOK, ThreadEnds
<1>24. CASE Interrupt
  BY <1>24 DEF TypeOK, Interrupt
<1>25. CASE Returned
  BY <1>25 DEF TypeOK, Returned
<1>26. CASE UNCHANGED vars
  BY <1>26 DEF TypeOK
<1> QED
  BY <1>1, <1>2, <1>3, <1>4, <1>5, <1>6, <1>7, <1>8, <1>9, <1>10, <1>11, <1>12,
     <1>13, <1>14, <1>15, <1>16, <1>17, <1>18, <1>19, <1>20, <1>21, <1>22,
     <1>23, <1>24, <1>25, <1>26
     DEF Next, OrchestratorStep, SystemStep

\* Every step keeps the rest of the invariant: sessions enter and leave the maps
\* together with their threads, identities of a pid only grow, and nothing is
\* finished without a reason.
LEMMA PartsStep == ASSUME OrchestratorInv, [Next]_vars, TypeOK' PROVE Parts'
<1> USE OrchestratorAssumption
    DEF OrchestratorInv, Parts, Incarnations, Identities, None, Steps, Statuses,
        Open, Held, ActivePids, Completed, Alive, InReap, InDrain,
        vars, system, maps, closer
<1>1. CASE SamplePid
  BY <1>1 DEF TypeOK, SessionsHeld, IdentitiesGrow, MonitoredKnown, ClosingOne,
     StopReasons, SamplePid, Fail, Running
<1>2. CASE List
  BY <1>2 DEF TypeOK, SessionsHeld, IdentitiesGrow, MonitoredKnown, ClosingOne,
     StopReasons, List, Fail
<1>3. CASE Discovered
  BY <1>3 DEF TypeOK, SessionsHeld, IdentitiesGrow, MonitoredKnown, ClosingOne,
     StopReasons, Discovered, Fail, Newest
<1>4. CASE AllStarted
  <2>1. SessionsHeld'
    <3>1. UNCHANGED <<pid, active, closing, outcome, status>>
      BY <1>4 DEF AllStarted
    <3> QED
      BY <3>1 DEF SessionsHeld
  <2>2. IdentitiesGrow' /\ MonitoredKnown' /\ ClosingOne' /\ StopReasons'
    BY <1>4 DEF TypeOK, IdentitiesGrow, MonitoredKnown, ClosingOne, StopReasons,
         AllStarted
  <2> QED
    BY <2>1, <2>2
<1>5. CASE CheckShutdown
  BY <1>5 DEF TypeOK, SessionsHeld, IdentitiesGrow, MonitoredKnown, ClosingOne,
     StopReasons, CheckShutdown, QuitRequested
<1>6. CASE ReapChecked
  BY <1>6 DEF TypeOK, SessionsHeld, IdentitiesGrow, MonitoredKnown, ClosingOne,
     StopReasons, ReapChecked
<1>7. CASE Reaped
  BY <1>7 DEF TypeOK, SessionsHeld, IdentitiesGrow, MonitoredKnown, ClosingOne,
     StopReasons, Reaped
<1>8. CASE NoDiscovery
  BY <1>8 DEF TypeOK, SessionsHeld, IdentitiesGrow, MonitoredKnown, ClosingOne,
     StopReasons, NoDiscovery
<1>9. CASE Wait
  BY <1>9 DEF TypeOK, SessionsHeld, IdentitiesGrow, MonitoredKnown, ClosingOne,
     StopReasons, Wait, QuitRequested
<1>10. CASE ReturnOk
  <2>1. SessionsHeld'
    BY <1>10 DEF TypeOK, SessionsHeld, ClosingOne, IdentitiesGrow, StopReasons,
         ReturnOk, Drained
  <2>2. IdentitiesGrow' /\ MonitoredKnown'
    BY <1>10 DEF TypeOK, IdentitiesGrow, MonitoredKnown, ReturnOk, Drained
  <2>3. ClosingOne'
    BY <1>10 DEF TypeOK, ClosingOne, IdentitiesGrow, StopReasons, ReturnOk,
         Drained
  <2>4. StopReasons'
    BY <1>10 DEF TypeOK, StopReasons, ClosingOne, IdentitiesGrow, ReturnOk,
         Drained
  <2> QED
    BY <2>1, <2>2, <2>3, <2>4
<1>11. CASE FinishJoin
  <2>1. SessionsHeld'
    BY <1>11 DEF TypeOK, SessionsHeld, ClosingOne, IdentitiesGrow, StopReasons,
         FinishJoin, Fail
  <2>2. IdentitiesGrow' /\ MonitoredKnown'
    BY <1>11 DEF TypeOK, IdentitiesGrow, MonitoredKnown, ClosingOne,
         SessionsHeld, FinishJoin, Fail
  <2>3. ClosingOne'
    BY <1>11 DEF TypeOK, ClosingOne, IdentitiesGrow, StopReasons, FinishJoin,
         Fail
  <2>4. StopReasons'
    BY <1>11 DEF TypeOK, StopReasons, ClosingOne, IdentitiesGrow, FinishJoin,
         Fail
  <2> QED
    BY <2>1, <2>2, <2>3, <2>4
<1>12. ASSUME NEW p \in Pids, ReadName(p) PROVE Parts'
  BY <1>12 DEF TypeOK, SessionsHeld, IdentitiesGrow, MonitoredKnown, ClosingOne,
     StopReasons, ReadName, Fail
<1>13. ASSUME NEW p \in Pids, SampleNext(p) PROVE Parts'
  <2>1. SessionsHeld'
    BY <1>13 DEF TypeOK, SessionsHeld, ClosingOne, IdentitiesGrow, SampleNext, Fail, Running
  <2>2. IdentitiesGrow' /\ MonitoredKnown'
    BY <1>13 DEF TypeOK, IdentitiesGrow, MonitoredKnown, SampleNext, Fail, Running
  <2>3. ClosingOne'
    BY <1>13 DEF TypeOK, ClosingOne, IdentitiesGrow, SampleNext, Fail, Running
  <2>4. StopReasons'
    BY <1>13 DEF TypeOK, StopReasons, ClosingOne, IdentitiesGrow, SampleNext, Fail, Running
  <2> QED
    BY <2>1, <2>2, <2>3, <2>4
<1>14. ASSUME NEW p \in Pids, SkipKnown(p) PROVE Parts'
  <2>1. SessionsHeld'
    BY <1>14 DEF TypeOK, SessionsHeld, ClosingOne, IdentitiesGrow, SkipKnown, Known
  <2>2. IdentitiesGrow' /\ MonitoredKnown'
    BY <1>14 DEF TypeOK, IdentitiesGrow, MonitoredKnown, SkipKnown, Known
  <2>3. ClosingOne'
    BY <1>14 DEF TypeOK, ClosingOne, IdentitiesGrow, SkipKnown, Known
  <2>4. StopReasons'
    BY <1>14 DEF TypeOK, StopReasons, ClosingOne, IdentitiesGrow, SkipKnown, Known
  <2> QED
    BY <2>1, <2>2, <2>3, <2>4
<1>15. ASSUME NEW p \in Pids, FinishPrevious(p) PROVE Parts'
  <2>1. SessionsHeld'
    BY <1>15 DEF TypeOK, SessionsHeld, ClosingOne, IdentitiesGrow, StopReasons,
         FinishPrevious, Finish, Fail, Known, Reused, First, FoundPids
  <2>2. IdentitiesGrow' /\ MonitoredKnown'
    BY <1>15 DEF TypeOK, IdentitiesGrow, MonitoredKnown, FinishPrevious,
         Finish, Fail, Known, Reused, First, FoundPids
  <2>3. ClosingOne'
    BY <1>15 DEF TypeOK, ClosingOne, IdentitiesGrow, StopReasons,
         FinishPrevious, Finish, Fail, Known, Reused, First, FoundPids
  <2>4. StopReasons'
    BY <1>15 DEF TypeOK, StopReasons, ClosingOne, IdentitiesGrow,
         FinishPrevious, Finish, Fail, Known, Reused, First, FoundPids
  <2> QED
    BY <2>1, <2>2, <2>3, <2>4
<1>16. ASSUME NEW p \in Pids, StartMonitor(p) PROVE Parts'
  <2> SUFFICES ASSUME outcome' = outcome PROVE Parts'
    BY <1>16 DEF StartMonitor, Fail, TypeOK, SessionsHeld, IdentitiesGrow,
         MonitoredKnown, ClosingOne, StopReasons
  <2> DEFINE b == found[p]
  <2>0. /\ main = "start" /\ outcome = "none" /\ b \in Incarnations
        /\ active[p] = None /\ pid[b] = p /\ b <= births
        /\ monitored[p] <= b /\ monitored[p] # b /\ monitored[p] \in Identities
    BY <1>16 DEF StartMonitor, Known, Reused, First, FoundPids, TypeOK,
         IdentitiesGrow, ClosingOne
  <2>1. /\ main = "start" /\ outcome = "none" /\ b \in Incarnations
        /\ active[p] = None /\ pid[b] = p /\ b <= births /\ monitored[p] < b
    BY <2>0
  <2>2. status[b] = "none"
    <3>1. status[b] # "none" => b <= monitored[p]
      BY <2>1 DEF MonitoredKnown
    <3>2. b \in Nat /\ monitored[p] \in Nat /\ ~(b <= monitored[p])
      BY <2>0
    <3> QED  BY <3>1, <3>2
  <2>3. /\ status' = [status EXCEPT ![b] = "open"]
        /\ monitored' = [monitored EXCEPT ![p] = b]
        /\ active' = [active EXCEPT ![p] = b]
        /\ found' = [found EXCEPT ![p] = None]
        /\ UNCHANGED <<system, main, todo, completed, closer, outcome>>
    BY <1>16, <2>1 DEF StartMonitor, Fail, ClosingOne
  <2> HIDE DEF b
  <2>4. SessionsHeld'
    <3>1. Open' = Open \cup {b}
      BY <2>1, <2>3 DEF TypeOK
    <3>2. Held' = Held \cup {b}
      BY <2>1, <2>3 DEF TypeOK
    <3> HIDE DEF Open, Held
    <3> QED
      BY <2>1, <2>3, <3>1, <3>2 DEF SessionsHeld, TypeOK
  <2>5. IdentitiesGrow'
    BY <1>16, <2>1, <2>3 DEF StartMonitor, First, FoundPids, TypeOK, IdentitiesGrow, b
  <2>6. MonitoredKnown'
    BY <2>1, <2>3 DEF TypeOK, MonitoredKnown
  <2>7. ClosingOne'
    BY <2>1, <2>3 DEF TypeOK, ClosingOne
  <2>8. StopReasons'
    BY <2>1, <2>3 DEF TypeOK, StopReasons, ClosingOne
  <2> QED
    BY <2>4, <2>5, <2>6, <2>7, <2>8
<1>17. ASSUME NEW p \in Pids, ReapCheck(p) PROVE Parts'
  BY <1>17 DEF TypeOK, SessionsHeld, IdentitiesGrow, MonitoredKnown, ClosingOne,
     StopReasons, ReapCheck, Fail
<1>18. ASSUME NEW p \in Pids, ReapFinish(p) PROVE Parts'
  <2>1. SessionsHeld'
    BY <1>18 DEF TypeOK, SessionsHeld, ClosingOne, IdentitiesGrow, StopReasons,
         ReapFinish, Finish, Fail
  <2>2. IdentitiesGrow' /\ MonitoredKnown'
    BY <1>18 DEF TypeOK, IdentitiesGrow, MonitoredKnown, ReapFinish, Finish,
         Fail
  <2>3. ClosingOne'
    BY <1>18 DEF TypeOK, ClosingOne, IdentitiesGrow, StopReasons, ReapFinish,
         Finish, Fail
  <2>4. StopReasons'
    BY <1>18 DEF TypeOK, StopReasons, ClosingOne, IdentitiesGrow, ReapFinish,
         Finish, Fail
  <2> QED
    BY <2>1, <2>2, <2>3, <2>4
<1>19. ASSUME NEW p \in Pids, DrainOne(p) PROVE Parts'
  <2>1. SessionsHeld'
    BY <1>19 DEF TypeOK, SessionsHeld, ClosingOne, IdentitiesGrow, StopReasons,
         DrainOne, Finish, Fail
  <2>2. IdentitiesGrow' /\ MonitoredKnown'
    BY <1>19 DEF TypeOK, IdentitiesGrow, MonitoredKnown, DrainOne, Finish, Fail
  <2>3. ClosingOne'
    BY <1>19 DEF TypeOK, ClosingOne, IdentitiesGrow, StopReasons, DrainOne,
         Finish, Fail
  <2>4. StopReasons'
    BY <1>19 DEF TypeOK, StopReasons, ClosingOne, IdentitiesGrow, DrainOne,
         Finish, Fail
  <2> QED
    BY <2>1, <2>2, <2>3, <2>4
<1>20. ASSUME NEW p \in Pids, Born(p) PROVE Parts'
  BY <1>20 DEF TypeOK, SessionsHeld, IdentitiesGrow, MonitoredKnown, ClosingOne,
     StopReasons, Born
<1>21. ASSUME NEW p \in Pids, Dies(p) PROVE Parts'
  BY <1>21 DEF TypeOK, SessionsHeld, IdentitiesGrow, MonitoredKnown, ClosingOne,
     StopReasons, Dies
<1>22. ASSUME NEW p \in Pids, Renamed(p) PROVE Parts'
  BY <1>22 DEF TypeOK, SessionsHeld, IdentitiesGrow, MonitoredKnown, ClosingOne,
     StopReasons, Renamed
<1>23. ASSUME NEW b \in Incarnations, ThreadEnds(b) PROVE Parts'
  BY <1>23 DEF TypeOK, SessionsHeld, IdentitiesGrow, MonitoredKnown, ClosingOne,
     StopReasons, ThreadEnds
<1>24. CASE Interrupt
  BY <1>24 DEF TypeOK, SessionsHeld, IdentitiesGrow, MonitoredKnown, ClosingOne,
     StopReasons, Interrupt
<1>25. CASE Returned
  BY <1>25 DEF TypeOK, SessionsHeld, IdentitiesGrow, MonitoredKnown, ClosingOne,
     StopReasons, Returned
<1>26. CASE UNCHANGED vars
  BY <1>26 DEF TypeOK, SessionsHeld, IdentitiesGrow, MonitoredKnown,
       ClosingOne, StopReasons
<1> QED
  BY <1>1, <1>2, <1>3, <1>4, <1>5, <1>6, <1>7, <1>8, <1>9, <1>10, <1>11, <1>12,
     <1>13, <1>14, <1>15, <1>16, <1>17, <1>18, <1>19, <1>20, <1>21, <1>22,
     <1>23, <1>24, <1>25, <1>26
     DEF Next, OrchestratorStep, SystemStep

\* Together: the invariant is inductive.
LEMMA StepInv == ASSUME OrchestratorInv, [Next]_vars PROVE OrchestratorInv'
BY TypeStep, PartsStep DEF OrchestratorInv, Parts

\* The invariant holds in every reachable state of monitor_processes.
THEOREM OrchestratorInvariant == Spec => []OrchestratorInv
BY InitInv, StepInv, PTL DEF Spec

\* Sessions are never lost or replaced without being finished, and an Ok return
\* leaves none behind.
THEOREM NoSessionLost == Spec => []SessionsHeld
<1>1. OrchestratorInv => SessionsHeld
  BY DEF OrchestratorInv
<1> QED
  BY OrchestratorInvariant, <1>1, PTL

\* start_new_monitors never starts a second session for the same process.
THEOREM NeverMonitoredTwice == Spec => MonitoredOnce
<1>1. ASSUME OrchestratorInv, [Next]_vars, NEW b \in Incarnations,
             status[b] # "open", status'[b] = "open"
      PROVE status[b] = "none"
  <2>1. PICK p \in Pids : StartMonitor(p)
    BY <1>1 DEF Next, OrchestratorStep, SystemStep, vars, OrchestratorInv, TypeOK,
         SamplePid, List, Discovered, AllStarted, CheckShutdown, ReapChecked, Reaped,
         NoDiscovery, Wait, ReturnOk, FinishJoin, ReadName, SampleNext, SkipKnown,
         FinishPrevious, ReapCheck, ReapFinish, DrainOne, Born, Dies, Renamed,
         ThreadEnds, Interrupt, Returned
  <2>2. b = found[p]
    BY <1>1, <2>1 DEF StartMonitor, OrchestratorInv, TypeOK, Identities
  <2>3. found[p] # None /\ monitored[p] # found[p]
    BY <2>1, Zenon DEF StartMonitor, Known, First, FoundPids
  <2>4. /\ pid[b] = p /\ monitored[p] <= b /\ monitored[p] # b
        /\ monitored[p] \in Identities
    BY <1>1, <2>2, <2>3 DEF OrchestratorInv, TypeOK, IdentitiesGrow
  <2> QED
    BY <1>1, <2>4, OrchestratorAssumption DEF OrchestratorInv, TypeOK, MonitoredKnown,
         Incarnations, Identities, None
<1>2. OrchestratorInv /\ [Next]_vars =>
        [\A b \in Incarnations :
           status[b] # "open" /\ status'[b] = "open" => status[b] = "none"]_vars
  BY <1>1
<1> QED
  BY OrchestratorInvariant, <1>2, PTL DEF Spec, MonitoredOnce

\* A session all of whose threads are running is only finished after Ctrl-C or when
\* its process no longer exists.
THEOREM NeverStoppedEarly == Spec => StopsForAReason
<1>1. ASSUME OrchestratorInv, [Next]_vars, NEW b \in Incarnations,
             status[b] = "open", Joined(b)'
      PROVE shutdown \/ ~Alive(b)
  <2>1. FinishJoin
    BY <1>1 DEF Joined, Next, OrchestratorStep, SystemStep, vars, OrchestratorInv, TypeOK,
         SamplePid, List, Discovered, AllStarted, CheckShutdown, ReapChecked, Reaped,
         NoDiscovery, Wait, ReturnOk, StartMonitor, ReadName, SampleNext, SkipKnown,
         FinishPrevious, ReapCheck, ReapFinish, DrainOne, Born, Dies, Renamed,
         ThreadEnds, Interrupt, Returned
  <2>2. b = closing
    BY <1>1, <2>1 DEF FinishJoin, Joined, OrchestratorInv, TypeOK
  <2> QED
    BY <1>1, <2>1, <2>2 DEF FinishJoin, OrchestratorInv, StopReasons
<1>2. OrchestratorInv /\ [Next]_vars =>
        [\A b \in Incarnations :
           status[b] = "open" /\ Joined(b)' => shutdown \/ ~Alive(b)]_vars
  BY <1>1
<1> QED
  BY OrchestratorInvariant, <1>2, PTL DEF Spec, StopsForAReason
-----------------------------------------------------------------------------
(* What a round of discovery finds, and what an Ok return means.           *)

\* Where a round is reading /proc, and where it is starting the sessions it found.
Scanning == main \in {"scan", "sample"}
Starting == main = "start" \/ (main = "closing" /\ back = "start")

\* What was monitored once has a session.
MonitoredStarted == \A p \in Pids : monitored[p] # None => status[monitored[p]] # "none"

\* A steady pid still has the process that was listed, and matches.
SteadyRuns == \A p \in steady : Running(p) /\ match[p]

\* Every steady pid has a session, or the round will still come to it.
RoundCovers ==
  mode \in {"wait", "group"} /\ main # "returned" =>
    \A p \in steady : \/ status[start[p]] # "none"
                      \/ Scanning /\ p \in todo
                      \/ (Scanning \/ Starting) /\ found[p] = start[p]

\* The same for -p name, where a newer process may take the place of each.
NewestCovers ==
  mode = "name" /\ main # "returned" =>
    \A p \in steady : \/ \E b \in Incarnations : start[p] <= b /\ status[b] # "none"
                      \/ Scanning /\ (p \in todo \/ found[p] = start[p])
                      \/ Starting /\ \E q \in Pids : found[q] # None /\ start[p] <= found[q]

\* The first round ends with a target, but for a wait.
FirstRound ==
  /\ first => main \in {"begin", "scan", "sample", "returned"} \/ Starting
  /\ mode = "pid" => ~Scanning
  /\ mode # "wait" =>
       \/ \E b \in Incarnations : status[b] # "none"
       \/ first /\ (Starting => FoundPids # {})

\* The loop is left with Ctrl-C, or when all that was started is joined.
DrainReason ==
  (InDrain \/ outcome = "ok") /\ ~shutdown =>
    mode # "wait" /\ \E b \in Incarnations : Joined(b)

\* What was stopped while all its threads ran had a reason, and still has it: no process
\* comes back.
StoppedReason ==
  \A b \in Incarnations : status[b] = "stopped" => shutdown \/ ~Alive(b)

\* The inductive invariant of the rounds, on top of OrchestratorInv.
RoundInv ==
  /\ MonitoredStarted /\ SteadyRuns /\ RoundCovers /\ NewestCovers
  /\ FirstRound /\ DrainReason /\ StoppedReason

NatLess == {nn \in Nat \X Nat : nn[1] < nn[2]}
\* Every set of numbers that is not empty has a least one: < is well-founded on Nat.
LEMMA LeastNat ==
  ASSUME NEW T, T \subseteq Nat, T # {}
  PROVE  \E a \in T : \A b \in T : a <= b
<1>1. IsWellFoundedOn(NatLess, Nat)
  BY NatLessThanWellFounded DEF OpToRel, NatLess
<1>2. PICK a \in T : \A b \in T : ~(<<b, a>> \in NatLess)
  BY <1>1, WFMin
<1>3. \A b \in T : ~(b < a)
  BY <1>2 DEF NatLess
<1> QED  BY <1>3

\* Some discovered process is the newest: max_by_key of a non-empty list has a result.
LEMMA NewestExists ==
  ASSUME TypeOK, FoundPids # {}
  PROVE  \E q \in Pids : found[q] # None /\ \A r \in Pids : found[r] <= found[q]
<1> DEFINE Ages == {MaxBirths - found[p] : p \in Pids}
<1>1. found \in [Pids -> 0..MaxBirths] /\ MaxBirths \in Nat /\ None = 0
  BY OrchestratorAssumption DEF TypeOK, Identities, Incarnations, None
<1>2. PICK p \in Pids : found[p] # None
  BY DEF FoundPids
<1>3. Ages \subseteq Nat /\ Ages # {}
  BY <1>1, <1>2
<1>4. PICK a \in Ages : \A b \in Ages : a <= b
  BY <1>3, LeastNat
<1>5. PICK q \in Pids : a = MaxBirths - found[q]
  BY <1>4
<1>6. \A r \in Pids : found[r] <= found[q]
  BY <1>1, <1>4, <1>5
<1> QED  BY <1>1, <1>2, <1>6

\* A session, once there, stays: status is never reset.
LEMMA StatusStays ==
  ASSUME TypeOK, [Next]_vars, NEW b \in Incarnations, status[b] # "none"
  PROVE  status'[b] # "none"
<1>1. status \in [Incarnations -> Statuses]
  BY DEF TypeOK
<1>2. ASSUME NEW p \in Pids, StartMonitor(p) PROVE status'[b] # "none"
  BY <1>1, <1>2 DEF StartMonitor
<1>3. CASE FinishJoin
  BY <1>1, <1>3 DEF FinishJoin
<1>4. ASSUME NEW c \in Incarnations, ThreadEnds(c) PROVE status'[b] # "none"
  BY <1>1, <1>4 DEF ThreadEnds
<1>5. \/ status' = status \/ FinishJoin
      \/ \E p \in Pids : StartMonitor(p)
      \/ \E c \in Incarnations : ThreadEnds(c)
  BY DEF Next, OrchestratorStep, SystemStep, vars, SamplePid, List, Discovered, AllStarted,
     CheckShutdown, ReapChecked, Reaped, NoDiscovery, Wait, ReturnOk, ReadName, SampleNext,
     SkipKnown, FinishPrevious, ReapCheck, ReapFinish, DrainOne, Born, Dies, Renamed, Interrupt,
     Returned
<1> QED  BY <1>2, <1>3, <1>4, <1>5

\* What was monitored once has a session.
LEMMA MonitoredStep ==
  ASSUME OrchestratorInv, MonitoredStarted, [Next]_vars
  PROVE  MonitoredStarted'
<1>0. /\ monitored \in [Pids -> Identities] /\ found \in [Pids -> Identities]
      /\ status \in [Incarnations -> Statuses]
  BY DEF OrchestratorInv, TypeOK
<1>1. CASE monitored' = monitored
  <2>1. \A b \in Incarnations : status[b] # "none" => status'[b] # "none"
    BY StatusStays DEF OrchestratorInv
  <2> QED  BY <1>0, <1>1, <2>1 DEF MonitoredStarted, Identities
<1>2. ASSUME NEW p \in Pids, StartMonitor(p) PROVE MonitoredStarted'
  <2>1. \/ monitored' = monitored
        \/ /\ status' = [status EXCEPT ![found[p]] = "open"]
           /\ monitored' = [monitored EXCEPT ![p] = found[p]]
    BY <1>2 DEF StartMonitor, maps
  <2>2. found[p] \in Incarnations
    BY <1>0, <1>2 DEF StartMonitor, First, FoundPids, Identities
  <2>3. CASE monitored' # monitored
    BY <1>0, <2>1, <2>2, <2>3 DEF MonitoredStarted, Identities
  <2> QED  BY <1>1, <2>3
<1>3. monitored' = monitored \/ \E p \in Pids : StartMonitor(p)
  BY DEF Next, OrchestratorStep, SystemStep, vars, maps, SamplePid, List, Discovered, AllStarted,
     CheckShutdown, ReapChecked, Reaped, NoDiscovery, Wait, ReturnOk, FinishJoin, ReadName,
     SampleNext, SkipKnown, FinishPrevious, ReapCheck, ReapFinish, DrainOne, Born, Dies, Renamed,
     ThreadEnds, Interrupt, Returned
<1> QED  BY <1>1, <1>2, <1>3

\* A steady pid keeps its process and its match.
LEMMA SteadyStep ==
  ASSUME TypeOK, SteadyRuns, [Next]_vars
  PROVE  SteadyRuns' /\ (~List => steady' \subseteq steady /\ \A p \in steady' : start'[p] = start[p])
<1>0. start \in [Pids -> Identities] /\ match \in [Pids -> BOOLEAN] /\ steady \subseteq Pids
  BY DEF TypeOK
<1>1. CASE List
  BY <1>0, <1>1 DEF List, SteadyRuns, Running, system
<1>2. ASSUME ~List, steady' \subseteq steady,
             \A p \in steady' : start'[p] = start[p] /\ match'[p] = match[p]
      PROVE  SteadyRuns'
  BY <1>2 DEF SteadyRuns, Running
<1>3. ASSUME NEW p \in Pids, Born(p) \/ Dies(p) \/ Renamed(p)
      PROVE  steady' \subseteq steady /\ \A q \in steady' : start'[q] = start[q] /\ match'[q] = match[q]
  BY <1>0, <1>3 DEF Born, Dies, Renamed, SteadyRuns, Running
<1>4. ASSUME ~List, ~\E p \in Pids : Born(p) \/ Dies(p) \/ Renamed(p)
      PROVE  steady' \subseteq steady /\ start' = start /\ match' = match
  BY <1>4 DEF Next, OrchestratorStep, SystemStep, vars, system, SamplePid, Discovered, AllStarted,
     CheckShutdown, ReapChecked, Reaped, NoDiscovery, Wait, ReturnOk, FinishJoin, ReadName,
     SampleNext, SkipKnown, FinishPrevious, StartMonitor, ReapCheck, ReapFinish, DrainOne,
     ThreadEnds, Interrupt, Returned
<1> QED  BY <1>1, <1>2, <1>3, <1>4
\* The pids of the round: each step of the orchestrator takes at most the next one out of todo,
\* and keeps or replaces what was found.
LEMMA CoversStep ==
  ASSUME OrchestratorInv, RoundInv, [Next]_vars
  PROVE  RoundCovers'
<1> SUFFICES ASSUME mode' \in {"wait", "group"}, main' # "returned", NEW p \in steady'
             PROVE  \/ status'[start'[p]] # "none"
                    \/ Scanning' /\ p \in todo'
                    \/ (Scanning' \/ Starting') /\ found'[p] = start'[p]
  BY DEF RoundCovers
<1> DEFINE Goal == \/ status'[start'[p]] # "none"
                   \/ Scanning' /\ p \in todo'
                   \/ (Scanning' \/ Starting') /\ found'[p] = start'[p]
<1>0. /\ TypeOK /\ mode' = mode /\ main # "returned"
      /\ start \in [Pids -> Identities] /\ found \in [Pids -> Identities]
  BY DEF OrchestratorInv, TypeOK, Next, OrchestratorStep, SystemStep, vars, system, SamplePid,
     List, Discovered, AllStarted, CheckShutdown, ReapChecked, Reaped, NoDiscovery, Wait, ReturnOk,
     FinishJoin, ReadName, SampleNext, SkipKnown, StartMonitor, FinishPrevious, ReapCheck,
     ReapFinish, DrainOne, Born, Dies, Renamed, ThreadEnds, Interrupt, Returned
<1>1. CASE List
  BY <1>1 DEF List, Fail, Scanning
<1> SUFFICES ASSUME ~List PROVE Goal
  BY <1>1
<1>2. p \in steady /\ p \in Pids /\ start'[p] = start[p] /\ start[p] \in Incarnations /\ match[p]
  BY <1>0, SteadyStep DEF RoundInv, SteadyRuns, Running, TypeOK, Identities
<1>3. \/ status[start[p]] # "none"
      \/ Scanning /\ p \in todo
      \/ (Scanning \/ Starting) /\ found[p] = start[p]
  BY <1>0, <1>2 DEF RoundInv, RoundCovers
<1>4. CASE status[start[p]] # "none"
  BY <1>0, <1>2, <1>4, StatusStays
<1> SUFFICES ASSUME status[start[p]] = "none" PROVE Goal
  BY <1>4
<1>5. CASE \E q \in Pids : ReadName(q) \/ SampleNext(q)
  <2>1. PICK q \in Pids : ReadName(q) \/ SampleNext(q)
    BY <1>5
  <2>2. CASE q = p
    BY <1>0, <1>2, <1>3, <2>1, <2>2 DEF ReadName, SampleNext, Fail, Scanning, Starting
  <2>3. CASE q # p
    BY <1>0, <1>2, <1>3, <2>1, <2>3 DEF ReadName, SampleNext, Fail, Scanning, Starting
  <2> QED  BY <2>2, <2>3
<1>6. CASE Discovered
  BY <1>0, <1>2, <1>3, <1>6 DEF Discovered, Fail, Scanning, Starting
<1>7. CASE \E q \in Pids : SkipKnown(q) \/ FinishPrevious(q) \/ StartMonitor(q)
  <2>1. PICK q \in Pids : SkipKnown(q) \/ FinishPrevious(q) \/ StartMonitor(q)
    BY <1>7
  <2>2. main = "start" /\ found[p] = start[p]
    BY <1>3, <2>1 DEF SkipKnown, FinishPrevious, StartMonitor, Scanning, Starting
  <2>3. ~(Known(p) /\ found[p] # None)
    BY <1>2, <2>2 DEF Known, OrchestratorInv, IdentitiesGrow, RoundInv, MonitoredStarted, Incarnations, None
  <2>4. CASE q = p
    BY <1>0, <1>2, <2>1, <2>2, <2>3, <2>4 DEF SkipKnown, FinishPrevious, StartMonitor, First,
       FoundPids, Finish, Fail, Starting, TypeOK
  <2>5. CASE q # p
    BY <1>0, <1>2, <2>1, <2>2, <2>5 DEF SkipKnown, FinishPrevious, StartMonitor, Finish, Fail, Starting
  <2> QED  BY <2>4, <2>5
<1>8. CASE AllStarted
  BY <1>2, <1>3, <1>8 DEF AllStarted, FoundPids, Scanning, Starting, Incarnations, None
<1>9. CASE FinishJoin
  BY <1>2, <1>3, <1>9 DEF FinishJoin, Fail, Scanning, Starting
<1>10. CASE SystemStep \/ UNCHANGED vars
  <2>1. UNCHANGED <<main, back, found, todo>>
    BY <1>10 DEF SystemStep, Born, Dies, Renamed, ThreadEnds, Interrupt, vars, closer
  <2> QED  BY <1>2, <1>3, <2>1 DEF Scanning, Starting
<1>11. CASE \/ SamplePid \/ CheckShutdown \/ ReapChecked \/ Reaped \/ NoDiscovery \/ Wait \/ ReturnOk
            \/ \E q \in Pids : ReapCheck(q) \/ ReapFinish(q) \/ DrainOne(q)
  <2>1. ~Scanning /\ ~Starting
    BY <1>11 DEF SamplePid, CheckShutdown, ReapChecked, Reaped, NoDiscovery, Wait, ReturnOk,
       ReapCheck, ReapFinish, DrainOne, Scanning, Starting
  <2> QED  BY <1>3, <2>1
<1> QED
  BY <1>5, <1>6, <1>7, <1>8, <1>9, <1>10, <1>11 DEF Next, OrchestratorStep, Returned
\* With -p name a newer process may take the place of the one that was found.
LEMMA NewestStep ==
  ASSUME OrchestratorInv, RoundInv, [Next]_vars
  PROVE  NewestCovers'
<1> DEFINE Started(p) == \E b \in Incarnations : start[p] <= b /\ status[b] # "none"
           Found(p)   == \E q \in Pids : found[q] # None /\ start[p] <= found[q]
           Goal(p)    == \/ Started(p)'
                         \/ Scanning' /\ (p \in todo' \/ found'[p] = start'[p])
                         \/ Starting' /\ Found(p)'
<1> SUFFICES ASSUME mode' = "name", main' # "returned", NEW p \in steady' PROVE Goal(p)
  BY DEF NewestCovers
<1>0. /\ TypeOK /\ mode' = mode /\ main # "returned"
      /\ start \in [Pids -> Identities] /\ found \in [Pids -> Identities]
  BY DEF OrchestratorInv, TypeOK, Next, OrchestratorStep, SystemStep, vars, system, SamplePid,
     List, Discovered, AllStarted, CheckShutdown, ReapChecked, Reaped, NoDiscovery, Wait, ReturnOk,
     FinishJoin, ReadName, SampleNext, SkipKnown, StartMonitor, FinishPrevious, ReapCheck,
     ReapFinish, DrainOne, Born, Dies, Renamed, ThreadEnds, Interrupt, Returned
<1>1. CASE List
  BY <1>1 DEF List, Fail, Scanning
<1> SUFFICES ASSUME ~List PROVE Goal(p)
  BY <1>1
<1>2. p \in steady /\ p \in Pids /\ start'[p] = start[p] /\ start[p] \in Incarnations /\ match[p]
  BY <1>0, SteadyStep DEF RoundInv, SteadyRuns, Running, TypeOK, Identities
<1>3. \/ Started(p)
      \/ Scanning /\ (p \in todo \/ found[p] = start[p])
      \/ Starting /\ Found(p)
  BY <1>0, <1>2 DEF RoundInv, NewestCovers
<1>4. CASE Started(p)
  <2>1. \A b \in Incarnations : status[b] # "none" => status'[b] # "none"
    BY <1>0, StatusStays
  <2> QED  BY <1>2, <1>4, <2>1
<1> SUFFICES ASSUME ~Started(p) PROVE Goal(p)
  BY <1>4
<1>5. CASE \E q \in Pids : ReadName(q) \/ SampleNext(q)
  <2>1. PICK q \in Pids : ReadName(q) \/ SampleNext(q)
    BY <1>5
  <2>2. Scanning /\ (p \in todo \/ found[p] = start[p])
    BY <1>3, <2>1 DEF ReadName, SampleNext, Scanning, Starting
  <2>3. Scanning'
    BY <2>1 DEF ReadName, SampleNext, Fail, Scanning
  <2>4. p \in todo' \/ found'[p] = start'[p]
    BY <1>0, <1>2, <2>1, <2>2 DEF ReadName, SampleNext, Fail
  <2> QED  BY <2>3, <2>4
<1>6. CASE Discovered
  <2>1. found[p] = start[p] /\ found[p] # None
    BY <1>2, <1>3, <1>6 DEF Discovered, Scanning, Starting, Incarnations, None
  <2>2. PICK q \in Pids : found[q] # None /\ \A r \in Pids : found[r] <= found[q]
    BY <1>0, <1>2, <2>1, NewestExists DEF FoundPids
  <2>3. found' = Newest /\ Starting'
    BY <1>0, <1>6 DEF Discovered, Fail, Starting
  <2>4. found'[q] = found[q]
    BY <2>2, <2>3 DEF Newest
  <2> QED  BY <1>2, <2>1, <2>2, <2>3, <2>4
<1>7. CASE \E q \in Pids : SkipKnown(q) \/ FinishPrevious(q) \/ StartMonitor(q)
  <2>1. PICK q \in Pids : SkipKnown(q) \/ FinishPrevious(q) \/ StartMonitor(q)
    BY <1>7
  <2>2. Found(p)
    BY <1>3, <2>1 DEF SkipKnown, FinishPrevious, StartMonitor, Scanning, Starting
  <2>3. PICK r \in Pids : found[r] # None /\ start[p] <= found[r]
    BY <2>2
  <2>4. found[r] \in Incarnations
    BY <1>0, <2>3 DEF Identities
  <2>5. status[found[r]] = "none" /\ ~Known(r)
    BY <2>3, <2>4 DEF Known, OrchestratorInv, IdentitiesGrow, RoundInv, MonitoredStarted
  <2>6. CASE q # r
    <3>1. found'[r] = found[r] /\ Starting'
      BY <1>0, <2>1, <2>6 DEF SkipKnown, FinishPrevious, StartMonitor, Finish, Fail, Starting
    <3> QED  BY <1>2, <2>3, <3>1
  <2>7. CASE q = r
    <3>1. \/ found' = found /\ Starting'
          \/ status' = [status EXCEPT ![found[r]] = "open"]
      BY <2>1, <2>5, <2>7 DEF SkipKnown, FinishPrevious, StartMonitor, Finish, Fail, Starting
    <3> QED  BY <1>0, <1>2, <2>3, <2>4, <3>1 DEF TypeOK
  <2> QED  BY <2>6, <2>7
<1>8. CASE AllStarted
  BY <1>3, <1>8 DEF AllStarted, FoundPids, Scanning, Starting
<1>9. CASE FinishJoin
  BY <1>2, <1>3, <1>9 DEF FinishJoin, Fail, Scanning, Starting
<1>10. CASE SystemStep \/ UNCHANGED vars
  <2>1. UNCHANGED <<main, back, found, todo>>
    BY <1>10 DEF SystemStep, Born, Dies, Renamed, ThreadEnds, Interrupt, vars, closer
  <2> QED  BY <1>2, <1>3, <2>1 DEF Scanning, Starting
<1>11. CASE \/ SamplePid \/ CheckShutdown \/ ReapChecked \/ Reaped \/ NoDiscovery \/ Wait \/ ReturnOk
            \/ \E q \in Pids : ReapCheck(q) \/ ReapFinish(q) \/ DrainOne(q)
  <2>1. ~Scanning /\ ~Starting
    BY <1>11 DEF SamplePid, CheckShutdown, ReapChecked, Reaped, NoDiscovery, Wait, ReturnOk,
       ReapCheck, ReapFinish, DrainOne, Scanning, Starting
  <2> QED  BY <1>3, <2>1
<1> QED
  BY <1>5, <1>6, <1>7, <1>8, <1>9, <1>10, <1>11 DEF Next, OrchestratorStep, Returned
\* The first round: it starts a session of what it found, or fails.
LEMMA FirstRoundStep ==
  ASSUME OrchestratorInv, RoundInv, [Next]_vars
  PROVE  FirstRound'
<1> DEFINE Started == \E b \in Incarnations : status[b] # "none"
           Where   == /\ first => main \in {"begin", "scan", "sample", "returned"} \/ Starting
                      /\ mode = "pid" => ~Scanning
           Goal    == Started \/ (first /\ (Starting => FoundPids # {}))
<1>0. /\ TypeOK /\ mode' = mode /\ main \in Steps /\ back \in {"start", "reapFinish", "drain"}
      /\ found \in [Pids -> Identities] /\ status \in [Incarnations -> Statuses]
  BY DEF OrchestratorInv, TypeOK, Next, OrchestratorStep, SystemStep, vars, system, SamplePid,
     List, Discovered, AllStarted, CheckShutdown, ReapChecked, Reaped, NoDiscovery, Wait, ReturnOk,
     FinishJoin, ReadName, SampleNext, SkipKnown, StartMonitor, FinishPrevious, ReapCheck,
     ReapFinish, DrainOne, Born, Dies, Renamed, ThreadEnds, Interrupt, Returned
<1>1. Started => Started'
  BY <1>0, StatusStays
<1>2. Where /\ (mode # "wait" => Goal)
  BY DEF RoundInv, FirstRound
<1>3. Where'
  <2>1. CASE \/ SamplePid \/ List \/ Discovered \/ AllStarted \/ CheckShutdown \/ ReapChecked
             \/ Reaped \/ NoDiscovery \/ Wait \/ ReturnOk
    BY <1>0, <1>2, <2>1 DEF SamplePid, List, Discovered, AllStarted, CheckShutdown, ReapChecked,
       Reaped, NoDiscovery, Wait, ReturnOk, Fail, Single, Scanning, Starting
  <2>2. CASE FinishJoin
    BY <1>0, <1>2, <2>2 DEF FinishJoin, Fail, Scanning, Starting
  <2>3. ASSUME NEW p \in Pids, \/ ReadName(p) \/ SampleNext(p) \/ SkipKnown(p) \/ FinishPrevious(p)
                               \/ StartMonitor(p) \/ ReapCheck(p) \/ ReapFinish(p) \/ DrainOne(p)
        PROVE  Where'
    BY <1>0, <1>2, <2>3 DEF ReadName, SampleNext, SkipKnown, FinishPrevious, StartMonitor, ReapCheck,
       ReapFinish, DrainOne, Finish, Fail, Scanning, Starting
  <2>4. CASE SystemStep \/ Returned \/ UNCHANGED vars
    <3>1. UNCHANGED <<main, back, first>>
      BY <2>4 DEF SystemStep, Born, Dies, Renamed, ThreadEnds, Interrupt, Returned, vars, closer
    <3> QED  BY <1>0, <1>2, <3>1 DEF Scanning, Starting
  <2> QED  BY <2>1, <2>2, <2>3, <2>4 DEF Next, OrchestratorStep
<1>4. ASSUME mode # "wait", ~Started PROVE Goal'
  <2>1. first /\ (Starting => FoundPids # {})
    BY <1>2, <1>4
  <2>2. \A p \in Pids : active[p] = None /\ (found[p] # None => ~Known(p))
    BY <1>0, <1>4 DEF RoundInv, MonitoredStarted, OrchestratorInv, IdentitiesGrow, TypeOK, Identities,
       Known
  <2>3. CASE SamplePid
    BY <1>0, <2>1, <2>3, OrchestratorAssumption DEF SamplePid, Fail, Starting, FoundPids, Running
  <2>4. CASE Discovered
    <3>1. CASE main' = "start"
      <4>1. FoundPids # {}
        BY <1>0, <1>2, <1>4, <2>1, <2>4, <3>1 DEF Discovered, NotFound, Fail, Scanning, FoundPids,
           OrchestratorInv, TypeOK, Modes
      <4>2. PICK q \in Pids : found[q] # None /\ \A r \in Pids : found[r] <= found[q]
        BY <1>0, <4>1, NewestExists
      <4>3. found'[q] = found[q]
        BY <2>4, <3>1, <4>2 DEF Discovered, Fail, Newest
      <4> QED  BY <2>1, <2>4, <4>2, <4>3 DEF Discovered, FoundPids
    <3>2. CASE main' # "start"
      BY <2>1, <2>4, <3>2 DEF Discovered, Fail, Starting
    <3> QED  BY <3>1, <3>2
  <2>5. CASE AllStarted
    BY <2>1, <2>5 DEF AllStarted, Starting
  <2>6. CASE FinishJoin
    BY <1>0, <2>6 DEF FinishJoin, OrchestratorInv, ClosingOne, TypeOK, Identities
  <2>7. CASE \E p \in Pids : SkipKnown(p) \/ FinishPrevious(p) \/ StartMonitor(p)
    <3>1. PICK p \in Pids : SkipKnown(p) \/ FinishPrevious(p) \/ StartMonitor(p)
      BY <2>7
    <3>2. found[p] \in Incarnations /\ StartMonitor(p)
      BY <1>0, <2>2, <3>1 DEF SkipKnown, FinishPrevious, StartMonitor, First, FoundPids, Reused,
         Identities
    <3>3. status' = [status EXCEPT ![found[p]] = "open"] \/ (main' = "returned" /\ first' = first)
      BY <3>2 DEF StartMonitor, Fail
    <3> QED  BY <1>0, <2>1, <3>2, <3>3 DEF Starting
  <2>8. CASE SystemStep \/ Returned \/ UNCHANGED vars
    <3>1. UNCHANGED <<main, back, first, found>>
      BY <2>8 DEF SystemStep, Born, Dies, Renamed, ThreadEnds, Interrupt, Returned, vars, closer
    <3> QED  BY <2>1, <3>1 DEF Starting, FoundPids
  <2>9. CASE List \/ \E p \in Pids : ReadName(p) \/ SampleNext(p)
    BY <2>1, <2>9 DEF List, ReadName, SampleNext, Fail, Starting
  <2>10. CASE \/ CheckShutdown \/ ReapChecked \/ Reaped \/ NoDiscovery \/ Wait \/ ReturnOk
              \/ \E p \in Pids : ReapCheck(p) \/ ReapFinish(p) \/ DrainOne(p)
    BY <1>2, <2>1, <2>10 DEF CheckShutdown, ReapChecked, Reaped, NoDiscovery, Wait, ReturnOk,
       ReapCheck, ReapFinish, DrainOne, Starting
  <2> QED
    BY <2>3, <2>4, <2>5, <2>6, <2>7, <2>8, <2>9, <2>10 DEF Next, OrchestratorStep
<1> QED  BY <1>0, <1>1, <1>3, <1>4 DEF FirstRound

\* The loop ends with Ctrl-C, or with everything joined.
LEMMA DrainStep ==
  ASSUME OrchestratorInv, RoundInv, [Next]_vars
  PROVE  DrainReason'
<1> DEFINE Some  == \E b \in Incarnations : Joined(b)
           Ended == InDrain \/ outcome = "ok"
<1>0. /\ TypeOK /\ mode' = mode /\ status \in [Incarnations -> Statuses]
      /\ active \in [Pids -> Identities] /\ closing \in Identities
  BY DEF OrchestratorInv, TypeOK, Next, OrchestratorStep, SystemStep, vars, system, SamplePid,
     List, Discovered, AllStarted, CheckShutdown, ReapChecked, Reaped, NoDiscovery, Wait, ReturnOk,
     FinishJoin, ReadName, SampleNext, SkipKnown, StartMonitor, FinishPrevious, ReapCheck,
     ReapFinish, DrainOne, Born, Dies, Renamed, ThreadEnds, Interrupt, Returned
<1> SUFFICES ASSUME Ended', ~shutdown' PROVE mode # "wait" /\ Some'
  BY <1>0 DEF DrainReason
<1>1. ~shutdown
  BY DEF Next, OrchestratorStep, SystemStep, vars, system, SamplePid,
     List, Discovered, AllStarted, CheckShutdown, ReapChecked, Reaped, NoDiscovery, Wait, ReturnOk,
     FinishJoin, ReadName, SampleNext, SkipKnown, StartMonitor, FinishPrevious, ReapCheck,
     ReapFinish, DrainOne, Born, Dies, Renamed, ThreadEnds, Interrupt, Returned
<1>2. CASE Ended
  <2>1. mode # "wait" /\ Some
    BY <1>1, <1>2 DEF RoundInv, DrainReason
  <2>2. PICK b \in Incarnations : Joined(b)
    BY <2>1
  <2>3. ~\E p \in Pids : StartMonitor(p)
    BY <1>2 DEF InDrain, StartMonitor, OrchestratorInv, ClosingOne
  <2>4. CASE FinishJoin
    BY <1>0, <2>1, <2>2, <2>4 DEF FinishJoin, Joined
  <2>5. ASSUME NEW c \in Incarnations, ThreadEnds(c) PROVE Joined(b)'
    BY <1>0, <2>2, <2>5 DEF ThreadEnds, Joined
  <2>6. \/ status' = status \/ FinishJoin
        \/ \E c \in Incarnations : ThreadEnds(c)
    BY <2>3 DEF Next, OrchestratorStep, SystemStep, vars, SamplePid, List, Discovered, AllStarted,
       CheckShutdown, ReapChecked, Reaped, NoDiscovery, Wait, ReturnOk, ReadName, SampleNext,
       SkipKnown, FinishPrevious, ReapCheck, ReapFinish, DrainOne, Born, Dies, Renamed, Interrupt,
       Returned
  <2> QED  BY <2>1, <2>2, <2>4, <2>5, <2>6 DEF Joined
<1>3. CASE ~Ended
  <2>1. /\ Reaped \/ AllStarted
        /\ mode # "wait" /\ ActivePids = {} /\ ~first
    <3>1. CASE \/ SamplePid \/ List \/ Discovered \/ CheckShutdown \/ ReapChecked
               \/ NoDiscovery \/ Wait \/ ReturnOk
      BY <1>1, <1>3, <3>1 DEF SamplePid, List, Discovered, CheckShutdown, QuitRequested, ReapChecked,
         NoDiscovery, Wait, ReturnOk, Fail, InDrain, closer
    <3>2. CASE Reaped \/ AllStarted
      BY <1>0, <1>3, <3>2 DEF Reaped, AllStarted, Single, InDrain, closer, RoundInv, FirstRound, Starting
    <3>3. CASE FinishJoin
      BY <1>0, <1>3, <3>3 DEF FinishJoin, Fail, InDrain, OrchestratorInv, ClosingOne
    <3>4. CASE \E p \in Pids : \/ ReadName(p) \/ SampleNext(p) \/ SkipKnown(p) \/ FinishPrevious(p)
                               \/ StartMonitor(p) \/ ReapCheck(p) \/ ReapFinish(p) \/ DrainOne(p)
      BY <1>3, <3>4 DEF ReadName, SampleNext, SkipKnown, FinishPrevious, StartMonitor, ReapCheck,
         ReapFinish, DrainOne, Finish, Fail, InDrain, closer
    <3>5. CASE SystemStep \/ Returned \/ UNCHANGED vars
      BY <1>3, <3>5 DEF SystemStep, Born, Dies, Renamed, ThreadEnds, Interrupt, Returned, vars, closer,
         InDrain
    <3> QED  BY <3>1, <3>2, <3>3, <3>4, <3>5 DEF Next, OrchestratorStep
  <2>2. closing = None /\ outcome = "none" /\ status' = status
    BY <2>1 DEF Reaped, AllStarted, OrchestratorInv, ClosingOne
  <2>3. Open = {}
    BY <2>1, <2>2 DEF OrchestratorInv, SessionsHeld, Held, ActivePids
  <2>4. PICK b \in Incarnations : status[b] # "none"
    BY <2>1 DEF RoundInv, FirstRound
  <2>5. Joined(b)
    BY <1>0, <2>3, <2>4 DEF Open, Statuses, Joined
  <2> QED  BY <2>1, <2>2, <2>5 DEF Joined
<1> QED  BY <1>2, <1>3

\* Only finish_session stops a running session, and the start times of new processes are
\* new: what is dead stays dead.
LEMMA StoppedStep ==
  ASSUME OrchestratorInv, RoundInv, [Next]_vars
  PROVE  StoppedReason'
<1> SUFFICES ASSUME NEW b \in Incarnations, status'[b] = "stopped" PROVE shutdown' \/ ~Alive(b)'
  BY DEF StoppedReason
<1>0. /\ status \in [Incarnations -> Statuses] /\ births \in 0..MaxBirths
      /\ start \in [Pids -> Identities]
  BY DEF OrchestratorInv, TypeOK
<1>1. shutdown => shutdown'
  BY DEF Next, OrchestratorStep, SystemStep, vars, system, SamplePid,
     List, Discovered, AllStarted, CheckShutdown, ReapChecked, Reaped, NoDiscovery, Wait, ReturnOk,
     FinishJoin, ReadName, SampleNext, SkipKnown, StartMonitor, FinishPrevious, ReapCheck,
     ReapFinish, DrainOne, Born, Dies, Renamed, ThreadEnds, Interrupt, Returned
<1>2. CASE FinishJoin
  <2>1. start' = start
    BY <1>2 DEF FinishJoin, system
  <2>2. shutdown \/ ~Alive(b)
    <3>1. CASE status[b] = "stopped"
      BY <3>1 DEF RoundInv, StoppedReason
    <3>2. CASE status[b] # "stopped"
      <4>1. b = closing /\ status[b] = "open" /\ main = "closing"
        BY <1>0, <1>2, <3>2 DEF FinishJoin
      <4> QED  BY <4>1 DEF OrchestratorInv, StopReasons
    <3> QED  BY <3>1, <3>2
  <2> QED  BY <1>1, <2>1, <2>2 DEF Alive
<1>3. CASE ~FinishJoin
  <2>1. status[b] = "stopped"
    BY <1>0, <1>3 DEF Next, OrchestratorStep, SystemStep, vars, SamplePid,
       List, Discovered, AllStarted, CheckShutdown, ReapChecked, Reaped, NoDiscovery, Wait, ReturnOk,
       ReadName, SampleNext, SkipKnown, StartMonitor, FinishPrevious, ReapCheck,
       ReapFinish, DrainOne, Born, Dies, Renamed, ThreadEnds, Interrupt, Returned
  <2>2. /\ shutdown \/ ~Alive(b)
        /\ b <= births
    BY <2>1 DEF RoundInv, StoppedReason, OrchestratorInv, MonitoredKnown
  <2>3. \A p \in Pids : start'[p] \in {start[p], None, births + 1}
    BY <1>0 DEF Next, OrchestratorStep, SystemStep, vars, system, SamplePid,
       List, Discovered, AllStarted, CheckShutdown, ReapChecked, Reaped, NoDiscovery, Wait, ReturnOk,
       FinishJoin, ReadName, SampleNext, SkipKnown, StartMonitor, FinishPrevious, ReapCheck,
       ReapFinish, DrainOne, Born, Dies, Renamed, ThreadEnds, Interrupt, Returned
  <2>4. b # None /\ b # births + 1
    BY <1>0, <2>2, OrchestratorAssumption DEF Incarnations, None
  <2> QED  BY <1>1, <2>2, <2>3, <2>4 DEF Alive
<1> QED  BY <1>2, <1>3
\* RoundInv holds together with OrchestratorInv.
LEMMA RoundInvariant == Spec => []RoundInv
<1>1. Init => RoundInv
  BY DEF Init, RoundInv, MonitoredStarted, SteadyRuns, RoundCovers, NewestCovers, FirstRound,
     DrainReason, StoppedReason, Scanning, Starting, InDrain, None
<1>2. OrchestratorInv /\ RoundInv /\ [Next]_vars => RoundInv'
  <2> SUFFICES ASSUME OrchestratorInv, RoundInv, [Next]_vars PROVE RoundInv'
    OBVIOUS
  <2>1. MonitoredStarted' /\ SteadyRuns'
    BY MonitoredStep, SteadyStep DEF RoundInv, OrchestratorInv
  <2>2. RoundCovers' /\ NewestCovers' /\ FirstRound' /\ DrainReason' /\ StoppedReason'
    BY CoversStep, NewestStep, FirstRoundStep, DrainStep, StoppedStep
  <2> QED  BY <2>1, <2>2 DEF RoundInv
<1> QED  BY <1>1, <1>2, OrchestratorInvariant, PTL DEF Spec

\* No process that keeps its name or group through a round of discovery is passed over, though
\* pids are reused and processes come and go while the round reads them one by one.
THEOREM NoTargetMissed == Spec => []NothingMissed
<1>1. RoundInv => NothingMissed
  BY DEF RoundInv, RoundCovers, NothingMissed, Scanning, Starting
<1> QED  BY <1>1, RoundInvariant, PTL

\* -p name starts with a process no older than any other of that name that was there all along.
THEOREM NewestSelected == Spec => []NewestChosen
<1>1. RoundInv => NewestChosen
  BY DEF RoundInv, NewestCovers, NewestChosen, Scanning, Starting
<1> QED  BY <1>1, RoundInvariant, PTL

\* Ok is only returned after Ctrl-C, or when a target was found and every session that was
\* started is joined, having ended by itself or lost its process.
THEOREM OkOnlyWhenDone == Spec => []OkMeansDone
<1>1. OrchestratorInv /\ RoundInv => OkMeansDone
  <2> SUFFICES ASSUME OrchestratorInv, RoundInv, outcome = "ok", ~shutdown
               PROVE  /\ mode # "wait"
                      /\ \E b \in Incarnations : Joined(b)
                      /\ \A b \in Incarnations :
                           \/ status[b] \in {"none", "joined"}
                           \/ status[b] = "stopped" /\ ~Alive(b)
    BY DEF OkMeansDone
  <2>1. mode # "wait" /\ \E b \in Incarnations : Joined(b)
    BY DEF RoundInv, DrainReason
  <2>2. \A b \in Incarnations : status[b] \in Statuses \ {"open", "ended"}
    BY DEF OrchestratorInv, TypeOK, SessionsHeld, Open
  <2>3. \A b \in Incarnations : status[b] = "stopped" => ~Alive(b)
    BY DEF RoundInv, StoppedReason
  <2> QED  BY <2>1, <2>2, <2>3 DEF Statuses
<1> QED  BY <1>1, OrchestratorInvariant, RoundInvariant, PTL
=============================================================================
