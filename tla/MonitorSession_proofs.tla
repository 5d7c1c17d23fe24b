------------------------ MODULE MonitorSession_proofs ------------------------
(***************************************************************************)
(* Proofs about MonitorSession, for any set of threads, any kinds, any     *)
(* limit and any number of thresholds: SessionInv is inductive, the safety *)
(* properties follow from it, and every step of a session is a step of     *)
(* DumpBudget or leaves the budget alone.                                  *)
(***************************************************************************)
EXTENDS MonitorSession, TLAPS

\* Before any thread runs, the parts of the invariant hold (MonitorSet::start has
\* only built its StartupGuard).
LEMMA InitInv == Init => SessionInv
<1> SUFFICES ASSUME Init PROVE SessionInv
  OBVIOUS
<1> USE DEF Init
<1>0. /\ started \in BOOLEAN /\ quit \in BOOLEAN /\ cancelled \in BOOLEAN
      /\ active \in BOOLEAN
      /\ alive \in BOOLEAN /\ shutdown \in BOOLEAN
  BY Zenon
<1>1. TypeOK
  BY <1>0, SessionAssumption DEF TypeOK, SessionAssumption, ThreadSteps, OwnerSteps, Results
<1>2. Holders = {} /\ InFlight = {}
  BY DEF Holders, Holding, InFlight
<1>3. GateExclusive
  BY <1>2 DEF GateExclusive
<1>4. BudgetKept /\ LimitHandled
  BY <1>2, SessionAssumption DEF BudgetKept, LimitHandled, LimitReached, SessionAssumption
<1>5. FlagsOrdered
  BY DEF FlagsOrdered, QuitPending
<1>6. ThresholdLeft /\ ResultKnown
  BY DEF ThresholdLeft, ResultKnown, Holding
<1> QED
  BY <1>1, <1>3, <1>4, <1>5, <1>6 DEF SessionInv

\* Every step of a thread, of the owner and of the outside keeps the invariant.
LEMMA StepInv == SessionInv /\ [Next]_vars => SessionInv'
<1> SUFFICES ASSUME SessionInv, [Next]_vars PROVE SessionInv'
  OBVIOUS
<1> USE SessionAssumption
    DEF SessionAssumption, SessionInv, TypeOK, GateExclusive, BudgetKept, LimitHandled,
        FlagsOrdered, ThresholdLeft, ResultKnown, LimitReached, QuitPending, InFlight,
        Holders, Holding, ThreadSteps, OwnerSteps, Results,
        control, owner, world, history
<1>1. ASSUME NEW t \in Monitors, WaitForStart(t) PROVE SessionInv'
  BY <1>1 DEF WaitForStart, Goto, Return, LoopStep, StartOrQuit, shared
<1>2. ASSUME NEW t \in Monitors, Poll(t) PROVE SessionInv'
  BY <1>2 DEF Poll, Goto, Return, Exhausted, shared
<1>3. ASSUME NEW t \in Monitors, Sample(t) PROVE SessionInv'
  BY <1>3 DEF Sample, Goto, Return, shared
<1>4. ASSUME NEW t \in Monitors, EventQuit(t) PROVE SessionInv'
  BY <1>4 DEF EventQuit, Return, shared
<1>5. ASSUME NEW t \in Monitors, EventTriggers(t) PROVE SessionInv'
  BY <1>5 DEF EventTriggers, Goto, shared
<1>6. ASSUME NEW t \in Monitors, EventExternal(t) PROVE SessionInv'
  BY <1>6 DEF EventExternal, Goto
<1>7. ASSUME NEW t \in Monitors, EventKey(t) PROVE SessionInv'
  BY <1>7 DEF EventKey, Return, shared
<1>8. ASSUME NEW t \in Monitors, EventEnds(t) PROVE SessionInv'
  BY <1>8 DEF EventEnds, Return, shared
<1>9. ASSUME NEW t \in Monitors, Check(t) PROVE SessionInv'
  BY <1>9 DEF Check, Goto, shared
<1>10. ASSUME NEW t \in Monitors, Acquire(t) PROVE SessionInv'
  <2>1. CASE cancelled
    BY <2>1, <1>10 DEF Acquire, Goto, Return, Refuse
  <2>2. CASE ~cancelled /\ ~GateFree
    <3>1. /\ pc[t] = "acquire"
          /\ pc' = [pc EXCEPT ![t] = "asleep"]
          /\ UNCHANGED <<active, lost, result, control, collected, current, owner, world,
                         written, external>>
      BY <2>2, <1>10, Zenon DEF Acquire, Goto
    <3> QED
      BY <3>1
  <2>3. CASE ~cancelled /\ GateFree
    <3>1. /\ pc[t] = "acquire" /\ ~active /\ active' = TRUE
          /\ pc' = [pc EXCEPT ![t] = "recheck"]
          /\ UNCHANGED <<lost, result, control, collected, current, owner, world,
                         written, external>>
      BY <2>3, <1>10, Zenon DEF Acquire, GateFree, Goto
    <3>2. \A u \in Monitors : pc[u] \notin Holding
      BY <3>1
    <3>3. TypeOK'
      BY <3>1
    <3>4. GateExclusive'
      BY <3>1, <3>2
    <3>5. collected < Limit
      BY <3>2, <2>3
    <3>6. BudgetKept' /\ LimitHandled'
      BY <3>1, <3>2, <3>5
    <3>7. FlagsOrdered'
      BY <3>1
    <3>8. ThresholdLeft' /\ ResultKnown'
      BY <3>1
    <3> QED
      BY <3>3, <3>4, <3>6, <3>7, <3>8
  <2> QED
    BY <2>1, <2>2, <2>3
<1>11. ASSUME NEW t \in Monitors, GateTimeout(t) PROVE SessionInv'
  BY <1>11 DEF GateTimeout, Goto, shared
<1>12. ASSUME NEW t \in Monitors, Recheck(t) PROVE SessionInv'
  BY <1>12 DEF Recheck, Goto, Return, Refuse, MayDump
<1>13. ASSUME NEW t \in Monitors, Dump(t) PROVE SessionInv'
  BY <1>13 DEF Dump, AfterDump, Goto, Return, Sidecar
<1>14. ASSUME NEW t \in Monitors, WriteSidecar(t) PROVE SessionInv'
  BY <1>14 DEF WriteSidecar, Goto, Return
<1>15. ASSUME NEW t \in Monitors, Count(t) PROVE SessionInv'
  BY <1>15 DEF Count, Goto, LastDump
<1>16. ASSUME NEW t \in Monitors, RequestCancel(t) PROVE SessionInv'
  BY <1>16 DEF RequestCancel, Goto, QuitStep
<1>17. ASSUME NEW t \in Monitors, RequestQuit(t) PROVE SessionInv'
  BY <1>17 DEF RequestQuit, Goto
<1>18. ASSUME NEW t \in Monitors, Release(t) PROVE SessionInv'
  <2>1. PICK u \in Monitors :
          /\ pc[t] = "release"
          /\ active' = FALSE
          /\ u = t \/ pc[u] = "asleep"
          /\ pc' = [v \in Monitors |-> IF v = t THEN AfterRelease(t)
                                       ELSE IF v = u THEN "acquire" ELSE pc[v]]
          /\ UNCHANGED <<control, collected, result, current, owner, world, history>>
    BY <1>18 DEF Release
  <2>2. /\ AfterRelease(t) \in {"done", "event", "after"}
        /\ AfterRelease(t) = "done" => result[t] # "running"
    BY DEF AfterRelease
  <2>3. active' \in BOOLEAN
    BY <2>1, Zenon
  <2>11. TypeOK'
    BY <2>1, <2>2, <2>3
  <2>4. \A v \in Monitors : pc[v] \in Holding => v = t
    BY <2>1
  <2>5. Holders' = {}
    BY <2>1, <2>2, <2>4
  <2>6. GateExclusive'
    BY <2>1, <2>5
  <2>7. InFlight' = {}
    BY <2>5
  <2>8. BudgetKept' /\ LimitHandled'
    BY <2>1, <2>4, <2>7
  <2>9. FlagsOrdered'
    BY <2>1, <2>2
  <2>10. ThresholdLeft' /\ ResultKnown'
    BY <2>1, <2>2
  <2> QED
    BY <2>11, <2>6, <2>8, <2>9, <2>10
<1>19. ASSUME NEW t \in Monitors, After(t) PROVE SessionInv'
  BY <1>19 DEF After, Goto, Return
<1>20. ASSUME NEW t \in Monitors, Snooze(t) PROVE SessionInv'
  BY <1>20 DEF Snooze, Goto, Return, LoopStep, shared
<1>21. ASSUME NEW t \in Monitors, Spawn(t) PROVE SessionInv'
  BY <1>21 DEF Spawn, Goto, OfKind
<1>22. ASSUME NEW t \in Monitors, GuardJoin(t) PROVE SessionInv'
  BY <1>22 DEF GuardJoin, Finished, session, threads
<1>23. ASSUME NEW t \in Monitors, Join(t) PROVE SessionInv'
  BY <1>23 DEF Join, Finished, session, threads
<1>24. CASE SpawnFails
  BY <1>24 DEF SpawnFails, session, threads
<1>25. CASE Start
  BY <1>25 DEF Start, threads
<1>26. CASE FinishSession
  BY <1>26 DEF FinishSession, session, threads
<1>27. CASE AbandonSession
  BY <1>27 DEF AbandonSession, session, threads
<1>28. CASE CallWait
  BY <1>28 DEF CallWait, session, threads
<1>29. CASE OwnerCancel
  BY <1>29 DEF OwnerCancel, threads
<1>30. CASE OwnerQuit
  BY <1>30 DEF OwnerQuit, threads
<1>31. CASE GuardDone
  BY <1>31 DEF GuardDone, session, threads
<1>32. CASE WaitDone
  BY <1>32 DEF WaitDone, Verdict, session, threads
<1>33. CASE Die
  <2>1. alive' \in BOOLEAN
    BY <1>33, Zenon DEF Die
  <2> QED
    BY <1>33, <2>1 DEF Die, threads
<1>34. CASE Shutdown
  BY <1>34 DEF Shutdown, threads
<1>35. CASE UNCHANGED vars
  BY <1>35 DEF vars, threads
<1> QED
  BY <1>1, <1>2, <1>3, <1>4, <1>5, <1>6, <1>7, <1>8, <1>9, <1>10, <1>11, <1>12,
     <1>13, <1>14, <1>15, <1>16, <1>17, <1>18, <1>19, <1>20, <1>21, <1>22,
     <1>23, <1>24, <1>25, <1>26, <1>27, <1>28, <1>29, <1>30, <1>31, <1>32,
     <1>33, <1>34, <1>35
  DEF Next, ThreadStep, ThreadEvent, OwnerStep, Terminated

\* The session never leaves the inductive invariant.
THEOREM SessionInvariant == Spec => []SessionInv
<1>1. Init => SessionInv
  BY InitInv
<1>2. SessionInv /\ [Next]_vars => SessionInv'
  BY StepInv
<1> QED
  BY <1>1, <1>2, PTL DEF Spec

\* Every variable keeps its type; in particular spawn_memory never reads a threshold
\* past the end of its list.
THEOREM TypeCorrect == Spec => []TypeOK
<1>1. SessionInv => TypeOK
  BY DEF SessionInv
<1> QED
  BY <1>1, SessionInvariant, PTL

\* Dumps of one session are serialised by the DumpGate, on every error path too.
THEOREM DumpsSerialised == Spec => []GateExclusive
<1>1. SessionInv => GateExclusive
  BY DEF SessionInv
<1> QED
  BY <1>1, SessionInvariant, PTL

\* -n is never exceeded, whatever triggers race, the injected profiler included.
THEOREM LimitNeverExceeded == Spec => []BudgetKept
<1>1. SessionInv => BudgetKept
  BY DEF SessionInv
<1> QED
  BY <1>1, SessionInvariant, PTL

\* When the gate is free after the last dump, the session has been stopped.
THEOREM LastDumpStops == Spec => []LimitStopsSession
<1>1. SessionInv => LimitStopsSession
  BY DEF SessionInv, LimitHandled, GateExclusive, Holders, Holding, LimitStopsSession
<1> QED
  BY <1>1, SessionInvariant, PTL

\* request_quit's two flags differ only while a call of it is between its two writes.
THEOREM FlagsAgree == Spec => []StopFlagsAgree
<1>1. SessionInv => StopFlagsAgree
  BY DEF SessionInv, FlagsOrdered, StopFlagsAgree
<1> QED
  BY <1>1, SessionInvariant, PTL

\* Each step of the session is a step of the abstract budget or leaves it alone: a
\* dump begins with Recheck (for the profiler with Acquire), is committed by Count,
\* abandoned by a failing Dump or WriteSidecar; RequestCancel and OwnerCancel stop.
LEMMA StepRefines ==
  SessionInv /\ [Next]_vars => [Budget!Next]_(Budget!budgetVars)
<1> SUFFICES ASSUME SessionInv, [Next]_vars
             PROVE  [Budget!Next]_(Budget!budgetVars)
  OBVIOUS
<1> DEFINE Same == InFlight' = InFlight /\ collected' = collected /\ cancelled' = cancelled
<1>1. ASSUME Same PROVE [Budget!Next]_(Budget!budgetVars)
  BY <1>1 DEF Budget!budgetVars
<1>2. pc \in [Monitors -> ThreadSteps] /\ collected \in Nat /\ Limit \in Nat
  BY SessionAssumption DEF SessionInv, TypeOK, SessionAssumption
<1>3. \A t \in Monitors : pc[t] \in Holding => \A u \in Monitors : pc[u] \in Holding => u = t
  BY DEF SessionInv, GateExclusive, Holders
<1>4. ASSUME NEW t \in Monitors, WaitForStart(t) PROVE Same
  BY <1>4, <1>2 DEF InFlight, WaitForStart, Goto, Return, LoopStep, StartOrQuit, shared, control
<1>5. ASSUME NEW t \in Monitors, Poll(t) PROVE Same
  BY <1>5, <1>2 DEF InFlight, Poll, Goto, Return, Exhausted, shared, control
<1>6. ASSUME NEW t \in Monitors, Sample(t) PROVE Same
  BY <1>6, <1>2 DEF InFlight, Sample, Goto, Return, shared, control
<1>7. ASSUME NEW t \in Monitors, EventQuit(t) PROVE Same
  BY <1>7, <1>2 DEF InFlight, EventQuit, Return, shared, control
<1>8. ASSUME NEW t \in Monitors, EventTriggers(t) PROVE Same
  BY <1>8, <1>2 DEF InFlight, EventTriggers, Goto, shared, control
<1>9. ASSUME NEW t \in Monitors, EventExternal(t) PROVE Same
  BY <1>9, <1>2 DEF InFlight, EventExternal, Goto, control
<1>10. ASSUME NEW t \in Monitors, EventKey(t) PROVE Same
  BY <1>10, <1>2 DEF InFlight, EventKey, Return, shared, control
<1>11. ASSUME NEW t \in Monitors, EventEnds(t) PROVE Same
  BY <1>11, <1>2 DEF InFlight, EventEnds, Return, shared, control
<1>12. ASSUME NEW t \in Monitors, Check(t) PROVE Same
  BY <1>12, <1>2 DEF InFlight, Check, Goto, shared, control
<1>13. ASSUME NEW t \in Monitors, GateTimeout(t) PROVE Same
  BY <1>13, <1>2 DEF InFlight, GateTimeout, Goto, shared, control
<1>14. ASSUME NEW t \in Monitors, RequestQuit(t) PROVE Same
  BY <1>14, <1>2 DEF InFlight, RequestQuit, Goto, control
<1>15. ASSUME NEW t \in Monitors, After(t) PROVE Same
  BY <1>15, <1>2 DEF InFlight, After, Goto, Return, control
<1>16. ASSUME NEW t \in Monitors, Snooze(t) PROVE Same
  BY <1>16, <1>2 DEF InFlight, Snooze, Goto, Return, LoopStep, shared, control
<1>17. ASSUME NEW t \in Monitors, Spawn(t) PROVE Same
  BY <1>17, <1>2 DEF InFlight, Spawn, Goto, OfKind, control
<1>18. ASSUME NEW t \in Monitors, GuardJoin(t) PROVE Same
  BY <1>18, <1>2 DEF InFlight, GuardJoin, Finished, session, control, threads
<1>19. ASSUME NEW t \in Monitors, Join(t) PROVE Same
  BY <1>19, <1>2 DEF InFlight, Join, Finished, session, control, threads
<1>20. ASSUME NEW t \in Monitors, Acquire(t) PROVE [Budget!Next]_(Budget!budgetVars)
  <2>1. CASE cancelled \/ ~GateFree \/ Kind[t] # "profiler"
    <3>1. Same
      BY <1>20, <1>2, <2>1 DEF Acquire, Goto, Return, Refuse, InFlight, control
    <3> QED
      BY <3>1, <1>1
  <2>2. CASE ~cancelled /\ GateFree /\ Kind[t] = "profiler"
    <3>1. /\ pc' = [pc EXCEPT ![t] = "recheck"]
          /\ UNCHANGED <<collected, cancelled>>
      BY <1>20, <2>2, Zenon DEF Acquire, Goto, control
    <3>2. InFlight = {}
      BY <2>2 DEF SessionInv, GateExclusive, GateFree, InFlight, Holders, Holding
    <3>3. t \in InFlight'
      BY <3>1, <1>2, <2>2 DEF InFlight
    <3>4. \A u \in Monitors : pc[u] \notin Holding
      BY <2>2 DEF SessionInv, GateExclusive, GateFree, Holders
    <3>5. ~LimitReached
      BY <2>2, <3>4 DEF SessionInv, LimitHandled, Holding
    <3>6. collected < Limit
      BY <1>2, <3>5 DEF LimitReached
    <3>7. Budget!Begin
      BY <2>2, <3>1, <3>2, <3>3, <3>6 DEF Budget!Begin
    <3> QED
      BY <3>7 DEF Budget!Next
  <2> QED
    BY <2>1, <2>2
<1>21. ASSUME NEW t \in Monitors, Recheck(t) PROVE [Budget!Next]_(Budget!budgetVars)
  <2>1. \A u \in Monitors : u \in InFlight => u = t
    BY <1>21, <1>3 DEF Recheck, InFlight, Holding
  <2>2. UNCHANGED <<collected, cancelled>>
    BY <1>21 DEF Recheck, control
  <2>3. CASE Kind[t] = "profiler"
    <3>1. t \in InFlight /\ collected < Limit
      BY <1>21, <2>3 DEF Recheck, InFlight, SessionInv, BudgetKept
    <3>2. t \in InFlight'
      BY <1>21, <1>2, <2>3, <3>1 DEF Recheck, Goto, LimitReached, InFlight
    <3>3. InFlight # {} /\ InFlight' # {}
      BY <3>1, <3>2
    <3> QED
      BY <2>2, <3>3 DEF Budget!budgetVars
  <2>4. CASE Kind[t] # "profiler" /\ ~MayDump
    <3>1. Same
      BY <1>21, <1>2, <2>2, <2>4 DEF Recheck, Goto, InFlight
    <3> QED
      BY <3>1, <1>1
  <2>5. CASE Kind[t] # "profiler" /\ MayDump
    <3>1. InFlight = {}
      BY <1>21, <2>1, <2>5 DEF Recheck, InFlight
    <3>2. t \in InFlight'
      BY <1>21, <1>2, <2>5 DEF Recheck, Goto, InFlight
    <3>3. ~cancelled /\ collected < Limit
      BY <1>2, <2>5 DEF MayDump, LimitReached
    <3>4. Budget!Begin
      BY <2>2, <3>1, <3>2, <3>3 DEF Budget!Begin
    <3> QED
      BY <3>4 DEF Budget!Next
  <2> QED
    BY <2>3, <2>4, <2>5
<1>22. ASSUME NEW t \in Monitors, Dump(t) PROVE [Budget!Next]_(Budget!budgetVars)
  <2>1. /\ t \in InFlight
        /\ \A u \in Monitors : u \in InFlight => u = t
    BY <1>22, <1>3 DEF Dump, InFlight, Holding
  <2>2. UNCHANGED <<collected, cancelled>>
    BY <1>22 DEF Dump, control
  <2>3. InFlight' # {} \/ InFlight' = {}
    OBVIOUS
  <2> QED
    BY <2>1, <2>2, <2>3 DEF Budget!Next, Budget!Abandon, Budget!budgetVars
<1>23. ASSUME NEW t \in Monitors, WriteSidecar(t) PROVE [Budget!Next]_(Budget!budgetVars)
  <2>1. /\ t \in InFlight
        /\ \A u \in Monitors : u \in InFlight => u = t
    BY <1>23, <1>3 DEF WriteSidecar, InFlight, Holding
  <2>2. UNCHANGED <<collected, cancelled>>
    BY <1>23 DEF WriteSidecar, control
  <2>3. InFlight' # {} \/ InFlight' = {}
    OBVIOUS
  <2> QED
    BY <2>1, <2>2, <2>3 DEF Budget!Next, Budget!Abandon, Budget!budgetVars
<1>24. ASSUME NEW t \in Monitors, Count(t) PROVE [Budget!Next]_(Budget!budgetVars)
  <2>1. /\ t \in InFlight
        /\ \A u \in Monitors : u \in InFlight => u = t
    BY <1>24, <1>3 DEF Count, InFlight, Holding
  <2>2. collected' = collected + 1 /\ UNCHANGED cancelled
    BY <1>24 DEF Count, control
  <2>3. InFlight' = {}
    BY <1>24, <1>2, <2>1 DEF Count, Goto, InFlight
  <2> QED
    BY <2>1, <2>2, <2>3 DEF Budget!Next, Budget!Commit
<1>25. ASSUME NEW t \in Monitors, RequestCancel(t) PROVE [Budget!Next]_(Budget!budgetVars)
  <2>1. InFlight' = InFlight /\ collected' = collected /\ cancelled' = TRUE
    BY <1>25, <1>2 DEF RequestCancel, Goto, QuitStep, InFlight
  <2>2. cancelled \in BOOLEAN
    BY DEF SessionInv, TypeOK
  <2> QED
    BY <2>1, <2>2 DEF Budget!Next, Budget!Stop, Budget!budgetVars
<1>26. CASE OwnerCancel
  <2>1. InFlight' = InFlight /\ collected' = collected /\ cancelled' = TRUE
    BY <1>26, <1>2 DEF OwnerCancel, threads, InFlight
  <2>2. cancelled \in BOOLEAN
    BY DEF SessionInv, TypeOK
  <2> QED
    BY <2>1, <2>2 DEF Budget!Next, Budget!Stop, Budget!budgetVars
<1>27. ASSUME NEW t \in Monitors, Release(t) PROVE Same
  <2>1. \A u \in Monitors : u \notin InFlight
    BY <1>27, <1>3 DEF Release, InFlight, Holding
  <2>2. \A u \in Monitors : pc'[u] \in {pc[u], "acquire", "done", "event", "after"}
    BY <1>27, <1>2 DEF Release, AfterRelease
  <2>3. InFlight = {} /\ InFlight' = {}
    BY <2>1, <2>2 DEF InFlight
  <2> QED
    BY <1>27, <2>3 DEF Release, control
<1>28. ASSUME SpawnFails PROVE Same
  BY <1>28 DEF SpawnFails, control, session, threads, InFlight
<1>29. ASSUME Start PROVE Same
  BY <1>29 DEF Start, threads, InFlight
<1>30. ASSUME FinishSession PROVE Same
  BY <1>30 DEF FinishSession, control, session, threads, InFlight
<1>31. ASSUME AbandonSession PROVE Same
  BY <1>31 DEF AbandonSession, control, session, threads, InFlight
<1>32. ASSUME CallWait PROVE Same
  BY <1>32 DEF CallWait, control, session, threads, InFlight
<1>33. ASSUME OwnerQuit PROVE Same
  BY <1>33 DEF OwnerQuit, threads, InFlight
<1>34. ASSUME GuardDone PROVE Same
  BY <1>34 DEF GuardDone, control, session, threads, InFlight
<1>35. ASSUME WaitDone PROVE Same
  BY <1>35 DEF WaitDone, control, Verdict, session, threads, InFlight
<1>36. ASSUME Die PROVE Same
  BY <1>36 DEF Die, control, threads, InFlight
<1>37. ASSUME Shutdown PROVE Same
  BY <1>37 DEF Shutdown, control, threads, InFlight
<1>38. ASSUME UNCHANGED vars PROVE Same
  BY <1>38 DEF vars, threads, control, InFlight
<1> QED
  BY <1>1, <1>4, <1>5, <1>6, <1>7, <1>8, <1>9, <1>10, <1>11, <1>12, <1>13,
     <1>14, <1>15, <1>16, <1>17, <1>18, <1>19, <1>20, <1>21, <1>22, <1>23,
     <1>24, <1>25, <1>26, <1>27, <1>28, <1>29, <1>30, <1>31, <1>32, <1>33,
     <1>34, <1>35, <1>36, <1>37, <1>38
  DEF Next, ThreadStep, ThreadEvent, OwnerStep, Terminated

\* The session implements the abstract budget: one dump at a time, begun only while
\* the session is not stopped and within -n, at most one counted after a stop.
THEOREM SessionImplementsBudget == Spec => RefinesDumpBudget
<1>1. Init => Budget!Init
  BY DEF Init, Budget!Init, InFlight
<1>2. SessionInv /\ [Next]_vars => [Budget!Next]_(Budget!budgetVars)
  BY StepRefines
<1> QED
  BY <1>1, <1>2, SessionInvariant, PTL DEF Spec, RefinesDumpBudget, Budget!Spec
=============================================================================
