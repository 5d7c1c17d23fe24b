--------------------- MODULE MonitorSession_end_proofs ---------------------
(***************************************************************************)
(* How a session ends, for any set of threads, any kinds and any limit:    *)
(* who is joined, which errors are told, why it ends at all, and what      *)
(* became of every dump.  Three invariants on top of SessionInv, each with *)
(* its own proof; they share a description of what any step of a thread    *)
(* does to the others (ThreadEffect).                                      *)
(***************************************************************************)
EXTENDS MonitorSession_proofs, FiniteSetTheorems

-----------------------------------------------------------------------------
(* The invariants.                                                         *)

\* A thread has a result only when it is about to end.
ResultFresh ==
  \A t \in Monitors :
    pc[t] \notin {"release", "stopCancel", "stopQuit", "done"} => result[t] = "running"

Starting == {"spawn", "guardCancel", "guardQuit", "guardJoin", "startFailed"}

\* MonitorSet::start spawns the collectors before the manual triggers, and the guard has
\* every thread but the collectors that wait for a manual trigger to be spawned.
SpawnOrder ==
  \A t \in OfKind("manual"), u \in OfKind("collector") : pc[t] # "idle" => pc[u] # "idle"
GuardHolds ==
  /\ \A t \in owned : pc[t] # "idle"
  /\ \A t \in Monitors \ owned :
       \/ pc[t] = "idle"
       \/ /\ Kind[t] = "collector" /\ OfKind("manual") # {}
          /\ \A u \in OfKind("manual") : pc[u] = "idle"
  /\ main \notin Starting => owned = Monitors

\* Only finished threads are joined, and the error kept is that of one of them.
JoinsKept ==
  /\ \A t \in joined : Finished(t)
  /\ main \in {"spawn", "guardCancel", "guardQuit"} => joined = {}
  /\ main \in {"finished", "startFailed"} => joined = owned
  /\ firstError = "none" => main \in Starting \/ \A t \in joined : result[t] = "ok"
  /\ main = "finished" => outcome = Verdict

\* The target is only said to be gone when it is.
GoneIsGone ==
  firstError = "gone" \/ aliveSeen = "dead" \/ (\E t \in Monitors : result[t] = "gone") => ~alive

\* The inductive invariant of the owner.
OwnerInv == ResultFresh /\ SpawnOrder /\ GuardHolds /\ JoinsKept /\ GoneIsGone

\* Sessions whose triggers can only end at the limit: a memory trigger with fewer thresholds
\* than -n, or the end of an EventPipe stream, ends a session earlier.
Limited ==
  /\ OfKind("manual") = {} /\ OfKind("counter") = {}
  /\ OfKind("memory") = {} \/ Thresholds >= Limit

\* Nothing happened that ends a session but the limit.
Undisturbed ==
  /\ alive /\ ~shutdown /\ main \notin Starting \ {"spawn"}
  /\ \A t \in Monitors : result[t] \in {"running", "ok"}

\* Where a memory trigger has just taken the dump for its threshold.
Advancing == {"limitCancel", "limitQuit", "release", "after"}
Passed(t) == IF pc[t] \in Advancing THEN current[t] + 1 ELSE current[t]

\* Nobody stops the session or ends, and a memory trigger has taken a dump for every
\* threshold it passed.
Going ==
  /\ ~cancelled /\ main \notin {"finishCancel", "finishQuit", "joinCancel", "joinQuit"}
  /\ \A t \in Monitors : result[t] = "running"
  /\ \A t \in OfKind("memory") : Passed(t) <= collected

\* Only a manual trigger and the limit stop a session from within; while nothing else is the
\* matter it goes on to the limit.
StopsAtLimit ==
  /\ \A t \in Monitors : pc[t] \in {"stopCancel", "stopQuit"} => Kind[t] = "manual"
  /\ \A t \in Monitors : pc[t] = "limitCancel" => LimitReached
  /\ Limited /\ Undisturbed /\ ~LimitReached => Going

\* Where the injected profiler's thread can be: it never samples or dumps itself.
ProfilerSteps == {"idle", "waitStart", "event", "acquire", "asleep", "recheck", "count",
                  "limitCancel", "limitQuit", "release", "done"}

\* The account of the dumps, with why no thread is charged twice.
AccountInv ==
  /\ ResultFresh
  /\ \A t \in OfKind("profiler") : pc[t] \in ProfilerSteps
  /\ \A t \in lost : result[t] # "running"
  /\ EveryDumpAccounted

-----------------------------------------------------------------------------
(* What a step of a thread does to the rest.                               *)

\* The others stay where they are, but one asleep at the gate may be woken.
OthersStay(t) ==
  \A u \in Monitors \ {t} :
    result'[u] = result[u] /\ (pc'[u] = pc[u] \/ (pc[u] = "asleep" /\ pc'[u] = "acquire"))

\* The owner, the target and the user are left alone, t has not been idle and has a result
\* only at its end.
ThreadEffect(t) ==
  /\ pc[t] \notin {"idle", "done"} /\ pc'[t] # "idle"
  /\ pc'[t] \in ThreadSteps /\ result'[t] \in Results
  /\ OthersStay(t)
  /\ pc'[t] \notin {"release", "stopCancel", "stopQuit", "done"} => result'[t] = "running"
  /\ result[t] # "running" => result'[t] = result[t]
  /\ result'[t] = "gone" => result[t] = "gone" \/ ~alive
  /\ UNCHANGED <<owner, world>>

\* Every step of a thread is of that kind.
LEMMA ThreadSteps1 ==
  ASSUME SessionInv, ResultFresh, NEW t \in Monitors, ThreadStep(t) \/ ThreadEvent(t)
  PROVE  ThreadEffect(t)
<1> USE DEF ThreadEffect, OthersStay
<1>1. /\ pc \in [Monitors -> ThreadSteps] /\ result \in [Monitors -> Results]
      /\ ResultFresh
  BY DEF SessionInv, TypeOK
<1>2. CASE WaitForStart(t) \/ Poll(t) \/ Sample(t) \/ Snooze(t)
  BY <1>1, <1>2 DEF WaitForStart, Poll, Sample, Snooze, Goto, Return, LoopStep, shared,
     ResultFresh, ThreadSteps, Results
<1>3. CASE EventQuit(t) \/ ThreadEvent(t)
  BY <1>1, <1>3 DEF EventQuit, ThreadEvent, EventTriggers, EventExternal, EventKey, EventEnds,
     Goto, Return, shared, ResultFresh, ThreadSteps, Results
<1>4. CASE Check(t) \/ Acquire(t) \/ GateTimeout(t) \/ Recheck(t)
  BY <1>1, <1>4 DEF Check, Acquire, GateTimeout, Recheck, Refuse, Goto, Return, shared,
     ResultFresh, ThreadSteps, Holding, Results
<1>5. CASE Dump(t) \/ WriteSidecar(t) \/ Count(t)
  BY <1>1, <1>5 DEF Dump, AfterDump, WriteSidecar, Count, Goto, Return,
     ResultFresh, ThreadSteps, Holding, Results
<1>6. CASE RequestCancel(t) \/ RequestQuit(t)
  BY <1>1, <1>6 DEF RequestCancel, RequestQuit, QuitStep, Goto, ResultFresh, ThreadSteps, Holding
<1>7. CASE After(t)
  BY <1>1, <1>7 DEF After, Goto, Return, ResultFresh, ThreadSteps, Results
<1>8. CASE Release(t)
  <2>1. PICK u \in Monitors :
          /\ u = t \/ pc[u] = "asleep"
          /\ pc' = [v \in Monitors |-> IF v = t THEN AfterRelease(t)
                                       ELSE IF v = u THEN "acquire" ELSE pc[v]]
    BY <1>1, <1>8 DEF Release
  <2>2. /\ AfterRelease(t) \in {"done", "event", "after"}
        /\ AfterRelease(t) # "done" => result[t] = "running"
    BY DEF AfterRelease
  <2>3. pc[t] = "release" /\ UNCHANGED <<result, owner, world>>
    BY <1>8 DEF Release
  <2> QED  BY <1>1, <2>1, <2>2, <2>3 DEF ThreadSteps
<1> QED
  BY <1>2, <1>3, <1>4, <1>5, <1>6, <1>7, <1>8 DEF ThreadStep

\* Hence results stay fresh.
LEMMA FreshStep ==
  ASSUME ResultFresh, NEW t \in Monitors, ThreadEffect(t)
  PROVE  ResultFresh'
BY DEF ResultFresh, ThreadEffect, OthersStay

-----------------------------------------------------------------------------
(* The owner.                                                              *)

\* Nothing is joined before it is spawned.
LEMMA InitOwner == Init => OwnerInv
BY DEF Init, OwnerInv, ResultFresh, SpawnOrder, GuardHolds, JoinsKept, GoneIsGone, Starting,
   OfKind

\* A thread's step: the joined threads are finished and do not move.
LEMMA ThreadOwner ==
  ASSUME SessionInv, OwnerInv, NEW t \in Monitors, ThreadEffect(t)
  PROVE  OwnerInv'
<1>1. UNCHANGED <<main, owned, joined, firstError, aliveSeen, outcome, alive>>
  BY DEF ThreadEffect, owner, world
<1>2. /\ owned \subseteq Monitors /\ joined \subseteq Monitors
  BY DEF SessionInv, TypeOK
<1>3. ResultFresh'
  BY FreshStep DEF OwnerInv
<1>4. \A u \in Monitors : pc'[u] = "idle" <=> pc[u] = "idle"
  BY DEF ThreadEffect, OthersStay
<1>5. \A u \in Monitors : pc[u] = "done" => pc'[u] = "done" /\ result'[u] = result[u]
  BY DEF ThreadEffect, OthersStay
<1>6. SpawnOrder'
  BY <1>4 DEF OwnerInv, SpawnOrder, OfKind
<1>7. GuardHolds'
  BY <1>1, <1>2, <1>4 DEF OwnerInv, GuardHolds, OfKind
<1>8. JoinsKept'
  BY <1>1, <1>2, <1>5 DEF OwnerInv, JoinsKept, Finished, Verdict
<1>9. \A u \in Monitors : result'[u] = "gone" => result[u] = "gone" \/ ~alive
  BY DEF ThreadEffect, OthersStay
<1>10. GoneIsGone'
  BY <1>1, <1>9 DEF OwnerInv, GoneIsGone
<1> QED  BY <1>3, <1>6, <1>7, <1>8, <1>10 DEF OwnerInv

\* Spawn: MonitorSet::start spawns t and, but for a collector, the guard gets its handle.
LEMMA SpawnOwner ==
  ASSUME SessionInv, OwnerInv, NEW t \in Monitors, Spawn(t)
  PROVE  OwnerInv'
<1>1. /\ main = "spawn" /\ pc[t] = "idle" /\ pc' = [pc EXCEPT ![t] = "waitStart"]
      /\ UNCHANGED <<result, main, joined, firstError, aliveSeen, outcome, alive>>
  BY DEF Spawn, Goto, world
<1>2. /\ pc \in [Monitors -> ThreadSteps] /\ owned \subseteq Monitors /\ joined \subseteq owned
  BY DEF SessionInv, TypeOK
<1>3. \A u \in Monitors : pc'[u] = IF u = t THEN "waitStart" ELSE pc[u]
  BY <1>1, <1>2
<1>4. Kind[t] = "manual" => \A u \in OfKind("collector") : pc[u] # "idle"
  BY DEF Spawn, Stage, OfKind
<1>5. ResultFresh'
  BY <1>1, <1>3 DEF OwnerInv, ResultFresh
<1>6. SpawnOrder'
  BY <1>3, <1>4 DEF OwnerInv, SpawnOrder, OfKind
<1>7. GuardHolds'
  <2>1. CASE Kind[t] = "collector" /\ OfKind("manual") # {}
    <3>1. owned' = owned
      BY <2>1 DEF Spawn
    <3>2. \A u \in OfKind("manual") : pc[u] = "idle" /\ pc'[u] = "idle"
      BY <1>1, <1>3, <2>1 DEF OwnerInv, SpawnOrder, OfKind
    <3> QED  BY <1>1, <1>2, <1>3, <2>1, <3>1, <3>2 DEF OwnerInv, GuardHolds, OfKind, Starting
  <2>2. CASE Kind[t] = "manual"
    <3>1. owned' = owned \cup {t} \cup OfKind("collector")
      BY <2>2 DEF Spawn
    <3> QED  BY <1>1, <1>2, <1>3, <1>4, <2>2, <3>1 DEF OwnerInv, GuardHolds, OfKind, Starting
  <2>3. CASE Kind[t] # "manual" /\ ~(Kind[t] = "collector" /\ OfKind("manual") # {})
    <3>1. owned' = owned \cup {t}
      BY <2>3 DEF Spawn
    <3> QED  BY <1>1, <1>2, <1>3, <2>3, <3>1 DEF OwnerInv, GuardHolds, OfKind, Starting
  <2> QED  BY <2>1, <2>2, <2>3
<1>8. JoinsKept'
  <2>1. \A u \in joined : pc[u] = "done" /\ u # t
    BY <1>1 DEF OwnerInv, JoinsKept, Finished
  <2> QED  BY <1>1, <1>2, <1>3, <2>1 DEF OwnerInv, JoinsKept, Finished, Starting
<1>9. GoneIsGone'
  BY <1>1 DEF OwnerInv, GoneIsGone
<1> QED  BY <1>5, <1>6, <1>7, <1>8, <1>9 DEF OwnerInv

\* GuardJoin, Join: a finished thread is joined, and its error kept if it is the first.
LEMMA JoinOwner ==
  ASSUME SessionInv, OwnerInv, NEW t \in Monitors, GuardJoin(t) \/ Join(t)
  PROVE  OwnerInv'
<1>1. /\ t \in owned \ joined /\ Finished(t) /\ joined' = joined \cup {t}
      /\ UNCHANGED <<pc, result, owned, aliveSeen, outcome, alive>>
  BY DEF GuardJoin, Join, session, threads, world
<1>2. result[t] \in Results /\ result[t] # "running"
  BY <1>1 DEF SessionInv, TypeOK, ResultKnown, Finished
<1>3. ResultFresh' /\ SpawnOrder'
  BY <1>1 DEF OwnerInv, ResultFresh, SpawnOrder, OfKind
<1>4. main' \notin Starting => main \notin Starting
  BY DEF GuardJoin, Join, Starting
<1>5. GuardHolds'
  BY <1>1, <1>4 DEF OwnerInv, GuardHolds, OfKind
<1>6. JoinsKept'
  <2>1. main' \notin {"finished", "startFailed"}
    BY DEF GuardJoin, Join
  <2>2. firstError' = "none" => main' \in Starting \/ \A u \in joined' : result[u] = "ok"
    BY <1>1, <1>2 DEF GuardJoin, Join, OwnerInv, JoinsKept, Starting, Results
  <2>3. main' \notin {"spawn", "guardCancel", "guardQuit"}
    BY DEF GuardJoin, Join
  <2> QED  BY <1>1, <2>1, <2>2, <2>3 DEF OwnerInv, JoinsKept, Finished
<1>7. GoneIsGone'
  BY <1>1 DEF GuardJoin, Join, OwnerInv, GoneIsGone
<1> QED  BY <1>3, <1>5, <1>6, <1>7 DEF OwnerInv

\* The owner's other steps and those of the outside leave the threads alone.
LEMMA MainOwner ==
  ASSUME SessionInv, OwnerInv,
         \/ SpawnFails \/ Start \/ FinishSession \/ OwnerCancel \/ OwnerQuit \/ GuardDone
         \/ WaitDone \/ AbandonSession \/ CallWait \/ Die \/ Shutdown \/ UNCHANGED vars
  PROVE  OwnerInv'
<1>1. UNCHANGED <<pc, result, owned, joined, firstError>> /\ (alive' => alive)
  BY DEF SpawnFails, Start, FinishSession, OwnerCancel, OwnerQuit, GuardDone, WaitDone,
     AbandonSession, CallWait, Die, Shutdown, vars, session, threads, owner, world
<1>2. ResultFresh' /\ SpawnOrder'
  BY <1>1 DEF OwnerInv, ResultFresh, SpawnOrder, OfKind
<1>3. GuardHolds'
  <2>1. CASE main' \in Starting \/ main \notin Starting
    BY <1>1, <2>1 DEF OwnerInv, GuardHolds, OfKind
  <2>2. CASE main' \notin Starting /\ main \in Starting
    <3>1. Start
      BY <2>2 DEF SpawnFails, FinishSession, OwnerCancel, OwnerQuit, GuardDone, WaitDone,
         AbandonSession, CallWait, Die, Shutdown, vars, owner, Starting
    <3>2. \A t \in Monitors : pc[t] # "idle"
      BY <3>1 DEF Start
    <3>3. owned = Monitors
      BY <3>2 DEF OwnerInv, GuardHolds, OfKind, SessionInv, TypeOK
    <3> QED  BY <1>1, <3>3 DEF OwnerInv, GuardHolds, OfKind
  <2> QED  BY <2>1, <2>2
<1>4. JoinsKept'
  <2>1. main' \in {"finished", "startFailed"} => joined = owned
    BY DEF SpawnFails, Start, FinishSession, OwnerCancel, OwnerQuit, GuardDone, WaitDone,
       AllJoined, AbandonSession, CallWait, Die, Shutdown, vars, owner, OwnerInv, JoinsKept
  <2>2. main' \in Starting \/ main \notin Starting \/ joined = {}
    BY DEF SpawnFails, Start, FinishSession, OwnerCancel, OwnerQuit, GuardDone, WaitDone,
       AbandonSession, CallWait, Die, Shutdown, vars, owner, Starting, OwnerInv, JoinsKept
  <2>3. main' = "finished" => outcome' = Verdict'
    BY DEF SpawnFails, Start, FinishSession, OwnerCancel, OwnerQuit, GuardDone, WaitDone,
       AbandonSession, CallWait, Die, Shutdown, vars, owner, OwnerInv, JoinsKept, Verdict
  <2>4. main' \in {"spawn", "guardCancel", "guardQuit"} => joined = {}
    BY DEF SpawnFails, Start, FinishSession, OwnerCancel, OwnerQuit, GuardDone, WaitDone,
       AbandonSession, CallWait, Die, Shutdown, vars, owner, OwnerInv, JoinsKept
  <2> QED  BY <1>1, <2>1, <2>2, <2>3, <2>4 DEF OwnerInv, JoinsKept, Finished
<1>5. GoneIsGone'
  <2>1. aliveSeen' = "dead" => aliveSeen = "dead" \/ ~alive
    BY DEF SpawnFails, Start, FinishSession, OwnerCancel, OwnerQuit, GuardDone, WaitDone,
       AbandonSession, CallWait, Die, Shutdown, vars, owner
  <2> QED  BY <1>1, <2>1 DEF OwnerInv, GoneIsGone
<1> QED  BY <1>2, <1>3, <1>4, <1>5 DEF OwnerInv

\* OwnerInv holds together with SessionInv.
LEMMA OwnerStepInv == SessionInv /\ OwnerInv /\ [Next]_vars => OwnerInv'
<1> SUFFICES ASSUME SessionInv, OwnerInv, [Next]_vars PROVE OwnerInv'
  OBVIOUS
<1>1. ASSUME NEW t \in Monitors, ThreadStep(t) \/ ThreadEvent(t) PROVE OwnerInv'
  BY <1>1, ThreadSteps1, ThreadOwner DEF OwnerInv
<1>2. ASSUME NEW t \in Monitors, Spawn(t) PROVE OwnerInv'
  BY <1>2, SpawnOwner
<1>3. ASSUME NEW t \in Monitors, GuardJoin(t) \/ Join(t) PROVE OwnerInv'
  BY <1>3, JoinOwner
<1> QED
  BY <1>1, <1>2, <1>3, MainOwner DEF Next, OwnerStep, Terminated

\* What the owner spawned, joined and learned agrees with the threads' results, always.
LEMMA OwnerInvariant == Spec => []OwnerInv
<1>1. Init => OwnerInv
  BY InitOwner
<1>2. SessionInv /\ OwnerInv /\ [Next]_vars => OwnerInv'
  BY OwnerStepInv
<1> QED  BY <1>1, <1>2, SessionInvariant, PTL DEF Spec

\* An error of any thread reaches the caller of finish_session or MonitorSet::wait; only an
\* error of a session whose target is dead is dropped, and only by finish_session.
THEOREM ErrorsReachCaller == Spec => []ErrorsSurface
<1>1. OwnerInv => ErrorsSurface
  <2> SUFFICES ASSUME OwnerInv, main = "finished", outcome = "ok"
               PROVE  \/ \A t \in Monitors : result[t] = "ok"
                      \/ ~alive /\ aliveSeen # "unasked"
    BY DEF ErrorsSurface
  <2>1. joined = Monitors /\ Verdict = "ok"
    BY DEF OwnerInv, GuardHolds, JoinsKept, Starting
  <2>2. CASE firstError = "none"
    BY <2>1, <2>2 DEF OwnerInv, JoinsKept, Starting
  <2>3. CASE firstError # "none"
    BY <2>1, <2>3 DEF OwnerInv, GoneIsGone, Verdict
  <2> QED  BY <2>2, <2>3
<1> QED  BY <1>1, OwnerInvariant, PTL

\* When finish_session, MonitorSet::wait or the StartupGuard is done, no thread is left, but
\* the collector of a start that failed between it and its manual trigger.
THEOREM EveryThreadJoined == Spec => []NoThreadLeft
<1>1. OwnerInv => NoThreadLeft
  BY DEF OwnerInv, GuardHolds, JoinsKept, Starting, Finished, OfKind, NoThreadLeft
<1> QED  BY <1>1, OwnerInvariant, PTL

-----------------------------------------------------------------------------
(* The reasons for the end.                                                *)

\* Before any thread runs.
LEMMA InitStops == Init => StopsAtLimit
BY DEF Init, StopsAtLimit, Going, OfKind, Passed, Advancing

\* A step of t: what it may do to the stop flags, the limit and itself while nothing but the
\* limit may end the session.
LEMMA ThreadStops ==
  ASSUME SessionInv, ResultFresh, StopsAtLimit, NEW t \in Monitors, ThreadStep(t) \/ ThreadEvent(t),
         ThreadEffect(t)
  PROVE  StopsAtLimit'
<1>1. /\ pc \in [Monitors -> ThreadSteps] /\ result \in [Monitors -> Results]
      /\ collected \in Nat /\ Limit \in Nat /\ Thresholds \in Nat
      /\ current \in [Monitors -> 0..Thresholds]
  BY SessionAssumption DEF SessionInv, TypeOK, SessionAssumption
<1>2. collected' \in {collected, collected + 1} /\ (LimitReached => LimitReached')
  BY <1>1 DEF ThreadStep, ThreadEvent, WaitForStart, Poll, Sample, EventQuit, Check, Acquire,
     GateTimeout, Recheck, Dump, WriteSidecar, Count, RequestCancel, RequestQuit, Release, After,
     Snooze, EventTriggers, EventExternal, EventKey, EventEnds, shared, LimitReached
<1> DEFINE Elsewhere == pc'[t] \notin {"stopCancel", "stopQuit", "limitCancel"}
<1>3. /\ pc'[t] \in {"stopCancel", "stopQuit"} => Kind[t] = "manual"
      /\ pc'[t] = "limitCancel" => LimitReached'
  <2>1. CASE WaitForStart(t) \/ Poll(t) \/ Sample(t) \/ Snooze(t)
    <3>1. Elsewhere
      BY <1>1, <2>1 DEF WaitForStart, Poll, Sample, Snooze, Goto, Return, LoopStep
    <3> QED  BY <3>1
  <2>2. CASE EventQuit(t) \/ ThreadEvent(t)
    BY <1>1, <2>2 DEF EventQuit, ThreadEvent, EventTriggers, EventExternal, EventKey, EventEnds,
       Goto, Return
  <2>3. CASE Check(t) \/ Acquire(t) \/ GateTimeout(t) \/ Recheck(t)
    <3>1. Elsewhere
      BY <1>1, <2>3 DEF Check, Acquire, GateTimeout, Recheck, Refuse, Goto, Return
    <3> QED  BY <3>1
  <2>4. CASE Dump(t) \/ WriteSidecar(t) \/ After(t)
    <3>1. Elsewhere
      BY <1>1, <2>4 DEF Dump, AfterDump, WriteSidecar, After, Goto, Return
    <3> QED  BY <3>1
  <2>5. CASE Count(t)
    BY <1>1, <2>5 DEF Count, LastDump, Goto, LimitReached
  <2>6. CASE RequestCancel(t) \/ RequestQuit(t)
    BY <1>1, <2>6 DEF RequestCancel, RequestQuit, QuitStep, Goto, StopsAtLimit
  <2>7. CASE Release(t)
    <3>1. pc'[t] = AfterRelease(t)
      BY <1>1, <2>7 DEF Release
    <3> QED  BY <3>1 DEF AfterRelease
  <2> QED  BY <2>1, <2>2, <2>3, <2>4, <2>5, <2>6, <2>7 DEF ThreadStep
<1>4. \A u \in Monitors : /\ pc'[u] \in {"stopCancel", "stopQuit"} => Kind[u] = "manual"
                          /\ pc'[u] = "limitCancel" => LimitReached'
  BY <1>2, <1>3 DEF ThreadEffect, OthersStay, StopsAtLimit
<1>5. ASSUME Limited, Undisturbed', ~LimitReached' PROVE Going'
  <2>1. Undisturbed /\ ~LimitReached
    <3>1. \A u \in Monitors : result[u] \in {"running", result'[u]}
      BY DEF ThreadEffect, OthersStay
    <3>2. UNCHANGED <<main, alive, shutdown>>
      BY DEF ThreadEffect, owner, world
    <3> QED  BY <1>2, <1>5, <3>1, <3>2 DEF Undisturbed
  <2>2. Going
    BY <1>5, <2>1 DEF StopsAtLimit
  <2>3. ~quit
    BY <2>2 DEF Going, SessionInv, FlagsOrdered
  <2>4. Kind[t] \notin {"manual", "counter"} /\ alive
    BY <1>5, <2>1 DEF Limited, OfKind, Undisturbed
  <2>5. pc[t] \notin {"stopCancel", "stopQuit", "limitCancel"}
    BY <2>1, <2>4 DEF StopsAtLimit
  <2>6. ~cancelled'
    BY <2>2, <2>5 DEF Going, ThreadStep, ThreadEvent, WaitForStart, Poll, Sample, EventQuit, Check,
       Acquire, GateTimeout, Recheck, Dump, WriteSidecar, Count, RequestCancel, RequestQuit,
       Release, After, Snooze, EventTriggers, EventExternal, EventKey, EventEnds, shared, control
  <2>7. Kind[t] = "memory" => current[t] <= collected /\ ~Exhausted(t)
    <3> SUFFICES ASSUME Kind[t] = "memory" PROVE current[t] <= collected /\ ~Exhausted(t)
      OBVIOUS
    <3>0. Passed(t) \in {current[t], current[t] + 1} /\ current[t] \in Nat
      BY <1>1 DEF Passed
    <3>1. current[t] <= Passed(t) /\ Passed(t) <= collected
      BY <1>1, <2>2, <3>0 DEF Going, OfKind
    <3>2. collected < Limit /\ Limit <= Thresholds
      BY <1>1, <1>5, <2>1 DEF Limited, OfKind, LimitReached
    <3> QED  BY <1>1, <3>1, <3>2 DEF Exhausted, Passed
  <2>8. result[t] = "running" /\ ~cancelled
    BY <2>2 DEF Going
  <2>9. result'[t] # "ok"
    <3>1. CASE WaitForStart(t) \/ Poll(t) \/ Sample(t) \/ Snooze(t)
      BY <1>1, <2>3, <2>7, <2>8, <3>1 DEF WaitForStart, Poll, Sample, Snooze, Goto, Return, Exhausted
    <3>2. CASE EventQuit(t) \/ ThreadEvent(t)
      BY <1>1, <2>4, <2>8, <3>2 DEF EventQuit, ThreadEvent, EventTriggers, EventExternal, EventKey,
         EventEnds, Goto, Return
    <3>3. CASE Check(t) \/ Acquire(t) \/ GateTimeout(t) \/ Recheck(t)
      BY <1>1, <2>1, <2>8, <3>3 DEF Check, Acquire, GateTimeout, Recheck, Refuse, Goto, Return
    <3>4. CASE Dump(t) \/ WriteSidecar(t) \/ After(t)
      BY <1>1, <2>1, <2>8, <3>4 DEF Dump, WriteSidecar, After, Goto, Return
    <3>5. CASE Count(t) \/ RequestCancel(t) \/ RequestQuit(t) \/ Release(t)
      BY <2>8, <3>5 DEF Count, RequestCancel, RequestQuit, Release, Goto
    <3> QED  BY <3>1, <3>2, <3>3, <3>4, <3>5 DEF ThreadStep
  <2>10. result'[t] = "running"
    BY <1>5, <2>9 DEF Undisturbed
  <2>11. ASSUME Kind[t] = "memory" PROVE Passed(t)' <= collected'
    <3>1. /\ current[t] \in Nat /\ Passed(t) <= collected /\ current[t] <= collected
          /\ t \in OfKind("memory")
      BY <1>1, <2>2, <2>7, <2>11 DEF Going, OfKind
    <3> DEFINE Behind == /\ current' = current /\ collected' = collected
                         /\ pc'[t] \in Advancing => pc[t] \in Advancing
    <3>2. Behind => Passed(t)' <= collected'
      BY <1>1, <3>1 DEF Passed
    <3>3. CASE WaitForStart(t) \/ Poll(t) \/ Sample(t) \/ Snooze(t)
      BY <1>1, <2>11, <3>2, <3>3 DEF WaitForStart, Poll, Sample, Snooze, Goto, Return, LoopStep,
         shared, Advancing
    <3>4. CASE EventQuit(t) \/ ThreadEvent(t)
      BY <1>1, <2>4, <2>8, <2>11, <3>2, <3>4 DEF EventQuit, ThreadEvent, EventTriggers,
         EventExternal, EventKey, EventEnds, Goto, Return, shared, Advancing
    <3>5. CASE Check(t) \/ Acquire(t) \/ GateTimeout(t)
      BY <1>1, <2>1, <2>8, <3>2, <3>5 DEF Check, Acquire, GateTimeout, Goto, Refuse, Return,
         shared, Advancing
    <3>6. CASE Recheck(t)
      BY <1>1, <2>1, <2>8, <2>11, <3>2, <3>6 DEF Recheck, Goto, MayDump, Advancing
    <3>7. CASE Dump(t) \/ WriteSidecar(t)
      BY <1>1, <2>10, <3>2, <3>7 DEF Dump, AfterDump, WriteSidecar, Goto, Return, Advancing
    <3>8. CASE Count(t)
      BY <1>1, <3>1, <3>8 DEF Count, Goto, Passed
    <3>9. CASE RequestCancel(t) \/ RequestQuit(t)
      BY <1>1, <3>2, <3>9 DEF RequestCancel, RequestQuit, QuitStep, Goto, Advancing
    <3>10. CASE Release(t)
      <4>1. current' = current /\ collected' = collected /\ pc[t] \in Advancing
        BY <3>10 DEF Release, Advancing
      <4> QED  BY <3>2, <4>1
    <3>11. CASE After(t)
      <4>1. pc[t] = "after" /\ current' = [current EXCEPT ![t] = @ + 1] /\ collected' = collected
        BY <2>11, <3>11 DEF After
      <4>2. current'[t] = current[t] + 1 /\ Passed(t) = current[t] + 1
        BY <1>1, <4>1 DEF Passed, Advancing
      <4>3. pc'[t] \in {"done", "event", "snooze"}
        BY <1>1, <3>11 DEF After, Goto, Return
      <4> QED  BY <3>1, <4>1, <4>2, <4>3 DEF Passed, Advancing
    <3> QED  BY <3>3, <3>4, <3>5, <3>6, <3>7, <3>8, <3>9, <3>10, <3>11 DEF ThreadStep
  <2>12. \A u \in OfKind("memory") : Passed(u)' <= collected'
    <3> SUFFICES ASSUME NEW u \in OfKind("memory"), u # t PROVE Passed(u)' <= collected'
      BY <2>11 DEF OfKind
    <3>1. current'[u] = current[u]
      <4>1. CASE After(t)
        BY <1>1, <4>1 DEF After, OfKind
      <4>2. CASE ~After(t)
        BY <4>2 DEF ThreadStep, ThreadEvent, WaitForStart, Poll, Sample, EventQuit, Check, Acquire,
           GateTimeout, Recheck, Dump, WriteSidecar, Count, RequestCancel, RequestQuit, Release,
           Snooze, EventTriggers, EventExternal, EventKey, EventEnds, shared
      <4> QED  BY <4>1, <4>2
    <3>2. pc'[u] \in Advancing <=> pc[u] \in Advancing
      BY DEF ThreadEffect, OthersStay, Advancing, OfKind
    <3>3. Passed(u)' = Passed(u) /\ Passed(u) \in Nat /\ Passed(u) <= collected
      BY <1>1, <2>2, <3>1, <3>2 DEF Passed, Going, OfKind
    <3> QED  BY <1>1, <1>2, <3>3
  <2>13. main' \notin {"finishCancel", "finishQuit", "joinCancel", "joinQuit"}
    BY <2>2 DEF Going, ThreadEffect, owner
  <2>14. \A u \in Monitors : result'[u] = "running"
    BY <2>2, <2>10 DEF Going, ThreadEffect, OthersStay
  <2> QED  BY <2>6, <2>12, <2>13, <2>14 DEF Going
<1>6. (Limited /\ Undisturbed /\ ~LimitReached => Going)'
  BY <1>5 DEF Limited, OfKind, LimitReached
<1> QED  BY <1>4, <1>6 DEF StopsAtLimit
\* The owner and the outside: what ends a session but its threads is a disturbance, and while
\* the session goes on no thread is finished that could be joined.
LEMMA MainStops ==
  ASSUME SessionInv, StopsAtLimit,
         \/ \E t \in Monitors : Spawn(t) \/ GuardJoin(t) \/ Join(t)
         \/ SpawnFails \/ Start \/ FinishSession \/ OwnerCancel \/ OwnerQuit \/ GuardDone
         \/ WaitDone \/ AbandonSession \/ CallWait \/ Die \/ Shutdown \/ UNCHANGED vars
  PROVE  StopsAtLimit'
<1> DEFINE Aside == /\ UNCHANGED <<result, current, collected>>
                    /\ \A u \in Monitors : \/ pc'[u] = pc[u]
                                           \/ pc[u] = "idle" /\ pc'[u] = "waitStart"
           Outside == \/ SpawnFails \/ Start \/ FinishSession \/ OwnerCancel \/ OwnerQuit
                      \/ GuardDone \/ WaitDone \/ AbandonSession \/ CallWait \/ Die \/ Shutdown
                      \/ UNCHANGED vars
           Closing == {"finishCancel", "finishQuit", "joinCancel", "joinQuit"}
<1>1. Aside
  <2>1. CASE Outside
    BY <2>1 DEF SpawnFails, Start, FinishSession, OwnerCancel, OwnerQuit, GuardDone,
       WaitDone, AbandonSession, CallWait, Die, Shutdown, vars, session, threads, world, owner
  <2>2. ASSUME NEW t \in Monitors, GuardJoin(t) \/ Join(t) PROVE Aside
    BY <2>2 DEF GuardJoin, Join, session, threads, world
  <2>3. ASSUME NEW t \in Monitors, Spawn(t) PROVE Aside
    <3>1. /\ pc \in [Monitors -> ThreadSteps] /\ pc[t] = "idle"
          /\ pc' = [pc EXCEPT ![t] = "waitStart"]
          /\ UNCHANGED <<result, current, collected>>
      BY <2>3 DEF Spawn, Goto, world, SessionInv, TypeOK
    <3> QED  BY <3>1
  <2> QED  BY <2>1, <2>2, <2>3
<1>0. (alive' => alive) /\ (shutdown => shutdown')
  BY DEF SpawnFails, Start, FinishSession, OwnerCancel, OwnerQuit, GuardDone, WaitDone, Spawn,
     AbandonSession, CallWait, GuardJoin, Join, Die, Shutdown, vars, session, world
<1>2. ASSUME ~\E t \in Monitors : Finished(t),
             alive, ~shutdown, main \notin Starting \ {"spawn"}, main \notin Closing, ~cancelled,
             main' \notin Starting \ {"spawn"}
      PROVE  ~cancelled' /\ main' \notin Closing
  <2>1. CASE Outside
    <3>1. ~SpawnFails /\ ~FinishSession /\ ~OwnerCancel
      BY <1>2 DEF SpawnFails, FinishSession, HasFinished, OwnerCancel, Starting
    <3>2. cancelled' = cancelled
      BY <2>1, <3>1 DEF Start, OwnerQuit, GuardDone, WaitDone, AbandonSession, CallWait, Die,
         Shutdown, vars, session, control
    <3>3. main' \notin Closing
      BY <1>2, <2>1, <3>1 DEF Start, OwnerQuit, GuardDone, WaitDone, AbandonSession, CallWait, Die,
         Shutdown, vars, owner
    <3> QED  BY <1>2, <3>2, <3>3
  <2>2. CASE \E t \in Monitors : Spawn(t)
    BY <1>2, <2>2 DEF Spawn, control
  <2>3. CASE \E t \in Monitors : GuardJoin(t) \/ Join(t)
    BY <1>2, <2>3 DEF GuardJoin, Join
  <2> QED  BY <2>1, <2>2, <2>3
<1>3. main \in Starting \ {"spawn"} => main' \in Starting \ {"spawn"}
  <2>1. CASE Outside
    BY <2>1 DEF SpawnFails, Start, FinishSession, OwnerCancel, OwnerQuit, GuardDone,
       WaitDone, AbandonSession, CallWait, Die, Shutdown, vars, owner, Starting
  <2>2. CASE \E t \in Monitors : Spawn(t) \/ GuardJoin(t) \/ Join(t)
    BY <2>2 DEF Spawn, GuardJoin, Join, Starting
  <2> QED  BY <2>1, <2>2
<1>4. \A u \in Monitors : /\ pc'[u] \in {"stopCancel", "stopQuit"} => Kind[u] = "manual"
                          /\ pc'[u] = "limitCancel" => LimitReached'
  BY <1>1 DEF StopsAtLimit, LimitReached
<1>5. ASSUME Limited, Undisturbed', ~LimitReached' PROVE Going'
  <2>1. Undisturbed /\ ~LimitReached
    BY <1>0, <1>1, <1>3, <1>5 DEF Undisturbed, LimitReached
  <2>2. Going
    BY <1>5, <2>1 DEF StopsAtLimit
  <2>3. ~\E t \in Monitors : Finished(t)
    BY <2>2 DEF Going, Finished, SessionInv, ResultKnown
  <2>4. ~cancelled' /\ main' \notin Closing
    BY <1>2, <1>5, <2>1, <2>2, <2>3 DEF Undisturbed, Going
  <2>5. \A u \in OfKind("memory") : Passed(u)' = Passed(u)
    BY <1>1 DEF Passed, Advancing, OfKind
  <2> QED  BY <1>1, <2>2, <2>4, <2>5 DEF Going, OfKind
<1>6. (Limited /\ Undisturbed /\ ~LimitReached => Going)'
  BY <1>5 DEF Limited, OfKind
<1> QED  BY <1>4, <1>6 DEF StopsAtLimit

\* StopsAtLimit holds together with SessionInv and OwnerInv.
LEMMA StopsInvariant == Spec => []StopsAtLimit
<1>1. SessionInv /\ OwnerInv /\ StopsAtLimit /\ [Next]_vars => StopsAtLimit'
  <2> SUFFICES ASSUME SessionInv, OwnerInv, StopsAtLimit, [Next]_vars PROVE StopsAtLimit'
    OBVIOUS
  <2>1. ASSUME NEW t \in Monitors, ThreadStep(t) \/ ThreadEvent(t) PROVE StopsAtLimit'
    BY <2>1, ThreadSteps1, ThreadStops DEF OwnerInv
  <2> QED  BY <2>1, MainStops DEF Next, OwnerStep, Terminated
<1> QED  BY <1>1, InitStops, SessionInvariant, OwnerInvariant, PTL DEF Spec

\* A session that ends by itself with its target alive, no error and no key pressed has taken
\* its -n dumps, whatever its other triggers: only an EventPipe stream that ends and a memory
\* trigger with fewer thresholds than -n end a session earlier.
THEOREM EndsAtLimit == Spec => [](Limited => EndsOnlyAtLimit)
<1>1. SessionInv /\ OwnerInv /\ ErrorsSurface /\ StopsAtLimit => (Limited => EndsOnlyAtLimit)
  <2> SUFFICES ASSUME SessionInv, OwnerInv, ErrorsSurface, StopsAtLimit, Limited,
                      main = "finished", outcome = "ok", alive, ~shutdown
               PROVE  collected >= Limit
    BY DEF EndsOnlyAtLimit
  <2>1. \A t \in Monitors : result[t] = "ok"
    BY DEF ErrorsSurface
  <2>2. Undisturbed
    BY <2>1 DEF Undisturbed, Starting
  <2>3. ~Going
    BY <2>1, SessionAssumption DEF Going, SessionAssumption
  <2> QED  BY <2>2, <2>3 DEF StopsAtLimit, LimitReached
<1> QED  BY <1>1, SessionInvariant, OwnerInvariant, ErrorsReachCaller, StopsInvariant, PTL
-----------------------------------------------------------------------------
(* The account of the dumps.                                               *)

\* What a step may do to the account: nothing, a dump is completed or announced by t, t's
\* dump is counted, or t loses it.
Kept == UNCHANGED <<written, external, collected, lost>> /\ Uncounted' = Uncounted
Completed(t) ==
  /\ written' + external' = written + external + 1 /\ UNCHANGED <<collected, lost>>
  /\ t \notin Uncounted /\ Uncounted' = Uncounted \cup {t}
Counted(t) ==
  /\ UNCHANGED <<written, external, lost>> /\ collected' = collected + 1
  /\ t \in Uncounted /\ Uncounted' = Uncounted \ {t}
LostBy(t) ==
  /\ UNCHANGED <<written, external, collected>>
  /\ t \notin lost /\ lost' = lost \cup {t}
  /\ t \in Uncounted /\ Uncounted' = Uncounted \ {t}

\* Each of the four balances.
LEMMA Balance ==
  ASSUME SessionInv, EveryDumpAccounted, NEW t \in Monitors,
         Kept \/ Completed(t) \/ Counted(t) \/ LostBy(t)
  PROVE  EveryDumpAccounted'
<1> SUFFICES ASSUME PrimaryDump
             PROVE  written' + external' = collected' + Cardinality(Uncounted') + Cardinality(lost')
  BY DEF EveryDumpAccounted
<1>1. /\ written \in Nat /\ external \in Nat /\ collected \in Nat /\ lost \subseteq Monitors
      /\ written' + external' = written + external \/ written' + external' = written + external + 1
  BY DEF SessionInv, TypeOK, Kept, Completed, Counted, LostBy
<1>2. IsFiniteSet(Uncounted) /\ IsFiniteSet(lost)
  BY <1>1, SessionAssumption, FS_Subset DEF SessionAssumption, Uncounted
<1>3. Cardinality(Uncounted) \in Nat /\ Cardinality(lost) \in Nat
  BY <1>2, FS_CardinalityType
<1>4. written + external = collected + Cardinality(Uncounted) + Cardinality(lost)
  BY DEF EveryDumpAccounted
<1>5. CASE Kept
  BY <1>4, <1>5 DEF Kept
<1>6. CASE Completed(t)
  <2>1. Cardinality(Uncounted') = Cardinality(Uncounted) + 1
    BY <1>2, <1>6, FS_AddElement DEF Completed
  <2> QED  BY <1>1, <1>3, <1>4, <1>6, <2>1 DEF Completed
<1>7. CASE Counted(t)
  <2>1. Cardinality(Uncounted') = Cardinality(Uncounted) - 1
    BY <1>2, <1>7, FS_RemoveElement DEF Counted
  <2> QED  BY <1>1, <1>3, <1>4, <1>7, <2>1 DEF Counted
<1>8. CASE LostBy(t)
  <2>1. Cardinality(Uncounted') = Cardinality(Uncounted) - 1
    BY <1>2, <1>8, FS_RemoveElement DEF LostBy
  <2>2. Cardinality(lost') = Cardinality(lost) + 1
    BY <1>2, <1>8, FS_AddElement DEF LostBy
  <2> QED  BY <1>1, <1>3, <1>4, <1>8, <2>1, <2>2 DEF LostBy
<1> QED  BY <1>5, <1>6, <1>7, <1>8

\* A step of t moves only t in or out of the uncounted.
LEMMA OnlyMine ==
  ASSUME SessionInv, AccountInv, NEW t \in Monitors, ThreadEffect(t)
  PROVE  /\ (t \in Uncounted' <=> t \in Uncounted) => Uncounted' = Uncounted
         /\ t \in Uncounted' => Uncounted' = Uncounted \cup {t}
         /\ t \notin Uncounted' => Uncounted' = Uncounted \ {t}
<1>1. \A u \in Monitors \ {t} : u \in Uncounted' <=> u \in Uncounted
  BY DEF ThreadEffect, OthersStay, Uncounted
<1>2. Uncounted \subseteq Monitors /\ Uncounted' \subseteq Monitors
  BY DEF Uncounted
<1> QED  BY <1>1, <1>2

\* A step of t balances.
LEMMA ThreadAccount ==
  ASSUME SessionInv, AccountInv, NEW t \in Monitors, ThreadStep(t) \/ ThreadEvent(t),
         ThreadEffect(t), PrimaryDump
  PROVE  Kept \/ Completed(t) \/ Counted(t) \/ LostBy(t)
<1>1. /\ pc \in [Monitors -> ThreadSteps] /\ collected \in Nat /\ written \in Nat /\ external \in Nat
      /\ Kind[t] = "profiler" => pc[t] \in ProfilerSteps
  BY DEF SessionInv, TypeOK, AccountInv, OfKind
<1>2. t \in lost => result[t] # "running"
  BY DEF AccountInv
<1>3. pc[t] \in {"acquire", "recheck", "sidecar"} => t \notin lost
  BY <1>2 DEF AccountInv, ResultFresh
<1> DEFINE In  == IF Kind[t] = "profiler" THEN pc[t] \in {"acquire", "asleep", "recheck", "count"}
                                          ELSE pc[t] \in {"sidecar", "count"}
           In1 == IF Kind[t] = "profiler" THEN pc'[t] \in {"acquire", "asleep", "recheck", "count"}
                                          ELSE pc'[t] \in {"sidecar", "count"}
<1>4. (t \in Uncounted <=> In) /\ (t \in Uncounted' <=> In1)
  BY DEF Uncounted
<1>5. /\ (In1 <=> In) => Uncounted' = Uncounted
      /\ In1 => Uncounted' = Uncounted \cup {t}
      /\ ~In1 => Uncounted' = Uncounted \ {t}
  BY <1>4, OnlyMine
<1> HIDE DEF In, In1
<1>6. CASE WaitForStart(t) \/ Poll(t) \/ Sample(t) \/ Snooze(t) \/ EventQuit(t)
  <2>1. In1 <=> In
    BY <1>1, <1>6 DEF In, In1, WaitForStart, Poll, Sample, Snooze, EventQuit, LoopStep, Goto, Return
  <2>2. UNCHANGED <<written, external, collected, lost>>
    BY <1>6 DEF WaitForStart, Poll, Sample, Snooze, EventQuit, shared, history
  <2> QED  BY <1>5, <2>1, <2>2 DEF Kept
<1>7. CASE EventTriggers(t) \/ EventKey(t) \/ EventEnds(t) \/ Check(t) \/ GateTimeout(t)
  <2>1. In1 <=> In
    BY <1>1, <1>7 DEF In, In1, EventTriggers, EventKey, EventEnds, Check, GateTimeout, Goto, Return,
       ProfilerSteps
  <2>2. UNCHANGED <<written, external, collected, lost>>
    BY <1>7 DEF EventTriggers, EventKey, EventEnds, Check, GateTimeout, shared, history
  <2> QED  BY <1>5, <2>1, <2>2 DEF Kept
<1>8. CASE EventExternal(t)
  <2>1. ~In /\ In1
    BY <1>1, <1>8 DEF In, In1, EventExternal, Goto
  <2>2. external' = external + 1 /\ UNCHANGED <<written, collected, lost>>
    BY <1>8 DEF EventExternal
  <2> QED  BY <1>1, <1>4, <1>5, <2>1, <2>2 DEF Completed
<1>9. CASE Acquire(t)
  <2>0. pc[t] = "acquire" /\ UNCHANGED <<written, external, collected>>
    BY <1>9 DEF Acquire
  <2>1. CASE Kind[t] = "profiler" /\ cancelled
    <3>1. In /\ ~In1 /\ lost' = lost \cup {t}
      BY <1>1, <1>9, <2>1 DEF In, In1, Acquire, Refuse, Return
    <3> QED  BY <1>3, <1>4, <1>5, <2>0, <3>1 DEF LostBy
  <2>2. CASE ~(Kind[t] = "profiler" /\ cancelled)
    <3>1. (In1 <=> In) /\ lost' = lost
      BY <1>1, <1>9, <2>2 DEF In, In1, Acquire, Goto
    <3> QED  BY <1>5, <2>0, <3>1 DEF Kept
  <2> QED  BY <2>1, <2>2
<1>10. CASE Recheck(t)
  <2>0. pc[t] = "recheck" /\ UNCHANGED <<written, external, collected>>
    BY <1>10 DEF Recheck
  <2>1. CASE Kind[t] = "profiler" /\ LimitReached
    <3>1. In /\ ~In1 /\ lost' = lost \cup {t}
      BY <1>1, <1>10, <2>1 DEF In, In1, Recheck, Refuse, Return
    <3> QED  BY <1>3, <1>4, <1>5, <2>0, <3>1 DEF LostBy
  <2>2. CASE ~(Kind[t] = "profiler" /\ LimitReached)
    <3>1. (In1 <=> In) /\ lost' = lost
      BY <1>1, <1>10, <2>2 DEF In, In1, Recheck, Goto
    <3> QED  BY <1>5, <2>0, <3>1 DEF Kept
  <2> QED  BY <2>1, <2>2
<1>11. CASE Dump(t)
  <2>0. /\ pc[t] = "dump" /\ Kind[t] # "profiler" /\ ~In
        /\ UNCHANGED <<external, collected, lost>>
    BY <1>1, <1>11 DEF Dump, ProfilerSteps, In
  <2>1. (written' = written + 1 /\ In1) \/ (written' = written /\ ~In1)
    BY <1>1, <1>11, <2>0 DEF Dump, AfterDump, Goto, Return, In1
  <2> QED  BY <1>1, <1>4, <1>5, <2>0, <2>1 DEF Completed, Kept
<1>12. CASE WriteSidecar(t)
  <2>0. pc[t] = "sidecar" /\ Kind[t] # "profiler" /\ In /\ UNCHANGED <<written, external, collected>>
    BY <1>1, <1>12 DEF WriteSidecar, ProfilerSteps, In
  <2>1. (lost' = lost /\ In1) \/ (lost' = lost \cup {t} /\ ~In1)
    BY <1>1, <1>12, <2>0 DEF WriteSidecar, Goto, Return, In1
  <2> QED  BY <1>3, <1>4, <1>5, <2>0, <2>1 DEF LostBy, Kept
<1>13. CASE Count(t)
  <2>1. In /\ ~In1 /\ collected' = collected + 1 /\ UNCHANGED <<written, external, lost>>
    BY <1>1, <1>13 DEF Count, Goto, In, In1, history
  <2> QED  BY <1>4, <1>5, <2>1 DEF Counted
<1>14. CASE RequestCancel(t) \/ RequestQuit(t) \/ Release(t)
  <2>1. pc'[t] \in {"limitQuit", "stopQuit", "release", "done", "event", "after"}
    BY <1>1, <1>14 DEF RequestCancel, RequestQuit, QuitStep, Release, AfterRelease, Goto
  <2>2. pc[t] \in {"limitCancel", "stopCancel", "limitQuit", "stopQuit", "release"}
    BY <1>14 DEF RequestCancel, RequestQuit, Release
  <2>3. UNCHANGED <<written, external, collected, lost>>
    BY <1>14 DEF RequestCancel, RequestQuit, Release, history
  <2> QED  BY <1>5, <2>1, <2>2, <2>3 DEF Kept, In, In1
<1>15. CASE After(t)
  <2>1. ~In /\ ~In1 /\ UNCHANGED <<written, external, collected, lost>>
    BY <1>1, <1>15 DEF After, Goto, Return, In, In1, history
  <2> QED  BY <1>5, <2>1 DEF Kept
<1> QED
  BY <1>6, <1>7, <1>8, <1>9, <1>10, <1>11, <1>12, <1>13, <1>14, <1>15 DEF ThreadStep, ThreadEvent
\* The injected profiler's thread keeps to its steps, and only an ended thread loses a dump.
LEMMA ThreadAccountRest ==
  ASSUME SessionInv, AccountInv, NEW t \in Monitors, ThreadStep(t) \/ ThreadEvent(t),
         ThreadEffect(t)
  PROVE  /\ Kind[t] = "profiler" => pc'[t] \in ProfilerSteps
         /\ t \in lost' \ lost => result'[t] # "running"
         /\ lost' \subseteq lost \cup {t}
<1>1. /\ pc \in [Monitors -> ThreadSteps] /\ result \in [Monitors -> Results]
      /\ Kind[t] = "profiler" => pc[t] \in ProfilerSteps
  BY DEF SessionInv, TypeOK, AccountInv, OfKind
<1>2. CASE WaitForStart(t) \/ Poll(t) \/ Sample(t) \/ Snooze(t) \/ EventQuit(t)
  BY <1>1, <1>2 DEF WaitForStart, Poll, Sample, Snooze, EventQuit, LoopStep, Goto, Return, shared,
     history, ProfilerSteps
<1>3. CASE ThreadEvent(t) \/ Check(t) \/ GateTimeout(t)
  BY <1>1, <1>3 DEF ThreadEvent, EventTriggers, EventExternal, EventKey, EventEnds, Check,
     GateTimeout, Goto, Return, shared, history, ProfilerSteps
<1>4. CASE Acquire(t) \/ Recheck(t)
  BY <1>1, <1>4 DEF Acquire, Recheck, Refuse, Goto, Return, ProfilerSteps
<1>5. CASE Dump(t) \/ WriteSidecar(t)
  BY <1>1, <1>5 DEF Dump, WriteSidecar, Goto, Return, ProfilerSteps
<1>6. CASE Count(t) \/ RequestCancel(t) \/ RequestQuit(t)
  BY <1>1, <1>6 DEF Count, RequestCancel, RequestQuit, QuitStep, Goto, history, ProfilerSteps
<1>7. CASE Release(t) \/ After(t)
  <2>1. lost' = lost
    BY <1>7 DEF Release, After, history
  <2>2. Kind[t] = "profiler" => Release(t)
    BY <1>1, <1>7 DEF After, ProfilerSteps
  <2>3. Release(t) => pc'[t] = AfterRelease(t)
    BY <1>1 DEF Release
  <2> QED  BY <2>1, <2>2, <2>3 DEF AfterRelease, ProfilerSteps
<1> QED  BY <1>2, <1>3, <1>4, <1>5, <1>6, <1>7 DEF ThreadStep

\* The owner and the outside complete, count and lose nothing.
LEMMA MainAccount ==
  ASSUME SessionInv, AccountInv,
         \/ \E t \in Monitors : Spawn(t) \/ GuardJoin(t) \/ Join(t)
         \/ SpawnFails \/ Start \/ FinishSession \/ OwnerCancel \/ OwnerQuit \/ GuardDone
         \/ WaitDone \/ AbandonSession \/ CallWait \/ Die \/ Shutdown \/ UNCHANGED vars
  PROVE  AccountInv'
<1>1. UNCHANGED <<result, written, external, collected, lost>>
  BY DEF SpawnFails, Start, FinishSession, OwnerCancel, OwnerQuit, GuardDone, WaitDone, Spawn,
     Goto, AbandonSession, CallWait, GuardJoin, Join, Die, Shutdown, vars, session, threads, history
<1>2. \A u \in Monitors : pc'[u] = pc[u] \/ (pc[u] = "idle" /\ pc'[u] = "waitStart")
  <2>1. ASSUME NEW t \in Monitors, Spawn(t)
        PROVE  \A u \in Monitors : pc'[u] = pc[u] \/ (pc[u] = "idle" /\ pc'[u] = "waitStart")
    <3>1. pc \in [Monitors -> ThreadSteps] /\ pc[t] = "idle" /\ pc' = [pc EXCEPT ![t] = "waitStart"]
      BY <2>1 DEF Spawn, Goto, SessionInv, TypeOK
    <3> QED  BY <3>1
  <2>2. pc' = pc \/ \E t \in Monitors : Spawn(t)
    BY DEF SpawnFails, Start, FinishSession, OwnerCancel, OwnerQuit, GuardDone, WaitDone,
       AbandonSession, CallWait, GuardJoin, Join, Die, Shutdown, vars, session, threads
  <2> QED  BY <2>1, <2>2
<1>3. Uncounted' = Uncounted
  BY <1>2 DEF Uncounted
<1>4. ResultFresh'
  BY <1>1, <1>2 DEF AccountInv, ResultFresh
<1>5. (\A t \in OfKind("profiler") : pc[t] \in ProfilerSteps)'
  BY <1>2 DEF AccountInv, OfKind, ProfilerSteps
<1>6. (\A t \in lost : result[t] # "running")'
  BY <1>1 DEF AccountInv
<1>7. EveryDumpAccounted'
  BY <1>1, <1>3 DEF AccountInv, EveryDumpAccounted
<1> QED  BY <1>4, <1>5, <1>6, <1>7 DEF AccountInv

\* AccountInv holds together with SessionInv.
LEMMA AccountStepInv == SessionInv /\ AccountInv /\ [Next]_vars => AccountInv'
<1> SUFFICES ASSUME SessionInv, AccountInv, [Next]_vars PROVE AccountInv'
  OBVIOUS
<1>1. ASSUME NEW t \in Monitors, ThreadStep(t) \/ ThreadEvent(t) PROVE AccountInv'
  <2>1. ThreadEffect(t)
    BY <1>1, ThreadSteps1 DEF AccountInv
  <2>2. ResultFresh'
    BY <2>1, FreshStep DEF AccountInv
  <2>3. /\ Kind[t] = "profiler" => pc'[t] \in ProfilerSteps
        /\ t \in lost' \ lost => result'[t] # "running"
        /\ lost' \subseteq lost \cup {t}
    BY <1>1, <2>1, ThreadAccountRest
  <2>4. (\A u \in OfKind("profiler") : pc[u] \in ProfilerSteps)'
    BY <2>1, <2>3 DEF AccountInv, ThreadEffect, OthersStay, OfKind, ProfilerSteps
  <2>5. (\A u \in lost : result[u] # "running")'
    BY <2>1, <2>3 DEF AccountInv, ThreadEffect, OthersStay, SessionInv, TypeOK
  <2>6. EveryDumpAccounted'
    <3>1. CASE PrimaryDump
      BY <1>1, <2>1, <3>1, ThreadAccount, Balance DEF AccountInv
    <3>2. CASE ~PrimaryDump
      BY <3>2 DEF EveryDumpAccounted
    <3> QED  BY <3>1, <3>2
  <2> QED  BY <2>2, <2>4, <2>5, <2>6 DEF AccountInv
<1> QED  BY <1>1, MainAccount DEF Next, OwnerStep, Terminated

\* Every dump completed or announced is counted exactly once, is about to be, or is the one
\* dump its thread lost: however the triggers, the gate and the stop interleave.
THEOREM EveryDumpCounted == Spec => []EveryDumpAccounted
<1>1. Init => AccountInv
  <2> SUFFICES ASSUME Init PROVE AccountInv
    OBVIOUS
  <2>1. Uncounted = {} /\ lost = {}
    BY DEF Init, Uncounted
  <2>2. EveryDumpAccounted
    BY <2>1, FS_EmptySet DEF Init, EveryDumpAccounted
  <2> QED  BY <2>1, <2>2 DEF Init, AccountInv, ResultFresh, OfKind, ProfilerSteps
<1>2. AccountInv => EveryDumpAccounted
  BY DEF AccountInv
<1> QED  BY <1>1, <1>2, AccountStepInv, SessionInvariant, PTL DEF Spec
=============================================================================
