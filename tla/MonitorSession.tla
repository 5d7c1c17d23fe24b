--------------------------- MODULE MonitorSession ---------------------------
(***************************************************************************)
(* One monitoring session of one target process (monitor.rs, sync.rs): the *)
(* trigger threads, the MonitorControl that starts and stops them, the     *)
(* DumpCoordinator with its DumpGate that serialises their dumps, and the  *)
(* thread that spawns, stops and joins them (MonitorSet::start,            *)
(* finish_session of orchestrator.rs, MonitorSet::wait).                   *)
(*                                                                         *)
(* One action is one critical section or one atomic access of the code.    *)
(* Two reads of flags that only ever grow (collected, cancelled) and that  *)
(* decide one branch are one step.  Mutex poisoning is left out: no        *)
(* critical section of sync.rs can panic, and a permit dropped while its   *)
(* thread unwinds does not poison the gate.                                *)
(***************************************************************************)
EXTENDS Naturals, FiniteSets

CONSTANTS
  Monitors,       \* the threads of the session
  Kind,           \* what each of them monitors
  Limit,          \* Config::dump_count
  Thresholds,     \* number of thresholds of the memory trigger
  PrimaryDump     \* DumpSidecar::generate_primary_dump (FALSE: -restrack nodump)

Kinds == {"timer", "sampler", "memory", "counter", "signal",
          "profiler", "collector", "manual"}

\* sampler: the cpu, thread-count and descriptor-count monitors, which differ
\* only in the number they compare.  counter: EventPipe performance counters.
\* collector, manual: the two threads of resource tracking.
ASSUME SessionAssumption ==
  /\ Monitors # {}
  /\ IsFiniteSet(Monitors)
  /\ Kind \in [Monitors -> Kinds]
  /\ Limit \in Nat \ {0}
  /\ Thresholds \in Nat \ {0}
  /\ PrimaryDump \in BOOLEAN
  /\ ~PrimaryDump => \E t \in Monitors : Kind[t] = "collector"

VARIABLES
  \* MonitorControl
  started, quit,  \* ControlState, under the mutex
  cancelled,      \* the CancellationToken, an atomic
  \* DumpCoordinator and DumpGate
  active,         \* DumpGate::active
  collected,
  \* the threads
  pc, result,     \* where each is, and what it returns
  current,        \* the memory monitor's next threshold
  \* the thread that owns the session
  main, owned,    \* where it is; the handles it holds
  joined, firstError, aliveSeen, outcome,
  \* the outside
  alive,          \* the process of this identity exists
  shutdown,       \* Ctrl-C
  \* history
  written,        \* dump files the backend completed
  external,       \* dumps the injected profiler announced
  lost            \* threads whose completed dump was never counted

control   == <<started, quit, cancelled>>
threads   == <<pc, result, current>>
owner     == <<main, owned, joined, firstError, aliveSeen, outcome>>
world     == <<alive, shutdown>>
history   == <<written, external, lost>>
\* What a step of one thread's own, and what a step of the owner's own, leaves alone.
shared    == <<control, active, collected, current, owner, world, history>>
session   == <<control, active, collected, threads, world, history>>
vars == <<control, active, collected, threads, owner, world, history>>

Results == {"running", "ok", "gone", "error", "panic"}

\* Where a thread holds a DumpPermit.
Holding == {"recheck", "dump", "sidecar", "count",
            "limitCancel", "limitQuit", "release"}

ThreadSteps == Holding \cup
  {"idle", "waitStart", "poll", "sample", "event", "check", "acquire", "asleep",
   "after", "snooze", "stopCancel", "stopQuit", "done"}

OwnerSteps ==
  {"spawn", "running", "guardCancel", "guardQuit", "guardJoin", "startFailed",
   "finishCancel", "finishQuit", "wait", "joinCancel", "joinQuit",
   "finished", "abandoned"}

OfKind(k) == {t \in Monitors : Kind[t] = k}
Sidecar == OfKind("collector") # {}
Finished(t) == pc[t] = "done"

MutLimitReached == collected + 1 >= Limit
LimitReached == collected >= Limit
HasFinished == \E t \in Monitors : Finished(t)
Holders == {t \in Monitors : pc[t] \in Holding}

Init ==
  /\ started = FALSE /\ quit = FALSE /\ cancelled = FALSE
  /\ active = FALSE /\ collected = 0
  /\ pc = [t \in Monitors |-> "idle"]
  /\ result = [t \in Monitors |-> "running"]
  /\ current = [t \in Monitors |-> 0]
  /\ main = "spawn" /\ owned = {} /\ joined = {}
  /\ firstError = "none" /\ aliveSeen = "unasked" /\ outcome = "none"
  /\ alive = TRUE /\ shutdown = FALSE
  /\ written = 0 /\ external = 0 /\ lost = {}

-----------------------------------------------------------------------------
(* The trigger threads.                                                    *)

Goto(t, step) ==
  /\ pc' = [pc EXCEPT ![t] = step]
  /\ UNCHANGED result

\* The thread's return value is known: it is at `step` with it.
Return(t, value, step) ==
  /\ pc' = [pc EXCEPT ![t] = step]
  /\ result' = [result EXCEPT ![t] = value]

\* The first step of a trigger's loop.
LoopStep(t) ==
  CASE Kind[t] = "timer"                 -> "check"
    [] Kind[t] \in {"sampler", "memory"} -> "poll"
    [] OTHER                             -> "event"

MutStartOrQuit == started
StartOrQuit == started \/ quit

WaitForStart(t) ==
  /\ pc[t] = "waitStart"
  /\ StartOrQuit
  /\ IF quit THEN Return(t, "ok", "done") ELSE Goto(t, LoopStep(t))
  /\ UNCHANGED shared

\* The memory monitor has used up its thresholds.
Exhausted(t) == Kind[t] = "memory" /\ current[t] >= Thresholds

\* while current < thresholds.len() && control.wait(polling) == TimedOut
Poll(t) ==
  /\ pc[t] = "poll"
  /\ IF quit \/ Exhausted(t)
       THEN Return(t, "ok", "done")
       ELSE Goto(t, "sample")
  /\ UNCHANGED shared

\* sample_identity and the comparison with the threshold.
Sample(t) ==
  /\ pc[t] = "sample"
  /\ \/ ~alive /\ Return(t, "gone", "done")
     \/ alive /\ Return(t, "error", "done")
     \/ alive /\ Goto(t, "check")
     \/ alive /\ Goto(t, "poll")
  /\ UNCHANGED shared

\* The event loops look at is_quit_requested, not at the condition variable.  The next
\* event is taken after that look: a stop in between leaves the event to be handled.
EventQuit(t) ==
  /\ pc[t] = "event"
  /\ cancelled
  /\ Return(t, "ok", IF Kind[t] = "manual" THEN "stopCancel" ELSE "done")
  /\ UNCHANGED shared

\* A counter crosses its threshold or a monitored signal arrives.
EventTriggers(t) ==
  /\ pc[t] = "event"
  /\ Kind[t] \in {"counter", "signal"} /\ alive
  /\ Goto(t, "check")
  /\ UNCHANGED shared

\* The injected profiler wrote a dump and announces it (record_external_dump).
EventExternal(t) ==
  /\ pc[t] = "event"
  /\ Kind[t] = "profiler" /\ alive
  /\ external' = external + 1
  /\ Goto(t, "acquire")
  /\ UNCHANGED <<control, active, collected, current, owner, world, written, lost>>

\* A key was read: 't' writes one report, which may fail; any key ends the session.
EventKey(t) ==
  /\ pc[t] = "event"
  /\ Kind[t] = "manual"
  /\ \E value \in {"ok", "error"} : Return(t, value, "stopCancel")
  /\ UNCHANGED shared

\* The event source ends or fails: the target exits, the runtime closes the stream,
\* a call fails.
EventEnds(t) ==
  /\ pc[t] = "event" /\ Kind[t] # "manual"
  /\ \/ /\ Kind[t] = "counter" \/ (Kind[t] = "signal" /\ ~alive)
        /\ Return(t, "ok", "done")
     \/ Return(t, "error", "done")
  /\ UNCHANGED shared

\* DumpCoordinator::write, before the gate.
Check(t) ==
  /\ pc[t] = "check"
  /\ Goto(t, IF LimitReached \/ cancelled THEN "after" ELSE "acquire")
  /\ UNCHANGED shared

\* record_external_dump returns false: the profiler thread ends, its dump uncounted.
Refuse(t, step) ==
  /\ Return(t, "ok", step)
  /\ lost' = lost \cup {t}

GateFree == ~active

\* DumpGate::acquire, one turn of its loop under the gate's mutex.
Acquire(t) ==
  /\ pc[t] = "acquire"
  /\ \/ /\ cancelled
        /\ IF Kind[t] = "profiler" THEN Refuse(t, "done")
           ELSE Goto(t, "after") /\ UNCHANGED lost
        /\ UNCHANGED active
     \/ /\ ~cancelled /\ ~GateFree
        /\ Goto(t, "asleep")
        /\ UNCHANGED <<active, lost>>
     \/ /\ ~cancelled /\ GateFree
        /\ active' = TRUE
        /\ Goto(t, "recheck")
        /\ UNCHANGED lost
  /\ UNCHANGED <<control, collected, current, owner, world, written, external>>

\* wait_timeout(50 ms) elapses.
MutGateTimeout(t) == FALSE
GateTimeout(t) ==
  /\ pc[t] = "asleep"
  /\ Goto(t, "acquire")
  /\ UNCHANGED shared

MutMayDump == ~LimitReached
MayDump == ~LimitReached /\ ~cancelled

\* With the permit: write looks at the limit and the stop flag again,
\* record_external_dump only at the limit.
Recheck(t) ==
  /\ pc[t] = "recheck"
  /\ IF Kind[t] = "profiler"
       THEN IF LimitReached THEN Refuse(t, "release")
            ELSE Goto(t, "count") /\ UNCHANGED lost
       ELSE /\ Goto(t, IF ~MayDump THEN "release"
                       ELSE IF PrimaryDump THEN "dump" ELSE "sidecar")
            /\ UNCHANGED lost
  /\ UNCHANGED <<control, active, collected, current, owner, world, written, external>>

\* What follows a completed dump: the leak report of resource tracking, if any.
AfterDump == IF Sidecar THEN "sidecar" ELSE "count"

\* DumpBackend::write_dump succeeds, fails (also when cancelled) or panics.
Dump(t) ==
  /\ pc[t] = "dump"
  /\ \/ /\ written' = written + 1
        /\ Goto(t, AfterDump)
     \/ /\ \E value \in {"error", "panic"} : Return(t, value, "release")
        /\ UNCHANGED written
  /\ UNCHANGED <<control, active, collected, current, owner, world, external, lost>>

\* DumpSidecar::write: the leak report next to the dump.
WriteSidecar(t) ==
  /\ pc[t] = "sidecar"
  /\ \/ Goto(t, "count") /\ UNCHANGED lost
     \/ /\ Return(t, "error", "release")
        /\ lost' = IF PrimaryDump THEN lost \cup {t} ELSE lost
  /\ UNCHANGED <<control, active, collected, current, owner, world, written, external>>

MutLastDump(n) == n > Limit
LastDump(n) == n >= Limit

\* collected.fetch_add, and whether that was the last dump.
Count(t) ==
  /\ pc[t] = "count"
  /\ collected' = collected + 1
  /\ Goto(t, IF LastDump(collected + 1) THEN "limitCancel" ELSE "release")
  /\ UNCHANGED <<control, active, current, owner, world, history>>

\* Where the thread sets the second stop flag.
QuitStep(t) == IF pc[t] = "limitCancel" THEN "limitQuit" ELSE "stopQuit"

\* MonitorControl::request_quit: first the token, then, under the mutex, the
\* flag.  Called by the coordinator at the limit and by the manual trigger.
RequestCancel(t) ==
  /\ pc[t] \in {"limitCancel", "stopCancel"}
  /\ cancelled' = TRUE
  /\ Goto(t, QuitStep(t))
  /\ UNCHANGED <<started, quit, active, collected, current, owner, world, history>>

RequestQuit(t) ==
  /\ pc[t] \in {"limitQuit", "stopQuit"}
  /\ quit' = TRUE
  /\ Goto(t, IF pc[t] = "limitQuit" THEN "release" ELSE "done")
  /\ UNCHANGED <<started, cancelled, active, collected, current, owner, world, history>>

\* Where the drop of the permit leaves the thread.
MutAfterRelease(t) ==
  IF result[t] # "running" THEN "done"
  ELSE IF Kind[t] = "profiler" THEN "acquire" ELSE "after"
AfterRelease(t) ==
  IF result[t] # "running" THEN "done"
  ELSE IF Kind[t] = "profiler" THEN "event" ELSE "after"

\* DumpPermit::drop: notify_one wakes one sleeper if there is one.
Release(t) ==
  /\ pc[t] = "release"
  /\ active' = FALSE
  /\ LET asleep == {u \in Monitors : pc[u] = "asleep"} IN
       \/ /\ asleep = {}
          /\ pc' = [pc EXCEPT ![t] = AfterRelease(t)]
       \/ \E u \in asleep :
            pc' = [pc EXCEPT ![t] = AfterRelease(t), ![u] = "acquire"]
  /\ UNCHANGED <<control, collected, result, current, owner, world, history>>

\* After write returned Ok: the memory monitor moves to its next threshold;
\* the limit ends the thread; the signal monitor resumes the target, redelivers the
\* signal and seizes the target again, each of which may fail.
After(t) ==
  /\ pc[t] = "after"
  /\ current' = IF Kind[t] = "memory" THEN [current EXCEPT ![t] = @ + 1] ELSE current
  /\ \/ /\ LimitReached \/ (Kind[t] = "signal" /\ cancelled)
        /\ Return(t, "ok", "done")
     \/ /\ ~LimitReached /\ Kind[t] = "signal" /\ ~cancelled
        /\ Goto(t, "event")
     \/ /\ Kind[t] = "signal"
        /\ Return(t, "error", "done")
     \/ /\ ~LimitReached /\ Kind[t] # "signal"
        /\ Goto(t, "snooze")
  /\ UNCHANGED <<control, active, collected, owner, world, history>>

\* control.wait(snooze)
Snooze(t) ==
  /\ pc[t] = "snooze"
  /\ IF quit THEN Return(t, "ok", "done") ELSE Goto(t, LoopStep(t))
  /\ UNCHANGED shared

-----------------------------------------------------------------------------
(* The owner: MonitorSet::start under a StartupGuard.                      *)

\* Resource tracking is started first, its manual trigger after its collector.
Stage(t) ==
  CASE Kind[t] = "collector" -> 0 [] Kind[t] = "manual" -> 1 [] OTHER -> 2

\* The collector's handle reaches the guard only together with the manual
\* trigger's (StartupGuard::extend).
Spawn(t) ==
  /\ main = "spawn"
  /\ pc[t] = "idle"
  /\ \A u \in Monitors : Stage(u) < Stage(t) => pc[u] # "idle"
  /\ Goto(t, "waitStart")
  /\ owned' = IF Kind[t] = "collector" /\ OfKind("manual") # {} THEN owned
              ELSE IF Kind[t] = "manual" THEN owned \cup {t} \cup OfKind("collector")
              ELSE owned \cup {t}
  /\ UNCHANGED <<control, active, collected, current, main, joined, firstError,
                 aliveSeen, outcome, world, history>>

\* A thread cannot be created, or the collector cannot load its probes.
SpawnFails ==
  /\ main = "spawn"
  /\ \E t \in Monitors : pc[t] = "idle"
  /\ main' = "guardCancel"
  /\ UNCHANGED <<session, owned, joined, firstError, aliveSeen, outcome>>

\* StartupGuard::finish
Start ==
  /\ main = "spawn"
  /\ \A t \in Monitors : pc[t] # "idle"
  /\ started' = TRUE
  /\ main' = "running"
  /\ UNCHANGED <<quit, cancelled, active, collected, threads, owned, joined,
                 firstError, aliveSeen, outcome, world, history>>

-----------------------------------------------------------------------------
(* The owner: finish_session and MonitorSet::wait.                         *)

\* The orchestrator ends the session: a thread ended, the target is gone or
\* Ctrl-C was pressed.  is_alive is sampled before the threads are stopped.
FinishSession ==
  /\ main = "running"
  /\ HasFinished \/ ~alive \/ shutdown
  /\ aliveSeen' = IF alive THEN "alive" ELSE "dead"
  /\ main' = "finishCancel"
  /\ UNCHANGED <<session, owned, joined, firstError, outcome>>

\* is_alive fails (reap_finished asks on every poll): the session is dropped, its
\* threads are neither stopped nor joined.
AbandonSession ==
  /\ main = "running"
  /\ alive
  /\ main' = "abandoned"
  /\ outcome' = "error"
  /\ UNCHANGED <<session, owned, joined, firstError, aliveSeen>>

\* MonitorSet::wait called on a running session, as a user of the library may: nobody
\* asks then whether the target is alive.
CallWait ==
  /\ main = "running"
  /\ main' = "wait"
  /\ UNCHANGED <<session, owned, joined, firstError, aliveSeen, outcome>>

\* The owner's own request_quit, in its three places.
OwnerCancel ==
  /\ main \in {"guardCancel", "finishCancel", "joinCancel"}
  /\ cancelled' = TRUE
  /\ main' = CASE main = "guardCancel"  -> "guardQuit"
               [] main = "finishCancel" -> "finishQuit"
               [] main = "joinCancel"   -> "joinQuit"
  /\ UNCHANGED <<started, quit, active, collected, threads, owned, joined,
                 firstError, aliveSeen, outcome, world, history>>

OwnerQuit ==
  /\ main \in {"guardQuit", "finishQuit", "joinQuit"}
  /\ quit' = TRUE
  /\ main' = IF main = "guardQuit" THEN "guardJoin" ELSE "wait"
  /\ UNCHANGED <<started, cancelled, active, collected, threads, owned, joined,
                 firstError, aliveSeen, outcome, world, history>>

\* StartupGuard::drop joins what it holds and forgets the results.
GuardJoin(t) ==
  /\ main = "guardJoin"
  /\ t \in owned \ joined /\ Finished(t)
  /\ joined' = joined \cup {t}
  /\ UNCHANGED <<session, main, owned, firstError, aliveSeen, outcome>>

MutAllJoined == joined # {}
AllJoined == joined = owned

GuardDone ==
  /\ main = "guardJoin" /\ AllJoined
  /\ main' = "startFailed"
  /\ outcome' = "error"
  /\ UNCHANGED <<session, owned, joined, firstError, aliveSeen>>

\* MonitorSet::wait joins a finished thread: any end stops the others, and the
\* first error is kept.
Join(t) ==
  /\ main = "wait"
  /\ t \in owned \ joined /\ Finished(t)
  /\ joined' = joined \cup {t}
  /\ firstError' = IF result[t] # "ok" /\ firstError = "none" THEN result[t] ELSE firstError
  /\ main' = IF result[t] = "ok" /\ cancelled THEN "wait" ELSE "joinCancel"
  /\ UNCHANGED <<session, owned, aliveSeen, outcome>>

\* finish_session's verdict: a vanished target is no error, and no error counts
\* when the target was already dead.
MutVerdict ==
  IF firstError = "none" THEN "ok"
  ELSE IF aliveSeen = "alive" \/ (aliveSeen = "dead" /\ firstError = "gone") THEN "ok" ELSE "error"
Verdict ==
  IF firstError = "none" THEN "ok"
  ELSE IF aliveSeen = "dead" \/ (aliveSeen = "alive" /\ firstError = "gone") THEN "ok" ELSE "error"

WaitDone ==
  /\ main = "wait" /\ AllJoined
  /\ main' = "finished"
  /\ outcome' = Verdict
  /\ UNCHANGED <<session, owned, joined, firstError, aliveSeen>>

-----------------------------------------------------------------------------
(* The outside.                                                            *)

Die ==
  /\ alive
  /\ alive' = FALSE
  /\ UNCHANGED <<control, active, collected, threads, owner, shutdown, history>>

Shutdown ==
  /\ ~shutdown
  /\ shutdown' = TRUE
  /\ UNCHANGED <<control, active, collected, threads, owner, alive, history>>

\* Nothing is left to run.
Terminated ==
  /\ main \in {"finished", "startFailed", "abandoned"}
  /\ \A t \in Monitors : pc[t] \in {"idle", "done"}
  /\ UNCHANGED vars

\* What a thread does on its own once it is scheduled.
ThreadStep(t) ==
  \/ WaitForStart(t) \/ Poll(t) \/ Sample(t) \/ EventQuit(t)
  \/ Check(t) \/ Acquire(t) \/ GateTimeout(t) \/ Recheck(t)
  \/ Dump(t) \/ WriteSidecar(t) \/ Count(t) \/ RequestCancel(t) \/ RequestQuit(t)
  \/ Release(t) \/ After(t) \/ Snooze(t)

\* What it does when something outside happens.
ThreadEvent(t) ==
  EventTriggers(t) \/ EventExternal(t) \/ EventKey(t) \/ EventEnds(t)

OwnerStep ==
  \/ \E t \in Monitors : Spawn(t) \/ GuardJoin(t) \/ Join(t)
  \/ SpawnFails \/ Start \/ FinishSession
  \/ OwnerCancel \/ OwnerQuit \/ GuardDone \/ WaitDone

Next ==
  \/ \E t \in Monitors : ThreadStep(t) \/ ThreadEvent(t)
  \/ OwnerStep \/ AbandonSession \/ CallWait
  \/ Die \/ Shutdown \/ Terminated

Spec == Init /\ [][Next]_vars

\* Threads are scheduled, timed waits elapse and a dump backend returns (it is
\* cancellable); the owner polls.  Nothing is assumed of keys, signals, counters,
\* the profiler, the target or the user.
FairSpec ==
  /\ Spec
  /\ \A t \in Monitors : WF_vars(ThreadStep(t))
  /\ WF_vars(OwnerStep)

-----------------------------------------------------------------------------
(* Properties.                                                             *)

\* Every variable has its type; the memory monitor never indexes past its
\* thresholds (spawn_memory's while condition).
TypeOK ==
  /\ started \in BOOLEAN /\ quit \in BOOLEAN /\ cancelled \in BOOLEAN
  /\ active \in BOOLEAN /\ collected \in Nat
  /\ pc \in [Monitors -> ThreadSteps]
  /\ result \in [Monitors -> Results]
  /\ current \in [Monitors -> 0..Thresholds]
  /\ main \in OwnerSteps
  /\ owned \subseteq Monitors /\ joined \subseteq owned
  /\ firstError \in {"none", "gone", "error", "panic"}
  /\ aliveSeen \in {"unasked", "alive", "dead"} /\ outcome \in {"none", "ok", "error"}
  /\ alive \in BOOLEAN /\ shutdown \in BOOLEAN
  /\ written \in Nat /\ external \in Nat /\ lost \subseteq Monitors

\* Dumps are serialised: the gate is taken exactly while one thread is between
\* DumpGate::acquire and the drop of its permit, also when the dump fails or panics.
GateExclusive ==
  /\ \A t, u \in Holders : t = u
  /\ active <=> Holders # {}

\* A thread with a permit that is going to be counted, or may be.
InFlight == {t \in Monitors : \/ pc[t] \in {"dump", "sidecar", "count"}
                              \/ pc[t] = "recheck" /\ Kind[t] = "profiler"}

\* -n is never exceeded, the dump under way included: a dump is only begun when
\* counting it will stay within the limit, whichever triggers race for it.
BudgetKept == collected <= Limit /\ (InFlight # {} => collected < Limit)

\* The thread that counts the last dump stops the session before anyone else can
\* get the gate: with the gate free and the limit reached, both stop flags are set.
LimitStopsSession == LimitReached /\ ~active => cancelled /\ quit

\* Whoever is about to set the second half of request_quit.
QuitPending ==
  \/ main \in {"guardQuit", "finishQuit", "joinQuit"}
  \/ \E t \in Monitors : pc[t] \in {"limitQuit", "stopQuit"}

\* The two stop flags agree except while a request_quit is between its two writes,
\* and the token is never behind: a thread woken by quit sees the token set.
StopFlagsAgree ==
  /\ quit => cancelled
  /\ cancelled => quit \/ QuitPending

\* Why those hold.  The limit is reached with nobody having stopped the session
\* only while the thread that counted the last dump still has the gate.
LimitHandled ==
  LimitReached => \/ cancelled /\ quit
                  \/ \E t \in Monitors : pc[t] = "limitCancel"
                  \/ cancelled /\ \E t \in Monitors : pc[t] = "limitQuit"

\* Whoever is about to write the second stop flag has written the first.
FlagsOrdered == quit \/ QuitPending <=> cancelled

\* A memory monitor that will move on has a threshold left.
ThresholdLeft ==
  \A t \in Monitors :
    Kind[t] = "memory" /\ pc[t] \in Holding \cup {"sample", "check", "acquire",
                                                  "asleep", "after"}
      => current[t] < Thresholds

\* A thread that is finished, or about to be, has a result.
ResultKnown ==
  \A t \in Monitors :
    pc[t] \in {"stopCancel", "stopQuit", "done"} => result[t] # "running"

\* The inductive invariant of the session: each part is one reason why a stop, the
\* gate and the budget stay consistent through every interleaving.
SessionInv ==
  /\ TypeOK /\ GateExclusive /\ BudgetKept /\ LimitHandled
  /\ FlagsOrdered /\ ThresholdLeft /\ ResultKnown

\* A dump that is complete but not yet counted.
Uncounted ==
  {t \in Monitors :
     IF Kind[t] = "profiler"
       THEN pc[t] \in {"acquire", "asleep", "recheck", "count"}
       ELSE pc[t] \in {"sidecar", "count"}}

\* Every dump file the backend completed and every dump the profiler announced is
\* counted exactly once or about to be; the only dumps never counted are those of
\* a thread whose leak report failed or whose announcement came after the stop,
\* at most one per thread because that thread ends.
EveryDumpAccounted ==
  PrimaryDump =>
    written + external = collected + Cardinality(Uncounted) + Cardinality(lost)

\* A session that ends by itself, with its target alive, no error and no key
\* pressed, has taken the -n dumps it was asked for.
EndsOnlyAtLimit ==
  (/\ main = "finished" /\ outcome = "ok"
   /\ alive /\ ~shutdown /\ OfKind("manual") = {})
     => collected >= Limit

\* An error of any thread reaches the caller; finish_session drops it only if the
\* target really is dead, and MonitorSet::wait called on its own never does.
ErrorsSurface ==
  main = "finished" /\ outcome = "ok" =>
    \/ \A t \in Monitors : result[t] = "ok"
    \/ ~alive /\ aliveSeen # "unasked"

\* When the session is over no thread of it is left, save the collector of a
\* start that failed between the collector and the manual trigger.
NoThreadLeft ==
  /\ main = "finished" => \A t \in Monitors : Finished(t)
  /\ main = "startFailed" =>
       \A t \in Monitors : pc[t] \in {"idle", "done"} \/ t \in OfKind("collector") \ owned

\* The session implements the abstract budget: a dump is begun when its thread has
\* the permit and found no reason against it, and is committed by the fetch_add.
Budget == INSTANCE DumpBudget
            WITH writing <- InFlight # {}, stopped <- cancelled
RefinesDumpBudget == Budget!Spec

\* A stop reaches every thread wherever it is blocked: at the start barrier, in a
\* timed wait, in an event loop, or asleep at the gate, which request_quit never
\* notifies (the 50 ms timeout of DumpGate::acquire does it).
StopTerminates == cancelled ~> \A t \in Monitors : pc[t] \in {"idle", "done"}

\* The owner is ending the session, or has a reason to; and where that takes it.
Ending ==
  \/ main = "running" /\ (HasFinished \/ ~alive \/ shutdown)
  \/ main \in {"guardCancel", "finishCancel"}
  \/ main = "wait" /\ HasFinished
Ended ==
  \/ main \in {"finished", "startFailed", "abandoned"}
  \/ main = "wait" /\ aliveSeen = "unasked" /\ ~HasFinished

\* Every reason to end the session ends it: neither the joins of finish_session nor
\* those of StartupGuard::drop hang, nor those of a direct MonitorSet::wait once a thread
\* has ended (it does not look at the target or at Ctrl-C itself).
SessionEnds == Ending ~> Ended
=============================================================================
