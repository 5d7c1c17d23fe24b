---------------------------- MODULE Orchestrator ----------------------------
(***************************************************************************)
(* monitor_processes (orchestrator.rs): finds the target processes, starts *)
(* one monitoring session for each, reaps the sessions that are over,      *)
(* looks for new targets on every poll, and drains the rest at the end.    *)
(*                                                                         *)
(* A session is what MonitorSession describes, seen from here: it is open, *)
(* one of its threads may end by itself, and finish_session joins it.      *)
(* Processes come and go, change their name or group, and pids are reused, *)
(* between any two reads of /proc.                                         *)
(***************************************************************************)
EXTENDS Integers

CONSTANTS
  Pids,         \* the process ids in use
  MaxBirths,    \* bound on the processes that ever exist
  Target        \* the pid of MonitorMode::Pid

Modes == {"pid", "name", "wait", "group"}

ASSUME OrchestratorAssumption ==
  /\ Pids \subseteq Nat
  /\ MaxBirths \in Nat
  /\ Target \in Pids

\* A ProcessIdentity is a pid and a start time.  Incarnation b is the process
\* with start time b and pid[b]; 0 stands for none.
Incarnations == 1..MaxBirths
None == 0
Identities == Incarnations \cup {None}

VARIABLES
  mode,         \* MonitorMode, from the command line
  \* the system
  births,       \* how many processes were started so far
  pid,          \* the pid of each incarnation
  start,        \* the incarnation each pid is now
  match,        \* whether it has the wanted name, or is in the group
  shutdown,     \* the shutdown MonitorControl's token (Ctrl-C)
  \* monitor_processes
  main,         \* where it is
  first,        \* the initial discovery and start, before the loop
  todo,         \* pids still to be looked at
  found,        \* the discovered snapshots, by pid
  active, monitored,
  completed,    \* pids reap_finished will finish
  closing,      \* the identity finish_session works on
  aliveSeen,    \* what its is_alive said
  back,         \* where finish_session returns to
  outcome,      \* what monitor_processes returned
  \* the sessions
  status,       \* by incarnation
  \* history
  steady        \* pids that matched, and could be read, since the last listing

system   == <<mode, births, pid, start, match, shutdown>>
maps     == <<active, monitored>>
closer   == <<closing, aliveSeen, back>>
vars == <<system, main, first, todo, found, maps, completed, closer, outcome,
          status, steady>>

Steps == {"begin", "scan", "sample", "start", "loop", "reap", "reapFinish",
          "discover", "wait", "drain", "closing", "returned"}
\* "stopped": joined while all its threads were still running.
Statuses == {"none", "open", "ended", "joined", "stopped"}

Alive(b) == \E p \in Pids : start[p] = b
Running(p) == start[p] # None
ActivePids == {p \in Pids : active[p] # None}
Joined(b) == status[b] \in {"joined", "stopped"}
Open == {b \in Incarnations : status[b] \in {"open", "ended"}}
Single == mode \in {"pid", "name"}

\* list_processes sorts the pids.
First(S, p) == p \in S /\ \A q \in S : p <= q

Init ==
  /\ mode \in Modes
  /\ births = 0
  /\ pid = [b \in Incarnations |-> Target]
  /\ start = [p \in Pids |-> None]
  /\ match = [p \in Pids |-> FALSE]
  /\ shutdown = FALSE
  /\ main = "begin" /\ first = TRUE
  /\ todo = {} /\ found = [p \in Pids |-> None]
  /\ active = [p \in Pids |-> None]
  /\ monitored = [p \in Pids |-> None]
  /\ completed = {}
  /\ closing = None /\ aliveSeen = FALSE /\ back = "drain"
  /\ outcome = "none"
  /\ status = [b \in Incarnations |-> "none"]
  /\ steady = {}

\* `?`: the error is returned and the maps are dropped, with the sessions in them.
Fail ==
  /\ main' = "returned"
  /\ outcome' = "error"

-----------------------------------------------------------------------------
(* Discovery.                                                              *)

\* The initial sample of MonitorMode::Pid.
SamplePid ==
  /\ main = "begin" /\ mode = "pid"
  /\ \/ /\ Running(Target)
        /\ found' = [found EXCEPT ![Target] = start[Target]]
        /\ main' = "start"
        /\ UNCHANGED outcome
     \/ Fail /\ UNCHANGED found
  /\ UNCHANGED <<system, first, todo, maps, completed, closer, status, steady>>

\* list_processes
List ==
  /\ \/ main = "begin" /\ mode # "pid"
     \/ main = "discover" /\ ~Single
  /\ \/ /\ todo' = {p \in Pids : Running(p)}
        /\ steady' = {p \in Pids : Running(p) /\ match[p]}
        /\ main' = "scan"
        /\ UNCHANGED outcome
     \/ Fail /\ UNCHANGED <<todo, steady>>
  /\ UNCHANGED <<system, first, found, maps, completed, closer, status>>

\* name(pid), or process_group(pid), of the next pid.
ReadName(p) ==
  /\ main = "scan" /\ First(todo, p)
  /\ \/ /\ Running(p) /\ match[p]
        /\ main' = "sample"
        /\ UNCHANGED <<todo, outcome, steady>>
     \/ /\ Running(p) /\ ~match[p]
        /\ todo' = todo \ {p}
        /\ UNCHANGED <<main, outcome, steady>>
     \/ /\ todo' = todo \ {p}       \* gone, or is_transient_discovery_error
        /\ steady' = steady \ {p}
        /\ UNCHANGED <<main, outcome>>
     \/ Fail /\ UNCHANGED <<todo, steady>>
  /\ UNCHANGED <<system, first, found, maps, completed, closer, status>>

\* sample(pid): whichever process has the pid by now, without a second look at
\* its name.
SampleNext(p) ==
  /\ main = "sample" /\ First(todo, p)
  /\ \/ /\ Running(p)
        /\ found' = [found EXCEPT ![p] = start[p]]
        /\ todo' = todo \ {p}
        /\ main' = "scan"
        /\ UNCHANGED <<outcome, steady>>
     \/ /\ todo' = todo \ {p}       \* gone, or is_transient_discovery_error
        /\ steady' = steady \ {p}
        /\ main' = "scan"
        /\ UNCHANGED <<found, outcome>>
     \/ Fail /\ UNCHANGED <<todo, found, steady>>
  /\ UNCHANGED <<system, first, maps, completed, closer, status>>

\* newest_named_process: only the snapshot with the largest start time.
MutNewest == [p \in Pids |->
  IF \A q \in Pids : found[q] # None => found[p] <= found[q] THEN found[p] ELSE None]
Newest == [p \in Pids |->
  IF \A q \in Pids : found[q] <= found[p] THEN found[p] ELSE None]

\* NameNotFound and GroupNotFound, of the initial discovery only.
NotFound ==
  /\ first /\ mode \in {"name", "group"}
  /\ \A p \in Pids : found[p] = None

Discovered ==
  /\ main = "scan" /\ todo = {}
  /\ IF NotFound
       THEN Fail /\ UNCHANGED found
       ELSE /\ found' = IF mode = "name" THEN Newest ELSE found
            /\ main' = "start"
            /\ UNCHANGED outcome
  /\ UNCHANGED <<system, first, todo, maps, completed, closer, status, steady>>

-----------------------------------------------------------------------------
(* start_new_monitors.                                                     *)

\* This very process is being, or was, monitored.
MutKnown(p) == active[p] = found[p]
MutKnownPid(p) == active[p] # None \/ monitored[p] # None
Known(p) == active[p] = found[p] \/ monitored[p] = found[p]

FoundPids == {p \in Pids : found[p] # None}

SkipKnown(p) ==
  /\ main = "start" /\ First(FoundPids, p)
  /\ Known(p)
  /\ found' = [found EXCEPT ![p] = None]
  /\ UNCHANGED <<system, main, first, todo, maps, completed, closer, outcome,
                 status, steady>>

\* finish_session, first half: the session leaves the map, is_alive is asked.
Finish(p, return) ==
  /\ active' = [active EXCEPT ![p] = None]
  /\ closing' = active[p]
  /\ back' = return
  /\ \/ /\ aliveSeen' = (start[p] = active[p])
        /\ main' = "closing"
        /\ UNCHANGED outcome
     \/ Fail /\ UNCHANGED aliveSeen

\* The pid was reused: the session of its previous process is finished first.
MutReused(p) == FALSE
Reused(p) == active[p] # None

FinishPrevious(p) ==
  /\ main = "start" /\ First(FoundPids, p)
  /\ ~Known(p) /\ Reused(p)
  /\ Finish(p, "start")
  /\ UNCHANGED <<system, first, todo, found, monitored, completed, status, steady>>

\* MonitorSet::start
StartMonitor(p) ==
  /\ main = "start" /\ First(FoundPids, p)
  /\ ~Known(p) /\ ~Reused(p)
  /\ \/ /\ status' = [status EXCEPT ![found[p]] = "open"]
        /\ monitored' = [monitored EXCEPT ![p] = found[p]]
        /\ active' = [active EXCEPT ![p] = found[p]]
        /\ found' = [found EXCEPT ![p] = None]
        /\ UNCHANGED <<main, outcome>>
     \/ Fail /\ UNCHANGED <<status, maps, found>>
  /\ UNCHANGED <<system, first, todo, completed, closer, steady>>

\* Where start_new_monitors returns to: into the loop the first time, then, for a
\* group with nothing left to monitor, out of it, else to the wait at its end.
AllStarted ==
  /\ main = "start" /\ FoundPids = {}
  /\ first' = FALSE
  /\ main' = IF first THEN "loop"
             ELSE IF mode = "group" /\ ActivePids = {} THEN "drain" ELSE "wait"
  /\ UNCHANGED <<system, todo, found, maps, completed, closer, outcome, status, steady>>

-----------------------------------------------------------------------------
(* The loop, reap_finished and the drain.                                  *)

\* is_quit_requested, and the outcome of the wait between polls.
MutQuitRequested == shutdown /\ ActivePids = {}
QuitRequested == shutdown

CheckShutdown ==
  /\ main = "loop"
  /\ IF QuitRequested
       THEN main' = "drain" /\ UNCHANGED todo
       ELSE main' = "reap" /\ todo' = ActivePids
  /\ UNCHANGED <<system, first, found, maps, completed, closer, outcome, status, steady>>

\* is_alive compares the whole identity; has_finished asks the threads.
MutCompleted(p) == TRUE
MutCompletedPid(p) == status[active[p]] = "ended" \/ start[p] = None
Completed(p) == status[active[p]] = "ended" \/ start[p] # active[p]

\* One turn of reap_finished's first loop; a HashMap has no order.
ReapCheck(p) ==
  /\ main = "reap" /\ p \in todo
  /\ \/ /\ todo' = todo \ {p}
        /\ completed' = IF Completed(p) THEN completed \cup {p} ELSE completed
        /\ UNCHANGED <<main, outcome>>
     \/ Fail /\ UNCHANGED <<todo, completed>>
  /\ UNCHANGED <<system, first, found, maps, closer, status, steady>>

ReapChecked ==
  /\ main = "reap" /\ todo = {}
  /\ main' = "reapFinish"
  /\ UNCHANGED <<system, first, todo, found, maps, completed, closer, outcome,
                 status, steady>>

ReapFinish(p) ==
  /\ main = "reapFinish" /\ p \in completed
  /\ completed' = completed \ {p}
  /\ Finish(p, "reapFinish")
  /\ UNCHANGED <<system, first, todo, found, monitored, status, steady>>

\* A single target that is gone ends the loop.
Reaped ==
  /\ main = "reapFinish" /\ completed = {}
  /\ main' = IF Single /\ ActivePids = {} THEN "drain" ELSE "discover"
  /\ UNCHANGED <<system, first, todo, found, maps, completed, closer, outcome,
                 status, steady>>

\* A single target is never looked for again.
NoDiscovery ==
  /\ main = "discover" /\ Single
  /\ main' = "start"
  /\ UNCHANGED <<system, first, todo, found, maps, completed, closer, outcome,
                 status, steady>>

\* shutdown.wait(polling)
Wait ==
  /\ main = "wait"
  /\ main' = IF QuitRequested THEN "drain" ELSE "loop"
  /\ UNCHANGED <<system, first, todo, found, maps, completed, closer, outcome,
                 status, steady>>

DrainOne(p) ==
  /\ main = "drain" /\ p \in ActivePids
  /\ Finish(p, "drain")
  /\ UNCHANGED <<system, first, todo, found, monitored, completed, status, steady>>

Drained == ActivePids = {}

ReturnOk ==
  /\ main = "drain" /\ Drained
  /\ main' = "returned"
  /\ outcome' = "ok"
  /\ UNCHANGED <<system, first, todo, found, maps, completed, closer, status, steady>>

\* finish_session, second half: request_quit, MonitorSet::wait, and the verdict,
\* which is an error only if the process was seen alive.
FinishJoin ==
  /\ main = "closing"
  /\ status' = [status EXCEPT ![closing] = IF @ = "open" THEN "stopped" ELSE "joined"]
  /\ closing' = None
  /\ \/ main' = back /\ UNCHANGED outcome
     \/ aliveSeen /\ Fail
  /\ UNCHANGED <<system, first, todo, found, maps, completed, aliveSeen, back, steady>>

-----------------------------------------------------------------------------
(* The system around it.                                                   *)

Born(p) ==
  /\ births < MaxBirths /\ ~Running(p)
  /\ births' = births + 1
  /\ pid' = [pid EXCEPT ![births + 1] = p]
  /\ start' = [start EXCEPT ![p] = births + 1]
  /\ \E m \in BOOLEAN : match' = [match EXCEPT ![p] = m]
  /\ UNCHANGED <<mode, shutdown, main, first, todo, found, maps, completed, closer,
                 outcome, status, steady>>

Dies(p) ==
  /\ Running(p)
  /\ start' = [start EXCEPT ![p] = None]
  /\ match' = [match EXCEPT ![p] = FALSE]
  /\ steady' = steady \ {p}
  /\ UNCHANGED <<mode, births, pid, shutdown, main, first, todo, found, maps, completed,
                 closer, outcome, status>>

\* exec, prctl(PR_SET_NAME) or setpgid.
Renamed(p) ==
  /\ Running(p)
  /\ match' = [match EXCEPT ![p] = ~@]
  /\ steady' = steady \ {p}
  /\ UNCHANGED <<mode, births, pid, start, shutdown, main, first, todo, found, maps,
                 completed, closer, outcome, status>>

\* A thread of the session returns: the limit, the target's end or an error.
ThreadEnds(b) ==
  /\ status[b] = "open"
  /\ status' = [status EXCEPT ![b] = "ended"]
  /\ UNCHANGED <<system, main, first, todo, found, maps, completed, closer,
                 outcome, steady>>

Interrupt ==
  /\ ~shutdown
  /\ shutdown' = TRUE
  /\ UNCHANGED <<mode, births, pid, start, match, main, first, todo, found, maps,
                 completed, closer, outcome, status, steady>>

Returned ==
  /\ main = "returned"
  /\ UNCHANGED vars

OrchestratorStep ==
  \/ SamplePid \/ List \/ Discovered \/ AllStarted
  \/ CheckShutdown \/ ReapChecked \/ Reaped \/ NoDiscovery \/ Wait
  \/ ReturnOk \/ FinishJoin
  \/ \E p \in Pids :
       \/ ReadName(p) \/ SampleNext(p)
       \/ SkipKnown(p) \/ FinishPrevious(p) \/ StartMonitor(p)
       \/ ReapCheck(p) \/ ReapFinish(p) \/ DrainOne(p)

SystemStep ==
  \/ \E p \in Pids : Born(p) \/ Dies(p) \/ Renamed(p)
  \/ \E b \in Incarnations : ThreadEnds(b)
  \/ Interrupt

Next == OrchestratorStep \/ SystemStep \/ Returned

Spec == Init /\ [][Next]_vars

\* The orchestrator's thread is scheduled, its polling wait elapses, and the join
\* of a session ends (SessionEnds of MonitorSession).  Nothing is assumed of
\* processes, sessions or the user.
FairSpec == Spec /\ WF_vars(OrchestratorStep)

-----------------------------------------------------------------------------
(* Properties.                                                             *)

\* Every variable has its type.
TypeOK ==
  /\ mode \in Modes
  /\ births \in 0..MaxBirths
  /\ pid \in [Incarnations -> Pids]
  /\ start \in [Pids -> Identities]
  /\ match \in [Pids -> BOOLEAN] /\ shutdown \in BOOLEAN
  /\ main \in Steps /\ first \in BOOLEAN
  /\ todo \subseteq Pids /\ completed \subseteq Pids /\ steady \subseteq Pids
  /\ found \in [Pids -> Identities]
  /\ active \in [Pids -> Identities] /\ monitored \in [Pids -> Identities]
  /\ closing \in Identities /\ aliveSeen \in BOOLEAN
  /\ back \in {"start", "reapFinish", "drain"}
  /\ outcome \in {"none", "ok", "error"}
  /\ status \in [Incarnations -> Statuses]

\* The sessions monitor_processes can still finish.
Held == ({active[p] : p \in Pids} \cup {closing}) \ {None}

\* Every session that was started and not yet joined is in the map under its own
\* pid, or in the hands of finish_session: none is replaced without being
\* finished, even when a pid is reused, and none is left after an Ok return.
\* (After an error the maps are dropped and the sessions in them are detached.)
SessionsHeld ==
  outcome # "error" =>
    /\ Open = Held
    /\ \A p \in Pids : active[p] # None => pid[active[p]] = p
    /\ outcome = "ok" => Open = {}

\* Why that holds.  The identities in the maps are of their pid, and the start
\* times of a pid only grow: monitored, then found, then the process now there.
IdentitiesGrow ==
  \A p \in Pids :
    /\ active[p] \in {None, monitored[p]}
    /\ monitored[p] # None => pid[monitored[p]] = p /\ monitored[p] <= births
    /\ found[p] # None => /\ pid[found[p]] = p /\ found[p] <= births
                          /\ monitored[p] <= found[p]
    /\ start[p] # None => /\ pid[start[p]] = p /\ start[p] <= births
                          /\ monitored[p] <= start[p] /\ found[p] <= start[p]

\* A process that was monitored is not newer than the last one of its pid.
MonitoredKnown ==
  \A b \in Incarnations :
    status[b] # "none" => b <= births /\ b <= monitored[pid[b]]

\* Where finish_session is under way, and for which session.
InReap == main \in {"reap", "reapFinish"} \/ (main = "closing" /\ back = "reapFinish")
InDrain == main = "drain" \/ (main = "closing" /\ back = "drain")
ClosingOne ==
  /\ outcome = "none" <=> main # "returned"
  /\ main = "closing" => closing # None /\ \A p \in Pids : active[p] # closing
  /\ main # "closing" /\ outcome # "error" => closing = None

\* Whatever is about to be finished is over, its process is gone, or Ctrl-C came.
StopReasons ==
  /\ completed # {} => InReap \/ outcome = "error"
  /\ main = "reap" => todo \subseteq ActivePids
  /\ InReap => \A p \in completed : active[p] # None /\ Completed(p)
  /\ InDrain /\ ActivePids # {} => shutdown
  /\ main = "closing" /\ status[closing] = "open" => shutdown \/ ~Alive(closing)

\* The inductive invariant of monitor_processes.
OrchestratorInv ==
  /\ TypeOK /\ SessionsHeld /\ IdentitiesGrow /\ MonitoredKnown
  /\ ClosingOne /\ StopReasons

\* No process is monitored twice, however often it is discovered again after its
\* session ended, and however its pid is reused in between.
MonitoredOnce ==
  [][\A b \in Incarnations :
       status[b] # "open" /\ status'[b] = "open" => status[b] = "none"]_vars

\* A session whose threads are all running is only stopped because its process no
\* longer exists or because of Ctrl-C.
StopsForAReason ==
  [][\A b \in Incarnations :
       status[b] = "open" /\ Joined(b)' => shutdown \/ ~Alive(b)]_vars

\* After every round a process that matched all through the round, and could be
\* read, is or was monitored, new processes on a reused pid included.
NothingMissed ==
  mode \in {"wait", "group"} /\ main \in {"loop", "wait", "drain"} =>
    \A p \in steady : status[start[p]] # "none"

\* -p name selects the newest process of that name among those that were there
\* when the processes were listed.
NewestChosen ==
  mode = "name" /\ main \in {"loop", "wait"} =>
    \A p \in steady : \E b \in Incarnations : start[p] <= b /\ status[b] # "none"

\* An Ok return without Ctrl-C means that a target was found, that every session which
\* was started is joined, and that each of them ran to its end: it was not stopped with
\* all its threads running, unless its process was gone.  Waiting for a name only ends
\* with Ctrl-C.
OkMeansDone ==
  outcome = "ok" /\ ~shutdown =>
    /\ mode # "wait"
    /\ \E b \in Incarnations : Joined(b)
    /\ \A b \in Incarnations :
         status[b] \in {"none", "joined"} \/ (status[b] = "stopped" /\ ~Alive(b))

\* Ctrl-C ends monitor_processes wherever it is, and no session keeps it.
ShutdownReturns == shutdown ~> outcome # "none"

\* A session that ended by itself, or lost its process, and that nobody joined yet;
\* with a single target its join is also to end the program.
Unreaped(b) ==
  /\ outcome = "none"
  /\ \/ status[b] = "ended" \/ (status[b] = "open" /\ ~Alive(b))
     \/ Joined(b) /\ Single

\* No session stays unreaped: time and again there is none left, although new ones
\* keep ending while others are being joined, and with a single target the program
\* then returns.
EndedReaped == []<>(\A b \in Incarnations : ~Unreaped(b))
=============================================================================
