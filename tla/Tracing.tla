------------------------------ MODULE Tracing ------------------------------
(***************************************************************************)
(* What procdump does to its target with ptrace: the signal monitor, which *)
(* seizes the main thread and waits for signals (signal.rs), and the core  *)
(* writer, which attaches to every thread, reads them and detaches         *)
(* (corex/mod.rs, corex/ptrace.rs).                                        *)
(*                                                                         *)
(* One thread of procdump is the tracer: the signal monitor, whose dumps   *)
(* run in its own thread, or the thread of another trigger or embedder     *)
(* that only makes dumps.  The target has threads that come and go, takes  *)
(* signals, and may be stopped as a whole (SIGSTOP until SIGCONT).  The    *)
(* kernel's part is external: PTRACE_ATTACH sends the thread a SIGSTOP,    *)
(* and a traced thread stops at every signal it takes, which the tracer    *)
(* passes on or not.                                                       *)
(***************************************************************************)
EXTENDS Naturals

CONSTANTS
  Tids,        \* the threads the target may have
  Main,        \* its first one
  Signals,     \* signals sent to it, each once
  Monitored,   \* those of -sig
  None         \* no signal, no thread

ASSUME TracingAssumption ==
  /\ Main \in Tids /\ Monitored \subseteq Signals
  /\ None \notin Tids \cup Signals
  /\ {"SIGSTOP", "group"} \cap (Signals \cup {None}) = {}

VARIABLES
  \* the target and the kernel
  life,        \* of each thread: "none", "live" or "gone"
  traced,      \* threads whose tracer is ours
  stop,        \* what a thread in a ptrace-stop stopped for: a signal, the SIGSTOP of
               \* the attach, or the stop of the whole process ("group")
  stopPending, \* threads with the SIGSTOP of an attach still to take
  halted,      \* the process is stopped by SIGSTOP
  pending,     \* signals sent and not taken
  delivered,   \* signals the program got
  sent,        \* history: signals sent
  \* the tracer
  mode,        \* "signal": monitor_signals; "dump": only dump_pid
  pc,
  held,        \* the monitored signal, while the dump is made
  known, todo, \* attach_process: HashSet known, and the additions not tried yet
  cur,         \* the thread wait_stopped waits for
  tids,        \* AttachedThreads::tids
  failed,      \* detach_all: the threads it could not detach
  finish,      \* finish(), after which drop tries again
  result,      \* of the dump: "ok", "error" or "panic"
  quit,        \* is_quit_requested, also the dump's cancellation token
  \* history
  abandoned,   \* a dump was given up before a thread it attached to had stopped
  crossed      \* a thread stopped for a signal when the SIGSTOP was expected

target  == <<life, halted, delivered, sent>>
kernel  == <<traced, stop, stopPending, pending>>
writer  == <<known, todo, cur, tids, failed, finish, result>>
history == <<abandoned, crossed>>
vars == <<target, kernel, mode, pc, held, writer, quit, history>>

Live == {t \in Tids : life[t] = "live"}
Alive == Live # {}
Stopped(t) == stop[t] # None
\* Threads that execute.
Running == {t \in Live : ~halted /\ ~Stopped(t)}

Init ==
  /\ life \in [Tids -> {"none", "live"}] /\ life[Main] = "live"
  /\ traced = {} /\ stop = [t \in Tids |-> None] /\ stopPending = {} /\ halted = FALSE
  /\ pending = {} /\ delivered = {} /\ sent = {}
  /\ mode \in {"signal", "dump"} /\ pc = IF mode = "signal" THEN "seize" ELSE "idle"
  /\ held = None /\ known = {} /\ todo = {} /\ cur = None /\ tids = {} /\ failed = {}
  /\ finish = FALSE /\ result = "ok" /\ quit = FALSE
  /\ abandoned = FALSE /\ crossed = FALSE

-----------------------------------------------------------------------------
(* The target and the kernel (external).                                   *)

tracer == <<mode, pc, held, writer, quit, history>>

Send(s) ==
  /\ Alive /\ s \notin sent
  /\ sent' = sent \cup {s} /\ pending' = pending \cup {s}
  /\ UNCHANGED <<life, halted, delivered, traced, stop, stopPending, tracer>>

\* A thread takes a signal; a traced one stops for its tracer to decide.
Take(t, s) ==
  /\ t \in Running /\ s \in pending
  /\ pending' = pending \ {s}
  /\ IF t \in traced THEN stop' = [stop EXCEPT ![t] = s] /\ UNCHANGED delivered
                     ELSE delivered' = delivered \cup {s} /\ UNCHANGED stop
  /\ UNCHANGED <<life, halted, sent, traced, stopPending, tracer>>

\* A traced thread stops: with the process, or for the SIGSTOP of its attach.
Trap(t) ==
  /\ t \in traced \cap Live /\ ~Stopped(t)
  /\ \/ halted /\ stop' = [stop EXCEPT ![t] = "group"] /\ UNCHANGED stopPending
     \/ /\ ~halted /\ t \in stopPending
        /\ stop' = [stop EXCEPT ![t] = "SIGSTOP"] /\ stopPending' = stopPending \ {t}
  /\ UNCHANGED <<target, traced, pending, tracer>>

\* Nobody traces the thread any more: the SIGSTOP stops the process.
StrayStop(t) ==
  /\ t \in Running \cap stopPending /\ t \notin traced
  /\ halted' = TRUE /\ stopPending' = stopPending \ {t}
  /\ UNCHANGED <<life, delivered, sent, traced, stop, pending, tracer>>

Spawn(t) ==
  /\ Running # {} /\ life[t] = "none" /\ life' = [life EXCEPT ![t] = "live"]
  /\ UNCHANGED <<halted, delivered, sent, kernel, tracer>>

ThreadExits(t) ==
  /\ t \in Running \ {Main} /\ life' = [life EXCEPT ![t] = "gone"]
  /\ traced' = traced \ {t} /\ stopPending' = stopPending \ {t}
  /\ UNCHANGED <<halted, delivered, sent, stop, pending, tracer>>

\* The process exits or is killed.
ProcessExits ==
  /\ Alive /\ life' = [t \in Tids |-> "gone"]
  /\ traced' = {} /\ stop' = [t \in Tids |-> None] /\ stopPending' = {} /\ pending' = {}
  /\ halted' = FALSE
  /\ UNCHANGED <<delivered, sent, tracer>>

Quit ==
  /\ ~quit /\ quit' = TRUE
  /\ UNCHANGED <<target, kernel, mode, pc, held, writer, history>>

-----------------------------------------------------------------------------
(* monitor_signals.                                                        *)

Goto(l) == pc' = l /\ UNCHANGED <<mode, quit>>

\* PTRACE_SEIZE, refused while the thread has a tracer.
Seize ==
  /\ pc = "seize"
  /\ \/ /\ Main \in Live \ traced
        /\ traced' = traced \cup {Main} /\ Goto("loop")
     \/ UNCHANGED traced /\ Goto("exit")
  /\ UNCHANGED <<target, stop, stopPending, pending, held, writer, history>>

MutPollQuit == FALSE
PollQuit == quit
\* Quit is seen: the attachment is dropped.
LoopQuit ==
  /\ pc = "loop" /\ PollQuit /\ Goto("drop")
  /\ UNCHANGED <<target, kernel, held, writer, history>>

\* waitpid(WNOHANG) has a stop to report.
SignalSeen ==
  /\ pc = "loop" /\ ~quit /\ Stopped(Main)
  /\ Goto(IF stop[Main] \in Monitored THEN "intercept" ELSE "continue")
  /\ UNCHANGED <<target, kernel, held, writer, history>>

\* ... or the end of the process, or it fails.
TargetGone ==
  /\ pc = "loop" /\ ~quit /\ Main \notin Live /\ Goto("exit")
  /\ UNCHANGED <<target, kernel, held, writer, history>>

\* The signal s of a thread that goes on reaches the program; a SIGSTOP stops it.
Injected(t, s) ==
  /\ stop' = [stop EXCEPT ![t] = None]
  /\ delivered' = IF s \in Signals THEN delivered \cup {s} ELSE delivered
  /\ halted' = (halted \/ s = "SIGSTOP")

\* PTRACE_CONT with the signal; it fails when the target is gone.
Continue ==
  /\ pc = "continue"
  /\ \/ Stopped(Main) /\ Injected(Main, stop[Main]) /\ Goto("loop")
     \/ ~Stopped(Main) /\ UNCHANGED <<stop, delivered, halted>> /\ Goto("drop")
  /\ UNCHANGED <<life, sent, traced, stopPending, pending, held, writer, history>>

\* attachment.detach(SIGSTOP): the process stops, its signal is kept for later.
Intercept ==
  /\ pc = "intercept"
  /\ \/ /\ Stopped(Main) /\ held' = stop[Main] /\ Injected(Main, "SIGSTOP")
        /\ traced' = traced \ {Main} /\ Goto("write")
     \/ ~Stopped(Main) /\ UNCHANGED <<held, stop, delivered, halted, traced>> /\ Goto("drop")
  /\ UNCHANGED <<life, sent, stopPending, pending, writer, history>>

\* Drop for PtraceAttachment: PTRACE_DETACH without a signal, which only works on a
\* stopped thread.
DropAttachment ==
  /\ pc = "drop" /\ Goto("exit")
  /\ IF Stopped(Main) /\ Main \in traced
       THEN stop' = [stop EXCEPT ![Main] = None] /\ traced' = traced \ {Main}
       ELSE UNCHANGED <<stop, traced>>
  /\ UNCHANGED <<target, stopPending, pending, held, writer, history>>

\* The target goes on, whatever became of the dump: SIGCONT, which also discards
\* pending stops, then the signal.
MutResumes == result = "ok"
Resumes == TRUE
Resume ==
  /\ pc = "resume" /\ Goto("redeliver")
  /\ IF Resumes THEN halted' = FALSE /\ stopPending' = {}
                ELSE UNCHANGED <<halted, stopPending>>
  /\ UNCHANGED <<life, delivered, sent, traced, stop, pending, held, writer, history>>

MutRedelivered == IF result = "ok" THEN {held} ELSE {}
Redelivered == {held}
\* Only then the dump's error counts; the limit or a quit end the monitor.
Redeliver ==
  /\ pc = "redeliver"
  /\ pending' = IF Alive THEN pending \cup Redelivered ELSE pending
  /\ held' = None
  /\ Goto("exit") \/ (result = "ok" /\ ~quit /\ Goto("seize"))
  /\ UNCHANGED <<target, traced, stop, stopPending, writer, history>>

\* The thread ends: the kernel detaches what it still traced, and the signals these
\* threads stopped for are delivered.
StillStopped == {stop[t] : t \in traced}
Exit ==
  /\ pc = "exit" /\ Goto("ended")
  /\ traced' = {} /\ stop' = [t \in Tids |-> None]
  /\ delivered' = delivered \cup (StillStopped \cap Signals)
  /\ halted' = (halted \/ "SIGSTOP" \in StillStopped)
  /\ UNCHANGED <<life, sent, stopPending, pending, held, writer, history>>

-----------------------------------------------------------------------------
(* The dump: DumpCoordinator::write down to dump_pid.                      *)

\* Another trigger fires, or its thread ends.
IdleDump ==
  /\ pc = "idle" /\ ~quit /\ Goto("write")
  /\ UNCHANGED <<target, kernel, held, writer, history>>
IdleEnds ==
  /\ pc = "idle" /\ Goto("exit")
  /\ UNCHANGED <<target, kernel, held, writer, history>>

AfterWrite(r) == IF r = "panic" THEN "exit" ELSE IF mode = "signal" THEN "resume" ELSE "idle"

\* The coordinator refuses, or another backend makes the dump or fails to.
WriteElsewhere ==
  /\ pc = "write"
  /\ result' \in {"ok", "error"} /\ Goto(AfterWrite(result'))
  /\ UNCHANGED <<target, kernel, held, known, todo, cur, tids, failed, finish, history>>
DumpPid ==
  /\ pc = "write" /\ Goto("enumerate")
  /\ known' = {} /\ todo' = {} /\ cur' = None /\ tids' = {} /\ failed' = {} /\ finish' = FALSE
  /\ UNCHANGED <<target, kernel, held, result, history>>

\* The dump is given up: AttachedThreads is dropped.
GiveUp(r) == result' = r /\ Goto("detach") /\ UNCHANGED <<known, todo, tids, failed, finish>>

MutAllKnown(additions) == known # {}
AllKnown(additions) == additions = {}
Enumerate ==
  LET additions == Live \ known IN
  /\ pc = "enumerate"
  /\ \/ /\ Alive
        /\ known' = known \cup additions /\ todo' = additions
        /\ Goto(IF AllKnown(additions) THEN "read" ELSE "attach")
        /\ UNCHANGED <<tids, failed, finish, result>>
     \/ GiveUp("error")
  /\ UNCHANGED <<target, kernel, held, cur, history>>

Attach(t) ==
  /\ pc = "attach" /\ t \in todo
  /\ \/ \* ESRCH: the thread is gone
        /\ t \notin Live /\ ~quit
        /\ todo' = todo \ {t}
        /\ UNCHANGED <<mode, pc, quit, traced, stopPending, known, cur, tids, failed, finish, result>>
     \/ /\ t \in Live \ traced /\ ~quit
        /\ traced' = traced \cup {t} /\ stopPending' = stopPending \cup {t}
        /\ todo' = todo \ {t} /\ tids' = tids \cup {t} /\ cur' = t /\ Goto("waitStopped")
        /\ UNCHANGED <<known, failed, finish, result>>
     \/ \* cancelled, or it has another tracer
        /\ GiveUp("error") /\ UNCHANGED <<traced, stopPending, cur>>
  /\ UNCHANGED <<target, stop, pending, held, history>>
AllTried ==
  /\ pc = "attach" /\ todo = {} /\ Goto("enumerate")
  /\ UNCHANGED <<target, kernel, held, writer, history>>

\* wait_stopped takes any stop for the one it waits for.
WaitStopped ==
  /\ pc = "waitStopped" /\ ~quit /\ Stopped(cur)
  /\ Goto("attach")
  /\ crossed' = (crossed \/ stop[cur] \in Signals)
  /\ UNCHANGED <<target, kernel, held, writer, abandoned>>
\* The thread exited instead, ten seconds passed, or the dump is cancelled.
WaitFails ==
  /\ pc = "waitStopped" /\ GiveUp("error")
  /\ abandoned' = (abandoned \/ (cur \in Live /\ stop[cur] # "SIGSTOP"))
  /\ UNCHANGED <<target, kernel, held, cur, crossed>>

\* The file is written, or that fails: both go through finish().
Written ==
  /\ pc = "read"
  /\ result' \in {"error"} \cup (IF Alive THEN {"ok"} ELSE {})
  /\ finish' = TRUE /\ Goto("detach")
  /\ UNCHANGED <<target, kernel, held, known, todo, cur, tids, failed, history>>
\* /proc or the registers cannot be read: AttachedThreads is only dropped.
ReadFails ==
  /\ pc = "read" /\ \E r \in {"error", "panic"} : GiveUp(r)
  /\ UNCHANGED <<target, kernel, held, cur, history>>

\* detach_all: PTRACE_DETACH of a thread that is not stopped fails.
Detach(t) ==
  /\ pc = "detach" /\ t \in tids /\ tids' = tids \ {t}
  /\ IF Stopped(t) /\ t \in traced
       THEN /\ stop' = [stop EXCEPT ![t] = None] /\ traced' = traced \ {t}
            /\ UNCHANGED <<failed, result>>
       ELSE /\ failed' = failed \cup {t} /\ result' = IF result = "ok" THEN "error" ELSE result
            /\ UNCHANGED <<stop, traced>>
  /\ UNCHANGED <<mode, quit, pc, target, stopPending, pending, held, known, todo, cur, finish, history>>
\* After finish(), drop tries the rest once more.
DetachAgain ==
  /\ pc = "detach" /\ tids = {} /\ finish /\ failed # {}
  /\ tids' = failed /\ failed' = {} /\ finish' = FALSE
  /\ UNCHANGED <<mode, quit, pc, target, kernel, held, known, todo, cur, result, history>>
Detached ==
  /\ pc = "detach" /\ tids = {} /\ (finish => failed = {})
  /\ Goto(AfterWrite(result))
  /\ UNCHANGED <<target, kernel, held, writer, history>>

-----------------------------------------------------------------------------
Monitor == Seize \/ LoopQuit \/ SignalSeen \/ TargetGone \/ Continue \/ Intercept
           \/ DropAttachment \/ Resume \/ Redeliver \/ Exit
Writer == WriteElsewhere \/ DumpPid \/ Enumerate \/ (\E t \in Tids : Attach(t)) \/ AllTried
          \/ WaitStopped \/ WaitFails \/ Written \/ ReadFails
          \/ (\E t \in Tids : Detach(t)) \/ DetachAgain \/ Detached
World == (\E s \in Signals : Send(s)) \/ (\E t \in Tids, s \in Signals : Take(t, s))
         \/ (\E t \in Tids : Trap(t) \/ StrayStop(t) \/ Spawn(t) \/ ThreadExits(t))
         \/ ProcessExits \/ Quit
Next == Monitor \/ Writer \/ IdleDump \/ IdleEnds \/ World
Spec == Init /\ [][Next]_vars
\* procdump's thread is scheduled, and the thread of a session that stops ends.
FairSpec == Spec /\ WF_vars(Monitor \/ Writer) /\ WF_vars(IdleEnds /\ quit)

-----------------------------------------------------------------------------
(* Properties.                                                             *)

Places == {"seize", "loop", "intercept", "continue", "drop", "write", "resume", "redeliver",
           "exit", "ended", "idle", "enumerate", "attach", "waitStopped", "read", "detach"}
TypeOK ==
  /\ life \in [Tids -> {"none", "live", "gone"}] /\ halted \in BOOLEAN
  /\ delivered \subseteq Signals /\ sent \subseteq Signals
  /\ traced \subseteq Tids /\ stop \in [Tids -> Signals \cup {"SIGSTOP", "group", None}]
  /\ stopPending \subseteq Tids /\ pending \subseteq Signals
  /\ mode \in {"signal", "dump"} /\ pc \in Places /\ held \in Signals \cup {None}
  /\ known \subseteq Tids /\ todo \subseteq Tids /\ cur \in Tids \cup {None}
  /\ tids \subseteq Tids /\ failed \subseteq Tids /\ finish \in BOOLEAN
  /\ result \in {"ok", "error", "panic"} /\ quit \in BOOLEAN
  /\ abandoned \in BOOLEAN /\ crossed \in BOOLEAN

\* Only threads that we trace are in a ptrace-stop, and only live ones are traced.  The
\* main thread is the last to go.
KernelInv ==
  /\ traced \subseteq Live /\ stopPending \subseteq Live
  /\ \A t \in Tids : Stopped(t) => t \in traced
  /\ life[Main] # "none" /\ (life[Main] = "gone" => ~Alive)
  /\ \A t \in known : life[t] # "none"

MonitorAt == {"seize", "loop", "intercept", "continue", "drop", "resume", "redeliver"}
Attaching == {"enumerate", "attach", "waitStopped", "read"}
Dumping   == Attaching \cup {"write", "detach"}

\* attach_process has every thread it knows of under control, or still to try.
UnderControl(t) == t \in tids /\ t \in traced /\ Stopped(t)
AttachedSoFar ==
  /\ pc \in Attaching =>
       \A t \in Live \cap known :
         t \in todo \/ UnderControl(t) \/ (pc = "waitStopped" /\ t = cur)
  /\ pc \in {"enumerate", "read"} => todo = {}
  /\ pc = "waitStopped" => cur \in tids /\ life[cur] # "none" /\ (cur \in Live => cur \in traced)

\* While the registers and the memory are read, every thread of the target is stopped and
\* will be detached, whatever threads started and ended during the attach.
Snapshot == pc = "read" => \A t \in Live : UnderControl(t)

\* The signal of a dump is kept until it is redelivered, and no other signal takes its place.
HeldKept ==
  /\ pc \in MonitorAt => mode = "signal"
  /\ pc = "idle" => mode = "dump"
  /\ mode = "signal" /\ pc \in Dumping \cup {"resume", "redeliver"} => held \in Signals
  /\ pc \in {"seize", "loop", "intercept", "continue"} => held = None
  /\ pc = "intercept" => stop[Main] \in Monitored \/ ~Alive
  /\ pc = "continue" => Stopped(Main) \/ ~Alive
  /\ pc = "drop" => quit \/ ~Alive
  /\ result = "panic" => pc \in {"detach", "exit", "ended"}

\* No thread is left traced, stopped or about to stop, as long as no dump panicked or gave
\* up on a thread that has not stopped, and no signal was taken for the SIGSTOP.
Calm == ~abandoned /\ ~crossed /\ result # "panic"
Clean ==
  /\ halted => mode = "signal" /\ pc \in Dumping \cup {"resume"}
  /\ mode = "signal" /\ pc \in Dumping => halted \/ ~Alive
  /\ pc \notin Dumping => traced \subseteq {Main} /\ \A t \in Tids : stop[t] # "SIGSTOP"
  /\ pc \in {"idle", "write", "resume", "redeliver", "seize", "ended"} => traced = {}
  /\ mode = "dump" \/ pc \notin Dumping \cup {"resume"} =>
       \A t \in stopPending : pc = "waitStopped" /\ t = cur /\ stop[t] \in Signals \cup {None}
  /\ pc \in Attaching \cup {"detach"} =>
       \A t \in traced : /\ t \in tids
                         /\ (Stopped(t) /\ stop[t] \notin Signals) \/ (pc = "waitStopped" /\ t = cur)

\* The inductive invariant: the kernel's and the tracer's view agree, a dump is a snapshot,
\* the signal it is for is kept, and a calm tracer cleans up after itself.
TracingInv ==
  /\ TypeOK /\ KernelInv /\ AttachedSoFar /\ Snapshot /\ HeldKept
  /\ Calm => Clean

\* When procdump is done with it, the target runs: no thread is traced, the process is
\* not stopped and no SIGSTOP is on its way.  The exceptions are a dump that panics, one
\* that gives up on a thread that has not stopped yet, and a thread that stops for a
\* signal during the attach.
NotLeftStopped ==
  (pc \in {"idle", "ended"} /\ Calm)
    => ~halted /\ stopPending = {} /\ traced = {}

\* Until it is told to stop, procdump loses no signal of its target: one it intercepted is
\* redelivered although the dump failed.  The same exceptions as above apply: a thread
\* that stops for a signal when a SIGSTOP is expected is detached without it.
NoSignalLost ==
  (Alive /\ ~quit /\ Calm)
    => sent \subseteq pending \cup delivered \cup {held} \cup {stop[t] : t \in Tids}

\* tests/integration/scenarios/signal_sigint.sh: "Ctrl+C cancels signal monitoring even
\* when the target receives no signal", and so wherever the monitor or a dump is.
QuitEnds == quit ~> pc = "ended"
=============================================================================
