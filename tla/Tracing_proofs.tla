-------------------------- MODULE Tracing_proofs --------------------------
(***************************************************************************)
(* For any number of threads and any signals: TracingInv is inductive (one *)
(* lemma per action), a target is not left stopped, and no signal is lost  *)
(* until procdump is told to stop.                                         *)
(***************************************************************************)
EXTENDS Tracing, TLAPS

\* Send: a signal is sent.
LEMMA SendInv ==
  ASSUME TracingInv, NEW s \in Signals, Send(s)
  PROVE  TracingInv'
<1> USE TracingAssumption DEF TracingInv, Send, tracer, writer, history
<1>1. TypeOK'
  BY DEF TypeOK
<1>2. KernelInv'
  BY DEF KernelInv, Stopped, Live
<1>3. AttachedSoFar'
  BY DEF AttachedSoFar, UnderControl, Stopped, Live
<1>4. Snapshot'
  BY DEF Snapshot, UnderControl, Stopped, Live
<1>5. HeldKept'
  BY DEF HeldKept, Stopped
<1>6. (Calm => Clean)'
  BY DEF Calm, Clean, Stopped
<1> QED  BY <1>1, <1>2, <1>3, <1>4, <1>5, <1>6

\* Take: a thread takes a signal; only traced ones stop.
LEMMA TakeInv ==
  ASSUME TracingInv, NEW t \in Tids, NEW s \in Signals, Take(t, s)
  PROVE  TracingInv'
<1> USE TracingAssumption DEF TracingInv, Take, tracer, writer, history
<1>1. TypeOK'
  BY DEF TypeOK
<1>2. KernelInv'
  BY DEF KernelInv, TypeOK, Stopped, Live, Alive
<1>3. AttachedSoFar'
  BY DEF AttachedSoFar, TypeOK, UnderControl, Stopped, Live
<1>4. Snapshot'
  BY DEF Snapshot, TypeOK, UnderControl, Stopped, Live
<1>5. HeldKept'
  BY DEF HeldKept, TypeOK, Stopped, Alive, Running
<1>6. (Calm => Clean)'
  BY DEF Calm, Clean, TypeOK, Stopped, Alive, Running
<1> QED  BY <1>1, <1>2, <1>3, <1>4, <1>5, <1>6

\* Trap: a traced thread stops.
LEMMA TrapInv ==
  ASSUME TracingInv, NEW t \in Tids, Trap(t)
  PROVE  TracingInv'
<1> USE TracingAssumption DEF TracingInv, Trap, target, tracer, writer, history
<1>1. TypeOK'
  BY DEF TypeOK
<1>2. KernelInv'
  BY DEF KernelInv, TypeOK, Stopped, Live, Alive
<1>3. AttachedSoFar'
  BY DEF AttachedSoFar, TypeOK, UnderControl, Stopped, Live
<1>4. Snapshot'
  BY DEF Snapshot, UnderControl
<1>5. HeldKept'
  BY DEF HeldKept, TypeOK, Stopped, Alive
<1>6. (Calm => Clean)'
  BY DEF Calm, Clean, TypeOK, Dumping, Attaching, Stopped, Alive
<1> QED  BY <1>1, <1>2, <1>3, <1>4, <1>5, <1>6

\* StrayStop: a SIGSTOP nobody waits for: in a calm state there is none.
LEMMA StrayStopInv ==
  ASSUME TracingInv, NEW t \in Tids, StrayStop(t)
  PROVE  TracingInv'
<1> USE TracingAssumption DEF TracingInv, StrayStop, tracer, writer, history
<1>1. TypeOK'
  BY DEF TypeOK
<1>2. KernelInv'
  BY DEF KernelInv, Stopped, Live, Alive
<1>3. AttachedSoFar'
  BY DEF AttachedSoFar, UnderControl, Stopped, Live
<1>4. Snapshot'
  BY DEF Snapshot, KernelInv, UnderControl
<1>5. HeldKept'
  BY DEF HeldKept, KernelInv, Stopped, Alive
<1>6. (Calm => Clean)'
  BY DEF Calm, Clean, AttachedSoFar, KernelInv, TypeOK, Stopped
<1> QED  BY <1>1, <1>2, <1>3, <1>4, <1>5, <1>6

\* Spawn: a thread starts: never while the snapshot is read, since then no thread runs.
LEMMA SpawnInv ==
  ASSUME TracingInv, NEW t \in Tids, Spawn(t)
  PROVE  TracingInv'
<1> USE TracingAssumption DEF TracingInv, Spawn, kernel, tracer, writer, history
<1>1. TypeOK'
  BY DEF TypeOK
<1>2. KernelInv'
  BY DEF KernelInv, Stopped, Live, Alive, Running
<1>3. AttachedSoFar'
  BY DEF AttachedSoFar, KernelInv, UnderControl, Stopped, Live
<1>4. Snapshot'
  BY DEF Snapshot, UnderControl, Running
<1>5. HeldKept'
  BY DEF HeldKept, Stopped, Alive, Running
<1>6. (Calm => Clean)'
  BY DEF Calm, Clean, Stopped, Alive, Running
<1> QED  BY <1>1, <1>2, <1>3, <1>4, <1>5, <1>6

\* ThreadExits: a thread that runs ends.
LEMMA ThreadExitsInv ==
  ASSUME TracingInv, NEW t \in Tids, ThreadExits(t)
  PROVE  TracingInv'
<1> USE TracingAssumption DEF TracingInv, ThreadExits, tracer, writer, history
<1>1. TypeOK'
  BY DEF TypeOK
<1>2. KernelInv'
  BY DEF KernelInv, Stopped, Live, Alive, Running
<1>3. AttachedSoFar'
  BY DEF AttachedSoFar, TypeOK, UnderControl, Stopped, Live
<1>4. Snapshot'
  BY DEF Snapshot, TypeOK, UnderControl, Stopped, Live
<1>5. HeldKept'
  BY DEF HeldKept, Stopped, Live, Alive
<1>6. (Calm => Clean)'
  <2>1. /\ ~halted /\ traced' \subseteq traced /\ stopPending' \subseteq stopPending
        /\ UNCHANGED <<halted, stop, mode, pc, cur, tids, abandoned, crossed, result>>
    BY DEF Running
  <2>2. Live' \subseteq Live
    BY DEF Live
  <2>3. ~Alive => ~Alive'
    BY <2>2 DEF Alive
  <2>4. Calm' => Clean
    BY <2>1 DEF Calm
  <2> HIDE DEF TracingInv, ThreadExits
  <2> QED  BY <2>1, <2>3, <2>4 DEF Clean, Stopped
<1> QED  BY <1>1, <1>2, <1>3, <1>4, <1>5, <1>6

\* ProcessExits: the process is gone: nothing is traced any more.
LEMMA ProcessExitsInv ==
  ASSUME TracingInv, ProcessExits
  PROVE  TracingInv'
<1> USE TracingAssumption DEF TracingInv, ProcessExits, tracer, writer, history
<1>1. TypeOK'
  BY DEF TypeOK, HeldKept, Dumping, Attaching, MonitorAt
<1>2. KernelInv'
  BY DEF KernelInv, TypeOK, Stopped, Live, Alive
<1>3. AttachedSoFar'
  BY DEF AttachedSoFar, TypeOK, Live
<1>4. Snapshot'
  BY DEF Snapshot, Live
<1>5. HeldKept'
  BY DEF HeldKept, Live, Alive
<1>6. (Calm => Clean)'
  BY DEF Clean, Live, Alive
<1> QED  BY <1>1, <1>2, <1>3, <1>4, <1>5, <1>6

\* Quit: quit is only a flag.
LEMMA QuitInv ==
  ASSUME TracingInv, Quit
  PROVE  TracingInv'
<1> USE TracingAssumption DEF TracingInv, Quit, target, kernel, writer, history
<1>1. TypeOK'
  BY DEF TypeOK
<1>2. KernelInv'
  BY DEF KernelInv, Stopped, Live, Alive
<1>3. AttachedSoFar'
  BY DEF AttachedSoFar, UnderControl, Stopped, Live
<1>4. Snapshot'
  BY DEF Snapshot, UnderControl, Stopped, Live
<1>5. HeldKept'
  BY DEF HeldKept, Stopped, Live, Alive
<1>6. (Calm => Clean)'
  BY DEF Calm, Clean, Stopped, Live, Alive
<1> QED  BY <1>1, <1>2, <1>3, <1>4, <1>5, <1>6

\* Seize: PTRACE_SEIZE of the main thread.
LEMMA SeizeInv ==
  ASSUME TracingInv, Seize
  PROVE  TracingInv'
<1> USE TracingAssumption DEF TracingInv, Seize, Goto, target, writer, history
<1>1. TypeOK'
  BY DEF TypeOK, Places
<1>2. KernelInv'
  BY DEF KernelInv, Stopped, Live, Alive
<1>3. AttachedSoFar'
  BY DEF AttachedSoFar, Attaching
<1>4. Snapshot'
  BY DEF Snapshot
<1>5. HeldKept'
  BY DEF HeldKept, MonitorAt, Dumping, Attaching
<1>6. (Calm => Clean)'
  BY DEF Calm, Clean, Dumping, Attaching
<1> QED  BY <1>1, <1>2, <1>3, <1>4, <1>5, <1>6

\* LoopQuit: the monitor sees the quit.
LEMMA LoopQuitInv ==
  ASSUME TracingInv, LoopQuit
  PROVE  TracingInv'
<1> USE TracingAssumption DEF TracingInv, LoopQuit, Goto, PollQuit, target, kernel, writer,
   history
<1>1. TypeOK'
  BY DEF TypeOK, Places
<1>2. KernelInv'
  BY DEF KernelInv, Stopped, Live, Alive
<1>3. AttachedSoFar'
  BY DEF AttachedSoFar, Attaching
<1>4. Snapshot'
  BY DEF Snapshot
<1>5. HeldKept'
  BY DEF HeldKept, MonitorAt, Dumping, Attaching
<1>6. (Calm => Clean)'
  BY DEF Calm, Clean, Dumping, Attaching
<1> QED  BY <1>1, <1>2, <1>3, <1>4, <1>5, <1>6

\* SignalSeen: the monitor sees a stop; whether it is monitored decides the place.
LEMMA SignalSeenInv ==
  ASSUME TracingInv, SignalSeen
  PROVE  TracingInv'
<1> USE TracingAssumption DEF TracingInv, SignalSeen, Goto, target, kernel, writer, history
<1>1. TypeOK'
  BY DEF TypeOK, Places
<1>2. KernelInv'
  BY DEF KernelInv, Stopped, Live
<1>3. AttachedSoFar'
  BY DEF AttachedSoFar, Attaching
<1>4. Snapshot'
  BY DEF Snapshot
<1>5. HeldKept'
  BY DEF HeldKept, MonitorAt, Dumping, Attaching, Stopped
<1>6. (Calm => Clean)'
  BY DEF Calm, Clean, Dumping, Attaching
<1> QED  BY <1>1, <1>2, <1>3, <1>4, <1>5, <1>6

\* TargetGone: the monitor sees that the target is gone.
LEMMA TargetGoneInv ==
  ASSUME TracingInv, TargetGone
  PROVE  TracingInv'
<1> USE TracingAssumption DEF TracingInv, TargetGone, Goto, target, kernel, writer, history
<1>1. TypeOK'
  BY DEF TypeOK, Places
<1>2. KernelInv'
  BY DEF KernelInv, Stopped, Live, Alive
<1>3. AttachedSoFar'
  BY DEF AttachedSoFar, Attaching
<1>4. Snapshot'
  BY DEF Snapshot
<1>5. HeldKept'
  BY DEF HeldKept, MonitorAt, Dumping, Attaching
<1>6. (Calm => Clean)'
  BY DEF Calm, Clean, HeldKept, KernelInv, TypeOK, Stopped, Live, Alive
<1> QED  BY <1>1, <1>2, <1>3, <1>4, <1>5, <1>6

\* Continue: the signal goes on to the program; a calm tracer has no SIGSTOP to pass on.
LEMMA ContinueInv ==
  ASSUME TracingInv, Continue
  PROVE  TracingInv'
<1> USE TracingAssumption DEF TracingInv, Continue, Goto, Injected, writer, history
<1>1. TypeOK'
  <2>1. halted' \in BOOLEAN
    <3>1. halted \in BOOLEAN
      BY DEF TypeOK
    <3> QED  BY <3>1, Zenon
  <2>2. delivered' \subseteq Signals /\ stop' \in [Tids -> Signals \cup {"SIGSTOP", "group", None}]
    BY DEF TypeOK
  <2>3. held' \in Signals \cup {None}
    BY DEF TypeOK
  <2> QED  BY <2>1, <2>2, <2>3 DEF TypeOK, Places
<1>2. KernelInv'
  BY DEF KernelInv, TypeOK, Stopped, Live, Alive
<1>3. AttachedSoFar'
  BY DEF AttachedSoFar, Attaching
<1>4. Snapshot'
  BY DEF Snapshot
<1>5. HeldKept'
  BY DEF HeldKept, MonitorAt, Dumping, Attaching, Live, Alive
<1>6. (Calm => Clean)'
  BY DEF Calm, Clean, TypeOK, Dumping, Attaching
<1> QED  BY <1>1, <1>2, <1>3, <1>4, <1>5, <1>6

\* Intercept: the signal is held and the process stopped in its place.
LEMMA InterceptInv ==
  ASSUME TracingInv, Intercept
  PROVE  TracingInv'
<1> USE TracingAssumption DEF TracingInv, Intercept, Goto, Injected, writer, history
<1>1. TypeOK'
  <2>1. halted' \in BOOLEAN
    <3>1. halted \in BOOLEAN
      BY DEF TypeOK
    <3> QED  BY <3>1, Zenon
  <2>2. delivered' \subseteq Signals /\ stop' \in [Tids -> Signals \cup {"SIGSTOP", "group", None}]
    BY DEF TypeOK
  <2>3. held' \in Signals \cup {None}
    BY DEF HeldKept, KernelInv, Alive
  <2> QED  BY <2>1, <2>2, <2>3 DEF TypeOK, Places
<1>2. KernelInv'
  BY DEF KernelInv, TypeOK, Stopped, Live, Alive
<1>3. AttachedSoFar'
  BY DEF AttachedSoFar, Attaching
<1>4. Snapshot'
  BY DEF Snapshot
<1>5. HeldKept'
  BY DEF HeldKept, KernelInv, MonitorAt, Dumping, Attaching, Stopped, Live, Alive
<1>6. (Calm => Clean)'
  BY DEF Calm, Clean, HeldKept, Dumping, Attaching, MonitorAt
<1> QED  BY <1>1, <1>2, <1>3, <1>4, <1>5, <1>6

\* DropAttachment: the attachment is dropped.
LEMMA DropAttachmentInv ==
  ASSUME TracingInv, DropAttachment
  PROVE  TracingInv'
<1> USE TracingAssumption DEF TracingInv, DropAttachment, Goto, target, writer, history
<1>1. TypeOK'
  BY DEF TypeOK, Places
<1>2. KernelInv'
  BY DEF KernelInv, TypeOK, Stopped, Live, Alive
<1>3. AttachedSoFar'
  BY DEF AttachedSoFar, Attaching
<1>4. Snapshot'
  BY DEF Snapshot
<1>5. HeldKept'
  BY DEF HeldKept, MonitorAt, Dumping, Attaching
<1>6. (Calm => Clean)'
  BY DEF Calm, Clean, TypeOK, Dumping, Attaching
<1> QED  BY <1>1, <1>2, <1>3, <1>4, <1>5, <1>6

\* Resume: SIGCONT ends the stop and discards what is pending of others.
LEMMA ResumeInv ==
  ASSUME TracingInv, Resume
  PROVE  TracingInv'
<1> USE TracingAssumption DEF TracingInv, Resume, Goto, Resumes, writer, history
<1>1. TypeOK'
  BY DEF TypeOK, Places
<1>2. KernelInv'
  BY DEF KernelInv, Stopped, Live, Alive
<1>3. AttachedSoFar'
  BY DEF AttachedSoFar, Attaching
<1>4. Snapshot'
  BY DEF Snapshot
<1>5. HeldKept'
  BY DEF HeldKept, MonitorAt
<1>6. (Calm => Clean)'
  BY DEF Calm, Clean, Dumping, Attaching
<1> QED  BY <1>1, <1>2, <1>3, <1>4, <1>5, <1>6

\* Redeliver: the held signal is sent again.
LEMMA RedeliverInv ==
  ASSUME TracingInv, Redeliver
  PROVE  TracingInv'
<1> USE TracingAssumption DEF TracingInv, Redeliver, Goto, Redelivered, target, writer, history
<1>1. TypeOK'
  BY DEF TypeOK, Places, HeldKept, MonitorAt
<1>2. KernelInv'
  BY DEF KernelInv, Stopped, Live, Alive
<1>3. AttachedSoFar'
  BY DEF AttachedSoFar, Attaching
<1>4. Snapshot'
  BY DEF Snapshot
<1>5. HeldKept'
  BY DEF HeldKept, MonitorAt, Dumping, Attaching
<1>6. (Calm => Clean)'
  BY DEF Calm, Clean, Dumping, Attaching
<1> QED  BY <1>1, <1>2, <1>3, <1>4, <1>5, <1>6

\* Exit: the kernel detaches what is left.
LEMMA ExitInv ==
  ASSUME TracingInv, Exit
  PROVE  TracingInv'
<1> USE TracingAssumption DEF TracingInv, Exit, Goto, StillStopped, writer, history
<1>1. TypeOK'
  BY DEF TypeOK, Places
<1>2. KernelInv'
  BY DEF KernelInv, Stopped, Live, Alive
<1>3. AttachedSoFar'
  BY DEF AttachedSoFar, Attaching
<1>4. Snapshot'
  BY DEF Snapshot
<1>5. HeldKept'
  BY DEF HeldKept, MonitorAt, Dumping, Attaching
<1>6. (Calm => Clean)'
  BY DEF Calm, Clean, Dumping, Attaching
<1> QED  BY <1>1, <1>2, <1>3, <1>4, <1>5, <1>6

\* WriteElsewhere: another backend, or no dump.
LEMMA WriteElsewhereInv ==
  ASSUME TracingInv, WriteElsewhere
  PROVE  TracingInv'
<1> USE TracingAssumption DEF TracingInv, WriteElsewhere, Goto, AfterWrite, target, kernel,
   history
<1>1. TypeOK'
  BY DEF TypeOK, Places
<1>2. KernelInv'
  BY DEF KernelInv, Stopped, Live, Alive
<1>3. AttachedSoFar'
  BY DEF AttachedSoFar, Attaching
<1>4. Snapshot'
  BY DEF Snapshot
<1>5. HeldKept'
  BY DEF HeldKept, TypeOK, MonitorAt, Dumping
<1>6. (Calm => Clean)'
  BY DEF Calm, Clean, HeldKept, KernelInv, TypeOK, Dumping, Stopped, Live, Alive
<1> QED  BY <1>1, <1>2, <1>3, <1>4, <1>5, <1>6

\* DumpPid: a dump starts with nothing known.
LEMMA DumpPidInv ==
  ASSUME TracingInv, DumpPid
  PROVE  TracingInv'
<1> USE TracingAssumption DEF TracingInv, DumpPid, Goto, target, kernel, history
<1>1. TypeOK'
  BY DEF TypeOK, Places
<1>2. KernelInv'
  BY DEF KernelInv, Stopped, Live, Alive
<1>3. AttachedSoFar'
  BY DEF AttachedSoFar
<1>4. Snapshot'
  BY DEF Snapshot
<1>5. HeldKept'
  BY DEF HeldKept, MonitorAt, Dumping
<1>6. (Calm => Clean)'
  BY DEF Calm, Clean, Dumping, Attaching, Live, Alive
<1> QED  BY <1>1, <1>2, <1>3, <1>4, <1>5, <1>6

\* Enumerate: no additions: every live thread is known, and so under control.
LEMMA EnumerateInv ==
  ASSUME TracingInv, Enumerate
  PROVE  TracingInv'
<1> USE TracingAssumption DEF TracingInv, Enumerate, Goto, GiveUp, AllKnown, target, kernel,
   history
<1>1. TypeOK'
  BY DEF TypeOK, Places, Live
<1>2. KernelInv'
  BY DEF KernelInv, Stopped, Live, Alive
<1>3. AttachedSoFar'
  BY DEF AttachedSoFar, Attaching, UnderControl, Stopped, Live
<1>4. Snapshot'
  BY DEF Snapshot, AttachedSoFar, UnderControl, Attaching, Stopped, Live
<1>5. HeldKept'
  BY DEF HeldKept, MonitorAt, Dumping, Attaching
<1>6. (Calm => Clean)'
  BY DEF Calm, Clean, HeldKept, Dumping, Attaching, Stopped, Live, Alive
<1> QED  BY <1>1, <1>2, <1>3, <1>4, <1>5, <1>6

\* Attach: a thread is attached, found gone, or the dump is given up.
LEMMA AttachInv ==
  ASSUME TracingInv, NEW t \in Tids, Attach(t)
  PROVE  TracingInv'
<1> USE TracingAssumption DEF TracingInv, Attach, Goto, GiveUp, target, history, tracer, writer
<1>1. TypeOK'
  BY DEF TypeOK, Places
<1>2. KernelInv'
  BY DEF KernelInv, Stopped, Live, Alive
<1>3. AttachedSoFar'
  BY DEF AttachedSoFar, Attaching, UnderControl, Stopped, Live
<1>4. Snapshot'
  BY DEF Snapshot
<1>5. HeldKept'
  BY DEF HeldKept, MonitorAt, Dumping, Attaching
<1>6. (Calm => Clean)'
  BY DEF Calm, Clean, HeldKept, KernelInv, Dumping, Attaching, Stopped, Live, Alive
<1> QED  BY <1>1, <1>2, <1>3, <1>4, <1>5, <1>6

\* AllTried: another round begins.
LEMMA AllTriedInv ==
  ASSUME TracingInv, AllTried
  PROVE  TracingInv'
<1> USE TracingAssumption DEF TracingInv, AllTried, Goto, target, kernel, writer, history
<1>1. TypeOK'
  BY DEF TypeOK, Places
<1>2. KernelInv'
  BY DEF KernelInv, Stopped, Live, Alive
<1>3. AttachedSoFar'
  BY DEF AttachedSoFar, Attaching, UnderControl, Stopped, Live
<1>4. Snapshot'
  BY DEF Snapshot
<1>5. HeldKept'
  BY DEF HeldKept, MonitorAt, Dumping, Attaching
<1>6. (Calm => Clean)'
  BY DEF Calm, Clean, Dumping, Attaching, Stopped, Live, Alive
<1> QED  BY <1>1, <1>2, <1>3, <1>4, <1>5, <1>6

\* WaitStopped: the thread stopped; in a calm state for its SIGSTOP.
LEMMA WaitStoppedInv ==
  ASSUME TracingInv, WaitStopped
  PROVE  TracingInv'
<1> USE TracingAssumption DEF TracingInv, WaitStopped, Goto, target, kernel, writer
<1>1. TypeOK'
  BY DEF TypeOK, Places
<1>2. KernelInv'
  BY DEF KernelInv, Stopped, Live, Alive
<1>3. AttachedSoFar'
  BY DEF AttachedSoFar, Attaching, UnderControl, Stopped, Live
<1>4. Snapshot'
  BY DEF Snapshot
<1>5. HeldKept'
  BY DEF HeldKept, MonitorAt, Dumping, Attaching
<1>6. (Calm => Clean)'
  BY DEF Calm, Clean, AttachedSoFar, KernelInv, TypeOK, Dumping, Attaching, Stopped, Alive
<1> QED  BY <1>1, <1>2, <1>3, <1>4, <1>5, <1>6

\* WaitFails: the wait is given up; in a calm state the thread has stopped or is gone.
LEMMA WaitFailsInv ==
  ASSUME TracingInv, WaitFails
  PROVE  TracingInv'
<1> USE TracingAssumption DEF TracingInv, WaitFails, Goto, GiveUp, target, kernel
<1>1. TypeOK'
  BY DEF TypeOK, Places
<1>2. KernelInv'
  BY DEF KernelInv, Stopped, Live, Alive
<1>3. AttachedSoFar'
  BY DEF AttachedSoFar, Attaching
<1>4. Snapshot'
  BY DEF Snapshot
<1>5. HeldKept'
  BY DEF HeldKept, MonitorAt, Dumping, Attaching
<1>6. (Calm => Clean)'
  BY DEF Calm, Clean, HeldKept, KernelInv, Dumping, Attaching, Stopped, Live, Alive
<1> QED  BY <1>1, <1>2, <1>3, <1>4, <1>5, <1>6

\* Written: the file is written or not.
LEMMA WrittenInv ==
  ASSUME TracingInv, Written
  PROVE  TracingInv'
<1> USE TracingAssumption DEF TracingInv, Written, Goto, target, kernel, history
<1>1. TypeOK'
  BY DEF TypeOK, Places
<1>2. KernelInv'
  BY DEF KernelInv, Stopped, Live, Alive
<1>3. AttachedSoFar'
  BY DEF AttachedSoFar, Attaching
<1>4. Snapshot'
  BY DEF Snapshot
<1>5. HeldKept'
  BY DEF HeldKept, MonitorAt, Dumping, Attaching
<1>6. (Calm => Clean)'
  BY DEF Calm, Clean, HeldKept, Dumping, Attaching, Stopped, Live, Alive
<1> QED  BY <1>1, <1>2, <1>3, <1>4, <1>5, <1>6

\* ReadFails: the process could not be read.
LEMMA ReadFailsInv ==
  ASSUME TracingInv, ReadFails
  PROVE  TracingInv'
<1> USE TracingAssumption DEF TracingInv, ReadFails, Goto, GiveUp, target, kernel, history
<1>1. TypeOK'
  BY DEF TypeOK, Places
<1>2. KernelInv'
  BY DEF KernelInv, Stopped, Live, Alive
<1>3. AttachedSoFar'
  BY DEF AttachedSoFar, Attaching
<1>4. Snapshot'
  BY DEF Snapshot
<1>5. HeldKept'
  BY DEF HeldKept, MonitorAt, Dumping, Attaching
<1>6. (Calm => Clean)'
  BY DEF Calm, Clean, HeldKept, Dumping, Attaching, Stopped, Live, Alive
<1> QED  BY <1>1, <1>2, <1>3, <1>4, <1>5, <1>6

\* Detach: a thread is detached; a calm tracer only fails for those that are gone.
LEMMA DetachInv ==
  ASSUME TracingInv, NEW t \in Tids, Detach(t)
  PROVE  TracingInv'
<1> USE TracingAssumption DEF TracingInv, Detach, target, history
<1>1. TypeOK'
  BY DEF TypeOK
<1>2. KernelInv'
  BY DEF KernelInv, TypeOK, Stopped, Live, Alive
<1>3. AttachedSoFar'
  BY DEF AttachedSoFar, Attaching
<1>4. Snapshot'
  BY DEF Snapshot
<1>5. HeldKept'
  BY DEF HeldKept
<1>6. (Calm => Clean)'
  BY DEF Calm, Clean, TypeOK, Stopped, Live, Alive
<1> QED  BY <1>1, <1>2, <1>3, <1>4, <1>5, <1>6

\* DetachAgain: the second try.
LEMMA DetachAgainInv ==
  ASSUME TracingInv, DetachAgain
  PROVE  TracingInv'
<1> USE TracingAssumption DEF TracingInv, DetachAgain, target, kernel, history
<1>1. TypeOK'
  BY DEF TypeOK
<1>2. KernelInv'
  BY DEF KernelInv, Stopped, Live, Alive
<1>3. AttachedSoFar'
  BY DEF AttachedSoFar, UnderControl, Live
<1>4. Snapshot'
  BY DEF Snapshot
<1>5. HeldKept'
  BY DEF HeldKept
<1>6. (Calm => Clean)'
  BY DEF Calm, Clean, Live, Alive
<1> QED  BY <1>1, <1>2, <1>3, <1>4, <1>5, <1>6

\* Detached: the dump returns.
LEMMA DetachedInv ==
  ASSUME TracingInv, Detached
  PROVE  TracingInv'
<1> USE TracingAssumption DEF TracingInv, Detached, Goto, AfterWrite, target, kernel, writer,
   history
<1>1. TypeOK'
  BY DEF TypeOK, Places
<1>2. KernelInv'
  BY DEF KernelInv, Stopped, Live, Alive
<1>3. AttachedSoFar'
  BY DEF AttachedSoFar, Attaching
<1>4. Snapshot'
  BY DEF Snapshot
<1>5. HeldKept'
  BY DEF HeldKept, TypeOK, MonitorAt, Dumping
<1>6. (Calm => Clean)'
  BY DEF Calm, Clean, KernelInv, TypeOK, Dumping, Stopped, Live, Alive
<1> QED  BY <1>1, <1>2, <1>3, <1>4, <1>5, <1>6

\* IdleDump: a trigger fires.
LEMMA IdleDumpInv ==
  ASSUME TracingInv, IdleDump
  PROVE  TracingInv'
<1> USE TracingAssumption DEF TracingInv, IdleDump, Goto, target, kernel, writer, history
<1>1. TypeOK'
  BY DEF TypeOK, Places
<1>2. KernelInv'
  BY DEF KernelInv, Stopped, Live, Alive
<1>3. AttachedSoFar'
  BY DEF AttachedSoFar, Attaching
<1>4. Snapshot'
  BY DEF Snapshot
<1>5. HeldKept'
  BY DEF HeldKept, MonitorAt
<1>6. (Calm => Clean)'
  BY DEF Calm, Clean, HeldKept, KernelInv, Stopped
<1> QED  BY <1>1, <1>2, <1>3, <1>4, <1>5, <1>6

\* IdleEnds: the thread that makes dumps ends.
LEMMA IdleEndsInv ==
  ASSUME TracingInv, IdleEnds
  PROVE  TracingInv'
<1> USE TracingAssumption DEF TracingInv, IdleEnds, Goto, target, kernel, writer, history
<1>1. TypeOK'
  BY DEF TypeOK, Places
<1>2. KernelInv'
  BY DEF KernelInv, Stopped, Live, Alive
<1>3. AttachedSoFar'
  BY DEF AttachedSoFar, Attaching
<1>4. Snapshot'
  BY DEF Snapshot
<1>5. HeldKept'
  BY DEF HeldKept, MonitorAt
<1>6. (Calm => Clean)'
  BY DEF Calm, Clean, HeldKept, KernelInv, Stopped
<1> QED  BY <1>1, <1>2, <1>3, <1>4, <1>5, <1>6

\* TracingInv is inductive: whatever threads start, end and take signals while procdump
\* attaches, a dump reads a target all of whose threads are stopped, and the signal it was
\* made for is still held.
THEOREM TracingSafe == Spec => []TracingInv
<1>1. Init => TracingInv
  BY TracingAssumption DEF Init, TracingInv, TypeOK, Places, KernelInv, AttachedSoFar,
     Snapshot, HeldKept, Clean, MonitorAt, Attaching, Dumping, Stopped
<1>2. TracingInv /\ [Next]_vars => TracingInv'
  <2> SUFFICES ASSUME TracingInv, [Next]_vars PROVE TracingInv'
    OBVIOUS
  <2>1. CASE World
    BY <2>1, SendInv, TakeInv, TrapInv, StrayStopInv, SpawnInv, ThreadExitsInv,
       ProcessExitsInv, QuitInv DEF World
  <2>2. CASE Monitor
    BY <2>2, SeizeInv, LoopQuitInv, SignalSeenInv, TargetGoneInv, ContinueInv, InterceptInv,
       DropAttachmentInv, ResumeInv, RedeliverInv, ExitInv DEF Monitor
  <2>3. CASE Writer
    BY <2>3, WriteElsewhereInv, DumpPidInv, EnumerateInv, AttachInv, AllTriedInv,
       WaitStoppedInv, WaitFailsInv, WrittenInv, ReadFailsInv, DetachInv, DetachAgainInv,
       DetachedInv DEF Writer
  <2>4. CASE IdleDump \/ IdleEnds
    BY <2>4, IdleDumpInv, IdleEndsInv
  <2>5. CASE UNCHANGED vars
    BY <2>5 DEF vars, target, kernel, writer, history, TracingInv, TypeOK, KernelInv,
       AttachedSoFar, Snapshot, HeldKept, Calm, Clean, UnderControl, Stopped, Live, Alive
  <2> QED  BY <2>1, <2>2, <2>3, <2>4, <2>5 DEF Next
<1> QED  BY <1>1, <1>2, PTL DEF Spec

\* A target is left running: when the tracer is idle or has ended, no thread is traced or
\* stopped and no SIGSTOP is pending, unless a dump panicked, gave up on a thread that had
\* not stopped, or took another signal for the SIGSTOP (NotLeftStopped).
THEOREM TargetLeftRunning == Spec => []NotLeftStopped
<1>1. TracingInv => NotLeftStopped
  BY DEF TracingInv, Clean, NotLeftStopped, Dumping, Attaching
<1> QED  BY <1>1, TracingSafe, PTL

\* Where a signal that was sent is.
Somewhere == pending \cup delivered \cup {held} \cup {stop[t] : t \in Tids}

\* The premise of NoSignalLost, if it holds after a step, held before it: nothing comes to
\* life again, a quit is not taken back, and no dump is made after a panic.
LEMMA PremiseBefore ==
  ASSUME TracingInv, Next, Alive', ~quit', Calm'
  PROVE  Alive /\ ~quit /\ Calm
<1> USE DEF Next, Goto, GiveUp, target, kernel, writer, history, tracer
<1>1. CASE World
  BY <1>1 DEF World, Send, Take, Trap, StrayStop, Spawn, ThreadExits, ProcessExits, Quit,
     Alive, Running, Calm
<1>2. CASE Monitor
  BY <1>2 DEF Monitor, Seize, LoopQuit, SignalSeen, TargetGone, Continue, Intercept,
     DropAttachment, Resume, Redeliver, Exit, Alive, Live, Calm
<1>3. CASE Writer
  <2> USE DEF Writer, WriteElsewhere, DumpPid, Enumerate, Attach, AllTried, WaitStopped,
      WaitFails, Written, ReadFails, Detach, DetachAgain, Detached
  <2>1. Alive /\ ~quit
    BY <1>3 DEF Alive, Live
  <2>2. ~abandoned /\ ~crossed
    <3>1. (abandoned \in BOOLEAN /\ crossed \in BOOLEAN) /\ ~abandoned' /\ ~crossed'
      BY DEF TracingInv, TypeOK, Calm
    <3>2. UNCHANGED history \/ WaitStopped \/ WaitFails
      BY <1>3
    <3>3. ASSUME WaitStopped PROVE ~abandoned /\ ~crossed
      BY <3>1, <3>3
    <3>4. ASSUME WaitFails PROVE ~abandoned /\ ~crossed
      BY <3>1, <3>4
    <3> QED  BY <3>1, <3>2, <3>3, <3>4
  <2>3. result # "panic"
    <3>1. CASE pc = "detach"
      BY <1>3, <3>1 DEF Calm
    <3>2. CASE pc # "detach"
      BY <1>3, <3>2 DEF TracingInv, HeldKept
    <3> QED  BY <3>1, <3>2
  <2> QED  BY <2>1, <2>2, <2>3 DEF Calm
<1>4. CASE IdleDump \/ IdleEnds
  BY <1>4 DEF IdleDump, IdleEnds, Alive, Live, Calm
<1> QED  BY <1>1, <1>2, <1>3, <1>4

\* A step keeps every signal somewhere: a stop is only cleared without its signal where it
\* is a SIGSTOP, or after a quit.
LEMMA SignalStaysSomewhere ==
  ASSUME TracingInv, Next, Alive', ~quit', Calm', sent \subseteq Somewhere
  PROVE  sent' \subseteq Somewhere'
<1> USE TracingAssumption DEF Somewhere
<1>1. Alive /\ ~quit /\ Clean /\ TypeOK /\ KernelInv /\ HeldKept
  BY PremiseBefore DEF TracingInv
<1>2. ASSUME UNCHANGED <<sent, pending, delivered, held, stop>> PROVE sent' \subseteq Somewhere'
  BY <1>2
<1>3. CASE World
  <2>1. ASSUME NEW s \in Signals, Send(s) PROVE sent' \subseteq Somewhere'
    BY <2>1 DEF Send, tracer
  <2>2. ASSUME NEW t \in Tids, NEW s \in Signals, Take(t, s) PROVE sent' \subseteq Somewhere'
    BY <1>1, <2>2 DEF Take, tracer, Running, Stopped, TypeOK
  <2>3. ASSUME NEW t \in Tids, Trap(t) PROVE sent' \subseteq Somewhere'
    BY <1>1, <2>3 DEF Trap, tracer, target, Stopped, TypeOK
  <2>4. ASSUME NEW t \in Tids, StrayStop(t) \/ Spawn(t) \/ ThreadExits(t)
        PROVE  sent' \subseteq Somewhere'
    BY <1>2, <2>4 DEF StrayStop, Spawn, ThreadExits, tracer, kernel
  <2>5. CASE ProcessExits
    BY <2>5 DEF ProcessExits, Alive, Live
  <2>6. CASE Quit
    BY <2>6 DEF Quit
  <2> QED  BY <1>3, <2>1, <2>2, <2>3, <2>4, <2>5, <2>6 DEF World
<1>4. CASE Monitor
  <2>1. CASE Seize \/ LoopQuit \/ SignalSeen \/ TargetGone \/ Resume
    BY <1>2, <2>1 DEF Seize, LoopQuit, SignalSeen, TargetGone, Resume, target, kernel
  <2>2. CASE Continue
    BY <1>1, <2>2 DEF Continue, Injected, TypeOK
  <2>3. CASE Intercept
    BY <1>1, <2>3 DEF Intercept, Injected, TypeOK, HeldKept
  <2>4. CASE DropAttachment
    BY <1>1, <2>4 DEF DropAttachment, HeldKept
  <2>5. CASE Redeliver
    BY <1>1, <2>5 DEF Redeliver, Redelivered, target
  <2>6. CASE Exit
    BY <1>1, <2>6 DEF Exit, StillStopped, TypeOK, KernelInv, Stopped
  <2> QED  BY <1>4, <2>1, <2>2, <2>3, <2>4, <2>5, <2>6 DEF Monitor
<1>5. CASE Writer
  <2>1. CASE WriteElsewhere \/ DumpPid \/ Enumerate \/ AllTried \/ WaitStopped \/ WaitFails
             \/ Written \/ ReadFails \/ DetachAgain \/ Detached
    BY <1>2, <2>1 DEF WriteElsewhere, DumpPid, Enumerate, AllTried, WaitStopped, WaitFails,
       Written, ReadFails, DetachAgain, Detached, target, kernel
  <2>2. ASSUME NEW t \in Tids, Attach(t) PROVE sent' \subseteq Somewhere'
    BY <1>2, <2>2 DEF Attach, target
  <2>3. ASSUME NEW t \in Tids, Detach(t) PROVE sent' \subseteq Somewhere'
    <3>1. UNCHANGED <<sent, pending, delivered, held>> /\ stop' \in {stop, [stop EXCEPT ![t] = None]}
          /\ (stop' # stop => t \in traced /\ pc = "detach")
      BY <2>3 DEF Detach, target
    <3>2. stop' # stop => stop[t] \notin Signals
      BY <1>1, <3>1 DEF Clean
    <3> QED  BY <1>1, <3>1, <3>2 DEF TypeOK
  <2> QED  BY <1>5, <2>1, <2>2, <2>3 DEF Writer
<1>6. CASE IdleDump \/ IdleEnds
  BY <1>2, <1>6 DEF IdleDump, IdleEnds, target, kernel
<1> QED  BY <1>3, <1>4, <1>5, <1>6 DEF Next

\* Until procdump is told to stop, and with the same exceptions, no signal sent to the
\* target is lost, although the monitor takes it out of the way for the time of a dump
\* and whether that dump succeeds or not (NoSignalLost).
THEOREM SignalsKept == Spec => []NoSignalLost
<1>1. Init => NoSignalLost
  BY DEF Init, NoSignalLost
<1>2. TracingInv /\ NoSignalLost /\ [Next]_vars => NoSignalLost'
  <2> SUFFICES ASSUME TracingInv, NoSignalLost, [Next]_vars PROVE NoSignalLost'
    OBVIOUS
  <2>1. CASE Next
    <3> SUFFICES ASSUME Alive', ~quit', Calm' PROVE sent' \subseteq Somewhere'
      BY DEF NoSignalLost, Somewhere
    <3>1. sent \subseteq Somewhere
      BY <2>1, PremiseBefore DEF NoSignalLost, Somewhere
    <3> QED  BY <2>1, <3>1, SignalStaysSomewhere
  <2>2. CASE UNCHANGED vars
    BY <2>2 DEF vars, target, kernel, writer, history, NoSignalLost, Calm, Alive, Live
  <2> QED  BY <2>1, <2>2
<1> QED  BY <1>1, <1>2, TracingSafe, PTL DEF Spec
=============================================================================
