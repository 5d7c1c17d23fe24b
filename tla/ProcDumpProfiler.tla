-------------------------- MODULE ProcDumpProfiler --------------------------
(***************************************************************************)
(* The CorProfiler object that procdump injects into a .NET process        *)
(* (native/profiler/src/ProcDumpProfiler.cpp) and the thread of procdump   *)
(* that waits for it (profiler.rs, run_profiler).                          *)
(*                                                                         *)
(* Four parties meet here: the runtime's threads, which call the profiler  *)
(* when an exception is thrown or a collection starts and ends; the        *)
(* profiler's own health thread, which pings procdump; procdump, which     *)
(* reads one status message per connection; and the runtime, which         *)
(* attaches, detaches and shuts down the profiler.  They share the object, *)
(* the status socket and the descriptor table of the target process.       *)
(***************************************************************************)
EXTENDS Integers, Sequences, FiniteSets

CONSTANTS
  Threads,         \* threads of the target that call into the profiler
  Filters,         \* exceptionMonitorList is 1..Filters
  DumpsToCollect,  \* -n, the dumpsToCollect of every filter
  Thresholds,      \* size of gcMemoryThresholdMonitorList (-gcm)
  Objects,         \* ObjectIDs, which the collector moves and reuses
  NoObject,        \* the NULL exceptionID
  Stamps,          \* what follows the count in a dump's name: exception and second
  FdLimit,         \* descriptors left in the target when the profiler is attached
  CountBound,      \* bound on the dumps of a filter that a run explores
  Nobody           \* no holder, no joiner

Health == "health"

ASSUME ConstantsAssumption ==
  /\ Filters \in Nat \ {0} /\ DumpsToCollect \in Nat \ {0}
  /\ Thresholds \in Nat \ {0} /\ FdLimit \in Nat /\ CountBound \in Nat
  /\ Nobody \notin Threads /\ Health \notin Threads
  /\ NoObject \notin Objects

VARIABLES
  trigger,     \* triggerType: "exception", "threshold" (-gcm) or "generation" (-gcgen)
  target,      \* the target process: "alive", "exited" or "crashed"
  profiler,    \* "none", "loaded", "detaching" or "detached"
  infos,       \* corProfilerInfo3 # nullptr
  gcDepth,     \* collections that started and have not finished: a foreground one
               \* may run inside a background one
  collected,   \* collectedDumps of every filter
  exceptionID, \* exceptionID of every filter
  index,       \* currentThresholdIndex
  gcGenStarted,
  mutex,       \* holder of endDumpCondition
  frame,       \* the callback a thread is in: where it is, and its locals
  health,      \* where the health thread is
  cancelled,   \* pthread_cancel was called on it
  joiner,      \* the thread that called pthread_join first
  joined,      \* ... and it returned
  reserved,    \* dump files created and not yet written
  complete,    \* dump files written
  leaked,      \* sockets of the target that nobody closes
  path,        \* the status socket exists in the file system
  queue,       \* connections to it: who connected, what was sent, which dump
  pd,          \* procdump's thread: "attaching", "loop", "ok", "error", "crashed"
  attach,      \* the attach command: "sent", "answered" or "refused"
  recorded     \* the dumps that record_external_dump counted

object  == <<collected, exceptionID, index, gcGenStarted>>
checker == <<health, cancelled, joiner, joined>>
disk    == <<reserved, complete>>
socket  == <<leaked, path, queue>>
waiter  == <<pd, attach, recorded>>
runtime == <<target, profiler, infos, gcDepth>>
vars    == <<trigger, runtime, object, mutex, frame, checker, disk, socket, waiter>>

Alive == target = "alive"
Triggers == {"exception", "threshold", "generation"}
\* dump_count that run_profiler is given and record_external_dump stops at.
Limit == CASE trigger = "exception"  -> DumpsToCollect
           [] trigger = "threshold"  -> IF Thresholds > 1 THEN Thresholds ELSE DumpsToCollect
           [] trigger = "generation" -> 2
\* GetDumpName: the count, and a stamp that two dumps may share.
DumpName(count) == {count} \X Stamps

\* The locals of a callback: the index of element, thrownObjectId, the dump's name,
\* the collectedDumps it read, and what is left to do after the unload.
Outside == [pc |-> "idle", flt |-> 1, obj |-> NoObject, name |-> <<0, 0>>, seen |-> 0,
            after |-> "return"]

Init ==
  /\ trigger \in Triggers
  /\ target = "alive" /\ profiler = "none" /\ infos = TRUE /\ gcDepth = 0
  /\ collected = [f \in 1..Filters |-> 0]
  /\ exceptionID = [f \in 1..Filters |-> NoObject]
  /\ index = 0 /\ gcGenStarted = FALSE /\ mutex = Nobody
  /\ frame = [t \in Threads |-> Outside]
  /\ health = "none" /\ cancelled = FALSE /\ joiner = Nobody /\ joined = FALSE
  /\ reserved = {} /\ complete = {}
  /\ leaked = 0 /\ path = TRUE /\ queue = <<>>
  /\ pd = "attaching" /\ attach = "sent" /\ recorded = <<>>

-----------------------------------------------------------------------------
(* The status socket, from the target's side: SendDumpCompletedStatus.     *)

Listening == pd \in {"attaching", "loop"}
MutCanConnect == path /\ Listening
\* socket() needs a descriptor, access() the path, connect() a listener.
CanConnect == leaked < FdLimit /\ path /\ Listening
Opened(who) == [from |-> who, kind |-> "open", dump |-> <<0, 0>>]
\* A connection whose sender has not sent yet, and is still there to send.
Mine(who) == {i \in 1..Len(queue) : queue[i] = Opened(who)}

Connect(who) ==
  /\ CanConnect
  /\ queue' = Append(queue, Opened(who)) /\ leaked' = leaked + 1
  /\ UNCHANGED path

\* send_all: the descriptor is closed when it fails and never when it succeeds.
Deliver(who, kind, dump) ==
  \E i \in Mine(who) :
    /\ queue' = [queue EXCEPT ![i].kind = kind, ![i].dump = dump]
    /\ UNCHANGED <<leaked, path>>
CannotDeliver(who) ==
  /\ Mine(who) = {}
  /\ leaked' = leaked - 1
  /\ UNCHANGED <<path, queue>>

-----------------------------------------------------------------------------
(* Callbacks of the runtime.                                               *)

At(t, l) == frame[t].pc = l /\ Alive
Goto(t, l) == frame' = [frame EXCEPT ![t].pc = l]
Return(t) == frame' = [frame EXCEPT ![t] = Outside]
Idle(t) == frame[t].pc = "idle"
\* RequestProfilerDetach ends the callbacks to come, not those under way (external).
Called(t) == At(t, "idle") /\ profiler = "loaded" /\ infos

\* ExceptionThrown: the walk over exceptionMonitorList begins.
Throw(t) ==
  /\ trigger = "exception" /\ Called(t)
  /\ \E o \in Objects : frame' = [frame EXCEPT ![t].pc = "match", ![t].obj = o]
  /\ UNCHANGED <<trigger, runtime, object, mutex, checker, disk, socket, waiter>>

NextFilter(t) ==
  IF frame[t].flt < Filters
    THEN frame' = [frame EXCEPT ![t].pc = "match", ![t].flt = frame[t].flt + 1]
    ELSE Return(t)

\* The filter does not match, or this object was dumped for it already.
Skip(t) ==
  /\ At(t, "match") /\ NextFilter(t)
  /\ UNCHANGED <<trigger, runtime, object, mutex, checker, disk, socket, waiter>>

\* A dump is named and begun.
Begin(t, count) ==
  \E d \in DumpName(count) : frame' = [frame EXCEPT ![t].pc = "reserve", ![t].name = d]

\* It matches: there are enough dumps for it, or another one is begun.
Match(t) ==
  LET f == frame[t].flt
  IN  /\ At(t, "match") /\ collected[f] <= CountBound
      /\ exceptionID[f] # frame[t].obj
      /\ IF collected[f] = DumpsToCollect THEN Return(t) ELSE Begin(t, collected[f])
      /\ UNCHANGED <<trigger, runtime, object, mutex, checker, disk, socket, waiter>>

\* GetUint16 found no memory for the filter.
NoMemory(t) ==
  /\ At(t, "match") /\ Goto(t, "failConnect")
  /\ UNCHANGED <<trigger, runtime, object, mutex, checker, disk, socket, waiter>>

\* GarbageCollectionStarted and GarbageCollectionFinished come one at a time.
Collecting(t) == trigger # "exception" /\ Called(t) /\ \A u \in Threads : Idle(u)

\* With -gcgen the second alternative of the condition is not guarded by
\* gcGenStarted: a collection inside another one is another start.
GarbageCollectionStarted(t) ==
  /\ Collecting(t) /\ gcDepth < 2
  /\ gcDepth' = gcDepth + 1
  /\ \/ UNCHANGED <<gcGenStarted, frame>>
     \/ /\ gcGenStarted' = TRUE
        /\ IF trigger = "generation" THEN Begin(t, 1) ELSE UNCHANGED frame
  /\ UNCHANGED <<trigger, target, profiler, infos, collected, exceptionID, index, mutex,
                 checker, disk, socket, waiter>>

MutFinishedCount == 2
FinishedCount == IF trigger = "threshold" THEN index + 1 ELSE 2
GarbageCollectionFinished(t) ==
  /\ Collecting(t) /\ gcDepth > 0
  /\ gcDepth' = gcDepth - 1 /\ gcGenStarted' = FALSE
  /\ \/ \* not the collection asked for, or the heap is below the threshold
        (~gcGenStarted \/ trigger = "threshold") /\ UNCHANGED frame
     \/ /\ gcGenStarted /\ (trigger = "threshold" => index < Thresholds)
        /\ Begin(t, FinishedCount)
  /\ UNCHANGED <<trigger, target, profiler, infos, collected, exceptionID, index, mutex,
                 checker, disk, socket, waiter>>

-----------------------------------------------------------------------------
(* WriteDumpHelper, under endDumpCondition.                                *)

\* open(O_CREAT | O_EXCL) fails on a name in use.
MayCreate(d) == d \notin reserved \cup complete

\* The mutex is taken, the target's own diagnostics socket is found
\* (IsCoreClrProcess) and the output is reserved.
Reserve(t) ==
  LET d == frame[t].name
  IN  /\ At(t, "reserve") /\ mutex = Nobody
      /\ \/ /\ MayCreate(d) /\ leaked < FdLimit
            /\ reserved' = reserved \cup {d} /\ complete' = complete \ {d}
            /\ mutex' = t /\ Goto(t, "generate")
         \/ \* no diagnostics socket, no descriptor, or the name is in use
            UNCHANGED <<disk, mutex>> /\ Goto(t, "failConnect")
      /\ UNCHANGED <<trigger, runtime, object, checker, socket, waiter>>

\* unlink(dumpName) after a dump that failed.
Unlinked(d) == reserved \ {d}

\* GenerateCoreClrDump: the runtime writes the dump (external), or it fails; a
\* connect that fails leaves its descriptor open.
Generate(t) ==
  LET d == frame[t].name
  IN  /\ At(t, "generate")
      /\ \/ /\ leaked < FdLimit
            /\ reserved' = reserved \ {d} /\ complete' = complete \cup {d}
            /\ Goto(t, "connect") /\ UNCHANGED <<mutex, leaked>>
         \/ /\ reserved' = Unlinked(d) /\ UNCHANGED complete
            /\ mutex' = Nobody /\ Goto(t, "failConnect")
            /\ leaked' \in {leaked, leaked + 1} /\ leaked' <= FdLimit
      /\ UNCHANGED <<trigger, runtime, object, checker, path, queue, waiter>>

MutNotAnnounced == "load"
NotAnnounced == "failConnect"
\* The dump is on disk and procdump is told; if it cannot be told the dump stays.
Announce(t) ==
  /\ At(t, "connect")
  /\ IF CanConnect
       THEN Connect(t) /\ Goto(t, "send") /\ UNCHANGED mutex
       ELSE UNCHANGED socket /\ mutex' = Nobody /\ Goto(t, NotAnnounced)
  /\ UNCHANGED <<trigger, runtime, object, checker, disk, waiter>>

\* What the three callbacks do when WriteDumpHelper returns true.
Written(t) ==
  \/ trigger = "exception" /\ Goto(t, "load") /\ UNCHANGED index
  \/ /\ trigger = "threshold" /\ index' = index + 1
     /\ IF index + 1 >= Thresholds THEN Goto(t, "cleanup") ELSE Return(t)
  \/ /\ trigger = "generation" /\ UNCHANGED index
     /\ IF frame[t].name[1] = 2 THEN Goto(t, "cleanup") ELSE Return(t)

SendSuccess(t) ==
  /\ At(t, "send") /\ mutex' = Nobody
  /\ \/ Deliver(t, "dump", frame[t].name) /\ Written(t)
     \/ CannotDeliver(t) /\ Goto(t, "failConnect") /\ UNCHANGED index
  /\ UNCHANGED <<trigger, runtime, collected, exceptionID, gcGenStarted, checker, disk, waiter>>

-----------------------------------------------------------------------------
(* element.collectedDumps++ and its test, outside the mutex: two threads   *)
(* may both read before either writes, and the test may read again.        *)

Load(t) ==
  /\ At(t, "load")
  /\ exceptionID' = [exceptionID EXCEPT ![frame[t].flt] = frame[t].obj]
  /\ frame' = [frame EXCEPT ![t].pc = "store", ![t].seen = collected[frame[t].flt]]
  /\ UNCHANGED <<trigger, runtime, collected, index, gcGenStarted, mutex, checker, disk, socket,
                 waiter>>

Store(t) ==
  /\ At(t, "store") /\ Goto(t, "test")
  /\ collected' = [collected EXCEPT ![frame[t].flt] = frame[t].seen + 1]
  /\ UNCHANGED <<trigger, runtime, exceptionID, index, gcGenStarted, mutex, checker, disk, socket,
                 waiter>>

\* The last dump of a filter ends the monitoring, but not the walk.
Test(t) ==
  /\ At(t, "test")
  /\ \E n \in {frame[t].seen + 1, collected[frame[t].flt]} :
       IF n = DumpsToCollect
         THEN frame' = [frame EXCEPT ![t].pc = "cleanup", ![t].after = "next"]
         ELSE NextFilter(t)
  /\ UNCHANGED <<trigger, runtime, object, mutex, checker, disk, socket, waiter>>

-----------------------------------------------------------------------------
(* SendCatastrophicFailureStatus, CleanupProfiler, UnloadProfiler.         *)

\* The failure message is sent if it can be; the result is ignored.
FailConnect(t) ==
  /\ At(t, "failConnect")
  /\ LET l == IF CanConnect THEN "failSend" ELSE "cleanup"
     IN  frame' = [frame EXCEPT ![t].pc = l, ![t].after = "return"]
  /\ IF CanConnect THEN Connect(t) ELSE UNCHANGED socket
  /\ UNCHANGED <<trigger, runtime, object, mutex, checker, disk, waiter>>

FailSend(t) ==
  /\ At(t, "failSend") /\ Goto(t, "cleanup")
  /\ Deliver(t, "failure", <<0, 0>>) \/ CannotDeliver(t)
  /\ UNCHANGED <<trigger, runtime, object, mutex, checker, disk, waiter>>

\* pthread_cancel and pthread_join; a second join while the first waits returns
\* EINVAL.  Both calls on a thread already joined are undefined: they return ...
Cleanup(t) ==
  /\ At(t, "cleanup")
  /\ IF joined THEN UNCHANGED <<cancelled, joiner>> /\ Goto(t, "unload")
     ELSE /\ cancelled' = TRUE
          /\ IF joiner = Nobody THEN joiner' = t /\ Goto(t, "join")
                                ELSE UNCHANGED joiner /\ Goto(t, "unload")
  /\ UNCHANGED <<trigger, runtime, object, mutex, health, joined, disk, socket, waiter>>

\* The memory, threads and descriptors of the target are gone; its files are not, nor
\* what it sent.
Dies(how) ==
  /\ target' = how /\ profiler' = "none" /\ infos' = TRUE /\ gcDepth' = 0
  /\ collected' = [f \in 1..Filters |-> 0]
  /\ exceptionID' = [f \in 1..Filters |-> NoObject]
  /\ index' = 0 /\ gcGenStarted' = FALSE /\ mutex' = Nobody
  /\ frame' = [t \in Threads |-> Outside]
  /\ health' = "none" /\ cancelled' = FALSE /\ joiner' = Nobody /\ joined' = FALSE
  /\ leaked' = 0
  /\ UNCHANGED <<trigger, disk, path, queue, waiter>>

\* ... or they hit a thread or memory that is not the profiler's.
CleanupTwice(t) == At(t, "cleanup") /\ joined /\ Dies("crashed")

HealthEnded == health \in {"exited", "killed"}
Join(t) ==
  /\ At(t, "join") /\ HealthEnded
  /\ joined' = TRUE /\ Goto(t, "unload")
  /\ UNCHANGED <<trigger, runtime, object, mutex, health, cancelled, joiner, disk, socket, waiter>>

\* corProfilerInfo3->RequestProfilerDetach, while there is a corProfilerInfo3.
RequestDetach ==
  /\ infos
  /\ profiler' = IF profiler = "loaded" THEN "detaching" ELSE profiler
  /\ UNCHANGED <<target, infos, gcDepth>>

\* UnloadProfiler: then the exception walk goes on with the next filter, and every
\* other caller returns.
Unload(t) ==
  /\ At(t, "unload")
  /\ RequestDetach
  /\ IF frame[t].after = "next" THEN NextFilter(t) ELSE Return(t)
  /\ UNCHANGED <<trigger, object, mutex, checker, disk, socket, waiter>>
\* After Shutdown the pointer is null.
UnloadNull(t) == At(t, "unload") /\ ~infos /\ Dies("crashed")

Callback(t) ==
  \/ Throw(t) \/ Skip(t) \/ Match(t) \/ NoMemory(t)
  \/ GarbageCollectionStarted(t) \/ GarbageCollectionFinished(t)
  \/ Reserve(t) \/ Generate(t) \/ Announce(t) \/ SendSuccess(t)
  \/ Load(t) \/ Store(t) \/ Test(t)
  \/ FailConnect(t) \/ FailSend(t) \/ Cleanup(t) \/ CleanupTwice(t) \/ Join(t)
  \/ Unload(t) \/ UnloadNull(t)

-----------------------------------------------------------------------------
(* HealthThread.                                                           *)

HealthGoto(l) == health' = l /\ UNCHANGED <<cancelled, joiner, joined>>
outside == <<trigger, object, mutex, frame, disk, waiter>>

MutUnreachable == "sleep"
\* SendDumpCompletedStatus returned -1.
Unreachable == "giveUp"
Ping ==
  /\ health = "connect" /\ Alive /\ ~cancelled
  /\ IF CanConnect THEN Connect(Health) /\ HealthGoto("send")
                   ELSE UNCHANGED socket /\ HealthGoto(Unreachable)
  /\ UNCHANGED <<outside, runtime>>

SendPing ==
  /\ health = "send" /\ Alive /\ ~cancelled
  /\ \/ Deliver(Health, "health", <<0, 0>>) /\ HealthGoto("sleep")
     \/ CannotDeliver(Health) /\ HealthGoto(Unreachable)
  /\ UNCHANGED <<outside, runtime>>

Wake ==
  /\ health = "sleep" /\ Alive /\ ~cancelled
  /\ HealthGoto("connect")
  /\ UNCHANGED <<outside, runtime, socket>>

\* connect, send and sleep are cancellation points; a ping under way stays half
\* done and its connection open.
Killed ==
  /\ cancelled /\ Alive /\ health \in {"connect", "send", "sleep"}
  /\ HealthGoto("killed")
  /\ UNCHANGED <<outside, runtime, socket>>

\* "Procdump not reachable": the socket is unlinked and the profiler unloaded.
GiveUp ==
  /\ health = "giveUp" /\ Alive
  /\ path' = FALSE /\ UNCHANGED <<leaked, queue>>
  /\ RequestDetach
  /\ HealthGoto("exited")
  /\ UNCHANGED outside
GiveUpNull == health = "giveUp" /\ Alive /\ ~infos /\ Dies("crashed")

HealthThread == Ping \/ SendPing \/ Wake \/ Killed \/ GiveUp \/ GiveUpNull

-----------------------------------------------------------------------------
(* The runtime (external, save InitializeForAttach and Shutdown).          *)

\* InitializeForAttach reads the client data, sets the event mask and starts the
\* health thread, or fails.  procdump may have stopped waiting for the answer.
InitializeForAttach ==
  /\ attach = "sent" /\ Alive
  /\ \/ profiler' = "loaded" /\ health' = "connect" /\ attach' = "answered"
     \/ UNCHANGED <<profiler, health>> /\ attach' = "refused"
  /\ UNCHANGED <<trigger, target, infos, gcDepth, object, mutex, frame, cancelled, joiner,
                 joined, disk, socket, pd, recorded>>

\* The profiler is evacuated once no thread is in it.
Detach ==
  /\ profiler = "detaching" /\ Alive
  /\ \A t \in Threads : Idle(t)
  /\ HealthEnded
  /\ profiler' = "detached"
  /\ UNCHANGED <<outside, target, infos, gcDepth, checker, socket>>

\* The target ends: Shutdown clears the interfaces and cleans up, then the
\* process is gone; or it just dies.
Shutdown ==
  /\ Alive /\ profiler = "loaded" /\ infos
  /\ infos' = FALSE
  /\ cancelled' = IF joined THEN cancelled ELSE TRUE
  /\ UNCHANGED <<outside, target, profiler, gcDepth, health, joiner, joined, socket>>
Exit ==
  /\ Alive
  /\ ~infos => HealthEnded \/ joiner # Nobody
  /\ Dies("exited")

-----------------------------------------------------------------------------
(* run_profiler.                                                           *)

inside == <<trigger, runtime, object, mutex, frame, checker, disk>>
\* The listener and every connection it has not accepted are closed; a normal
\* return removes the path too (SocketGuard).
Ended(result) ==
  /\ pd' = result /\ queue' = <<>>
  /\ path' = IF result = "crashed" THEN path ELSE FALSE
  /\ UNCHANGED leaked

\* attach_profiler: an answer, or none within five seconds.
Attached ==
  /\ pd = "attaching" /\ attach = "answered" /\ pd' = "loop"
  /\ UNCHANGED <<inside, socket, attach, recorded>>
AttachFails ==
  /\ pd = "attaching" /\ Ended("error")
  /\ UNCHANGED <<inside, attach, recorded>>

MutLimitReached == Len(recorded) > Limit
\* record_external_dump requests the stop with dump_number + 1 >= limit.
LimitReached == Len(recorded) >= Limit
\* The top of the loop.  The stop may also come from another trigger or the user, and
\* accept may fail.
QuitSeen ==
  /\ pd = "loop" /\ LimitReached /\ Ended("ok")
  /\ UNCHANGED <<inside, attach, recorded>>
Stopped ==
  /\ pd = "loop" /\ ~LimitReached
  /\ Ended("ok") \/ Ended("error")
  /\ UNCHANGED <<inside, attach, recorded>>
TargetExited ==
  /\ pd = "loop" /\ ~LimitReached /\ queue = <<>> /\ ~Alive /\ Ended("error")
  /\ UNCHANGED <<inside, attach, recorded>>

\* accept, peer_pid and read_status of the next connection.
Reads(kind) ==
  /\ pd = "loop" /\ ~LimitReached /\ queue # <<>>
  /\ Head(queue).kind = kind
Consumed == queue' = Tail(queue) /\ UNCHANGED <<leaked, path, pd>>

\* record_external_dump; a stop that came meanwhile refuses the dump.
ReadDump ==
  /\ Reads("dump")
  /\ \/ Consumed /\ recorded' = Append(recorded, Head(queue).dump)
     \/ Ended("ok") /\ UNCHANGED recorded
  /\ UNCHANGED <<inside, attach>>
\* mark_profiler_ready, which may fail.
ReadHealth ==
  /\ Reads("health")
  /\ Consumed \/ Ended("error")
  /\ UNCHANGED <<inside, attach, recorded>>
ReadFailure ==
  /\ Reads("failure") /\ Ended("error")
  /\ UNCHANGED <<inside, attach, recorded>>
\* Five seconds without a status: the sender was cancelled, is dead, or is
\* stopped by the writer of a dump.
ReadTimesOut ==
  /\ Reads("open") /\ Ended("error")
  /\ UNCHANGED <<inside, attach, recorded>>

Reader == Attached \/ QuitSeen \/ TargetExited \/ ReadDump \/ ReadHealth
          \/ ReadFailure \/ ReadTimesOut

\* procdump is killed.
ProcdumpDies == /\ Listening /\ Ended("crashed")
                /\ UNCHANGED <<inside, attach, recorded>>

-----------------------------------------------------------------------------
Next ==
  \/ \E t \in Threads : Callback(t)
  \/ HealthThread
  \/ InitializeForAttach \/ Detach \/ Shutdown \/ Exit
  \/ Reader \/ AttachFails \/ Stopped \/ ProcdumpDies

Spec == Init /\ [][Next]_vars

(* Fairness: a thread inside the profiler, the health thread and procdump's *)
(* loop are scheduled, and the runtime completes a detach it accepted.      *)
(* Nothing makes an exception happen or the target or procdump end.         *)
Proceed(t) ==
  \/ Skip(t) \/ Match(t) \/ Reserve(t) \/ Generate(t) \/ Announce(t) \/ SendSuccess(t)
  \/ Load(t) \/ Store(t) \/ Test(t)
  \/ FailConnect(t) \/ FailSend(t) \/ Cleanup(t) \/ Join(t) \/ Unload(t) \/ UnloadNull(t)
FairSpec ==
  /\ Spec
  /\ \A t \in Threads : WF_vars(Proceed(t))
  /\ WF_vars(HealthThread) /\ WF_vars(Reader) /\ WF_vars(Detach)

-----------------------------------------------------------------------------
(* Properties.                                                             *)

Places == {"idle", "match", "reserve", "generate", "connect", "send", "load", "store", "test",
           "failConnect", "failSend", "cleanup", "join", "unload"}
Names == Nat \X (Stamps \cup {0})
Frames == [pc : Places, flt : 1..Filters, obj : Objects \cup {NoObject}, name : Names,
           seen : Nat, after : {"return", "next"}]
Connections == [from : Threads \cup {Health}, kind : {"open", "dump", "health", "failure"},
                dump : Names]

TypeOK ==
  /\ trigger \in Triggers /\ target \in {"alive", "exited", "crashed"}
  /\ profiler \in {"none", "loaded", "detaching", "detached"}
  /\ infos \in BOOLEAN /\ gcDepth \in 0..2
  /\ collected \in [1..Filters -> Nat] /\ exceptionID \in [1..Filters -> Objects \cup {NoObject}]
  /\ index \in Nat /\ gcGenStarted \in BOOLEAN /\ mutex \in Threads \cup {Nobody}
  /\ frame \in [Threads -> Frames]
  /\ health \in {"none", "connect", "send", "sleep", "giveUp", "exited", "killed"}
  /\ cancelled \in BOOLEAN /\ joiner \in Threads \cup {Nobody} /\ joined \in BOOLEAN
  /\ reserved \subseteq Names /\ complete \subseteq Names
  /\ leaked \in Int /\ leaked <= FdLimit /\ path \in BOOLEAN /\ queue \in Seq(Connections)
  /\ pd \in {"attaching", "loop", "ok", "error", "crashed"}
  /\ attach \in {"sent", "answered", "refused"}
  /\ recorded \in Seq(Names)

\* WriteDumpHelper holds endDumpCondition from the reservation to the announcement:
\* at most one thread is there, and the one file that is not complete is its own.
DumpsSerialised ==
  Alive =>
    /\ \A t \in Threads : (mutex = t) <=> frame[t].pc \in {"generate", "connect", "send"}
    /\ reserved = {frame[t].name : t \in {u \in Threads : frame[u].pc = "generate"}}
    /\ reserved \cap complete = {}

\* A dump that procdump counted, or will read of, is a complete file, although its
\* name may be one another thread or filter chose too.
AnnouncedComplete ==
  /\ \A i \in 1..Len(queue) : queue[i].kind = "dump" => queue[i].dump \in complete
  /\ \A i \in 1..Len(recorded) : recorded[i] \in complete

\* ... and is announced once: no dump is counted twice against -n.
AnnouncedOnce ==
  /\ \A i, j \in 1..Len(queue) :
       (/\ queue[i].kind = "dump" /\ queue[j].kind = "dump"
        /\ queue[i].dump = queue[j].dump) => i = j
  /\ \A i, j \in 1..Len(recorded) : recorded[i] = recorded[j] => i = j
  /\ \A i \in 1..Len(queue), j \in 1..Len(recorded) :
       queue[i].kind = "dump" => queue[i].dump # recorded[j]

\* A profiler that stays loaded and whose health thread was cancelled or is gone
\* has a thread that is about to unload it: nobody else would ever do it.
NeverStranded ==
  (/\ Alive /\ infos /\ profiler = "loaded"
   /\ cancelled \/ HealthEnded)
     => \E t \in Threads : frame[t].pc \in {"join", "unload"}

\* While the profiler is loaded and not about to leave, and procdump waits for it,
\* there is no dump that procdump does not know of.
Leaving == {"failConnect", "failSend", "cleanup", "join", "unload"}
Known(d) ==
  \/ \E i \in 1..Len(queue) : queue[i].kind = "dump" /\ queue[i].dump = d
  \/ \E i \in 1..Len(recorded) : recorded[i] = d
DumpsKnown ==
  (Alive /\ profiler = "loaded" /\ Listening) =>
    \/ \E t \in Threads : frame[t].pc \in Leaving
    \/ \A d \in complete :
         Known(d) \/ \E t \in Threads : frame[t].pc \in {"connect", "send"} /\ frame[t].name = d

\* The numbers in the names of the collector's dumps tell their order: a dump of the
\* end of a collection has one of a start before it, a threshold the lower ones.
LowerFirst ==
  trigger # "exception" =>
    \A d \in complete : \A k \in 1..(d[1] - 1) : \E e \in complete : e[1] = k

\* A thread on its way to announce a dump has one to announce, which nobody else did.
AnnouncesOwn ==
  \A t \in Threads :
    /\ frame[t].pc \in {"connect", "send"} => frame[t].name \in complete
    /\ frame[t].pc \in {"generate", "connect", "send"} => ~Known(frame[t].name)

\* Only a cancel kills the health thread, and it does not end by itself before it has
\* asked for the unload.
HealthEndsForAReason ==
  /\ health = "killed" => cancelled
  /\ health = "exited" => profiler # "loaded"

\* Nothing has happened before the runtime attaches the profiler.
BeforeAttach ==
  Alive /\ attach = "sent" =>
    /\ profiler = "none" /\ ~cancelled /\ complete = {}
    /\ \A t \in Threads : Idle(t)

\* The inductive invariant.
ProfilerInv ==
  /\ TypeOK /\ DumpsSerialised /\ AnnouncedComplete /\ AnnouncedOnce /\ AnnouncesOwn
  /\ HealthEndsForAReason /\ BeforeAttach /\ NeverStranded /\ DumpsKnown

\* docs/coreclrintegration.md: "In all cases, the profiler will be unloaded from the
\* target process once ProcDump has completed monitoring", killed or not.
ProfilerLeaves ==
  (~Listening /\ profiler = "loaded") ~> (profiler = "detached" \/ ~Alive \/ ~infos)

\* A profiler that left has told procdump, or procdump would wait for the target to
\* end; unless there was no descriptor left to tell it with.
ProcdumpLearns == (profiler = "detached" /\ leaked < FdLimit) ~> ~Listening
=============================================================================
