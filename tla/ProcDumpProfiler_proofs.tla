----------------------- MODULE ProcDumpProfiler_proofs -----------------------
(***************************************************************************)
(* ProfilerInv is an invariant for any number of threads, filters, dumps   *)
(* and descriptors.  The steps are put into a few classes by what they do  *)
(* to the shared state (Quiet, Still, Ended ...); the conjuncts are then   *)
(* shown class by class.  CollectorInv, on top of it, is about the numbers *)
(* in the names of the dumps that -gcm and -gcgen take.                    *)
(***************************************************************************)
EXTENDS ProcDumpProfiler, TLAPS

Busy == {"generate", "connect", "send"}

\* A step of t leaves the frames of the others alone.
Only(t) == frame' \in [Threads -> Frames] /\ \A u \in Threads \ {t} : frame'[u] = frame[u]

\* The queue has the same dumps at the same places.
SameDumps ==
  /\ \A i \in 1..Len(queue') :
       queue'[i].kind = "dump" =>
         i \in 1..Len(queue) /\ queue[i].kind = "dump" /\ queue[i].dump = queue'[i].dump
  /\ \A i \in 1..Len(queue) :
       queue[i].kind = "dump" =>
         i \in 1..Len(queue') /\ queue'[i].kind = "dump" /\ queue'[i].dump = queue[i].dump

-----------------------------------------------------------------------------
(* Frames.                                                                 *)

\* A frame is replaced by another one.
LEMMA FrameMoves ==
  ASSUME TypeOK, NEW t \in Threads, NEW f \in Frames, frame' = [frame EXCEPT ![t] = f]
  PROVE  Only(t) /\ frame'[t] = f
<1>1. frame \in [Threads -> Frames]
  BY DEF TypeOK
<1> QED  BY <1>1 DEF Only

\* A callback goes to another place.
LEMMA GotoMoves ==
  ASSUME TypeOK, NEW t \in Threads, NEW l \in Places, Goto(t, l)
  PROVE  Only(t) /\ frame'[t].pc = l /\ frame'[t].name = frame[t].name
BY DEF TypeOK, Goto, Only, Frames

\* It returns.
LEMMA ReturnMoves ==
  ASSUME TypeOK, NEW t \in Threads, Return(t)
  PROVE  Only(t) /\ frame'[t].pc = "idle"
<1>1. Outside \in Frames
  BY ConstantsAssumption DEF Outside, Frames, Places, Names
<1> QED  BY <1>1 DEF TypeOK, Return, Only, Outside

\* It goes on to the next filter, if there is one.
LEMMA NextFilterMoves ==
  ASSUME TypeOK, NEW t \in Threads, NextFilter(t)
  PROVE  Only(t) /\ frame'[t].pc \in {"match", "idle"}
<1>1. CASE frame[t].flt < Filters
  <2>1. frame' = [frame EXCEPT ![t].pc = "match", ![t].flt = frame[t].flt + 1]
    BY <1>1 DEF NextFilter
  <2>2. frame[t].flt + 1 \in 1..Filters
    BY <1>1, ConstantsAssumption DEF TypeOK, Frames
  <2> DEFINE f == [frame[t] EXCEPT !.pc = "match", !.flt = frame[t].flt + 1]
  <2>3. frame[t] \in Frames
    BY DEF TypeOK
  <2>4. f \in Frames /\ f.pc = "match"
    BY <2>2, <2>3 DEF Frames, Places
  <2>5. frame' = [frame EXCEPT ![t] = f]
    BY <2>1
  <2> HIDE DEF f
  <2> QED  BY <2>4, <2>5, FrameMoves
<1>2. CASE ~(frame[t].flt < Filters)
  BY <1>2, ReturnMoves DEF NextFilter
<1> QED  BY <1>1, <1>2

\* It begins a dump.
LEMMA BeginMoves ==
  ASSUME TypeOK, NEW t \in Threads, NEW n \in Nat, Begin(t, n)
  PROVE  Only(t) /\ frame'[t].pc = "reserve"
<1>1. PICK d \in DumpName(n) : frame' = [frame EXCEPT ![t].pc = "reserve", ![t].name = d]
  BY DEF Begin
<1>2. d \in Names
  BY DEF DumpName, Names
<1> DEFINE f == [frame[t] EXCEPT !.pc = "reserve", !.name = d]
<1>3. frame[t] \in Frames
  BY DEF TypeOK
<1>4. f \in Frames /\ f.pc = "reserve"
  BY <1>2, <1>3 DEF Frames, Places
<1>5. frame' = [frame EXCEPT ![t] = f]
  BY <1>1
<1> HIDE DEF f
<1> QED  BY <1>4, <1>5, FrameMoves

-----------------------------------------------------------------------------
(* The status socket.                                                      *)

QueueType == queue' \in Seq(Connections) /\ leaked' \in Int /\ leaked' <= FdLimit /\ path' \in BOOLEAN

\* A connection to procdump brings no dump yet.
LEMMA ConnectQueue ==
  ASSUME TypeOK, NEW who \in Threads \cup {Health}, Connect(who)
  PROVE  QueueType /\ SameDumps
<1>1. Opened(who) \in Connections /\ Opened(who).kind = "open"
  BY DEF Opened, Connections, Names
<1>2. queue \in Seq(Connections) /\ queue' = Append(queue, Opened(who))
  BY DEF TypeOK, Connect
<1>3. /\ queue' \in Seq(Connections) /\ Len(queue') = Len(queue) + 1 /\ Len(queue) \in Nat
      /\ queue'[Len(queue) + 1] = Opened(who)
      /\ \A i \in 1..Len(queue) : queue'[i] = queue[i]
  BY <1>1, <1>2
<1>4. QueueType
  BY <1>3, ConstantsAssumption DEF QueueType, TypeOK, Connect, CanConnect
<1>5. SameDumps
  BY <1>1, <1>3 DEF SameDumps
<1> QED  BY <1>4, <1>5

\* What send_all changes: one connection, which had no status yet.
LEMMA DeliverQueue ==
  ASSUME TypeOK, NEW who \in Threads \cup {Health}, NEW d \in Names,
         NEW kind \in {"dump", "health", "failure"}, Deliver(who, kind, d)
  PROVE  /\ QueueType /\ Len(queue') = Len(queue)
         /\ \E i \in 1..Len(queue) :
              /\ queue[i].kind = "open" /\ queue'[i].kind = kind /\ queue'[i].dump = d
              /\ \A j \in 1..Len(queue) : j # i => queue'[j] = queue[j]
<1>1. PICK i \in Mine(who) :
        queue' = [queue EXCEPT ![i].kind = kind, ![i].dump = d] /\ UNCHANGED <<leaked, path>>
  BY DEF Deliver
<1>2. i \in 1..Len(queue) /\ queue[i].kind = "open" /\ queue[i] \in Connections
  BY <1>1 DEF Mine, Opened, TypeOK
<1> DEFINE c == [queue[i] EXCEPT !.kind = kind, !.dump = d]
<1>3. c \in Connections /\ c.kind = kind /\ c.dump = d
  BY <1>2 DEF Connections
<1>4. queue' = [queue EXCEPT ![i] = c]
  BY <1>1
<1> HIDE DEF c
<1>5. /\ queue' \in Seq(Connections) /\ Len(queue') = Len(queue) /\ queue'[i] = c
      /\ \A j \in 1..Len(queue) : j # i => queue'[j] = queue[j]
  BY <1>2, <1>3, <1>4 DEF TypeOK
<1> QED  BY <1>1, <1>2, <1>3, <1>5 DEF QueueType, TypeOK

\* A message that is no dump.
LEMMA DeliverQuiet ==
  ASSUME TypeOK, NEW who \in Threads \cup {Health}, NEW d \in Names,
         NEW kind \in {"health", "failure"}, Deliver(who, kind, d)
  PROVE  QueueType /\ SameDumps
<1>1. /\ QueueType /\ Len(queue') = Len(queue)
      /\ \E i \in 1..Len(queue) :
           /\ queue[i].kind = "open" /\ queue'[i].kind = kind /\ queue'[i].dump = d
           /\ \A j \in 1..Len(queue) : j # i => queue'[j] = queue[j]
  BY DeliverQueue
<1> QED  BY <1>1 DEF SameDumps

\* A message that cannot be sent changes no connection.
LEMMA CannotDeliverQueue ==
  ASSUME TypeOK, NEW who, CannotDeliver(who)
  PROVE  QueueType /\ SameDumps
BY ConstantsAssumption DEF CannotDeliver, QueueType, SameDumps, TypeOK

\* Most steps leave the socket alone.
LEMMA UnchangedQueue ==
  ASSUME TypeOK, UNCHANGED socket
  PROVE  QueueType /\ SameDumps
BY DEF socket, QueueType, SameDumps, TypeOK

\* procdump ends: nothing is left in the queue.
LEMMA EndedQueue ==
  ASSUME TypeOK, NEW result \in {"ok", "error", "crashed"}, Ended(result)
  PROVE  QueueType /\ queue' = <<>> /\ pd' = result
<1>1. path' \in BOOLEAN
  <2>1. path \in BOOLEAN /\ path' = IF result = "crashed" THEN path ELSE FALSE
    BY DEF Ended, TypeOK
  <2> QED  BY <2>1, Zenon
<1>2. queue' = <<>> /\ pd' = result /\ leaked' = leaked
  BY DEF Ended
<1>3. <<>> \in Seq(Connections)
  OBVIOUS
<1> QED  BY <1>1, <1>2, <1>3 DEF QueueType, TypeOK

\* procdump reads one status: the rest moves up.
LEMMA ConsumedQueue ==
  ASSUME TypeOK, queue # <<>>, Consumed
  PROVE  /\ QueueType /\ pd' = pd /\ Len(queue') = Len(queue) - 1 /\ Len(queue) \in Nat \ {0}
         /\ \A i \in 1..Len(queue') : queue'[i] = queue[i + 1]
         /\ Head(queue) = queue[1] /\ queue[1] \in Connections
BY DEF Consumed, QueueType, TypeOK
-----------------------------------------------------------------------------
(* The classes of steps.                                                   *)

\* Types of the variables that a class does not speak of.
RestType ==
  /\ profiler' \in {"none", "loaded", "detaching", "detached"}
  /\ infos' \in BOOLEAN /\ gcDepth' \in 0..2
  /\ collected' \in [1..Filters -> Nat] /\ exceptionID' \in [1..Filters -> Objects \cup {NoObject}]
  /\ index' \in Nat /\ gcGenStarted' \in BOOLEAN
  /\ health' \in {"none", "connect", "send", "sleep", "giveUp", "exited", "killed"}
  /\ cancelled' \in BOOLEAN /\ joiner' \in Threads \cup {Nobody} /\ joined' \in BOOLEAN
  /\ QueueType

\* What a callback may do to the life of the profiler.
Keeps(t) ==
  /\ UNCHANGED <<infos, health>>
  /\ profiler' = "loaded" => profiler = "loaded"
  /\ cancelled => cancelled'
  /\ cancelled' # cancelled => frame'[t].pc \in {"join", "unload"}
  /\ frame[t].pc \in {"join", "unload"} => frame'[t].pc \in {"join", "unload"} \/ profiler' # "loaded"
  /\ frame[t].pc \in Leaving => frame'[t].pc \in Leaving \/ profiler' # "loaded"

\* A step of a callback that has nothing to do with the writing of a dump.
Quiet(t) ==
  /\ Alive /\ Only(t) /\ frame[t].pc \notin Busy /\ frame'[t].pc \notin Busy
  /\ frame[t].pc = "idle" => profiler = "loaded"
  /\ UNCHANGED <<trigger, target, mutex, disk, waiter>>
  /\ SameDumps /\ RestType /\ Keeps(t)

\* The steps of ExceptionThrown outside WriteDumpHelper are quiet.
LEMMA WalkQuiet ==
  ASSUME TypeOK, NEW t \in Threads,
         Throw(t) \/ Skip(t) \/ Match(t) \/ NoMemory(t)
  PROVE  Quiet(t)
<1>1. QueueType /\ SameDumps
  BY UnchangedQueue DEF Throw, Skip, Match, NoMemory
<1>2. /\ Alive /\ frame[t].pc \in {"idle", "match"} /\ (frame[t].pc = "idle" => profiler = "loaded")
      /\ UNCHANGED <<trigger, runtime, object, mutex, checker, disk, waiter>>
  BY DEF Throw, Skip, Match, NoMemory, At, Called
<1>3. RestType
  BY <1>1, <1>2 DEF RestType, TypeOK, runtime, object, checker
<1>4. Only(t) /\ frame'[t].pc \in {"idle", "match", "reserve", "failConnect"}
  <2>1. CASE Throw(t)
    <3>1. PICK o \in Objects : frame' = [frame EXCEPT ![t].pc = "match", ![t].obj = o]
      BY <2>1 DEF Throw
    <3>2. frame \in [Threads -> Frames]
      BY DEF TypeOK
    <3> QED  BY <3>1, <3>2 DEF Only, Frames, Places
  <2>2. CASE Skip(t)
    BY <2>2, NextFilterMoves DEF Skip
  <2>3. CASE Match(t)
    <3>1. collected[frame[t].flt] \in Nat
      BY DEF TypeOK, Frames
    <3> QED  BY <2>3, <3>1, ReturnMoves, BeginMoves DEF Match
  <2>4. CASE NoMemory(t)
    BY <2>4, GotoMoves DEF NoMemory, Places
  <2> QED  BY <2>1, <2>2, <2>3, <2>4
<1> QED  BY <1>1, <1>2, <1>3, <1>4 DEF Quiet, Keeps, Busy, Leaving, runtime, checker

\* So are the starts and ends of collections.
LEMMA CollectionQuiet ==
  ASSUME TypeOK, NEW t \in Threads,
         GarbageCollectionStarted(t) \/ GarbageCollectionFinished(t)
  PROVE  Quiet(t)
<1>1. QueueType /\ SameDumps
  BY UnchangedQueue DEF GarbageCollectionStarted, GarbageCollectionFinished
<1>2. /\ Alive /\ frame[t].pc = "idle" /\ profiler = "loaded"
      /\ UNCHANGED <<trigger, target, profiler, infos, collected, exceptionID, index, mutex,
                     checker, disk, waiter>>
  BY DEF GarbageCollectionStarted, GarbageCollectionFinished, Collecting, Called, At
<1>3. gcDepth' \in 0..2 /\ gcGenStarted' \in BOOLEAN
  <2>1. gcDepth' \in 0..2
    <3>1. gcDepth \in 0..2
      BY DEF TypeOK
    <3>2. (gcDepth < 2 /\ gcDepth' = gcDepth + 1) \/ (gcDepth > 0 /\ gcDepth' = gcDepth - 1)
      BY DEF GarbageCollectionStarted, GarbageCollectionFinished
    <3> QED  BY <3>1, <3>2
  <2>2. gcGenStarted' = gcGenStarted \/ gcGenStarted' = TRUE \/ gcGenStarted' = FALSE
    BY DEF GarbageCollectionStarted, GarbageCollectionFinished
  <2>3. gcGenStarted \in BOOLEAN
    BY DEF TypeOK
  <2> QED  BY <2>1, <2>2, <2>3
<1>4. Only(t) /\ frame'[t].pc \in {"idle", "reserve"}
  <2>1. FinishedCount \in Nat
    BY DEF FinishedCount, TypeOK
  <2>2. CASE UNCHANGED frame
    BY <1>2, <2>2 DEF Only, TypeOK
  <2>3. CASE Begin(t, 1)
    BY <2>3, BeginMoves
  <2>4. CASE Begin(t, FinishedCount)
    BY <2>1, <2>4, BeginMoves
  <2> QED  BY <2>2, <2>3, <2>4 DEF GarbageCollectionStarted, GarbageCollectionFinished
<1>5. RestType
  BY <1>1, <1>2, <1>3 DEF RestType, TypeOK, checker
<1> QED  BY <1>1, <1>2, <1>4, <1>5 DEF Quiet, Keeps, Busy, Leaving, checker

\* So is the counting of a dump.
LEMMA CountQuiet ==
  ASSUME TypeOK, NEW t \in Threads, Load(t) \/ Store(t) \/ Test(t)
  PROVE  Quiet(t)
<1>1. QueueType /\ SameDumps
  BY UnchangedQueue DEF Load, Store, Test
<1>2. /\ Alive /\ frame[t].pc \in {"load", "store", "test"}
      /\ UNCHANGED <<trigger, runtime, index, gcGenStarted, mutex, checker, disk, waiter>>
  BY DEF Load, Store, Test, At, object
<1>3. /\ frame[t] \in Frames /\ frame[t].seen \in Nat /\ frame[t].flt \in 1..Filters
      /\ frame[t].obj \in Objects \cup {NoObject}
  BY DEF TypeOK, Frames
<1>4. /\ collected' \in [1..Filters -> Nat] /\ exceptionID' \in [1..Filters -> Objects \cup {NoObject}]
      /\ Only(t) /\ frame'[t].pc \in {"store", "test", "cleanup", "match", "idle"}
  <2>1. CASE Load(t)
    <3>1. collected[frame[t].flt] \in Nat
      BY <1>3 DEF TypeOK
    <3> QED  BY <1>3, <2>1, <3>1 DEF Load, TypeOK, Only, Frames, Places
  <2>2. CASE Store(t)
    BY <1>3, <2>2, GotoMoves DEF Store, TypeOK, Places
  <2>3. CASE Test(t)
    <3>1. \/ NextFilter(t)
          \/ frame' = [frame EXCEPT ![t].pc = "cleanup", ![t].after = "next"]
      BY <2>3 DEF Test
    <3>2. CASE NextFilter(t)
      BY <2>3, <3>2, NextFilterMoves DEF Test, TypeOK, object
    <3>3. CASE frame' = [frame EXCEPT ![t].pc = "cleanup", ![t].after = "next"]
      BY <1>3, <2>3, <3>3 DEF Test, TypeOK, object, Only, Frames, Places
    <3> QED  BY <3>1, <3>2, <3>3
  <2> QED  BY <2>1, <2>2, <2>3
<1>5. RestType
  BY <1>1, <1>2, <1>4 DEF RestType, TypeOK, checker, runtime
<1> QED  BY <1>1, <1>2, <1>4, <1>5 DEF Quiet, Keeps, Busy, Leaving, checker, runtime
\* So are the failure message, the cleanup and the unload.
LEMMA LeaveQuiet ==
  ASSUME TypeOK, NEW t \in Threads,
         FailConnect(t) \/ FailSend(t) \/ Cleanup(t) \/ Join(t) \/ Unload(t)
  PROVE  Quiet(t)
<1> DEFINE Stays == UNCHANGED <<trigger, target, infos, gcDepth, object, mutex, health, disk, waiter>>
           Same == UNCHANGED <<profiler, cancelled, joiner, joined>>
<1>1. /\ Alive /\ Stays /\ frame[t].pc \in {"failConnect", "failSend", "cleanup", "join", "unload"}
  BY DEF FailConnect, FailSend, Cleanup, Join, Unload, RequestDetach, At, runtime, checker
<1>2. QueueType /\ SameDumps
  <2>1. CASE FailConnect(t)
    BY <2>1, ConnectQueue, UnchangedQueue DEF FailConnect
  <2>2. CASE FailSend(t)
    <3>1. <<0, 0>> \in Names
      BY DEF Names
    <3> QED  BY <2>2, <3>1, DeliverQuiet, CannotDeliverQueue DEF FailSend
  <2>3. CASE Cleanup(t) \/ Join(t) \/ Unload(t)
    BY <2>3, UnchangedQueue DEF Cleanup, Join, Unload
  <2> QED  BY <2>1, <2>2, <2>3
<1>3. CASE FailConnect(t)
  <2>1. PICK l \in {"failSend", "cleanup"} :
          frame' = [frame EXCEPT ![t].pc = l, ![t].after = "return"]
    BY <1>3 DEF FailConnect
  <2> DEFINE f == [frame[t] EXCEPT !.pc = l, !.after = "return"]
  <2>a. frame[t] \in Frames
    BY DEF TypeOK
  <2>b. f \in Frames /\ f.pc = l
    BY <2>a DEF Frames, Places
  <2>c. frame' = [frame EXCEPT ![t] = f]
    BY <2>1
  <2> HIDE DEF f
  <2>2. Only(t) /\ frame'[t].pc = l
    BY <2>b, <2>c, FrameMoves
  <2>3. Same /\ frame[t].pc = "failConnect"
    BY <1>3 DEF FailConnect, At, runtime, checker
  <2>4. RestType
    BY <1>1, <1>2, <2>3 DEF RestType, TypeOK, object
  <2> QED  BY <1>1, <1>2, <2>2, <2>3, <2>4 DEF Quiet, Keeps, Busy, Leaving
<1>4. CASE FailSend(t)
  <2>2. Only(t) /\ frame'[t].pc = "cleanup"
    BY <1>4, GotoMoves DEF FailSend, Places
  <2>3. Same /\ frame[t].pc = "failSend"
    BY <1>4 DEF FailSend, At, runtime, checker
  <2>4. RestType
    BY <1>1, <1>2, <2>3 DEF RestType, TypeOK, object
  <2> QED  BY <1>1, <1>2, <2>2, <2>3, <2>4 DEF Quiet, Keeps, Busy, Leaving
<1>5. CASE Cleanup(t)
  <2>1. /\ UNCHANGED <<profiler, joined>> /\ frame[t].pc = "cleanup"
        /\ cancelled' = cancelled \/ cancelled' = TRUE
        /\ joiner' = joiner \/ joiner' = t
    BY <1>5 DEF Cleanup, At, runtime
  <2>2. Only(t) /\ frame'[t].pc \in {"join", "unload"}
    <3>1. Goto(t, "join") \/ Goto(t, "unload")
      BY <1>5 DEF Cleanup
    <3> QED  BY <3>1, GotoMoves DEF Places
  <2>3. cancelled' \in BOOLEAN /\ (cancelled => cancelled')
    <3>1. cancelled \in BOOLEAN
      BY DEF TypeOK
    <3>2. CASE cancelled' = cancelled
      BY <3>1, <3>2
    <3>3. CASE cancelled' = TRUE
      BY <3>3
    <3> QED  BY <2>1, <3>2, <3>3
  <2>4. RestType
    BY <1>1, <1>2, <2>1, <2>3 DEF RestType, TypeOK, object
  <2> QED  BY <1>1, <1>2, <2>1, <2>2, <2>3, <2>4 DEF Quiet, Keeps, Busy, Leaving
<1>6. CASE Join(t)
  <2>1. /\ UNCHANGED <<profiler, cancelled, joiner>> /\ frame[t].pc = "join" /\ joined' = TRUE
    BY <1>6 DEF Join, At, runtime
  <2>2. Only(t) /\ frame'[t].pc = "unload"
    BY <1>6, GotoMoves DEF Join, Places
  <2>3. RestType
    BY <1>1, <1>2, <2>1 DEF RestType, TypeOK, object
  <2> QED  BY <1>1, <1>2, <2>1, <2>2, <2>3 DEF Quiet, Keeps, Busy, Leaving
<1>7. CASE Unload(t)
  <2>1. /\ UNCHANGED <<cancelled, joiner, joined>> /\ frame[t].pc = "unload"
        /\ profiler' = IF profiler = "loaded" THEN "detaching" ELSE profiler
    BY <1>7 DEF Unload, RequestDetach, At, checker
  <2>2. Only(t) /\ frame'[t].pc \in {"match", "idle"}
    BY <1>7, NextFilterMoves, ReturnMoves DEF Unload
  <2>3. RestType
    BY <1>1, <1>2, <2>1 DEF RestType, TypeOK, object
  <2> QED  BY <1>1, <1>2, <2>1, <2>2, <2>3 DEF Quiet, Keeps, Busy, Leaving
<1> QED  BY <1>3, <1>4, <1>5, <1>6, <1>7

\* A step that leaves the callbacks, the dumps and procdump alone: the health thread and
\* the runtime.
Still ==
  /\ UNCHANGED <<trigger, target, mutex, frame, disk, pd, recorded>>
  /\ SameDumps /\ RestType

\* The health thread's steps are still.  It ends only after a cancel, or with the unload.
LEMMA HealthStill ==
  ASSUME TypeOK, Ping \/ SendPing \/ Wake \/ Killed \/ GiveUp
  PROVE  /\ Still /\ UNCHANGED <<infos, cancelled, attach>>
         /\ profiler' = "loaded" => profiler = "loaded"
         /\ health' = "killed" => cancelled \/ health = "killed"
         /\ health' = "exited" => profiler' # "loaded"
<1>1. UNCHANGED <<outside, target, infos, gcDepth, cancelled, joiner, joined>>
  BY DEF Ping, SendPing, Wake, Killed, GiveUp, HealthGoto, RequestDetach, runtime
<1>2. QueueType /\ SameDumps
  <2>1. CASE Ping
    BY <2>1, ConnectQueue, UnchangedQueue DEF Ping
  <2>2. CASE SendPing
    <3>1. <<0, 0>> \in Names
      BY DEF Names
    <3> QED  BY <2>2, <3>1, DeliverQuiet, CannotDeliverQueue DEF SendPing
  <2>3. CASE Wake \/ Killed
    BY <2>3, UnchangedQueue DEF Wake, Killed
  <2>4. CASE GiveUp
    BY <2>4 DEF GiveUp, QueueType, SameDumps, TypeOK
  <2> QED  BY <2>1, <2>2, <2>3, <2>4
<1>3. /\ profiler' \in {"none", "loaded", "detaching", "detached"}
      /\ profiler' = "loaded" => profiler = "loaded"
  BY DEF Ping, SendPing, Wake, Killed, GiveUp, RequestDetach, runtime, TypeOK
<1>4. /\ health' \in {"connect", "send", "sleep", "giveUp", "exited", "killed"}
      /\ health' = "killed" => cancelled
      /\ health' = "exited" => profiler' # "loaded"
  BY DEF Ping, SendPing, Wake, Killed, GiveUp, RequestDetach, HealthGoto, Unreachable, runtime
<1> QED  BY <1>1, <1>2, <1>3, <1>4 DEF Still, RestType, TypeOK, outside, object, disk, waiter

\* The target dies.
LEMMA DiesType ==
  ASSUME TypeOK, NEW how \in {"exited", "crashed"}, Dies(how)
  PROVE  /\ RestType /\ UNCHANGED <<trigger, disk, queue, waiter>> /\ mutex' = Nobody
         /\ target' = how /\ frame' \in [Threads -> Frames] /\ \A t \in Threads : frame'[t].pc = "idle"
         /\ health' = "none"
<1>1. Outside \in Frames /\ Outside.pc = "idle"
  BY ConstantsAssumption DEF Outside, Frames, Places, Names
<1>2. QueueType
  BY ConstantsAssumption DEF Dies, QueueType, TypeOK
<1>3. RestType
  <2>1. /\ collected' \in [1..Filters -> Nat]
        /\ exceptionID' \in [1..Filters -> Objects \cup {NoObject}]
        /\ index' \in Nat /\ gcDepth' \in 0..2
    BY DEF Dies
  <2>2. /\ infos' \in BOOLEAN /\ gcGenStarted' \in BOOLEAN /\ cancelled' \in BOOLEAN
        /\ joined' \in BOOLEAN /\ joiner' \in Threads \cup {Nobody}
        /\ profiler' = "none" /\ health' = "none"
    BY DEF Dies
  <2> QED  BY <1>2, <2>1, <2>2 DEF RestType
<1>4. frame' \in [Threads -> Frames] /\ \A t \in Threads : frame'[t].pc = "idle"
  BY <1>1 DEF Dies
<1> QED  BY <1>3, <1>4 DEF Dies
-----------------------------------------------------------------------------
(* What SameDumps keeps.                                                   *)

\* The same dumps are announced and known.
LEMMA SameDumpsKnown ==
  ASSUME SameDumps, recorded' = recorded
  PROVE  /\ \A d : Known(d)' <=> Known(d)
         /\ AnnouncedOnce => AnnouncedOnce'
         /\ AnnouncedComplete /\ complete \subseteq complete' => AnnouncedComplete'
<1>1. \A d : Known(d)' <=> Known(d)
  BY DEF SameDumps, Known
<1>2. AnnouncedOnce => AnnouncedOnce'
  BY DEF SameDumps, AnnouncedOnce
<1>3. AnnouncedComplete /\ complete \subseteq complete' => AnnouncedComplete'
  BY DEF SameDumps, AnnouncedComplete
<1> QED  BY <1>1, <1>2, <1>3

\* A quiet step keeps every conjunct.
LEMMA QuietInv ==
  ASSUME ProfilerInv, NEW t \in Threads, Quiet(t)
  PROVE  ProfilerInv'
<1> USE DEF ProfilerInv
<1>1. TypeOK'
  BY DEF Quiet, RestType, QueueType, TypeOK, Only, disk, waiter
<1>2. /\ Alive /\ Alive' /\ Only(t) /\ frame[t].pc \notin Busy /\ frame'[t].pc \notin Busy
      /\ UNCHANGED <<mutex, reserved, complete, pd, attach, recorded>> /\ SameDumps
      /\ \A u \in Threads \ {t} : frame'[u] = frame[u]
  BY DEF Quiet, Alive, Only, disk, waiter
<1>3. /\ \A d : Known(d)' <=> Known(d)
      /\ AnnouncedOnce' /\ AnnouncedComplete'
  BY <1>2, SameDumpsKnown
<1>4. DumpsSerialised'
  <2>1. \A u \in Threads : frame'[u].pc \in Busy <=> frame[u].pc \in Busy
    BY <1>2
  <2>2. {frame'[u].name : u \in {w \in Threads : frame'[w].pc = "generate"}}
          = {frame[u].name : u \in {w \in Threads : frame[w].pc = "generate"}}
    BY <1>2 DEF Busy
  <2> QED  BY <1>2, <2>1, <2>2 DEF DumpsSerialised, Busy
<1>5. AnnouncesOwn'
  BY <1>2, <1>3 DEF AnnouncesOwn, Busy
<1>6. HealthEndsForAReason'
  BY DEF HealthEndsForAReason, Quiet, Keeps
<1>7. BeforeAttach'
  BY <1>2 DEF BeforeAttach, Quiet, Idle
<1>8. NeverStranded'
  <2> SUFFICES ASSUME infos', profiler' = "loaded", cancelled' \/ HealthEnded'
               PROVE  \E u \in Threads : frame'[u].pc \in {"join", "unload"}
    BY DEF NeverStranded
  <2>1. CASE cancelled' # cancelled
    BY <2>1 DEF Quiet, Keeps
  <2>2. CASE cancelled' = cancelled
    <3>1. \E u \in Threads : frame[u].pc \in {"join", "unload"}
      BY <1>2, <2>2 DEF NeverStranded, Quiet, Keeps, HealthEnded
    <3> QED  BY <1>2, <3>1 DEF Quiet, Keeps
  <2> QED  BY <2>1, <2>2
<1>9. DumpsKnown'
  <2> SUFFICES ASSUME profiler' = "loaded", Listening',
                      ~ \E u \in Threads : frame'[u].pc \in Leaving
               PROVE  \A d \in complete' :
                        \/ Known(d)'
                        \/ \E u \in Threads : frame'[u].pc \in {"connect", "send"} /\ frame'[u].name = d
    BY DEF DumpsKnown
  <2>1. profiler = "loaded" /\ Listening
    BY <1>2 DEF Quiet, Keeps, Listening
  <2>2. ~ \E u \in Threads : frame[u].pc \in Leaving
    BY <1>2 DEF Quiet, Keeps
  <2>3. \A d \in complete :
          Known(d) \/ \E u \in Threads : frame[u].pc \in {"connect", "send"} /\ frame[u].name = d
    BY <1>2, <2>1, <2>2 DEF DumpsKnown
  <2> QED  BY <1>2, <1>3, <2>3 DEF Busy
<1> QED  BY <1>1, <1>3, <1>4, <1>5, <1>6, <1>7, <1>8, <1>9
\* A still step keeps what is not about the profiler's life.
LEMMA StillInv ==
  ASSUME ProfilerInv, Still, attach' \in {"sent", "answered", "refused"}
  PROVE  /\ TypeOK' /\ DumpsSerialised' /\ AnnouncedComplete' /\ AnnouncedOnce' /\ AnnouncesOwn'
         /\ (profiler' = "loaded" => profiler = "loaded") => DumpsKnown'
<1> USE DEF ProfilerInv
<1>1. TypeOK'
  BY DEF Still, RestType, QueueType, TypeOK, disk
<1>2. UNCHANGED <<target, mutex, frame, reserved, complete, pd, recorded>> /\ SameDumps
  BY DEF Still, disk
<1>3. /\ \A d : Known(d)' <=> Known(d)
      /\ AnnouncedOnce' /\ AnnouncedComplete'
  BY <1>2, SameDumpsKnown
<1>4. DumpsSerialised'
  BY <1>2 DEF DumpsSerialised, Alive
<1>5. AnnouncesOwn'
  BY <1>2, <1>3 DEF AnnouncesOwn
<1>6. (profiler' = "loaded" => profiler = "loaded") => DumpsKnown'
  BY <1>2, <1>3 DEF DumpsKnown, Alive, Listening
<1> QED  BY <1>1, <1>3, <1>4, <1>5, <1>6

\* The health thread keeps the invariant: when it ends by itself it has asked for the
\* unload, when it is killed a callback is about to.
LEMMA HealthInv ==
  ASSUME ProfilerInv, Ping \/ SendPing \/ Wake \/ Killed \/ GiveUp
  PROVE  ProfilerInv'
<1> USE DEF ProfilerInv
<1>1. /\ Still /\ UNCHANGED <<infos, cancelled, attach>>
      /\ profiler' = "loaded" => profiler = "loaded"
      /\ health' = "killed" => cancelled \/ health = "killed"
      /\ health' = "exited" => profiler' # "loaded"
  BY HealthStill
<1>2. /\ TypeOK' /\ DumpsSerialised' /\ AnnouncedComplete' /\ AnnouncedOnce' /\ AnnouncesOwn'
      /\ DumpsKnown'
  BY <1>1, StillInv DEF TypeOK
<1>3. HealthEndsForAReason'
  BY <1>1 DEF HealthEndsForAReason
<1>4. BeforeAttach'
  <2>1. Alive /\ attach = "sent" => profiler' = "none"
    BY DEF BeforeAttach, Ping, SendPing, Wake, Killed, GiveUp, RequestDetach, runtime
  <2> QED  BY <1>1, <2>1 DEF BeforeAttach, Still, Alive, Idle, disk
<1>5. NeverStranded'
  <2> SUFFICES ASSUME Alive', infos', profiler' = "loaded", cancelled' \/ HealthEnded'
               PROVE  \E u \in Threads : frame'[u].pc \in {"join", "unload"}
    BY DEF NeverStranded
  <2>1. cancelled
    BY <1>1, <1>3 DEF HealthEnded, HealthEndsForAReason
  <2>2. \E u \in Threads : frame[u].pc \in {"join", "unload"}
    BY <1>1, <2>1 DEF NeverStranded, Still, Alive
  <2> QED  BY <1>1, <2>2 DEF Still
<1> QED  BY <1>2, <1>3, <1>4, <1>5

\* So does the runtime, when it attaches, detaches and shuts down the profiler.
LEMMA RuntimeInv ==
  ASSUME ProfilerInv, InitializeForAttach \/ Detach \/ Shutdown
  PROVE  ProfilerInv'
<1> USE DEF ProfilerInv
<1>1. QueueType /\ SameDumps
  BY UnchangedQueue DEF InitializeForAttach, Detach, Shutdown
<1>2. CASE InitializeForAttach
  <2>1. /\ UNCHANGED <<trigger, target, infos, gcDepth, object, mutex, frame, cancelled, joiner,
                       joined, disk, pd, recorded>>
        /\ attach = "sent" /\ Alive /\ attach' \in {"answered", "refused"}
        /\ \/ profiler' = "loaded" /\ health' = "connect"
           \/ UNCHANGED <<profiler, health>>
    BY <1>2 DEF InitializeForAttach
  <2>2. Still
    BY <1>1, <2>1 DEF Still, RestType, TypeOK, object
  <2>3. TypeOK' /\ DumpsSerialised' /\ AnnouncedComplete' /\ AnnouncedOnce' /\ AnnouncesOwn'
    BY <2>1, <2>2, StillInv
  <2>4. ~cancelled /\ complete = {} /\ profiler = "none"
    BY <2>1 DEF BeforeAttach
  <2>5. DumpsKnown'
    BY <2>1, <2>4 DEF DumpsKnown, disk
  <2>6. HealthEndsForAReason' /\ NeverStranded' /\ BeforeAttach'
    BY <2>1, <2>4 DEF HealthEndsForAReason, NeverStranded, HealthEnded, BeforeAttach
  <2> QED  BY <2>3, <2>5, <2>6
<1>3. CASE Detach
  <2>1. UNCHANGED <<outside, target, infos, gcDepth, checker>> /\ profiler' = "detached"
        /\ profiler = "detaching"
    BY <1>3 DEF Detach
  <2>2. Still
    BY <1>1, <2>1 DEF Still, RestType, TypeOK, outside, object, checker, disk, waiter
  <2>3. /\ TypeOK' /\ DumpsSerialised' /\ AnnouncedComplete' /\ AnnouncedOnce' /\ AnnouncesOwn'
        /\ DumpsKnown'
    BY <2>1, <2>2, StillInv DEF TypeOK, outside, waiter
  <2>4. HealthEndsForAReason' /\ NeverStranded' /\ BeforeAttach'
    BY <2>1 DEF HealthEndsForAReason, NeverStranded, BeforeAttach, outside, waiter, checker, Alive
  <2> QED  BY <2>3, <2>4
<1>4. CASE Shutdown
  <2>1. /\ UNCHANGED <<outside, target, profiler, gcDepth, health, joiner, joined>>
        /\ infos' = FALSE /\ profiler = "loaded"
        /\ cancelled' = IF joined THEN cancelled ELSE TRUE
    BY <1>4 DEF Shutdown
  <2>2. cancelled' \in BOOLEAN /\ (cancelled => cancelled')
    <3>1. cancelled \in BOOLEAN
      BY DEF TypeOK
    <3>2. CASE joined
      BY <2>1, <3>1, <3>2
    <3>3. CASE ~joined
      BY <2>1, <3>3
    <3> QED  BY <3>2, <3>3
  <2>3. Still
    BY <1>1, <2>1, <2>2 DEF Still, RestType, TypeOK, outside, object, disk, waiter
  <2>4. /\ TypeOK' /\ DumpsSerialised' /\ AnnouncedComplete' /\ AnnouncedOnce' /\ AnnouncesOwn'
        /\ DumpsKnown'
    BY <2>1, <2>3, StillInv DEF TypeOK, outside, waiter
  <2>5. HealthEndsForAReason' /\ NeverStranded' /\ BeforeAttach'
    BY <2>1, <2>2 DEF HealthEndsForAReason, NeverStranded, BeforeAttach, outside, waiter, Alive
  <2> QED  BY <2>4, <2>5
<1> QED  BY <1>2, <1>3, <1>4

\* The end of the target keeps it.
LEMMA DiesInv ==
  ASSUME ProfilerInv, NEW how \in {"exited", "crashed"}, Dies(how)
  PROVE  ProfilerInv'
<1> USE DEF ProfilerInv
<1>1. /\ RestType /\ UNCHANGED <<trigger, disk, queue, waiter>> /\ mutex' = Nobody
      /\ target' = how /\ frame' \in [Threads -> Frames] /\ \A t \in Threads : frame'[t].pc = "idle"
      /\ health' = "none"
  BY DiesType
<1>2. TypeOK'
  BY <1>1 DEF TypeOK, RestType, QueueType, disk, waiter
<1>3. ~Alive'
  BY <1>1 DEF Alive
<1>4. AnnouncedComplete' /\ AnnouncedOnce'
  BY <1>1 DEF AnnouncedComplete, AnnouncedOnce, disk, waiter
<1>5. AnnouncesOwn' /\ HealthEndsForAReason'
  BY <1>1 DEF AnnouncesOwn, HealthEndsForAReason
<1> QED  BY <1>2, <1>3, <1>4, <1>5 DEF DumpsSerialised, BeforeAttach, NeverStranded, DumpsKnown

\* So does procdump's end: nothing is in its queue any more, and it listens no more.
LEMMA EndedInv ==
  ASSUME ProfilerInv, NEW result \in {"ok", "error", "crashed"}, Ended(result),
         UNCHANGED <<inside, attach, recorded>>
  PROVE  ProfilerInv'
<1> USE DEF ProfilerInv
<1>1. QueueType /\ queue' = <<>> /\ pd' = result /\ Len(queue') = 0
  BY EndedQueue
<1>2. TypeOK'
  BY <1>1 DEF TypeOK, QueueType, inside, runtime, object, checker, disk
<1>3. UNCHANGED <<target, profiler, infos, cancelled, health, mutex, frame, reserved, complete>>
  BY DEF inside, runtime, checker, disk
<1>4. AnnouncedComplete' /\ AnnouncedOnce'
  BY <1>1, <1>3 DEF AnnouncedComplete, AnnouncedOnce
<1>5. \A d : Known(d)' => Known(d)
  BY <1>1 DEF Known
<1>6. DumpsSerialised' /\ AnnouncesOwn' /\ HealthEndsForAReason' /\ BeforeAttach' /\ NeverStranded'
  BY <1>3, <1>5 DEF DumpsSerialised, AnnouncesOwn, HealthEndsForAReason, BeforeAttach, Idle,
     NeverStranded, HealthEnded, Alive
<1>7. DumpsKnown'
  BY <1>1 DEF DumpsKnown, Listening
<1> QED  BY <1>2, <1>4, <1>6, <1>7
\* A status that procdump reads: a dump moves from the queue to the count, and is known
\* as before.
LEMMA ReadInv ==
  ASSUME ProfilerInv, queue # <<>>, Consumed, UNCHANGED <<inside, attach>>,
         \/ Head(queue).kind = "dump" /\ recorded' = Append(recorded, Head(queue).dump)
         \/ Head(queue).kind = "health" /\ recorded' = recorded
  PROVE  ProfilerInv'
<1> USE DEF ProfilerInv
<1>1. /\ QueueType /\ pd' = pd /\ Len(queue') = Len(queue) - 1 /\ Len(queue) \in Nat \ {0}
      /\ \A i \in 1..Len(queue') : queue'[i] = queue[i + 1]
      /\ Head(queue) = queue[1] /\ queue[1] \in Connections
  BY ConsumedQueue
<1>2. UNCHANGED <<target, profiler, infos, cancelled, health, mutex, frame, reserved, complete>>
  BY DEF inside, runtime, checker, disk
<1>3. recorded \in Seq(Names) /\ Len(recorded) \in Nat /\ queue[1].dump \in Names
  BY <1>1 DEF TypeOK, Connections
<1>4. CASE Head(queue).kind = "dump" /\ recorded' = Append(recorded, Head(queue).dump)
  <2> DEFINE d1 == queue[1].dump
  <2>1. /\ recorded' \in Seq(Names) /\ Len(recorded') = Len(recorded) + 1
        /\ recorded'[Len(recorded) + 1] = d1
        /\ \A i \in 1..Len(recorded) : recorded'[i] = recorded[i]
    BY <1>1, <1>3, <1>4
  <2>2. queue[1].kind = "dump"
    BY <1>1, <1>4
  <2>3. TypeOK'
    BY <1>1, <2>1 DEF TypeOK, QueueType, inside, runtime, object, checker, disk
  <2>4. AnnouncedComplete'
    <3>1. 1 \in 1..Len(queue) /\ \A i \in 1..Len(queue') : i + 1 \in 1..Len(queue)
      BY <1>1
    <3>2. \A i \in 1..Len(recorded') : i \in 1..Len(recorded) \/ i = Len(recorded) + 1
      BY <1>3, <2>1
    <3> QED  BY <1>1, <1>2, <2>1, <2>2, <3>1, <3>2 DEF AnnouncedComplete
  <2>5. AnnouncedOnce'
    <3>1. 1 \in 1..Len(queue) /\ \A i \in 1..Len(queue') : i + 1 \in 1..Len(queue) /\ i + 1 # 1
      BY <1>1
    <3>2. \A i \in 1..Len(recorded') : i \in 1..Len(recorded) \/ i = Len(recorded) + 1
      BY <1>3, <2>1
    <3>3. \A i, j \in 1..Len(queue') :
            (/\ queue'[i].kind = "dump" /\ queue'[j].kind = "dump"
             /\ queue'[i].dump = queue'[j].dump) => i = j
      <4> TAKE i, j \in 1..Len(queue')
      <4> HAVE /\ queue'[i].kind = "dump" /\ queue'[j].kind = "dump"
               /\ queue'[i].dump = queue'[j].dump
      <4>1. i + 1 = j + 1
        BY <1>1, <3>1 DEF AnnouncedOnce
      <4> QED  BY <1>1, <4>1
    <3>4. \A i \in 1..Len(recorded) : recorded[i] # d1
      BY <2>2, <3>1 DEF AnnouncedOnce
    <3>5. \A i, j \in 1..Len(recorded') : recorded'[i] = recorded'[j] => i = j
      <4> TAKE i, j \in 1..Len(recorded')
      <4> HAVE recorded'[i] = recorded'[j]
      <4>1. CASE i \in 1..Len(recorded) /\ j \in 1..Len(recorded)
        BY <2>1, <4>1 DEF AnnouncedOnce
      <4>2. CASE i = Len(recorded) + 1 \/ j = Len(recorded) + 1
        BY <2>1, <3>2, <3>4, <4>2
      <4> QED  BY <3>2, <4>1, <4>2
    <3>6. \A i \in 1..Len(queue'), j \in 1..Len(recorded') :
            queue'[i].kind = "dump" => queue'[i].dump # recorded'[j]
      <4> TAKE i \in 1..Len(queue'), j \in 1..Len(recorded')
      <4> HAVE queue'[i].kind = "dump"
      <4>1. queue'[i] = queue[i + 1] /\ queue[i + 1].kind = "dump" /\ i + 1 \in 1..Len(queue)
            /\ i + 1 # 1
        BY <1>1, <3>1
      <4>2. CASE j \in 1..Len(recorded)
        BY <2>1, <4>1, <4>2 DEF AnnouncedOnce
      <4>3. CASE j = Len(recorded) + 1
        BY <2>1, <2>2, <3>1, <4>1, <4>3 DEF AnnouncedOnce
      <4> QED  BY <3>2, <4>2, <4>3
    <3> QED  BY <3>3, <3>5, <3>6 DEF AnnouncedOnce
  <2>6. \A d : Known(d)' <=> Known(d)
    <3>1. ASSUME NEW d, Known(d)' PROVE Known(d)
      <4>1. 1 \in 1..Len(queue) /\ \A i \in 1..Len(queue') : i + 1 \in 1..Len(queue)
        BY <1>1
      <4>2. \A i \in 1..Len(recorded') : i \in 1..Len(recorded) \/ i = Len(recorded) + 1
        BY <1>3, <2>1
      <4> QED  BY <1>1, <2>1, <2>2, <3>1, <4>1, <4>2 DEF Known
    <3>2. ASSUME NEW d, Known(d) PROVE Known(d)'
      <4>1. ASSUME NEW i \in 1..Len(queue), queue[i].kind = "dump", queue[i].dump = d
            PROVE  Known(d)'
        <5>1. CASE i = 1
          <6>1. Len(recorded) + 1 \in 1..Len(recorded')
            BY <1>3, <2>1
          <6> QED  BY <2>1, <4>1, <5>1, <6>1 DEF Known
        <5>2. CASE i # 1
          <6>1. i - 1 \in 1..Len(queue') /\ queue'[i - 1] = queue[i]
            BY <1>1, <4>1, <5>2
          <6> QED  BY <4>1, <6>1 DEF Known
        <5> QED  BY <5>1, <5>2
      <4>2. ASSUME NEW i \in 1..Len(recorded), recorded[i] = d
            PROVE  Known(d)'
        <5>1. i \in 1..Len(recorded') /\ recorded'[i] = d
          BY <1>3, <2>1, <4>2
        <5> QED  BY <5>1 DEF Known
      <4> QED  BY <3>2, <4>1, <4>2 DEF Known
    <3> QED  BY <3>1, <3>2
  <2>7. /\ DumpsSerialised' /\ AnnouncesOwn' /\ HealthEndsForAReason' /\ BeforeAttach'
        /\ NeverStranded' /\ DumpsKnown'
    BY <1>1, <1>2, <2>6 DEF DumpsSerialised, AnnouncesOwn, HealthEndsForAReason, BeforeAttach, Idle,
       NeverStranded, HealthEnded, Alive, DumpsKnown, Listening
  <2> QED  BY <2>3, <2>4, <2>5, <2>7
<1>5. CASE Head(queue).kind = "health" /\ recorded' = recorded
  <2>1. queue[1].kind # "dump"
    BY <1>1, <1>5
  <2>2. \A i \in 1..Len(queue') : i + 1 \in 1..Len(queue)
    BY <1>1
  <2>3. TypeOK'
    BY <1>1, <1>5 DEF TypeOK, QueueType, inside, runtime, object, checker, disk
  <2>4. AnnouncedComplete'
    BY <1>1, <1>2, <1>5, <2>2 DEF AnnouncedComplete
  <2>5. AnnouncedOnce'
    <3>1. \A i, j \in 1..Len(queue') :
            (/\ queue'[i].kind = "dump" /\ queue'[j].kind = "dump"
             /\ queue'[i].dump = queue'[j].dump) => i = j
      <4> TAKE i, j \in 1..Len(queue')
      <4> HAVE /\ queue'[i].kind = "dump" /\ queue'[j].kind = "dump"
               /\ queue'[i].dump = queue'[j].dump
      <4>1. i + 1 = j + 1
        BY <1>1, <2>2 DEF AnnouncedOnce
      <4> QED  BY <1>1, <4>1
    <3>2. \A i \in 1..Len(queue'), j \in 1..Len(recorded') :
            queue'[i].kind = "dump" => queue'[i].dump # recorded'[j]
      BY <1>1, <1>5, <2>2 DEF AnnouncedOnce
    <3> QED  BY <1>5, <3>1, <3>2 DEF AnnouncedOnce
  <2>6. \A d : Known(d)' <=> Known(d)
    <3>1. ASSUME NEW d, Known(d)' PROVE Known(d)
      BY <1>1, <1>5, <2>2, <3>1 DEF Known
    <3>2. ASSUME NEW d, Known(d) PROVE Known(d)'
      <4>1. ASSUME NEW i \in 1..Len(queue), queue[i].kind = "dump", queue[i].dump = d
            PROVE  Known(d)'
        <5>1. i # 1
          BY <2>1, <4>1
        <5>2. i - 1 \in 1..Len(queue') /\ queue'[i - 1] = queue[i]
          BY <1>1, <4>1, <5>1
        <5> QED  BY <4>1, <5>2 DEF Known
      <4> QED  BY <1>5, <3>2, <4>1 DEF Known
    <3> QED  BY <3>1, <3>2
  <2>7. /\ DumpsSerialised' /\ AnnouncesOwn' /\ HealthEndsForAReason' /\ BeforeAttach'
        /\ NeverStranded' /\ DumpsKnown'
    BY <1>1, <1>2, <2>6 DEF DumpsSerialised, AnnouncesOwn, HealthEndsForAReason, BeforeAttach, Idle,
       NeverStranded, HealthEnded, Alive, DumpsKnown, Listening
  <2> QED  BY <2>3, <2>4, <2>5, <2>7
<1> QED  BY <1>4, <1>5
-----------------------------------------------------------------------------
(* WriteDumpHelper.                                                        *)

\* Its steps change nothing of the profiler's life.
LEMMA WriteLife ==
  ASSUME ProfilerInv, NEW t \in Threads, Alive, Only(t), frame[t].pc \in Busy \cup {"reserve"},
         UNCHANGED <<runtime, checker, attach>>
  PROVE  HealthEndsForAReason' /\ BeforeAttach' /\ NeverStranded'
<1> USE DEF ProfilerInv
<1>1. UNCHANGED <<target, profiler, infos, cancelled, health>>
  BY DEF runtime, checker
<1>2. HealthEndsForAReason'
  BY <1>1 DEF HealthEndsForAReason
<1>3. BeforeAttach'
  BY <1>1 DEF BeforeAttach, Idle, Busy
<1>4. NeverStranded'
  <2>1. \A u \in Threads : frame[u].pc \in {"join", "unload"} => frame'[u] = frame[u]
    BY DEF Only, Busy
  <2> QED  BY <1>1, <2>1 DEF NeverStranded, HealthEnded, Alive
<1> QED  BY <1>2, <1>3, <1>4

\* The holder of endDumpCondition is the only thread that writes.
LEMMA OneWriter ==
  ASSUME ProfilerInv, Alive, NEW t \in Threads, frame[t].pc \in Busy
  PROVE  /\ mutex = t /\ \A u \in Threads \ {t} : frame[u].pc \notin Busy
         /\ reserved = IF frame[t].pc = "generate" THEN {frame[t].name} ELSE {}
<1>1. mutex = t /\ \A u \in Threads \ {t} : frame[u].pc \notin Busy
  BY DEF ProfilerInv, DumpsSerialised, Busy
<1>2. reserved = {frame[u].name : u \in {w \in Threads : frame[w].pc = "generate"}}
  BY DEF ProfilerInv, DumpsSerialised
<1> QED  BY <1>1, <1>2 DEF Busy

\* The reservation: the name is nobody's.
LEMMA ReserveInv ==
  ASSUME ProfilerInv, NEW t \in Threads, Reserve(t)
  PROVE  ProfilerInv'
<1> USE DEF ProfilerInv
<1> DEFINE d == frame[t].name
<1>1. /\ Alive /\ frame[t].pc = "reserve" /\ mutex = Nobody
      /\ UNCHANGED <<trigger, runtime, object, checker, socket, waiter>>
  BY DEF Reserve, At
<1>2. QueueType /\ SameDumps
  BY <1>1, UnchangedQueue
<1>3. CASE UNCHANGED <<disk, mutex>> /\ Goto(t, "failConnect")
  <2>1. Only(t) /\ frame'[t].pc = "failConnect"
    BY <1>3, GotoMoves DEF Places
  <2>2. RestType
    BY <1>1, <1>2 DEF RestType, TypeOK, runtime, object, checker
  <2>3. Quiet(t)
    BY <1>1, <1>2, <1>3, <2>1, <2>2 DEF Quiet, Keeps, Busy, Leaving, runtime, checker
  <2> QED  BY <2>3, QuietInv
<1>4. CASE /\ MayCreate(d) /\ reserved' = reserved \cup {d} /\ complete' = complete \ {d}
           /\ mutex' = t /\ Goto(t, "generate")
  <2>1. Only(t) /\ frame'[t].pc = "generate" /\ frame'[t].name = d
    BY <1>4, GotoMoves DEF Places
  <2>2. d \in Names /\ d \notin reserved /\ d \notin complete /\ complete' = complete
    BY <1>4 DEF MayCreate, TypeOK, Frames
  <2>3. TypeOK'
    BY <1>1, <1>2, <1>4, <2>1, <2>2
      DEF TypeOK, QueueType, Only, runtime, object, checker, waiter
  <2>4. recorded' = recorded /\ pd' = pd /\ target' = target /\ profiler' = profiler
    BY <1>1 DEF waiter, runtime
  <2>5. /\ \A e : Known(e)' <=> Known(e)
        /\ AnnouncedOnce' /\ AnnouncedComplete'
    BY <1>2, <2>2, <2>4, SameDumpsKnown
  <2>6. \A u \in Threads : frame[u].pc \notin Busy
    BY <1>1, ConstantsAssumption DEF DumpsSerialised, Busy
  <2>7. reserved = {}
    BY <1>1, <2>6 DEF DumpsSerialised, Busy
  <2>8. DumpsSerialised'
    <3>1. \A u \in Threads : frame'[u].pc \in Busy <=> u = t
      BY <2>1, <2>6 DEF Only, Busy
    <3>2. {frame'[u].name : u \in {w \in Threads : frame'[w].pc = "generate"}} = {d}
      BY <2>1, <3>1 DEF Busy
    <3> QED  BY <1>4, <2>2, <2>7, <3>1, <3>2 DEF DumpsSerialised, Busy
  <2>9. AnnouncesOwn'
    <3>1. ~Known(d)
      BY <2>2 DEF AnnouncedComplete, Known
    <3> QED  BY <2>1, <2>5, <2>6, <3>1 DEF AnnouncesOwn, Only, Busy
  <2>10. DumpsKnown'
    <3>1. \A u \in Threads : frame[u].pc \in Leaving => frame'[u] = frame[u]
      BY <1>1, <2>1 DEF Only, Leaving
    <3> QED  BY <1>1, <2>2, <2>4, <2>5, <2>6, <3>1 DEF DumpsKnown, Listening, Alive, Busy
  <2>11. HealthEndsForAReason' /\ BeforeAttach' /\ NeverStranded'
    BY <1>1, <2>1, WriteLife DEF waiter
  <2> QED  BY <2>3, <2>5, <2>8, <2>9, <2>10, <2>11
<1> QED  BY <1>3, <1>4 DEF Reserve

\* The runtime's part: the file becomes complete, or is removed.
LEMMA GenerateInv ==
  ASSUME ProfilerInv, NEW t \in Threads, Generate(t)
  PROVE  ProfilerInv'
<1> USE DEF ProfilerInv
<1> DEFINE d == frame[t].name
<1>1. /\ Alive /\ frame[t].pc = "generate" /\ d \in Names
      /\ UNCHANGED <<trigger, runtime, object, checker, path, queue, waiter>>
  BY DEF Generate, At, TypeOK, Frames
<1>2. mutex = t /\ reserved = {d} /\ \A u \in Threads \ {t} : frame[u].pc \notin Busy
  BY <1>1, OneWriter DEF Busy
<1>3. SameDumps /\ recorded' = recorded /\ pd' = pd /\ target' = target /\ profiler' = profiler
  BY <1>1 DEF SameDumps, waiter, runtime
<1>4. CASE /\ reserved' = reserved \ {d} /\ complete' = complete \cup {d}
           /\ Goto(t, "connect") /\ UNCHANGED <<mutex, leaked>>
  <2>1. Only(t) /\ frame'[t].pc = "connect" /\ frame'[t].name = d
    BY <1>4, GotoMoves DEF Places
  <2>2. TypeOK'
    BY <1>1, <1>2, <1>4, <2>1 DEF TypeOK, Only, runtime, object, checker, waiter
  <2>3. /\ \A e : Known(e)' <=> Known(e)
        /\ AnnouncedOnce' /\ AnnouncedComplete'
    BY <1>3, <1>4, SameDumpsKnown
  <2>4. DumpsSerialised'
    <3>1. \A u \in Threads : frame'[u].pc \in Busy <=> u = t
      BY <1>2, <2>1 DEF Only, Busy
    <3>2. {frame'[u].name : u \in {w \in Threads : frame'[w].pc = "generate"}} = {}
      BY <2>1, <3>1 DEF Busy
    <3> QED  BY <1>2, <1>4, <3>1, <3>2 DEF DumpsSerialised, Busy
  <2>5. AnnouncesOwn'
    <3>1. ~Known(d)
      BY <1>1 DEF AnnouncesOwn
    <3> QED  BY <1>2, <1>4, <2>1, <2>3, <3>1 DEF AnnouncesOwn, Only, Busy
  <2>6. DumpsKnown'
    <3>1. \A u \in Threads \ {t} : frame'[u] = frame[u]
      BY <2>1 DEF Only
    <3> QED  BY <1>1, <1>2, <1>3, <1>4, <2>1, <2>3, <3>1
             DEF DumpsKnown, Listening, Alive, Busy, Leaving
  <2>7. HealthEndsForAReason' /\ BeforeAttach' /\ NeverStranded'
    BY <1>1, <2>1, WriteLife DEF waiter, Busy
  <2> QED  BY <2>2, <2>3, <2>4, <2>5, <2>6, <2>7
<1>5. CASE /\ reserved' = Unlinked(d) /\ UNCHANGED complete /\ mutex' = Nobody
           /\ Goto(t, "failConnect")
           /\ leaked' \in {leaked, leaked + 1} /\ leaked' <= FdLimit
  <2>1. Only(t) /\ frame'[t].pc = "failConnect"
    BY <1>5, GotoMoves DEF Places
  <2>2. reserved' = {}
    BY <1>2, <1>5 DEF Unlinked
  <2>3. TypeOK'
    BY <1>1, <1>5, <2>1, <2>2, ConstantsAssumption
      DEF TypeOK, Only, runtime, object, checker, waiter
  <2>4. /\ \A e : Known(e)' <=> Known(e)
        /\ AnnouncedOnce' /\ AnnouncedComplete'
    BY <1>3, <1>5, SameDumpsKnown
  <2>5. \A u \in Threads : frame'[u].pc \notin Busy
    BY <1>2, <2>1 DEF Only, Busy
  <2>6. DumpsSerialised'
    <3>1. {frame'[u].name : u \in {w \in Threads : frame'[w].pc = "generate"}} = {}
      BY <2>5 DEF Busy
    <3> QED  BY <1>5, <2>2, <2>5, <3>1, ConstantsAssumption DEF DumpsSerialised, Busy
  <2>7. AnnouncesOwn'
    BY <2>5 DEF AnnouncesOwn, Busy
  <2>8. DumpsKnown'
    BY <2>1 DEF DumpsKnown, Leaving
  <2>9. HealthEndsForAReason' /\ BeforeAttach' /\ NeverStranded'
    BY <1>1, <2>1, WriteLife DEF waiter, Busy
  <2> QED  BY <2>3, <2>4, <2>6, <2>7, <2>8, <2>9
<1> QED  BY <1>4, <1>5 DEF Generate

\* A writer whose dump stays unannounced releases the mutex and leaves.
LEMMA GivesUpInv ==
  ASSUME ProfilerInv, NEW t \in Threads, Alive, frame[t].pc \in Busy, reserved = {},
         \A u \in Threads \ {t} : frame[u].pc \notin Busy,
         Only(t), frame'[t].pc = "failConnect", mutex' = Nobody, QueueType, SameDumps,
         UNCHANGED <<trigger, runtime, object, checker, disk, waiter>>
  PROVE  ProfilerInv'
<1> USE DEF ProfilerInv
<1>1. /\ recorded' = recorded /\ pd' = pd /\ target' = target /\ profiler' = profiler
      /\ reserved' = {} /\ complete' = complete
  BY DEF waiter, runtime, disk
<1>2. TypeOK'
  BY DEF TypeOK, QueueType, Only, runtime, object, checker, disk, waiter
<1>3. /\ \A e : Known(e)' <=> Known(e)
      /\ AnnouncedOnce' /\ AnnouncedComplete'
  BY <1>1, SameDumpsKnown
<1>4. \A u \in Threads : frame'[u].pc \notin Busy
  BY DEF Only, Busy
<1>5. DumpsSerialised'
  <2>1. {frame'[u].name : u \in {w \in Threads : frame'[w].pc = "generate"}} = {}
    BY <1>4 DEF Busy
  <2> QED  BY <1>1, <1>4, <2>1, ConstantsAssumption DEF DumpsSerialised, Busy
<1>6. AnnouncesOwn'
  BY <1>4 DEF AnnouncesOwn, Busy
<1>7. DumpsKnown'
  BY DEF DumpsKnown, Leaving
<1>8. HealthEndsForAReason' /\ BeforeAttach' /\ NeverStranded'
  BY WriteLife DEF waiter
<1> QED  BY <1>2, <1>3, <1>5, <1>6, <1>7, <1>8

\* procdump is reached, or the writer leaves.
LEMMA AnnounceInv ==
  ASSUME ProfilerInv, NEW t \in Threads, Announce(t)
  PROVE  ProfilerInv'
<1> USE DEF ProfilerInv
<1> DEFINE d == frame[t].name
<1>1. /\ Alive /\ frame[t].pc = "connect"
      /\ UNCHANGED <<trigger, runtime, object, checker, disk, waiter>>
  BY DEF Announce, At
<1>2. mutex = t /\ reserved = {} /\ \A u \in Threads \ {t} : frame[u].pc \notin Busy
  BY <1>1, OneWriter DEF Busy
<1>3. /\ recorded' = recorded /\ pd' = pd /\ target' = target /\ profiler' = profiler
      /\ reserved' = reserved /\ complete' = complete
  BY <1>1 DEF waiter, runtime, disk
<1>4. CASE Connect(t) /\ Goto(t, "send") /\ UNCHANGED mutex
  <2>1. Only(t) /\ frame'[t].pc = "send" /\ frame'[t].name = d
    BY <1>4, GotoMoves DEF Places
  <2>2. QueueType /\ SameDumps
    BY <1>4, ConnectQueue
  <2>3. TypeOK'
    BY <1>1, <1>4, <2>1, <2>2 DEF TypeOK, QueueType, Only, runtime, object, checker, disk, waiter
  <2>4. /\ \A e : Known(e)' <=> Known(e)
        /\ AnnouncedOnce' /\ AnnouncedComplete'
    BY <1>3, <2>2, SameDumpsKnown
  <2>5. DumpsSerialised'
    <3>1. \A u \in Threads : frame'[u].pc \in Busy <=> u = t
      BY <1>2, <2>1 DEF Only, Busy
    <3>2. {frame'[u].name : u \in {w \in Threads : frame'[w].pc = "generate"}} = {}
      BY <2>1, <3>1 DEF Busy
    <3> QED  BY <1>2, <1>3, <1>4, <3>1, <3>2 DEF DumpsSerialised, Busy
  <2>6. AnnouncesOwn'
    <3>1. ~Known(d) /\ d \in complete
      BY <1>1 DEF AnnouncesOwn
    <3> QED  BY <1>2, <1>3, <2>1, <2>4, <3>1 DEF AnnouncesOwn, Only, Busy
  <2>7. DumpsKnown'
    <3>1. \A u \in Threads \ {t} : frame'[u] = frame[u]
      BY <2>1 DEF Only
    <3> QED  BY <1>1, <1>2, <1>3, <2>1, <2>4, <3>1
             DEF DumpsKnown, Listening, Alive, Busy, Leaving
  <2>8. HealthEndsForAReason' /\ BeforeAttach' /\ NeverStranded'
    BY <1>1, <2>1, WriteLife DEF waiter, Busy
  <2> QED  BY <2>3, <2>4, <2>5, <2>6, <2>7, <2>8
<1>5. CASE UNCHANGED socket /\ mutex' = Nobody /\ Goto(t, NotAnnounced)
  <2>1. Only(t) /\ frame'[t].pc = "failConnect"
    BY <1>5, GotoMoves DEF Places, NotAnnounced
  <2>2. QueueType /\ SameDumps
    BY <1>5, UnchangedQueue
  <2> QED  BY <1>1, <1>2, <1>3, <1>5, <2>1, <2>2, GivesUpInv DEF Busy
<1> QED  BY <1>4, <1>5 DEF Announce

\* What the message adds: one known dump.
LEMMA DeliverKnown ==
  ASSUME ProfilerInv, NEW t \in Threads, frame[t].pc = "send",
         Deliver(t, "dump", frame[t].name), UNCHANGED <<recorded, complete>>
  PROVE  /\ QueueType /\ AnnouncedComplete' /\ AnnouncedOnce'
         /\ \A e : Known(e)' <=> Known(e) \/ e = frame[t].name
<1> USE DEF ProfilerInv
<1> DEFINE d == frame[t].name
<1>1. d \in Names /\ d \in complete /\ ~Known(d)
  BY DEF TypeOK, Frames, AnnouncesOwn
<1>2. /\ QueueType /\ Len(queue') = Len(queue)
      /\ \E i \in 1..Len(queue) :
           /\ queue[i].kind = "open" /\ queue'[i].kind = "dump" /\ queue'[i].dump = d
           /\ \A j \in 1..Len(queue) : j # i => queue'[j] = queue[j]
  BY <1>1, DeliverQueue
<1>3. PICK i \in 1..Len(queue) :
        /\ queue[i].kind = "open" /\ queue'[i].kind = "dump" /\ queue'[i].dump = d
        /\ \A j \in 1..Len(queue) : j # i => queue'[j] = queue[j]
  BY <1>2
<1>4. AnnouncedComplete'
  BY <1>1, <1>2, <1>3 DEF AnnouncedComplete
<1>5. AnnouncedOnce'
  <2>1. /\ \A j \in 1..Len(queue) : queue[j].kind = "dump" => queue[j].dump # d
        /\ \A j \in 1..Len(recorded) : recorded[j] # d
    BY <1>1 DEF Known
  <2> QED  BY <1>2, <1>3, <2>1 DEF AnnouncedOnce
<1>6. \A e : Known(e)' <=> Known(e) \/ e = d
  BY <1>2, <1>3 DEF Known
<1> QED  BY <1>2, <1>4, <1>5, <1>6

\* The callback goes on after its dump.
LEMMA WrittenMoves ==
  ASSUME TypeOK, NEW t \in Threads, Written(t)
  PROVE  Only(t) /\ frame'[t].pc \in {"load", "cleanup", "idle"} /\ index' \in Nat
<1>1. Only(t) /\ frame'[t].pc \in {"load", "cleanup", "idle"}
  <2>1. Goto(t, "load") \/ Goto(t, "cleanup") \/ Return(t)
    BY DEF Written
  <2> QED  BY <2>1, GotoMoves, ReturnMoves DEF Places
<1>2. index' \in Nat
  <2>1. index \in Nat /\ (index' = index \/ index' = index + 1)
    BY DEF Written, TypeOK
  <2> QED  BY <2>1
<1> QED  BY <1>1, <1>2

\* procdump is told of the dump, or the writer leaves.
LEMMA SendSuccessInv ==
  ASSUME ProfilerInv, NEW t \in Threads, SendSuccess(t)
  PROVE  ProfilerInv'
<1> USE DEF ProfilerInv
<1> DEFINE d == frame[t].name
<1>1. /\ Alive /\ frame[t].pc = "send" /\ mutex' = Nobody
      /\ UNCHANGED <<trigger, runtime, collected, exceptionID, gcGenStarted, checker, disk, waiter>>
  BY DEF SendSuccess, At
<1>2. reserved = {} /\ \A u \in Threads \ {t} : frame[u].pc \notin Busy
  BY <1>1, OneWriter DEF Busy
<1>3. /\ recorded' = recorded /\ pd' = pd /\ target' = target /\ profiler' = profiler
      /\ reserved' = reserved /\ complete' = complete
  BY <1>1 DEF waiter, runtime, disk
<1>4. CASE Deliver(t, "dump", d) /\ Written(t)
  <2>1. Only(t) /\ frame'[t].pc \in {"load", "cleanup", "idle"} /\ index' \in Nat
    BY <1>4, WrittenMoves
  <2>2. /\ QueueType /\ AnnouncedComplete' /\ AnnouncedOnce'
        /\ \A e : Known(e)' <=> Known(e) \/ e = d
    BY <1>1, <1>3, <1>4, DeliverKnown
  <2>3. TypeOK'
    BY <1>1, <2>1, <2>2 DEF TypeOK, QueueType, Only, runtime, checker, disk, waiter
  <2>4. \A u \in Threads : frame'[u].pc \notin Busy
    BY <1>2, <2>1 DEF Only, Busy
  <2>5. DumpsSerialised'
    <3>1. {frame'[u].name : u \in {w \in Threads : frame'[w].pc = "generate"}} = {}
      BY <2>4 DEF Busy
    <3> QED  BY <1>1, <1>2, <1>3, <2>4, <3>1, ConstantsAssumption DEF DumpsSerialised, Busy
  <2>6. AnnouncesOwn'
    BY <2>4 DEF AnnouncesOwn, Busy
  <2>7. DumpsKnown'
    <3>1. \A u \in Threads \ {t} : frame'[u] = frame[u]
      BY <2>1 DEF Only
    <3>2. \A u \in Threads : frame[u].pc \in Leaving => frame'[u] = frame[u]
      BY <1>1, <3>1 DEF Leaving
    <3>3. \A u \in Threads : frame[u].pc \in {"connect", "send"} => u = t
      BY <1>2 DEF Busy
    <3> QED  BY <1>1, <1>3, <2>2, <3>2, <3>3 DEF DumpsKnown, Listening, Alive
  <2>8. HealthEndsForAReason' /\ BeforeAttach' /\ NeverStranded'
    BY <1>1, <2>1, WriteLife DEF waiter, Busy
  <2> QED  BY <2>2, <2>3, <2>5, <2>6, <2>7, <2>8
<1>5. CASE CannotDeliver(t) /\ Goto(t, "failConnect") /\ UNCHANGED index
  <2>1. Only(t) /\ frame'[t].pc = "failConnect"
    BY <1>5, GotoMoves DEF Places
  <2>2. QueueType /\ SameDumps
    BY <1>5, CannotDeliverQueue
  <2>3. UNCHANGED object
    BY <1>1, <1>5 DEF object
  <2> QED  BY <1>1, <1>2, <1>3, <2>1, <2>2, <2>3, GivesUpInv DEF Busy
<1> QED  BY <1>4, <1>5 DEF SendSuccess

-----------------------------------------------------------------------------
(* The theorems.                                                           *)

\* The invariant holds when procdump sends the attach command.
LEMMA InitInv == Init => ProfilerInv
<1> SUFFICES ASSUME Init PROVE ProfilerInv
  OBVIOUS
<1>1. Outside \in Frames /\ Outside.pc = "idle"
  BY ConstantsAssumption DEF Outside, Frames, Places, Names
<1>2. TypeOK
  <2>1. /\ collected \in [1..Filters -> Nat]
        /\ exceptionID \in [1..Filters -> Objects \cup {NoObject}]
        /\ index \in Nat /\ gcDepth \in 0..2 /\ frame \in [Threads -> Frames]
        /\ queue \in Seq(Connections) /\ recorded \in Seq(Names)
    BY <1>1 DEF Init
  <2>2. leaked \in Int /\ leaked <= FdLimit
    BY ConstantsAssumption DEF Init
  <2>3. /\ infos \in BOOLEAN /\ gcGenStarted \in BOOLEAN /\ cancelled \in BOOLEAN
        /\ joined \in BOOLEAN /\ path \in BOOLEAN
    BY DEF Init
  <2> QED  BY <2>1, <2>2, <2>3 DEF Init, TypeOK
<1>3. /\ \A t \in Threads : frame[t].pc = "idle"
      /\ mutex = Nobody /\ Len(queue) = 0 /\ Len(recorded) = 0
      /\ reserved = {} /\ complete = {} /\ profiler = "none" /\ health = "none" /\ ~cancelled
  BY <1>1 DEF Init
<1>4. DumpsSerialised
  <2>1. {frame[t].name : t \in {u \in Threads : frame[u].pc = "generate"}} = {}
    BY <1>3
  <2> QED  BY <1>3, <2>1, ConstantsAssumption DEF DumpsSerialised
<1> QED  BY <1>2, <1>3, <1>4
         DEF ProfilerInv, AnnouncedComplete, AnnouncedOnce, AnnouncesOwn, HealthEndsForAReason,
             BeforeAttach, Idle, NeverStranded, DumpsKnown

\* Every callback of the runtime keeps it.
LEMMA CallbackInv ==
  ASSUME ProfilerInv, NEW t \in Threads, Callback(t)
  PROVE  ProfilerInv'
<1>1. TypeOK
  BY DEF ProfilerInv
<1>2. CASE Throw(t) \/ Skip(t) \/ Match(t) \/ NoMemory(t)
  BY <1>1, <1>2, WalkQuiet, QuietInv
<1>3. CASE GarbageCollectionStarted(t) \/ GarbageCollectionFinished(t)
  BY <1>1, <1>3, CollectionQuiet, QuietInv
<1>4. CASE Load(t) \/ Store(t) \/ Test(t)
  BY <1>1, <1>4, CountQuiet, QuietInv
<1>5. CASE FailConnect(t) \/ FailSend(t) \/ Cleanup(t) \/ Join(t) \/ Unload(t)
  BY <1>1, <1>5, LeaveQuiet, QuietInv
<1>6. CASE CleanupTwice(t) \/ UnloadNull(t)
  BY <1>6, DiesInv DEF CleanupTwice, UnloadNull
<1>7. CASE Reserve(t) \/ Generate(t) \/ Announce(t) \/ SendSuccess(t)
  BY <1>7, ReserveInv, GenerateInv, AnnounceInv, SendSuccessInv
<1> QED  BY <1>2, <1>3, <1>4, <1>5, <1>6, <1>7 DEF Callback

\* So does every step of run_profiler.
LEMMA ReaderInv ==
  ASSUME ProfilerInv, Reader \/ AttachFails \/ Stopped \/ ProcdumpDies
  PROVE  ProfilerInv'
<1>1. CASE Attached
  <2>1. /\ UNCHANGED <<inside, queue, leaked, path, attach, recorded>>
        /\ pd = "attaching" /\ pd' = "loop"
    BY <1>1 DEF Attached, socket
  <2>2. \A d : Known(d)' <=> Known(d)
    BY <2>1 DEF Known
  <2> QED  BY <2>1, <2>2 DEF inside, runtime, object, checker, disk, ProfilerInv, TypeOK,
           DumpsSerialised, AnnouncedComplete, AnnouncedOnce, AnnouncesOwn, HealthEndsForAReason,
           BeforeAttach, NeverStranded, DumpsKnown, Alive, Idle, HealthEnded, Listening
<1>2. CASE \E result \in {"ok", "error", "crashed"} :
             Ended(result) /\ UNCHANGED <<inside, attach, recorded>>
  BY <1>2, EndedInv
<1>3. CASE ReadDump
  BY <1>2, <1>3, ReadInv DEF ReadDump, Reads
<1>4. CASE ReadHealth
  BY <1>2, <1>4, ReadInv DEF ReadHealth, Reads
<1>5. CASE QuitSeen \/ TargetExited \/ ReadFailure \/ ReadTimesOut \/ AttachFails \/ Stopped
           \/ ProcdumpDies
  BY <1>2, <1>5 DEF QuitSeen, TargetExited, ReadFailure, ReadTimesOut, AttachFails, Stopped,
     ProcdumpDies
<1> QED  BY <1>1, <1>3, <1>4, <1>5 DEF Reader

\* ProfilerInv is inductive, so it holds in every state: for any number of threads,
\* filters and descriptors no dump is announced twice or half written, no profiler is
\* left loaded with nobody to unload it, and procdump knows of every dump of a profiler
\* that stays.
THEOREM ProfilerSafe == Spec => []ProfilerInv
<1>1. Init => ProfilerInv
  BY InitInv
<1>2. ProfilerInv /\ [Next]_vars => ProfilerInv'
  <2> SUFFICES ASSUME ProfilerInv, [Next]_vars PROVE ProfilerInv'
    OBVIOUS
  <2>1. CASE \E t \in Threads : Callback(t)
    BY <2>1, CallbackInv
  <2>2. CASE HealthThread
    BY <2>2, HealthInv, DiesInv DEF HealthThread, GiveUpNull
  <2>3. CASE InitializeForAttach \/ Detach \/ Shutdown
    BY <2>3, RuntimeInv
  <2>4. CASE Exit
    BY <2>4, DiesInv DEF Exit
  <2>5. CASE Reader \/ AttachFails \/ Stopped \/ ProcdumpDies
    BY <2>5, ReaderInv
  <2>6. CASE UNCHANGED vars
    BY <2>6 DEF vars, runtime, object, checker, disk, socket, waiter, ProfilerInv, TypeOK,
       DumpsSerialised, AnnouncedComplete, AnnouncedOnce, AnnouncesOwn, HealthEndsForAReason,
       BeforeAttach, NeverStranded, DumpsKnown, Known, Alive, Idle, HealthEnded, Listening
  <2> QED  BY <2>1, <2>2, <2>3, <2>4, <2>5, <2>6 DEF Next
<1> QED  BY <1>1, <1>2, PTL DEF Spec

\* What procdump counted, or will read of, is a complete file.
THEOREM DumpsAnnouncedComplete == Spec => []AnnouncedComplete
<1>1. ProfilerInv => AnnouncedComplete
  BY DEF ProfilerInv
<1> QED  BY <1>1, ProfilerSafe, PTL

\* A loaded profiler always has somebody who will unload it.
THEOREM ProfilerNeverStranded == Spec => []NeverStranded
<1>1. ProfilerInv => NeverStranded
  BY DEF ProfilerInv
<1> QED  BY <1>1, ProfilerSafe, PTL

\* procdump knows of every dump of a profiler that stays.
THEOREM ProfilerDumpsKnown == Spec => []DumpsKnown
<1>1. ProfilerInv => DumpsKnown
  BY DEF ProfilerInv
<1> QED  BY <1>1, ProfilerSafe, PTL
-----------------------------------------------------------------------------
(* The order of the collector's dumps.                                     *)

HasDump(k) == \E d \in complete : d[1] = k
Writing == {"reserve"} \cup Busy

\* The number a collection's dump will have is the next one, or that of an end whose
\* start was dumped.
Numbered(t) ==
  frame[t].pc \in Writing =>
    IF trigger = "threshold" THEN frame[t].name[1] = index + 1
    ELSE frame[t].name[1] = 1 \/ (frame[t].name[1] = 2 /\ HasDump(1))

\* The dump of the start exists, is being written, or the profiler is about to leave.
StartDumped ==
  HasDump(1) \/ \E t \in Threads : frame[t].pc \in {"reserve", "generate"} \cup Leaving

\* One thread at a time runs a callback of the collector, and only its steps.
Alone ==
  /\ \A t, u \in Threads : ~Idle(t) /\ ~Idle(u) => t = u
  /\ \A t \in Threads :
       frame[t].pc \notin {"match", "load", "store", "test"} /\ frame[t].after = "return"

CollectorInv ==
  trigger # "exception" =>
    /\ \A d \in complete : \A k \in 1..(d[1] - 1) : HasDump(k)
    /\ Alive =>
         /\ Alone /\ \A t \in Threads : Numbered(t)
         /\ trigger = "threshold" => \A k \in 1..index : HasDump(k)
         /\ trigger = "generation" /\ gcGenStarted /\ profiler = "loaded" => StartDumped
         /\ attach = "sent" => ~gcGenStarted

\* A step between the begin of a dump and the return of the callback.
Works(t) ==
  /\ Alive /\ Only(t) /\ frame[t].pc # "idle"
  /\ UNCHANGED <<trigger, target, complete, index, gcGenStarted, attach>>
  /\ frame'[t].pc \notin {"match", "load", "store", "test"} /\ frame'[t].after = "return"
  /\ frame'[t].pc \in Writing => frame[t].pc \in Writing /\ frame'[t].name = frame[t].name
  /\ profiler' = "loaded" => profiler = "loaded"
  /\ frame[t].pc \in {"reserve", "generate"} \cup Leaving =>
       frame'[t].pc \in {"reserve", "generate"} \cup Leaving \/ profiler' # "loaded"

\* No dump goes away.
LEMMA DumpsStay ==
  ASSUME complete \subseteq complete'
  PROVE  \A k : HasDump(k) => HasDump(k)'
BY DEF HasDump

\* What Goto and Return leave in the frame.
LEMMA GotoKeeps ==
  ASSUME TypeOK, NEW t \in Threads, NEW l, Goto(t, l)
  PROVE  /\ frame'[t].pc = l /\ frame'[t].name = frame[t].name
         /\ frame'[t].after = frame[t].after
BY DEF TypeOK, Goto, Frames

\* What a return from a callback leaves in the frame.
LEMMA ReturnKeeps ==
  ASSUME TypeOK, NEW t \in Threads, Return(t)
  PROVE  frame'[t].pc = "idle" /\ frame'[t].after = "return"
BY DEF TypeOK, Return, Outside

\* The dump that is begun has the number it was given.
LEMMA BeginNamed ==
  ASSUME TypeOK, NEW t \in Threads, NEW n \in Nat, Begin(t, n)
  PROVE  frame'[t].pc = "reserve" /\ frame'[t].name[1] = n /\ frame'[t].after = frame[t].after
<1>1. PICK d \in DumpName(n) : frame' = [frame EXCEPT ![t].pc = "reserve", ![t].name = d]
  BY DEF Begin
<1>2. d[1] = n
  BY DEF DumpName
<1>3. /\ frame'[t].pc = "reserve" /\ frame'[t].name = d /\ frame'[t].after = frame[t].after
  BY <1>1 DEF TypeOK, Frames
<1> QED  BY <1>2, <1>3

\* Such a step keeps the order.
LEMMA WorksCollector ==
  ASSUME TypeOK, CollectorInv, NEW t \in Threads, trigger # "exception" => Works(t),
         trigger' = trigger
  PROVE  CollectorInv'
<1> SUFFICES ASSUME trigger # "exception" PROVE CollectorInv'
  BY DEF CollectorInv
<1>1. /\ Alive /\ Alive' /\ Only(t) /\ frame[t].pc # "idle"
      /\ UNCHANGED <<trigger, complete, index, gcGenStarted, attach>>
      /\ \A u \in Threads \ {t} : frame'[u] = frame[u]
  BY DEF Works, Only, Alive
<1>2. /\ Alone /\ \A u \in Threads : Numbered(u)
      /\ \A d \in complete : \A k \in 1..(d[1] - 1) : HasDump(k)
      /\ trigger = "threshold" => \A k \in 1..index : HasDump(k)
      /\ trigger = "generation" /\ gcGenStarted /\ profiler = "loaded" => StartDumped
      /\ attach = "sent" => ~gcGenStarted
  BY <1>1 DEF CollectorInv
<1>3. \A k : HasDump(k)' <=> HasDump(k)
  BY <1>1 DEF HasDump
<1>4. \A u \in Threads \ {t} : frame'[u].pc = "idle" /\ frame[u].pc = "idle"
  BY <1>1, <1>2 DEF Alone, Idle
<1>5. Alone'
  BY <1>1, <1>2, <1>4 DEF Alone, Idle, Works
<1>6. \A u \in Threads : Numbered(u)'
  <2>1. Numbered(t)'
    BY <1>1, <1>2, <1>3 DEF Numbered, Works
  <2> QED  BY <1>4, <2>1 DEF Numbered, Writing, Busy
<1>7. trigger = "generation" /\ gcGenStarted /\ profiler' = "loaded" => StartDumped'
  <2> SUFFICES ASSUME trigger = "generation", gcGenStarted, profiler' = "loaded"
               PROVE  StartDumped'
    OBVIOUS
  <2>1. HasDump(1) \/ frame[t].pc \in {"reserve", "generate"} \cup Leaving
    BY <1>2, <1>4 DEF Works, StartDumped, Leaving
  <2> QED  BY <1>3, <2>1 DEF Works, StartDumped
<1> QED  BY <1>1, <1>2, <1>3, <1>5, <1>6, <1>7 DEF CollectorInv

\* So does a step that no callback makes.
LEMMA StillCollector ==
  ASSUME CollectorInv, UNCHANGED <<trigger, target, frame, complete, index>>,
         gcGenStarted' = gcGenStarted, attach' = attach,
         profiler' = "loaded" => profiler = "loaded"
  PROVE  CollectorInv'
<1>1. \A k : HasDump(k)' <=> HasDump(k)
  BY DEF HasDump
<1>2. Alone' <=> Alone
  BY DEF Alone, Idle
<1>3. \A t \in Threads : Numbered(t)' <=> Numbered(t)
  BY <1>1 DEF Numbered
<1>4. StartDumped' <=> StartDumped
  BY <1>1 DEF StartDumped
<1> QED  BY <1>1, <1>2, <1>3, <1>4 DEF CollectorInv, Alive

\* The death of the target ends the callbacks and leaves the files.
LEMMA DiesCollector ==
  ASSUME CollectorInv, NEW how \in {"exited", "crashed"}, Dies(how)
  PROVE  CollectorInv'
<1>1. trigger' = trigger /\ complete' = complete /\ target' # "alive"
  BY DEF Dies, disk
<1>2. \A k : HasDump(k)' <=> HasDump(k)
  BY <1>1 DEF HasDump
<1> QED  BY <1>1, <1>2 DEF CollectorInv, Alive
\* The steps of a callback that only work on its dump, or leave.
LEMMA CallbackWorks ==
  ASSUME ProfilerInv, CollectorInv, trigger # "exception", NEW t \in Threads,
         \/ Skip(t) \/ Match(t) \/ NoMemory(t) \/ Load(t) \/ Store(t) \/ Test(t)
         \/ Reserve(t) \/ Announce(t) \/ FailConnect(t) \/ FailSend(t) \/ Cleanup(t) \/ Join(t)
         \/ Unload(t)
  PROVE  Works(t)
<1>0. TypeOK /\ Alive
  BY DEF ProfilerInv, Skip, Match, NoMemory, Load, Store, Test, Reserve, Announce, FailConnect,
     FailSend, Cleanup, Join, Unload, At
<1>1. frame[t].pc \notin {"match", "load", "store", "test"} /\ frame[t].after = "return"
  BY <1>0 DEF CollectorInv, Alone
<1>2. /\ frame[t].pc \in {"reserve", "connect"} \cup Leaving
      /\ UNCHANGED <<trigger, target, index, gcGenStarted, attach>>
  BY <1>1 DEF Skip, Match, NoMemory, Load, Store, Test, Reserve, Announce, FailConnect,
     FailSend, Cleanup, Join, Unload, At, RequestDetach, runtime, object, waiter, Leaving
<1>3. CASE Reserve(t)
  <2>1. frame[t].pc = "reserve" /\ profiler' = profiler
    BY <1>3 DEF Reserve, At, runtime
  <2>2. complete' = complete
    BY <1>3 DEF Reserve, MayCreate, disk
  <2>3. PICK l \in {"generate", "failConnect"} : Goto(t, l)
    BY <1>3 DEF Reserve
  <2>4. /\ Only(t) /\ frame'[t].pc = l /\ frame'[t].name = frame[t].name
        /\ frame'[t].after = frame[t].after
    BY <1>0, <2>3, GotoMoves, GotoKeeps DEF Places
  <2> QED  BY <1>0, <1>1, <1>2, <2>1, <2>2, <2>4 DEF Works, Writing, Busy, Leaving
<1>4. CASE Announce(t)
  <2>1. frame[t].pc = "connect" /\ profiler' = profiler /\ complete' = complete
    BY <1>4 DEF Announce, At, runtime, disk
  <2>3. PICK l \in {"send", "failConnect"} : Goto(t, l)
    BY <1>4 DEF Announce, NotAnnounced
  <2>4. /\ Only(t) /\ frame'[t].pc = l /\ frame'[t].name = frame[t].name
        /\ frame'[t].after = frame[t].after
    BY <1>0, <2>3, GotoMoves, GotoKeeps DEF Places
  <2> QED  BY <1>0, <1>1, <1>2, <2>1, <2>4 DEF Works, Writing, Busy, Leaving
<1>5. CASE FailConnect(t) \/ FailSend(t) \/ Cleanup(t) \/ Join(t) \/ Unload(t)
  <2>1. Quiet(t)
    BY <1>0, <1>5, LeaveQuiet
  <2>2. /\ frame[t].pc \in Leaving
        /\ frame'[t].pc \notin {"match", "load", "store", "test"} \cup Writing
        /\ frame'[t].after = "return"
    <3>1. CASE FailConnect(t)
      BY <1>0, <3>1 DEF FailConnect, At, TypeOK, Frames, Leaving, Writing, Busy
    <3>2. CASE FailSend(t)
      BY <1>0, <1>1, <3>2, GotoKeeps DEF FailSend, At, Leaving, Writing, Busy
    <3>3. CASE Cleanup(t)
      <4>1. PICK l \in {"unload", "join"} : Goto(t, l)
        BY <3>3 DEF Cleanup
      <4> QED  BY <1>0, <1>1, <3>3, <4>1, GotoKeeps DEF Cleanup, At, Leaving, Writing, Busy
    <3>4. CASE Join(t)
      BY <1>0, <1>1, <3>4, GotoKeeps DEF Join, At, Leaving, Writing, Busy
    <3>5. CASE Unload(t)
      BY <1>0, <1>1, <3>5, ReturnKeeps DEF Unload, At, Leaving, Writing, Busy
    <3> QED  BY <1>5, <3>1, <3>2, <3>3, <3>4, <3>5
  <2>3. /\ Only(t) /\ complete' = complete
        /\ profiler' = "loaded" => profiler = "loaded"
        /\ frame'[t].pc \in Leaving \/ profiler' # "loaded"
    BY <2>1, <2>2 DEF Quiet, Keeps, disk
  <2> QED  BY <1>0, <1>2, <2>2, <2>3 DEF Works, Leaving
<1> QED  BY <1>1, <1>3, <1>4, <1>5 DEF Skip, Match, NoMemory, Load, Store, Test, At

\* A dump that is written has the next number, or the number of an end whose start is there.
LEMMA GenerateCollector ==
  ASSUME ProfilerInv, CollectorInv, NEW t \in Threads, Generate(t)
  PROVE  CollectorInv'
<1> SUFFICES ASSUME trigger # "exception" PROVE CollectorInv'
  BY DEF CollectorInv, Generate
<1> DEFINE d == frame[t].name
<1>0. /\ TypeOK /\ Alive /\ Alive' /\ frame[t].pc = "generate" /\ d \in Names
      /\ UNCHANGED <<trigger, target, profiler, index, gcGenStarted, attach>>
  BY DEF ProfilerInv, Generate, At, runtime, object, waiter, TypeOK, Frames, Alive
<1>1. /\ Alone /\ \A u \in Threads : Numbered(u)
      /\ \A e \in complete : \A k \in 1..(e[1] - 1) : HasDump(k)
      /\ trigger = "threshold" => \A k \in 1..index : HasDump(k)
      /\ trigger = "generation" /\ gcGenStarted /\ profiler = "loaded" => StartDumped
      /\ attach = "sent" => ~gcGenStarted
  BY <1>0 DEF CollectorInv
<1>2. \E l \in {"connect", "failConnect"} : Goto(t, l)
  BY DEF Generate
<1>3. /\ Only(t) /\ frame'[t].pc \in {"connect", "failConnect"} /\ frame'[t].name = d
      /\ frame'[t].after = frame[t].after
  BY <1>0, <1>2, GotoMoves, GotoKeeps DEF Places
<1>4. \A u \in Threads \ {t} : frame'[u] = frame[u] /\ frame[u].pc = "idle"
  BY <1>0, <1>1, <1>3 DEF Only, Alone, Idle
<1>5. CASE Goto(t, "failConnect") /\ complete' = complete
  <2>1. frame'[t].pc = "failConnect"
    BY <1>0, <1>5, GotoKeeps
  <2>2. Works(t)
    BY <1>0, <1>1, <1>3, <1>5, <2>1 DEF Works, Alone, Writing, Busy, Leaving
  <2> QED  BY <1>0, <2>2, WorksCollector
<1>6. CASE Goto(t, "connect") /\ complete' = complete \cup {d}
  <2>1. \A k : HasDump(k) => HasDump(k)'
    BY <1>6, DumpsStay
  <2>2. d[1] = 1 => HasDump(1)'
    BY <1>6 DEF HasDump
  <2>3. IF trigger = "threshold" THEN d[1] = index + 1
        ELSE d[1] = 1 \/ (d[1] = 2 /\ HasDump(1))
    BY <1>0, <1>1 DEF Numbered, Writing, Busy
  <2>4. \A k \in 1..(d[1] - 1) : HasDump(k)
    <3>1. CASE trigger = "threshold"
      <4>1. index \in Nat
        BY <1>0 DEF TypeOK
      <4>2. d[1] = index + 1
        BY <2>3, <3>1
      <4>3. d[1] - 1 = index
        BY <4>1, <4>2
      <4> QED  BY <1>1, <3>1, <4>3
    <3>2. CASE trigger # "threshold"
      <4>1. d[1] = 1 => 1..(d[1] - 1) = {}
        OBVIOUS
      <4>2. d[1] = 2 => 1..(d[1] - 1) = {1}
        OBVIOUS
      <4> QED  BY <2>3, <3>2, <4>1, <4>2
    <3> QED  BY <3>1, <3>2
  <2>5. \A e \in complete' : \A k \in 1..(e[1] - 1) : HasDump(k)'
    BY <1>1, <1>6, <2>1, <2>4
  <2>6. Alone'
    BY <1>0, <1>1, <1>3, <1>4 DEF Alone, Idle
  <2>7. \A u \in Threads : Numbered(u)'
    <3>1. Numbered(t)'
      BY <1>0, <1>3, <2>1, <2>3 DEF Numbered
    <3> QED  BY <1>4, <3>1 DEF Numbered, Writing, Busy
  <2>8. trigger = "generation" => StartDumped'
    BY <2>1, <2>2, <2>3 DEF StartDumped
  <2> QED  BY <1>0, <1>1, <2>1, <2>5, <2>6, <2>7, <2>8 DEF CollectorInv
<1> QED  BY <1>5, <1>6 DEF Generate, Unlinked
\* A dump that is told of lets the next number follow, and it is there.
LEMMA SendCollector ==
  ASSUME ProfilerInv, CollectorInv, NEW t \in Threads, SendSuccess(t)
  PROVE  CollectorInv'
<1> SUFFICES ASSUME trigger # "exception" PROVE CollectorInv'
  BY DEF CollectorInv, SendSuccess
<1> DEFINE d == frame[t].name
<1>0. /\ TypeOK /\ Alive /\ Alive' /\ frame[t].pc = "send" /\ d \in complete
      /\ UNCHANGED <<trigger, target, profiler, gcGenStarted, attach, complete>>
  BY DEF ProfilerInv, AnnouncesOwn, SendSuccess, At, runtime, disk, waiter, Alive
<1>1. /\ Alone /\ \A u \in Threads : Numbered(u)
      /\ \A e \in complete : \A k \in 1..(e[1] - 1) : HasDump(k)
      /\ trigger = "threshold" => \A k \in 1..index : HasDump(k)
      /\ attach = "sent" => ~gcGenStarted
  BY <1>0 DEF CollectorInv
<1>2. \/ Goto(t, "cleanup") /\ trigger \in {"threshold", "generation"}
      \/ Return(t) /\ trigger \in {"threshold", "generation"}
      \/ Goto(t, "failConnect") /\ UNCHANGED index
  BY DEF SendSuccess, Written
<1>3. /\ Only(t) /\ frame'[t].pc \in {"cleanup", "idle", "failConnect"}
      /\ frame'[t].after = "return"
  BY <1>0, <1>1, <1>2, GotoMoves, GotoKeeps, ReturnMoves, ReturnKeeps DEF Places, Alone
<1>4. CASE index' = index
  <2>1. Works(t)
    BY <1>0, <1>3, <1>4 DEF Works, Writing, Busy, Leaving
  <2> QED  BY <1>0, <2>1, WorksCollector
<1>5. CASE trigger = "threshold" /\ index' = index + 1
  <2>1. \A u \in Threads \ {t} : frame'[u] = frame[u] /\ frame[u].pc = "idle"
    BY <1>0, <1>1, <1>3 DEF Only, Alone, Idle
  <2>2. \A k : HasDump(k)' <=> HasDump(k)
    BY <1>0 DEF HasDump
  <2>3. d[1] = index + 1 /\ index \in Nat
    BY <1>0, <1>1, <1>5 DEF Numbered, Writing, Busy, TypeOK
  <2>4. \A k \in 1..(index + 1) : HasDump(k)
    <3>1. HasDump(index + 1)
      BY <1>0, <2>3 DEF HasDump
    <3>2. \A k \in 1..(index + 1) : k \in 1..index \/ k = index + 1
      BY <2>3
    <3> QED  BY <1>1, <1>5, <3>1, <3>2
  <2>5. Alone'
    BY <1>0, <1>1, <1>3, <2>1 DEF Alone, Idle
  <2>6. \A u \in Threads : Numbered(u)'
    BY <1>3, <2>1 DEF Numbered, Writing, Busy
  <2> QED  BY <1>0, <1>1, <1>5, <2>2, <2>4, <2>5, <2>6 DEF CollectorInv
<1> QED  BY <1>4, <1>5 DEF SendSuccess, Written

\* A collection's callback begins with the right number.
LEMMA BeginCollector ==
  ASSUME ProfilerInv, CollectorInv, trigger # "exception", NEW t \in Threads, Alive,
         \A u \in Threads : Idle(u), NEW n \in Nat, Begin(t, n), profiler = "loaded",
         IF trigger = "threshold" THEN n = index + 1 ELSE n = 1 \/ (n = 2 /\ HasDump(1)),
         UNCHANGED <<trigger, target, profiler, index, complete, attach>>
  PROVE  CollectorInv'
<1>0. TypeOK /\ Alive' /\ attach # "sent"
  BY DEF ProfilerInv, BeforeAttach, Alive
<1>1. /\ Alone
      /\ \A e \in complete : \A k \in 1..(e[1] - 1) : HasDump(k)
      /\ trigger = "threshold" => \A k \in 1..index : HasDump(k)
  BY <1>0 DEF CollectorInv
<1>2. /\ Only(t) /\ frame'[t].pc = "reserve" /\ frame'[t].name[1] = n
      /\ frame'[t].after = frame[t].after
  BY <1>0, BeginMoves, BeginNamed
<1>3. \A u \in Threads \ {t} : frame'[u] = frame[u] /\ frame[u].pc = "idle"
  BY <1>2 DEF Only, Idle
<1>4. \A k : HasDump(k)' <=> HasDump(k)
  BY DEF HasDump
<1>5. Alone'
  BY <1>1, <1>2, <1>3 DEF Alone, Idle
<1>6. \A u \in Threads : Numbered(u)'
  <2>1. Numbered(t)'
    BY <1>2, <1>4 DEF Numbered
  <2> QED  BY <1>3, <2>1 DEF Numbered, Writing, Busy
<1>7. StartDumped'
  BY <1>2 DEF StartDumped
<1> QED  BY <1>0, <1>1, <1>4, <1>5, <1>6, <1>7 DEF CollectorInv

\* The start and the end of a collection keep the order.
LEMMA CollectionCollector ==
  ASSUME ProfilerInv, CollectorInv, NEW t \in Threads,
         GarbageCollectionStarted(t) \/ GarbageCollectionFinished(t)
  PROVE  CollectorInv'
<1>0. /\ TypeOK /\ Alive /\ Alive' /\ trigger # "exception" /\ profiler = "loaded"
      /\ \A u \in Threads : Idle(u) /\ frame[u].pc = "idle"
      /\ UNCHANGED <<trigger, target, profiler, index, complete, attach>>
  BY DEF ProfilerInv, GarbageCollectionStarted, GarbageCollectionFinished, Collecting, Called, At,
     Alive, Idle, disk, waiter
<1>1. attach # "sent"
  BY <1>0 DEF ProfilerInv, BeforeAttach
<1>2. trigger = "generation" /\ gcGenStarted => HasDump(1)
  BY <1>0 DEF CollectorInv, StartDumped, Leaving
<1>3. CASE frame' = frame /\ (gcGenStarted' = gcGenStarted \/ trigger = "threshold"
                                \/ gcGenStarted' = FALSE)
  <2>1. \A k : HasDump(k)' <=> HasDump(k)
    BY <1>0 DEF HasDump
  <2>2. (Alone' <=> Alone) /\ (StartDumped' <=> StartDumped)
    BY <1>3, <2>1 DEF Alone, Idle, StartDumped
  <2>3. \A u \in Threads : Numbered(u)' <=> Numbered(u)
    BY <1>0, <1>3, <2>1 DEF Numbered
  <2>4. trigger = "generation" /\ gcGenStarted' => gcGenStarted
    BY <1>3
  <2> QED  BY <1>0, <1>1, <2>1, <2>2, <2>3, <2>4 DEF CollectorInv
<1>4. CASE trigger = "generation" /\ Begin(t, 1)
  BY <1>0, <1>4, BeginCollector
<1>5. CASE gcGenStarted /\ Begin(t, FinishedCount)
  <2> DEFINE n == FinishedCount
  <2>1. n \in Nat /\ IF trigger = "threshold" THEN n = index + 1 ELSE n = 2
    BY <1>0 DEF FinishedCount, TypeOK
  <2>2. trigger # "threshold" => trigger = "generation"
    BY <1>0 DEF TypeOK, Triggers
  <2>3. Begin(t, n)
    BY <1>5
  <2> HIDE DEF n
  <2>4. IF trigger = "threshold" THEN n = index + 1 ELSE n = 1 \/ (n = 2 /\ HasDump(1))
    BY <1>2, <1>5, <2>1, <2>2
  <2> QED  BY <1>0, <2>1, <2>3, <2>4, BeginCollector
<1> QED  BY <1>0, <1>3, <1>4, <1>5
         DEF GarbageCollectionStarted, GarbageCollectionFinished, TypeOK, Triggers

\* The numbers in the names of the collector's dumps tell their order.
THEOREM ProfilerLowerFirst == Spec => []LowerFirst
<1>1. Init => CollectorInv
  <2> SUFFICES ASSUME Init PROVE CollectorInv
    OBVIOUS
  <2>1. /\ \A t \in Threads : frame[t].pc = "idle" /\ frame[t].after = "return"
        /\ complete = {} /\ index = 0 /\ gcGenStarted = FALSE
    BY DEF Init, Outside
  <2>2. Alone /\ \A t \in Threads : Numbered(t)
    BY <2>1 DEF Alone, Idle, Numbered, Writing, Busy
  <2>3. 1..index = {}
    BY <2>1
  <2> QED  BY <2>1, <2>2, <2>3 DEF CollectorInv
<1>2. ProfilerInv /\ CollectorInv /\ [Next]_vars => CollectorInv'
  <2> SUFFICES ASSUME ProfilerInv, CollectorInv, [Next]_vars PROVE CollectorInv'
    OBVIOUS
  <2>0. TypeOK
    BY DEF ProfilerInv
  <2>1. ASSUME NEW t \in Threads, Callback(t) PROVE CollectorInv'
    <3>1. CASE \/ Skip(t) \/ Match(t) \/ NoMemory(t) \/ Load(t) \/ Store(t) \/ Test(t)
               \/ Reserve(t) \/ Announce(t) \/ FailConnect(t) \/ FailSend(t) \/ Cleanup(t)
               \/ Join(t) \/ Unload(t)
      <4>1. trigger' = trigger
        BY <3>1 DEF Skip, Match, NoMemory, Load, Store, Test, Reserve, Announce, FailConnect,
           FailSend, Cleanup, Join, Unload
      <4> QED  BY <2>0, <3>1, <4>1, CallbackWorks, WorksCollector
    <3>2. CASE Throw(t)
      BY <3>2 DEF Throw, CollectorInv
    <3>3. CASE GarbageCollectionStarted(t) \/ GarbageCollectionFinished(t)
      BY <3>3, CollectionCollector
    <3>4. CASE Generate(t) \/ SendSuccess(t)
      BY <3>4, GenerateCollector, SendCollector
    <3>5. CASE CleanupTwice(t) \/ UnloadNull(t)
      BY <3>5, DiesCollector DEF CleanupTwice, UnloadNull
    <3> QED  BY <2>1, <3>1, <3>2, <3>3, <3>4, <3>5 DEF Callback
  <2>2. CASE Ping \/ SendPing \/ Wake \/ Killed \/ GiveUp
    <3>1. /\ Still /\ attach' = attach /\ UNCHANGED object
          /\ profiler' = "loaded" => profiler = "loaded"
      BY <2>0, <2>2, HealthStill DEF Ping, SendPing, Wake, Killed, GiveUp, outside
    <3> QED  BY <3>1, StillCollector DEF Still, disk, object
  <2>3. CASE InitializeForAttach
    <3>1. /\ UNCHANGED <<trigger, target, frame, complete, index, gcGenStarted>>
          /\ attach = "sent" /\ attach' # "sent"
      BY <2>3 DEF InitializeForAttach, object, disk
    <3>2. \A k : HasDump(k)' <=> HasDump(k)
      BY <3>1 DEF HasDump
    <3>3. Alone' <=> Alone
      BY <3>1 DEF Alone, Idle
    <3>4. \A t \in Threads : Numbered(t)' <=> Numbered(t)
      BY <3>1, <3>2 DEF Numbered
    <3> QED  BY <3>1, <3>2, <3>3, <3>4 DEF CollectorInv, Alive
  <2>4. CASE Detach \/ Shutdown
    BY <2>4, StillCollector DEF Detach, Shutdown, outside, object, disk, waiter
  <2>5. CASE Exit \/ GiveUpNull
    BY <2>5, DiesCollector DEF Exit, GiveUpNull
  <2>6. CASE Reader \/ AttachFails \/ Stopped \/ ProcdumpDies
    <3>1. UNCHANGED inside /\ attach' = attach
      BY <2>6 DEF Reader, Attached, QuitSeen, TargetExited, ReadDump, ReadHealth, ReadFailure,
         ReadTimesOut, AttachFails, Stopped, ProcdumpDies
    <3> QED  BY <3>1, StillCollector DEF inside, runtime, object, disk
  <2>7. CASE UNCHANGED vars
    BY <2>7, StillCollector DEF vars, runtime, object, disk, waiter
  <2> QED  BY <2>1, <2>2, <2>3, <2>4, <2>5, <2>6, <2>7 DEF Next, HealthThread
<1>3. CollectorInv => LowerFirst
  BY DEF CollectorInv, LowerFirst, HasDump
<1> QED  BY <1>1, <1>2, <1>3, ProfilerSafe, PTL DEF Spec
=============================================================================
