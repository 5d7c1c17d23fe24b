------------------------------ MODULE Restrack ------------------------------
(***************************************************************************)
(* Leak tracking (-restrack): the eBPF probes on the target's allocator,   *)
(* mmap and munmap (native/ebpf/procdump_ebpf.bpf.c) and the collector     *)
(* thread of procdump that keeps the map of outstanding allocations        *)
(* (restrack.rs).                                                          *)
(*                                                                         *)
(* A call of the target is seen twice: the entry probe leaves an event in  *)
(* argsHashMap under the thread's id, the exit probe completes and sends   *)
(* it.  Between the two the C library works, and may call probed functions *)
(* itself: mmap and munmap for large blocks, for arenas and to trim them,  *)
(* malloc and free for a realloc.  They use the same entry of the map, so  *)
(* the event of the call around them is lost.  Events travel through a     *)
(* ring buffer that drops them when full.                                  *)
(***************************************************************************)
EXTENDS Integers, Sequences

CONSTANTS
  Threads,   \* threads of the target
  Blocks,    \* what the allocator and mmap hand out (external)
  RingSize,  \* events that fit in ringBuffer
  CallBound  \* bound: probed calls, those of the library included

NoBlock == "none"
ASSUME RestrackAssumption == RingSize \in Nat \ {0} /\ CallBound \in Nat /\ NoBlock \notin Blocks

\* A block of the allocator has the address the program sees, a mapping its first
\* address, and what is left of a mapping whose front was unmapped an address of its own.
Ptr(b) == <<"ptr", b>>
Map(b) == <<"map", b>>
Rest(b) == <<"rest", b>>
\* No address, and every address that no allocation begins at.
Null == <<"null">>
NoEvent == [type |-> "none", addr |-> Null, prev |-> Null, zero |-> FALSE]
Event(type, addr, prev, zero) == [type |-> type, addr |-> addr, prev |-> prev, zero |-> zero]
\* What the entry probes store: for malloc, calloc and mmap, for realloc, and for a free.
Plain == Event("alloc", Null, Null, FALSE)
Moving(b, zero) == Event("alloc", Null, Ptr(b), zero)
Freeing(addr) == Event("free", addr, Null, FALSE)

\* next: where a nested mmap or munmap returns to.  arg: the block the call was given and
\* has yet to free.  at: the block it obtained, or the mapping it removes.  zero: a size of
\* 0 was computed.  untold: its entry probe stored nothing, or its event was replaced.
Idle == [pc |-> "idle", next |-> "idle", arg |-> NoBlock, at |-> NoBlock, zero |-> FALSE,
         untold |-> FALSE]

VARIABLES
  heap,        \* block -> "free", "small", "mapped", "region": a mapping that is no block
               \* of the allocator's, or "rest": what is left of one
  call,        \* the call each thread is in
  calls,       \* probed calls made so far
  args,        \* argsHashMap
  ring,        \* ringBuffer
  lost,        \* eventStats is above zero
  tracked,     \* the keys of the Allocations map
  incomplete,  \* its warning flag
  collector,   \* collect_events: "poll", "check" or "ended"
  missing,     \* history: live addresses the probes cannot tell of
  stale        \* history: dead addresses the probes cannot tell of

target == <<heap, call, calls>>
kernel == <<args, ring, lost>>
reader == <<tracked, incomplete, collector>>
history == <<missing, stale>>
vars == <<target, kernel, reader, history>>

Init ==
  /\ heap = [b \in Blocks |-> "free"] /\ call = [t \in Threads |-> Idle] /\ calls = 0
  /\ args = [t \in Threads |-> NoEvent] /\ ring = <<>> /\ lost = FALSE
  /\ tracked = {} /\ incomplete = FALSE /\ collector = "poll"
  /\ missing = {} /\ stale = {}

\* What an outstanding block is known by.
Key(b) == IF heap[b] = "small" THEN Ptr(b) ELSE IF heap[b] = "rest" THEN Rest(b) ELSE Map(b)
Outstanding == {Key(b) : b \in {c \in Blocks : heap[c] # "free"}}

-----------------------------------------------------------------------------
(* Entry probes: ResourceAllocHelper and ResourceFreeHelper.               *)

MutDiscardEvent(t) == UNCHANGED args
DiscardEvent(t) == args' = [args EXCEPT ![t] = NoEvent]

\* The event replaces whatever the thread has in argsHashMap.  Nothing is stored when
\* CheckSampleRate leaves an allocation out, its size is refused or the update fails: the
\* exit probe then sends the event of the call around this one, if there is one, and the
\* free in that is told too early; a free's exit tells an allocation at address 0.
Probe(t, event, untold) ==
  IF untold
    THEN /\ UNCHANGED args
         /\ missing' = missing \cup ({args[t].addr, args[t].prev} \cap Outstanding)
         /\ stale' = IF event.type = "free" /\ args[t].type = "alloc" THEN stale \cup {Null}
                     ELSE stale
    ELSE args' = [args EXCEPT ![t] = event] /\ UNCHANGED history

\* The probes see one more call.
Counted == calls < CallBound /\ calls' = calls + 1

\* A block no call is working on.
Usable(b, states) ==
  /\ b \in Blocks /\ heap[b] \in states
  /\ \A t \in Threads : b \notin {call[t].arg, call[t].at}
Enter(t, pc, arg, at, zero, untold) ==
  /\ call[t] = Idle /\ Counted
  /\ call' = [call EXCEPT ![t] = [pc |-> pc, next |-> "idle", arg |-> arg, at |-> at,
                                  zero |-> zero, untold |-> untold]]

\* malloc, calloc and realloc(NULL, n).
MallocEnter(t, untold) ==
  /\ Enter(t, "alloc", NoBlock, NoBlock, FALSE, untold) /\ Probe(t, Plain, untold)
  /\ UNCHANGED <<heap, ring, lost, reader>>

\* realloc and reallocarray: previousAddress is what makes the old block's free known.
ReallocEnter(t, b, zero, untold) ==
  /\ Usable(b, {"small", "mapped"})
  /\ Enter(t, "realloc", b, NoBlock, zero, untold) /\ Probe(t, Moving(b, zero), untold)
  /\ UNCHANGED <<heap, ring, lost, reader>>

\* free, of NULL too.
FreeEnter(t, b, untold) ==
  /\ b # NoBlock => Usable(b, {"small", "mapped"})
  /\ Enter(t, "free", b, NoBlock, FALSE, untold)
  /\ Probe(t, Freeing(IF b = NoBlock THEN Null ELSE Ptr(b)), untold)
  /\ UNCHANGED <<heap, ring, lost, reader>>

\* The program's own mmap.
MmapEnter(t, untold) ==
  /\ Enter(t, "mmap", NoBlock, NoBlock, FALSE, untold) /\ Probe(t, Plain, untold)
  /\ UNCHANGED <<heap, ring, lost, reader>>

\* Its munmap, from the first address of a mapping or from any other.
FirstAddress(b) == IF b = NoBlock THEN Null ELSE Map(b)
MunmapEnter(t, b, untold) ==
  /\ b # NoBlock => Usable(b, {"region"})
  /\ Enter(t, "munmap", NoBlock, b, FALSE, untold) /\ Probe(t, Freeing(FirstAddress(b)), untold)
  /\ UNCHANGED <<heap, ring, lost, reader>>

-----------------------------------------------------------------------------
(* The C library and the kernel (external), and the probes on what the     *)
(* library calls.                                                          *)

\* An address of which a call has yet to tell that it was freed: the free will be told
\* after the allocation that reuses it, unless that call loses its event.
Mentioned(a) == \E u \in Threads : a \in {args[u].addr, args[u].prev}

\* What the call of t makes outstanding, what it frees, and what it frees without a
\* probe that could see it.  The event of the call around an untold one may serve.
Changes(t, given, taken, unseen) ==
  /\ missing' = (missing \ (taken \cup unseen)) \cup
                   {a \in given : (call[t].untold /\ args[t].type # "alloc") \/ Mentioned(a)}
  /\ stale' = (stale \ given) \cup unseen \cup {a \in taken : call[t].untold}
\* mremap is not probed.
Moves(from, to) ==
  /\ missing' = (missing \ {Map(from)}) \cup {Map(to)}
  /\ stale' = (stale \ {Map(to)}) \cup {Map(from)}

Becomes(t, pc, arg, at) == call' = [call EXCEPT ![t].pc = pc, ![t].arg = arg, ![t].at = at]

AllocFails(t) ==
  /\ call[t].pc \in {"alloc", "realloc"} /\ ~call[t].zero
  /\ Becomes(t, "allocated", call[t].arg, NoBlock)
  /\ UNCHANGED <<calls, heap, kernel, reader, history>>
\* CheckedArraySize takes a wrapped product for 0 where reallocarray sees the overflow: the
\* exit probe tells the free of a block that is still there.
ReallocWraps(t) ==
  /\ call[t].pc = "realloc" /\ call[t].zero
  /\ Becomes(t, "allocated", call[t].arg, NoBlock)
  /\ missing' = missing \cup ({args[t].prev} \cap Outstanding)
  /\ UNCHANGED <<calls, heap, kernel, reader, stale>>

Alloc(t, b) ==
  /\ call[t].pc = "alloc" /\ heap[b] = "free"
  /\ heap' = [heap EXCEPT ![b] = "small"] /\ Becomes(t, "allocated", call[t].arg, b)
  /\ Changes(t, {Ptr(b)}, {}, {})
  /\ UNCHANGED <<calls, kernel, reader>>

\* A system call inside a call of the allocator.
Nested(t, pc, next, arg, at, untold) ==
  /\ Counted
  /\ call' = [call EXCEPT ![t] = [@ EXCEPT !.pc = pc, !.next = next, !.arg = arg, !.at = at,
                                           !.untold = untold]]
InLibrary(t) == call[t].pc \in {"alloc", "realloc", "free"}
\* A block so large that it is a mapping of its own.
LargeBlock(t, untold) ==
  /\ call[t].pc \in {"alloc", "realloc"} /\ ~call[t].zero
  /\ call[t].pc = "realloc" => heap[call[t].arg] = "small"
  /\ Nested(t, "mmap", "allocated", call[t].arg, NoBlock, untold) /\ Probe(t, Plain, untold)
  /\ UNCHANGED <<heap, ring, lost, reader>>
\* An arena: in malloc, or in the first call of a thread whatever it is.
MapArena(t, untold) ==
  /\ InLibrary(t)
  /\ Nested(t, "mmap", call[t].pc, call[t].arg, NoBlock, untold) /\ Probe(t, Plain, untold)
  /\ UNCHANGED <<heap, ring, lost, reader>>
\* The slack beside a new arena, or the end of one that shrinks.
UnmapArena(t, b, untold) ==
  /\ InLibrary(t) /\ (b # NoBlock => Usable(b, {"region"}))
  /\ Nested(t, "munmap", call[t].pc, call[t].arg, b, untold)
  /\ Probe(t, Freeing(FirstAddress(b)), untold)
  /\ UNCHANGED <<heap, ring, lost, reader>>
FreeLarge(t, untold) ==
  /\ call[t].pc = "free" /\ call[t].arg # NoBlock /\ heap[call[t].arg] = "mapped"
  /\ Nested(t, "munmap", "freed", NoBlock, call[t].arg, untold)
  /\ Probe(t, Freeing(Map(call[t].arg)), untold)
  /\ UNCHANGED <<heap, ring, lost, reader>>

\* What a mapping may replace (MAP_FIXED), or a munmap reach over.
Overlap(t, over) ==
  /\ \A c \in over : Usable(c, {"region", "rest"})
  /\ call[t].next # "idle" => over = {}
Mapping(over) == {Map(c) : c \in {d \in over : heap[d] = "region"}}
Mmap(t, b, over) ==
  /\ call[t].pc = "mmap" /\ Overlap(t, over) /\ (b \notin over => heap[b] = "free")
  /\ heap' = [c \in Blocks |->
               IF c = b THEN IF call[t].next = "allocated" THEN "mapped" ELSE "region"
               ELSE IF c \in over THEN "free" ELSE heap[c]]
  /\ Becomes(t, "mmapped", call[t].arg, b)
  /\ Changes(t, {Map(b)}, {}, Mapping(over \ {b}))
  /\ UNCHANGED <<calls, kernel, reader>>

\* munmap removes the mapping it was given, only the front of it, or more than that.
Munmap(t, over, front) ==
  LET b == call[t].at
      whole == IF b = NoBlock \/ front THEN over ELSE over \cup {b}
  IN  /\ call[t].pc = "munmap" /\ Overlap(t, over)
      /\ front => b # NoBlock /\ over = {} /\ call[t].next # "freed"
      /\ heap' = [c \in Blocks |-> IF c \in whole THEN "free"
                                   ELSE IF front /\ c = b THEN "rest" ELSE heap[c]]
      /\ Becomes(t, "munmapped", call[t].arg, NoBlock)
      /\ Changes(t, {}, IF b = NoBlock THEN {} ELSE {Map(b)}, Mapping(over))
      /\ UNCHANGED <<calls, kernel, reader>>

\* Back to where the program, or the library, made the system call.
Resume(t, to, at) ==
  call' = [call EXCEPT ![t] = IF to = "idle" THEN Idle
                              ELSE [call[t] EXCEPT !.pc = to, !.next = "idle", !.at = at,
                                                   !.untold = TRUE]]
\* sys_mmap_exit after -1, sys_munmap_exit after an error: DiscardEvent.  A block that gets
\* no mapping is looked for in the heap.
MmapFails(t) ==
  LET next == call[t].next
  IN  /\ call[t].pc = "mmap" /\ DiscardEvent(t)
      /\ Resume(t, IF next = "allocated" THEN "alloc" ELSE next, NoBlock)
      /\ UNCHANGED <<calls, heap, ring, lost, reader, history>>
\* The mapping of a large block stays, and is no block any more.
MunmapFails(t) ==
  /\ call[t].pc = "munmap" /\ Resume(t, call[t].next, NoBlock) /\ DiscardEvent(t)
  /\ heap' = IF call[t].next = "freed" THEN [heap EXCEPT ![call[t].at] = "region"] ELSE heap
  /\ UNCHANGED <<calls, ring, lost, reader, history>>
\* The program moves a mapping.
Mremap(t, b, c) ==
  /\ call[t] = Idle /\ Counted
  /\ Usable(b, {"region"}) /\ heap[c] = "free"
  /\ heap' = [heap EXCEPT ![b] = "free", ![c] = "region"]
  /\ Moves(b, c)
  /\ UNCHANGED <<call, kernel, reader>>

\* realloc in place, or to another block, or to nothing.
ReallocInPlace(t) ==
  /\ call[t].pc = "realloc" /\ ~call[t].zero /\ heap[call[t].arg] = "small"
  /\ Becomes(t, "allocated", NoBlock, call[t].arg)
  /\ UNCHANGED <<calls, heap, kernel, reader, history>>
ReallocMoves(t, b) ==
  /\ call[t].pc = "realloc" /\ ~call[t].zero /\ heap[call[t].arg] = "small" /\ heap[b] = "free"
  /\ heap' = [heap EXCEPT ![b] = "small", ![call[t].arg] = "free"]
  /\ Becomes(t, "allocated", NoBlock, b)
  /\ Changes(t, {Ptr(b)}, {Ptr(call[t].arg)}, {})
  /\ UNCHANGED <<calls, kernel, reader>>
ReallocFrees(t) ==
  /\ call[t].pc = "realloc" /\ call[t].zero /\ heap[call[t].arg] = "small"
  /\ heap' = [heap EXCEPT ![call[t].arg] = "free"] /\ Becomes(t, "allocated", NoBlock, NoBlock)
  /\ Changes(t, {}, {Ptr(call[t].arg)}, {})
  /\ UNCHANGED <<calls, kernel, reader>>
\* glibc's realloc(p, 0) calls free, which is probed; the exit probe of realloc then
\* finds nothing to send and is left out.
ReallocCallsFree(t, untold) ==
  /\ call[t].pc = "realloc" /\ call[t].zero
  /\ call' = [call EXCEPT ![t].pc = "free", ![t].zero = FALSE, ![t].untold = untold]
  /\ Counted /\ Probe(t, Freeing(Ptr(call[t].arg)), untold)
  /\ UNCHANGED <<heap, ring, lost, reader>>
\* When mremap or its arena has no room it calls malloc, which is probed, copies and frees.
ReallocCallsMalloc(t, untold) ==
  /\ call[t].pc = "realloc" /\ ~call[t].zero
  /\ call' = [call EXCEPT ![t].pc = "alloc", ![t].untold = untold]
  /\ Counted /\ Probe(t, Plain, untold)
  /\ UNCHANGED <<heap, ring, lost, reader>>
\* A mapped block is moved with mremap: the exit probe tells of the pointer of a block
\* that is known, and freed, by its mapping.
ReallocRemaps(t, b) ==
  LET a == call[t].arg
  IN  /\ call[t].pc = "realloc" /\ ~call[t].zero /\ heap[a] = "mapped"
      /\ b = a \/ heap[b] = "free"
      /\ heap' = [heap EXCEPT ![a] = "free", ![b] = "mapped"] /\ Becomes(t, "allocated", NoBlock, b)
      /\ missing' = IF b = a THEN missing ELSE (missing \ {Map(a)}) \cup {Map(b)}
      /\ stale' = (stale \cup {Ptr(b), Map(a)}) \ {Map(b)}
      /\ UNCHANGED <<calls, kernel, reader>>

Free(t) ==
  LET a == call[t].arg
  IN  /\ call[t].pc = "free" /\ (a # NoBlock => heap[a] = "small")
      /\ heap' = [b \in Blocks |-> IF b = a THEN "free" ELSE heap[b]]
      /\ Becomes(t, "freed", NoBlock, NoBlock)
      /\ Changes(t, {}, IF a = NoBlock THEN {} ELSE {Ptr(a)}, {})
      /\ UNCHANGED <<calls, kernel, reader>>

-----------------------------------------------------------------------------
(* Exit probes: SendEvent.                                                 *)

Room(r) == Len(r) < RingSize
Put(r, type, addr) == IF Room(r) THEN Append(r, [type |-> type, addr |-> addr]) ELSE r

MutMoved(e, alloc) == FALSE
MutMovedInPlace(e, alloc) == e.prev # Null
\* The old block of a realloc that moved.
Moved(e, alloc) == e.prev \notin {Null, alloc}

\* Nothing to send: no event, or an allocation that failed.
Silent(e, alloc, freeOp) == e = NoEvent \/ (~freeOp /\ alloc = Null /\ ~(e.prev # Null /\ e.zero))
\* realloc(p, 0): the free of p is sent, and nobody looks whether it was.
FreedByRealloc(e, alloc, freeOp) == e # NoEvent /\ ~freeOp /\ alloc = Null /\ e.prev # Null /\ e.zero

\* RecordLostEvent
Dropped(failed) == lost \/ failed

SendEvent(t, alloc, freeOp) ==
  LET e == args[t]
      a == IF freeOp THEN e.addr ELSE alloc
      sent == Put(ring, e.type, a)
  IN  /\ DiscardEvent(t)
      /\ \/ Silent(e, alloc, freeOp) /\ UNCHANGED <<ring, lost, stale>>
         \/ /\ FreedByRealloc(e, alloc, freeOp)
            /\ ring' = Put(ring, "free", e.prev)
            /\ stale' = IF Room(ring) THEN stale ELSE stale \cup ({e.prev} \ Outstanding)
            /\ UNCHANGED lost
         \/ /\ ~Silent(e, alloc, freeOp) /\ ~FreedByRealloc(e, alloc, freeOp)
            /\ IF Room(ring) /\ ~freeOp /\ Moved(e, alloc)
                 THEN ring' = Put(sent, "free", e.prev) /\ lost' = Dropped(~Room(sent))
                 ELSE ring' = sent /\ lost' = Dropped(~Room(ring))
            /\ UNCHANGED stale

MmapExit(t) ==
  /\ call[t].pc = "mmapped" /\ SendEvent(t, Map(call[t].at), FALSE)
  /\ Resume(t, call[t].next, IF call[t].next = "allocated" THEN call[t].at ELSE NoBlock)
  /\ UNCHANGED <<calls, heap, reader, missing>>
MunmapExit(t) ==
  /\ call[t].pc = "munmapped" /\ SendEvent(t, Null, TRUE) /\ Resume(t, call[t].next, NoBlock)
  /\ UNCHANGED <<calls, heap, reader, missing>>
\* A realloc that called malloc, or outgrew the heap, has the old block still to free.
AllocExit(t) ==
  LET c == call[t]
  IN  /\ c.pc = "allocated" /\ SendEvent(t, IF c.at = NoBlock THEN Null ELSE Ptr(c.at), FALSE)
      /\ call' = [call EXCEPT ![t] =
                    IF NoBlock \in {c.arg, c.at} THEN Idle
                    ELSE [Idle EXCEPT !.pc = "free", !.arg = c.arg, !.untold = TRUE]]
      /\ UNCHANGED <<calls, heap, reader, missing>>
FreeExit(t) ==
  /\ call[t].pc = "freed" /\ SendEvent(t, Null, TRUE)
  /\ call' = [call EXCEPT ![t] = Idle]
  /\ UNCHANGED <<calls, heap, reader, missing>>

-----------------------------------------------------------------------------
(* collect_events and handle_event.                                        *)

Handled(e) == IF e.type = "alloc" THEN tracked \cup {e.addr} ELSE tracked \ {e.addr}

\* ring.poll goes on as long as it finds another event.
Consume ==
  /\ collector = "poll" /\ ring # <<>>
  /\ tracked' = Handled(Head(ring)) /\ ring' = Tail(ring)
  /\ collector' = IF Tail(ring) = <<>> THEN "check" ELSE "poll"
  /\ UNCHANGED <<target, args, lost, incomplete, history>>
PollTimesOut ==
  /\ collector = "poll" /\ ring = <<>> /\ collector' = "check"
  /\ UNCHANGED <<target, kernel, tracked, incomplete, history>>
MutFlag == incomplete
Flag == incomplete \/ lost
CheckLost ==
  /\ collector = "check" /\ incomplete' = Flag
  /\ collector' = "poll"
  /\ UNCHANGED <<target, kernel, tracked, history>>
\* The loop sees the stop, or the poll or the lookup fails.
Stop ==
  /\ collector # "ended" /\ collector' = "ended"
  /\ UNCHANGED <<target, kernel, tracked, incomplete, history>>

Entry(t) ==
  \E untold \in BOOLEAN :
    \/ MallocEnter(t, untold) \/ MmapEnter(t, untold)
    \/ \E b \in Blocks, zero \in BOOLEAN : ReallocEnter(t, b, zero, untold)
    \/ \E b \in Blocks \cup {NoBlock} : FreeEnter(t, b, untold) \/ MunmapEnter(t, b, untold)
NestedEntry(t) ==
  \E untold \in BOOLEAN :
    \/ LargeBlock(t, untold) \/ MapArena(t, untold) \/ FreeLarge(t, untold)
    \/ ReallocCallsFree(t, untold) \/ ReallocCallsMalloc(t, untold)
    \/ \E b \in Blocks \cup {NoBlock} : UnmapArena(t, b, untold)
Library(t) ==
  \/ AllocFails(t) \/ ReallocWraps(t) \/ ReallocInPlace(t) \/ ReallocFrees(t) \/ Free(t)
  \/ \E b \in Blocks : Alloc(t, b) \/ ReallocMoves(t, b) \/ ReallocRemaps(t, b)
Kernel(t) ==
  \/ MmapFails(t) \/ MunmapFails(t)
  \/ \E over \in SUBSET Blocks :
       \/ \E b \in Blocks : Mmap(t, b, over)
       \/ \E front \in BOOLEAN : Munmap(t, over, front)
  \/ \E b, c \in Blocks : Mremap(t, b, c)
ExitProbe(t) == MmapExit(t) \/ AllocExit(t) \/ MunmapExit(t) \/ FreeExit(t)
Collector == Consume \/ PollTimesOut \/ CheckLost

\* The probes are attached, and their maps live, as long as collect_events runs.
Target ==
  /\ collector # "ended"
  /\ \E t \in Threads : Entry(t) \/ NestedEntry(t) \/ Library(t) \/ Kernel(t) \/ ExitProbe(t)
Next == Target \/ Collector \/ Stop
Spec == Init /\ [][Next]_vars
\* The collector's thread is scheduled; the target need not be.
FairSpec == Spec /\ WF_vars(Collector)

-----------------------------------------------------------------------------
(* Properties.                                                             *)

Addresses == {Ptr(b) : b \in Blocks} \cup {Map(b) : b \in Blocks}
Calls == {"idle", "alloc", "realloc", "free", "mmap", "mmapped", "munmap", "munmapped",
          "allocated", "freed"}
Returns == {"idle", "alloc", "realloc", "free", "allocated", "freed"}
Held == Blocks \cup {NoBlock}
Frames == [pc : Calls, next : Returns, arg : Held, at : Held, zero : BOOLEAN, untold : BOOLEAN]
Stored == [type : {"alloc", "free"}, addr : Addresses \cup {Null}, prev : Addresses \cup {Null},
           zero : BOOLEAN]
Sent == [type : {"alloc", "free"}, addr : Addresses \cup {Null}]
HeapStates == {"free", "small", "mapped", "region", "rest"}
TypeOK ==
  /\ heap \in [Blocks -> HeapStates]
  /\ call \in [Threads -> Frames]
  /\ calls \in 0..CallBound
  /\ args \in [Threads -> Stored \cup {NoEvent}]
  /\ ring \in Seq(Sent) /\ Len(ring) <= RingSize
  /\ lost \in BOOLEAN /\ tracked \subseteq Addresses \cup {Null} /\ incomplete \in BOOLEAN
  /\ collector \in {"poll", "check", "ended"}
  /\ missing \subseteq Addresses /\ stale \subseteq Addresses \cup {Null}

\* No call under way and every event handled.
Drained == ring = <<>> /\ \A t \in Threads : call[t] = Idle

\* The report accuses no address that was freed, unless no probe could tell of its free
\* (stale): the entry probe of the free, or of the realloc, stored nothing; a system call
\* or a malloc inside that call replaced its event; the mapping was moved by mremap, or went
\* with another one (a munmap or a MAP_FIXED mmap that reaches over it); the free of
\* realloc(p, 0) found the ring full; or it is one the probes made up (the pointer of a
\* block that realloc moved with mremap, and address 0 after a failed map update).
\* Otherwise, however the calls of the threads interleave and addresses are reused, the
\* last event of a dead address is a free.
NoFalseLeak == Drained /\ ~lost => tracked \subseteq Outstanding \cup stale

\* The report misses no outstanding address, unless no probe could tell of it (missing): it
\* was sampled out or its entry probe stored nothing; a system call inside the call replaced
\* its event; mremap put it there; its free was told too early, or without having happened
\* (an entry probe that stored nothing inside a call that frees, a reallocarray whose size
\* wraps to 0); or it was reused before its free was told, so that the late free removes the
\* new block.  What is left of a mapping whose front was unmapped is never told of.
NoLeakMissed ==
  Drained /\ ~lost => Outstanding \subseteq tracked \cup missing \cup {Rest(b) : b \in Blocks}

\* A thread outside the allocator has no event left in argsHashMap that a later call
\* could take for its own.
NoLeftover == \A t \in Threads : call[t] = Idle => args[t] = NoEvent

\* A call that works on a block has one; only a system call has somewhere to return to.
HasBlock ==
  \A t \in Threads :
    LET c == call[t]
    IN  /\ c.next # "idle" => c.pc \in {"mmap", "mmapped", "munmap", "munmapped"}
        /\ "realloc" \in {c.pc, c.next} => c.arg \in Blocks
        /\ c.pc = "mmapped" \/ (c.pc = "munmap" /\ c.next = "freed") => c.at \in Blocks

\* The inductive invariant.
RestrackInv == TypeOK /\ HasBlock /\ NoLeftover

\* Once the target leaves the collector time to drain the ring, a dropped event is
\* reported ("events were dropped; this report is incomplete"), or the session ended.
LossNoticed ==
  <>[](\A t \in Threads : call[t] = Idle) => (lost ~> incomplete \/ collector = "ended")
=============================================================================
