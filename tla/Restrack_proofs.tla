-------------------------- MODULE Restrack_proofs --------------------------
(***************************************************************************)
(* The tracker for any threads, blocks and ring: RestrackInv (no event is  *)
(* left in argsHashMap outside a call, the ring never holds more than it   *)
(* has room for), and an invariant for each direction of the leak report,  *)
(* about what the map will say of an address once the ring is drained.     *)
(***************************************************************************)
EXTENDS Restrack, TLAPS

\* A step of t leaves the calls and events of the other threads alone.
Only(t) ==
  /\ call' \in [Threads -> Frames] /\ args' \in [Threads -> Stored \cup {NoEvent}]
  /\ \A u \in Threads \ {t} : call'[u] = call[u] /\ args'[u] = args[u]

\* What t has to show for itself.
Sound(t) ==
  LET c == call'[t]
  IN  /\ c.next # "idle" => c.pc \in {"mmap", "mmapped", "munmap", "munmapped"}
      /\ "realloc" \in {c.pc, c.next} => c.arg \in Blocks
      /\ c.pc = "mmapped" \/ (c.pc = "munmap" /\ c.next = "freed") => c.at \in Blocks
      /\ c.pc = "idle" => args'[t] = NoEvent

\* The types of the rest.
RestType ==
  /\ heap' \in [Blocks -> HeapStates] /\ calls' \in 0..CallBound
  /\ ring' \in Seq(Sent) /\ Len(ring') <= RingSize
  /\ lost' \in BOOLEAN /\ missing' \subseteq Addresses /\ stale' \subseteq Addresses \cup {Null}

\* An address is told as what it is.
LEMMA AddressType ==
  /\ Null \in Addresses \cup {Null}
  /\ \A b \in Blocks : Ptr(b) \in Addresses /\ Map(b) \in Addresses /\ FirstAddress(b) = Map(b)
  /\ \A b \in Blocks \cup {NoBlock} : FirstAddress(b) \in Addresses \cup {Null}
  /\ \A a \in Addresses : \E b \in Blocks : a = Ptr(b) \/ a = Map(b)
BY RestrackAssumption DEF Addresses, FirstAddress

\* Addresses of different blocks and forms differ.
LEMMA Addressing ==
  /\ \A b, c : Ptr(b) # Map(c) /\ Ptr(b) # Null /\ Map(b) # Null
  /\ \A b, c : Rest(b) # Ptr(c) /\ Rest(b) # Map(c) /\ Rest(b) # Null
  /\ \A b, c : Ptr(b) = Ptr(c) => b = c
  /\ \A b, c : Map(b) = Map(c) => b = c
BY DEF Ptr, Map, Rest, Null

\* What is outstanding.
LEMMA OutstandingIs ==
  ASSUME heap \in [Blocks -> HeapStates]
  PROVE  /\ \A b \in Blocks : /\ Ptr(b) \in Outstanding <=> heap[b] = "small"
                              /\ Map(b) \in Outstanding <=> heap[b] \in {"mapped", "region"}
         /\ Null \notin Outstanding
BY Addressing DEF Outstanding, Key, HeapStates

\* The kinds of events differ.
LEMMA EventKinds ==
  /\ NoEvent.type = "none" /\ NoEvent.prev = Null /\ NoEvent.addr = Null
  /\ Plain.type = "alloc" /\ Plain.prev = Null /\ Plain.addr = Null /\ Plain.zero = FALSE
  /\ \A b, z : /\ Moving(b, z).type = "alloc" /\ Moving(b, z).addr = Null
               /\ Moving(b, z).prev = Ptr(b) /\ Moving(b, z).zero = z
  /\ \A a : Freeing(a).type = "free" /\ Freeing(a).addr = a /\ Freeing(a).prev = Null
BY DEF NoEvent, Plain, Moving, Freeing, Event

\* The events that the entry probes store.
LEMMA EventType ==
  /\ Plain \in Stored
  /\ \A b \in Blocks, zero \in BOOLEAN : Moving(b, zero) \in Stored
  /\ \A a \in Addresses \cup {Null} : Freeing(a) \in Stored
BY AddressType DEF Plain, Moving, Freeing, Event, Stored

\* The three parts make a step that keeps the invariant.
LEMMA StepInv ==
  ASSUME RestrackInv, NEW t \in Threads, Only(t), Sound(t), RestType, UNCHANGED reader
  PROVE  RestrackInv'
<1>1. TypeOK'
  BY DEF RestrackInv, TypeOK, Only, RestType, reader
<1>2. HasBlock'
  BY DEF RestrackInv, HasBlock, Only, Sound
<1>3. NoLeftover'
  <2>1. \A u \in Threads : call'[u] = Idle => call'[u].pc = "idle"
    BY DEF Idle
  <2> QED  BY <2>1 DEF RestrackInv, NoLeftover, Only, Sound
<1> QED  BY <1>1, <1>2, <1>3 DEF RestrackInv

\* An entry probe stores its event, or not.
LEMMA ProbeType ==
  ASSUME TypeOK, NEW t \in Threads, NEW e \in Stored, NEW untold \in BOOLEAN, Probe(t, e, untold)
  PROVE  /\ args' \in [Threads -> Stored \cup {NoEvent}]
         /\ \A u \in Threads \ {t} : args'[u] = args[u]
         /\ args'[t] = IF untold THEN args[t] ELSE e
         /\ missing' \subseteq Addresses /\ stale' \subseteq Addresses \cup {Null}
<1>1. {args[t].addr, args[t].prev} \subseteq Addresses \cup {Null}
  BY EventKinds DEF TypeOK, Stored
<1>2. Null \notin Outstanding
  BY OutstandingIs DEF TypeOK
<1>3. missing \subseteq Addresses /\ stale \subseteq Addresses \cup {Null}
  BY DEF TypeOK
<1>4. args \in [Threads -> Stored \cup {NoEvent}]
  BY DEF TypeOK
<1>5. CASE untold
  <2>1. UNCHANGED args /\ missing' = missing \cup ({args[t].addr, args[t].prev} \cap Outstanding)
        /\ stale' \subseteq stale \cup {Null}
    BY <1>5 DEF Probe
  <2> QED  BY <1>1, <1>2, <1>3, <1>4, <1>5, <2>1
<1>6. CASE ~untold
  BY <1>3, <1>4, <1>6 DEF Probe, history
<1> QED  BY <1>5, <1>6

\* A step inside a call.
LEMMA BecomesType ==
  ASSUME TypeOK, NEW t \in Threads, NEW pc \in Calls, NEW arg \in Held, NEW at \in Held,
         Becomes(t, pc, arg, at)
  PROVE  /\ call' \in [Threads -> Frames] /\ \A u \in Threads \ {t} : call'[u] = call[u]
         /\ call'[t] = [call[t] EXCEPT !.pc = pc, !.arg = arg, !.at = at]
         /\ call'[t].pc = pc /\ call'[t].arg = arg /\ call'[t].at = at
         /\ call'[t].next = call[t].next /\ call'[t].zero = call[t].zero
         /\ call'[t].untold = call[t].untold
BY DEF TypeOK, Becomes, Frames

\* The end of a system call.
LEMMA ResumeType ==
  ASSUME TypeOK, NEW t \in Threads, NEW to \in Returns, NEW at \in Held, Resume(t, to, at)
  PROVE  /\ call' \in [Threads -> Frames] /\ \A u \in Threads \ {t} : call'[u] = call[u]
         /\ to = "idle" => call'[t] = Idle
         /\ to # "idle" => /\ call'[t].pc = to /\ call'[t].next = "idle"
                           /\ call'[t].arg = call[t].arg /\ call'[t].at = at
                           /\ call'[t].untold = TRUE /\ call'[t].zero = call[t].zero
<1>1. /\ call \in [Threads -> Frames] /\ Idle \in Frames /\ Returns \subseteq Calls
      /\ "idle" \in Returns
  BY RestrackAssumption DEF TypeOK, Idle, Frames, Calls, Returns, Held
<1>2. CASE to = "idle"
  BY <1>1, <1>2 DEF Resume
<1>3. CASE to # "idle"
  <2> DEFINE c == [call[t] EXCEPT !.pc = to, !.next = "idle", !.at = at, !.untold = TRUE]
  <2>1. c \in Frames /\ c.pc = to /\ c.next = "idle" /\ c.arg = call[t].arg /\ c.at = at
        /\ c.untold = TRUE /\ c.zero = call[t].zero
    BY <1>1 DEF Frames
  <2>2. call' = [call EXCEPT ![t] = c]
    BY <1>3 DEF Resume
  <2> QED  BY <1>1, <1>3, <2>1, <2>2
<1> QED  BY <1>2, <1>3

\* What the call of t asks its entry probe to store.
Asks(t, e) ==
  LET c == call'[t]
  IN  /\ \/ c.pc \in {"alloc", "mmap"} /\ e = Plain
         \/ c.pc = "realloc" /\ e = Moving(c.arg, c.zero) /\ call[t] = Idle
         \/ c.pc = "free" /\ e = Freeing(IF c.arg = NoBlock THEN Null ELSE Ptr(c.arg))
         \/ c.pc = "munmap" /\ e = Freeing(FirstAddress(c.at))
      /\ c.next # "idle" => c.pc \in {"mmap", "munmap"}
      /\ call[t].pc \in {"idle", "alloc", "realloc", "free"}
      /\ c.arg \in Blocks /\ c.arg = c.at => c.arg = call[t].arg /\ c.at = call[t].at
      /\ c.pc = "alloc" => call[t] = Idle \/ call[t].pc = "realloc"
      /\ c.pc = "munmap" /\ c.at # NoBlock => heap[c.at] \in {"mapped", "region"}
      /\ c.pc = "munmap" /\ c.next = "freed" => c.at \in Blocks /\ heap[c.at] = "mapped"
      /\ "realloc" \in {c.pc, c.next} => c.arg \in Blocks
      /\ \A b \in Blocks : b \in {c.arg, c.at} =>
           \/ b \in {call[t].arg, call[t].at}
           \/ heap[b] # "free" /\ \A u \in Threads : b \notin {call[u].arg, call[u].at}
ProbeStep(t) ==
  /\ call' \in [Threads -> Frames] /\ \A u \in Threads \ {t} : call'[u] = call[u]
  /\ \E e \in Stored : Asks(t, e) /\ Probe(t, e, call'[t].untold)
  /\ UNCHANGED <<heap, ring, lost, reader>> /\ calls' \in 0..CallBound

\* A call of the program.
LEMMA EnterType ==
  ASSUME TypeOK, NEW t \in Threads, NEW pc \in Calls, NEW arg \in Held, NEW at \in Held,
         NEW zero \in BOOLEAN, NEW untold \in BOOLEAN, Enter(t, pc, arg, at, zero, untold)
  PROVE  /\ call' \in [Threads -> Frames] /\ \A u \in Threads \ {t} : call'[u] = call[u]
         /\ call'[t] = [pc |-> pc, next |-> "idle", arg |-> arg, at |-> at, zero |-> zero,
                        untold |-> untold]
         /\ call[t] = Idle /\ calls' \in 0..CallBound
<1>1. [pc |-> pc, next |-> "idle", arg |-> arg, at |-> at, zero |-> zero, untold |-> untold]
        \in Frames
  BY DEF Frames, Returns
<1>2. calls \in 0..CallBound /\ calls < CallBound /\ calls' = calls + 1
  BY DEF TypeOK, Enter, Counted
<1>3. calls' \in 0..CallBound
  BY <1>2, RestrackAssumption
<1> QED  BY <1>1, <1>3 DEF TypeOK, Enter

\* A system call inside it.
LEMMA NestedType ==
  ASSUME TypeOK, NEW t \in Threads, NEW pc \in Calls, NEW next \in Returns, NEW arg \in Held,
         NEW at \in Held, NEW untold \in BOOLEAN, Nested(t, pc, next, arg, at, untold)
  PROVE  /\ call' \in [Threads -> Frames] /\ \A u \in Threads \ {t} : call'[u] = call[u]
         /\ call'[t].pc = pc /\ call'[t].next = next /\ call'[t].arg = arg /\ call'[t].at = at
         /\ call'[t].untold = untold
         /\ calls' \in 0..CallBound
<1>1. calls \in 0..CallBound /\ calls < CallBound /\ calls' = calls + 1
  BY DEF TypeOK, Nested, Counted
<1>2. calls' \in 0..CallBound
  BY <1>1, RestrackAssumption
<1> QED  BY <1>2 DEF TypeOK, Nested, Frames

\* The calls of the program reach the entry probes.
LEMMA EntryAsks ==
  ASSUME RestrackInv, NEW t \in Threads, Entry(t)
  PROVE  ProbeStep(t)
<1>0. TypeOK
  BY DEF RestrackInv
<1>a. {"alloc", "realloc", "free", "mmap", "munmap"} \subseteq Calls /\ NoBlock \in Held /\ Blocks \subseteq Held
      /\ NoBlock \notin Blocks /\ Idle.pc = "idle"
  BY RestrackAssumption DEF Calls, Held, Idle
<1>1. ASSUME NEW untold \in BOOLEAN, MallocEnter(t, untold) \/ MmapEnter(t, untold)
      PROVE  ProbeStep(t)
  <2>1. \E pc \in {"alloc", "mmap"} : Enter(t, pc, NoBlock, NoBlock, FALSE, untold)
    BY <1>1 DEF MallocEnter, MmapEnter
  <2>2. PICK pc \in {"alloc", "mmap"} : Enter(t, pc, NoBlock, NoBlock, FALSE, untold)
    BY <2>1
  <2>3. Probe(t, Plain, untold) /\ UNCHANGED <<heap, ring, lost, reader>>
    BY <1>1 DEF MallocEnter, MmapEnter
  <2>a. pc \in Calls /\ FALSE \in BOOLEAN /\ NoBlock \in Held
    BY <1>a
  <2>4. /\ call' \in [Threads -> Frames] /\ \A u \in Threads \ {t} : call'[u] = call[u]
        /\ call'[t] = [pc |-> pc, next |-> "idle", arg |-> NoBlock, at |-> NoBlock,
                       zero |-> FALSE, untold |-> untold]
        /\ call[t] = Idle /\ calls' \in 0..CallBound
    BY <1>0, <2>a, <2>2, EnterType, Zenon
  <2>5. Asks(t, Plain)
    <3>1. /\ call'[t].pc = pc /\ call'[t].next = "idle" /\ call'[t].arg = NoBlock
          /\ call'[t].at = NoBlock
      BY <2>4
    <3> QED  BY <1>a, <2>4, <3>1 DEF Asks
  <2> QED  BY <2>3, <2>4, <2>5, EventType DEF ProbeStep
<1>2. ASSUME NEW untold \in BOOLEAN, NEW b \in Blocks, NEW zero \in BOOLEAN,
             ReallocEnter(t, b, zero, untold)
      PROVE  ProbeStep(t)
  <2>1. /\ call' \in [Threads -> Frames] /\ \A u \in Threads \ {t} : call'[u] = call[u]
        /\ call'[t] = [pc |-> "realloc", next |-> "idle", arg |-> b, at |-> NoBlock,
                       zero |-> zero, untold |-> untold]
        /\ call[t] = Idle /\ calls' \in 0..CallBound
    BY <1>0, <1>a, <1>2, EnterType DEF ReallocEnter
  <2>2. Asks(t, Moving(b, zero))
    BY <1>a, <1>2, <2>1 DEF Asks, ReallocEnter, Usable
  <2> QED  BY <1>2, <2>1, <2>2, EventType DEF ReallocEnter, ProbeStep
<1>3. ASSUME NEW untold \in BOOLEAN, NEW b \in Held, FreeEnter(t, b, untold)
      PROVE  ProbeStep(t)
  <2> DEFINE a == IF b = NoBlock THEN Null ELSE Ptr(b)
  <2>1. /\ call' \in [Threads -> Frames] /\ \A u \in Threads \ {t} : call'[u] = call[u]
        /\ call'[t] = [pc |-> "free", next |-> "idle", arg |-> b, at |-> NoBlock,
                       zero |-> FALSE, untold |-> untold]
        /\ call[t] = Idle /\ calls' \in 0..CallBound
    BY <1>0, <1>a, <1>3, EnterType DEF FreeEnter
  <2>2. a \in Addresses \cup {Null}
    BY AddressType DEF Held
  <2>3. Asks(t, Freeing(a))
    BY <1>a, <1>3, <2>1 DEF Asks, FreeEnter, Usable
  <2>4. Probe(t, Freeing(a), untold) /\ UNCHANGED <<heap, ring, lost, reader>>
    BY <1>3 DEF FreeEnter
  <2> HIDE DEF a
  <2> QED  BY <2>1, <2>2, <2>3, <2>4, EventType DEF ProbeStep
<1>4. ASSUME NEW untold \in BOOLEAN, NEW b \in Held, MunmapEnter(t, b, untold)
      PROVE  ProbeStep(t)
  <2>1. /\ call' \in [Threads -> Frames] /\ \A u \in Threads \ {t} : call'[u] = call[u]
        /\ call'[t] = [pc |-> "munmap", next |-> "idle", arg |-> NoBlock, at |-> b,
                       zero |-> FALSE, untold |-> untold]
        /\ call[t] = Idle /\ calls' \in 0..CallBound
    BY <1>0, <1>a, <1>4, EnterType DEF MunmapEnter
  <2>2. Asks(t, Freeing(FirstAddress(b)))
    BY <1>a, <1>4, <2>1 DEF Asks, MunmapEnter, Usable
  <2> QED  BY <1>4, <2>1, <2>2, AddressType, EventType DEF MunmapEnter, ProbeStep, Held
<1> QED  BY <1>1, <1>2, <1>3, <1>4 DEF Entry, Held

\* So do the calls of the library.
LEMMA NestedAsks ==
  ASSUME RestrackInv, NEW t \in Threads, NestedEntry(t)
  PROVE  ProbeStep(t)
<1>0. TypeOK /\ call[t] \in Frames /\ HasBlock
  BY DEF RestrackInv, TypeOK
<1>a. /\ {"alloc", "realloc", "free", "mmap", "munmap"} \subseteq Calls
      /\ {"alloc", "realloc", "free", "allocated", "freed"} \subseteq Returns
      /\ NoBlock \in Held /\ Blocks \subseteq Held /\ NoBlock \notin Blocks
  BY RestrackAssumption DEF Calls, Returns, Held
<1>b. call[t].arg \in Held /\ call[t].pc \in Calls /\ call[t].zero \in BOOLEAN
  BY <1>0 DEF Frames
<1>1. ASSUME NEW untold \in BOOLEAN, LargeBlock(t, untold) \/ MapArena(t, untold)
      PROVE  ProbeStep(t)
  <2>1. \E next \in {"alloc", "realloc", "free", "allocated"} :
          /\ Nested(t, "mmap", next, call[t].arg, NoBlock, untold)
          /\ next = "realloc" => call[t].arg \in Blocks
    BY <1>0, <1>1 DEF LargeBlock, MapArena, InLibrary, HasBlock
  <2>2. PICK next \in {"alloc", "realloc", "free", "allocated"} :
          /\ Nested(t, "mmap", next, call[t].arg, NoBlock, untold)
          /\ next = "realloc" => call[t].arg \in Blocks
    BY <2>1
  <2>3. Probe(t, Plain, untold) /\ UNCHANGED <<heap, ring, lost, reader>>
    BY <1>1 DEF LargeBlock, MapArena
  <2>4. /\ call' \in [Threads -> Frames] /\ \A u \in Threads \ {t} : call'[u] = call[u]
        /\ call'[t].pc = "mmap" /\ call'[t].next = next /\ call'[t].arg = call[t].arg
        /\ call'[t].at = NoBlock /\ call'[t].untold = untold /\ calls' \in 0..CallBound
    BY <1>0, <1>a, <1>b, <2>2, NestedType
  <2>5. Asks(t, Plain)
    BY <1>1, <1>a, <2>2, <2>4 DEF Asks, LargeBlock, MapArena, InLibrary
  <2> QED  BY <2>3, <2>4, <2>5, EventType DEF ProbeStep
<1>2. ASSUME NEW untold \in BOOLEAN, NEW b \in Blocks \cup {NoBlock}, UnmapArena(t, b, untold)
      PROVE  ProbeStep(t)
  <2>1. /\ call' \in [Threads -> Frames] /\ \A u \in Threads \ {t} : call'[u] = call[u]
        /\ call'[t].pc = "munmap" /\ call'[t].next = call[t].pc /\ call'[t].arg = call[t].arg
        /\ call'[t].at = b /\ call'[t].untold = untold /\ calls' \in 0..CallBound
    BY <1>0, <1>a, <1>b, <1>2, NestedType DEF UnmapArena, InLibrary
  <2>2. call[t].pc = "realloc" => call[t].arg \in Blocks
    BY <1>0 DEF HasBlock
  <2>3. call[t].pc # "freed" /\ (b # NoBlock => b \in Blocks /\ Usable(b, {"region"}))
    BY <1>2 DEF UnmapArena, InLibrary
  <2>4. Asks(t, Freeing(FirstAddress(b)))
    BY <1>2, <1>a, <2>1, <2>2, <2>3 DEF Asks, Usable, UnmapArena, InLibrary
  <2> QED  BY <1>2, <2>1, <2>4, AddressType, EventType DEF UnmapArena, ProbeStep
<1>3. ASSUME NEW untold \in BOOLEAN, FreeLarge(t, untold)
      PROVE  ProbeStep(t)
  <2>1. call[t].arg \in Blocks /\ heap[call[t].arg] = "mapped" /\ call[t].pc = "free"
    BY <1>3, <1>b DEF FreeLarge, Held
  <2>2. /\ call' \in [Threads -> Frames] /\ \A u \in Threads \ {t} : call'[u] = call[u]
        /\ call'[t].pc = "munmap" /\ call'[t].next = "freed" /\ call'[t].arg = NoBlock
        /\ call'[t].at = call[t].arg /\ call'[t].untold = untold /\ calls' \in 0..CallBound
    BY <1>0, <1>a, <1>b, <1>3, NestedType DEF FreeLarge
  <2>3. Asks(t, Freeing(Map(call[t].arg)))
    BY <1>a, <2>1, <2>2, AddressType DEF Asks
  <2> QED  BY <1>3, <2>1, <2>2, <2>3, AddressType, EventType DEF FreeLarge, ProbeStep
<1>4. ASSUME NEW untold \in BOOLEAN, ReallocCallsFree(t, untold) \/ ReallocCallsMalloc(t, untold)
      PROVE  ProbeStep(t)
  <2>1. call[t].arg \in Blocks /\ call[t].pc = "realloc" /\ call[t].next = "idle"
    BY <1>0, <1>4 DEF HasBlock, ReallocCallsFree, ReallocCallsMalloc
  <2>2. calls' \in 0..CallBound
    <3>1. calls \in 0..CallBound /\ calls < CallBound /\ calls' = calls + 1
      BY <1>0, <1>4 DEF TypeOK, ReallocCallsFree, ReallocCallsMalloc, Counted
    <3> QED  BY <3>1, RestrackAssumption
  <2>3. /\ call' \in [Threads -> Frames] /\ \A u \in Threads \ {t} : call'[u] = call[u]
        /\ call'[t].next = call[t].next /\ call'[t].arg = call[t].arg
        /\ call'[t].at = call[t].at /\ call'[t].untold = untold
    BY <1>0, <1>a, <1>4 DEF TypeOK, Frames, ReallocCallsFree, ReallocCallsMalloc
  <2>4. UNCHANGED <<heap, ring, lost, reader>>
    BY <1>4 DEF ReallocCallsFree, ReallocCallsMalloc
  <2>5. CASE ReallocCallsFree(t, untold)
    <3>1. call'[t].pc = "free"
      BY <1>0, <2>5 DEF TypeOK, Frames, ReallocCallsFree
    <3>2. Asks(t, Freeing(Ptr(call[t].arg)))
      BY <1>a, <2>1, <2>3, <3>1 DEF Asks
    <3> QED  BY <2>1, <2>2, <2>3, <2>4, <2>5, <3>2, AddressType, EventType DEF ReallocCallsFree, ProbeStep
  <2>6. CASE ReallocCallsMalloc(t, untold)
    <3>1. call'[t].pc = "alloc"
      BY <1>0, <2>6 DEF TypeOK, Frames, ReallocCallsMalloc
    <3>2. Asks(t, Plain)
      BY <1>a, <2>1, <2>3, <3>1 DEF Asks
    <3> QED  BY <2>2, <2>3, <2>4, <2>6, <3>2, EventType DEF ReallocCallsMalloc, ProbeStep
  <2> QED  BY <1>4, <2>5, <2>6
<1> QED  BY <1>1, <1>2, <1>3, <1>4 DEF NestedEntry

\* The entry probes keep the invariant.
LEMMA ProbeInv ==
  ASSUME RestrackInv, NEW t \in Threads, ProbeStep(t)
  PROVE  RestrackInv'
<1>0. TypeOK /\ call'[t] \in Frames /\ call'[t].untold \in BOOLEAN
  BY DEF RestrackInv, ProbeStep, Frames
<1>1. PICK e \in Stored : Asks(t, e) /\ Probe(t, e, call'[t].untold)
  BY DEF ProbeStep
<1>2. /\ args' \in [Threads -> Stored \cup {NoEvent}] /\ \A u \in Threads \ {t} : args'[u] = args[u]
      /\ missing' \subseteq Addresses /\ stale' \subseteq Addresses \cup {Null}
  BY <1>0, <1>1, ProbeType
<1>3. Only(t)
  BY <1>2 DEF ProbeStep, Only
<1>4. Sound(t)
  BY <1>1 DEF Asks, Sound
<1>5. RestType
  BY <1>0, <1>2 DEF ProbeStep, RestType, TypeOK
<1> QED  BY <1>3, <1>4, <1>5, StepInv DEF ProbeStep

\* A step of the C library or the kernel: no event changes.
QuietStep(t) ==
  /\ UNCHANGED <<args, ring, lost, reader>> /\ calls' \in 0..CallBound
  /\ heap' \in [Blocks -> HeapStates] /\ missing' \subseteq Addresses
  /\ stale' \subseteq Addresses \cup {Null}
  /\ \/ UNCHANGED call
     \/ \E at \in Held :
          \/ Becomes(t, "allocated", call[t].arg, at) /\ call[t].pc \in {"alloc", "realloc"}
          \/ Becomes(t, "allocated", NoBlock, at) /\ call[t].pc = "realloc"
          \/ Becomes(t, "freed", NoBlock, NoBlock) /\ call[t].pc = "free"
          \/ Becomes(t, "mmapped", call[t].arg, at) /\ call[t].pc = "mmap" /\ at \in Blocks
          \/ Becomes(t, "munmapped", call[t].arg, NoBlock) /\ call[t].pc = "munmap"
Failing(t) == MmapFails(t) \/ MunmapFails(t)
Working(t) ==
  \/ AllocFails(t) \/ ReallocWraps(t) \/ ReallocInPlace(t) \/ ReallocFrees(t) \/ Free(t)
  \/ \E b \in Blocks : Alloc(t, b) \/ ReallocMoves(t, b) \/ ReallocRemaps(t, b)
  \/ \E over \in SUBSET Blocks :
       \/ \E b \in Blocks : Mmap(t, b, over)
       \/ \E front \in BOOLEAN : Munmap(t, over, front)
  \/ \E b, c \in Blocks : Mremap(t, b, c)

\* The history stays one of addresses.
LEMMA ChangesType ==
  ASSUME TypeOK, NEW t \in Threads, NEW given \in SUBSET Addresses,
         NEW taken \in SUBSET Addresses, NEW unseen \in SUBSET Addresses,
         Changes(t, given, taken, unseen)
  PROVE  missing' \subseteq Addresses /\ stale' \subseteq Addresses \cup {Null}
BY DEF TypeOK, Changes

\* The library and the kernel change no event.
LEMMA WorkingQuiet ==
  ASSUME RestrackInv, NEW t \in Threads, Working(t)
  PROVE  QuietStep(t)
<1>0. /\ TypeOK /\ HasBlock /\ call[t] \in Frames /\ heap \in [Blocks -> HeapStates]
      /\ calls \in 0..CallBound /\ missing \subseteq Addresses /\ stale \subseteq Addresses \cup {Null}
  BY DEF RestrackInv, TypeOK
<1>a. /\ call[t].arg \in Held /\ NoBlock \in Held /\ Blocks \subseteq Held /\ NoBlock \notin Blocks
      /\ {"free", "small", "mapped", "region", "rest"} = HeapStates
  BY <1>0, RestrackAssumption DEF Frames, Held, HeapStates
<1>b. /\ \A b \in Blocks : {Ptr(b)} \in SUBSET Addresses /\ {Map(b)} \in SUBSET Addresses
      /\ {} \in SUBSET Addresses
      /\ \A over \in SUBSET Blocks : Mapping(over) \in SUBSET Addresses
  BY AddressType DEF Mapping
<1>1. CASE AllocFails(t)
  BY <1>0, <1>a, <1>1 DEF AllocFails, QuietStep, kernel, history
<1>2. CASE ReallocWraps(t)
  <2>1. Null \notin Outstanding
    BY <1>0, OutstandingIs
  <2>2. args[t].prev \in Addresses \cup {Null}
    BY <1>0, EventKinds DEF TypeOK, Stored
  <2> QED  BY <1>0, <1>a, <1>2, <2>1, <2>2 DEF ReallocWraps, QuietStep, kernel
<1>3. CASE ReallocInPlace(t)
  BY <1>0, <1>a, <1>3 DEF ReallocInPlace, QuietStep, kernel, history
<1>4. CASE ReallocFrees(t)
  <2>1. call[t].arg \in Blocks
    BY <1>0, <1>4 DEF ReallocFrees, HasBlock
  <2>2. missing' \subseteq Addresses /\ stale' \subseteq Addresses \cup {Null}
    BY <1>0, <1>b, <1>4, <2>1, ChangesType DEF ReallocFrees
  <2> QED  BY <1>0, <1>a, <1>4, <2>2 DEF ReallocFrees, QuietStep, kernel
<1>5. CASE Free(t)
  <2>1. missing' \subseteq Addresses /\ stale' \subseteq Addresses \cup {Null}
    <3>1. PICK taken \in SUBSET Addresses : Changes(t, {}, taken, {})
      BY <1>a, <1>b, <1>5 DEF Free, Held
    <3> QED  BY <1>0, <1>b, <3>1, ChangesType
  <2>2. heap' \in [Blocks -> HeapStates]
    BY <1>0, <1>a, <1>5 DEF Free
  <2> QED  BY <1>0, <1>a, <1>5, <2>1, <2>2 DEF Free, QuietStep, kernel
<1>6. ASSUME NEW b \in Blocks, Alloc(t, b) PROVE QuietStep(t)
  <2>1. missing' \subseteq Addresses /\ stale' \subseteq Addresses \cup {Null}
    BY <1>0, <1>b, <1>6, ChangesType DEF Alloc
  <2> QED  BY <1>0, <1>a, <1>6, <2>1 DEF Alloc, QuietStep, kernel
<1>7. ASSUME NEW b \in Blocks, ReallocMoves(t, b) PROVE QuietStep(t)
  <2>1. call[t].arg \in Blocks
    BY <1>0, <1>7 DEF ReallocMoves, HasBlock
  <2>2. missing' \subseteq Addresses /\ stale' \subseteq Addresses \cup {Null}
    BY <1>0, <1>b, <1>7, <2>1, ChangesType DEF ReallocMoves
  <2> QED  BY <1>0, <1>a, <1>7, <2>2 DEF ReallocMoves, QuietStep, kernel
<1>8. ASSUME NEW b \in Blocks, ReallocRemaps(t, b) PROVE QuietStep(t)
  <2>1. call[t].arg \in Blocks
    BY <1>0, <1>8 DEF ReallocRemaps, HasBlock
  <2>2. missing' \subseteq Addresses /\ stale' \subseteq Addresses \cup {Null}
    BY <1>0, <1>8, <2>1, AddressType DEF ReallocRemaps
  <2> QED  BY <1>0, <1>a, <1>8, <2>2 DEF ReallocRemaps, QuietStep, kernel
<1>9. ASSUME NEW over \in SUBSET Blocks, NEW b \in Blocks, Mmap(t, b, over) PROVE QuietStep(t)
  <2>1. missing' \subseteq Addresses /\ stale' \subseteq Addresses \cup {Null}
    <3>1. Mapping(over \ {b}) \in SUBSET Addresses
      BY <1>b
    <3> QED  BY <1>0, <1>b, <1>9, <3>1, ChangesType DEF Mmap
  <2>2. heap' \in [Blocks -> HeapStates]
    BY <1>0, <1>a, <1>9 DEF Mmap
  <2> QED  BY <1>0, <1>a, <1>9, <2>1, <2>2 DEF Mmap, QuietStep, kernel
<1>10. ASSUME NEW over \in SUBSET Blocks, NEW front \in BOOLEAN, Munmap(t, over, front)
       PROVE  QuietStep(t)
  <2>1. missing' \subseteq Addresses /\ stale' \subseteq Addresses \cup {Null}
    <3>1. call[t].at \in Blocks \cup {NoBlock}
      BY <1>0 DEF Frames, Held
    <3>2. PICK taken \in SUBSET Addresses : Changes(t, {}, taken, Mapping(over))
      BY <1>b, <1>10, <3>1 DEF Munmap
    <3> QED  BY <1>0, <1>b, <3>2, ChangesType
  <2>2. heap' \in [Blocks -> HeapStates]
    BY <1>0, <1>a, <1>10 DEF Munmap
  <2> QED  BY <1>0, <1>a, <1>10, <2>1, <2>2 DEF Munmap, QuietStep, kernel
<1>11. ASSUME NEW b \in Blocks, NEW c \in Blocks, Mremap(t, b, c) PROVE QuietStep(t)
  <2>1. missing' \subseteq Addresses /\ stale' \subseteq Addresses \cup {Null}
    BY <1>0, <1>11, AddressType DEF Mremap, Moves
  <2>2. calls' \in 0..CallBound
    <3>1. calls < CallBound /\ calls' = calls + 1
      BY <1>11 DEF Mremap, Counted
    <3> QED  BY <1>0, <3>1, RestrackAssumption
  <2> QED  BY <1>0, <1>a, <1>11, <2>1, <2>2 DEF Mremap, QuietStep, kernel
<1> QED
  BY <1>1, <1>2, <1>3, <1>4, <1>5, <1>6, <1>7, <1>8, <1>9, <1>10, <1>11 DEF Working

\* The library and the kernel keep the invariant: they end no call.
LEMMA QuietInv ==
  ASSUME RestrackInv, NEW t \in Threads, QuietStep(t)
  PROVE  RestrackInv'
<1>0. TypeOK /\ HasBlock /\ NoLeftover /\ NoBlock \in Held /\ call[t].arg \in Held
      /\ {"allocated", "freed", "mmapped", "munmapped"} \subseteq Calls
  BY DEF RestrackInv, TypeOK, Frames, Held, Calls
<1>q. /\ UNCHANGED <<args, ring, lost, reader>> /\ calls' \in 0..CallBound
      /\ heap' \in [Blocks -> HeapStates] /\ missing' \subseteq Addresses
      /\ stale' \subseteq Addresses \cup {Null}
  BY DEF QuietStep
<1>1. RestType
  BY <1>0, <1>q DEF RestType, TypeOK
<1>2. CASE UNCHANGED call
  <2>1. TypeOK'
    BY <1>0, <1>q, <1>2 DEF TypeOK, reader
  <2>2. HasBlock' /\ NoLeftover'
    BY <1>0, <1>q, <1>2 DEF HasBlock, NoLeftover
  <2> QED  BY <2>1, <2>2 DEF RestrackInv
<1>3. CASE call' # call
  <2>1. PICK pc \in Calls, arg \in Held, at \in Held :
          /\ pc \in {"allocated", "freed", "mmapped", "munmapped"}
          /\ Becomes(t, pc, arg, at) /\ arg \in {call[t].arg, NoBlock}
          /\ pc \in {"allocated", "freed"} => call[t].next = "idle"
          /\ pc = "mmapped" => at \in Blocks
          /\ pc \in {"mmapped", "munmapped"} => arg = call[t].arg
    BY <1>0, <1>3 DEF QuietStep, HasBlock
  <2>2. /\ call' \in [Threads -> Frames] /\ \A u \in Threads \ {t} : call'[u] = call[u]
        /\ call'[t].pc = pc /\ call'[t].arg = arg /\ call'[t].at = at
        /\ call'[t].next = call[t].next
    BY <1>0, <2>1 DEF Becomes, TypeOK, Frames
  <2>3. Only(t) /\ Sound(t)
    BY <1>0, <1>q, <2>1, <2>2 DEF Only, Sound, TypeOK, HasBlock
  <2> QED  BY <1>1, <1>q, <2>3, StepInv
<1> QED  BY <1>2, <1>3

\* So do the system calls that fail, with no event left.
LEMMA FailingInv ==
  ASSUME RestrackInv, NEW t \in Threads, Failing(t)
  PROVE  RestrackInv'
<1>0. /\ TypeOK /\ HasBlock /\ call[t] \in Frames /\ heap \in [Blocks -> HeapStates]
      /\ call[t].next \in Returns /\ NoBlock \in Held /\ "region" \in HeapStates
      /\ "alloc" \in Returns /\ "allocated" \in Returns
  BY DEF RestrackInv, TypeOK, Frames, Held, HeapStates, Returns
<1>1. args' = [args EXCEPT ![t] = NoEvent] /\ UNCHANGED <<calls, ring, lost, reader, history>>
  BY DEF Failing, MmapFails, MunmapFails, DiscardEvent
<1>2. heap' \in [Blocks -> HeapStates]
  BY <1>0 DEF Failing, MmapFails, MunmapFails
<1>3. PICK to \in Returns : /\ Resume(t, to, NoBlock) /\ to \in {call[t].next, "alloc"}
  BY <1>0 DEF Failing, MmapFails, MunmapFails
<1>4. /\ call' \in [Threads -> Frames] /\ \A u \in Threads \ {t} : call'[u] = call[u]
      /\ to = "idle" => call'[t] = Idle
      /\ to # "idle" => call'[t].pc = to /\ call'[t].next = "idle" /\ call'[t].arg = call[t].arg
  BY <1>0, <1>3, ResumeType
<1>5. Only(t) /\ Sound(t)
  <2>1. Idle.pc = "idle" /\ Idle.next = "idle"
    BY DEF Idle
  <2>2. to \notin {"mmapped", "munmap"}
    BY DEF Returns
  <2>3. args' \in [Threads -> Stored \cup {NoEvent}] /\ args'[t] = NoEvent
        /\ \A u \in Threads \ {t} : args'[u] = args[u]
    BY <1>0, <1>1 DEF TypeOK
  <2>4. Sound(t)
    BY <1>0, <1>3, <1>4, <2>1, <2>2, <2>3 DEF Sound, HasBlock
  <2> QED  BY <1>4, <2>3, <2>4 DEF Only
<1>6. RestType
  BY <1>0, <1>1, <1>2 DEF RestType, TypeOK, history
<1> QED  BY <1>1, <1>5, <1>6, StepInv

\* The ring takes an event if it has room.
LEMMA PutType ==
  ASSUME NEW r \in Seq(Sent), Len(r) <= RingSize, NEW type \in {"alloc", "free"},
         NEW a \in Addresses \cup {Null}
  PROVE  Put(r, type, a) \in Seq(Sent) /\ Len(Put(r, type, a)) <= RingSize
<1>1. [type |-> type, addr |-> a] \in Sent
  BY DEF Sent
<1>2. CASE Room(r)
  BY <1>1, <1>2, RestrackAssumption DEF Put, Room
<1>3. CASE ~Room(r)
  BY <1>3 DEF Put
<1> QED  BY <1>2, <1>3

\* SendEvent empties the thread's entry and never overfills the ring.
LEMMA SendType ==
  ASSUME RestrackInv, NEW t \in Threads, NEW a \in Addresses \cup {Null}, NEW freeOp \in BOOLEAN,
         SendEvent(t, a, freeOp)
  PROVE  /\ ring' \in Seq(Sent) /\ Len(ring') <= RingSize
         /\ lost' \in BOOLEAN /\ stale' \subseteq Addresses \cup {Null}
         /\ args' = [args EXCEPT ![t] = NoEvent]
<1> DEFINE e == args[t]
           w == IF freeOp THEN e.addr ELSE a
           sent == Put(ring, e.type, w)
<1>1. /\ ring \in Seq(Sent) /\ Len(ring) <= RingSize /\ lost \in BOOLEAN
      /\ stale \subseteq Addresses \cup {Null} /\ e \in Stored \cup {NoEvent}
  BY DEF RestrackInv, TypeOK
<1>2. args' = [args EXCEPT ![t] = NoEvent]
  BY DEF SendEvent, DiscardEvent
<1>3. CASE UNCHANGED <<ring, lost, stale>>
  BY <1>1, <1>2, <1>3
<1>4. CASE /\ e # NoEvent
           /\ ring' = Put(ring, "free", e.prev) /\ stale' \subseteq stale \cup {e.prev}
           /\ UNCHANGED lost
  <2>1. e \in Stored /\ e.prev \in Addresses \cup {Null}
    BY <1>1, <1>4 DEF Stored
  <2>2. ring' \in Seq(Sent) /\ Len(ring') <= RingSize
    BY <1>1, <1>4, <2>1, PutType
  <2>3. stale' \subseteq Addresses \cup {Null}
    BY <1>1, <1>4, <2>1
  <2> QED  BY <1>1, <1>2, <1>4, <2>2, <2>3
<1>5. CASE /\ e # NoEvent
           /\ \/ ring' = Put(sent, "free", e.prev) /\ lost' = Dropped(~Room(sent))
              \/ ring' = sent /\ lost' = Dropped(~Room(ring))
           /\ UNCHANGED stale
  <2>1. /\ e \in Stored /\ e.prev \in Addresses \cup {Null} /\ e.type \in {"alloc", "free"}
        /\ w \in Addresses \cup {Null}
    BY <1>1, <1>5 DEF Stored
  <2>2. sent \in Seq(Sent) /\ Len(sent) <= RingSize
    BY <1>1, <2>1, PutType
  <2>3. Put(sent, "free", e.prev) \in Seq(Sent) /\ Len(Put(sent, "free", e.prev)) <= RingSize
    BY <2>1, <2>2, PutType
  <2>4. lost' \in BOOLEAN
    BY <1>5 DEF Dropped
  <2> QED  BY <1>1, <1>2, <1>5, <2>2, <2>3, <2>4
<1>6. \/ UNCHANGED <<ring, lost, stale>>
      \/ /\ e # NoEvent
         /\ ring' = Put(ring, "free", e.prev) /\ stale' \subseteq stale \cup {e.prev}
         /\ UNCHANGED lost
      \/ /\ e # NoEvent
         /\ \/ ring' = Put(sent, "free", e.prev) /\ lost' = Dropped(~Room(sent))
            \/ ring' = sent /\ lost' = Dropped(~Room(ring))
         /\ UNCHANGED stale
  BY DEF SendEvent, Silent, FreedByRealloc
<1> QED  BY <1>3, <1>4, <1>5, <1>6

\* What an exit probe sends, and where the call goes on.
ExitStep(t, a, freeOp) ==
  /\ SendEvent(t, a, freeOp) /\ UNCHANGED <<calls, heap, reader, missing>>
  /\ call' \in [Threads -> Frames] /\ \A u \in Threads \ {t} : call'[u] = call[u]
  /\ \/ call[t].pc = "mmapped" /\ a = Map(call[t].at) /\ ~freeOp
     \/ call[t].pc = "allocated" /\ call[t].at = NoBlock /\ a = Null /\ ~freeOp
     \/ call[t].pc = "allocated" /\ call[t].at \in Blocks /\ a = Ptr(call[t].at) /\ ~freeOp
     \/ call[t].pc \in {"freed", "munmapped"} /\ a = Null /\ freeOp
  /\ \/ call'[t] = Idle
     \/ /\ call'[t].pc \in Returns \ {"idle"} /\ call'[t].next = "idle" /\ call'[t].untold
        /\ call'[t].arg = call[t].arg /\ (call'[t].pc = "realloc" => call[t].arg \in Blocks)
        /\ call'[t].at = NoBlock \/ (call[t].pc = "mmapped" /\ call'[t].at = call[t].at)

\* Every exit probe is such a step.
LEMMA ExitIs ==
  ASSUME RestrackInv, NEW t \in Threads, ExitProbe(t)
  PROVE  \E a \in Addresses \cup {Null}, freeOp \in BOOLEAN : ExitStep(t, a, freeOp)
<1>0. /\ TypeOK /\ HasBlock /\ call[t] \in Frames /\ call \in [Threads -> Frames]
      /\ call[t].next \in Returns /\ NoBlock \in Held /\ call[t].at \in Held
      /\ call[t].arg \in Held /\ Blocks \subseteq Held /\ TRUE \in BOOLEAN /\ FALSE \in BOOLEAN
  BY DEF RestrackInv, TypeOK, Frames, Held
<1>1. CASE MmapExit(t)
  <2>1. call[t].at \in Blocks /\ Map(call[t].at) \in Addresses \cup {Null}
    BY <1>0, <1>1, AddressType DEF MmapExit, HasBlock
  <2>2. PICK at \in {call[t].at, NoBlock} : Resume(t, call[t].next, at)
    BY <1>1 DEF MmapExit
  <2>a. at \in Held
    BY <1>0
  <2>3. /\ call' \in [Threads -> Frames] /\ \A u \in Threads \ {t} : call'[u] = call[u]
        /\ call[t].next = "idle" => call'[t] = Idle
        /\ call[t].next # "idle" => /\ call'[t].pc = call[t].next /\ call'[t].next = "idle"
                                    /\ call'[t].arg = call[t].arg /\ call'[t].at = at
                                    /\ call'[t].untold = TRUE
    BY <1>0, <2>2, <2>a, ResumeType
  <2>4. ExitStep(t, Map(call[t].at), FALSE)
    BY <1>0, <1>1, <2>2, <2>3 DEF MmapExit, ExitStep, HasBlock
  <2> QED  BY <2>1, <2>4
<1>2. CASE MunmapExit(t)
  <2>3. /\ call' \in [Threads -> Frames] /\ \A u \in Threads \ {t} : call'[u] = call[u]
        /\ call[t].next = "idle" => call'[t] = Idle
        /\ call[t].next # "idle" => /\ call'[t].pc = call[t].next /\ call'[t].next = "idle"
                                    /\ call'[t].arg = call[t].arg /\ call'[t].at = NoBlock
                                    /\ call'[t].untold = TRUE
    <3>1. Resume(t, call[t].next, NoBlock)
      BY <1>2 DEF MunmapExit
    <3> QED  BY <1>0, <3>1, ResumeType
  <2>4. ExitStep(t, Null, TRUE)
    BY <1>0, <1>2, <2>3 DEF MunmapExit, ExitStep, HasBlock
  <2> QED  BY <2>4
<1>3. CASE AllocExit(t)
  <2> DEFINE a == IF call[t].at = NoBlock THEN Null ELSE Ptr(call[t].at)
             c == IF NoBlock \in {call[t].arg, call[t].at} THEN Idle
                  ELSE [Idle EXCEPT !.pc = "free", !.arg = call[t].arg, !.untold = TRUE]
  <2>1. a \in Addresses \cup {Null}
    BY <1>0, AddressType DEF Held
  <2>2. c \in Frames
    BY <1>0 DEF Frames, Idle, Calls, Returns
  <2>3. \/ c = Idle
        \/ /\ c.pc = "free" /\ c.next = "idle" /\ c.untold /\ c.arg = call[t].arg
           /\ c.at = NoBlock
    BY DEF Idle
  <2>4. SendEvent(t, a, FALSE) /\ call' = [call EXCEPT ![t] = c]
        /\ UNCHANGED <<calls, heap, reader, missing>> /\ call[t].pc = "allocated"
    BY <1>3 DEF AllocExit
  <2>5. \/ call[t].at = NoBlock /\ a = Null
        \/ call[t].at \in Blocks /\ a = Ptr(call[t].at)
    BY <1>0 DEF Held
  <2> HIDE DEF a, c
  <2>6. call' \in [Threads -> Frames] /\ call'[t] = c /\ \A u \in Threads \ {t} : call'[u] = call[u]
    BY <1>0, <2>2, <2>4
  <2>7. "free" \in Returns \ {"idle"}
    BY DEF Returns
  <2>8. ExitStep(t, a, FALSE)
    BY <2>3, <2>4, <2>5, <2>6, <2>7 DEF ExitStep
  <2> QED  BY <2>1, <2>8
<1>4. CASE FreeExit(t)
  <2>1. Idle \in Frames
    BY <1>0 DEF Idle, Frames, Calls, Returns
  <2>2. ExitStep(t, Null, TRUE)
    BY <1>0, <1>4, <2>1 DEF FreeExit, ExitStep
  <2> QED  BY <2>2
<1> QED  BY <1>1, <1>2, <1>3, <1>4 DEF ExitProbe

\* The exit probes keep it: a call that ends leaves no event.
LEMMA ExitInv ==
  ASSUME RestrackInv, NEW t \in Threads, NEW a \in Addresses \cup {Null}, NEW freeOp \in BOOLEAN,
         ExitStep(t, a, freeOp)
  PROVE  RestrackInv'
<1>0. TypeOK
  BY DEF RestrackInv
<1>1. UNCHANGED <<calls, heap, reader, missing>> /\ SendEvent(t, a, freeOp)
  BY DEF ExitStep
<1>3. /\ ring' \in Seq(Sent) /\ Len(ring') <= RingSize
      /\ lost' \in BOOLEAN /\ stale' \subseteq Addresses \cup {Null}
      /\ args' = [args EXCEPT ![t] = NoEvent]
  BY <1>1, SendType
<1>4. RestType
  BY <1>0, <1>1, <1>3 DEF RestType, TypeOK
<1>5. args' \in [Threads -> Stored \cup {NoEvent}] /\ args'[t] = NoEvent
      /\ \A u \in Threads \ {t} : args'[u] = args[u]
  BY <1>0, <1>3 DEF TypeOK
<1>6. Only(t)
  BY <1>5 DEF ExitStep, Only
<1>7. Sound(t)
  <2>1. Idle.pc = "idle" /\ Idle.next = "idle"
    BY DEF Idle
  <2>2. {"mmapped", "munmap"} \cap Returns = {}
    BY DEF Returns
  <2> QED  BY <1>5, <2>1, <2>2 DEF ExitStep, Sound
<1> QED  BY <1>1, <1>4, <1>6, <1>7, StepInv

\* So does the collector.
LEMMA CollectorInv ==
  ASSUME RestrackInv, Collector \/ Stop
  PROVE  RestrackInv'
<1> USE DEF RestrackInv
<1>1. UNCHANGED <<target, args, lost, history>>
  BY DEF Collector, Consume, PollTimesOut, CheckLost, Stop, kernel
<1>2. /\ ring' \in Seq(Sent) /\ Len(ring') <= RingSize
      /\ tracked' \subseteq Addresses \cup {Null}
  <2>1. CASE Consume
    <3>1. /\ ring # <<>> /\ ring' = Tail(ring) /\ tracked' = Handled(Head(ring))
      BY <2>1 DEF Consume
    <3>2. ring \in Seq(Sent) /\ Len(ring) <= RingSize
      BY DEF TypeOK
    <3>3. Head(ring) \in Sent /\ ring' \in Seq(Sent) /\ Len(ring') = Len(ring) - 1
      BY <3>1, <3>2
    <3>4. tracked' \subseteq Addresses \cup {Null}
      BY <3>1, <3>3 DEF Handled, Sent, TypeOK
    <3> QED  BY <3>2, <3>3, <3>4, RestrackAssumption
  <2>2. CASE PollTimesOut \/ CheckLost \/ Stop
    BY <2>2 DEF PollTimesOut, CheckLost, Stop, kernel, TypeOK
  <2> QED  BY <2>1, <2>2 DEF Collector
<1>3. collector' \in {"poll", "check", "ended"}
  BY DEF Collector, Consume, PollTimesOut, CheckLost, Stop
<1>4. incomplete' \in BOOLEAN
  <2>1. incomplete \in BOOLEAN /\ lost \in BOOLEAN
    BY DEF TypeOK
  <2>2. incomplete' = incomplete \/ incomplete' = (incomplete \/ lost)
    BY DEF Collector, Consume, PollTimesOut, CheckLost, Stop, Flag
  <2> QED  BY <2>1, <2>2, Zenon
<1>5. TypeOK'
  BY <1>1, <1>2, <1>3, <1>4 DEF TypeOK, target, history
<1>6. HasBlock' /\ NoLeftover'
  BY <1>1 DEF HasBlock, NoLeftover, target
<1> QED  BY <1>5, <1>6

\* A step of the target is one of four kinds.
LEMMA TargetIs ==
  ASSUME RestrackInv, Target
  PROVE  \E t \in Threads :
           \/ ProbeStep(t) \/ Working(t) \/ Failing(t)
           \/ \E a \in Addresses \cup {Null}, freeOp \in BOOLEAN : ExitStep(t, a, freeOp)
<1>1. PICK t \in Threads : Entry(t) \/ NestedEntry(t) \/ Library(t) \/ Kernel(t) \/ ExitProbe(t)
  BY DEF Target
<1>2. Library(t) \/ Kernel(t) => Working(t) \/ Failing(t)
  BY DEF Library, Kernel, Working, Failing
<1> QED  BY <1>1, <1>2, EntryAsks, NestedAsks, ExitIs

\* RestrackInv is inductive: whichever way calls, the library's own system calls, lost
\* map updates and the collector interleave, no thread leaves an event behind that its
\* next call would take for its own, and the ring is never overfilled.
THEOREM RestrackSafe == Spec => []RestrackInv
<1>1. Init => RestrackInv
  <2> SUFFICES ASSUME Init PROVE RestrackInv
    OBVIOUS
  <2>1. Idle \in Frames /\ Idle.pc = "idle" /\ Idle.next = "idle"
    BY DEF Idle, Frames, Calls, Returns, Held
  <2>2. ring \in Seq(Sent) /\ Len(ring) <= RingSize /\ calls \in 0..CallBound
    BY RestrackAssumption DEF Init
  <2>3. TypeOK
    BY <2>1, <2>2 DEF Init, TypeOK, HeapStates
  <2>4. HasBlock /\ NoLeftover
    BY <2>1 DEF Init, HasBlock, NoLeftover
  <2> QED  BY <2>3, <2>4 DEF RestrackInv
<1>2. RestrackInv /\ [Next]_vars => RestrackInv'
  <2> SUFFICES ASSUME RestrackInv, [Next]_vars PROVE RestrackInv'
    OBVIOUS
  <2>1. CASE Target
    BY <2>1, TargetIs, ProbeInv, WorkingQuiet, QuietInv, FailingInv, ExitInv
  <2>2. CASE Collector \/ Stop
    BY <2>2, CollectorInv
  <2>3. CASE UNCHANGED vars
    BY <2>3 DEF vars, target, kernel, reader, history, RestrackInv, TypeOK, HasBlock, NoLeftover
  <2> QED  BY <2>1, <2>2, <2>3 DEF Next
<1> QED  BY <1>1, <1>2, PTL DEF Spec
-----------------------------------------------------------------------------
(* The report: what the tracked blocks will be once the ring is drained,   *)
(* and what the calls under way have still to tell.                        *)

\* a is tracked when the events of r have been handled after s: the last of them about a is
\* its allocation, or a is in s and none of them frees it.
Stands(s, r, a) ==
  \/ a \in s /\ \A i \in 1..Len(r) : r[i].addr = a => r[i].type = "alloc"
  \/ \E i \in 1..Len(r) :
       /\ r[i].addr = a /\ r[i].type = "alloc"
       /\ \A j \in 1..Len(r) : j > i /\ r[j].addr = a => r[j].type = "alloc"

\* The blocks a call works on: nobody else does.
Owns(t, b) == b \in {call[t].arg, call[t].at}
Unowned(b) == \A u \in Threads : ~Owns(u, b)
Settled(t) ==
  LET c == call[t]
  IN  /\ c.arg # NoBlock => c.arg # c.at
      /\ c.pc = "mmapped" => heap[c.at] \in {"mapped", "region"}
      /\ c.pc = "munmap" /\ c.at # NoBlock => heap[c.at] \in {"mapped", "region"}
      /\ c.pc = "munmap" /\ c.next = "freed" => heap[c.at] = "mapped"
OwnInv ==
  /\ \A t \in Threads, b \in Blocks : Owns(t, b) => heap[b] # "free"
  /\ \A t, u \in Threads, b \in Blocks : Owns(t, b) /\ Owns(u, b) => t = u
  /\ \A t \in Threads : Settled(t)

\* What each call has in argsHashMap is what its exit needs, or the history knows.
Tells(t) ==
  LET c == call[t]
      e == args[t]
  IN  /\ e.type = "alloc" => e.addr = Null
      /\ c.pc = "realloc" => e = Moving(c.arg, c.zero) \/ (c.untold /\ e = NoEvent)
      /\ c.pc \in {"alloc", "mmap"} => c.untold \/ e = Plain
      /\ c.pc = "free" => c.untold \/ e = Freeing(IF c.arg = NoBlock THEN Null ELSE Ptr(c.arg))
      /\ c.pc = "munmap" => c.untold \/ e = Freeing(FirstAddress(c.at))
      /\ c.pc \in {"alloc", "allocated"} => e.type # "free"
      /\ c.pc \in {"free", "freed", "munmap", "munmapped"} /\ e.type = "alloc" => Null \in stale
      /\ c.pc = "mmapped" => e.type = "alloc" \/ Map(c.at) \in missing
      /\ c.pc = "allocated" /\ c.at # NoBlock /\ e # NoEvent =>
           heap[c.at] = "small" \/ Ptr(c.at) \in stale
TellInv == \A t \in Threads : Tells(t)

\* Thread t is about to tell that a was freed.
WillFree(t, a) ==
  LET c == call[t]
      e == args[t]
  IN  \/ c.pc \in {"freed", "munmapped"} /\ e = Freeing(a)
      \/ /\ c.pc = "allocated" /\ e.prev = a /\ a # Null /\ e.type = "alloc"
         /\ IF c.at = NoBlock THEN e.zero ELSE Ptr(c.at) # a

\* No address stands in the report that is neither outstanding, nor stale, nor about to be
\* told of.
FalseLeakInv ==
  ~lost => \A a \in Addresses \cup {Null} :
             Stands(tracked, ring, a) =>
               a \in Outstanding \cup stale \/ \E t \in Threads : WillFree(t, a)

\* The call of t is about to free a, or will not tell that it did.
Holds(t, a) ==
  LET c == call[t]
  IN  \/ c.pc \in {"realloc", "free"} /\ a = Ptr(c.arg)
      \/ c.pc = "munmap" /\ a = Map(c.at)
      \/ c.pc = "allocated" /\ a = Ptr(c.at)
      \/ c.pc = "allocated" /\ c.at = NoBlock /\ ~args[t].zero
\* No call tells the free of a live address, unless it is missing.
KeptInv ==
  \A t \in Threads : \A a \in {args[t].addr, args[t].prev} :
    a \in Outstanding => a \in missing \/ Holds(t, a)

\* The exit of the call of t is about to tell that a was allocated.
WillTell(t, a) ==
  /\ args[t].type = "alloc"
  /\ \/ call[t].pc = "mmapped" /\ a = Map(call[t].at)
     \/ call[t].pc = "allocated" /\ a = Ptr(call[t].at)

\* Every outstanding address stands in the report, is missing or is about to be told of.
MissedLeakInv ==
  ~lost => \A a \in Addresses :
             a \in Outstanding =>
               a \in missing \/ Stands(tracked, ring, a) \/ \E t \in Threads : WillTell(t, a)

\* An empty ring adds nothing.
LEMMA StandsEmpty == ASSUME NEW s, NEW a PROVE Stands(s, <<>>, a) <=> a \in s
BY DEF Stands

\* The newest event decides about its address.
LEMMA StandsAppend ==
  ASSUME NEW s, NEW r \in Seq(Sent), NEW type \in {"alloc", "free"},
         NEW x \in Addresses \cup {Null}, NEW a
  PROVE  Stands(s, Append(r, [type |-> type, addr |-> x]), a)
           <=> IF x = a THEN type = "alloc" ELSE Stands(s, r, a)
<1> DEFINE e == [type |-> type, addr |-> x]
           q == Append(r, e)
<1>1. /\ Len(q) = Len(r) + 1 /\ Len(r) \in Nat
      /\ q[Len(q)] = e /\ \A i \in 1..Len(r) : q[i] = r[i]
  BY DEF Sent
<1>2. \A i \in 1..Len(q) : i = Len(q) \/ i \in 1..Len(r)
  BY <1>1
<1>3. 1..Len(r) \subseteq 1..Len(q) /\ Len(q) \in 1..Len(q)
  BY <1>1
<1> HIDE DEF q
<1>4. CASE x = a /\ type = "alloc"
  <2>1. q[Len(q)].addr = a /\ q[Len(q)].type = "alloc"
    BY <1>1, <1>4
  <2>2. \A j \in 1..Len(q) : ~(j > Len(q))
    BY <1>1
  <2> QED  BY <1>3, <1>4, <2>1, <2>2 DEF Stands, q
<1>5. CASE x = a /\ type = "free"
  <2>1. q[Len(q)].addr = a /\ q[Len(q)].type # "alloc"
    BY <1>1, <1>5
  <2>2. \A i \in 1..Len(q) : q[i].type = "alloc" => Len(q) > i
    BY <1>1, <1>2, <2>1
  <2>3. ~Stands(s, q, a)
    BY <1>3, <2>1, <2>2 DEF Stands
  <2> QED  BY <1>5, <2>3 DEF q
<1>6. CASE x # a
  <2>1. q[Len(q)].addr # a
    BY <1>1, <1>6
  <2>2. (\A i \in 1..Len(q) : q[i].addr = a => q[i].type = "alloc")
          <=> \A i \in 1..Len(r) : r[i].addr = a => r[i].type = "alloc"
    BY <1>1, <1>2, <1>3, <2>1
  <2>3. ASSUME NEW i \in 1..Len(r)
        PROVE  (\A j \in 1..Len(q) : j > i /\ q[j].addr = a => q[j].type = "alloc")
                 <=> \A j \in 1..Len(r) : j > i /\ r[j].addr = a => r[j].type = "alloc"
    BY <1>1, <1>2, <1>3, <2>1
  <2>4. (\E i \in 1..Len(q) :
          /\ q[i].addr = a /\ q[i].type = "alloc"
          /\ \A j \in 1..Len(q) : j > i /\ q[j].addr = a => q[j].type = "alloc")
        <=> \E i \in 1..Len(r) :
              /\ r[i].addr = a /\ r[i].type = "alloc"
              /\ \A j \in 1..Len(r) : j > i /\ r[j].addr = a => r[j].type = "alloc"
    BY <1>1, <1>2, <1>3, <2>1, <2>3
  <2> QED  BY <1>6, <2>2, <2>4 DEF Stands, q
<1> QED  BY <1>4, <1>5, <1>6

\* Handling the oldest event changes nothing of what will be tracked in the end.
LEMMA StandsHandled ==
  ASSUME NEW r \in Seq(Sent), r # <<>>, NEW a
  PROVE  Stands(Handled(Head(r)), Tail(r), a) <=> Stands(tracked, r, a)
<1> DEFINE q == Tail(r)
           s == Handled(Head(r))
<1>1. /\ Len(r) \in Nat /\ Len(q) = Len(r) - 1 /\ Len(r) >= 1
      /\ \A i \in 1..Len(q) : q[i] = r[i + 1]
      /\ r[1] \in Sent /\ Head(r) = r[1]
  <2>1. Len(r) \in Nat /\ Len(r) >= 1 /\ Len(q) = Len(r) - 1
    OBVIOUS
  <2>2. r[1] \in Sent /\ Head(r) = r[1]
    BY <2>1
  <2>3. \A i \in 1..Len(q) : q[i] = r[i + 1]
    BY <2>1
  <2> QED  BY <2>1, <2>2, <2>3
<1>2. /\ \A i \in 1..Len(r) : i = 1 \/ i - 1 \in 1..Len(q)
      /\ \A i \in 1..Len(q) : i + 1 \in 1..Len(r) /\ i + 1 > 1
      /\ 1 \in 1..Len(r)
  BY <1>1
<1>s. a \in s <=> IF r[1].addr = a THEN r[1].type = "alloc" ELSE a \in tracked
  BY <1>1 DEF Handled, Sent
<1> HIDE DEF q, s
<1>3. (\A i \in 1..Len(r) : r[i].addr = a => r[i].type = "alloc")
        <=> /\ r[1].addr = a => r[1].type = "alloc"
            /\ \A i \in 1..Len(q) : q[i].addr = a => q[i].type = "alloc"
  <2>1. ASSUME NEW i \in 1..Len(r), i # 1, \A k \in 1..Len(q) : q[k].addr = a => q[k].type = "alloc"
        PROVE  r[i].addr = a => r[i].type = "alloc"
    <3>1. i - 1 \in 1..Len(q) /\ q[i - 1] = r[i]
      BY <1>1, <1>2, <2>1
    <3> QED  BY <2>1, <3>1
  <2> QED  BY <1>1, <1>2, <2>1
<1> DEFINE Ends(w, i) == /\ w[i].addr = a /\ w[i].type = "alloc"
                         /\ \A j \in 1..Len(w) : j > i /\ w[j].addr = a => w[j].type = "alloc"
<1>4. ASSUME NEW i \in 1..Len(q) PROVE Ends(q, i) <=> Ends(r, i + 1)
  <2>1. ASSUME NEW j \in 1..Len(r), j > i + 1
        PROVE  j - 1 \in 1..Len(q) /\ j - 1 > i /\ q[j - 1] = r[j]
    BY <1>1, <1>2, <2>1
  <2>2. ASSUME NEW j \in 1..Len(q), j > i
        PROVE  j + 1 \in 1..Len(r) /\ j + 1 > i + 1 /\ q[j] = r[j + 1]
    BY <1>1, <1>2, <2>2
  <2>3. ASSUME Ends(q, i) PROVE Ends(r, i + 1)
    BY <1>1, <2>1, <2>3
  <2>4. ASSUME Ends(r, i + 1) PROVE Ends(q, i)
    BY <1>1, <2>2, <2>4
  <2> QED  BY <2>3, <2>4
<1>5. Ends(r, 1) <=> /\ r[1].addr = a /\ r[1].type = "alloc"
                     /\ \A i \in 1..Len(q) : q[i].addr = a => q[i].type = "alloc"
  <2>1. ASSUME NEW j \in 1..Len(r), j > 1 PROVE j - 1 \in 1..Len(q) /\ q[j - 1] = r[j]
    BY <1>1, <1>2, <2>1
  <2> QED  BY <1>1, <1>2, <2>1
<1>6. (\E i \in 1..Len(r) : Ends(r, i)) <=> Ends(r, 1) \/ \E i \in 1..Len(q) : Ends(q, i)
  <2>1. ASSUME NEW i \in 1..Len(r), i # 1 PROVE i - 1 \in 1..Len(q) /\ (Ends(r, i) => Ends(q, i - 1))
    <3>1. i - 1 \in 1..Len(q) /\ (i - 1) + 1 = i
      BY <1>1, <1>2, <2>1
    <3> HIDE DEF Ends
    <3> QED  BY <1>4, <3>1
  <2> HIDE DEF Ends
  <2> QED  BY <1>2, <1>4, <2>1
<1>7. Stands(tracked, r, a)
        <=> \/ a \in tracked /\ \A i \in 1..Len(r) : r[i].addr = a => r[i].type = "alloc"
            \/ \E i \in 1..Len(r) : Ends(r, i)
  BY DEF Stands
<1>8. Stands(s, q, a)
        <=> \/ a \in s /\ \A i \in 1..Len(q) : q[i].addr = a => q[i].type = "alloc"
            \/ \E i \in 1..Len(q) : Ends(q, i)
  BY DEF Stands
<1> HIDE DEF Ends
<1>9. Stands(s, q, a) <=> Stands(tracked, r, a)
  BY <1>s, <1>3, <1>5, <1>6, <1>7, <1>8
<1> QED  BY <1>9 DEF s, q
\* An event that found room decides about its address.
LEMMA PutStands ==
  ASSUME NEW r \in Seq(Sent), NEW type \in {"alloc", "free"}, NEW x \in Addresses \cup {Null},
         NEW a
  PROVE  /\ Room(r) => (Stands(tracked, Put(r, type, x), a)
                          <=> IF x = a THEN type = "alloc" ELSE Stands(tracked, r, a))
         /\ ~Room(r) => Put(r, type, x) = r
<1>1. CASE Room(r)
  BY <1>1, StandsAppend DEF Put
<1>2. CASE ~Room(r)
  BY <1>2 DEF Put
<1> QED  BY <1>1, <1>2

\* Nothing the collector does changes what will stand in the report.
LEMMA CollectorStands ==
  ASSUME RestrackInv, Collector \/ Stop, NEW a
  PROVE  Stands(tracked, ring, a)' <=> Stands(tracked, ring, a)
<1>1. CASE Consume
  <2>1. /\ ring # <<>> /\ ring \in Seq(Sent)
        /\ tracked' = Handled(Head(ring)) /\ ring' = Tail(ring)
    BY <1>1 DEF Consume, RestrackInv, TypeOK
  <2>2. Stands(Handled(Head(ring)), Tail(ring), a) <=> Stands(tracked, ring, a)
    BY <2>1, StandsHandled
  <2> QED  BY <2>1, <2>2 DEF Stands
<1>2. CASE PollTimesOut \/ CheckLost \/ Stop
  BY <1>2 DEF PollTimesOut, CheckLost, Stop, kernel, Stands
<1> QED  BY <1>1, <1>2 DEF Collector

-----------------------------------------------------------------------------
(* What a step of the target does, seen by the other threads.              *)

\* It changes only blocks of its own, free ones and ones that nobody works on, and takes no
\* block from another call.
Alone(t) ==
  /\ \A u \in Threads \ {t} : call'[u] = call[u] /\ args'[u] = args[u]
  /\ \A b \in Blocks : heap'[b] = heap[b] \/ heap[b] = "free" \/ Owns(t, b) \/ Unowned(b)
  /\ \A b \in Blocks : Owns(t, b)' => /\ heap'[b] # "free"
                                      /\ Owns(t, b) \/ heap[b] = "free" \/ Unowned(b)
  /\ Settled(t)'

\* An address leaves the history only when it is allocated, or freed.
Remembers(t) ==
  /\ Null \in stale => Null \in stale'
  /\ \A b \in Blocks :
       /\ Ptr(b) \in stale => Ptr(b) \in stale' \/ (heap[b] = "free" /\ heap'[b] = "small")
       /\ Map(b) \in stale => Map(b) \in stale' \/ heap'[b] \in {"mapped", "region"}
       /\ Ptr(b) \in missing => Ptr(b) \in missing' \/ heap'[b] # "small"
       /\ Map(b) \in missing =>
            \/ Map(b) \in missing'
            \/ heap'[b] \notin {"mapped", "region"} /\ (Owns(t, b) \/ Unowned(b))

\* What stops to be outstanding is stale, or its free will be told.
Gone(t) ==
  \A b \in Blocks :
    /\ heap[b] = "small" /\ heap'[b] # "small" => Ptr(b) \in stale' \/ WillFree(t, Ptr(b))'
    /\ heap[b] \in {"mapped", "region"} /\ heap'[b] \notin {"mapped", "region"} =>
         Map(b) \in stale' \/ WillFree(t, Map(b))'

\* What becomes outstanding is missing, or will be told of and no event speaks of it.
Given(t) ==
  \A b \in Blocks :
    /\ heap[b] # "small" /\ heap'[b] = "small" =>
         Ptr(b) \in missing' \/ (WillTell(t, Ptr(b))' /\ ~Mentioned(Ptr(b)))
    /\ heap[b] \notin {"mapped", "region"} /\ heap'[b] \in {"mapped", "region"} =>
         Map(b) \in missing' \/ (WillTell(t, Map(b))' /\ ~Mentioned(Map(b)))

\* A free that the call has yet to make it makes, or will not tell.
Holding(t) ==
  \A b \in Blocks :
    /\ /\ Holds(t, Ptr(b)) /\ heap[b] = "small" /\ heap'[b] = "small"
       /\ Ptr(b) \in {args[t].addr, args[t].prev}
       => Ptr(b) \in missing' \/ Holds(t, Ptr(b))'
    /\ Holds(t, Map(b)) /\ heap[b] \in {"mapped", "region"} /\ heap'[b] \in {"mapped", "region"}
       => Holds(t, Map(b))'

Effects(t) ==
  /\ Alone(t) /\ Tells(t)' /\ Remembers(t) /\ Gone(t) /\ Given(t) /\ Holding(t)

\* No call of the allocator, and no system call, is about to tell anything yet.
LEMMA Untelling ==
  ASSUME NEW t \in Threads,
         call[t].pc \in {"idle", "alloc", "realloc", "free", "mmap", "munmap"}
  PROVE  \A a : ~WillFree(t, a) /\ ~WillTell(t, a)
BY DEF WillFree, WillTell

\* An allocation that fails has the effects the other threads count on.
LEMMA AllocFailsEffects ==
  ASSUME RestrackInv, OwnInv, TellInv, NEW t \in Threads, AllocFails(t)
  PROVE  Effects(t)
<1>0. /\ call \in [Threads -> Frames] /\ call[t] \in Frames /\ heap \in [Blocks -> HeapStates]
      /\ args' = args /\ args[t] \in Stored \cup {NoEvent} /\ NoBlock \notin Blocks
      /\ Tells(t) /\ Settled(t) /\ call[t].arg \in Held /\ call[t].at \in Held
  BY RestrackAssumption DEF RestrackInv, TypeOK, OwnInv, TellInv, Frames, AllocFails, kernel
<1>2. /\ \A u \in Threads \ {t} : call'[u] = call[u]
      /\ call'[t].untold = call[t].untold /\ call'[t].zero = call[t].zero
      /\ call'[t].next = call[t].next
  BY <1>0 DEF AllocFails, Becomes, Frames
<1>3. call'[t].pc = "allocated" /\ call'[t].arg = call[t].arg /\ call'[t].at = NoBlock
  BY <1>0 DEF AllocFails, Becomes, Frames
<1>4. Alone(t)
  BY <1>0, <1>2, <1>3 DEF Alone, Owns, Unowned, Settled, OwnInv, AllocFails
<1>5. Tells(t)'
  BY <1>0, <1>2, <1>3, EventKinds, Addressing DEF Tells, AllocFails
<1>6. Remembers(t)
  BY <1>0, <1>2, <1>3, Addressing DEF Remembers, Owns, Unowned, history, AllocFails
<1>7. Gone(t)
  BY <1>0, <1>2, <1>3, EventKinds, Addressing DEF Gone, WillFree, Tells, history, AllocFails
<1>8. Given(t)
  BY <1>0, <1>2, <1>3, EventKinds, Addressing DEF Given, WillTell, Tells, history, AllocFails
<1>9. Holding(t)
  BY <1>0, <1>2, <1>3, EventKinds, Addressing DEF Holding, Holds, Tells, AllocFails
<1> QED  BY <1>4, <1>5, <1>6, <1>7, <1>8, <1>9 DEF Effects

\* A reallocarray whose size wraps to 0 has the effects the other threads count on.
LEMMA ReallocWrapsEffects ==
  ASSUME RestrackInv, OwnInv, TellInv, NEW t \in Threads, ReallocWraps(t)
  PROVE  Effects(t)
<1>0. /\ call \in [Threads -> Frames] /\ call[t] \in Frames /\ heap \in [Blocks -> HeapStates]
      /\ args' = args /\ args[t] \in Stored \cup {NoEvent} /\ NoBlock \notin Blocks
      /\ Tells(t) /\ Settled(t) /\ call[t].arg \in Held /\ call[t].at \in Held
  BY RestrackAssumption DEF RestrackInv, TypeOK, OwnInv, TellInv, Frames, ReallocWraps, kernel
<1>1. call[t].arg \in Blocks
  BY DEF RestrackInv, HasBlock, ReallocWraps
<1>2. /\ \A u \in Threads \ {t} : call'[u] = call[u]
      /\ call'[t].untold = call[t].untold /\ call'[t].zero = call[t].zero
      /\ call'[t].next = call[t].next
  BY <1>0 DEF ReallocWraps, Becomes, Frames
<1>3. call'[t].pc = "allocated" /\ call'[t].arg = call[t].arg /\ call'[t].at = NoBlock
  BY <1>0 DEF ReallocWraps, Becomes, Frames
<1>h. heap' = heap /\ stale' = stale
      /\ \A b \in Blocks : /\ Ptr(b) \in missing => Ptr(b) \in missing'
                           /\ Map(b) \in missing => Map(b) \in missing'
                           /\ heap[b] = "small" /\ args[t].prev = Ptr(b) => Ptr(b) \in missing'
  BY <1>0, OutstandingIs DEF ReallocWraps
<1>e. call[t].pc = "realloc" /\ args[t].type # "free" /\ args[t].addr = Null
  <2>1. call[t].pc = "realloc" /\ (args[t] = Moving(call[t].arg, call[t].zero) \/ args[t] = NoEvent)
    BY <1>0 DEF Tells, ReallocWraps
  <2> QED  BY <2>1, EventKinds
<1>4. Alone(t)
  BY <1>0, <1>1, <1>2, <1>3, <1>h DEF Alone, Owns, Unowned, Settled, OwnInv
<1>5. Tells(t)'
  BY <1>0, <1>3, <1>e DEF Tells
<1>6. Remembers(t)
  BY <1>0, <1>1, <1>2, <1>3, Addressing DEF Remembers, Owns, Unowned, history, ReallocWraps
<1>7. Gone(t)
  BY <1>0, <1>1, <1>2, <1>3, EventKinds, Addressing DEF Gone, WillFree, Tells, history, ReallocWraps
<1>8. Given(t)
  BY <1>h DEF Given
<1>9. Holding(t)
  BY <1>1, <1>3, <1>h, <1>e, Addressing DEF Holding, Holds
<1> QED  BY <1>4, <1>5, <1>6, <1>7, <1>8, <1>9 DEF Effects

\* A realloc in place has the effects the other threads count on.
LEMMA ReallocInPlaceEffects ==
  ASSUME RestrackInv, OwnInv, TellInv, NEW t \in Threads, ReallocInPlace(t)
  PROVE  Effects(t)
<1>0. /\ call \in [Threads -> Frames] /\ call[t] \in Frames /\ heap \in [Blocks -> HeapStates]
      /\ args' = args /\ args[t] \in Stored \cup {NoEvent} /\ NoBlock \notin Blocks
      /\ Tells(t) /\ Settled(t) /\ call[t].arg \in Held /\ call[t].at \in Held
  BY RestrackAssumption DEF RestrackInv, TypeOK, OwnInv, TellInv, Frames, ReallocInPlace, kernel
<1>1. call[t].arg \in Blocks
  BY DEF RestrackInv, HasBlock, ReallocInPlace
<1>2. /\ \A u \in Threads \ {t} : call'[u] = call[u]
      /\ call'[t].untold = call[t].untold /\ call'[t].zero = call[t].zero
      /\ call'[t].next = call[t].next
  BY <1>0 DEF ReallocInPlace, Becomes, Frames
<1>3. call'[t].pc = "allocated" /\ call'[t].arg = NoBlock /\ call'[t].at = call[t].arg
  BY <1>0 DEF ReallocInPlace, Becomes, Frames
<1>4. Alone(t)
  BY <1>0, <1>1, <1>2, <1>3 DEF Alone, Owns, Unowned, Settled, OwnInv, ReallocInPlace
<1>5. Tells(t)'
  BY <1>0, <1>1, <1>2, <1>3, EventKinds, Addressing DEF Tells, ReallocInPlace
<1>6. Remembers(t)
  BY <1>0, <1>1, <1>2, <1>3, Addressing DEF Remembers, Owns, Unowned, history, ReallocInPlace
<1>7. Gone(t)
  BY <1>0, <1>1, <1>2, <1>3, EventKinds, Addressing DEF Gone, WillFree, Tells, history, ReallocInPlace
<1>8. Given(t)
  BY <1>0, <1>1, <1>2, <1>3, EventKinds, Addressing DEF Given, WillTell, Tells, history, ReallocInPlace
<1>9. Holding(t)
  BY <1>0, <1>1, <1>2, <1>3, EventKinds, Addressing DEF Holding, Holds, Tells, ReallocInPlace
<1> QED  BY <1>4, <1>5, <1>6, <1>7, <1>8, <1>9 DEF Effects

\* A realloc to nothing has the effects the other threads count on.
LEMMA ReallocFreesEffects ==
  ASSUME RestrackInv, OwnInv, TellInv, NEW t \in Threads, ReallocFrees(t)
  PROVE  Effects(t)
<1>0. /\ call \in [Threads -> Frames] /\ call[t] \in Frames /\ heap \in [Blocks -> HeapStates]
      /\ args' = args /\ args[t] \in Stored \cup {NoEvent} /\ NoBlock \notin Blocks
      /\ Tells(t) /\ Settled(t) /\ call[t].arg \in Held /\ call[t].at \in Held
  BY RestrackAssumption DEF RestrackInv, TypeOK, OwnInv, TellInv, Frames, ReallocFrees, kernel
<1>1. call[t].arg \in Blocks
  BY DEF RestrackInv, HasBlock, ReallocFrees
<1>2. /\ \A u \in Threads \ {t} : call'[u] = call[u]
      /\ call'[t].untold = call[t].untold /\ call'[t].zero = call[t].zero
      /\ call'[t].next = call[t].next
  BY <1>0 DEF ReallocFrees, Becomes, Frames
<1>3. call'[t].pc = "allocated" /\ call'[t].arg = NoBlock /\ call'[t].at = NoBlock
  BY <1>0 DEF ReallocFrees, Becomes, Frames
<1>h. heap' = [heap EXCEPT ![call[t].arg] = "free"] /\ heap[call[t].arg] = "small"
      /\ call[t].pc = "realloc" /\ call[t].zero = TRUE
  BY <1>0 DEF ReallocFrees, Frames
<1>e. call[t].pc = "realloc" /\ args[t].type # "free" /\ args[t].addr = Null
  <2>1. call[t].pc = "realloc" /\ (args[t] = Moving(call[t].arg, call[t].zero) \/ args[t] = NoEvent)
    BY <1>0 DEF Tells, ReallocFrees
  <2> QED  BY <2>1, EventKinds
<1>4. Alone(t)
  BY <1>0, <1>1, <1>2, <1>3, <1>h DEF Alone, Owns, Unowned, Settled, OwnInv
<1>5. Tells(t)'
  BY <1>0, <1>3, <1>e DEF Tells
<1>6. Remembers(t)
  <2>1. /\ missing' = missing \ {Ptr(call[t].arg)} /\ stale \subseteq stale'
    BY DEF ReallocFrees, Changes
  <2> QED  BY <1>0, <1>1, <1>h, <2>1, Addressing DEF Remembers
<1>7. Gone(t)
  <2>1. args[t] = Moving(call[t].arg, TRUE) \/ call[t].untold
    BY <1>0, <1>h DEF Tells
  <2>2. call[t].untold => Ptr(call[t].arg) \in stale'
    BY DEF ReallocFrees, Changes
  <2>3. ASSUME NEW b \in Blocks, args[t] = Moving(b, TRUE) PROVE WillFree(t, Ptr(b))'
    <3>1. args'[t].zero = TRUE /\ args'[t].type = "alloc" /\ args'[t].prev = Ptr(b)
      BY <1>0, <2>3 DEF Moving, Event
    <3>2. Ptr(b) # Null
      BY Addressing
    <3> QED  BY <1>3, <3>1, <3>2 DEF WillFree
  <2>4. \A b \in Blocks : heap'[b] = heap[b] \/ b = call[t].arg
    BY <1>0, <1>h
  <2> QED  BY <1>h, <2>1, <2>2, <2>3, <2>4 DEF Gone
<1>8. Given(t)
  BY <1>0, <1>1, <1>2, <1>3, EventKinds, Addressing DEF Given, WillTell, Tells, history, ReallocFrees, Changes
<1>9. Holding(t)
  BY <1>0, <1>1, <1>2, <1>3, EventKinds, Addressing DEF Holding, Holds, Tells, ReallocFrees, Changes
<1> QED  BY <1>4, <1>5, <1>6, <1>7, <1>8, <1>9 DEF Effects

\* A free has the effects the other threads count on.
LEMMA FreeEffects ==
  ASSUME RestrackInv, OwnInv, TellInv, NEW t \in Threads, Free(t)
  PROVE  Effects(t)
<1>0. /\ call \in [Threads -> Frames] /\ call[t] \in Frames /\ heap \in [Blocks -> HeapStates]
      /\ args' = args /\ args[t] \in Stored \cup {NoEvent} /\ NoBlock \notin Blocks
      /\ Tells(t) /\ Settled(t) /\ call[t].arg \in Held /\ call[t].at \in Held
  BY RestrackAssumption DEF RestrackInv, TypeOK, OwnInv, TellInv, Frames, Free, kernel
<1>2. /\ \A u \in Threads \ {t} : call'[u] = call[u]
      /\ call'[t].untold = call[t].untold /\ call'[t].zero = call[t].zero
      /\ call'[t].next = call[t].next
  BY <1>0 DEF Free, Becomes, Frames
<1>3. call'[t].pc = "freed" /\ call'[t].arg = NoBlock /\ call'[t].at = NoBlock
  BY <1>0 DEF Free, Becomes, Frames
<1>4. Alone(t)
  BY <1>0, <1>2, <1>3 DEF Alone, Owns, Unowned, Settled, OwnInv, Free, Changes
<1>5. Tells(t)'
  BY <1>0, <1>2, <1>3, EventKinds, Addressing DEF Tells, Free, Changes
<1>6. Remembers(t)
  BY <1>0, <1>2, <1>3, Addressing DEF Remembers, Owns, Unowned, history, Free, Changes
<1>7. Gone(t)
  BY <1>0, <1>2, <1>3, EventKinds, Addressing DEF Gone, WillFree, Tells, history, Free, Changes
<1>8. Given(t)
  BY <1>0, <1>2, <1>3, EventKinds, Addressing DEF Given, WillTell, Tells, history, Free, Changes
<1>9. Holding(t)
  BY <1>0, <1>2, <1>3, EventKinds, Addressing DEF Holding, Holds, Tells, Free, Changes
<1> QED  BY <1>4, <1>5, <1>6, <1>7, <1>8, <1>9 DEF Effects

\* An allocation has the effects the other threads count on.
LEMMA AllocEffects ==
  ASSUME RestrackInv, OwnInv, TellInv, NEW t \in Threads, NEW b \in Blocks, Alloc(t, b)
  PROVE  Effects(t)
<1>0. /\ call \in [Threads -> Frames] /\ call[t] \in Frames /\ heap \in [Blocks -> HeapStates]
      /\ args' = args /\ args[t] \in Stored \cup {NoEvent} /\ NoBlock \notin Blocks
      /\ Tells(t) /\ Settled(t) /\ call[t].arg \in Held /\ call[t].at \in Held
  BY RestrackAssumption DEF RestrackInv, TypeOK, OwnInv, TellInv, Frames, Alloc, kernel
<1>2. /\ \A u \in Threads \ {t} : call'[u] = call[u]
      /\ call'[t].untold = call[t].untold /\ call'[t].zero = call[t].zero
      /\ call'[t].next = call[t].next
  BY <1>0 DEF Alloc, Becomes, Frames
<1>3. call'[t].pc = "allocated" /\ call'[t].arg = call[t].arg /\ call'[t].at = b
  BY <1>0 DEF Alloc, Becomes, Frames
<1>4. Alone(t)
  BY <1>0, <1>2, <1>3 DEF Alone, Owns, Unowned, Settled, OwnInv, Alloc, Changes
<1>5. Tells(t)'
  BY <1>0, <1>2, <1>3, EventKinds, Addressing DEF Tells, Alloc, Changes
<1>6. Remembers(t)
  BY <1>0, <1>2, <1>3, Addressing DEF Remembers, Owns, Unowned, history, Alloc, Changes
<1>7. Gone(t)
  BY <1>0, <1>2, <1>3, EventKinds, Addressing DEF Gone, WillFree, Tells, history, Alloc, Changes
<1>8. Given(t)
  BY <1>0, <1>2, <1>3, EventKinds, Addressing DEF Given, WillTell, Tells, history, Alloc, Changes
<1>9. Holding(t)
  BY <1>0, <1>2, <1>3, EventKinds, Addressing DEF Holding, Holds, Tells, Alloc, Changes
<1> QED  BY <1>4, <1>5, <1>6, <1>7, <1>8, <1>9 DEF Effects

\* A realloc to another block has the effects the other threads count on.
LEMMA ReallocMovesEffects ==
  ASSUME RestrackInv, OwnInv, TellInv, NEW t \in Threads, NEW b \in Blocks, ReallocMoves(t, b)
  PROVE  Effects(t)
<1>0. /\ call \in [Threads -> Frames] /\ call[t] \in Frames /\ heap \in [Blocks -> HeapStates]
      /\ args' = args /\ args[t] \in Stored \cup {NoEvent} /\ NoBlock \notin Blocks
      /\ Tells(t) /\ Settled(t) /\ call[t].arg \in Held /\ call[t].at \in Held
  BY RestrackAssumption DEF RestrackInv, TypeOK, OwnInv, TellInv, Frames, ReallocMoves, kernel
<1>1. call[t].arg \in Blocks
  BY DEF RestrackInv, HasBlock, ReallocMoves
<1>2. /\ \A u \in Threads \ {t} : call'[u] = call[u]
      /\ call'[t].untold = call[t].untold /\ call'[t].zero = call[t].zero
      /\ call'[t].next = call[t].next
  BY <1>0 DEF ReallocMoves, Becomes, Frames
<1>3. call'[t].pc = "allocated" /\ call'[t].arg = NoBlock /\ call'[t].at = b
  BY <1>0 DEF ReallocMoves, Becomes, Frames
<1>4. Alone(t)
  BY <1>0, <1>1, <1>2, <1>3 DEF Alone, Owns, Unowned, Settled, OwnInv, ReallocMoves, Changes
<1>5. Tells(t)'
  BY <1>0, <1>1, <1>2, <1>3, EventKinds, Addressing DEF Tells, ReallocMoves, Changes
<1>6. Remembers(t)
  BY <1>0, <1>1, <1>2, <1>3, Addressing DEF Remembers, Owns, Unowned, history, ReallocMoves, Changes
<1>7. Gone(t)
  BY <1>0, <1>1, <1>2, <1>3, EventKinds, Addressing DEF Gone, WillFree, Tells, history, ReallocMoves, Changes
<1>8. Given(t)
  BY <1>0, <1>1, <1>2, <1>3, EventKinds, Addressing DEF Given, WillTell, Tells, history, ReallocMoves, Changes
<1>9. Holding(t)
  BY <1>0, <1>1, <1>2, <1>3, EventKinds, Addressing DEF Holding, Holds, Tells, ReallocMoves, Changes
<1> QED  BY <1>4, <1>5, <1>6, <1>7, <1>8, <1>9 DEF Effects

\* A realloc by mremap has the effects the other threads count on.
LEMMA ReallocRemapsEffects ==
  ASSUME RestrackInv, OwnInv, TellInv, NEW t \in Threads, NEW b \in Blocks, ReallocRemaps(t, b)
  PROVE  Effects(t)
<1>0. /\ call \in [Threads -> Frames] /\ call[t] \in Frames /\ heap \in [Blocks -> HeapStates]
      /\ args' = args /\ args[t] \in Stored \cup {NoEvent} /\ NoBlock \notin Blocks
      /\ Tells(t) /\ Settled(t) /\ call[t].arg \in Held /\ call[t].at \in Held
  BY RestrackAssumption DEF RestrackInv, TypeOK, OwnInv, TellInv, Frames, ReallocRemaps, kernel
<1>1. call[t].arg \in Blocks
  BY DEF RestrackInv, HasBlock, ReallocRemaps
<1>2. /\ \A u \in Threads \ {t} : call'[u] = call[u]
      /\ call'[t].untold = call[t].untold /\ call'[t].zero = call[t].zero
      /\ call'[t].next = call[t].next
  BY <1>0 DEF ReallocRemaps, Becomes, Frames
<1>3. call'[t].pc = "allocated" /\ call'[t].arg = NoBlock /\ call'[t].at = b
  BY <1>0 DEF ReallocRemaps, Becomes, Frames
<1>4. Alone(t)
  BY <1>0, <1>1, <1>2, <1>3 DEF Alone, Owns, Unowned, Settled, OwnInv, ReallocRemaps
<1>5. Tells(t)'
  BY <1>0, <1>1, <1>2, <1>3, EventKinds, Addressing DEF Tells, ReallocRemaps
<1>6. Remembers(t)
  BY <1>0, <1>1, <1>2, <1>3, Addressing DEF Remembers, Owns, Unowned, history, ReallocRemaps
<1>7. Gone(t)
  BY <1>0, <1>1, <1>2, <1>3, EventKinds, Addressing DEF Gone, WillFree, Tells, history, ReallocRemaps
<1>8. Given(t)
  BY <1>0, <1>1, <1>2, <1>3, EventKinds, Addressing DEF Given, WillTell, Tells, history, ReallocRemaps
<1>9. Holding(t)
  BY <1>0, <1>1, <1>2, <1>3, EventKinds, Addressing DEF Holding, Holds, Tells, ReallocRemaps
<1> QED  BY <1>4, <1>5, <1>6, <1>7, <1>8, <1>9 DEF Effects

\* A new mapping has the effects the other threads count on.
LEMMA MmapEffects ==
  ASSUME RestrackInv, OwnInv, TellInv, NEW t \in Threads, NEW b \in Blocks, NEW over \in SUBSET Blocks, Mmap(t, b, over)
  PROVE  Effects(t)
<1>0. /\ call \in [Threads -> Frames] /\ call[t] \in Frames /\ heap \in [Blocks -> HeapStates]
      /\ args' = args /\ args[t] \in Stored \cup {NoEvent} /\ NoBlock \notin Blocks
      /\ Tells(t) /\ Settled(t) /\ call[t].arg \in Held /\ call[t].at \in Held
  BY RestrackAssumption DEF RestrackInv, TypeOK, OwnInv, TellInv, Frames, Mmap, kernel
<1>2. /\ \A u \in Threads \ {t} : call'[u] = call[u]
      /\ call'[t].untold = call[t].untold /\ call'[t].zero = call[t].zero
      /\ call'[t].next = call[t].next
  BY <1>0 DEF Mmap, Becomes, Frames
<1>3. call'[t].pc = "mmapped" /\ call'[t].arg = call[t].arg /\ call'[t].at = b
  BY <1>0 DEF Mmap, Becomes, Frames
<1>4. Alone(t)
  BY <1>0, <1>2, <1>3 DEF Alone, Owns, Unowned, Settled, OwnInv, Mmap, Changes, Mapping, Overlap, Usable
<1>5. Tells(t)'
  <2>1. call[t].untold /\ args[t].type # "alloc" => Map(b) \in missing'
    BY DEF Mmap, Changes
  <2>2. args[t].type = "alloc" \/ call[t].untold
    BY <1>0, EventKinds DEF Tells, Mmap
  <2> QED  BY <1>0, <1>2, <1>3, <2>1, <2>2 DEF Tells
<1>6. Remembers(t)
  <2> DEFINE unseen == Mapping(over \ {b})
  <2>1. missing \ unseen \subseteq missing' /\ stale \ {Map(b)} \subseteq stale'
    BY DEF Mmap, Changes
  <2>2. \A d \in Blocks : Ptr(d) \notin unseen \cup {Map(b)} /\ Null \notin {Map(b)}
    BY Addressing DEF Mapping
  <2>3. \A d \in Blocks : (Map(d) \in unseen => d \in over \ {b}) /\ (Map(d) = Map(b) => d = b)
    BY Addressing DEF Mapping
  <2>4. /\ \A d \in over \ {b} : Unowned(d) /\ heap'[d] = "free"
        /\ heap'[b] \in {"mapped", "region"}
    BY <1>0 DEF Mmap, Overlap, Usable, Unowned, Owns
  <2> HIDE DEF unseen
  <2> QED  BY <2>1, <2>2, <2>3, <2>4 DEF Remembers
<1>7. Gone(t)
  BY <1>0, <1>2, <1>3, EventKinds, Addressing DEF Gone, WillFree, Tells, history, Mmap, Changes, Mapping, Overlap, Usable
<1>8. Given(t)
  BY <1>0, <1>2, <1>3, EventKinds, Addressing DEF Given, WillTell, Tells, history, Mmap, Changes, Mapping, Overlap, Usable
<1>9. Holding(t)
  BY <1>0, <1>2, <1>3, EventKinds, Addressing DEF Holding, Holds, Tells, Mmap, Changes, Mapping, Overlap, Usable
<1> QED  BY <1>4, <1>5, <1>6, <1>7, <1>8, <1>9 DEF Effects

\* A munmap has the effects the other threads count on.
LEMMA MunmapEffects ==
  ASSUME RestrackInv, OwnInv, TellInv, NEW t \in Threads, NEW over \in SUBSET Blocks, NEW front \in BOOLEAN, Munmap(t, over, front)
  PROVE  Effects(t)
<1>0. /\ call \in [Threads -> Frames] /\ call[t] \in Frames /\ heap \in [Blocks -> HeapStates]
      /\ args' = args /\ args[t] \in Stored \cup {NoEvent} /\ NoBlock \notin Blocks
      /\ Tells(t) /\ Settled(t) /\ call[t].arg \in Held /\ call[t].at \in Held
  BY RestrackAssumption DEF RestrackInv, TypeOK, OwnInv, TellInv, Frames, Munmap, kernel
<1>2. /\ \A u \in Threads \ {t} : call'[u] = call[u]
      /\ call'[t].untold = call[t].untold /\ call'[t].zero = call[t].zero
      /\ call'[t].next = call[t].next
  BY <1>0 DEF Munmap, Becomes, Frames
<1>3. call'[t].pc = "munmapped" /\ call'[t].arg = call[t].arg /\ call'[t].at = NoBlock
  <2>1. Becomes(t, "munmapped", call[t].arg, NoBlock)
    BY DEF Munmap
  <2>2. call' = [call EXCEPT ![t].pc = "munmapped", ![t].arg = call[t].arg, ![t].at = NoBlock]
    BY <2>1 DEF Becomes
  <2>3. call \in [Threads -> [pc : Calls, next : Returns, arg : Held, at : Held, zero : BOOLEAN, untold : BOOLEAN]]
    BY <1>0 DEF Frames
  <2> QED  BY <2>2, <2>3
<1>4. Alone(t)
  <2>1. \A b \in Blocks : heap'[b] = heap[b] \/ b = call[t].at \/ Unowned(b)
    BY <1>0 DEF Munmap, Overlap, Usable, Unowned, Owns
  <2>2. \A b \in Blocks : Owns(t, b) => heap[b] # "free" /\ ~Unowned(b)
    BY DEF OwnInv, Unowned
  <2>3. \A b \in Blocks : Owns(t, b)' => b = call[t].arg
    BY <1>0, <1>3 DEF Owns
  <2>4. call[t].arg \in Blocks => call[t].arg # call[t].at
    BY <1>0 DEF Settled
  <2> QED  BY <1>0, <1>2, <1>3, <2>1, <2>2, <2>3, <2>4 DEF Alone, Settled, Owns
<1>5. Tells(t)'
  BY <1>0, <1>2, <1>3, EventKinds, Addressing DEF Tells, Munmap, Changes, Mapping, Overlap, Usable
<1>6. Remembers(t)
  <2> DEFINE taken == IF call[t].at = NoBlock THEN {} ELSE {Map(call[t].at)}
             unseen == Mapping(over)
  <2>1. missing' = missing \ (taken \cup unseen) /\ stale \subseteq stale'
    BY DEF Munmap, Changes
  <2>2. \A b \in Blocks : Ptr(b) \notin taken \cup unseen
    BY Addressing DEF Mapping
  <2>3. \A b \in Blocks : Map(b) \in taken => b = call[t].at
    BY Addressing
  <2>4. \A b \in Blocks : Map(b) \in unseen => b \in over
    BY Addressing DEF Mapping
  <2>5. /\ \A b \in over : Unowned(b) /\ heap'[b] = "free"
        /\ call[t].at \in Blocks => heap'[call[t].at] \in {"free", "rest"}
    BY <1>0 DEF Munmap, Overlap, Usable, Unowned, Owns
  <2> HIDE DEF taken, unseen
  <2>6. ASSUME NEW b \in Blocks, Map(b) \in missing
        PROVE  Map(b) \in missing' \/ (heap'[b] \notin {"mapped", "region"} /\ (Owns(t, b) \/ Unowned(b)))
    BY <2>1, <2>3, <2>4, <2>5, <2>6 DEF Owns
  <2>7. \A b \in Blocks : Ptr(b) \in missing => Ptr(b) \in missing'
    BY <2>1, <2>2
  <2> QED  BY <2>1, <2>6, <2>7 DEF Remembers
<1>7. Gone(t)
  <2> DEFINE b == call[t].at
  <2>1. b # NoBlock => args[t] = Freeing(Map(b)) \/ call[t].untold
    BY <1>0 DEF Tells, Munmap, FirstAddress
  <2>2. /\ Mapping(over) \subseteq stale'
        /\ b # NoBlock /\ call[t].untold => Map(b) \in stale'
    BY DEF Munmap, Changes
  <2>3. ASSUME NEW d \in Blocks, args[t] = Freeing(Map(d)) PROVE WillFree(t, Map(d))'
    BY <1>0, <1>3, <2>3 DEF WillFree
  <2>4. \A d \in Blocks : heap'[d] = heap[d] \/ (d \in over /\ heap[d] \in {"region", "rest"}) \/ d = b
    BY <1>0 DEF Munmap, Overlap, Usable
  <2>5. \A d \in over : heap[d] = "region" => Map(d) \in Mapping(over)
    BY DEF Mapping
  <2>6. b \in Blocks => b # NoBlock /\ heap[b] # "small"
    BY <1>0 DEF Settled, Munmap
  <2>7. \A d \in Blocks : heap[d] = "small" => heap'[d] = "small"
    BY <2>4, <2>6
  <2> QED  BY <2>1, <2>2, <2>3, <2>4, <2>5, <2>6, <2>7 DEF Gone
<1>8. Given(t)
  BY <1>0, <1>2, <1>3, EventKinds, Addressing DEF Given, WillTell, Tells, history, Munmap, Changes, Mapping, Overlap, Usable
<1>9. Holding(t)
  BY <1>0, <1>2, <1>3, EventKinds, Addressing DEF Holding, Holds, Tells, Munmap, Changes, Mapping, Overlap, Usable
<1> QED  BY <1>4, <1>5, <1>6, <1>7, <1>8, <1>9 DEF Effects

\* An mremap of the program has the effects the other threads count on.
LEMMA MremapEffects ==
  ASSUME RestrackInv, OwnInv, TellInv, NEW t \in Threads, NEW b \in Blocks, NEW c \in Blocks, Mremap(t, b, c)
  PROVE  Effects(t)
<1>0. /\ call \in [Threads -> Frames] /\ call[t] \in Frames /\ heap \in [Blocks -> HeapStates]
      /\ args' = args /\ args[t] \in Stored \cup {NoEvent} /\ NoBlock \notin Blocks
      /\ Tells(t) /\ Settled(t) /\ call[t].arg \in Held /\ call[t].at \in Held
  BY RestrackAssumption DEF RestrackInv, TypeOK, OwnInv, TellInv, Frames, Mremap, kernel
<1>2. call' = call /\ call[t] = Idle /\ call[t].pc = "idle"
  BY DEF Mremap, Idle
<1>3. \A a : ~Holds(t, a)
  BY <1>2 DEF Holds
<1>4. Alone(t)
  BY <1>0, <1>2, <1>3 DEF Alone, Owns, Unowned, Settled, OwnInv, Mremap, Moves, Usable
<1>5. Tells(t)'
  BY <1>0, <1>2, <1>3, EventKinds, Addressing DEF Tells, Mremap, Moves, Usable
<1>6. Remembers(t)
  BY <1>0, <1>2, <1>3, Addressing DEF Remembers, Owns, Unowned, history, Mremap, Moves, Usable
<1>7. Gone(t)
  BY <1>0, <1>2, <1>3, EventKinds, Addressing DEF Gone, WillFree, Tells, history, Mremap, Moves, Usable
<1>8. Given(t)
  BY <1>0, <1>2, <1>3, EventKinds, Addressing DEF Given, WillTell, Tells, history, Mremap, Moves, Usable
<1>9. Holding(t)
  BY <1>0, <1>2, <1>3, EventKinds, Addressing DEF Holding, Holds, Tells, Mremap, Moves, Usable
<1> QED  BY <1>4, <1>5, <1>6, <1>7, <1>8, <1>9 DEF Effects

-----------------------------------------------------------------------------
(* The probes leave the blocks alone.                                      *)

\* An entry probe.
LEMMA ProbeEffects ==
  ASSUME RestrackInv, OwnInv, TellInv, NEW t \in Threads, ProbeStep(t)
  PROVE  Alone(t) /\ Tells(t)' /\ Remembers(t)
<1>0. /\ TypeOK /\ call \in [Threads -> Frames] /\ heap' = heap /\ Tells(t) /\ Settled(t)
      /\ NoBlock \notin Blocks /\ call' \in [Threads -> Frames] /\ call'[t].untold \in BOOLEAN
      /\ call'[t].arg \in Held
  BY RestrackAssumption DEF RestrackInv, TypeOK, OwnInv, TellInv, ProbeStep, Frames
<1>1. PICK e \in Stored : Asks(t, e) /\ Probe(t, e, call'[t].untold)
  BY DEF ProbeStep
<1>2. /\ \A u \in Threads \ {t} : args'[u] = args[u]
      /\ args'[t] = IF call'[t].untold THEN args[t] ELSE e
  BY <1>0, <1>1, ProbeType
<1>3. /\ missing \subseteq missing' /\ stale \subseteq stale'
      /\ call'[t].untold /\ e.type = "free" /\ args[t].type = "alloc" => Null \in stale'
  BY <1>1 DEF Probe, history
<1>4. Alone(t)
  <2>1. \A b \in Blocks : Owns(t, b)' => heap[b] # "free" /\ (Owns(t, b) \/ Unowned(b))
    BY <1>0, <1>1 DEF Asks, Owns, Unowned, OwnInv
  <2>2. Settled(t)'
    BY <1>0, <1>1 DEF Asks, Settled, Held
  <2> QED  BY <1>0, <1>2, <2>1, <2>2 DEF Alone, ProbeStep
<1>5. Tells(t)'
  <2>1. CASE ~call'[t].untold
    BY <1>0, <1>1, <1>2, <2>1, EventKinds DEF Asks, Tells
  <2>2. CASE call'[t].untold
    <3>1. call'[t].pc \in {"realloc", "alloc"} => args[t].type # "free"
      BY <1>0, <1>1, EventKinds DEF Asks, Tells, RestrackInv, NoLeftover
    <3>2. call'[t].pc = "realloc" => args[t] = NoEvent
      BY <1>1 DEF Asks, RestrackInv, NoLeftover
    <3>3. call'[t].pc \in {"free", "munmap"} => e.type = "free"
      BY <1>1, EventKinds DEF Asks
    <3>4. call'[t].pc \in {"realloc", "alloc", "mmap", "free", "munmap"}
      BY <1>1 DEF Asks
    <3>5. args[t].type = "alloc" => args[t].addr = Null
      BY <1>0 DEF Tells
    <3> QED  BY <1>2, <1>3, <2>2, <3>1, <3>2, <3>3, <3>4, <3>5 DEF Tells
  <2> QED  BY <2>1, <2>2
<1>6. Remembers(t)
  BY <1>3 DEF Remembers
<1> QED  BY <1>4, <1>5, <1>6

\* A system call that fails.
LEMMA FailingEffects ==
  ASSUME RestrackInv, OwnInv, TellInv, NEW t \in Threads, Failing(t)
  PROVE  /\ Alone(t) /\ Tells(t)' /\ Remembers(t)
         /\ args'[t] = NoEvent /\ UNCHANGED <<ring, lost, tracked, missing, stale>>
         /\ \A b \in Blocks : /\ heap[b] = "small" <=> heap'[b] = "small"
                              /\ heap[b] \in {"mapped", "region"} <=> heap'[b] \in {"mapped", "region"}
         /\ call[t].pc \in {"mmap", "munmap"}
<1>0. /\ TypeOK /\ call \in [Threads -> Frames] /\ heap \in [Blocks -> HeapStates]
      /\ args \in [Threads -> Stored \cup {NoEvent}] /\ HasBlock
      /\ Settled(t) /\ NoBlock \notin Blocks /\ NoBlock \in Held /\ call[t].next \in Returns
      /\ call[t].at \in Held /\ call[t].arg \in Held
  BY RestrackAssumption DEF RestrackInv, TypeOK, OwnInv, Frames, Held
<1>1. \E to \in Returns : Resume(t, to, NoBlock)
  <2>1. "alloc" \in Returns
    BY DEF Returns
  <2> QED  BY <1>0, <2>1 DEF Failing, MmapFails, MunmapFails
<1>2. PICK to \in Returns : Resume(t, to, NoBlock)
  BY <1>1
<1>3. /\ \A u \in Threads \ {t} : call'[u] = call[u]
      /\ to = "idle" => call'[t] = Idle
      /\ to # "idle" => /\ call'[t].pc = to /\ call'[t].arg = call[t].arg
                        /\ call'[t].at = NoBlock /\ call'[t].untold = TRUE
  BY <1>0, <1>2, ResumeType
<1>4. Idle.pc = "idle" /\ Idle.arg = NoBlock /\ Idle.at = NoBlock /\ "idle" \in Returns
      /\ "mmapped" \notin Returns /\ "munmap" \notin Returns /\ "munmapped" \notin Returns
      /\ "mmap" \notin Returns
  BY DEF Idle, Returns
<1>5. /\ args' = [args EXCEPT ![t] = NoEvent]
      /\ UNCHANGED <<ring, lost, tracked, missing, stale>> /\ call[t].pc \in {"mmap", "munmap"}
      /\ \/ heap' = heap
         \/ heap' = [heap EXCEPT ![call[t].at] = "region"] /\ heap[call[t].at] = "mapped"
            /\ call[t].at \in Blocks
  BY <1>0 DEF Failing, MmapFails, MunmapFails, DiscardEvent, history, reader, HasBlock, Settled
<1>6. \A b \in Blocks : /\ heap[b] = "small" <=> heap'[b] = "small"
                        /\ heap[b] \in {"mapped", "region"} <=> heap'[b] \in {"mapped", "region"}
                        /\ heap[b] = "free" <=> heap'[b] = "free"
                        /\ heap'[b] = heap[b] \/ b = call[t].at
  BY <1>0, <1>5
<1>7. args'[t] = NoEvent /\ \A u \in Threads \ {t} : args'[u] = args[u]
  BY <1>0, <1>5
<1>8. Alone(t)
  <2>1. \A b \in Blocks : Owns(t, b)' => Owns(t, b) /\ heap'[b] # "free"
    <3>1. \A b \in Blocks : Owns(t, b)' => Owns(t, b)
      BY <1>0, <1>3, <1>4 DEF Owns
    <3>2. \A b \in Blocks : Owns(t, b) => heap[b] # "free"
      BY DEF OwnInv
    <3> QED  BY <1>6, <3>1, <3>2
  <2>2. Settled(t)'
    BY <1>3, <1>4 DEF Settled
  <2>3. \A b \in Blocks : heap'[b] = heap[b] \/ Owns(t, b)
    BY <1>6 DEF Owns
  <2> QED  BY <1>3, <1>7, <2>1, <2>2, <2>3 DEF Alone
<1>9. Tells(t)'
  BY <1>3, <1>4, <1>7, EventKinds DEF Tells
<1>10. Remembers(t)
  BY <1>5 DEF Remembers
<1> QED  BY <1>5, <1>6, <1>7, <1>8, <1>9, <1>10

\* An exit probe.
LEMMA ExitEffects ==
  ASSUME RestrackInv, OwnInv, TellInv, NEW t \in Threads, NEW a \in Addresses \cup {Null},
         NEW freeOp \in BOOLEAN, ExitStep(t, a, freeOp)
  PROVE  Alone(t) /\ Tells(t)' /\ Remembers(t) /\ args'[t] = NoEvent
<1>0. /\ args \in [Threads -> Stored \cup {NoEvent}] /\ NoBlock \notin Blocks
      /\ heap' = heap /\ missing' = missing /\ Settled(t)
  BY RestrackAssumption DEF RestrackInv, TypeOK, OwnInv, ExitStep
<1>1. args' = [args EXCEPT ![t] = NoEvent] /\ stale \subseteq stale'
  BY DEF ExitStep, SendEvent, DiscardEvent
<1>2. args'[t] = NoEvent /\ \A u \in Threads \ {t} : args'[u] = args[u]
  BY <1>0, <1>1
<1>3. Idle.pc = "idle" /\ Idle.arg = NoBlock /\ Idle.at = NoBlock
      /\ "mmapped" \notin Returns /\ "munmap" \notin Returns /\ "munmapped" \notin Returns
      /\ "mmap" \notin Returns
  BY DEF Idle, Returns
<1>4. Alone(t)
  <2>1. \A b \in Blocks : Owns(t, b)' => Owns(t, b) /\ heap[b] # "free"
    BY <1>0, <1>3 DEF ExitStep, Owns, OwnInv
  <2>2. Settled(t)'
    BY <1>0, <1>3 DEF Settled, ExitStep
  <2> QED  BY <1>0, <1>2, <2>1, <2>2 DEF Alone, ExitStep
<1>5. Tells(t)'
  BY <1>2, <1>3, EventKinds DEF Tells, ExitStep
<1>6. Remembers(t)
  BY <1>0, <1>1 DEF Remembers
<1> QED  BY <1>2, <1>4, <1>5, <1>6

\* A step of the library or the kernel has all of its effects.
LEMMA WorkingEffects ==
  ASSUME RestrackInv, OwnInv, TellInv, NEW t \in Threads, Working(t)
  PROVE  Effects(t)
BY AllocFailsEffects, ReallocWrapsEffects, ReallocInPlaceEffects, ReallocFreesEffects, FreeEffects,
   AllocEffects, ReallocMovesEffects, ReallocRemapsEffects, MmapEffects, MunmapEffects, MremapEffects
   DEF Working

\* A step of t keeps the blocks of the calls apart.
LEMMA OwnStep ==
  ASSUME RestrackInv, OwnInv, NEW t \in Threads, Alone(t)
  PROVE  OwnInv'
<1>1. \A u \in Threads \ {t}, b \in Blocks : Owns(u, b)' <=> Owns(u, b)
  BY DEF Alone, Owns
<1>2. \A u \in Threads \ {t}, b \in Blocks : Owns(u, b) => heap'[b] = heap[b] /\ ~Owns(t, b)'
  BY DEF OwnInv, Alone, Unowned
<1>3. \A u \in Threads, b \in Blocks : Owns(u, b)' => heap'[b] # "free"
  BY <1>1, <1>2 DEF OwnInv, Alone
<1>4. \A u, v \in Threads, b \in Blocks : Owns(u, b)' /\ Owns(v, b)' => u = v
  BY <1>1, <1>2 DEF OwnInv
<1>5. ASSUME NEW u \in Threads PROVE Settled(u)'
  <2>1. CASE u = t
    BY <2>1 DEF Alone
  <2>2. CASE u # t
    <3>1. call'[u] = call[u] /\ Settled(u)
      BY <2>2 DEF Alone, OwnInv
    <3>2. call[u].at \in Blocks => heap'[call[u].at] = heap[call[u].at]
      BY <1>2, <2>2 DEF Owns
    <3>3. /\ call[u].pc = "mmapped" => call[u].at \in Blocks
          /\ call[u].at \in Blocks \/ call[u].at = NoBlock
          /\ call[u].pc = "munmap" /\ call[u].next = "freed" => call[u].at \in Blocks
      BY DEF RestrackInv, TypeOK, HasBlock, Frames, Held
    <3> QED  BY <3>1, <3>2, <3>3 DEF Settled
  <2> QED  BY <2>1, <2>2
<1> QED  BY <1>3, <1>4, <1>5 DEF OwnInv

\* What the others are about to tell stays right.
LEMMA TellStep ==
  ASSUME RestrackInv, OwnInv, TellInv, NEW t \in Threads, Alone(t), Remembers(t), Tells(t)'
  PROVE  TellInv'
<1> SUFFICES ASSUME NEW u \in Threads, u # t PROVE Tells(u)'
  BY DEF TellInv
<1>0. /\ call'[u] = call[u] /\ args'[u] = args[u] /\ Tells(u) /\ HasBlock /\ call[u].at \in Held
  BY DEF Alone, TellInv, RestrackInv, TypeOK, Frames
<1>1. ASSUME NEW b \in Blocks, Owns(u, b) PROVE heap'[b] = heap[b] /\ ~Owns(t, b) /\ ~Unowned(b)
  BY <1>1 DEF OwnInv, Alone, Unowned
<1>2. call[u].at \in Blocks => /\ heap'[call[u].at] = heap[call[u].at]
                               /\ Map(call[u].at) \in missing => Map(call[u].at) \in missing'
                               /\ Ptr(call[u].at) \in stale => Ptr(call[u].at) \in stale'
  <2> SUFFICES ASSUME call[u].at \in Blocks
               PROVE  /\ heap'[call[u].at] = heap[call[u].at]
                      /\ Map(call[u].at) \in missing => Map(call[u].at) \in missing'
                      /\ Ptr(call[u].at) \in stale => Ptr(call[u].at) \in stale'
    OBVIOUS
  <2>1. /\ heap'[call[u].at] = heap[call[u].at] /\ ~Owns(t, call[u].at) /\ ~Unowned(call[u].at)
    BY <1>1 DEF Owns
  <2> QED  BY <2>1 DEF Remembers
<1>3. call[u].at \in Blocks \/ call[u].at = NoBlock
  BY <1>0 DEF Held
<1>4. call[u].pc = "mmapped" => call[u].at \in Blocks
  BY <1>0 DEF HasBlock
<1>5. Null \in stale => Null \in stale'
  BY DEF Remembers
<1> QED  BY <1>0, <1>2, <1>3, <1>4, <1>5 DEF Tells

\* A flag that is still down was down before, and so was its reason.
LEMMA FlagDown == ASSUME NEW x, NEW y, NEW P, x = (y \/ P), ~x PROVE ~y /\ ~P
OBVIOUS

\* What an exit probe tells, when nothing is lost.
LEMMA SendStands ==
  ASSUME RestrackInv, NEW t \in Threads, NEW alloc \in Addresses \cup {Null},
         NEW freeOp \in BOOLEAN, SendEvent(t, alloc, freeOp), ~lost', NEW a
  PROVE  LET e == args[t]
             w == IF freeOp THEN e.addr ELSE alloc
         IN  \/ Silent(e, alloc, freeOp) /\ ring' = ring
             \/ /\ FreedByRealloc(e, alloc, freeOp)
                /\ a # e.prev => (Stands(tracked, ring', a) <=> Stands(tracked, ring, a))
                /\ a = e.prev => ~Stands(tracked, ring', a) \/ a \in Outstanding \cup stale'
             \/ /\ ~Silent(e, alloc, freeOp) /\ ~FreedByRealloc(e, alloc, freeOp)
                /\ Stands(tracked, ring', a)
                     <=> IF ~freeOp /\ Moved(e, alloc) /\ a = e.prev THEN FALSE
                         ELSE IF a = w THEN e.type = "alloc" ELSE Stands(tracked, ring, a)
<1> DEFINE e == args[t]
           w == IF freeOp THEN e.addr ELSE alloc
           sent == Put(ring, e.type, w)
<1>0. /\ ring \in Seq(Sent) /\ Len(ring) <= RingSize
      /\ e \in Stored \cup {NoEvent}
  BY DEF RestrackInv, TypeOK
<1>1. CASE Silent(e, alloc, freeOp) /\ UNCHANGED <<ring, lost, stale>>
  BY <1>1
<1>2. CASE /\ FreedByRealloc(e, alloc, freeOp)
           /\ ring' = Put(ring, "free", e.prev)
           /\ stale' = IF Room(ring) THEN stale ELSE stale \cup ({e.prev} \ Outstanding)
  <2>1. e.prev \in Addresses \cup {Null}
    BY <1>0, <1>2 DEF FreedByRealloc, Stored
  <2>3. /\ Room(ring) => (Stands(tracked, ring', a)
                            <=> IF e.prev = a THEN FALSE ELSE Stands(tracked, ring, a))
        /\ ~Room(ring) => ring' = ring
    BY <1>0, <1>2, <2>1, PutStands
  <2>4. a # e.prev => (Stands(tracked, ring', a) <=> Stands(tracked, ring, a))
    BY <2>3
  <2>5. a = e.prev => ~Stands(tracked, ring', a) \/ a \in Outstanding \cup stale'
    BY <1>2, <2>3
  <2> QED  BY <1>2, <2>4, <2>5
<1>3. CASE /\ ~Silent(e, alloc, freeOp) /\ ~FreedByRealloc(e, alloc, freeOp)
           /\ IF Room(ring) /\ ~freeOp /\ Moved(e, alloc)
                THEN ring' = Put(sent, "free", e.prev) /\ lost' = Dropped(~Room(sent))
                ELSE ring' = sent /\ lost' = Dropped(~Room(ring))
  <2>1. /\ e \in Stored /\ e.type \in {"alloc", "free"} /\ e.prev \in Addresses \cup {Null}
        /\ w \in Addresses \cup {Null}
    BY <1>0, <1>3 DEF Silent, Stored
  <2>2. sent \in Seq(Sent)
    BY <1>0, <2>1, PutType
  <2>3. Room(ring) => (Stands(tracked, sent, a)
                         <=> IF w = a THEN e.type = "alloc" ELSE Stands(tracked, ring, a))
    BY <1>0, <2>1, PutStands
  <2>4. CASE Room(ring) /\ ~freeOp /\ Moved(e, alloc)
    <3>0. ring' = Put(sent, "free", e.prev) /\ lost' = (lost \/ ~Room(sent))
      BY <1>3, <2>4 DEF Dropped
    <3>1. Room(sent)
      BY <3>0, FlagDown, Zenon
    <3> HIDE DEF sent
    <3>2. Stands(tracked, ring', a) <=> IF e.prev = a THEN FALSE ELSE Stands(tracked, sent, a)
      BY <2>1, <2>2, <3>0, <3>1, PutStands
    <3> QED  BY <1>3, <2>3, <2>4, <3>2
  <2>5. CASE ~(Room(ring) /\ ~freeOp /\ Moved(e, alloc))
    <3>0. ring' = sent /\ lost' = (lost \/ ~Room(ring))
      BY <1>3, <2>5 DEF Dropped
    <3>1. Room(ring)
      BY <3>0, FlagDown, Zenon
    <3> QED  BY <1>3, <2>3, <2>5, <3>0, <3>1
  <2> QED  BY <2>4, <2>5
<1> QED  BY <1>1, <1>2, <1>3 DEF SendEvent

\* The same for the exit of an allocation, and of a free.
LEMMA AllocStands ==
  ASSUME RestrackInv, NEW t \in Threads, NEW alloc \in Addresses \cup {Null},
         SendEvent(t, alloc, FALSE), ~lost', NEW a
  PROVE  \/ Silent(args[t], alloc, FALSE) /\ ring' = ring
         \/ /\ FreedByRealloc(args[t], alloc, FALSE)
            /\ a # args[t].prev => (Stands(tracked, ring', a) <=> Stands(tracked, ring, a))
            /\ a = args[t].prev => ~Stands(tracked, ring', a) \/ a \in Outstanding \cup stale'
         \/ /\ ~Silent(args[t], alloc, FALSE) /\ ~FreedByRealloc(args[t], alloc, FALSE)
            /\ Stands(tracked, ring', a)
                 <=> IF Moved(args[t], alloc) /\ a = args[t].prev THEN FALSE
                     ELSE IF a = alloc THEN args[t].type = "alloc" ELSE Stands(tracked, ring, a)
<1> DEFINE f == FALSE
<1>1. f \in BOOLEAN /\ ~f /\ SendEvent(t, alloc, f)
  OBVIOUS
<1> HIDE DEF f
<1>2. \/ Silent(args[t], alloc, f) /\ ring' = ring
      \/ /\ FreedByRealloc(args[t], alloc, f)
         /\ a # args[t].prev => (Stands(tracked, ring', a) <=> Stands(tracked, ring, a))
         /\ a = args[t].prev => ~Stands(tracked, ring', a) \/ a \in Outstanding \cup stale'
      \/ /\ ~Silent(args[t], alloc, f) /\ ~FreedByRealloc(args[t], alloc, f)
         /\ Stands(tracked, ring', a)
              <=> IF ~f /\ Moved(args[t], alloc) /\ a = args[t].prev THEN FALSE
                  ELSE IF a = (IF f THEN args[t].addr ELSE alloc) THEN args[t].type = "alloc"
                  ELSE Stands(tracked, ring, a)
  BY <1>1, SendStands
<1> QED  BY <1>1, <1>2 DEF f

\* What the exit probe of free changes in the coming report.
LEMMA FreeStands ==
  ASSUME RestrackInv, NEW t \in Threads, SendEvent(t, Null, TRUE), ~lost', NEW a
  PROVE  \/ args[t] = NoEvent /\ ring' = ring
         \/ /\ args[t] # NoEvent
            /\ Stands(tracked, ring', a)
                 <=> IF a = args[t].addr THEN args[t].type = "alloc" ELSE Stands(tracked, ring, a)
<1> DEFINE f == TRUE
<1>1. f \in BOOLEAN /\ f /\ SendEvent(t, Null, f) /\ Null \in Addresses \cup {Null}
  OBVIOUS
<1> HIDE DEF f
<1>2. \/ Silent(args[t], Null, f) /\ ring' = ring
      \/ /\ FreedByRealloc(args[t], Null, f)
         /\ a # args[t].prev => (Stands(tracked, ring', a) <=> Stands(tracked, ring, a))
         /\ a = args[t].prev => ~Stands(tracked, ring', a) \/ a \in Outstanding \cup stale'
      \/ /\ ~Silent(args[t], Null, f) /\ ~FreedByRealloc(args[t], Null, f)
         /\ Stands(tracked, ring', a)
              <=> IF ~f /\ Moved(args[t], Null) /\ a = args[t].prev THEN FALSE
                  ELSE IF a = (IF f THEN args[t].addr ELSE Null) THEN args[t].type = "alloc"
                  ELSE Stands(tracked, ring, a)
  BY <1>1, SendStands
<1> QED  BY <1>1, <1>2 DEF Silent, FreedByRealloc


-----------------------------------------------------------------------------
(* The report stays right.                                                 *)

\* A step of the library or the kernel sends nothing and was about to tell nothing.
LEMMA WorkingTells ==
  ASSUME RestrackInv, NEW t \in Threads, Working(t)
  PROVE  /\ UNCHANGED <<args, ring, lost, tracked>>
         /\ \A a : ~WillFree(t, a) /\ ~WillTell(t, a)
<1>1. call[t].pc \in {"idle", "alloc", "realloc", "free", "mmap", "munmap"}
  <2>1. CASE AllocFails(t) \/ ReallocWraps(t) \/ ReallocInPlace(t) \/ ReallocFrees(t) \/ Free(t)
    BY <2>1 DEF AllocFails, ReallocWraps, ReallocInPlace, ReallocFrees, Free
  <2>2. CASE \E b \in Blocks : Alloc(t, b) \/ ReallocMoves(t, b) \/ ReallocRemaps(t, b)
    BY <2>2 DEF Alloc, ReallocMoves, ReallocRemaps
  <2>3. CASE \E over \in SUBSET Blocks, b \in Blocks : Mmap(t, b, over)
    BY <2>3 DEF Mmap
  <2>4. CASE \E over \in SUBSET Blocks, front \in BOOLEAN : Munmap(t, over, front)
    BY <2>4 DEF Munmap
  <2>5. CASE \E b, c \in Blocks : Mremap(t, b, c)
    BY <2>5 DEF Mremap, Idle
  <2> QED  BY <2>1, <2>2, <2>3, <2>4, <2>5 DEF Working
<1>2. UNCHANGED <<args, ring, lost, tracked>>
  BY WorkingQuiet DEF QuietStep, reader
<1> QED  BY <1>1, <1>2, Untelling

\* Nor does an entry probe, and it forgets nothing.
LEMMA ProbeTells ==
  ASSUME RestrackInv, NEW t \in Threads, ProbeStep(t)
  PROVE  /\ UNCHANGED <<heap, ring, lost, tracked>>
         /\ \A a : ~WillFree(t, a) /\ ~WillTell(t, a)
         /\ missing \subseteq missing' /\ stale \subseteq stale'
<1>1. PICK e \in Stored : Asks(t, e) /\ Probe(t, e, call'[t].untold)
  BY DEF ProbeStep
<1>2. call[t].pc \in {"idle", "alloc", "realloc", "free"}
  BY <1>1 DEF Asks
<1>3. missing \subseteq missing' /\ stale \subseteq stale'
  BY <1>1 DEF Probe, history
<1> QED  BY <1>2, <1>3, Untelling DEF ProbeStep, reader

\* Nor does a system call that fails.
LEMMA FailingTells ==
  ASSUME RestrackInv, OwnInv, TellInv, NEW t \in Threads, Failing(t)
  PROVE  \A a : ~WillFree(t, a) /\ ~WillTell(t, a)
BY FailingEffects, Untelling

\* The others are about to tell what they were.
LEMMA OthersTell ==
  ASSUME NEW t \in Threads, Alone(t), NEW u \in Threads, u # t
  PROVE  /\ args'[u] = args[u]
         /\ \A a \in Addresses \cup {Null} : /\ WillFree(u, a)' <=> WillFree(u, a)
                                             /\ WillTell(u, a)' <=> WillTell(u, a)
                                             /\ Holds(u, a)' <=> Holds(u, a)
BY DEF Alone, WillFree, WillTell, Holds

\* An exit probe tells what is outstanding or stale, and frees what it was about to free.
LEMMA ExitTells ==
  ASSUME RestrackInv, OwnInv, TellInv, NEW t \in Threads, NEW alloc \in Addresses \cup {Null},
         NEW freeOp \in BOOLEAN, ExitStep(t, alloc, freeOp), ~lost', NEW a \in Addresses \cup {Null},
         Stands(tracked, ring', a)
  PROVE  a \in Outstanding \cup stale' \/ (Stands(tracked, ring, a) /\ ~WillFree(t, a))
<1> DEFINE e == args[t]
<1>0. /\ SendEvent(t, alloc, freeOp) /\ stale \subseteq stale' /\ Tells(t) /\ Settled(t)
      /\ e \in Stored \cup {NoEvent} /\ heap \in [Blocks -> HeapStates] /\ NoBlock \notin Blocks
      /\ HasBlock
  BY RestrackAssumption DEF ExitStep, SendEvent, TellInv, OwnInv, RestrackInv, TypeOK
<1>1. CASE call[t].pc = "mmapped" /\ alloc = Map(call[t].at) /\ ~freeOp
  <2>1. alloc \in Outstanding
    BY <1>0, <1>1, OutstandingIs DEF Settled, HasBlock
  <2>2. ~WillFree(t, a)
    BY <1>1 DEF WillFree
  <2>3. ~FreedByRealloc(e, alloc, freeOp)
    BY <1>1, Addressing DEF FreedByRealloc
  <2> QED  BY <1>0, <1>1, <2>1, <2>2, <2>3, SendStands
<1>2. CASE call[t].pc = "allocated" /\ call[t].at = NoBlock /\ alloc = Null /\ ~freeOp
  <2>1. WillFree(t, a) => e.prev = a /\ a # Null /\ e.zero /\ e.type = "alloc"
    BY <1>2 DEF WillFree
  <2>2. CASE Silent(e, alloc, freeOp) /\ ring' = ring
    <3>1. ~WillFree(t, a)
      BY <1>2, <2>1, <2>2, EventKinds DEF Silent
    <3> QED  BY <2>2, <3>1
  <2>3. CASE /\ FreedByRealloc(e, alloc, freeOp)
             /\ a # e.prev => (Stands(tracked, ring', a) <=> Stands(tracked, ring, a))
             /\ a = e.prev => ~Stands(tracked, ring', a) \/ a \in Outstanding \cup stale'
    BY <2>1, <2>3
  <2>4. Silent(e, alloc, freeOp) \/ FreedByRealloc(e, alloc, freeOp)
    BY <1>2 DEF Silent, FreedByRealloc
  <2> QED  BY <1>0, <2>2, <2>3, <2>4, SendStands
<1>3. CASE /\ call[t].pc = "allocated" /\ call[t].at \in Blocks /\ alloc = Ptr(call[t].at) /\ ~freeOp
  <2>1. WillFree(t, a) => e.prev = a /\ a # Null /\ alloc # a /\ e.type = "alloc"
    BY <1>0, <1>3 DEF WillFree
  <2>2. alloc # Null
    BY <1>3, Addressing
  <2>3. e # NoEvent => alloc \in Outstanding \cup stale'
    BY <1>0, <1>3, OutstandingIs DEF Tells
  <2>4. CASE Silent(e, alloc, freeOp) /\ ring' = ring
    <3>1. ~WillFree(t, a)
      BY <1>3, <2>1, <2>2, <2>4, EventKinds DEF Silent
    <3> QED  BY <2>4, <3>1
  <2>5. ~FreedByRealloc(e, alloc, freeOp)
    BY <2>2 DEF FreedByRealloc
  <2>6. CASE /\ ~Silent(e, alloc, freeOp)
             /\ Stands(tracked, ring', a)
                  <=> IF Moved(e, alloc) /\ a = e.prev THEN FALSE
                      ELSE IF a = alloc THEN e.type = "alloc" ELSE Stands(tracked, ring, a)
    <3>1. e # NoEvent
      BY <2>6 DEF Silent
    <3>2. WillFree(t, a) => Moved(e, alloc) /\ a = e.prev
      BY <2>1 DEF Moved
    <3> QED  BY <2>3, <2>6, <3>1, <3>2
  <2> QED  BY <1>0, <1>3, <2>4, <2>5, <2>6, SendStands
<1>4. CASE call[t].pc \in {"freed", "munmapped"} /\ alloc = Null /\ freeOp
  <2>1. WillFree(t, a) => e = Freeing(a)
    BY <1>4 DEF WillFree
  <2>2. SendEvent(t, Null, TRUE)
    <3>1. freeOp = TRUE
      BY <1>4
    <3> QED  BY <1>0, <1>4, <3>1
  <2>3. CASE e = NoEvent /\ ring' = ring
    BY <2>1, <2>3, EventKinds
  <2>4. CASE /\ e # NoEvent
             /\ Stands(tracked, ring', a)
                  <=> IF a = e.addr THEN e.type = "alloc" ELSE Stands(tracked, ring, a)
    <3>1. e.type = "alloc" => e.addr = Null /\ Null \in stale'
      BY <1>0, <1>4 DEF Tells
    <3>2. WillFree(t, a) => a = e.addr /\ e.type = "free"
      BY <2>1, EventKinds
    <3> QED  BY <2>4, <3>1, <3>2
  <2> QED  BY <2>2, <2>3, <2>4, FreeStands
<1> QED  BY <1>1, <1>2, <1>3, <1>4 DEF ExitStep

\* A step of the target adds no false leak.
LEMMA FalseLeakStep ==
  ASSUME RestrackInv, OwnInv, TellInv, FalseLeakInv, NEW t \in Threads,
         \/ ProbeStep(t) \/ Working(t) \/ Failing(t)
         \/ \E a \in Addresses \cup {Null}, freeOp \in BOOLEAN : ExitStep(t, a, freeOp)
  PROVE  FalseLeakInv'
<1> SUFFICES ASSUME ~lost', NEW a \in Addresses \cup {Null}, Stands(tracked', ring', a)
             PROVE  a \in Outstanding' \cup stale' \/ \E u \in Threads : WillFree(u, a)'
  BY DEF FalseLeakInv, Stands
<1>0. heap \in [Blocks -> HeapStates] /\ heap' \in [Blocks -> HeapStates]
  BY ProbeInv, WorkingQuiet, QuietInv, FailingInv, ExitInv DEF RestrackInv, TypeOK
<1>1. Alone(t) /\ Remembers(t)
  BY ProbeEffects, WorkingEffects, FailingEffects, ExitEffects DEF Effects
<1>2. tracked' = tracked
  BY ProbeTells, WorkingTells, FailingEffects DEF ExitStep, reader
<1>3. /\ a \in Outstanding => a \in Outstanding' \cup stale' \/ WillFree(t, a)'
      /\ a \in stale => a \in Outstanding' \cup stale'
  <2>1. /\ \A b \in Blocks : /\ Ptr(b) \in Outstanding <=> heap[b] = "small"
                             /\ Map(b) \in Outstanding <=> heap[b] \in {"mapped", "region"}
        /\ Null \notin Outstanding
    BY <1>0, OutstandingIs
  <2>2. \A b \in Blocks : /\ Ptr(b) \in Outstanding' <=> heap'[b] = "small"
                          /\ Map(b) \in Outstanding' <=> heap'[b] \in {"mapped", "region"}
    BY <1>0, Addressing DEF Outstanding, Key, HeapStates
  <2>3. Gone(t)
    <3>1. CASE \A b \in Blocks : /\ heap[b] = "small" <=> heap'[b] = "small"
                                 /\ heap[b] \in {"mapped", "region"} <=> heap'[b] \in {"mapped", "region"}
      BY <3>1 DEF Gone
    <3> QED  BY <3>1, WorkingEffects, ProbeTells, FailingEffects DEF Effects, ExitStep
  <2>4. a = Null \/ \E b \in Blocks : a = Ptr(b) \/ a = Map(b)
    BY AddressType
  <2>5. CASE a = Null
    BY <1>1, <2>1, <2>5 DEF Remembers
  <2>6. ASSUME NEW b \in Blocks, a = Ptr(b) \/ a = Map(b)
        PROVE  /\ a \in Outstanding => a \in Outstanding' \cup stale' \/ WillFree(t, a)'
               /\ a \in stale => a \in Outstanding' \cup stale'
    BY <1>1, <2>1, <2>2, <2>3, <2>6 DEF Remembers, Gone
  <2> QED  BY <2>4, <2>5, <2>6
<1>4. \/ a \in Outstanding' \cup stale'
      \/ ~lost /\ Stands(tracked, ring, a) /\ ~WillFree(t, a)
  <2>1. CASE ProbeStep(t) \/ Working(t) \/ Failing(t)
    <3>1. ring' = ring /\ lost' = lost /\ ~WillFree(t, a)
      BY <2>1, ProbeTells, WorkingTells, FailingEffects, FailingTells
    <3> QED  BY <1>2, <3>1
  <2>2. ASSUME NEW alloc \in Addresses \cup {Null}, NEW freeOp \in BOOLEAN, ExitStep(t, alloc, freeOp)
        PROVE  \/ a \in Outstanding' \cup stale'
               \/ ~lost /\ Stands(tracked, ring, a) /\ ~WillFree(t, a)
    <3>1. a \in Outstanding \cup stale' \/ (Stands(tracked, ring, a) /\ ~WillFree(t, a))
      BY <1>2, <2>2, ExitTells
    <3>2. Outstanding' = Outstanding
      BY <2>2 DEF ExitStep, Outstanding, Key
    <3>3. lost' = lost \/ \E x : lost' = (lost \/ x)
      BY <2>2 DEF ExitStep, SendEvent, Dropped
    <3>4. ~lost
      BY <3>3, FlagDown, Zenon
    <3> QED  BY <3>1, <3>2, <3>4
  <2> QED  BY <2>1, <2>2
<1>5. CASE ~lost /\ Stands(tracked, ring, a) /\ ~WillFree(t, a)
  <2>1. a \in Outstanding \cup stale \/ \E u \in Threads : WillFree(u, a)
    BY <1>5 DEF FalseLeakInv
  <2>2. ASSUME NEW u \in Threads, WillFree(u, a) PROVE WillFree(u, a)'
    <3>1. u # t
      BY <1>5, <2>2
    <3> QED  BY <1>1, <2>2, <3>1, OthersTell
  <2> QED  BY <1>3, <2>1, <2>2
<1> QED  BY <1>4, <1>5

\* A step of the target makes no call tell the free of a live address.
LEMMA KeptStep ==
  ASSUME RestrackInv, OwnInv, TellInv, KeptInv, NEW t \in Threads,
         \/ ProbeStep(t) \/ Working(t) \/ Failing(t)
         \/ \E a \in Addresses \cup {Null}, freeOp \in BOOLEAN : ExitStep(t, a, freeOp)
  PROVE  KeptInv'
<1> SUFFICES ASSUME NEW u \in Threads, NEW a, a \in {args'[u].addr, args'[u].prev},
                    a \in Outstanding'
             PROVE  a \in missing' \/ Holds(u, a)'
  BY DEF KeptInv
<1>0. /\ heap \in [Blocks -> HeapStates] /\ heap' \in [Blocks -> HeapStates]
      /\ args' \in [Threads -> Stored \cup {NoEvent}]
  BY ProbeInv, WorkingQuiet, QuietInv, FailingInv, ExitInv DEF RestrackInv, TypeOK
<1>1. Alone(t) /\ Remembers(t)
  BY ProbeEffects, WorkingEffects, FailingEffects, ExitEffects DEF Effects
<1>2. /\ \A b \in Blocks : /\ Ptr(b) \in Outstanding <=> heap[b] = "small"
                           /\ Map(b) \in Outstanding <=> heap[b] \in {"mapped", "region"}
      /\ \A b \in Blocks : /\ Ptr(b) \in Outstanding' <=> heap'[b] = "small"
                           /\ Map(b) \in Outstanding' <=> heap'[b] \in {"mapped", "region"}
      /\ Null \notin Outstanding /\ Null \notin Outstanding'
  BY <1>0, Addressing DEF Outstanding, Key, HeapStates
<1>3. a \in Addresses
  BY <1>0, <1>2, EventKinds DEF Stored
<1>4. PICK b \in Blocks : a = Ptr(b) \/ a = Map(b)
  BY <1>3, AddressType
<1>5. a \in Outstanding /\ a \in missing => a \in missing'
  BY <1>1, <1>2, <1>4 DEF Remembers
<1>6. CASE Working(t)
  <2>1. Effects(t) /\ args' = args
    BY <1>6, WorkingEffects, WorkingTells
  <2>2. CASE a \notin Outstanding
    <3>1. Mentioned(a)
      BY <2>1 DEF Mentioned
    <3> QED  BY <1>2, <1>4, <2>1, <2>2, <3>1 DEF Effects, Given
  <2>3. CASE a \in Outstanding /\ Holds(u, a)
    <3>1. CASE u = t
      BY <1>2, <1>4, <2>1, <2>3, <3>1 DEF Effects, Holding
    <3>2. CASE u # t
      BY <1>1, <1>3, <2>3, <3>2, OthersTell
    <3> QED  BY <3>1, <3>2
  <2> QED  BY <1>5, <2>1, <2>2, <2>3 DEF KeptInv
<1>7. CASE ~Working(t)
  <2>1. a \in Outstanding
    <3>1. \A d \in Blocks : /\ heap[d] = "small" <=> heap'[d] = "small"
                            /\ heap[d] \in {"mapped", "region"} <=> heap'[d] \in {"mapped", "region"}
      BY <1>7, ProbeTells, FailingEffects DEF ExitStep
    <3> QED  BY <1>2, <1>4, <3>1
  <2>2. CASE u # t
    BY <1>1, <1>3, <1>5, <2>1, <2>2, OthersTell DEF KeptInv
  <2>3. CASE u = t /\ args'[t] = NoEvent
    BY <1>2, <2>3, EventKinds
  <2>4. CASE u = t /\ ProbeStep(t)
    <3>1. PICK e \in Stored : Asks(t, e) /\ Probe(t, e, call'[t].untold)
      BY <2>4 DEF ProbeStep
    <3>2. CASE call'[t].untold
      BY <2>1, <2>4, <3>1, <3>2 DEF Probe
    <3>3. CASE ~call'[t].untold
      <4>1. args'[t] = e
        <5>1. TypeOK /\ call'[t].untold \in BOOLEAN
          BY <2>4 DEF RestrackInv, ProbeStep, Frames
        <5> QED  BY <3>1, <3>3, <5>1, ProbeType
      <4>2. a \in {e.addr, e.prev} /\ a # Null
        BY <1>2, <2>4, <4>1
      <4> QED  BY <2>4, <3>1, <4>2, EventKinds DEF Asks, Holds, FirstAddress
    <3> QED  BY <3>2, <3>3
  <2> QED  BY <1>7, <2>2, <2>3, <2>4, FailingEffects, ExitEffects
<1> QED  BY <1>6, <1>7

\* What stood in the report, or was about to be told of, stands or is missing.
LEMMA ExitKeeps ==
  ASSUME RestrackInv, OwnInv, TellInv, KeptInv, NEW t \in Threads, NEW alloc \in Addresses \cup {Null},
         NEW freeOp \in BOOLEAN, ExitStep(t, alloc, freeOp), ~lost', NEW a \in Addresses,
         a \in Outstanding, a \notin missing, Stands(tracked, ring, a) \/ WillTell(t, a)
  PROVE  Stands(tracked, ring', a)
<1> DEFINE e == args[t]
<1>0. /\ SendEvent(t, alloc, freeOp) /\ Tells(t) /\ HasBlock /\ NoBlock \notin Blocks
      /\ e \in Stored \cup {NoEvent} /\ a \in Addresses \cup {Null}
  BY RestrackAssumption DEF ExitStep, TellInv, RestrackInv, TypeOK
<1>1. a # Null
  BY AddressType, Addressing
<1>2. a \in {e.addr, e.prev} => Holds(t, a)
  BY DEF KeptInv
<1>3. CASE call[t].pc = "mmapped" /\ alloc = Map(call[t].at) /\ ~freeOp
  <2>1. a # e.prev
    BY <1>2, <1>3 DEF Holds
  <2>2. e.type = "alloc" \/ alloc # a
    BY <1>0, <1>3 DEF Tells
  <2>3. ~FreedByRealloc(e, alloc, freeOp)
    BY <1>3, Addressing DEF FreedByRealloc
  <2>4. WillTell(t, a) => e.type = "alloc" /\ a = alloc
    BY <1>3 DEF WillTell
  <2>5. Silent(e, alloc, freeOp) => e = NoEvent
    BY <1>3, Addressing DEF Silent
  <2>6. \/ Silent(e, alloc, freeOp) /\ ring' = ring
        \/ /\ ~Silent(e, alloc, freeOp)
           /\ Stands(tracked, ring', a)
                <=> IF Moved(e, alloc) /\ a = e.prev THEN FALSE
                    ELSE IF a = alloc THEN e.type = "alloc" ELSE Stands(tracked, ring, a)
    BY <1>0, <1>3, <2>3, SendStands
  <2>7. e = NoEvent => ~WillTell(t, a)
    BY EventKinds DEF WillTell
  <2> QED  BY <2>1, <2>2, <2>4, <2>5, <2>6, <2>7
<1>4. CASE call[t].pc = "allocated" /\ call[t].at = NoBlock /\ alloc = Null /\ ~freeOp
  <2>2. ~WillTell(t, a)
    BY <1>0, <1>4, AddressType, Addressing DEF WillTell
  <2>3. e.prev = a => ~e.zero
    BY <1>0, <1>2, <1>4, AddressType, Addressing DEF Holds
  <2>4. FreedByRealloc(e, alloc, freeOp) => a # e.prev
    BY <2>3 DEF FreedByRealloc
  <2>5. Silent(e, alloc, freeOp) \/ FreedByRealloc(e, alloc, freeOp)
    BY <1>4 DEF Silent, FreedByRealloc
  <2> QED  BY <1>0, <2>2, <2>4, <2>5, SendStands
<1>5. CASE /\ call[t].pc = "allocated" /\ call[t].at \in Blocks /\ alloc = Ptr(call[t].at) /\ ~freeOp
  <2>1. a = e.prev => a = alloc
    BY <1>0, <1>2, <1>5 DEF Holds
  <2>2. e.type = "alloc" \/ e = NoEvent
    BY <1>0, <1>5, EventKinds DEF Tells, Stored
  <2>3. ~FreedByRealloc(e, alloc, freeOp)
    BY <1>5, Addressing DEF FreedByRealloc
  <2>4. WillTell(t, a) => e.type = "alloc" /\ a = alloc
    BY <1>5 DEF WillTell
  <2>5. Silent(e, alloc, freeOp) => e = NoEvent
    BY <1>5, Addressing DEF Silent
  <2>6. \/ Silent(e, alloc, freeOp) /\ ring' = ring
        \/ /\ ~Silent(e, alloc, freeOp)
           /\ Stands(tracked, ring', a)
                <=> IF Moved(e, alloc) /\ a = e.prev THEN FALSE
                    ELSE IF a = alloc THEN e.type = "alloc" ELSE Stands(tracked, ring, a)
    BY <1>0, <1>5, <2>3, SendStands
  <2>7. e = NoEvent => ~WillTell(t, a)
    BY EventKinds DEF WillTell
  <2>8. Moved(e, alloc) => e.prev # alloc
    BY DEF Moved
  <2>9. ~Silent(e, alloc, freeOp) => e # NoEvent
    BY DEF Silent
  <2> QED  BY <2>1, <2>2, <2>4, <2>5, <2>6, <2>7, <2>8, <2>9
<1>6. CASE call[t].pc \in {"freed", "munmapped"} /\ alloc = Null /\ freeOp
  <2>1. a # e.addr
    BY <1>2, <1>6 DEF Holds
  <2>2. ~WillTell(t, a)
    BY <1>6 DEF WillTell
  <2>3. SendEvent(t, Null, TRUE)
    <3>1. freeOp = TRUE
      BY <1>6
    <3> QED  BY <1>0, <1>6, <3>1
  <2> QED  BY <2>1, <2>2, <2>3, FreeStands
<1> QED  BY <1>3, <1>4, <1>5, <1>6 DEF ExitStep

\* A step of the target makes the report miss nothing more.
LEMMA MissedLeakStep ==
  ASSUME RestrackInv, OwnInv, TellInv, KeptInv, MissedLeakInv, NEW t \in Threads,
         \/ ProbeStep(t) \/ Working(t) \/ Failing(t)
         \/ \E a \in Addresses \cup {Null}, freeOp \in BOOLEAN : ExitStep(t, a, freeOp)
  PROVE  MissedLeakInv'
<1> SUFFICES ASSUME ~lost', NEW a \in Addresses, a \in Outstanding', a \notin missing'
             PROVE  Stands(tracked', ring', a) \/ \E u \in Threads : WillTell(u, a)'
  BY DEF MissedLeakInv, Stands
<1>0. heap \in [Blocks -> HeapStates] /\ heap' \in [Blocks -> HeapStates]
  BY ProbeInv, WorkingQuiet, QuietInv, FailingInv, ExitInv DEF RestrackInv, TypeOK
<1>1. Alone(t) /\ Remembers(t)
  BY ProbeEffects, WorkingEffects, FailingEffects, ExitEffects DEF Effects
<1>2. /\ \A b \in Blocks : /\ Ptr(b) \in Outstanding <=> heap[b] = "small"
                           /\ Map(b) \in Outstanding <=> heap[b] \in {"mapped", "region"}
      /\ \A b \in Blocks : /\ Ptr(b) \in Outstanding' <=> heap'[b] = "small"
                           /\ Map(b) \in Outstanding' <=> heap'[b] \in {"mapped", "region"}
  BY <1>0, Addressing DEF Outstanding, Key, HeapStates
<1>3. PICK b \in Blocks : a = Ptr(b) \/ a = Map(b)
  BY AddressType
<1>4. a \notin missing
  BY <1>1, <1>2, <1>3 DEF Remembers, Outstanding
<1>5. tracked' = tracked
  BY ProbeTells, WorkingTells, FailingEffects DEF ExitStep, reader
<1>6. CASE a \notin Outstanding
  <2>1. Working(t)
    <3>1. CASE \A d \in Blocks : /\ heap[d] = "small" <=> heap'[d] = "small"
                                 /\ heap[d] \in {"mapped", "region"} <=> heap'[d] \in {"mapped", "region"}
      BY <1>2, <1>3, <1>6, <3>1
    <3> QED  BY <3>1, ProbeTells, FailingEffects DEF ExitStep
  <2>2. Given(t)
    BY <2>1, WorkingEffects DEF Effects
  <2>3. WillTell(t, a)'
    BY <1>2, <1>3, <1>6, <2>2 DEF Given
  <2> QED  BY <2>3
<1>7. ASSUME a \in Outstanding, ~lost,
             Stands(tracked, ring, a) \/ WillTell(t, a) => Stands(tracked, ring', a)
      PROVE  Stands(tracked, ring', a) \/ \E u \in Threads : WillTell(u, a)'
  <2>1. Stands(tracked, ring, a) \/ \E u \in Threads : WillTell(u, a)
    BY <1>4, <1>7 DEF MissedLeakInv
  <2>2. ASSUME NEW u \in Threads, u # t, WillTell(u, a) PROVE WillTell(u, a)'
    BY <1>1, <2>2, OthersTell
  <2> QED  BY <1>7, <2>1, <2>2
<1>8. CASE a \in Outstanding /\ (ProbeStep(t) \/ Working(t) \/ Failing(t))
  <2>1. ring' = ring /\ lost' = lost /\ ~WillTell(t, a)
    BY <1>8, ProbeTells, WorkingTells, FailingEffects, FailingTells
  <2> QED  BY <1>5, <1>7, <1>8, <2>1
<1>9. ASSUME a \in Outstanding, NEW alloc \in Addresses \cup {Null}, NEW freeOp \in BOOLEAN,
             ExitStep(t, alloc, freeOp)
      PROVE  Stands(tracked', ring', a) \/ \E u \in Threads : WillTell(u, a)'
  <2>1. Stands(tracked, ring, a) \/ WillTell(t, a) => Stands(tracked, ring', a)
    BY <1>4, <1>9, ExitKeeps
  <2>2. lost' = lost \/ \E x : lost' = (lost \/ x)
    BY <1>9 DEF ExitStep, SendEvent, Dropped
  <2>3. ~lost
    BY <2>2, FlagDown, Zenon
  <2> QED  BY <1>5, <1>7, <1>9, <2>1, <2>3
<1> QED  BY <1>6, <1>8, <1>9

\* What the three invariants and what they rest on have in common.
LEMMA InvStart == Init => OwnInv /\ TellInv /\ FalseLeakInv /\ KeptInv /\ MissedLeakInv
<1> SUFFICES ASSUME Init PROVE OwnInv /\ TellInv /\ FalseLeakInv /\ KeptInv /\ MissedLeakInv
  OBVIOUS
<1>1. \A t \in Threads : call[t] = Idle /\ args[t] = NoEvent
  BY DEF Init
<1>2. Idle.pc = "idle" /\ Idle.arg = NoBlock /\ Idle.at = NoBlock /\ NoBlock \notin Blocks
  BY RestrackAssumption DEF Idle
<1>3. Outstanding = {} /\ \A a : ~Stands(tracked, ring, a)
  BY StandsEmpty DEF Init, Outstanding
<1>4. OwnInv
  BY <1>1, <1>2 DEF OwnInv, Owns, Settled
<1>5. TellInv
  BY <1>1, <1>2, EventKinds DEF TellInv, Tells
<1> QED  BY <1>3, <1>4, <1>5 DEF FalseLeakInv, KeptInv, MissedLeakInv

\* A step of the target keeps the blocks apart and the events right.
LEMMA OwnTellStep ==
  ASSUME RestrackInv, OwnInv, TellInv, NEW t \in Threads,
         \/ ProbeStep(t) \/ Working(t) \/ Failing(t)
         \/ \E a \in Addresses \cup {Null}, freeOp \in BOOLEAN : ExitStep(t, a, freeOp)
  PROVE  OwnInv' /\ TellInv'
<1>1. Alone(t) /\ Remembers(t) /\ Tells(t)'
  BY ProbeEffects, WorkingEffects, FailingEffects, ExitEffects DEF Effects
<1> QED  BY <1>1, OwnStep, TellStep

\* The collector changes nothing of it.
LEMMA InvCollector ==
  ASSUME RestrackInv, OwnInv, TellInv, Collector \/ Stop \/ UNCHANGED vars
  PROVE  /\ OwnInv' /\ TellInv' /\ (FalseLeakInv => FalseLeakInv')
         /\ (KeptInv => KeptInv') /\ (MissedLeakInv => MissedLeakInv')
<1>1. UNCHANGED <<heap, call, args, lost, missing, stale>>
  BY DEF Collector, Consume, PollTimesOut, CheckLost, Stop, target, kernel, reader, history, vars
<1>2. \A a : Stands(tracked', ring', a) <=> Stands(tracked, ring, a)
  <2>1. CASE Collector \/ Stop
    <3>1. ASSUME NEW a PROVE Stands(tracked, ring, a)' <=> Stands(tracked, ring, a)
      BY <2>1, CollectorStands
    <3> QED  BY <3>1 DEF Stands
  <2>2. CASE UNCHANGED vars
    BY <2>2 DEF vars, kernel, reader
  <2> QED  BY <2>1, <2>2
<1>3. Outstanding' = Outstanding
  BY <1>1 DEF Outstanding, Key
<1>4. OwnInv' /\ TellInv'
  BY <1>1 DEF OwnInv, Owns, Settled, TellInv, Tells
<1>5. KeptInv => KeptInv'
  BY <1>1, <1>3 DEF KeptInv, Holds
<1>6. FalseLeakInv => FalseLeakInv'
  <2>1. FalseLeakInv' <=> (~lost => \A a \in Addresses \cup {Null} :
                             Stands(tracked', ring', a) =>
                               a \in Outstanding \cup stale \/ \E t \in Threads : WillFree(t, a))
    BY <1>1, <1>3 DEF FalseLeakInv, WillFree, Stands
  <2> QED  BY <1>2, <2>1 DEF FalseLeakInv
<1>7. MissedLeakInv => MissedLeakInv'
  <2>1. MissedLeakInv' <=> (~lost => \A a \in Addresses :
                              a \in Outstanding =>
                                a \in missing \/ Stands(tracked', ring', a) \/ \E t \in Threads : WillTell(t, a))
    BY <1>1, <1>3 DEF MissedLeakInv, WillTell, Stands
  <2> QED  BY <1>2, <2>1 DEF MissedLeakInv
<1> QED  BY <1>4, <1>5, <1>6, <1>7

\* Whichever way the calls of the threads, the library's own calls, direct and overlapping
\* system calls and the collector interleave, the report accuses no address that was freed,
\* unless no probe could tell of its free.
THEOREM NeverFalseLeak == Spec => []NoFalseLeak
<1> DEFINE Inv == OwnInv /\ TellInv /\ FalseLeakInv
<1>1. Init => Inv
  BY InvStart
<1>2. RestrackInv /\ Inv /\ [Next]_vars => Inv'
  <2> SUFFICES ASSUME RestrackInv, Inv, [Next]_vars PROVE Inv'
    OBVIOUS
  <2>1. CASE Target
    BY <2>1, TargetIs, OwnTellStep, FalseLeakStep
  <2>2. CASE Collector \/ Stop \/ UNCHANGED vars
    BY <2>2, InvCollector
  <2> QED  BY <2>1, <2>2 DEF Next
<1>3. RestrackInv /\ Inv => NoFalseLeak
  <2> SUFFICES ASSUME RestrackInv, Inv, Drained, ~lost, NEW a \in tracked
               PROVE  a \in Outstanding \cup stale
    BY DEF NoFalseLeak
  <2>1. a \in Addresses \cup {Null}
    BY DEF RestrackInv, TypeOK
  <2>2. Stands(tracked, ring, a)
    BY StandsEmpty DEF Drained
  <2>3. \A t \in Threads : call[t].pc = "idle"
    <3>1. Idle.pc = "idle"
      BY DEF Idle
    <3> QED  BY <3>1 DEF Drained
  <2>4. \A t \in Threads : ~WillFree(t, a)
    BY <2>3, Untelling
  <2> QED  BY <2>1, <2>2, <2>4 DEF FalseLeakInv
<1> QED  BY <1>1, <1>2, <1>3, RestrackSafe, PTL DEF Spec

\* Whichever way they interleave, the report misses no outstanding address, unless no probe
\* could tell of it, or its free was told instead.
THEOREM NeverLeakMissed == Spec => []NoLeakMissed
<1> DEFINE Inv == OwnInv /\ TellInv /\ KeptInv /\ MissedLeakInv
<1>1. Init => Inv
  BY InvStart
<1>2. RestrackInv /\ Inv /\ [Next]_vars => Inv'
  <2> SUFFICES ASSUME RestrackInv, Inv, [Next]_vars PROVE Inv'
    OBVIOUS
  <2>1. CASE Target
    BY <2>1, TargetIs, OwnTellStep, KeptStep, MissedLeakStep
  <2>2. CASE Collector \/ Stop \/ UNCHANGED vars
    BY <2>2, InvCollector
  <2> QED  BY <2>1, <2>2 DEF Next
<1>3. RestrackInv /\ Inv => NoLeakMissed
  <2> SUFFICES ASSUME RestrackInv, Inv, Drained, ~lost, NEW a \in Outstanding,
                      a \notin {Rest(b) : b \in Blocks}
               PROVE  a \in tracked \cup missing
    BY DEF NoLeakMissed
  <2>1. a \in Addresses
    BY DEF Outstanding, Key, Addresses, RestrackInv, TypeOK, HeapStates
  <2>2. Stands(tracked, ring, a) => a \in tracked
    BY StandsEmpty DEF Drained
  <2>3. \A t \in Threads : call[t].pc = "idle"
    <3>1. Idle.pc = "idle"
      BY DEF Idle
    <3> QED  BY <3>1 DEF Drained
  <2>4. \A t \in Threads : ~WillTell(t, a)
    BY <2>3, Untelling
  <2> QED  BY <2>1, <2>2, <2>4 DEF MissedLeakInv
<1> QED  BY <1>1, <1>2, <1>3, RestrackSafe, PTL DEF Spec
=============================================================================
