------------------------- MODULE DumpEngine_proofs -------------------------
(***************************************************************************)
(* write_dump for any calls, targets, stripes, masks and backends: its     *)
(* locks and masks (EngineInv), which call every file is of (FilesInv),    *)
(* why a reported dump stays (KeptInv) and why a default name is free      *)
(* (NamesInv).                                                             *)
(***************************************************************************)
EXTENDS DumpEngine, TLAPS, FiniteSetTheorems

\* What the invariant says besides the types.
Parts == TargetLockHeld /\ MaskLockHeld /\ MaskOfCall /\ MaskOfProcess /\ PreviousIsOwn

\* A process that lost its mask stays one: no step changes what such a call returns.
StaysUnrestored == \A p \in Pids : Unrestored(p) => Unrestored(p)'

\* The bound on the clock is a number.
LEMMA LastClockType == LastClock \in Nat
BY EngineAssumption, FS_CardinalityType DEF LastClock

\* No call of write_dump has begun: no lock is held, and every process has its own mask.
LEMMA InitInv == Init => EngineInv
<1> SUFFICES ASSUME Init PROVE EngineInv
  OBVIOUS
<1> USE EngineAssumption, LastClockType DEF Init
<1>1. 1 \in 0..LastClock
  BY FS_CardinalityType DEF LastClock
<1>2. TypeOK
  BY <1>1 DEF TypeOK, Calls, Results, Contents, Paths
<1>3. TargetLockHeld /\ MaskLockHeld
  BY DEF TargetLockHeld, MaskLockHeld, Held, MaskHeld, Calls
<1>4. UnrestoredIsLast /\ MaskOfCall /\ MaskOfProcess /\ PreviousIsOwn
  BY DEF UnrestoredIsLast, MaskOfCall, MaskOfProcess, PreviousIsOwn, Masked
<1> QED
  BY <1>2, <1>3, <1>4 DEF EngineInv

\* Every step of a call, and of the system around the calls, keeps the types.
LEMMA TypeStep == ASSUME TypeOK, [Next]_vars PROVE TypeOK'
<1> USE EngineAssumption, LastClockType
    DEF Calls, Results, Contents, Paths, vars, locks, files
<1>1. ASSUME NEW r \in Requests, LockTarget(r) PROVE TypeOK'
  BY <1>1 DEF TypeOK, LockTarget, Goto, Return
<1>2. ASSUME NEW r \in Requests, LockMask(r) PROVE TypeOK'
  BY <1>2 DEF TypeOK, LockMask, Goto, Return
<1>3. ASSUME NEW r \in Requests, ReadMask(r) PROVE TypeOK'
  <2>1. pc' \in [Requests -> Calls] /\ result' \in [Requests -> Results]
    BY <1>3 DEF TypeOK, ReadMask, Goto, Return
  <2>2. /\ targetLock' \in [Pids -> Requests \cup {Nobody}]
        /\ maskLock' \in Requests \cup {Nobody}
        /\ previous' \in [Requests -> Masks \cup {NoMask}]
        /\ mask' \in [Pids -> Masks \cup {NoMask}]
        /\ clock' \in 0..LastClock /\ alive' \subseteq Pids /\ late' \subseteq Requests
    BY <1>3 DEF TypeOK, ReadMask
  <2>3. path' \in [Requests -> Paths]
    BY <1>3 DEF TypeOK, ReadMask
  <2>4. content' \in [Paths -> Contents] /\ by' \in [Paths -> Requests \cup {Nobody}]
    BY <1>3 DEF TypeOK, ReadMask
  <2> QED
    BY <2>1, <2>2, <2>3, <2>4 DEF TypeOK
<1>4. ASSUME NEW r \in Requests, WriteMask(r) PROVE TypeOK'
  <2>1. pc' \in [Requests -> Calls] /\ result' \in [Requests -> Results]
    BY <1>4 DEF TypeOK, WriteMask, Goto, Return
  <2>2. /\ targetLock' \in [Pids -> Requests \cup {Nobody}]
        /\ maskLock' \in Requests \cup {Nobody}
        /\ previous' \in [Requests -> Masks \cup {NoMask}]
        /\ mask' \in [Pids -> Masks \cup {NoMask}]
        /\ clock' \in 0..LastClock /\ alive' \subseteq Pids /\ late' \subseteq Requests
    BY <1>4 DEF TypeOK, WriteMask
  <2>3. path' \in [Requests -> Paths]
    BY <1>4 DEF TypeOK, WriteMask
  <2>4. content' \in [Paths -> Contents] /\ by' \in [Paths -> Requests \cup {Nobody}]
    BY <1>4 DEF TypeOK, WriteMask
  <2> QED
    BY <2>1, <2>2, <2>3, <2>4 DEF TypeOK
<1>5. ASSUME NEW r \in Requests, Begin(r) PROVE TypeOK'
  BY <1>5 DEF TypeOK, Begin, Goto, Return
<1>6. ASSUME NEW r \in Requests, Name(r) PROVE TypeOK'
  <2>1. pc' \in [Requests -> Calls] /\ result' \in [Requests -> Results]
    BY <1>6 DEF TypeOK, Name, Goto, Return
  <2>2. /\ targetLock' \in [Pids -> Requests \cup {Nobody}]
        /\ maskLock' \in Requests \cup {Nobody}
        /\ previous' \in [Requests -> Masks \cup {NoMask}]
        /\ mask' \in [Pids -> Masks \cup {NoMask}]
        /\ clock' \in 0..LastClock /\ alive' \subseteq Pids /\ late' \subseteq Requests
    BY <1>6 DEF TypeOK, Name
  <2>3. path' \in [Requests -> Paths]
    <3>1. CandidatePath(r) \in Paths
      BY DEF CandidatePath, NamePid, TypeOK
    <3>2. path \in [Requests -> Paths]
      BY DEF TypeOK
    <3>3. path' = path \/ path' = [path EXCEPT ![r] = CandidatePath(r)]
      BY <1>6 DEF Name
    <3> QED
      BY <3>1, <3>2, <3>3
  <2>4. content' \in [Paths -> Contents] /\ by' \in [Paths -> Requests \cup {Nobody}]
    BY <1>6 DEF TypeOK, Name
  <2> QED
    BY <2>1, <2>2, <2>3, <2>4 DEF TypeOK
<1>7. ASSUME NEW r \in Requests, CheckExists(r) PROVE TypeOK'
  BY <1>7 DEF TypeOK, CheckExists, Goto, Return
<1>8. ASSUME NEW r \in Requests, Reserve(r) PROVE TypeOK'
  <2>1. pc' \in [Requests -> Calls] /\ result' \in [Requests -> Results]
    BY <1>8 DEF TypeOK, Reserve, Goto, Return
  <2>2. /\ targetLock' \in [Pids -> Requests \cup {Nobody}]
        /\ maskLock' \in Requests \cup {Nobody}
        /\ previous' \in [Requests -> Masks \cup {NoMask}]
        /\ mask' \in [Pids -> Masks \cup {NoMask}]
        /\ clock' \in 0..LastClock /\ alive' \subseteq Pids /\ late' \subseteq Requests
    BY <1>8 DEF TypeOK, Reserve
  <2>3. path' \in [Requests -> Paths]
    BY <1>8 DEF TypeOK, Reserve
  <2>4. content' \in [Paths -> Contents] /\ by' \in [Paths -> Requests \cup {Nobody}]
    <3>1. \/ UNCHANGED <<by, content>>
          \/ /\ by' = [by EXCEPT ![path[r]] = r]
             /\ content' = [content EXCEPT ![path[r]] = "empty"]
      BY <1>8 DEF Reserve
    <3>2. "empty" \in Contents
      OBVIOUS
    <3>3. path[r] \in Paths
      BY DEF TypeOK
    <3> HIDE DEF Paths, Contents
    <3>4. CASE UNCHANGED <<by, content>>
      BY <3>4 DEF TypeOK
    <3>5. CASE by' = [by EXCEPT ![path[r]] = r]
               /\ content' = [content EXCEPT ![path[r]] = "empty"]
      BY <3>2, <3>3, <3>5 DEF TypeOK
    <3> QED
      BY <3>1, <3>4, <3>5
  <2> QED
    BY <2>1, <2>2, <2>3, <2>4 DEF TypeOK
<1>9. ASSUME NEW r \in Requests, Generate(r) PROVE TypeOK'
  BY <1>9 DEF TypeOK, Generate, Goto, Return, Written
<1>10. ASSUME NEW r \in Requests, GenerateFails(r) PROVE TypeOK'
  BY <1>10 DEF TypeOK, GenerateFails, Goto, Return, Written
<1>11. ASSUME NEW r \in Requests, Cancelled(r) PROVE TypeOK'
  BY <1>11 DEF TypeOK, Cancelled, Goto, Return
<1>12. ASSUME NEW r \in Requests, TimesOut(r) PROVE TypeOK'
  BY <1>12 DEF TypeOK, TimesOut, Goto, Return
<1>13. ASSUME NEW r \in Requests, GcoreLost(r) PROVE TypeOK'
  BY <1>13 DEF TypeOK, GcoreLost, Goto, Return, Written
<1>14. ASSUME NEW r \in Requests, Panics(r) PROVE TypeOK'
  BY <1>14 DEF TypeOK, Panics, Goto, Return
<1>15. ASSUME NEW r \in Requests, Verify(r) PROVE TypeOK'
  BY <1>15 DEF TypeOK, Verify, Goto, Return
<1>16. ASSUME NEW r \in Requests, Cleanup(r) PROVE TypeOK'
  BY <1>16 DEF TypeOK, Cleanup, Goto, Return, Removed
<1>17. ASSUME NEW r \in Requests, Restore(r) PROVE TypeOK'
  BY <1>17 DEF TypeOK, Restore, Goto, Return, Restored
<1>18. ASSUME NEW r \in Requests, UnlockMask(r) PROVE TypeOK'
  BY <1>18 DEF TypeOK, UnlockMask, Goto, Return, Freed
<1>19. ASSUME NEW r \in Requests, UnlockTarget(r) PROVE TypeOK'
  BY <1>19 DEF TypeOK, UnlockTarget, Goto, Return
<1>20. ASSUME NEW r \in Requests, LateDump(r) PROVE TypeOK'
  BY <1>20 DEF TypeOK, LateDump, Written
<1>21. ASSUME NEW p \in Pids, Exits(p) PROVE TypeOK'
  BY <1>21 DEF TypeOK, Exits
<1>22. CASE Tick
  BY <1>22 DEF TypeOK, Tick
<1>23. CASE Cancel
  BY <1>23 DEF TypeOK, Cancel
<1>24. CASE UNCHANGED vars
  BY <1>24 DEF TypeOK
<1> QED
  BY <1>1, <1>2, <1>3, <1>4, <1>5, <1>6, <1>7, <1>8, <1>9, <1>10, <1>11, <1>12, <1>13,
      <1>14, <1>15, <1>16, <1>17, <1>18, <1>19, <1>20, <1>21, <1>22, <1>23, <1>24 DEF Next, Step, Terminated

\* Two calls for one process are never both between target_lock and its release.
LEMMA OneCallPerTarget ==
  ASSUME TargetLockHeld, NEW r \in Requests, NEW q \in Requests, Pid[r] = Pid[q],
         pc[r] \in Held, pc[q] \in Held
  PROVE  r = q
<1>1. Pid[r] \in Pids /\ Pid[r] \in StripeOf(r) /\ Pid[r] \in StripeOf(q)
  BY EngineAssumption DEF StripeOf
<1> QED
  BY <1>1 DEF TargetLockHeld

\* What write_dump_inner does, from the search for a name to the removal of a failed
\* dump, touches no lock and no mask.
LEMMA InnerStep ==
  ASSUME TypeOK, Parts, StaysUnrestored, NEW r \in Requests, NEW s \in Masked,
         pc[r] \in Masked, pc' = [pc EXCEPT ![r] = s],
         UNCHANGED <<previous, targetLock, maskLock, mask, alive>>
  PROVE  Parts'
<1>1. \A q \in Requests : pc'[q] = IF q = r THEN s ELSE pc[q]
  BY DEF TypeOK
<1>2. \A x \in Masked : x \in Held /\ x \in MaskHeld /\ x # "writeMask"
                     /\ x \notin {"lockMask", "readMask", "writeMask", "unlockMask"}
  BY DEF Masked, MaskHeld, Held, Calls
<1>3. TargetLockHeld' /\ MaskLockHeld'
  BY <1>1, <1>2 DEF Parts, TargetLockHeld, MaskLockHeld, StripeOf
<1>u. \A p \in Pids : ~Unrestored(p)' => ~Unrestored(p)
  BY DEF StaysUnrestored
<1>4. MaskOfCall' /\ PreviousIsOwn'
  BY <1>1, <1>2, <1>u, EngineAssumption DEF Parts, MaskOfCall, PreviousIsOwn
<1>5. MaskOfProcess'
  BY <1>1, <1>u DEF Parts, MaskOfProcess, TypeOK
<1> QED
  BY <1>3, <1>4, <1>5 DEF Parts

\* A call whose mask was not restored only gives its locks back, and keeps its result.
LEMMA UnrestoredStep ==
  ASSUME TypeOK, UnrestoredIsLast, [Next]_vars
  PROVE  UnrestoredIsLast' /\ StaysUnrestored
<1>0. pc \in [Requests -> Calls] /\ result \in [Requests -> Results]
  BY DEF TypeOK
<1> SUFFICES /\ UnrestoredIsLast'
             /\ \A q \in Requests : result[q] = "unrestored" => result'[q] = "unrestored"
  BY DEF StaysUnrestored, Unrestored
<1> USE DEF UnrestoredIsLast
<1>1. ASSUME NEW r \in Requests, \/ LockTarget(r) \/ LockMask(r) \/ ReadMask(r) \/ WriteMask(r)
                                 \/ Begin(r) \/ Name(r) \/ CheckExists(r)
      PROVE  /\ UnrestoredIsLast'
             /\ \A q \in Requests : result[q] = "unrestored" => result'[q] = "unrestored"
  BY <1>0, <1>1 DEF LockTarget, LockMask, ReadMask, WriteMask, Begin, Name, CheckExists, Goto, Return
<1>2. ASSUME NEW r \in Requests, Reserve(r) \/ Generate(r) \/ Verify(r) \/ Cleanup(r)
      PROVE  /\ UnrestoredIsLast'
             /\ \A q \in Requests : result[q] = "unrestored" => result'[q] = "unrestored"
  BY <1>0, <1>2 DEF Reserve, Generate, Verify, Cleanup, Goto, Return
<1>3. ASSUME NEW r \in Requests, GenerateFails(r) \/ Cancelled(r) \/ TimesOut(r) \/ GcoreLost(r) \/ Panics(r)
      PROVE  /\ UnrestoredIsLast'
             /\ \A q \in Requests : result[q] = "unrestored" => result'[q] = "unrestored"
  BY <1>0, <1>3 DEF GenerateFails, Cancelled, TimesOut, GcoreLost, Panics, Goto, Return
<1>4. ASSUME NEW r \in Requests, Restore(r) \/ UnlockMask(r) \/ UnlockTarget(r)
      PROVE  /\ UnrestoredIsLast'
             /\ \A q \in Requests : result[q] = "unrestored" => result'[q] = "unrestored"
  BY <1>0, <1>4 DEF Restore, UnlockMask, UnlockTarget, Goto, Return
<1>5. CASE \/ \E r \in Requests : LateDump(r)
           \/ \E p \in Pids : Exits(p)
           \/ Tick \/ Cancel \/ Terminated \/ UNCHANGED vars
  BY <1>5 DEF LateDump, Exits, Tick, Cancel, Terminated, vars
<1> QED
  BY <1>1, <1>2, <1>3, <1>4, <1>5 DEF Next, Step

\* What touches no call, lock or mask keeps them as the invariant says.
LEMMA RestStep ==
  ASSUME Parts, UNCHANGED <<pc, previous, targetLock, maskLock, mask>>,
         \A p \in alive' : p \in alive /\ (~Unrestored(p)' => ~Unrestored(p)),
         \A r \in Requests : ~Unrestored(Pid[r])' => ~Unrestored(Pid[r])
  PROVE  Parts'
<1>1. TargetLockHeld' /\ MaskLockHeld'
  BY DEF Parts, TargetLockHeld, MaskLockHeld, StripeOf
<1>2. MaskOfCall' /\ MaskOfProcess' /\ PreviousIsOwn'
  BY DEF Parts, MaskOfCall, MaskOfProcess, PreviousIsOwn
<1> QED
  BY <1>1, <1>2 DEF Parts

\* Every step keeps the locks and masks as the invariant says.
LEMMA PartsStep == ASSUME EngineInv, [Next]_vars PROVE Parts'
<1> USE EngineAssumption DEF EngineInv, Parts, vars, locks, files
<1>s. StaysUnrestored
  BY UnrestoredStep
<1>a. alive' \subseteq alive /\ alive \subseteq Pids
  BY DEF TypeOK, Next, Step, LockTarget, LockMask, ReadMask, WriteMask, Begin, Name, CheckExists,
     Reserve, Generate, GenerateFails, Cancelled, TimesOut, GcoreLost, Panics, Verify, Cleanup,
     Restore, UnlockMask, UnlockTarget, LateDump, Exits, Tick, Cancel, Terminated
<1>u. /\ \A p \in alive' : p \in alive /\ (~Unrestored(p)' => ~Unrestored(p))
      /\ \A r \in Requests : ~Unrestored(Pid[r])' => ~Unrestored(Pid[r])
  BY <1>s, <1>a DEF StaysUnrestored
<1>1. ASSUME NEW r \in Requests, LockTarget(r) PROVE Parts'
  <2>1. TargetLockHeld'
    BY <1>1 DEF LockTarget, Goto, Return, TypeOK, TargetLockHeld, StripeOf, Held, Calls
  <2>2. MaskLockHeld'
    BY <1>1 DEF LockTarget, Goto, Return, TypeOK, MaskLockHeld, MaskHeld, Held, Calls
  <2>3. \A q \in Requests : q # r /\ Pid[q] = Pid[r] => pc[q] \notin Masked
    BY <1>1 DEF LockTarget, Held, Masked, Calls, TargetLockHeld, StripeOf
  <2>own. Pid[r] \in alive /\ ~Unrestored(Pid[r]) => mask[Pid[r]] = NoMask
    BY <1>1, <2>3 DEF LockTarget, MaskOfProcess, Masked
  <2>4. MaskOfCall'
    BY <1>u, <1>1, <2>3, <2>own DEF LockTarget, Goto, Return, TypeOK, MaskOfCall, Masked
  <2>5. MaskOfProcess'
    BY <1>u, <1>1, <2>3 DEF LockTarget, Goto, Return, TypeOK, MaskOfProcess, MaskOfCall,
        PreviousIsOwn, Masked
  <2>6. PreviousIsOwn'
    BY <1>u, <1>1, <2>3 DEF LockTarget, Goto, Return, TypeOK, PreviousIsOwn, MaskOfProcess, Masked
  <2> QED
    BY <2>1, <2>2, <2>4, <2>5, <2>6
<1>2. ASSUME NEW r \in Requests, LockMask(r) PROVE Parts'
  <2>1. TargetLockHeld'
    BY <1>2 DEF LockMask, Goto, Return, TypeOK, TargetLockHeld, StripeOf, Held, Calls
  <2>2. MaskLockHeld'
    BY <1>2 DEF LockMask, Goto, Return, TypeOK, MaskLockHeld, MaskHeld, Held, Calls
  <2>3. \A q \in Requests : q # r /\ Pid[q] = Pid[r] => pc[q] \notin Masked
    BY <1>2, OneCallPerTarget DEF LockMask, Held, Masked, Calls, TargetLockHeld, StripeOf
  <2>4. MaskOfCall'
    BY <1>u, <1>2, <2>3 DEF LockMask, Goto, Return, TypeOK, MaskOfCall, Masked
  <2>5. MaskOfProcess'
    BY <1>u, <1>2, <2>3 DEF LockMask, Goto, Return, TypeOK, MaskOfProcess, MaskOfCall,
        PreviousIsOwn, Masked
  <2>6. PreviousIsOwn'
    BY <1>u, <1>2, <2>3 DEF LockMask, Goto, Return, TypeOK, PreviousIsOwn, MaskOfProcess, Masked
  <2> QED
    BY <2>1, <2>2, <2>4, <2>5, <2>6
<1>3. ASSUME NEW r \in Requests, ReadMask(r) PROVE Parts'
  <2>1. TargetLockHeld'
    BY <1>3 DEF ReadMask, Goto, Return, TypeOK, TargetLockHeld, StripeOf, Held, Calls
  <2>2. MaskLockHeld'
    BY <1>3 DEF ReadMask, Goto, Return, TypeOK, MaskLockHeld, MaskHeld, Held, Calls
  <2>3. \A q \in Requests : q # r /\ Pid[q] = Pid[r] => pc[q] \notin Masked
    BY <1>3, OneCallPerTarget DEF ReadMask, Held, Masked, Calls, TargetLockHeld, StripeOf
  <2>own. Pid[r] \in alive /\ ~Unrestored(Pid[r]) => mask[Pid[r]] = NoMask
    BY <1>3, <2>3 DEF ReadMask, MaskOfProcess, Masked
  <2>4. MaskOfCall'
    BY <1>u, <1>3, <2>3 DEF ReadMask, Goto, Return, TypeOK, MaskOfCall, Masked
  <2>5. MaskOfProcess'
    BY <1>u, <1>3, <2>3 DEF ReadMask, Goto, Return, TypeOK, MaskOfProcess, MaskOfCall,
        PreviousIsOwn, Masked
  <2>6. PreviousIsOwn'
    BY <1>u, <1>3, <2>3, <2>own DEF ReadMask, Goto, Return, TypeOK, PreviousIsOwn, MaskOfProcess,
        Masked
  <2> QED
    BY <2>1, <2>2, <2>4, <2>5, <2>6
<1>4. ASSUME NEW r \in Requests, WriteMask(r) PROVE Parts'
  <2>1. TargetLockHeld'
    BY <1>4 DEF WriteMask, Goto, Return, TypeOK, TargetLockHeld, StripeOf, Held, Calls
  <2>2. MaskLockHeld'
    BY <1>4 DEF WriteMask, Goto, Return, TypeOK, MaskLockHeld, MaskHeld, Held, Calls
  <2>3. \A q \in Requests : q # r /\ Pid[q] = Pid[r] => pc[q] \notin Masked
    BY <1>4, OneCallPerTarget DEF WriteMask, Held, Masked, Calls, TargetLockHeld, StripeOf
  <2>4. MaskOfCall'
    <3> SUFFICES ASSUME NEW q \in Requests, pc'[q] \in Masked, Pid[q] \in alive,
                        Mask[q] # NoMask \/ ~Unrestored(Pid[q])'
                 PROVE  mask'[Pid[q]] = Mask[q]
      BY <1>4 DEF MaskOfCall, WriteMask
    <3>1. CASE q = r
      BY <1>4, <3>1 DEF WriteMask, Goto, Return, TypeOK, Masked
    <3>2. CASE q # r
      <4>1. pc[q] \in Masked /\ Pid[q] # Pid[r]
        BY <1>4, <3>2, <2>3 DEF WriteMask, Goto, Return, TypeOK
      <4> QED
        BY <1>u, <1>4, <4>1 DEF WriteMask, TypeOK, MaskOfCall
    <3> QED
      BY <3>1, <3>2
  <2>5. MaskOfProcess'
    BY <1>u, <1>4, <2>3 DEF WriteMask, Goto, Return, TypeOK, MaskOfProcess, MaskOfCall,
        PreviousIsOwn, Masked
  <2>6. PreviousIsOwn'
    BY <1>u, <1>4, <2>3 DEF WriteMask, Goto, Return, TypeOK, PreviousIsOwn, MaskOfProcess, Masked
  <2> QED
    BY <2>1, <2>2, <2>4, <2>5, <2>6
<1>5. ASSUME NEW r \in Requests, Begin(r) PROVE Parts'
  <2>1. PICK s \in Masked : pc' = [pc EXCEPT ![r] = s]
    BY <1>5 DEF Begin, Goto, Return, Masked
  <2>2. pc[r] \in Masked /\ UNCHANGED <<previous, targetLock, maskLock, mask, alive>>
    BY <1>5 DEF Begin, Masked
  <2> QED
    BY <1>s, <2>1, <2>2, InnerStep
<1>6. ASSUME NEW r \in Requests, Name(r) PROVE Parts'
  <2>1. PICK s \in Masked : pc' = [pc EXCEPT ![r] = s]
    BY <1>6 DEF Name, Goto, Return, CandidatePath, Masked
  <2>2. pc[r] \in Masked /\ UNCHANGED <<previous, targetLock, maskLock, mask, alive>>
    BY <1>6 DEF Name, Masked
  <2> QED
    BY <1>s, <2>1, <2>2, InnerStep
<1>7. ASSUME NEW r \in Requests, CheckExists(r) PROVE Parts'
  <2>1. PICK s \in Masked : pc' = [pc EXCEPT ![r] = s]
    BY <1>7 DEF CheckExists, Goto, Return, Masked
  <2>2. pc[r] \in Masked /\ UNCHANGED <<previous, targetLock, maskLock, mask, alive>>
    BY <1>7 DEF CheckExists, Masked
  <2> QED
    BY <1>s, <2>1, <2>2, InnerStep
<1>8. ASSUME NEW r \in Requests, Reserve(r) PROVE Parts'
  <2>1. PICK s \in Masked : pc' = [pc EXCEPT ![r] = s]
    BY <1>8 DEF Reserve, Goto, Return, MayOpen, Masked
  <2>2. pc[r] \in Masked /\ UNCHANGED <<previous, targetLock, maskLock, mask, alive>>
    BY <1>8 DEF Reserve, Masked
  <2> QED
    BY <1>s, <2>1, <2>2, InnerStep
<1>9. ASSUME NEW r \in Requests, Generate(r) PROVE Parts'
  <2>1. PICK s \in Masked : pc' = [pc EXCEPT ![r] = s]
    BY <1>9 DEF Generate, Goto, Return, Written, Masked
  <2>2. pc[r] \in Masked /\ UNCHANGED <<previous, targetLock, maskLock, mask, alive>>
    BY <1>9 DEF Generate, Masked
  <2> QED
    BY <1>s, <2>1, <2>2, InnerStep
<1>10. ASSUME NEW r \in Requests, GenerateFails(r) PROVE Parts'
  <2>1. PICK s \in Masked : pc' = [pc EXCEPT ![r] = s]
    BY <1>10 DEF GenerateFails, Goto, Return, Written, Masked
  <2>2. pc[r] \in Masked /\ UNCHANGED <<previous, targetLock, maskLock, mask, alive>>
    BY <1>10 DEF GenerateFails, Masked
  <2> QED
    BY <1>s, <2>1, <2>2, InnerStep
<1>11. ASSUME NEW r \in Requests, Cancelled(r) PROVE Parts'
  <2>1. PICK s \in Masked : pc' = [pc EXCEPT ![r] = s]
    BY <1>11 DEF Cancelled, Goto, Return, Masked
  <2>2. pc[r] \in Masked /\ UNCHANGED <<previous, targetLock, maskLock, mask, alive>>
    BY <1>11 DEF Cancelled, Masked
  <2> QED
    BY <1>s, <2>1, <2>2, InnerStep
<1>12. ASSUME NEW r \in Requests, TimesOut(r) PROVE Parts'
  <2>1. PICK s \in Masked : pc' = [pc EXCEPT ![r] = s]
    BY <1>12 DEF TimesOut, Goto, Return, Masked
  <2>2. pc[r] \in Masked /\ UNCHANGED <<previous, targetLock, maskLock, mask, alive>>
    BY <1>12 DEF TimesOut, Masked
  <2> QED
    BY <1>s, <2>1, <2>2, InnerStep
<1>13. ASSUME NEW r \in Requests, GcoreLost(r) PROVE Parts'
  <2>1. PICK s \in Masked : pc' = [pc EXCEPT ![r] = s]
    BY <1>13 DEF GcoreLost, Goto, Return, Written, Masked
  <2>2. pc[r] \in Masked /\ UNCHANGED <<previous, targetLock, maskLock, mask, alive>>
    BY <1>13 DEF GcoreLost, Masked
  <2> QED
    BY <1>s, <2>1, <2>2, InnerStep
<1>14. ASSUME NEW r \in Requests, Panics(r) PROVE Parts'
  <2>1. PICK s \in Masked : pc' = [pc EXCEPT ![r] = s]
    BY <1>14 DEF Panics, Goto, Return, Masked
  <2>2. pc[r] \in Masked /\ UNCHANGED <<previous, targetLock, maskLock, mask, alive>>
    BY <1>14 DEF Panics, Masked
  <2> QED
    BY <1>s, <2>1, <2>2, InnerStep
<1>15. ASSUME NEW r \in Requests, Verify(r) PROVE Parts'
  <2>1. PICK s \in Masked : pc' = [pc EXCEPT ![r] = s]
    BY <1>15 DEF Verify, Goto, Return, Masked
  <2>2. pc[r] \in Masked /\ UNCHANGED <<previous, targetLock, maskLock, mask, alive>>
    BY <1>15 DEF Verify, Masked
  <2> QED
    BY <1>s, <2>1, <2>2, InnerStep
<1>16. ASSUME NEW r \in Requests, Cleanup(r) PROVE Parts'
  <2>1. PICK s \in Masked : pc' = [pc EXCEPT ![r] = s]
    BY <1>16 DEF Cleanup, Goto, Return, Removed, Masked
  <2>2. pc[r] \in Masked /\ UNCHANGED <<previous, targetLock, maskLock, mask, alive>>
    BY <1>16 DEF Cleanup, Masked
  <2> QED
    BY <1>s, <2>1, <2>2, InnerStep
<1>17. ASSUME NEW r \in Requests, Restore(r) PROVE Parts'
  <2>1. TargetLockHeld'
    BY <1>17 DEF Restore, Goto, Return, Restored, TypeOK, TargetLockHeld, StripeOf, Held, Calls
  <2>2. MaskLockHeld'
    BY <1>17 DEF Restore, Goto, Return, Restored, TypeOK, MaskLockHeld, MaskHeld, Held, Calls
  <2>3. \A q \in Requests : q # r /\ Pid[q] = Pid[r] => pc[q] \notin Masked
    BY <1>17, OneCallPerTarget DEF Restore, Held, Masked, Calls, TargetLockHeld, StripeOf
  <2>4. MaskOfCall'
    BY <1>u, <1>17, <2>3 DEF Restore, Goto, Return, Restored, TypeOK, MaskOfCall, Masked
  <2>5. MaskOfProcess'
    <3>0. Pid[r] \in Pids /\ pc[r] = "restore" /\ "restore" \in Masked
      BY <1>17 DEF Restore, Masked
    <3>1. ASSUME NEW p \in alive', p # Pid[r], ~Unrestored(p)',
                 \A q \in Requests : Pid[q] = p => pc'[q] \notin Masked
          PROVE  mask'[p] = NoMask
      BY <1>u, <1>17, <3>1 DEF Restore, Goto, Return, TypeOK, MaskOfProcess
    <3>2. ASSUME Pid[r] \in alive', ~Unrestored(Pid[r])'
          PROVE  mask'[Pid[r]] = NoMask
      <4>1. Pid[r] \in alive /\ ~Unrestored(Pid[r])
        BY <1>u, <3>2
      <4>2. result' = [result EXCEPT ![r] = "unrestored"] => Unrestored(Pid[r])'
        BY DEF Unrestored, TypeOK
      <4>3. CASE Mask[r] = NoMask
        BY <1>17, <3>0, <4>1, <4>3 DEF Restore, MaskOfCall
      <4>4. CASE Mask[r] # NoMask
        BY <1>17, <3>0, <3>2, <4>1, <4>2, <4>4 DEF Restore, Return, Restored, TypeOK, PreviousIsOwn
      <4> QED  BY <4>3, <4>4
    <3> QED  BY <3>1, <3>2 DEF MaskOfProcess
  <2>6. PreviousIsOwn'
    BY <1>u, <1>17, <2>3 DEF Restore, Goto, Return, Restored, TypeOK, PreviousIsOwn,
        MaskOfProcess, Masked
  <2> QED
    BY <2>1, <2>2, <2>4, <2>5, <2>6
<1>18. ASSUME NEW r \in Requests, UnlockMask(r) PROVE Parts'
  <2>1. TargetLockHeld'
    BY <1>18 DEF UnlockMask, Goto, Return, Freed, TypeOK, TargetLockHeld, StripeOf, Held, Calls
  <2>2. MaskLockHeld'
    BY <1>18 DEF UnlockMask, Goto, Return, Freed, TypeOK, MaskLockHeld, MaskHeld, Held, Calls
  <2>3. \A q \in Requests : q # r /\ Pid[q] = Pid[r] => pc[q] \notin Masked
    BY <1>18, OneCallPerTarget DEF UnlockMask, Held, Masked, Calls, TargetLockHeld, StripeOf
  <2>4. MaskOfCall'
    BY <1>u, <1>18, <2>3 DEF UnlockMask, Goto, Return, Freed, TypeOK, MaskOfCall, Masked
  <2>5. MaskOfProcess'
    BY <1>u, <1>18, <2>3 DEF UnlockMask, Goto, Return, Freed, TypeOK, MaskOfProcess, MaskOfCall,
        PreviousIsOwn, Masked
  <2>6. PreviousIsOwn'
    BY <1>u, <1>18, <2>3 DEF UnlockMask, Goto, Return, Freed, TypeOK, PreviousIsOwn,
        MaskOfProcess, Masked
  <2> QED
    BY <2>1, <2>2, <2>4, <2>5, <2>6
<1>19. ASSUME NEW r \in Requests, UnlockTarget(r) PROVE Parts'
  <2>1. TargetLockHeld'
    BY <1>19 DEF UnlockTarget, Goto, Return, TypeOK, TargetLockHeld, StripeOf, Held, Calls
  <2>2. MaskLockHeld'
    BY <1>19 DEF UnlockTarget, Goto, Return, TypeOK, MaskLockHeld, MaskHeld, Held, Calls
  <2>3. \A q \in Requests : q # r /\ Pid[q] = Pid[r] => pc[q] \notin Masked
    BY <1>19, OneCallPerTarget DEF UnlockTarget, Held, Masked, Calls, TargetLockHeld, StripeOf
  <2>4. MaskOfCall'
    BY <1>u, <1>19, <2>3 DEF UnlockTarget, Goto, Return, TypeOK, MaskOfCall, Masked
  <2>5. MaskOfProcess'
    BY <1>u, <1>19, <2>3 DEF UnlockTarget, Goto, Return, TypeOK, MaskOfProcess, MaskOfCall,
        PreviousIsOwn, Masked
  <2>6. PreviousIsOwn'
    BY <1>u, <1>19, <2>3 DEF UnlockTarget, Goto, Return, TypeOK, PreviousIsOwn, MaskOfProcess, Masked
  <2> QED
    BY <2>1, <2>2, <2>4, <2>5, <2>6
<1>20. ASSUME NEW r \in Requests, LateDump(r) PROVE Parts'
  <2>1. UNCHANGED <<pc, previous, targetLock, maskLock, mask>>
    BY <1>20 DEF LateDump
  <2> QED  BY <1>u, <2>1, RestStep
<1>21. ASSUME NEW p \in Pids, Exits(p) PROVE Parts'
  <2>1. UNCHANGED <<pc, previous, targetLock, maskLock, mask>>
    BY <1>21 DEF Exits
  <2> QED  BY <1>u, <2>1, RestStep
<1>22. CASE Tick
  <2>1. UNCHANGED <<pc, previous, targetLock, maskLock, mask>>
    BY <1>22 DEF Tick
  <2> QED  BY <1>u, <2>1, RestStep
<1>23. CASE Cancel
  <2>1. UNCHANGED <<pc, previous, targetLock, maskLock, mask>>
    BY <1>23 DEF Cancel
  <2> QED  BY <1>u, <2>1, RestStep
<1>24. CASE UNCHANGED vars
  <2>1. UNCHANGED <<pc, previous, targetLock, maskLock, mask>>
    BY <1>24 DEF vars
  <2> QED  BY <1>u, <2>1, RestStep
<1> QED
  BY <1>1, <1>2, <1>3, <1>4, <1>5, <1>6, <1>7, <1>8, <1>9, <1>10, <1>11, <1>12, <1>13,
      <1>14, <1>15, <1>16, <1>17, <1>18, <1>19, <1>20, <1>21, <1>22, <1>23, <1>24 DEF Next, Step, Terminated

\* EngineInv holds always, for any number of concurrent calls of write_dump.
THEOREM EngineInvariant == Spec => []EngineInv
<1>1. Init => EngineInv
  BY InitInv
<1>2. EngineInv /\ [Next]_vars => EngineInv'
  BY TypeStep, PartsStep, UnrestoredStep DEF EngineInv, Parts
<1> QED
  BY <1>1, <1>2, PTL DEF Spec

\* A dump is made with the mask of its own call, or the process's own where it was restored.
THEOREM MaskAlwaysAsAsked == Spec => []MaskAsAsked
<1>1. EngineInv => MaskAsAsked
  BY DEF EngineInv, MaskOfCall, MaskAsAsked, Masked
<1> QED
  BY <1>1, EngineInvariant, PTL

\* A process has its own mask again when the last call for it has returned, unless a restore
\* failed.
THEOREM MaskAlwaysRestored == Spec => []MaskRestored
<1>1. EngineInv => MaskRestored
  BY DEF EngineInv, MaskOfProcess, MaskRestored, Masked
<1> QED
  BY <1>1, EngineInvariant, PTL
-----------------------------------------------------------------------------
(* The output files.                                                       *)

\* The steps before a call has opened its file.
Early == {"call", "lockMask", "readMask", "writeMask", "begin", "name", "exists", "reserve"}

\* What a call can return by where it is; only a call that gave up leaves a runtime behind.
ResultOfStep ==
  \A r \in Requests :
    /\ pc[r] \in Early \cup {"generate", "verify"} => result[r] = "none"
    /\ pc[r] = "cleanup" => result[r] \in {"backend", "timeout"}
    /\ result[r] = "unrestored" => pc[r] \in {"unlockMask", "unlock", "done"}
    /\ r \in late => GaveUp(r)

\* A call's files: only its own path, once it was opened, and none after a plain failure.
Over == {"restore", "unlockMask", "unlock", "done"}
Plain == {"exists", "io", "backend"}
FilesOwned ==
  /\ \A f \in Paths : content[f] = "absent" => by[f] = Nobody
  /\ \A f \in Paths, r \in Requests : by[f] = r => f = path[r] /\ pc[r] \notin Early
  /\ \A r \in Requests, f \in Paths :
       pc[r] \in Over /\ result[r] \in Plain => by[f] # r

\* The inductive invariant of the files, whatever overwrites what.
FilesInv == ResultOfStep /\ FilesOwned

\* A call that may still remove or report its file.
Keeps(r) == pc[r] \in {"generate", "verify", "cleanup"} \/ result[r] = "ok"

\* Without -o, the file of such a call exists and is no other such call's; a complete one is
\* only written again by a runtime that was given up.
Kept(r) ==
  /\ Keeps(r) => Exists(path[r])
  /\ \A q \in Requests : Keeps(r) /\ Keeps(q) /\ path[r] = path[q] => r = q
  /\ pc[r] = "verify" => \/ content[path[r]] = "complete"
                         \/ content[path[r]] = "empty" /\ Backend[r] = "dotnet"
  /\ result[r] = "ok" => content[path[r]] = "complete"
  /\ pc[r] = "verify" \/ result[r] = "ok" => by[path[r]] = r \/ GaveUp(by[path[r]])
KeptInv == (\A r \in Requests : ~Overwrite[r]) => \A r \in Requests : Kept(r)

\* The calls whose default name has the pid in it.
Timed(r) == ~Custom[r] /\ Backend[r] # "dotnet"

\* No native dump with a default name is newer than the last call for its process, which
\* still has the lock: its own name is free.
NameFree(r) ==
  /\ pc[r] = "name" => /\ since[r] <= clock
                       /\ \A f \in Paths : Exists(f) /\ f.pid = Pid[r] => f.sec <= since[r]
  /\ pc[r] \in {"exists", "reserve"} => ~Exists(path[r]) /\ path[r].sec > 0
  /\ result[r] # "exists"
NamesInv ==
  /\ clock >= 1 /\ since \in [Requests -> 0..LastClock]
  /\ \A r \in Requests : path[r].sec > 0 => /\ path[r].sec <= clock
                                            /\ path[r].pid = NamePid(r) /\ ~Custom[r]
  /\ \A f \in Paths : Exists(f) => f.sec <= clock
  /\ \A r \in Requests : Timed(r) => NameFree(r)

\* Results are kept until the call ends, but a success may become a mask error; a call that
\* gave up stays one.
LEMMA ResultStep ==
  ASSUME TypeOK, ResultOfStep, [Next]_vars
  PROVE  ResultOfStep' /\ \A q \in Requests : GaveUp(q) => GaveUp(q)'
<1> USE DEF ResultOfStep, GaveUp, Early
<1>0. pc \in [Requests -> Calls] /\ result \in [Requests -> Results] /\ late \subseteq Requests
  BY DEF TypeOK
<1>1. ASSUME NEW r \in Requests, \/ LockTarget(r) \/ LockMask(r) \/ ReadMask(r) \/ WriteMask(r)
                                 \/ Begin(r) \/ Name(r) \/ CheckExists(r)
      PROVE  ResultOfStep' /\ \A q \in Requests : GaveUp(q) => GaveUp(q)'
  BY <1>0, <1>1 DEF LockTarget, LockMask, ReadMask, WriteMask, Begin, Name, CheckExists, Goto, Return,
     files
<1>2. ASSUME NEW r \in Requests, Reserve(r) \/ Generate(r) \/ Verify(r) \/ Cleanup(r)
      PROVE  ResultOfStep' /\ \A q \in Requests : GaveUp(q) => GaveUp(q)'
  BY <1>0, <1>2 DEF Reserve, Generate, Verify, Cleanup, Goto, Return, files
<1>3. ASSUME NEW r \in Requests, GenerateFails(r) \/ Cancelled(r) \/ TimesOut(r) \/ GcoreLost(r) \/ Panics(r)
      PROVE  ResultOfStep' /\ \A q \in Requests : GaveUp(q) => GaveUp(q)'
  BY <1>0, <1>3 DEF GenerateFails, Cancelled, TimesOut, GcoreLost, Panics, Goto, Return, files
<1>4. ASSUME NEW r \in Requests, Restore(r) \/ UnlockMask(r) \/ UnlockTarget(r)
      PROVE  ResultOfStep' /\ \A q \in Requests : GaveUp(q) => GaveUp(q)'
  BY <1>0, <1>4 DEF Restore, UnlockMask, UnlockTarget, Goto, Return, files
<1>5. CASE \/ \E r \in Requests : LateDump(r)
           \/ \E p \in Pids : Exits(p)
           \/ Tick \/ Cancel \/ Terminated \/ UNCHANGED vars
  BY <1>0, <1>5 DEF LateDump, Exits, Tick, Cancel, Terminated, vars, files
<1> QED
  BY <1>1, <1>2, <1>3, <1>4, <1>5 DEF Next, Step

\* What a step may do to the files.  Nothing; or r writes, creates or removes its own.
FilesAlone == UNCHANGED <<by, content>>
Writes(r, c) ==
  by' = [by EXCEPT ![path[r]] = r] /\ content' = [content EXCEPT ![path[r]] = c]
Removes(r) ==
  by' = [by EXCEPT ![path[r]] = Nobody] /\ content' = [content EXCEPT ![path[r]] = "absent"]

\* The steps of a call by what they do to its place and to the files.
LEMMA FileStep ==
  ASSUME TypeOK, NEW r \in Requests, Step(r)
  PROVE  /\ \E s \in Calls : pc' = [pc EXCEPT ![r] = s]
         /\ \A q \in Requests \ {r} : result'[q] = result[q] /\ path'[q] = path[q]
         /\ pc[r] # "name" => path' = path
         /\ pc[r] \notin Early => pc'[r] \notin Early
         /\ \/ /\ FilesAlone
               /\ pc'[r] \in Over /\ result'[r] \in Plain =>
                    \/ pc[r] \in Early
                    \/ pc[r] \in Over /\ result[r] = result'[r]
                    \/ pc[r] = "verify" /\ ~Exists(path[r])
            \/ /\ pc[r] = "reserve" /\ Writes(r, "empty")
               /\ \/ pc'[r] = "generate"
                  \/ pc'[r] = "restore" /\ result'[r] = "opened"
            \/ /\ pc[r] = "generate" /\ \E c \in Contents \ {"absent"} : Writes(r, c)
               /\ pc'[r] \in {"verify", "cleanup"} \/ result'[r] = "start"
            \/ pc[r] = "cleanup" /\ Removes(r)
<1> USE DEF FilesAlone, Writes, Removes, files, Early, Over, Plain
<1>0. /\ pc \in [Requests -> Calls] /\ result \in [Requests -> Results]
      /\ path \in [Requests -> Paths]
  BY DEF TypeOK
<1>1. CASE \/ LockTarget(r) \/ LockMask(r) \/ ReadMask(r) \/ WriteMask(r)
           \/ Begin(r) \/ Name(r) \/ CheckExists(r)
  BY <1>0, <1>1 DEF LockTarget, LockMask, ReadMask, WriteMask, Begin, Name, CheckExists, Goto, Return,
     Calls
<1>2. CASE Reserve(r)
  BY <1>0, <1>2 DEF Reserve, Goto, Return, Calls
<1>3. CASE Generate(r) \/ GenerateFails(r) \/ GcoreLost(r)
  BY <1>0, <1>3 DEF Generate, GenerateFails, GcoreLost, Written, Goto, Return, Calls, Contents
<1>4. CASE Cancelled(r) \/ TimesOut(r) \/ Panics(r) \/ Verify(r)
  BY <1>0, <1>4, EngineAssumption DEF Cancelled, TimesOut, Panics, Verify, Verified, Exists,
     Goto, Return, Calls, Backends
<1>5. CASE Cleanup(r)
  BY <1>0, <1>5 DEF Cleanup, Removed, Goto, Return, Calls
<1>6. CASE Restore(r) \/ UnlockMask(r) \/ UnlockTarget(r)
  BY <1>0, <1>6 DEF Restore, UnlockMask, UnlockTarget, Goto, Return, Calls
<1> QED  BY <1>1, <1>2, <1>3, <1>4, <1>5, <1>6 DEF Step

\* Every step keeps the files as FilesOwned says.
LEMMA FilesStep == ASSUME TypeOK, FilesInv, [Next]_vars PROVE FilesOwned'
<1> USE DEF FilesInv
<1>0. /\ pc \in [Requests -> Calls] /\ result \in [Requests -> Results]
      /\ path \in [Requests -> Paths] /\ Nobody \notin Requests
      /\ by \in [Paths -> Requests \cup {Nobody}] /\ content \in [Paths -> Contents]
  BY EngineAssumption DEF TypeOK
<1>1. ASSUME NEW r \in Requests, Step(r) PROVE FilesOwned'
  <2>1. PICK s \in Calls : pc' = [pc EXCEPT ![r] = s]
    BY <1>1, FileStep
  <2>2. /\ \A q \in Requests \ {r} : /\ result'[q] = result[q] /\ path'[q] = path[q]
                                      /\ pc'[q] = pc[q]
        /\ pc[r] # "name" => path' = path
        /\ pc[r] \notin Early => pc'[r] \notin Early
    BY <1>0, <1>1, <2>1, FileStep
  <2>3. pc[r] \in Early => \A f \in Paths : by[f] # r
    BY <1>0 DEF FilesOwned
  <2>4. CASE /\ FilesAlone
             /\ pc'[r] \in Over /\ result'[r] \in Plain =>
                  \/ pc[r] \in Early
                  \/ pc[r] \in Over /\ result[r] = result'[r]
                  \/ pc[r] = "verify" /\ ~Exists(path[r])
    <3>1. ASSUME NEW f \in Paths, content'[f] = "absent" PROVE by'[f] = Nobody
      BY <2>4, <3>1 DEF FilesAlone, FilesOwned
    <3>2. ASSUME NEW f \in Paths, NEW q \in Requests, by'[f] = q
          PROVE  f = path'[q] /\ pc'[q] \notin Early
      <4>1. f = path[q] /\ pc[q] \notin Early
        BY <2>4, <3>2 DEF FilesAlone, FilesOwned
      <4> QED  BY <4>1, <2>2 DEF Early
    <3>3. ASSUME NEW q \in Requests, NEW f \in Paths, pc'[q] \in Over, result'[q] \in Plain
          PROVE  by'[f] # q
      <4>1. CASE q # r
        BY <2>2, <2>4, <3>3, <4>1 DEF FilesAlone, FilesOwned
      <4>2. CASE q = r /\ pc[r] \in Early
        BY <2>3, <2>4, <4>2 DEF FilesAlone
      <4>3. CASE q = r /\ pc[r] \in Over /\ result[r] = result'[r]
        BY <2>4, <3>3, <4>3 DEF FilesAlone, FilesOwned
      <4>4. CASE q = r /\ pc[r] = "verify" /\ ~Exists(path[r])
        BY <1>0, <2>4, <4>4 DEF FilesAlone, FilesOwned, Exists
      <4> QED  BY <2>4, <3>3, <4>1, <4>2, <4>3, <4>4
    <3> QED  BY <3>1, <3>2, <3>3 DEF FilesOwned
  <2>5. ASSUME NEW c \in Contents \ {"absent"}, Writes(r, c), path' = path, pc'[r] \notin Early,
               pc'[r] \notin Over \/ result'[r] \notin Plain
        PROVE  FilesOwned'
    <3>1. ASSUME NEW f \in Paths, content'[f] = "absent" PROVE by'[f] = Nobody
      BY <1>0, <2>5, <3>1 DEF Writes, FilesOwned
    <3>2. ASSUME NEW f \in Paths, NEW q \in Requests, by'[f] = q
          PROVE  f = path'[q] /\ pc'[q] \notin Early
      BY <1>0, <2>2, <2>5, <3>2 DEF Writes, FilesOwned
    <3>3. ASSUME NEW q \in Requests, NEW f \in Paths, pc'[q] \in Over, result'[q] \in Plain
          PROVE  by'[f] # q
      BY <1>0, <2>2, <2>5, <3>3 DEF Writes, FilesOwned
    <3> QED  BY <3>1, <3>2, <3>3 DEF FilesOwned
  <2>6. CASE pc[r] = "cleanup" /\ Removes(r)
    <3>0. path' = path /\ pc'[r] \notin Early
      BY <2>2, <2>6 DEF Early
    <3>1. ASSUME NEW f \in Paths, content'[f] = "absent" PROVE by'[f] = Nobody
      BY <1>0, <2>6, <3>1 DEF Removes, FilesOwned
    <3>2. ASSUME NEW f \in Paths, NEW q \in Requests, by'[f] = q
          PROVE  by[f] = q /\ f # path[r]
      BY <1>0, <2>6, <3>2 DEF Removes
    <3>3. ASSUME NEW f \in Paths, NEW q \in Requests, by'[f] = q
          PROVE  f = path[q] /\ pc[q] \notin Early /\ q # r
      BY <3>2, <3>3 DEF FilesOwned
    <3>4. ASSUME NEW q \in Requests, NEW f \in Paths, pc'[q] \in Over, result'[q] \in Plain,
                 by'[f] = q
          PROVE  FALSE
      BY <2>2, <3>2, <3>3, <3>4 DEF FilesOwned
    <3> QED  BY <2>2, <3>0, <3>1, <3>3, <3>4 DEF FilesOwned
  <2>7. CASE /\ pc[r] = "reserve" /\ Writes(r, "empty")
             /\ pc'[r] = "generate" \/ (pc'[r] = "restore" /\ result'[r] = "opened")
    <3>1. /\ path' = path /\ pc'[r] \notin Early
          /\ pc'[r] \notin Over \/ result'[r] \notin Plain
      BY <2>2, <2>7 DEF Early, Over, Plain
    <3>2. "empty" \in Contents \ {"absent"}
      BY DEF Contents
    <3> QED  BY <2>5, <2>7, <3>1, <3>2
  <2>8. CASE /\ pc[r] = "generate" /\ \E c \in Contents \ {"absent"} : Writes(r, c)
             /\ pc'[r] \in {"verify", "cleanup"} \/ result'[r] = "start"
    <3>1. /\ path' = path /\ pc'[r] \notin Early
          /\ pc'[r] \notin Over \/ result'[r] \notin Plain
      BY <2>2, <2>8 DEF Early, Over, Plain
    <3> QED  BY <2>5, <2>8, <3>1
  <2>9. \/ /\ FilesAlone
           /\ pc'[r] \in Over /\ result'[r] \in Plain =>
                \/ pc[r] \in Early
                \/ pc[r] \in Over /\ result[r] = result'[r]
                \/ pc[r] = "verify" /\ ~Exists(path[r])
        \/ /\ pc[r] = "reserve" /\ Writes(r, "empty")
           /\ pc'[r] = "generate" \/ (pc'[r] = "restore" /\ result'[r] = "opened")
        \/ /\ pc[r] = "generate" /\ \E c \in Contents \ {"absent"} : Writes(r, c)
           /\ pc'[r] \in {"verify", "cleanup"} \/ result'[r] = "start"
        \/ pc[r] = "cleanup" /\ Removes(r)
    BY <1>1, FileStep
  <2> QED  BY <2>4, <2>6, <2>7, <2>8, <2>9
<1>2. ASSUME NEW r \in Requests, LateDump(r) PROVE FilesOwned'
  <2>0. /\ Writes(r, "complete") /\ r \in late
        /\ UNCHANGED <<pc, result, path>>
    BY <1>2 DEF LateDump, Written, Writes
  <2>1. pc[r] \notin Early /\ result[r] \notin Plain
    BY <2>0 DEF ResultOfStep, GaveUp, Plain
  <2>2. ASSUME NEW f \in Paths
        PROVE  by'[f] = (IF f = path[r] THEN r ELSE by[f])
               /\ content'[f] = (IF f = path[r] THEN "complete" ELSE content[f])
    BY <1>0, <2>0 DEF Writes
  <2> QED  BY <2>0, <2>1, <2>2 DEF FilesOwned
<1>3. CASE \/ \E p \in Pids : Exits(p)
           \/ Tick \/ Cancel \/ Terminated \/ UNCHANGED vars
  BY <1>3 DEF Exits, Tick, Cancel, Terminated, vars, files, FilesOwned
<1> QED  BY <1>1, <1>2, <1>3 DEF Next

\* Whatever is overwritten, every file is its last writer's own path.
THEOREM FilesInvariant == Spec => []FilesInv
<1>1. Init => FilesInv
  BY EngineAssumption DEF Init, FilesInv, ResultOfStep, FilesOwned, Early, Over, Plain
<1>2. EngineInv /\ FilesInv /\ [Next]_vars => FilesInv'
  BY ResultStep, FilesStep DEF EngineInv, FilesInv
<1> QED  BY <1>1, <1>2, EngineInvariant, PTL DEF Spec

\* A call that failed before or in its backend leaves no file of its own.
THEOREM FailureAlwaysLeavesNothing == Spec => []FailureLeavesNothing
<1>1. FilesInv => FailureLeavesNothing
  BY DEF FilesInv, FilesOwned, FailureLeavesNothing, Over, Plain
<1> QED  BY <1>1, FilesInvariant, PTL

\* The same steps by what they do to a call that keeps its file.
Quiet(r) ==
  /\ FilesAlone
  /\ Keeps(r)' => Keeps(r) /\ path' = path
  /\ pc'[r] = "verify" => pc[r] = "verify"
  /\ result'[r] = "ok" => result[r] = "ok" \/ (pc[r] = "verify" /\ Verified(r))
Opens(r) ==
  /\ Writes(r, "empty") /\ path' = path
  /\ Overwrite[r] \/ ~Exists(path[r])
  /\ pc'[r] # "verify" /\ result'[r] # "ok"
Makes(r) ==
  /\ pc[r] = "generate" /\ path' = path /\ result'[r] # "ok"
  /\ \E c \in Contents \ {"absent"} :
       /\ Writes(r, c)
       /\ pc'[r] = "verify" => c = "complete" \/ (c = "empty" /\ Backend[r] = "dotnet")
Drops(r) == pc[r] = "cleanup" /\ Removes(r) /\ path' = path /\ ~Keeps(r)' /\ pc'[r] # "verify"

\* Every step of a call is one of these.
LEMMA KeepStep ==
  ASSUME TypeOK, ResultOfStep, NEW r \in Requests, Step(r)
  PROVE  Quiet(r) \/ Opens(r) \/ Makes(r) \/ Drops(r)
<1> USE DEF FilesAlone, Writes, Removes, files, Keeps, ResultOfStep, Early
<1>0. /\ pc \in [Requests -> Calls] /\ result \in [Requests -> Results]
      /\ path \in [Requests -> Paths]
  BY DEF TypeOK
<1>1. CASE \/ LockTarget(r) \/ LockMask(r) \/ ReadMask(r) \/ WriteMask(r)
           \/ Begin(r) \/ Name(r) \/ CheckExists(r)
  BY <1>0, <1>1 DEF Quiet, LockTarget, LockMask, ReadMask, WriteMask, Begin, Name, CheckExists,
     Goto, Return
<1>2. CASE Reserve(r)
  BY <1>0, <1>2 DEF Quiet, Opens, Reserve, MayOpen, Goto, Return
<1>3. CASE Generate(r) \/ GenerateFails(r) \/ GcoreLost(r)
  BY <1>0, <1>3 DEF Makes, Generate, GenerateFails, GcoreLost, Written, Goto, Return, Contents
<1>4. CASE Cancelled(r) \/ TimesOut(r) \/ Panics(r) \/ Verify(r)
  BY <1>0, <1>4 DEF Quiet, Cancelled, TimesOut, Panics, Verify, Goto, Return
<1>5. CASE Cleanup(r)
  BY <1>0, <1>5 DEF Quiet, Drops, Cleanup, Removed, Goto, Return
<1>6. CASE Restore(r) \/ UnlockMask(r) \/ UnlockTarget(r)
  BY <1>0, <1>6 DEF Quiet, Restore, UnlockMask, UnlockTarget, Goto, Return
<1> QED  BY <1>1, <1>2, <1>3, <1>4, <1>5, <1>6 DEF Step

\* Without -o, every step keeps the files of the calls that keep them.
LEMMA KeptStep == ASSUME TypeOK, FilesInv, KeptInv, [Next]_vars PROVE KeptInv'
<1> SUFFICES ASSUME \A r \in Requests : ~Overwrite[r]
             PROVE  \A r \in Requests : Kept(r)'
  BY DEF KeptInv
<1> USE DEF Kept
<1>0. /\ pc \in [Requests -> Calls] /\ result \in [Requests -> Results]
      /\ path \in [Requests -> Paths] /\ Nobody \notin Requests
      /\ by \in [Paths -> Requests \cup {Nobody}] /\ content \in [Paths -> Contents]
  BY EngineAssumption DEF TypeOK
<1>g. \A q : GaveUp(q) => GaveUp(q)'
  BY ResultStep DEF FilesInv, GaveUp
<1>k. \A r \in Requests : Kept(r)
  BY DEF KeptInv
<1>1. ASSUME NEW x \in Requests, Step(x), NEW r \in Requests
      PROVE  Kept(r)'
  <2>1. PICK s \in Calls : pc' = [pc EXCEPT ![x] = s]
    BY <1>1, FileStep
  <2>2. \A q \in Requests \ {x} :
          /\ result'[q] = result[q] /\ path'[q] = path[q] /\ pc'[q] = pc[q]
          /\ Keeps(q)' <=> Keeps(q)
    BY <1>0, <1>1, <2>1, FileStep DEF Keeps
  <2>3. CASE Quiet(x)
    <3>1. \A q \in Requests : Keeps(q)' => Keeps(q) /\ path'[q] = path[q]
      BY <2>2, <2>3 DEF Quiet
    <3>2. Keeps(r)' => /\ Exists(path[r])'
                       /\ content'[path'[r]] = content[path[r]] /\ by'[path'[r]] = by[path[r]]
      BY <1>k, <2>3, <3>1 DEF Quiet, FilesAlone, Exists
    <3>3. pc'[r] = "verify" => pc[r] = "verify" /\ Keeps(r)'
      BY <2>2, <2>3 DEF Quiet, Keeps
    <3>4. result'[r] = "ok" => /\ result[r] = "ok" \/ (pc[r] = "verify" /\ Verified(r))
                               /\ Keeps(r)'
      BY <2>2, <2>3 DEF Quiet, Keeps
    <3>5. result'[r] = "ok" => content[path[r]] = "complete"
      BY <1>k, <3>4 DEF Verified
    <3>6. GaveUp(by[path[r]]) /\ by'[path'[r]] = by[path[r]] => GaveUp(by[path[r]])'
      BY <1>g DEF GaveUp
    <3> QED  BY <1>k, <3>1, <3>2, <3>3, <3>4, <3>5, <3>6
  <2>4. ASSUME path' = path, NEW c \in Contents \ {"absent"}, Writes(x, c),
               \A q \in Requests \ {x} : Keeps(q) => path[q] # path[x],
               result'[x] # "ok",
               pc'[x] = "verify" => c = "complete" \/ (c = "empty" /\ Backend[x] = "dotnet")
        PROVE  Kept(r)'
    <3>1. content'[path[x]] = c /\ by'[path[x]] = x
      BY <1>0, <2>4 DEF Writes
    <3>2. \A q \in Requests \ {x} : Keeps(q) => /\ content'[path[q]] = content[path[q]]
                                                 /\ by'[path[q]] = by[path[q]]
      BY <1>0, <2>4 DEF Writes
    <3>3. \A q \in Requests :
            Keeps(r)' /\ Keeps(q)' /\ path'[r] = path'[q] => r = q
      BY <1>k, <2>2, <2>4
    <3>4. CASE r = x
      BY <2>4, <3>1, <3>3, <3>4 DEF Exists
    <3>5. CASE r # x
      <4>1. Keeps(r)' => Exists(path[r])'
        BY <1>k, <2>2, <2>4, <3>2, <3>5 DEF Exists
      <4>2. pc'[r] = "verify" \/ result'[r] = "ok" => Keeps(r)
        BY <2>2, <3>5 DEF Keeps
      <4>3. GaveUp(by[path[r]]) /\ by'[path'[r]] = by[path[r]] => GaveUp(by[path[r]])'
        BY <1>g DEF GaveUp
      <4> QED  BY <1>k, <2>2, <2>4, <3>2, <3>3, <3>5, <4>1, <4>2, <4>3
    <3> QED  BY <3>4, <3>5
  <2>5. CASE Opens(x)
    <3>1. \A q \in Requests \ {x} : Keeps(q) => path[q] # path[x]
      BY <1>k, <2>5 DEF Opens, Exists
    <3>2. "empty" \in Contents \ {"absent"}
      BY DEF Contents
    <3> QED  BY <2>4, <2>5, <3>1, <3>2 DEF Opens
  <2>6. CASE Makes(x)
    <3>1. \A q \in Requests \ {x} : Keeps(q) => path[q] # path[x]
      BY <1>k, <2>6 DEF Makes, Keeps
    <3> QED  BY <2>4, <2>6, <3>1 DEF Makes
  <2>7. CASE Drops(x)
    <3>1. \A q \in Requests \ {x} : Keeps(q) => path[q] # path[x]
      BY <1>k, <2>7 DEF Drops, Keeps
    <3>2. \A q \in Requests \ {x} : Keeps(q) => /\ content'[path[q]] = content[path[q]]
                                                 /\ by'[path[q]] = by[path[q]]
      BY <1>0, <2>7, <3>1 DEF Drops, Removes
    <3>3. \A q \in Requests : Keeps(q)' => q # x /\ Keeps(q) /\ path'[q] = path[q]
      BY <2>2, <2>7 DEF Drops
    <3>4. pc'[r] = "verify" \/ result'[r] = "ok" => Keeps(r)'
      BY DEF Keeps
    <3>5. GaveUp(by[path[r]]) /\ by'[path'[r]] = by[path[r]] => GaveUp(by[path[r]])'
      BY <1>g DEF GaveUp
    <3>6. Keeps(r)' => Exists(path[r])'
      BY <1>k, <3>2, <3>3 DEF Exists
    <3> QED  BY <1>k, <2>2, <3>2, <3>3, <3>4, <3>5, <3>6
  <2> QED  BY <1>1, <2>3, <2>5, <2>6, <2>7, KeepStep DEF FilesInv
<1>2. ASSUME NEW x \in Requests, LateDump(x), NEW r \in Requests
      PROVE  Kept(r)'
  <2>0. /\ Writes(x, "complete") /\ x \in late
        /\ UNCHANGED <<pc, result, path>>
    BY <1>2 DEF LateDump, Written, Writes
  <2>1. GaveUp(x)'
    BY <1>g, <2>0 DEF FilesInv, ResultOfStep
  <2>2. \A f \in Paths : /\ by'[f] = IF f = path[x] THEN x ELSE by[f]
                         /\ content'[f] = IF f = path[x] THEN "complete" ELSE content[f]
    BY <1>0, <2>0 DEF Writes
  <2>3. path[r] \in Paths /\ (Keeps(r)' <=> Keeps(r))
    BY <1>0, <2>0 DEF Keeps
  <2>4. \A q \in Requests : Keeps(r)' /\ Keeps(q)' /\ path'[r] = path'[q] => r = q
    BY <1>k, <2>0 DEF Keeps
  <2>5. CASE path[r] = path[x]
    <3>1. content'[path'[r]] = "complete" /\ by'[path'[r]] = x
      BY <2>0, <2>2, <2>3, <2>5
    <3>2. GaveUp(by[path[r]])'
      BY <2>1, <3>1 DEF GaveUp
    <3> QED  BY <2>4, <3>1, <3>2 DEF Exists
  <2>6. CASE path[r] # path[x]
    <3>1. content'[path'[r]] = content[path[r]] /\ by'[path'[r]] = by[path[r]]
      BY <2>0, <2>2, <2>3, <2>6
    <3>2. GaveUp(by[path[r]]) => GaveUp(by[path[r]])'
      BY <1>g, <3>1 DEF GaveUp
    <3>3. Keeps(r)' => Exists(path[r])'
      BY <1>k, <2>3, <3>1 DEF Exists
    <3> QED  BY <1>k, <2>0, <2>4, <3>1, <3>2, <3>3
  <2> QED  BY <2>5, <2>6
<1>3. CASE \/ \E p \in Pids : Exits(p)
           \/ Tick \/ Cancel \/ Terminated \/ UNCHANGED vars
  <2>1. UNCHANGED <<pc, result, path, by, content>>
    BY <1>3 DEF Exits, Tick, Cancel, Terminated, vars, files
  <2> QED  BY <1>k, <2>1 DEF Keeps, Exists, GaveUp
<1> QED  BY <1>1, <1>2, <1>3 DEF Next

\* Without -o a reported dump stays, complete and its caller's own.
THEOREM ReportedDumpAlwaysStays == Spec => []ReportedDumpStays
<1>1. Init => KeptInv
  BY DEF Init, KeptInv, Kept, Keeps
<1>2. EngineInv /\ FilesInv /\ KeptInv /\ [Next]_vars => KeptInv'
  BY KeptStep DEF EngineInv
<1>3. KeptInv => ReportedDumpStays
  BY DEF KeptInv, Kept, ReportedDumpStays
<1> QED  BY <1>1, <1>2, <1>3, EngineInvariant, FilesInvariant, PTL DEF Spec

\* No other call for the process writes a file with the pid and a time in its name: it would
\* have the target's lock.
LEMMA OthersNames ==
  ASSUME EngineInv, FilesInv, NamesInv, NEW r \in Requests, Timed(r), pc[r] \in Held,
         NEW q \in Requests, q # r, pc[q] \in Held \/ q \in late, path[q].sec > 0
  PROVE  path[q].pid # Pid[r]
<1>1. path[q].pid = NamePid(q) /\ Pid[r] # 0
  BY EngineAssumption DEF NamesInv
<1>2. CASE Backend[q] = "dotnet"
  BY <1>1, <1>2 DEF NamePid
<1>3. CASE Backend[q] # "dotnet"
  <2>1. pc[q] \in Held
    BY <1>3 DEF FilesInv, ResultOfStep, GaveUp
  <2> QED  BY <1>1, <1>3, <2>1, OneCallPerTarget DEF NamePid, EngineInv
<1> QED  BY <1>2, <1>3

\* The time and the names of the files are as NamesInv says after every step of a call.
LEMMA NameStep ==
  ASSUME TypeOK, NamesInv, NEW x \in Requests, Step(x)
  PROVE  /\ clock' = clock /\ since' \in [Requests -> 0..LastClock]
         /\ \A q \in Requests \ {x} : since'[q] = since[q]
         /\ \A r \in Requests : path'[r].sec > 0 => /\ path'[r].sec <= clock
                                                    /\ path'[r].pid = NamePid(r) /\ ~Custom[r]
         /\ \A f \in Paths : Exists(f)' => Exists(f) \/ (f = path[x] /\ pc[x] \in {"reserve", "generate"})
<1>0. /\ pc \in [Requests -> Calls] /\ path \in [Requests -> Paths]
      /\ content \in [Paths -> Contents] /\ clock \in 0..LastClock
  BY DEF TypeOK
<1>1. \A f \in Paths : Exists(f)' => Exists(f) \/ (f = path[x] /\ pc[x] \in {"reserve", "generate"})
  BY <1>0, FileStep DEF FilesAlone, Writes, Removes, Exists
<1>2. \/ UNCHANGED path
      \/ path' = [path EXCEPT ![x] = CandidatePath(x)]
  BY FileStep DEF Step, Name, LockTarget, LockMask, ReadMask, WriteMask, Begin, CheckExists,
     Reserve, Generate, GenerateFails, Cancelled, TimesOut, GcoreLost, Panics, Verify, Cleanup,
     Restore, UnlockMask, UnlockTarget
<1>3. \A r \in Requests : path'[r].sec > 0 => /\ path'[r].sec <= clock
                                             /\ path'[r].pid = NamePid(r) /\ ~Custom[r]
  BY <1>0, <1>2, LastClockType DEF NamesInv, CandidatePath
<1>4. clock' = clock /\ (UNCHANGED since \/ since' = [since EXCEPT ![x] = clock])
  BY DEF Step, Name, LockTarget, LockMask, ReadMask, WriteMask, Begin, CheckExists,
     Reserve, Generate, GenerateFails, Cancelled, TimesOut, GcoreLost, Panics, Verify, Cleanup,
     Restore, UnlockMask, UnlockTarget
<1> QED  BY <1>0, <1>1, <1>3, <1>4 DEF NamesInv

\* A step of a call for one process leaves the names of the calls for others free.
LEMMA NameFreeStep ==
  ASSUME EngineInv, FilesInv, NamesInv, NEW x \in Requests, Step(x),
         NEW r \in Requests, Timed(r), r # x
  PROVE  NameFree(r)'
<1> USE DEF EngineInv
<1>0. /\ pc \in [Requests -> Calls] /\ path \in [Requests -> Paths]
      /\ content \in [Paths -> Contents] /\ clock \in Nat
      /\ since[r] \in Nat /\ path[x] \in Paths /\ path[x].sec \in Nat
  BY LastClockType DEF TypeOK, NamesInv, Paths
<1>1. /\ pc'[r] = pc[r] /\ result'[r] = result[r] /\ path'[r] = path[r]
      /\ since'[r] = since[r] /\ clock' = clock
  BY <1>0, FileStep, NameStep
<1>2. \A f \in Paths : Exists(f)' => Exists(f) \/ (f = path[x] /\ pc[x] \in {"reserve", "generate"})
  BY NameStep
<1>3. pc[r] \in Held /\ pc[x] \in {"reserve", "generate"} /\ path[x].sec > 0
        => path[x].pid # Pid[r]
  BY OthersNames DEF Held, Calls
<1>4. NameFree(r)
  BY DEF NamesInv
<1>5. ASSUME pc'[r] = "name"
      PROVE  /\ since'[r] <= clock'
             /\ \A f \in Paths : Exists(f)' /\ f.pid = Pid[r] => f.sec <= since'[r]
  BY <1>0, <1>1, <1>2, <1>3, <1>4, <1>5 DEF NameFree, Held, Calls
<1>6. ASSUME pc'[r] \in {"exists", "reserve"}
      PROVE  ~Exists(path[r])' /\ path'[r].sec > 0
  <2>1. path[r] \in Paths /\ path[r].sec > 0 /\ ~Exists(path[r]) /\ pc[r] \in Held
    BY <1>0, <1>1, <1>4, <1>6 DEF NameFree, Held, Calls
  <2>2. path[r].pid = Pid[r]
    BY <2>1 DEF NamesInv, NamePid, Timed
  <2>3. ~(path[r] = path[x] /\ pc[x] \in {"reserve", "generate"})
    BY <1>3, <2>1, <2>2
  <2> QED  BY <1>1, <1>2, <2>1, <2>3 DEF Exists
<1> QED  BY <1>1, <1>4, <1>5, <1>6 DEF NameFree

\* The call's own steps: the name it finds is free until it has opened the file.
LEMMA OwnNameStep ==
  ASSUME EngineInv, FilesInv, NamesInv, NEW r \in Requests, Step(r), Timed(r)
  PROVE  NameFree(r)'
<1>0. /\ pc \in [Requests -> Calls] /\ result \in [Requests -> Results]
      /\ path \in [Requests -> Paths] /\ content \in [Paths -> Contents]
      /\ clock \in Nat /\ since[r] \in Nat /\ clock >= 1 /\ since \in [Requests -> 0..LastClock]
      /\ NameFree(r)
  BY LastClockType DEF TypeOK, EngineInv, NamesInv
<1>1. CASE LockTarget(r) \/ LockMask(r) \/ ReadMask(r) \/ WriteMask(r)
  BY <1>0, <1>1 DEF NameFree, LockTarget, LockMask, ReadMask, WriteMask, Goto, Return
<1>2. CASE Begin(r)
  BY <1>0, <1>2 DEF NamesInv, NameFree, Begin, Goto, Return, Exists, files
<1>3. CASE Name(r)
  <2>1. CandidatePath(r) \in Paths /\ CandidatePath(r).sec = clock /\ CandidatePath(r).pid = Pid[r]
    BY EngineAssumption DEF CandidatePath, Timed, NamePid, Paths, EngineInv, TypeOK
  <2>2. Exists(CandidatePath(r)) => clock <= since[r]
    BY <1>0, <1>3, <2>1 DEF NameFree, Name
  <2>3. /\ path' = [path EXCEPT ![r] = CandidatePath(r)] /\ ~Exists(CandidatePath(r))
        /\ pc' = [pc EXCEPT ![r] = "exists"] /\ UNCHANGED <<result, content>>
    BY <1>0, <1>3, <2>2 DEF Name, Timed, Deadline, Goto, files
  <2> QED  BY <1>0, <2>1, <2>3 DEF NameFree, Exists
<1>4. CASE CheckExists(r)
  BY <1>0, <1>4 DEF NameFree, CheckExists, Goto, Return, Exists, files
<1>5. CASE Reserve(r)
  BY <1>0, <1>5 DEF NameFree, Reserve, MayOpen, Goto, Return
<1>6. CASE Generate(r) \/ GenerateFails(r) \/ Cancelled(r) \/ TimesOut(r) \/ GcoreLost(r) \/ Panics(r)
  BY <1>0, <1>6 DEF NameFree, Generate, GenerateFails, Cancelled, TimesOut, GcoreLost, Panics,
     Goto, Return
<1>7. CASE Verify(r) \/ Cleanup(r) \/ Restore(r) \/ UnlockMask(r) \/ UnlockTarget(r)
  BY <1>0, <1>7 DEF NameFree, Verify, Cleanup, Restore, UnlockMask, UnlockTarget, Goto, Return
<1> QED  BY <1>1, <1>2, <1>3, <1>4, <1>5, <1>6, <1>7 DEF Step

\* Every step keeps the names as NamesInv says.
LEMMA NamesStep == ASSUME EngineInv, FilesInv, NamesInv, [Next]_vars PROVE NamesInv'
<1>0. /\ pc \in [Requests -> Calls] /\ path \in [Requests -> Paths]
      /\ content \in [Paths -> Contents] /\ clock \in Nat /\ TypeOK
      /\ \A r \in Requests : since[r] \in Nat /\ path[r] \in Paths /\ path[r].sec \in Nat
  BY LastClockType DEF EngineInv, TypeOK, NamesInv, Paths
<1>1. ASSUME NEW x \in Requests, Step(x) PROVE NamesInv'
  <2>1. \A r \in Requests : Timed(r) => NameFree(r)'
    BY <1>1, NameFreeStep, OwnNameStep
  <2>2. \A f \in Paths : Exists(f)' => f.sec <= clock
    BY <1>0, <1>1, NameStep DEF NamesInv
  <2> QED  BY <1>0, <1>1, <2>1, <2>2, NameStep DEF NamesInv, Timed
<1>2. ASSUME NEW x \in Requests, LateDump(x) PROVE NamesInv'
  <2>0. /\ content' = [content EXCEPT ![path[x]] = "complete"] /\ x \in late
        /\ UNCHANGED <<pc, result, path, since, clock>>
    BY <1>2 DEF LateDump, Written
  <2>1. \A f \in Paths : Exists(f)' => Exists(f) \/ f = path[x]
    BY <1>0, <2>0 DEF Exists
  <2>2. \A f \in Paths : Exists(f)' => f.sec <= clock
    BY <1>0, <2>1 DEF NamesInv
  <2>3. ASSUME NEW r \in Requests, Timed(r) PROVE NameFree(r)'
    <3>1. NameFree(r) /\ x # r
      BY <2>0, <2>3 DEF NamesInv, FilesInv, ResultOfStep, GaveUp, Timed
    <3>2. pc[r] \in Held /\ path[x].sec > 0 => path[x].pid # Pid[r]
      BY <2>0, <2>3, <3>1, OthersNames
    <3>3. ASSUME pc[r] = "name"
          PROVE  \A f \in Paths : Exists(f)' /\ f.pid = Pid[r] => f.sec <= since[r]
      BY <1>0, <2>1, <3>1, <3>2, <3>3 DEF NameFree, Held, Calls
    <3>4. ASSUME pc[r] \in {"exists", "reserve"} PROVE ~Exists(path[r])'
      <4>1. path[r] \in Paths /\ path[r].sec > 0 /\ ~Exists(path[r]) /\ pc[r] \in Held
        BY <1>0, <3>1, <3>4 DEF NameFree, Held, Calls
      <4>2. path[r].pid = Pid[r]
        BY <2>3, <4>1 DEF NamesInv, NamePid, Timed
      <4> QED  BY <2>0, <2>1, <3>2, <4>1, <4>2 DEF Exists
    <3> QED  BY <2>0, <3>1, <3>3, <3>4 DEF NameFree
  <2> QED  BY <2>0, <2>2, <2>3 DEF NamesInv, Timed
<1>3. CASE Tick
  <2>1. clock' = clock + 1 /\ UNCHANGED <<pc, result, path, since, content>>
    BY <1>3 DEF Tick, files
  <2>2. ASSUME NEW r \in Requests, Timed(r) PROVE NameFree(r)'
    BY <1>0, <2>1, <2>2 DEF NamesInv, NameFree, Exists
  <2>3. ASSUME NEW f \in Paths, Exists(f)' PROVE f.sec <= clock'
    <3>1. f.sec \in Nat /\ f.sec <= clock
      BY <2>1, <2>3, LastClockType DEF Paths, NamesInv, Exists
    <3> QED  BY <1>0, <2>1, <3>1
  <2>4. ASSUME NEW r \in Requests, path'[r].sec > 0
        PROVE  path'[r].sec <= clock' /\ path'[r].pid = NamePid(r) /\ ~Custom[r]
    <3>1. path[r].sec <= clock /\ path[r].pid = NamePid(r) /\ ~Custom[r]
      BY <2>1, <2>4 DEF NamesInv
    <3> QED  BY <1>0, <2>1, <3>1
  <2> QED  BY <1>0, <2>1, <2>2, <2>3, <2>4 DEF NamesInv, Timed
<1>4. CASE \/ \E p \in Pids : Exits(p)
           \/ Cancel \/ Terminated \/ UNCHANGED vars
  BY <1>4 DEF Exits, Cancel, Terminated, vars, files, NamesInv, NameFree, Timed, Exists, NamePid
<1> QED  BY <1>1, <1>2, <1>3, <1>4 DEF Next

\* A native dump with a default name is never refused because another dump has the name.
THEOREM DefaultNameAlwaysFound == Spec => []DefaultNameFound
<1>1. Init => NamesInv
  <2> SUFFICES ASSUME Init PROVE NamesInv
    OBVIOUS
  <2>1. clock = 1 /\ 1 \in 0..LastClock
    BY LastClockType, EngineAssumption, FS_CardinalityType DEF Init, LastClock
  <2>2. \A f \in Paths : Exists(f) => f.sec = 0
    BY DEF Init, Exists, Named
  <2> QED  BY <2>1, <2>2, LastClockType DEF Init, NamesInv, NameFree
<1>2. EngineInv /\ FilesInv /\ NamesInv /\ [Next]_vars => NamesInv'
  BY NamesStep
<1>3. NamesInv => DefaultNameFound
  BY DEF NamesInv, NameFree, Timed, DefaultNameFound
<1> QED  BY <1>1, <1>2, <1>3, EngineInvariant, FilesInvariant, PTL DEF Spec
=============================================================================
