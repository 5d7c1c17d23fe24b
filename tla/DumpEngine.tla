----------------------------- MODULE DumpEngine -----------------------------
(***************************************************************************)
(* write_dump (engine.rs, mask.rs): one call reserves an output file, sets *)
(* the target's core dump mask, lets a backend write the dump, cleans up   *)
(* and restores the mask.  Calls come from the coordinators of several     *)
(* sessions and from embedders, and run concurrently: a striped lock       *)
(* serialises the calls for one target, a global lock those with a mask,   *)
(* and the file system is shared by all.                                   *)
(***************************************************************************)
EXTENDS Naturals, FiniteSets

CONSTANTS
  Requests,     \* the calls
  Pids,         \* the target processes
  Pid,          \* the target of each call
  Stripe,       \* the lock of each target (pid modulo 64)
  Backend,      \* how each call's dump is made
  Masks,        \* values of -mc
  Mask,         \* the mask each call asks for, or NoMask
  Custom,       \* whether the call names its file
  Overwrite,    \* -o
  MaxClock,     \* bound on the seconds that pass while no call waits for one
  NoMask, Nobody

Backends == {"dotnet", "corex", "gcore"}

ASSUME EngineAssumption ==
  /\ Pids \subseteq Nat \ {0}
  /\ Pid \in [Requests -> Pids]
  /\ Backend \in [Requests -> Backends]
  /\ Custom \in [Requests -> BOOLEAN]
  /\ Overwrite \in [Requests -> BOOLEAN]
  /\ Mask \in [Requests -> Masks \cup {NoMask}]
  /\ NoMask \notin Masks
  /\ IsFiniteSet(Requests)
  /\ MaxClock \in Nat \ {0}
  /\ Nobody \notin Requests

\* The file of a call: the custom name or the time (0: custom), and the pid, which a
\* .NET dump does not have in its name (0).  LastClock bounds the time with all waits.
LastClock == MaxClock + 2 * Cardinality(Requests)
Paths == [sec : 0..LastClock, pid : Pids \cup {0}]

VARIABLES
  pc, result,   \* where each call is, what it returns
  previous,     \* CoreDumpMaskGuard::previous
  path,         \* the chosen path
  since,        \* when available_dump_paths began
  targetLock,   \* LOCKS: the holder of each stripe
  maskLock,     \* the holder of mask_lock()
  mask,         \* /proc/<pid>/coredump_filter; NoMask: as the process had it
  alive,        \* the targets that exist
  by, content,  \* the file system: who wrote a file, and its state
  late,         \* calls that gave up waiting while the .NET runtime still writes
  clock,        \* local_timestamp()
  cancelled     \* the CancellationToken

locks == <<targetLock, maskLock>>
files == <<by, content, late>>
vars == <<pc, result, previous, path, since, locks, mask, alive, files, clock, cancelled>>

\* What a call returns: the variants of DumpError, by what they leave behind.  "opened": an
\* error after the output file was opened; "unremoved": remove_if_present could not; "mask":
\* the mask was not set; "unrestored": it was set and could not be restored.
Results == {"none", "ok", "exists", "io", "opened", "start", "backend", "unremoved",
            "timeout", "mask", "unrestored", "panic"}
Contents == {"absent", "empty", "partial", "complete"}
Calls == {"call", "lockMask", "readMask", "writeMask", "begin", "name", "exists", "reserve",
          "generate", "verify", "cleanup", "restore", "unlockMask", "unlock", "done"}

\* The steps with the target's lock, with the mask's lock (if the call has a mask), and
\* with the mask set.
Held == Calls \ {"call", "done"}
MaskHeld == Held \ {"lockMask", "unlock"}
Masked == {"begin", "name", "exists", "reserve", "generate", "verify", "cleanup", "restore"}

Exists(f) == content[f] # "absent"

\* dump_paths: the prefix for a .NET dump, else the prefix and the pid.
NamePid(r) == IF Backend[r] = "dotnet" THEN 0 ELSE Pid[r]

\* Files with the names the callers give may be there from earlier runs.
Named == {[sec |-> 0, pid |-> NamePid(r)] : r \in {q \in Requests : Custom[q]}}

Init ==
  /\ pc = [r \in Requests |-> "call"]
  /\ result = [r \in Requests |-> "none"]
  /\ previous = [r \in Requests |-> NoMask]
  /\ path = [r \in Requests |-> [sec |-> 0, pid |-> 0]]
  /\ since = [r \in Requests |-> 1]
  /\ targetLock = [p \in Pids |-> Nobody]
  /\ maskLock = Nobody
  /\ mask = [p \in Pids |-> NoMask]
  /\ alive = Pids
  /\ by = [f \in Paths |-> Nobody]
  /\ \E old \in SUBSET Named :
       content = [f \in Paths |-> IF f \in old THEN "complete" ELSE "absent"]
  /\ late = {}
  /\ clock = 1
  /\ cancelled = FALSE

Goto(r, step) ==
  /\ pc' = [pc EXCEPT ![r] = step]
  /\ UNCHANGED result

Return(r, value, step) ==
  /\ pc' = [pc EXCEPT ![r] = step]
  /\ result' = [result EXCEPT ![r] = value]

-----------------------------------------------------------------------------
(* target_lock and CoreDumpMaskGuard::apply.                               *)

\* The targets that share r's lock: their entries of targetLock move together.
MutStripeOf(r) == {}
StripeOf(r) == {p \in Pids : Stripe[p] = Stripe[Pid[r]]}

LockTarget(r) ==
  /\ pc[r] = "call"
  /\ \A p \in StripeOf(r) : targetLock[p] = Nobody
  /\ targetLock' = [p \in Pids |-> IF p \in StripeOf(r) THEN r ELSE targetLock[p]]
  /\ Goto(r, IF Mask[r] = NoMask THEN "begin" ELSE "lockMask")
  /\ UNCHANGED <<previous, path, since, maskLock, mask, alive, files, clock, cancelled>>

LockMask(r) ==
  /\ pc[r] = "lockMask"
  /\ maskLock = Nobody
  /\ maskLock' = r
  /\ Goto(r, "readMask")
  /\ UNCHANGED <<previous, path, since, targetLock, mask, alive, files, clock, cancelled>>

\* The guard does not exist yet: an error only gives the locks back.
ReadMask(r) ==
  /\ pc[r] = "readMask"
  /\ \/ /\ Pid[r] \in alive
        /\ previous' = [previous EXCEPT ![r] = mask[Pid[r]]]
        /\ Goto(r, "writeMask")
     \/ /\ Return(r, "mask", "unlockMask")
        /\ UNCHANGED previous
  /\ UNCHANGED <<path, since, locks, mask, alive, files, clock, cancelled>>

WriteMask(r) ==
  /\ pc[r] = "writeMask"
  /\ \/ /\ Pid[r] \in alive
        /\ mask' = [mask EXCEPT ![Pid[r]] = Mask[r]]
        /\ Goto(r, "begin")
     \/ Return(r, "mask", "unlockMask") /\ UNCHANGED mask
  /\ UNCHANGED <<previous, path, since, locks, alive, files, clock, cancelled>>

-----------------------------------------------------------------------------
(* The output file: available_dump_paths and open_output_file.             *)

\* find_diagnostics_socket may fail; then available_dump_paths starts its deadline.
Begin(r) ==
  /\ pc[r] = "begin"
  /\ \/ /\ since' = [since EXCEPT ![r] = clock]
        /\ Goto(r, "name")
     \/ Return(r, "io", "restore") /\ UNCHANGED since
  /\ UNCHANGED <<previous, path, locks, mask, alive, files, clock, cancelled>>

CandidatePath(r) == [sec |-> IF Custom[r] THEN 0 ELSE clock, pid |-> NamePid(r)]

MutDeadline(r) == since[r]
Deadline(r) == since[r] + 2

\* A taken default name is tried again, with the time then, for two seconds.
Name(r) ==
  /\ pc[r] = "name"
  /\ \/ /\ Custom[r] \/ ~Exists(CandidatePath(r))
        /\ path' = [path EXCEPT ![r] = CandidatePath(r)]
        /\ Goto(r, "exists")
     \/ /\ ~Custom[r] /\ Exists(CandidatePath(r))
        /\ clock >= Deadline(r)
        /\ Return(r, "exists", "restore")
        /\ UNCHANGED path
  /\ UNCHANGED <<previous, since, locks, mask, alive, files, clock, cancelled>>

\* The backend's own look at the file, and ensure_writable_directory.
CheckExists(r) ==
  /\ pc[r] = "exists"
  /\ \/ /\ Exists(path[r]) /\ ~Overwrite[r]
        /\ Return(r, "exists", "restore")
     \/ /\ Overwrite[r] \/ ~Exists(path[r])
        /\ Goto(r, "reserve") \/ Return(r, "io", "restore")
  /\ UNCHANGED <<previous, path, since, locks, mask, alive, files, clock, cancelled>>

\* create_new is refused when the file exists, whoever made it since.
MutMayOpen(r) == TRUE
MayOpen(r) == Overwrite[r] \/ ~Exists(path[r])

\* open_output_file: the file is created, or emptied, or not touched.  After the open it may
\* turn out not to be a file of ours alone, or metadata and set_len may fail: the file is
\* left, a new one empty (second disjunct), an existing one as it was (last).
Reserve(r) ==
  /\ pc[r] = "reserve"
  /\ \/ /\ MayOpen(r)
        /\ by' = [by EXCEPT ![path[r]] = r]
        /\ content' = [content EXCEPT ![path[r]] = "empty"]
        /\ Goto(r, "generate")
     \/ /\ ~Exists(path[r])
        /\ by' = [by EXCEPT ![path[r]] = r]
        /\ content' = [content EXCEPT ![path[r]] = "empty"]
        /\ Return(r, "opened", "restore")
     \/ /\ ~MayOpen(r)
        /\ Return(r, "exists", "restore")
        /\ UNCHANGED <<by, content>>
     \/ /\ Return(r, "io", "restore")
        /\ UNCHANGED <<by, content>>
  /\ UNCHANGED <<previous, path, since, locks, mask, alive, late, clock, cancelled>>

-----------------------------------------------------------------------------
(* The backends.                                                           *)

Written(r, c) ==
  /\ content' = [content EXCEPT ![path[r]] = c]
  /\ by' = [by EXCEPT ![path[r]] = r]

\* The dump is written by name (gcore, the .NET runtime) or through the open file.  The
\* runtime may report success without having written anything.
Generate(r) ==
  /\ pc[r] = "generate"
  /\ Pid[r] \in alive
  /\ \E c \in {"complete"} \cup (IF Backend[r] = "dotnet" THEN {"empty"} ELSE {}) :
       Written(r, c)
  /\ Goto(r, "verify")
  /\ UNCHANGED <<previous, path, since, locks, mask, alive, late, clock, cancelled>>

\* The runtime, gcore or corex reports an error.
GenerateFails(r) ==
  /\ pc[r] = "generate"
  /\ \E c \in {"empty", "partial"} : Written(r, c)
  /\ Return(r, "backend", "cleanup")
  /\ UNCHANGED <<previous, path, since, locks, mask, alive, late, clock, cancelled>>

\* corex and the wait for gcore look at the token; the request to the runtime does not.
Cancelled(r) ==
  /\ pc[r] = "generate"
  /\ cancelled /\ Backend[r] # "dotnet"
  /\ Return(r, "backend", "cleanup")
  /\ UNCHANGED <<previous, path, since, locks, mask, alive, files, clock, cancelled>>

\* generate_dump waits 60 s for the answer; the runtime goes on.
TimesOut(r) ==
  /\ pc[r] = "generate" /\ Backend[r] = "dotnet"
  /\ late' = late \cup {r}
  /\ Return(r, "timeout", "cleanup")
  /\ UNCHANGED <<previous, path, since, locks, mask, alive, by, content, clock, cancelled>>

\* gcore cannot be started or waited for: `?` without remove_if_present.
GcoreLost(r) ==
  /\ pc[r] = "generate" /\ Backend[r] = "gcore"
  /\ \E c \in {"empty", "partial", "complete"} : Written(r, c)
  /\ Return(r, "start", "restore")
  /\ UNCHANGED <<previous, path, since, locks, mask, alive, late, clock, cancelled>>

\* The thread unwinds: the guard's drop still restores the mask.
Panics(r) ==
  /\ pc[r] = "generate" /\ Backend[r] = "corex"
  /\ Return(r, "panic", "restore")
  /\ UNCHANGED <<previous, path, since, locks, mask, alive, files, clock, cancelled>>

\* is_file after a reported success; verify_external_dump also wants content.
Verified(r) ==
  IF Backend[r] = "dotnet" THEN content[path[r]] \in {"partial", "complete"}
                           ELSE Exists(path[r])

Verify(r) ==
  /\ pc[r] = "verify"
  /\ IF Verified(r) THEN Return(r, "ok", "restore")
     ELSE Return(r, "backend", IF Backend[r] = "corex" THEN "restore" ELSE "cleanup")
  /\ UNCHANGED <<previous, path, since, locks, mask, alive, files, clock, cancelled>>

\* remove_if_present: an error is ignored and leaves the file.
MutRemoved == "partial"
Removed == "absent"

Cleanup(r) ==
  /\ pc[r] = "cleanup"
  /\ \/ /\ content' = [content EXCEPT ![path[r]] = Removed]
        /\ by' = IF Removed = "absent" THEN [by EXCEPT ![path[r]] = Nobody] ELSE by
        /\ Goto(r, "restore")
     \/ /\ Return(r, IF result[r] = "timeout" THEN "timeout" ELSE "unremoved", "restore")
        /\ UNCHANGED <<by, content>>
  /\ UNCHANGED <<previous, path, since, locks, mask, alive, late, clock, cancelled>>

-----------------------------------------------------------------------------
(* CoreDumpMaskGuard::restore and the drops of the two guards.             *)

\* What is written back.
Restored(r) == previous[r]

\* The write may fail, and always does when the process is gone: the mask stays, and a dump
\* that succeeded is reported as an error.  (A panicking call unwinds with its own payload.)
Restore(r) ==
  /\ pc[r] = "restore"
  /\ \/ /\ Mask[r] = NoMask
        /\ Goto(r, "unlock")
        /\ UNCHANGED mask
     \/ /\ Mask[r] # NoMask /\ Pid[r] \in alive
        /\ mask' = [mask EXCEPT ![Pid[r]] = Restored(r)]
        /\ Goto(r, "unlockMask")
     \/ /\ Mask[r] # NoMask
        /\ Return(r, "unrestored", "unlockMask")
        /\ UNCHANGED mask
  /\ UNCHANGED <<previous, path, since, locks, alive, files, clock, cancelled>>

MutFreed(r) == IF result[r] \in {"mask", "unrestored"} THEN maskLock ELSE Nobody
Freed(r) == Nobody

UnlockMask(r) ==
  /\ pc[r] = "unlockMask"
  /\ maskLock' = Freed(r)
  /\ Goto(r, "unlock")
  /\ UNCHANGED <<previous, path, since, targetLock, mask, alive, files, clock, cancelled>>

UnlockTarget(r) ==
  /\ pc[r] = "unlock"
  /\ targetLock' = [p \in Pids |-> IF p \in StripeOf(r) THEN Nobody ELSE targetLock[p]]
  /\ Goto(r, "done")
  /\ UNCHANGED <<previous, path, since, maskLock, mask, alive, files, clock, cancelled>>

-----------------------------------------------------------------------------
(* The outside.                                                            *)

\* Asleep in available_dump_paths for the next second.
Waiting(r) ==
  /\ pc[r] = "name" /\ ~Custom[r] /\ Exists(CandidatePath(r))
  /\ clock < Deadline(r)

Tick ==
  /\ clock < MaxClock \/ \E r \in Requests : Waiting(r)
  /\ clock < LastClock
  /\ clock' = clock + 1
  /\ UNCHANGED <<pc, result, previous, path, since, locks, mask, alive, files, cancelled>>

\* A runtime nobody waits for any more writes its dump.
LateDump(r) ==
  /\ r \in late /\ Pid[r] \in alive
  /\ Written(r, "complete")
  /\ late' = late \ {r}
  /\ UNCHANGED <<pc, result, previous, path, since, locks, mask, alive, clock, cancelled>>

Exits(p) ==
  /\ p \in alive
  /\ alive' = alive \ {p}
  /\ UNCHANGED <<pc, result, previous, path, since, locks, mask, files, clock, cancelled>>

Cancel ==
  /\ ~cancelled
  /\ cancelled' = TRUE
  /\ UNCHANGED <<pc, result, previous, path, since, locks, mask, alive, files, clock>>

Terminated ==
  /\ \A r \in Requests : pc[r] = "done"
  /\ UNCHANGED vars

Step(r) ==
  \/ LockTarget(r) \/ LockMask(r) \/ ReadMask(r) \/ WriteMask(r)
  \/ Begin(r) \/ Name(r) \/ CheckExists(r) \/ Reserve(r)
  \/ Generate(r) \/ GenerateFails(r) \/ Cancelled(r) \/ TimesOut(r) \/ GcoreLost(r) \/ Panics(r)
  \/ Verify(r) \/ Cleanup(r) \/ Restore(r) \/ UnlockMask(r) \/ UnlockTarget(r)

Next ==
  \/ \E r \in Requests : Step(r)
  \/ \E r \in Requests : LateDump(r)
  \/ \E p \in Pids : Exits(p)
  \/ Tick \/ Cancel \/ Terminated

Spec == Init /\ [][Next]_vars

\* A thread that can go on does, a lock that is free again is eventually given to a
\* thread that waits for it, a backend ends, and time passes.
FairSpec ==
  /\ Spec
  /\ \A r \in Requests : WF_vars(Step(r))
  /\ WF_vars(Tick)

-----------------------------------------------------------------------------
(* Properties.                                                             *)

\* Every variable has its type.
TypeOK ==
  /\ pc \in [Requests -> Calls]
  /\ result \in [Requests -> Results]
  /\ targetLock \in [Pids -> Requests \cup {Nobody}]
  /\ maskLock \in Requests \cup {Nobody}
  /\ path \in [Requests -> Paths]
  /\ content \in [Paths -> Contents]
  /\ by \in [Paths -> Requests \cup {Nobody}]
  /\ previous \in [Requests -> Masks \cup {NoMask}]
  /\ mask \in [Pids -> Masks \cup {NoMask}]
  /\ clock \in 0..LastClock
  /\ alive \subseteq Pids /\ late \subseteq Requests

\* A stripe is locked exactly by the call that is between its lock and unlock.
TargetLockHeld ==
  \A p \in Pids, r \in Requests :
    targetLock[p] = r <=> pc[r] \in Held /\ p \in StripeOf(r)

\* So is the mask's lock, which only a call with a mask takes.
MaskLockHeld ==
  \A r \in Requests :
    /\ maskLock = r <=> pc[r] \in MaskHeld /\ Mask[r] # NoMask
    /\ pc[r] \in {"lockMask", "readMask", "writeMask", "unlockMask"} => Mask[r] # NoMask

\* A call failed to restore the process's mask: the process keeps that call's, and the next
\* call takes it for the process's own.
Unrestored(p) == \E r \in Requests : Pid[r] = p /\ result[r] = "unrestored"
UnrestoredIsLast ==
  \A r \in Requests :
    result[r] = "unrestored" => Mask[r] # NoMask /\ pc[r] \in {"unlockMask", "unlock", "done"}

\* While a call works on a process, the process has that call's mask, else its own, and
\* its own is what the call will restore (unless a call before it could not).
MaskOfCall ==
  \A r \in Requests :
    /\ pc[r] \in Masked /\ Pid[r] \in alive
    /\ Mask[r] # NoMask \/ ~Unrestored(Pid[r])
    => mask[Pid[r]] = Mask[r]
MaskOfProcess ==
  \A p \in alive :
    /\ ~Unrestored(p)
    /\ \A r \in Requests : Pid[r] = p => pc[r] \notin Masked
    => mask[p] = NoMask
PreviousIsOwn ==
  \A r \in Requests :
    /\ pc[r] \in Masked \cup {"writeMask"} /\ Mask[r] # NoMask
    /\ ~Unrestored(Pid[r])
    => previous[r] = NoMask

\* The inductive invariant: locks and masks of write_dump, whatever calls are made.
EngineInv ==
  /\ TypeOK /\ TargetLockHeld /\ MaskLockHeld
  /\ UnrestoredIsLast /\ MaskOfCall /\ MaskOfProcess /\ PreviousIsOwn

\* A dump is made with the mask its own call asked for, whatever other calls for the same
\* process are under way; one without -mc with the mask the process had, unless a call
\* before it could not restore that.
MaskAsAsked ==
  \A r \in Requests :
    /\ pc[r] = "generate" /\ Pid[r] \in alive
    /\ Mask[r] # NoMask \/ ~Unrestored(Pid[r])
    => mask[Pid[r]] = Mask[r]

\* When no call is at work on a process that still exists, it has its own mask again, also
\* after errors, cancellation and panics; only a restore that failed leaves another.
MaskRestored ==
  \A p \in alive :
    /\ ~Unrestored(p)
    /\ \A r \in Requests : Pid[r] = p => pc[r] \in {"call", "done"}
    => mask[p] = NoMask

\* A call that gave up waiting for its .NET runtime, also when the mask could then not be
\* restored.
GaveUp(r) == r \in Requests /\ Backend[r] = "dotnet" /\ result[r] \in {"timeout", "unrestored"}

\* Without -o a dump that was reported is complete, is the caller's own, and stays:
\* no later or concurrent call empties, replaces or removes it (but a runtime that was
\* given up may, after its reservation was removed and the name was taken again).
ReportedDumpStays ==
  (\A r \in Requests : ~Overwrite[r]) =>
    \A r \in Requests :
      result[r] = "ok" =>
        /\ content[path[r]] = "complete"
        /\ by[path[r]] = r \/ GaveUp(by[path[r]])

\* A call that failed before or in its backend leaves no file of its own
\* (failed_corex_dump_removes_partial_output, empty_external_dump_reservation_is_removed);
\* only a new file that could not be used, a file that could not be removed, a gcore that
\* could not be run, a runtime that answered too late, a panic and a mask that could not be
\* restored leave one.
FailureLeavesNothing ==
  \A r \in Requests :
    pc[r] = "done" /\ result[r] \in {"exists", "io", "backend"} =>
      \A f \in Paths : by[f] # r

\* The two seconds of available_dump_paths are enough: a native dump with a default name
\* is never refused because another dump has the name.  (For .NET dumps, whose names have
\* no pid, two processes can see the same free name, and open_output_file refuses one.)
DefaultNameFound ==
  \A r \in Requests : ~Custom[r] /\ Backend[r] # "dotnet" => result[r] # "exists"

\* Dumps for which the caller gives one name are numbered (README: dump_0.1234,
\* dump_1.1234 and so on): one that was taken is not the reason the next is refused.
NamedDumpsNumbered ==
  \A r, q \in Requests :
    Custom[r] /\ result[r] = "exists" /\ result[q] = "ok" => path[q] # path[r]

\* Every call returns: the two locks cannot deadlock, and each is given back on every
\* path, errors and panics included.
EveryCallReturns == \A r \in Requests : <>(pc[r] = "done")
=============================================================================
