# A TLA+ verification of ProcDump

ProcDump watches processes and writes core dumps of them when a trigger fires: CPU, memory,
thread or descriptor counts, a timer, a signal, .NET performance counters, .NET exceptions and
garbage collections, leaked resources. This directory holds TLA+ models of its concurrent core
(`crates/procdump/src`) and of the two native parts that run inside the target or the kernel
(`crates/procdump/native`), the TLC runs that check them on small instances, and TLAPS proofs of
their safety properties for all instances. Paths below are relative to
`src/crates/procdump/src/` unless they start with `src/`; `native/` is `src/crates/procdump/native/`.

## 1. The system

| Part | State it keeps | Operations | Talks to |
|---|---|---|---|
| `orchestrator.rs` `monitor_processes` | map of active sessions by pid, last monitored identity by pid, shutdown control | discover (pid, name, `-w`, `-pgid`), start, reap, drain, `finish_session` | `process/linux.rs` (reads of `/proc`), sessions, Ctrl-C |
| `monitor.rs` `MonitorSet` | the threads of a session and their handles | `start` under a `StartupGuard`, `has_finished`, `wait` | the triggers, `MonitorControl` |
| `sync.rs` `MonitorControl` | `started` and `quit` under a mutex, an atomic token beside them | `wait_for_start`, `start`, `wait`, `request_quit`, `is_quit_requested` | everybody |
| `sync.rs` `DumpGate`, `monitor.rs` `DumpCoordinator` | `active`; the number of dumps collected | `acquire`, drop of the permit, `write`, `record_external_dump`, `limit_reached` | triggers, dump engine |
| polling triggers (`monitor.rs`) | the next memory threshold | sample, compare, write, snooze | `process/linux.rs`, coordinator |
| `signal.rs` | the seized target, the signal taken from it | poll for a signal, stop the process, dump, resume, redeliver, seize again | ptrace, coordinator |
| `eventpipe.rs` | the runtime's event stream, counter values | parse blocks, evaluate counters | diagnostics socket, coordinator |
| `native/profiler` (in the target) | filters with their counts, threshold index, a mutex, a health thread, one socket per message | exception and collection callbacks, dump, announce, ping, unload | the .NET runtime, `profiler.rs` |
| `profiler.rs` | listener, status and ready paths | inject, accept, read a status, record dumps the profiler wrote | the .NET runtime, coordinator |
| `native/ebpf` (in the kernel) | one event per thread inside the allocator, a ring, a loss counter | entry and exit probes of malloc, calloc, realloc, reallocarray, free, mmap, munmap | the C library, `restrack.rs` |
| `restrack.rs` | live allocations, the incomplete flag | poll the ring, read the loss counter, leak report, manual trigger | eBPF, coordinator |
| `engine.rs`, `mask.rs`, `dotnet.rs` | 64 lock stripes, the mask lock, files, `coredump_filter` of the target | `write_dump`: lock, mask, name, reserve, backend, verify, clean up, restore | file system, gcore, .NET runtime, corex |
| `corex/` | attached threads, ELF layout | attach, read state, write, detach | ptrace, `/proc` |
| `config.rs`, `src/crates/procdump-cli` | the parsed options | parse, validate, run, Ctrl-C | orchestrator |
| `src/crates/procdump-capi` | none | one dump request | engine |

What is hard in it: every trigger is a thread and all of them race for one budget of dumps (`-n`);
a stop is two writes that other threads see separately; the gate is not notified by a stop;
starting may fail half way; processes come and go, and pids are reused, between two reads of
`/proc`; several dumps of one process with different masks, or of several processes with one file
name, are under way at a time; a backend may fail, panic, be cancelled or answer too late; a target is
stopped, traced and signalled while its threads come and go; the profiler shares the target's
threads, descriptors and death with it, and procdump may be killed without telling it; probes see
calls of many threads in an order that is not that of the heap. The `hazards` of `PROJECT.json` list these places line by line, with the properties that cover them.

What makes each part correct:

- session: dumps are serialised; `-n` is never exceeded; the last dump stops the session; every
  completed dump is counted; errors reach the caller; a stop ends every thread; no join hangs.
- orchestrator: no process is monitored twice or missed, no session is forgotten or stopped without
  a reason, Ctrl-C always returns.
- dump engine: a dump is made with the mask its call asked for; the process gets its own mask back;
  a reported dump stays; a failed one leaves nothing; every call returns.
- tracing (`signal.rs`, `corex/ptrace.rs`): no thread runs while the target is read; the target is
  left running; the signals it was sent reach it; a quit ends the monitor.
- injected profiler: a dump that procdump counts is complete and counted once; there is no dump it
  does not know of; the profiler leaves when procdump is done, or gone; procdump learns that it left.
- resource tracking: no freed block is reported, no outstanding one is missed, or the report says that
  events were lost.
- filters and sizes: a filter matches what its glob matches; thresholds and array sizes are not
  changed by the width of an integer.

## 2. The modules

| Module | Models |
|---|---|
| `DumpBudget` | abstract: what a session promises about the dumps it takes |
| `MonitorSession` | one session: `monitor.rs`, `sync.rs`, `finish_session`, and the place of every trigger in it; implements `DumpBudget` |
| `Orchestrator` | `monitor_processes` over processes that start, exit, change and reuse pids |
| `DumpEngine` | concurrent calls of `write_dump`: locks, mask, file names, reservation, backends |
| `Tracing` | `signal.rs` and `corex/ptrace.rs` as tracers of one target: ptrace stops, group stop, signals |
| `ProcDumpProfiler` | `native/profiler/src/ProcDumpProfiler.cpp` in the target, composed with `run_profiler` |
| `Restrack` | the probes of `native/ebpf/procdump_ebpf.bpf.c`, composed with `collect_events` and a heap |
| `Algorithms` | both wildcard matchers, the encoding of `-f`, the `-gcm` threshold, array sizes |
| `*_proofs` (eight of them) | theorems about the module they are named after; `MonitorSession_end_proofs` about how a session ends |
| `MC*` | constants for TLC |

The components meet at narrow interfaces. A session is an entry of the orchestrator that is
`open`, whose thread may end by itself (`ThreadEnds`), and that `finish_session` joins; a dump is
one step of a session (`Dump`) that succeeds, fails or panics. `DumpEngine` shows what that step
does when several sessions take it at a time, `Tracing` what its native writer does to the target. A
dump the profiler announces is the session's `EventExternal`; `ProcDumpProfiler` shows which
announcements there are. `Restrack` is what the collector of a session does between two of its steps.

Names such as `MutLimitReached` define a faulty variant of the definition that follows them. No
specification uses them; they show that the property in question depends on the original.

### MonitorSession

`pc[t]` is the program counter of thread `t`, `result[t]` what it returns, `main` the program
counter of the owner. One action is one critical section or one atomic access:

| Action | Code |
|---|---|
| `WaitForStart`, `Poll`, `Snooze` | `MonitorControl::wait_for_start`, `wait` |
| `Sample` | `sample_identity`, `threshold_matches` |
| `EventQuit`, `EventTriggers`, `EventExternal`, `EventKey`, `EventEnds` | the loops of `eventpipe.rs`, `signal.rs`, `profiler.rs`, `restrack.rs` |
| `Check`, `Acquire`, `GateTimeout`, `Recheck`, `Dump`, `WriteSidecar`, `Count`, `Release` | `DumpCoordinator::write`, `record_external_dump`, `DumpGate::acquire`, `DumpPermit::drop` |
| `RequestCancel`, `RequestQuit`, `OwnerCancel`, `OwnerQuit` | the two halves of `request_quit`, for threads and for the owner |
| `After` | what the triggers do when `write` has returned |
| `Spawn`, `SpawnFails`, `Start`, `GuardJoin`, `GuardDone` | `MonitorSet::start`, `StartupGuard` |
| `FinishSession`, `AbandonSession`, `CallWait`, `Join`, `WaitDone` | `finish_session`, `reap_finished`, `MonitorSet::wait` |
| `Die`, `Shutdown` | the outside |

The numbers the triggers compare are abstracted to a nondeterministic answer. The owner ends a session as the orchestrator does, by
`FinishSession` (which asks whether the target is alive, requests a stop and joins) or, when `is_alive` fails,
`AbandonSession` (which joins nobody), or it calls `MonitorSet::wait` on a running session (`CallWait`), as the tests do. `written`, `external`
and `lost` are history: files completed, dumps announced, dumps never counted.

### Orchestrator

An identity (pid and start time) is an incarnation number; `start[p]` is the incarnation pid `p` now
is. `List`, `ReadName` and `SampleNext` are the separate reads of a discovery; each may see a
process that is gone (skipped) or fail with an error that is not transient. `SkipKnown`,
`FinishPrevious` and `StartMonitor` are the branches of `start_new_monitors`; `ReapCheck`,
`ReapFinish`, `DrainOne` and `FinishJoin` those of `reap_finished`, the drain and `finish_session`.
`Born`, `Dies`, `Renamed` and `Interrupt` may happen between any two of them.

### DumpEngine

Each request walks through `write_dump`: `LockTarget`, `LockMask`, `ReadMask`, `WriteMask`, `Begin`,
`Name`, `CheckExists`, `Reserve`, one of `Generate`, `GenerateFails`, `Cancelled`, `TimesOut`,
`GcoreLost`, `Panics`, then `Verify`, `Cleanup`, `Restore`, `UnlockMask`, `UnlockTarget`. A file name
is a second (or 0 for a name the caller gave) and a pid (0 for a .NET dump, whose name has none). Files with a given name may
be there from the start. A file is absent, empty, partial or complete, and `by` says which call wrote it. The process name and
kind in a default name are left out: all calls compete for the same names, which is the worst case.
What goes wrong after the file was created goes wrong as the file system likes: `Reserve` may fail with a
file left empty, the mask of a process may not be restored though it lives (`Unrestored`: the next call takes what it
finds for the process's own mask), a file may not be removed (result `"unremoved"`).
Assumed: gcore and corex report success only for a complete dump (the .NET runtime may lie); two
instances of ProcDump do not share a directory.

### Tracing

`stop[t]` is the ptrace-stop of a thread (the signal it stopped for, `"SIGSTOP"`, `"group"` or none),
`stopPending` the threads with a SIGSTOP on its way, `halted` the group stop, `pending`, `sent` and
`delivered` the signals of the process. The kernel's part (`Send`, `Take`, `Trap`, `StrayStop`, thread
creation and exit) is external. `mode` says whether the tracer is the signal monitor, whose dump comes
between `Intercept` and `Resume`, or a polling trigger (`IdleDump`). `monitor_signals`: `Seize`,
`LoopQuit`, `SignalSeen`, `TargetGone`, `Continue`, `Intercept`, `Resume`, `Redeliver`, `DropAttachment`,
`Exit` (the kernel detaches the tracees of a thread that exits). `dump_pid`: `DumpPid` or
`WriteElsewhere` (gcore, .NET, a refused dump), `Enumerate`, `Attach`, `WaitStopped`, `WaitFails`,
`AllTried`, `Written`, `ReadFails`, `Detach`, `DetachAgain`, `Detached`. `abandoned` and `crossed` are history:
`wait_stopped` gave up on a thread whose SIGSTOP was still to come; it took the stop for another
signal for the SIGSTOP. Reading `/proc/pid/task` is one step (the pass that finds nothing new happens
when all known threads are stopped). Left out: the reuse of a tid, job control by third parties
(SIGTSTP, SIGCONT), uninterruptible sleep other than as a delay.

Three consequences of the code are visible here and in no test: a signal that arrives between the
detach and the next seize gives no dump; a signal that stopped the target unseen at a quit is
dropped (`DropAttachment` detaches with signal 0); after either exception the target can be left
stopped.

### ProcDumpProfiler

`frame[t]` is the callback a managed thread is in, with its locals; `trigger` is fixed by the client
data. `Throw`, `Skip`, `Match`, `NoMemory` are `ExceptionThrown`'s walk over the filters; `Load`, `Store`,
`Test` are `collectedDumps++` and its test, which no lock protects; `Reserve`, `Generate`, `Announce`,
`SendSuccess` are `WriteDumpHelper`; `FailConnect`, `FailSend` are `SendCatastrophicFailureStatus`; `Cleanup`,
`Join`, `Unload` are `CleanupProfiler` and `UnloadProfiler`, with the undefined outcomes of a second join
(`CleanupTwice`) and of a null pointer after `Shutdown` (`UnloadNull`, `GiveUpNull`) as crashes of the
target. A message is two steps, connect and send; its descriptor stays open (`leaked`). The status
socket is a queue of connections, each still `"open"` or with its message. procdump: `Attached`,
`AttachFails`, `QuitSeen`, `Stopped`, `TargetExited`, `ReadDump`, `ReadHealth`, `ReadFailure`, `ReadTimesOut`;
`ProcdumpDies` leaves the path behind. The size of the heap and the matching of a name are
nondeterministic. External: when the runtime calls, attaches, detaches and shuts down.

### Restrack

`heap[b]` is the state of an address: free, in use (`small`), in use and a mapping of its own (`mapped`), a mapping
that is no block of the allocator's (`region`: the program's own, an arena, or a large block whose `munmap` failed), or
what is left of a mapping whose front was unmapped (`rest`). A call is an entry probe, the work of the library or the
kernel (external), and an exit probe. The program calls `malloc`, `calloc`, `realloc`, `reallocarray`, `free`, with NULL
or not, and `mmap`, `munmap` and `mremap`. A `munmap` may be given the first address of a mapping or any other, and
removes the mapping, its front, or others beside it; an `mmap` may replace mappings (MAP_FIXED). Inside a call of the
allocator the library makes probed calls of its own (`NestedEntry`): the mapping of a large block, the mapping and
unmapping of an arena in any call, the `malloc` or `free` of a `realloc`. These share the thread's entry of
`argsHashMap`, and the event of the call around them is lost. `missing` and `stale` are history: what is outstanding
and cannot be tracked, or dead and tracked, for a reason the probes know nothing of. The comments of `NoLeakMissed`
and `NoFalseLeak` list these reasons; each is a behaviour of the code and gets into the sets in the step that
causes it, never by being found missing. The stack of an event is left out.

### Algorithms

Each behaviour is one call of one algorithm on one input (`job`, `input`), stepping as its loop does.
`Glob` is the
reference: a text matches when there are places in it, one for each character of the pattern, where that
character's part of the text ends (`Fits`). Machine words are scaled down: `Half` is 2^32, `IntMB` the first number of megabytes an `int` of
bytes cannot hold.

## 3. The runs

Every run ends within five minutes on two workers, most within one. Deadlock is checked except in
`profiler`, `restrack` and `tracing`, where the outside may simply do nothing more after the program
is over; `Terminated`, `Returned` and `Finished` are the states in which the others are.

| Run (cfg) | Instance | Checks |
|---|---|---|
| `session_polling` | `-m 100,200 -tc 100 -pc ...`, 2 dumps; the owner ends it in any of its three ways | `LimitStopsSession`, `StopTerminates`, `SessionEnds` |
| `session_managed` | `-gcm 100 -sig 10 -restrack -n 2` | `SessionInv`, `EveryDumpAccounted`, `EndsOnlyAtLimit`, `ErrorsSurface`, `RefinesDumpBudget` |
| `session_restrack` | `-restrack` alone: collector and manual trigger, `-n 2` | `NoThreadLeft` |
| `session_memory_count` | `-m 100 -n 3` | `EndsOnlyAtLimit` is **violated**: finding 1 |
| `orchestrator` | all four modes, 2 pids, 3 processes | `OrchestratorInv`, `NothingMissed`, `NewestChosen`, `OkMeansDone`, `MonitoredOnce`, `StopsForAReason`, `ShutdownReturns`, `EndedReaped` |
| `engine_native` | 2 calls for one process, 1 named call with `-o` for another; corex and gcore; with and without `-mc` | `EngineInv`, `FailureLeavesNothing`, `DefaultNameFound`, `EveryCallReturns` |
| `engine_dotnet` | 3 .NET processes, two of them dumped to one given name; some calls with `-mc`, some without | `ReportedDumpStays` |
| `engine_custom_name` | a named dump of one process, repeated | `NamedDumpsNumbered` is **violated**: finding 2 |
| `profiler` | 2 managed threads, 2 filters, 2 thresholds, 2 descriptors left | `ProfilerInv`, `DumpsKnown`, `LowerFirst`, `ProfilerLeaves`, `ProcdumpLearns` |
| `restrack` | 2 threads, 2 addresses, a ring of 2, 4 probed calls | `RestrackInv`, `NoFalseLeak`, `NoLeakMissed`, `LossNoticed` |
| `algorithms` | words of up to 4 letters, filters of up to 3 symbols, words of 64 values | `AlgorithmsInv`, `MatchIsGlob`, `ThresholdExact`, `ArraySizeExact`, `Terminates` |
| `tracing` | 3 threads, a monitored and another signal | `TracingInv`, `NotLeftStopped`, `NoSignalLost`, `QuitEnds` |

Bounds. Three threads and a limit of two let two threads race for the last dump while a third holds
the gate; two thresholds let the memory monitor run out of them together with the limit. `external`
and `written` need no bound: each is followed by a count or by the end of its thread. Three
processes on two pids are the fewest in which a pid is reused while another session is open. Three
calls let one hold each lock while the third waits; `MaxClock` bounds the idle seconds, and while a
call sleeps for the next second the clock may go on (`LastClock`), so that the two-second deadline
of `available_dump_paths` is reached. Two managed threads with two filters reach the last dump, a
failure and the double join together; one more dump than `-n` can be counted (`CountBound`); two
descriptors are used up by two messages. Two threads and two addresses let one be freed by one
thread, reused by the other and told in either order; with four calls, those inside a call counted,
a nested one and the reuse of an address fit into one behaviour, and a ring of two overflows. Three
threads let one start and one end while a third is being attached to; one signal of each kind is
enough, since the kernel keeps one pending instance of each. Four letters and three symbols contain
every way in which a greedy search can go wrong between two wildcards.

Fairness. Weak fairness on the steps a thread takes by itself: threads are scheduled, timed waits
elapse, mutexes are released by somebody who is scheduled too, and a backend ends (corex and gcore
look at the token, the .NET request times out). Nothing is assumed of keys, signals, counters,
exceptions, collections, the user, or of processes and threads being born, renamed or exiting.
`DumpEngine` also assumes that time passes; `ProcDumpProfiler` that threads inside the profiler, its
health thread and procdump's loop (25 ms polls, 5 s read timeout) go on and that the runtime
completes a detach it accepted; `Restrack` only that the collector's thread runs (`LossNoticed` adds the
premise that the target stops allocating, for `ring.poll` returns only when it finds the ring empty);
`Tracing` that the tracer's thread runs and that an idle polling trigger sees a quit.

### What the properties leave open

Exceptions a property names are behaviours of the code. `-gcm` thresholds from 2048 MB on
(`ThresholdExact` ends there): `std::stoi(...) << 20` leaves the range of an `int` before it is
stored in a `uint64_t`, so that 2048 to 4095 MB are never reached and 4096 MB is reached at once.
`ArraySizeExact` speaks of fewer than 2^31 elements: `uprobe_calloc` takes its count as an `int`.
`wildcard_matches` treats a `*` in the text as any other character. `NoSignalLost` ends at the
quit. `LossNoticed` says nothing of a report written before the loss counter was read, nor of the output of
`realloc(p, 0)` that nobody checks (`bpf.c:160`): an event lost there is not counted, and `NoFalseLeak` excuses the
block (`stale`). `EveryDumpAccounted` does not count announcements that are still unread in the profiler's stream when
the session stops. A call that could not restore a mask ends what `EngineInv` says of that process (`Unrestored`).
`ProfilerInv` does not bound the dumps of concurrent exceptions by `-n`: two threads may both pass the
test of `collectedDumps`. With one `-gcm` threshold and `-n 3` the profiler leaves after one dump while
procdump waits for three, until its target ends: `ProcdumpLearns` is checked with as many dumps as
thresholds. A cancelled ping leaves an open connection
that procdump reads until its timeout and then reports as an error. A filter with a `:` or `;` in it
changes the client data.

### Findings

1. `src/README.md:83` says of `-n` "Number of dumps to write before exiting." With `-m 100 -n 3` the
   memory monitor ends when its only threshold is used up (`monitor.rs:447`): the session ends
   with outcome Ok after one dump.
2. `src/README.md:203` says of a named dump "If -n is used, the files will be named dump_0.1234,
   dump_1.1234 and so on." `dump_paths` gives every dump of the request the same name, and without
   `-o` the second one is refused.

## 4. The proofs

Every theorem holds for any value of the constants that satisfies the `ASSUME` of its module
(finite sets of threads or calls, positive limits, functions of the right type).

`MonitorSession_proofs`. `SessionInv` is inductive: with the types it says that the gate is closed
exactly while one thread holds it (`GateExclusive`); that a dump under way leaves room for itself
(`BudgetKept`, not inductive without the former: two holders could both see one dump left); that
a reached limit is either known to everybody or still being announced by the thread that has the
gate (`LimitHandled`); that the two stop flags differ only while somebody is between the two writes
(`FlagsOrdered`); that a memory monitor about to move on has a threshold left (`ThresholdLeft`); and
that finished threads have results (`ResultKnown`). From it follow `TypeCorrect`,
`DumpsSerialised`, `LimitNeverExceeded`, `LastDumpStops`, `FlagsAgree`, and
`SessionImplementsBudget`: each step of the session is a step of `DumpBudget` or leaves it alone.

`MonitorSession_end_proofs`. How a session ends, each from an invariant on top of `SessionInv`. `OwnerInv`: a
thread has no result while it works (`ResultFresh`), the owner joins threads that have one and keeps their first error
(`JoinsKept`), manual triggers are spawned after the collectors (`SpawnOrder`), the guard of a start holds every thread
spawned but the collectors still waiting for their manual trigger (`GuardHolds`), and whoever saw the target
gone was right (`GoneIsGone`). From it: `ErrorsReachCaller`,
`EveryThreadJoined`, whichever way the owner joined them. `StopsAtLimit`: while nobody but the limit can end the session, nobody has, and a memory
trigger has taken a dump for each threshold it passed. From it: `EndsAtLimit`, for sessions that are
`Limited`: the key of the manual trigger, the end of a counter stream and a memory trigger with fewer thresholds
than `-n` (finding 1) end a session earlier. `AccountInv`: a dump is only missing from the count when its
thread has ended, so no thread loses two; the profiler's thread writes none itself. From it: `EveryDumpCounted`.

`Orchestrator_proofs`. `OrchestratorInv` adds to the types that every open session is held under its
own pid or is being finished (`SessionsHeld`), that start times grow and never repeat
(`IdentitiesGrow`), that a process with a session is remembered until its pid is someone else
(`MonitoredKnown`), and what `finish_session` works on (`ClosingOne`) and why (`StopReasons`). From
it: `NoSessionLost`, `NeverMonitoredTwice`, `NeverStoppedEarly`. `RoundInv` follows one round of the loop: a
process that stays and matches is still to be looked at, among the candidates, or has its session
(`RoundCovers`), or with `-p name` a newer one took its place (`NewestCovers`); and the drain began for a reason (`DrainReason`). `OkOnlyWhenDone`: an Ok return of a
monitor that found its target and was not stopped has joined every session after it ended by itself.
From it: `NoTargetMissed`, `NewestSelected`, `OkOnlyWhenDone`.

`DumpEngine_proofs`. `EngineInv` says that a stripe and the mask lock are held exactly by the calls
between their lock and unlock, that a live process has the mask of the one call at work on it and
its own otherwise, and that this is what the call will restore, unless a call before it could not
restore the mask (`Unrestored`; `UnrestoredIsLast` says that nobody works on the process between that failure and the
return of the call). Two processes may share a stripe: the proof holds for any `Stripe`. `OneCallPerTarget` (two calls for
one process are never both inside) is the reason the mask cannot be mixed up; the global mask
lock is not needed for it. From it: `MaskAlwaysAsAsked`, `MaskAlwaysRestored`. `FilesInv`: a file is of the call
that wrote it last, under that call's own path, and a call that failed plainly has none; from it
`FailureAlwaysLeavesNothing`. `KeptInv`: without `-o` two calls between the reservation and the end never have one
path, and nobody but a runtime that was given up writes to a complete file; from it
`ReportedDumpAlwaysStays`. A call may give up its runtime and then return the error of its mask
(`"unrestored"`) instead of the timeout: `GaveUp` counts both, which only an instance with
calls with and without `-mc` shows. `NamesInv`: while `available_dump_paths` looks for a name, under the stripe of the process, no
dump of the process has a second later than the one in which it began to look (`NameFree`), so that the name of the next second
is free before its deadline; from it `DefaultNameAlwaysFound`.

`Tracing_proofs`. `TracingInv`: only traced live threads are in a ptrace-stop (`KernelInv`); every thread the
writer knows of is under control or still to be tried (`AttachedSoFar`), hence none runs while the
target is read (`Snapshot`, by itself not inductive); the signal of a dump is kept until redelivered
(`HeldKept`); and unless a dump panicked, gave up on a thread or mistook a stop (`Calm`), everything traced is
the current thread, stopped, or still to be detached (`Clean`). `TargetLeftRunning` follows from it;
`SignalsKept` is proved with it as an invariant of its own.

`ProcDumpProfiler_proofs`. `ProfilerInv`: the mutex is held from the reservation to the announcement and the
one incomplete file is the holder's (`DumpsSerialised`); announced and counted dumps are complete, and
no two announcements are for one file (`AnnouncedComplete`, `AnnouncedOnce`), which needs that a thread about to
announce has an unannounced file of its own (`AnnouncesOwn`); the health thread ends only when cancelled
or after it unloaded the profiler (`HealthEndsForAReason`), so that a profiler without it has somebody
unloading it (`NeverStranded`); and `DumpsKnown`. For any number of threads, filters, thresholds and descriptors.
`CollectorInv`, on top of it: one thread at a time is in a callback of the collector, all thresholds below the
index have a dump, and a collection that is known to have started has one or is about to (or the profiler is
leaving). From it: `ProfilerLowerFirst`.

`Restrack_proofs`. `RestrackInv`: a thread outside the allocator has nothing in `argsHashMap`; it needs to be
known which calls have a block (`HasBlock`). Four invariants lie on top of it. `OwnInv`: a block inside a call is that call's
alone, so that only one thread at a time will tell of an address, and a system call finds the mapping it works on (`Settled`).
`TellInv`: `argsHashMap` holds what each call has to tell, or the call is known to be `untold`. The report is looked at
through `Stands`: the addresses that will be in it once the ring has been read, so that the collector's steps change
nothing. `FalseLeakInv`: an address that stands is that of an outstanding block, or a call under way will tell of its end
(`WillFree`), or it is `stale`. `KeptInv`: no call is about to tell the end of an address that is outstanding
unless that is `missing`. `MissedLeakInv`: what is outstanding stands, or the call that got it will tell of it
(`WillTell`), or it is `missing`, or the rest of a mapping. From them: `NeverFalseLeak`, `NeverLeakMissed`, for any
threads, addresses and size of the ring, as long as nothing was dropped. Assumed: the value that stands for no block is not one.

`Algorithms_proofs`. `AlgorithmsInv`: the indices of both matchers stay within their strings, for strings of any
length; `ThresholdsExact` and `ArraySizesExact` for any width of the words. `MatchersExact`: the matchers, which
never go back over a wildcard, decide `Glob`. Their invariant (`SearchInv`, `ReportInv`) says that what they have passed
of the pattern can take what they have passed of the text (`Takes`), and that no match at all takes less
(`AtLeast`); hence a mismatch may move the last wildcard on by one letter without losing a match. That a filter
matches a part of a text exactly if its encoding matches all of it (`PartFits`, `FitsPart`) is about the two strings
alone. Where such an argument is an induction over places in a string, the first place at which it would
fail is taken instead (`LeastNat`).

Model-checked only: the liveness properties (`StopTerminates`, `SessionEnds`, `ShutdownReturns`, `EndedReaped`,
`EveryCallReturns`, `ProfilerLeaves`, `ProcdumpLearns`, `LossNoticed`, `Terminates`, `QuitEnds`), which depend on
fairness, out of the prover's reach; and `NamedDumpsNumbered`, which is violated, and `EndsOnlyAtLimit` in
sessions that are not `Limited`. Every other property of the runs is a theorem.

## 5. Not modelled

- The EventPipe block parser, how the profiler reads the name and message of an exception from the
  runtime's metadata, ELF and note layout, `/proc` parsing, path syntax, packets, messages,
  diagnostics, symbol resolution: decoding and layout, data without control.
- `config.rs` and the command line: sequential parsing and validation; only the number of dumps
  that follows from the options is (`Limit` of `ProcDumpProfiler`).
- `process/macos.rs`, the C interface: thin variants of what is modelled. `src/xtask`: build only.
- `vmlinux-*.h`, `corprof.h`, `cor.h`, `pal.h`, `sal.h`, `easylogging++`: 99% of the C and C++ lines of the
  repository, generated from the kernel's types or third-party, with no logic of ProcDump. Of its own
  C and C++ code the models cover the functions with control in them; about 400 lines of
  `ProcDumpProfiler.cpp` are empty callbacks.
- Mutex poisoning in `sync.rs`: no critical section of it can panic.
- The processes that gcore starts, and a pid that is reused between the dump and the restoring of its
  mask: hazards without a property.

## 6. Plan

1. Composition: the session as an implementation of the orchestrator's view of it, and the profiler's
   reader as one of the session's profiler thread.
2. `Config`: parsing and validation as operators over options, against the combinations the README
   allows; `EventPipe` block parsing against a reference definition.
