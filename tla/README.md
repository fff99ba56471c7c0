# Datara: TLA+ models, checks and proofs

Datara is a language and its toolchain, written in Rust, whose compiled programs are
linked with a runtime written in C. This project models both halves: the runtime,
which shares state between threads, fibers and callbacks, and the compiler from the
parser to the code generators, with the driver, its check cache and the package
manager around it. TLC checks the models on small instances, TLAPS proves part of
them for every instance.

Contents: [inventory](#inventory), [modules](#modules-and-the-code-they-model),
[composition](#composition), [runs](#runs), [properties](#what-the-properties-say),
[bounds](#bounds), [fairness](#fairness), [proofs](#proofs), [findings](#findings),
[what the code does not guarantee](#what-the-code-does-not-guarantee),
[not modelled](#not-modelled), [plan](#plan).

## Inventory

| Component | State | Operations | What makes it correct |
|---|---|---|---|
| ARC counters (`runtime/datara_guard.c`) | two counters, strong and weak, in front of each allocation | `arc_init`, `arc_acquire`, `arc_release`, `weak_create`, `weak_upgrade`, `weak_drop` | a strong reference keeps the value alive; freed once; a dead value is not revived; nothing leaks |
| Fiber scheduler (`datara_natvar.c`) | fibers and their states, ready queue, sleepers, joiners, socket waiters, mutexes with wait lists | `spawn`, `yield`, `sleep`, `join`, `run_until_done`, `mutex_*`, `net_recv`, `reset` | a fiber is in exactly one list; nobody starves; deadlines in order; it halts only in a deadlock; mutual exclusion |
| Fiber channels (`datara_natvar.c`) | a one-place slot per channel, two arrays of parked fibers with one count | `chan_create`, `chan_send`, `chan_recv` (fiber and main) | each value once, in order; a sender parked until its value is taken; no receiver forgotten |
| Multi-threaded fibers (`datara_natvar_mt.c`) | a global queue, counters, a registry of done handles, workers | `mt_start`, `mt_spawn`, `mt_join`, `mt_wait_idle`, `mt_shutdown` | a body runs once; `wait_idle` returns when and only when all have run |
| OS threads and channels (`datara_thread.c`) | a handle with a mutex and flags; a ring with two conditions | `spawn`, `join`, `free`; `send`, `recv`, `close`; `datara_parallel_for` | no access after free; a bounded FIFO without lost wake-ups; every index once |
| Loop pool (`datara_parallel.c`) | globals for one loop, flags and a condition per worker | `parallel_for`, `parallel_invoke` | every index once before the call returns |
| Task scheduler and timers (`datara_rt_scheduler.c`) | in-degrees and status, cancelled regions, a table of timers | `schedule_run`, `schedule_cancel`, `timer_*` | prerequisites first, an honest result, cancellations stick, waits end |
| Parser (`parser/`) | a cursor, a depth, one error flag | one function per construct, `synchronize` | it ends on every input; what it accepts is in the tree; precedences |
| Resolver (`resolver/`) | symbol tables and a stack of scopes | registration, merging of behaviors and hierarchies, the walk | a name means one declaration whatever the order |
| Gates (`security/`, `effects/`) | a context of facts per program point | verification of divisors, contracts, unsafe code, races, metrics; the effect fixpoint | what is accepted runs without the fault it was checked for |
| Ownership analysis (`ownership/`) | abstract states per variable, a worklist | joins, widening, guards; the move walk; release points; placement; cycles | no silent use of a moved value, no false alarm, no release before the last use |
| Lowering (`dmir/lowering/`) | blocks under construction, bindings, loop and lambda stacks | one function per syntax form | the result verifies and means what the source means |
| Optimizer (`optimizer/`) | a module, rewritten in place | passes, rounds, the verifier after each | behaviour and faults are kept, the verifier never refuses a result |
| Code generators (`codegen/`) | symbol tables, a function being emitted | one case per instruction | the three back ends compute the same; a call fits its runtime function |
| Driver (`driver/`) | loaded modules, the check cache | module loading, cycle search, the stages of check and build | no stale verdict; a rejected program is not built |
| Package manager (`project/pm/`) | registry, store, packages, manifest, lock file | add, remove, install, update, publish, trust, verify | between whole commands the lock file describes the disk; a package that verifies is whole, after a crash too |
| The rest | see `components` in PROJECT.json | | not modelled, with reasons there and below |

How they interact. The driver loads the modules the package manager has put on the
disk and runs the stages in the order of the table: parser, resolver, gates,
ownership, lowering, optimizer, code generators. The generators call the runtime by
name, through tables that several files repeat. In the runtime, the compiled program
is everybody's caller; `datara_parallel_for` uses the thread handles, `schedule_run`
the loop pool, `schedule_cancel` the timers of its region, and fiber channels and
mutexes park fibers in lists that `run_until_done` serves.

What is hard. In the runtime: counters several threads read, compare and write;
condition variables with single signals, timeouts and spurious wake-ups; lists that
change while they are scanned; state read under a lock and used after it; tables of
a fixed size that drop silently; cancellation, shutdown and restart in the middle. In
the compiler nothing runs concurrently; what is hard is that each pass relies on
facts an earlier one established and a later one may break (a divisor proven before
an assignment, a live range read off the order of the text, fresh value numbers, a
fault moved out of a loop), that joins and fixpoints have to be right on paths no
test takes, and that four tables written by hand describe the same functions. In the
tools: edits between two builds, and crashes between two file operations.
PROJECT.json lists the hazards one by one, with the line where each bites.

## Modules and the code they model

`map` in PROJECT.json gives the source lines of the definitions, the compiler's modules
first. A helper whose lines lie within those of another listed definition of its
module is not always listed by itself: it is the part of that function its comment
names.

Runtime. One action is one handler, or a handler's part between two points where
another actor can step in: an atomic access, a critical section, or a switch between
a fiber and the scheduler. Programs are arbitrary within the contract each module's
header states.

| Module | Models | Notes |
|---|---|---|
| `Arc`, `ArcProofs` | ARC counters | load and compare-and-swap are two steps; a read of freed memory may yield either branch (`FreeIf`), recorded in `uaf` |
| `NatVar` | fiber scheduler | `Posix` says whether contexts are switched with ucontext, where the code keeps them itself, or are the system's (Windows); the clock moves between any two steps; sockets and mutex waiters are polled one entry at a time |
| `NatVarChan` | fiber channels | extends `NatVar`; two arrays with one count, stale entries included; main's receive drives the scheduler |
| `NatVarMt` | multi-threaded fibers | `++g_mt_spawned` is a read and a write; reading a freed fiber yields any handle |
| `BoundedFifo` | | abstract specification: a closable FIFO queue of bounded length |
| `ThreadChannel` | thread channels | implements `BoundedFifo` (`FifoSpec`) by the mapping `Queue` |
| `ThreadHandle` | OS threads | POSIX branch; `FreeEarly` says whether the program frees unjoined handles |
| `ThreadParallel` | `datara_parallel_for` | any spawn but the caller's own chunk may fail; 128 and 32 are `SeqLimit` and `MaxThreads` |
| `ParallelPool` | loop pool | a thread is a stack of activations, since bodies may call the pool again |
| `TaskSchedule` | task graphs, cancellation | both paths; unknown ids and repeated names allowed |
| `Timers` | timers | the place of a timer is `id % MAX_CONCURRENT_TIMERS`, overwritten without a look |
| `MCThreads`, `ThreadsProofs` | channels, handles, parallel loops, pool and timers in one run | proofs about all of them |
| `MCFibers`, `FibersProofs` | fibers, channels, multi-threaded fibers and task graphs in one run | proofs about all of them |

Front end. Programs are trees of records; names are numbers.

| Module | Models | Notes |
|---|---|---|
| `Parser` | the parser's machine and every parse function | cursor, error flag, recovery, depth; a parse function is a sequence of steps over tokens, fuel bounds its run; a node keeps names, literals and operators |
| `Syntax` | what is asked of a tree without context | captured variables, static evaluation, contracts known to hold |
| `Resolver` | name resolution | behaviors and hierarchies merged, bodies walked with scopes |
| `Gates` | `security/`, `effects/` | a context of facts carried through the walk, errors collected |
| `MoveCheck` | the move checker on the tree | the label of each occurrence is kept, so that a verdict can be compared with paths |

Middle and back end. A value is a positive number, a function a sequence of blocks.

| Module | Models | Notes |
|---|---|---|
| `Dmir` | the intermediate representation | dominators, frontiers, loops, the verifier |
| `BorrowCheck`, `OwnershipProofs` | the abstract states, their join and the borrow dataflow | worklist, widening, narrowing, guards; `code` is the function with its guards, which is then executed on every path |
| `Lifetime` | release points, stack or heap, cyclic classes | the rewritten module is executed on a heap |
| `SourceMeaning` | | abstract: what a source program means |
| `Lowering` | tree to DMIR | one operator per syntax form, over the lowering state |
| `OptIr` | what the passes share, and the meaning of a module | an interpreter with fuel; a fault is an outcome |
| `ScalarPasses`, `FlowPasses` | the passes: promotion, scalars, loops; blocks, calls | each maps a function or module to its rewriting |
| `Optimizer` | their order | rounds, limits, the verifier after each module pass |
| `Words` | machine integers | width `W` for the 64 bits of Int, `N` for narrow integers |
| `Backends` | instructions on three back ends, and the constant folder | wrap, trap, saturate and poison as each emits them |
| `Abi` | the four hand-kept tables of runtime functions, and how a call finds its own in them | rows with one signature in one stretch of source are one row; registration order decides between equal names |

Tools. `Driver` models module loading, the cycle search, the cache and the stages, with
an editor that changes files between jobs; the version of a file determines what it
imports, and the depth-first search runs one call of `visit` at a time, over an explicit
stack. `Packages` models commands as sequences of file-system
steps; the process may be killed between two of them and in the middle of a write, and a
removal of a directory may stop after any of its files. `datara.toml` is a set of lines
under its table: a write that is cut short leaves a part of the new text, whose last line
may be broken off, and a text appended to a file without a final newline is glued to its
last line. A digest is kept as what it hashes, so equal digests mean equal inputs.

History variables (marked `history` in the modules) record what the properties speak
of and no action reads. Exceptions are bounds: `sent`, `cancels` and `starts` also
limit how often the program acts, and `holders` limits `MutexUnlock` to callers that
were granted the lock.

Definitions whose name has a suffix after an underscore and a comment beginning with
"Variant" are not part of the model. Each is a plausible mistake in the definition
that follows it; replacing that definition by the variant makes the property named in
`mutants` fail, which shows that the property can fail.

## Composition

- `NatVarChan` runs on the scheduler of `NatVar`; a parked sender or receiver is a
  fiber of it.
- `ThreadChannel` implements `BoundedFifo`.
- `MCCompiler` hands the programs that `Lowering` made on to `Optimizer`: the passes
  see the code the lowering writes, not only code made for them, and each pass is
  compared with the module before it. `Lowering` itself is compared with
  `SourceMeaning`, so the three together say that a source body keeps its meaning up
  to the code generators. A program with a function of more than `MaxBlocks` blocks is
  checked for its lowering only.
- `MCFrontend` runs accepted trees with `SourceMeaning`: a verdict of the gates is
  judged by executions of what it accepted.
- `MCOwnership` does the same for the ownership analyses: guards and releases are put
  in, then the program is executed. The counters of `Arc`, on which the releases of
  shared objects end at run time, are a part of it.
- `Backends` folds a program and then executes it on three back ends; all six
  results are compared.
- The remaining parts of one run are independent: a behaviour exercises the part
  its first state names, the others keep their initial values. They share a run
  because they belong to one layer, and a run's properties are read per part.

## Runs

`tlc -workers 2 -config X.cfg M` for each row.

| Run | Module | Properties | Instance |
|---|---|---|---|
| `threads` | `MCThreads` | `ChannelInv`, `FifoSpec`, `ThreadSafety`, `ThreadProgress` | channel: 2 senders, 1 receiver, ring of 2; 3 joins of one thread; 8 index ranges on up to 5 cores; a pool of 2 workers, 4 calls, one nested; 2 waiters, 2 timers on 1 place |
| `fibers` | `MCFibers` | `DepsRespected`, `FiberSafety`, `ScheduleSafety`, `FiberProgress` | 2 fibers with main, 1 mutex, 1 socket, delays 1 and 2, clock to 2; 1 sender and 3 receivers, main among them; 2 workers started twice; graphs of 3 tasks with up to 2 prerequisites, both paths, 1 cancellation |
| `ownership` | `MCOwnership` | `NoSilentUseAfterMove`, `NoFalseMoveErrors`, `MovedReadsCaught`, `ReleasesAreSound`, `NoDeadFrame`, `CyclesFound`, `StrongKeepsAlive`, `NoLeak`, `NoResurrection` | lines, diamonds and loops of 9 kinds of statements; trees of up to 4 statements; modules with a creation, two uses and reads of the globals; all field graphs of 3 classes; 2 threads with 3 strong and 2 weak references |
| `toolchain` | `MCToolchain` | `LockedIsOnDisk`, `ValidMeansComplete`, `OthersUntouched`, `NoStaleCheck`, `BuildIsSound`, `CallMatchesImport`, `BackendsAgree`, `NumbersAgree`, `FoldPreserves` | 4 package commands with crashes; all import graphs on 3 files and 3 edits between 3 jobs; every runtime function; every instruction on boundary values of 8-bit words |
| `compiler` | `MCCompiler` | `LoweredVerifies`, `MeaningKept`, `NeverE0901`, `BehaviourPreserved`, `FaultsKept` | source bodies with nested loops, early exits, lambdas, matches, pipelines and outcomes; DMIR modules with loops, diamonds, calls, recursion and globals; 3 inputs each |
| `frontend` | `MCFrontend` | `ParseEnds`, `ReadsAsWritten`, `NothingDropped`, `VerifiedRunsEnd`, `RaceFree`, `SkippedContractHolds`, `CapturesAreFree`, `NamesResolved`, `EffectsCovered` | all statements of up to 3 tokens in each frame; written expression trees; small functions, parallel blocks, contracts, lambdas, hierarchies of 3 classes, call graphs of 4 functions |
| `arc_dies_last` | `Arc` | `AllocationDiesLast`: violated | 2 threads, 2 and 2 |
| `natvar_join` | `NatVar` | `JoinersResume`: violated | 2 fibers |
| `release_rebind` | `MCOwnership` | `ReleasesAreSound`: violated | one module, a variable bound again in one branch |
| `borrow_diverges` | `MCOwnership` | `NoSilentUseAfterMove`: violated | one function, a loop left from its middle that takes a view in every turn |
| `inline_global` | `MCCompiler` | `BehaviourPreserved`: violated | a function that writes a global, inlined |
| `natvar_posix` | `NatVar` | `ContextsIntact`: violated | 2 fibers, contexts switched with ucontext |

`CHECK_DEADLOCK FALSE` is set where the program really ends: all references dropped,
all calls made and returned, the clock at its bound, an input judged.

## What the properties say

Where several statements are needed to say one thing of one layer they are conjuncts
of one property; each conjunct is a definition of its own with its comment.

- `ThreadSafety`: no touch of a freed handle (`NoUseAfterFree`), every index run once
  (`AllIndicesRun`), the pool at rest between calls (`PoolAtRest`), cancelled timers
  answer "cancelled" and only they (`CancelSticks`, `CancelledHasReason`), no answer
  before its deadline (`NotBeforeDeadline`).
- `ThreadProgress`: no timeout for a finished thread (`NoFalseTimeout`), no index
  twice (`EachIndexOnce`), close releases everybody (`CloseReleases`), and joins,
  parallel loops, pool calls and timer waits return.
- `FiberSafety`: a fiber is in exactly one list and every switch goes on in its own code
  (`NoFiberLost`), `MutexExclusion`, the four channel invariants, `RunOnce`,
  `DoneCountExact`. The run is of the branch where the system keeps the contexts;
  `natvar_posix` shows what the other one does.
- `ScheduleSafety`: only a missing prerequisite or a cancellation leaves a task undone
  (`PendingHasReason`), the result counts the completed (`ResultExact`), a cancelled
  run leaves nothing pending (`CancelIsTotal`).
- `FiberProgress`: the scheduler halts only in a deadlock, wakes in deadline order,
  sleepers and ready fibers get their turn although others yield for ever,
  `wait_idle`, `mt_join` and `schedule_run` return.
- `NoSilentUseAfterMove` and `NoFalseMoveErrors`: every use of a moved value is an
  error or guarded, and an error is moved on every path to it (dataflow), or on some
  path (tree walk; not behind an arm of a match that moves, see below). `MovedReadsCaught`:
  the tree walk reports every read that some path makes after a move.
- `ReleasesAreSound`, `NoDeadFrame`: in an execution of the rewritten module nothing
  reads a released object, and nothing outlives the frame it was placed in.
  `CyclesFound`: a class is left to the region exactly when its fields lead back.
- `LockedIsOnDisk`: a package that is locked and linked has the digest of its lock entry,
  except one whose own installation or removal was cut short, until `InstallLock` has
  written its entry anew, and entries `dpm update` wrote, which record the release's
  digest. `ValidMeansComplete`: a package that verifies has all its files, after any
  crash. `OthersUntouched`: adding, installing or removing a package changes no other
  package's directory, manifest key or lock entry; a kill in the middle of writing
  `datara.toml` or `datara.lock` may lose any entry of that file, since both are written
  in place.
- `NoStaleCheck`: a verdict from the cache is the verdict the files deserve.
  `BuildIsSound`: cycles are errors and only cycles, what is loaded is complete, and
  no rejected program reaches a back end.
- `CallMatchesImport`, `BackendsAgree`: a call passes what the symbol it is linked to
  takes, and the back ends reach one symbol. `NumbersAgree`, `FoldPreserves`: one
  result on three back ends, folded or not.
- `LoweredVerifies`, `MeaningKept`, `BehaviourPreserved`, `FaultsKept`, `NeverE0901`:
  what the lowering writes verifies and prints what the source means; a pass keeps
  what is printed and where a run faults; the verifier accepts every pass's result.
  On inputs near the limits of a word (`WideInputs`) the results are kept where the
  optimized run does not overflow: the passes compute + - * on paths of the source that
  do not, and may overflow there.
- `ParseEnds`, `NothingDropped`, `ReadsAsWritten`: the parser reads any tokens to
  their end, an accepted program is in its tree completely and in order, an
  expression written with the needed parentheses is read back. A range needs more of
  them than the table of precedences says (see below and `Rank`).
- `VerifiedRunsEnd`: an accepted function divides by zero on no admitted argument, and
  ends when it has a metric, where the gates looked (`DivisorTrusted`, `MetricTrusted`
  list what they take on trust). `RaceFree`: an accepted parallel block of which the
  check overlooks nothing (`RaceOverlooked`) has one result in every interleaving.
  `SkippedContractHolds`, `CapturesAreFree`, `NamesResolved`,
  `EffectsCovered`: see the comments in `MCFrontend`.

## Bounds

- `threads`: a ring of two wraps around and two senders compete for one signal; three
  joiners tell a broadcast from a signal; ranges below, at and above the sequential
  limit, divisible and not; a short last chunk, calls back to back and one nested;
  two timers on one place, so that it is reused under a waiter.
- `fibers`: two fibers give a holder and a waiter, a runner and a sleeper, and
  two sleepers due at once (`NatVarFibers` keeps the third fiber, which the channel
  needs, out of this part; `ChanTime` and no arriving data keep the channel's part
  small); two parked receivers are the least that makes a
  swap-remove move an entry; a second pair of workers starts while the first may be
  in a body; three tasks give chains, forks, joins, cycles, unknown ids and repeated
  names.
- `ownership`: one variable and three statements are enough for a join of two states,
  a loop that carries a state back, and widening (`WidenCap` 1 in place of the code's
  larger cap). Two uses after a creation give copies, links in both directions and
  escapes through a callee. A race on a counter needs two threads; three strong
  references let an acquire, a release and an upgrade overlap; two weak handles let one
  drop be the last and one not. The theorems of `ArcProofs` and `OwnershipProofs` remove
  these bounds.
- `toolchain`: four commands let an add be cut off, an install repeat it and a removal
  follow (the theorems of `ToolchainProofs` cover sequences of any length); three files
  give every shape of cycle; the edited projects import a symbol, two symbols, a
  missing file and an alias; an edit behind two imports is the
  least that a direct fingerprint misses; 8 and 4 bits keep every boundary (`MinW`,
  -1, 0, powers of two) of 64 and 32. The tables are complete.
- `compiler`: one loop in another with an exit under a condition, one lambda with an
  early return, one match in a loop: two levels are what the loop, frame and binding
  stacks tell apart. `SrcFuel` and `Fuel` end loops that do not end by themselves;
  inputs include zero and a negative number. The lowered programs of at most 7
  blocks per function (`MaxBlocks`) go on through the optimizer, the larger ones are
  checked after the lowering only. The limits of the pipeline
  (`InlineBudget`, `LicmRounds`, `ModuleRounds`, `FnRounds`) are the program's or
  large enough not to bind.
- `frontend`: three tokens after each frame reach every decision of one token
  of lookahead and the start of recovery; `MaxParseDepth` 5 is reached; `ParseFuel`
  400 is never used up by a parse that consumes.

`PendingHasReason`, `AllIndicesRun`, `CancelledHasReason`, `WaitIdleReturns` and
`JoinsReturn` (of `NatVarMt`) state what the code does provide in cases where it
provides less than one might expect. `NumbersAgree` and `FoldPreserves` except the
cases listed below, `NothingDropped` those of `SkipsInSilence`.

## Fairness

Liveness is checked under weak fairness of what the code's scheduling provides:

- the operating system keeps running every thread, so a thread that can take a step
  inside a runtime call takes it (`InWait`, `Worker`, `InCall`, `Continues`,
  `JoinResumes`, `Run`, `Scheduler`); a mutex that is released again and again is
  obtained in the end;
- time passes (`Tick`);
- task, loop and thread bodies return. This is the program's duty; every API here
  waits for bodies to return;
- fibers are cooperative, so a running fiber must yield or finish (`FiberGivesWay`);
  nothing else a fiber may do is assumed fair.

No fairness is assumed for calls the program may or may not make, for cancellation,
close, timeouts of condition variables, spurious wake-ups or arriving data. In the
composed runs the fairness of a part holds while that part runs. The compiler's runs
have no liveness: termination there is a bound (`ParseEnds`, rounds of the pipeline,
`MaxRounds` of the effect fixpoint) and checked as safety.

## Proofs

`tlapm X.tla` checks each module; the theorems hold for all values of the constants
that satisfy the named `ASSUME`s.

**`ArcProofs`** (assumption `ArcAssumption`: finite sets of references, `None` is no
thread; any set of threads). `StrongKeepsAlive` and `NoLeak` are not inductive: a
thread may be between its load and its compare-and-swap, or have reached zero and not
looked at the other counter yet. `ArcInv` adds: the counters equal the numbers of
references held (`CountsExact`); a thread inside acquire or release holds a reference
and has seen a positive count (`CallersHold`); who goes to look at the weak counter,
and any free, come after strong is zero (`ZeroIsFinal`); and while both counters are
zero somebody has freed or is about to look (`SomebodyLooks`). The proof has a lemma
per kind of step; the cardinality facts are the lemmas `HeldAdd`, `HeldRemove` and
`HeldMove`. Theorems: `ArcInvariant`, `ArcNeverAborts`, `ArcStrongKeepsAlive`,
`ArcNoLeak`, `ArcNoResurrection`. `AllocationDiesLast` is not among them; it is false.

**`ThreadsProofs`**, about the run `threads`. First the channel
(`ThreadChannelAssumption`: capacity at least one, finite disjoint sets of senders and
receivers). `ChannelInv` adds to `NoLostWakeup` the ring's arithmetic (`RingShape`) and
that nobody sleeps on a closed channel. The core of the argument is a count: while a
receiver sleeps there are at most as many values as woken receivers. Theorems:
`ChannelInvariant`, `ChannelNoLostWakeup`, and `ChannelRefinesFifo`: every step of the
ring is a step of `BoundedFifo` or leaves its variables alone, by the lemmas that
storing at `tail` appends to `Queue` and advancing `head` takes its tail.

Then the other four parts, `ThreadsAreSafe`, each from an inductive invariant of its
own (`ComponentInvariants`):
- `HandleInv`: the struct is freed only after a join, a join answers 0 only after the
  proxy has published, and whoever waits holds a live one.
- `ParallelForInv`: the chunks given out so far partition the indices below the cursor
  of the split, which is where the code's ceiling division has to be right for every
  range and number of cores.
- `PoolInv`: a worker at work is owed to a caller that has dispatched it and not yet
  joined it, and has not answered; the activations above one another on a stack
  belong to nested calls (`StackInv`). It needs the hypothesis `NestedIsShort`: a loop that a body starts has at most
  one turn. The code does not establish it: the workers never set their
  `tls_in_parallel_region` (`datara_parallel.c:257`), so a longer loop started on a
  worker dispatches to itself (see below). Within the hypothesis any number of workers,
  calls and jobs is covered.
- `TimerInv`: what a place of the table says of the timer that was last put there, so
  that an answer is the truth although places are reused.

**`FibersProofs`**, about the run `fibers` (`FibersAssumption`: the tables' sizes and the
bounds are numbers, sets of clients and threads are finite).

*Task graphs* (a finite non-empty set of tasks, prerequisite lists over the naturals).
`DepsRespected` is not inductive since it does not say why a ready task is ready.
`ScheduleInv` adds `DegreeBound` (an in-degree is at least the number of places of the
list that are still open), `ReadyExact` (a task in the wave or in the queue has
in-degree zero and nothing open) and `ReadyShape` (it is there once, not started). A
wave is subtracted as a whole when it ends, hence `Settled`. What is left behind needs
more: `AccountInv` says that the in-degree of a task whose list repeats no name is
exactly the number of open places (`DegreeExact`), that a task whose in-degree is spent
is ready or was started and one that runs is in the wave (`NothingLost`), and that the
counter counts what is settled (`PathExact`). Theorems: `ScheduleInvariant`,
`ScheduleDepsRespected`, `AccountInvariant`, `ScheduleIsSafe`; the last two for at most
`MAX_CANCELLED_REGIONS` cancelled regions, since the registry forgets the next one (see
below). `TasksWaitForDeps` and `TasksAreSafe` carry them into the run.

*The single-threaded scheduler*, `NoFiberIsLost`, assuming `~Posix`: with ucontext the
statement is false (`natvar_posix`), and `NatVarInv` keeps its clause on contexts
(`ContextsKept`) for the other branch only; the rest of `FibersInvariant` is proved for
both. Its data are three queues, a table of
sleepers, the wait lists of the mutexes and a state per fiber, written by every call.
`CoreInv` is the accounting: a fiber is in the ready queue, once, exactly when its
state says so; sleepers are in the table; the count of the finished is their number.
It is proved through one predicate over plain values (`CoreIs(queue, states, running,
count, sleepers, sockets, done)`) with a lemma for each way a fiber moves: spawned,
dispatched, woken, parked, finished. The steps are then instances of these lemmas.
`NatVarInv` adds what mutual exclusion needs: a lock call that has not returned is
parked without an answer or resumed with one (`LockCallOK`), and whoever holds a mutex
or was handed it is its owner (`OwnerExact`); between the unlock and the resumption the
mutex is held by nobody and open to nobody. The scans of sockets and waiters are
single steps, so the invariant holds in the middle of a scan too.

*Channels*, `FibersAreSafe`. `ChanInv` says that the receivers fill the first places of
their array, that the sender is in the last place of its own exactly while a value is
in the slot (`ArraysExact`), and what was received is what was sent, up to the value in
the slot (`ValuesExact`). The hypothesis `OneChannel` is the case the code supports:
the two arrays share one count, so that with two channels a wake-up drops a parked
fiber of the other (see below), and a second sender overwrites the slot. It asks for
one channel, one sender that does not receive itself, and no more fibers than the wait
arrays have places; any number of receivers, main among them. The code's own constants
(`FIBER_MAX` 262144, `TIMER_MAX` 131072) admit more fibers than places; the excess
would park nowhere.

*The multi-threaded scheduler*, also in `NoFiberIsLost`: `MtInv` says that no two of
spawning clients, places of the queue and workers have the same fiber (`OneOwner`), and
what each of them knows of the fiber it has (`ClientOK`, `QueuedOK`, `ThreadOK`), whatever
restarts forget. The count of the finished is then one of two cardinalities which each
step moves by one.

`FibersInvariant` puts the parts together: each keeps its invariant while it runs and
the others leave its variables alone.

**`ToolchainProofs`**, about the package manager and the driver of the run `toolchain`.

*Packages* (`PackagesAssumption`). `CommandsTouchOnePackage` is an action
property: no step of `add`, an installation, a restoration or `remove` touches the
directory, the manifest key or the lock entry of another package, or makes a manifest
unreadable. A kill while `datara.toml` is written may lose any of its keys, and one while
`datara.lock` is written any of its entries, and the theorem says that it loses nothing
else: the torn file is one of those the step was writing.
`NamesInvariant`: every entry is filed under its own name. `OnDiskInvariant` says what
the lock, the store and the links have to do with each other at every point inside a
command, the package in flight excepted; a crash is a step that leaves the package in
flight as it is, and the next command must not rely on it: its name stays in `pmTaint`
until its lock entry is written anew, as does that of a package whose directory was
removed in part. `LockIsOnDisk` follows: what is locked and linked has the digest of the
lock, those names and the entries of `dpm update` excepted. `WholeInvariant` and
`ValidIsComplete` assume that every tarball is added with its checksum (`ShaChoices =
{TRUE}`), and that a `package.json` in an archive which states a digest lists its files
too (`DigestMeansFiles`; the code takes the digest as it stands): without a checksum, `registry.rs` keeps half a download and `dpm verify` calls it
valid, which is what a digest taken afterwards can only say.

*The driver* (`DriverAssumption`: non-empty paths, import graphs on the files given),
for any number of files, any import graphs and any sequence of edits and jobs.
- `LoadingIsComplete`: a job loads exactly the files reached from the root and the
  command line, and reports a name two of them declare. The invariant has the loaded
  files reached, and every import of one of them loaded or waiting in the frontier; the
  reached files are the least closed set.
- `CacheIsFresh`: an answer from the cache is what a check of the files as they are
  would say; the results of checks whose imports failed are in the cache too, since
  such a check goes on to the barrier after `expand` and its result is stored. `CacheInv` says of every entry that it is a result of the files its key
  names; `KeyTellsRead`, that the key of the present files names what a check would
  read now. The scan that makes the key and the loader must therefore find the same
  files (`ScanIsLoad`), which is where the hypotheses come from: no symbol imported in
  braces has the name of a file (`GroupsNameNoFile`), no module is imported whole under
  an alias (`NoAliases`), only the root imports C headers (`HeadersInRoot`). The code
  checks none of the three (see below).
- `RejectedStops`: a program with an error before a barrier is not lowered. `StageInv`
  keeps the errors reported so far beside the stages passed.
- `DriverIsSound`: the same with the cycle search, which reports an error on every
  cycle among the loaded files and on nothing else. `SearchState` is the invariant of
  a depth-first search that colours files: the stack is a path of the graph, a file in
  work is on it, the files left behind are closed under imports and acyclic as long as
  no error was reported. Without command-line files (`ExplicitFiles = {}`): with them
  the code attributes all imports to one file (see below).

**`OwnershipProofs`**, about the borrow dataflow of the run `ownership`
(`BorrowAssumption`: finitely many kinds of borrowers, well-formed functions whose loads
are fresh).

*The states* form a join semilattice where every borrower has a counted borrow
(`Counted`), which joins and borrows preserve. `JoinBaseSemilattice`, `JoinAssociates`
(with `JoinCommutes`) say that neither the order nor the repetition of joins matters,
so the worklist may visit predecessors in any order; the case distinction of the code
for equal states is shown to be no exception (`JoinFields`). `JoinAbove`: nothing
either side knows is forgotten. `MovedOnEverySide`: a joined state is moved only if no
side has the value otherwise, the fact behind `NoFalseMoveErrors`.

*The analysis*, `UsesAreGuarded`: if the worklist has come to rest, an accepted function
uses no variable that its path has moved, unless the use stands behind a guard. It is
proved for functions of any number of blocks, instructions, variables and values, for
every path, and for any caps of widening and turns. The inductive invariant `GuardInv`
(`GuardInvHolds`) follows the phases of the code:
- In the fixpoint (`Working`): each block's out-state is what the transfer functions
  make of its in-state (`Blocks`), and its successors, unless they are in the worklist,
  have an in-state that shows every move the out-state shows (`Flows`, `Covers`). "Shows"
  is `MayBeMoved`: a base of moved or unknown. A step is `ProcessKeeps`, by `JoinCovers`
  and `WidenCovers`.
- After it, with an empty worklist, the same for all edges (`Calm`); both rounds of
  narrowing keep it (`NarrowKeeps`), because a base is only replaced by the join of the
  predecessors. That `Entry` and all that follows it have a state at all needs the
  walk that orders the blocks (`OrderHolds`): it stops with an empty stack, and its
  order is closed under successors.
- In the execution (`OnTrack`): at every place of the guarded code there is a place of
  the analysed function (`Stage`, `Place`) where the state shows all moves of the path
  (`MovesKnown`). The step over an instruction is `MoveIsSeen`. For it the value that is
  consumed must stand for the variable it was loaded from; that is what fresh loads
  give (`UseIsFresh`).
- A use of a moved variable is then of a value that may be moved; it is not moved for
  certain, since its load would have been an error (`LoadedIsNotMoved`); so it is
  unknown, hence guarded, and `Layout` says where `insert_runtime_guards` puts the
  acquire.

The hypothesis that the worklist is empty is needed: `borrow_diverges` shows what is
true without it. `LoadsAreFresh` says what the lowering does for a use of a variable:
it loads the variable, and uses the value in the same block before the variable is
bound again or consumed. Where it does not hold the code misses uses (see below).

Only model-checked:
- all liveness properties (`ThreadProgress`, `FiberProgress`): temporal reasoning with
  fairness and `ENABLED` is beyond the prover;
- `JoinersResume` and the other statements under "What the code does not guarantee":
  they are false;
- `NoFalseMoveErrors`: the execution does not follow a moved object through temporaries
  and block parameters, as the states do; a proof would need an execution over values;
- the channels of fibers outside `OneChannel`, the loop pool outside `NestedIsShort`;
- the compiler's modules, whose operators recurse over trees and blocks (induction over
  data is out of this prover's reach, and a module with a recursive operator gets no
  arithmetic); `Abi` and `Backends`, which TLC evaluates completely or on
  boundary values.

## Findings

- `arc_dies_last`. The last `arc_release` reads the weak counter after its own
  decrement, the last `weak_drop` reads the strong counter after its own. When the two
  overlap both see zero: the header is freed twice, or read after it was freed
  (`datara_guard.c:196`, `:255`). The comment at `:134` says that the allocation dies
  only when both are zero.
- `natvar_join`. A fiber parked in `join` is made ready by `wake_waiters_of`
  (`datara_natvar.c:239`), which nothing calls: it stays parked after its target has
  finished, and the scheduler reports a deadlock.
- `release_rebind`. The uses of an object are sought between its definition and the
  next definition of the variable in the text (`ownership/dataflow.rs:1031`). When
  that next definition stands in a branch that is not taken, the object is released
  at once and read later. The run `ownership` leaves this one shape out (`Branching`)
  so that the rest is checked.
- `borrow_diverges`. "Iteration to saturation" (`ownership/abstract.rs:6`) does not
  saturate: widening replaces the bases and keeps the counts of borrows (`:288`), and a
  view that a loop takes is counted again in every visit. The turns run out (`:208`)
  with blocks unvisited: the first dirty block in reverse post-order is always one of
  the loop, and the blocks after it come later in that order if the exit is the first
  target of its branch. Unvisited blocks are skipped when errors and guards are
  collected (`:493`), so that a moved variable is used there with neither.
- `inline_global`. Inlining renames every variable of the callee that is no parameter
  (`optimizer/inline.rs:257`), globals included: the global is not written any more,
  and the verifier accepts the module. The run `compiler` has globals in functions
  that are not inlined.
- `natvar_posix`. `posix_tramp` saves the context of a finishing fiber through the static
  `g_posix_self` (`datara_natvar.c:299-305`), the fiber whose trampoline started last.
  When that one has yielded meanwhile, its saved context is overwritten: the next switch
  to it returns from the other's trampoline, and without a `uc_link` that ends the
  process. The run `fibers`, its theorems and `FiberProgress` are of the Windows branch.

## What the code does not guarantee

The runs stay within what the code provides. The following statements come from
comments and documentation; the code does not keep them. Where a definition is named
it stands in its module; TLC refutes it with that module's constants or with those
given, once the case is let in. Where a run leaves a case out, its module says so at
the definition that makes the cases.

Runtime.

| Source | What happens | Where it shows |
|---|---|---|
| `datara_natvar.c:744` | the loop halts while lock calls with a timeout are parked and nobody sleeps ("cannot hang the scheduler", `:511`) | `TimedLocksAnswer` |
| `datara_natvar.c:737` | lock timeouts are compared only on idle passes ("called each scheduler pass", `:588`) | `LockTimeoutsFire` |
| `datara_natvar.c:428` | a receive deadline is not compared until some socket is readable ("or the deadline expires", `:905`) | `ReceiveTimeoutsFire` |
| `datara_natvar.c:380` | with the socket list full a fiber parks in no list, and the scheduler halts beside readable data | `HaltsOnlyInDeadlock`, `NATVAR_IO_MAX` 1 |
| `datara_natvar.c:830` | a second sender overwrites the slot of a parked one | `InOrderDelivery`, two fibers with `SendsTo[f] = {1}` |
| `datara_natvar.c:266` | waking one side shortens the other side's array; a sender stays parked after its value was taken | `SenderParkedOnItsValue`, two channels with a sender and a receiver each |
| `datara_natvar.c:870` | main's receive spins when the remaining fibers are parked for good ("fail closed", `:862`) | `MainRecvFailsClosed` under `ChanFairSpec`, no sender |
| `datara_natvar_mt.c:199` | two threads that spawn at once lose an increment; `wait_idle` returns early | `WaitIdleSound`, two clients |
| `datara_natvar_mt.c:231` | `join` answers -1 for a fiber recorded between its scan and its test | `JoinFindsTheDone` |
| `datara_natvar_mt.c:204` | `spawn` reads the handle of a fiber that may be freed | `SpawnReturnsItsHandle` |
| `datara_natvar_mt.c:274` | a worker in a body longer than 50 ms survives shutdown and the next start | `WorkersBounded` |
| `datara_natvar_mt.c:176` | a restart empties the queue; fibers in it are never run, and `wait_idle` waits for them for ever | `WaitIdleReturns` without `FirstStart` |
| `datara_natvar_mt.c:315` | a full registry drops handles; `wait_idle` never returns | `WaitIdleReturns`, `MT_DONE_CAP` 1 |
| `datara_thread.c:202` | a handle freed while its thread runs is written by the proxy ("auto-detaches if still running") | `NoUseAfterFree`, `FreeEarly` TRUE |
| `datara_thread.c:173` | a joined POSIX thread is neither `pthread_join`ed nor detached | `ThreadReclaimed` |
| `datara_thread.c:507` | after a failed spawn that chunk and all later ones are not run ("Fallback for remaining items") | `AllIndicesRun` without its case for `failed` |
| `datara_parallel.c:257` | a loop of two or more turns inside a loop: a worker dispatches to itself and waits for itself | `CallsReturn`, a nested job with two indices |
| `datara_parallel.c:280` | two threads that call at once share one description of the loop | `EachIndexOnce`, two callers |
| `datara_rt_scheduler.c:421` | on the queue path a prerequisite named twice is subtracted once: the task never runs | `PendingHasReason` without `CountedOnce` |
| `datara_rt_scheduler.c:82` | the 513th cancelled region is forgotten | `CancelIsTotal`, two regions and cancellations, one place |
| `datara_rt_scheduler.c:574` | 4096 later timers overwrite a pending one; its wait answers "cancelled" | `CancelledHasReason` without its second case |
| `datara_rt_scheduler.c:628` | a callback runs after its timer's cancellation was answered | `NoCallbackAfterCancel` |

Compiler and tools.

| Source | What happens | Where it shows |
|---|---|---|
| `codegen/cranelift/jit.rs:240` | the JIT resolves `join` to the string function, the backend declares the thread function under that name (`declare_concurrency.rs:43`) | `JoinIsThreadJoin` of `Abi` |
| `codegen/llvm/runtime_decls.rs` | two declarations differ from the C functions: a radix conversion without its third parameter, a cancel with a result | `LlvmAgrees` on `LlvmDrift` |
| `dmir/lowering/builtin_returns.rs` | the lowering gives some built-ins a result type of the other register file than the imported function's | `ReturnParity` of `Abi` |
| `codegen/llvm/emit_inst.rs` | LLVM computes narrow and unsigned types at full width; a float converted out of range is poison where Cranelift saturates | `NativeAgree` without its exclusions |
| `codegen/cranelift/backend/compile_func.rs:1130` | a choice between Booleans is carried as an integer by one back end and as a Boolean by the other; printing tells them apart | `NativeAgree` on Boolean choices |
| `codegen/wasm/emit_inst.rs:700` | the emission of a conversion ends the block; the instructions after it are not emitted. Casts and strings have no code. MIN % -1 is 0 there and a trap natively | `WasmNumbersAgree` without its exclusions |
| `optimizer/const_fold.rs` | saturating operations and shifts of narrow types fold at full width; `!=` on unsigned types folds unlike it runs | `FoldPreserves` without its exclusions |
| `dmir/lowering/expr_composite.rs:497` | the arms of a match without block bodies are all evaluated before one is chosen: a division in an arm that is not taken faults | `MeaningKept`, arms with effects (`Arms1`) |
| `ownership/mod.rs:917` | the arms of a match are checked one after the other on one state, without the snapshot and the join of an `if`: what an arm moves counts as moved in the next, and its use is reported ("false positives are not" acceptable, `:415-416`) | `NoFalseMoveErrors`, `MCTrees` with a move in the first arm |
| `ownership/transfer.rs:51` | a variable loaded as an operand before a sibling call consumes it (`x + consume(x)`): the value keeps the state it was loaded with, so the use after the move is neither an error nor guarded | `NoSilentUseAfterMove`, a function without `LoadsAreFresh` |
| `ownership/transfer.rs:251` | of a method call only the object is checked for a move; the other arguments are recorded as uses | a moved argument, see `Errors` |
| `parser/expr.rs:343` | `a < B` with a capitalised `B` is taken for type arguments, and the tokens up to `>` are skipped | `NothingDropped` without `SkipsInSilence` |
| `parser/expr.rs:669` | the last statement of a block lambda that is not a `return` is taken from the block and thrown away (a tree without the statement, no error; "a statement-block body", `:637`) | `NothingDropped`, `out x => { y = x }` |
| `security/mod.rs:586` | an argument `d - n` with a variable `n` counts as less than the metric `d`, the metric need not be bounded below, and calls through another function or below a cast or a mode are not seen ("to guarantee termination", `:562`) | `VerifiedReturns` without `MetricTrusted` |
| `security/capabilities.rs:377` | the check of parallel blocks collects no read below a cast, a recovery, an arithmetic mode, a comptime or a type test, no stored element (`concurrency.rs:120`) and not the outer `y` of `val y = y` (`:99-105`): `x = y as Int` beside `y = 3` is accepted ("Data races ... are mathematically impossible", `README.md:1089`) | `RaceFree` without `RaceOverlooked` |
| `security/mod.rs:960` | what a contract or a type says of a parameter is taken to hold after an assignment to it too, and what a body or branch assigns is forgotten after it: a divisor may count as proven and be zero | `VerifiedDivides` without `DivisorTrusted` |
| `security/verify_expr.rs:541` | a product of two factors that are no literals is accepted as a divisor; a parameter whose type excludes zero vouches for every variable of its function (`:600`), a global of class NonZeroInt for every variable of its name (`:615`) | `VerifiedDivides` without `DivisorTrusted` |
| `security/mod.rs:465` | the reads of a `require` are collected with no variable in scope, so none is found: a method that decrements a field under an invariant is refused with a precondition too ("Add 'require' clause", `:485`) | `verify_class_invariants` of `Gates` |
| `parser/expr.rs:244` | the operand after `..` ends the climbing of operators: `0..n + 1` leaves `+ 1` behind, `1..x == y` likewise, whatever the table of precedences says (`parser/mod.rs:48`) | `ReadsAsWritten`, trees without the parentheses of `Rank` |
| `parser/expr.rs:471` | of the type of `as` and `is` only the name is kept: type arguments, `?`, an error type and a refinement are read and dropped; so is the message of `require` (`parser/stmt.rs:315`) | `NothingDropped` without `SkipsInSilence` |
| `dmir/lowering/match_arm.rs:190` | the guard of an arm is computed also where its pattern does not match: a division in it may fault | `MeaningKept`, guards that fault |
| `optimizer/mod.rs:879` | `convert_branches_to_select` leaves arms alone that divide, as they "could fault on inputs the original program never executed" (`:876-878`), and converts those with a checked +, - or *, which fault on overflow; loop-invariant motion does the same (`optimizer/loops/mod.rs:252`) | `KeepsOutcome` on `WideInputs` |
| `driver/mod.rs:195` | an edit between the fingerprint and the second reading of the files stores the new verdict under the old key | `NoStaleCheck`, an editor inside a job |
| `driver/modules.rs:20` | of `use a.{s}` the scan makes the path `a.s`: where there is a file of that name, that file is in the fingerprint and `a` is not ("never a stale hit") | `NoStaleCheck`, a symbol with the name of a file |
| `driver/modules.rs:78` | an import with an alias contains a space and is passed over: beside another import its file is not in the fingerprint | `NoStaleCheck`, `{UseAs(A), Use(B)}` in the root |
| `driver/modules.rs:52` | `use a.{s, t}` is cut at its comma before the braces are looked for, so that the path found names no file: such a root is never cached ("expand into one path per symbol", `:17`) | `nested_use_paths` of a group of two |
| `driver/check_cache.rs:60` | C imports are sought in the root's text only: the header of a module is not in the key | `NoStaleCheck`, `ForeignFiles` `{A}` |
| `driver/modules.rs:1048` | the imports of all files on the command line are taken for those of the first: cycles among the others are missed, others invented | `CyclesAreErrors`, `ExplicitFiles` with cycles among them |
| `driver/modules.rs:1001` | modules added without an import are no part of the fingerprint | `NoStaleCheck`, such a module |
| `project/pm/registry.rs:935` | a tarball that is already in the store is linked without comparing the checksum given ("verifies SHA-256") | `ChecksumHonoured` of `Packages` |
| `project/pm/cli.rs:405` | removing a bridge drops every manifest line that contains its name | excluded in `OthersUntouched` |
| `project/pm/cli.rs:346` | `dpm add --git` records its key only where no line contains `name =`: beside `my_name = ...` it records nothing ("links a remote Git repository as a project dependency", `README.md:2352`) | `EditManifest`, a key that mentions `GitName` |
| `project/pm/registry.rs:1471` | a dependency added in the registry's way leaves `datara.toml` without a final newline; a git or bridge entry appended next is glued to its last line, and the file does not parse | `Parses(depManifest)`, an add followed by `dpm add --git` |
| `project/pm/registry.rs:1028` | `datara.toml` and `datara.lock` are written in place: a kill during the write loses entries of other packages | excepted in `OthersUntouched` |

## Not modelled

- Memory models: atomic and locked accesses are sequentially consistent here; the
  unlocked counters are interleaved one access at a time, weaker effects of data races
  are not modelled. The work-stealing deque, whose argument rests on them, is left out
  for that reason.
- The Windows branches of threads and channels, which use other primitives for the same
  protocol.
- `reset` with parked mutex waiters, `channel_free`, the initialisation of the pool,
  `run_concurrent_timers`, the thread-local table of `own_acquire`, scratch arenas and
  allocators.
- Type checking, derive and compile-time evaluation: rules over a large set of type
  forms that a small instance would only repeat. What the later passes use of its
  results is an input (the types of values in `Backends`, captures in `Syntax`, the
  types of built-ins in `Abi`).
- Of the lowering: classes and method tables, strings, bridges, inline assembly,
  tensor operations. Of the optimizer: vectorisation, tiling, fusion, interchange,
  unswitching and folding of loops, polyhedral transformations, bounds-check elimination
  (`bce`), `scalarize_structures`, `constant_fold` as a pass of the pipeline (its
  arithmetic is in `OptIr`), the second engine (`engine_v2`), interprocedural constants
  (`ipo`), packing of scalars (`slp`), allocation attributes, profiles. Of the back ends: control flow,
  memory layout, vectors, debug information, tiering.
- Of the driver: namespacing of duplicate symbols and foreign-language modules. Of
  the package manager: archives byte by byte, the network, writes that fail while the
  process lives (a full disk), and the toolchain update.
- Of the gates: the capability contracts of roles, float divisors and limits. The
  checker's `var_refinements` and local `symbol_types`, which `verify_division_gate` asks
  for, are empty by then, since every function and block puts them back
  (`types/check/decl.rs:377`, `:484`); the globals of class NonZeroInt are what is left.
- The lexer, spans and message texts; the tools (language server, formatter, linter,
  REPL, documentation); embedded interpreters, bindings, numerics, system calls.
- Counter widths in the runtime: no counter of the modelled parts comes near its bound
  except the tables of fixed size, whose lengths are constants of the modules.

## Plan

Done, in this order: the runtime (`Arc`, fibers, channels, threads, pool, task graphs,
timers) with its proofs; the ownership analyses; driver and packages; the runtime
tables and the back ends; lowering and optimizer, composed; the front end; the proofs
about the ownership states.

Done after that: the proofs about every runtime module, about `Packages`, about
`Driver` and about `BorrowCheck`.

Next, proofs: that an error of `BorrowCheck` is on every path, once its execution runs
over values; that the gates' facts only grow along a body (`Gates`).

Next, models: the release of class members and method calls in `Lowering`, control
flow in `Backends`, an editor inside a job in `Driver`.
