------------------------------- MODULE MCThreads -------------------------------
(***************************************************************************)
(* What OS threads do with each other in one run: the bounded channel,     *)
(* thread handles, datara_parallel_for, the loop pool and the timers.  A   *)
(* behaviour exercises the one component that `part` names; the others     *)
(* stay as the runtime initialises them.  The configuration gives the      *)
(* bounds.                                                                 *)
(***************************************************************************)
EXTENDS ThreadChannel, Sequences

CONSTANTS
    Joiners,                                         \* threads that join one thread
    Ranges, Cores, MaxThreads, SeqLimit,             \* datara_parallel_for
    Caller, g_workers_count, Jobs, Kind, Bounds, Nested, Script, NoJob,
    CHUNKS_PER_WORKER, MAX_CHUNK,                    \* the pool, called by one thread
    Waiters, MAX_CONCURRENT_TIMERS, Delays, Regions, MaxTimers, MaxTime   \* timers

VARIABLES part,
          handle, finished, joined, proxy, os, h_pc, how, h_ret, dangling,
          for_pc, start, end, num_cores, i, cur, args, threads, failed, for_runs,
          par, mode, task, ready, done, region, stack, script, runs,
          g_timers, counter, clock, wait, deadline, cancelled

(* ------------------------------- instances ------------------------------ *)

TH == INSTANCE ThreadHandle WITH FreeEarly <- FALSE, pc <- h_pc, ret <- h_ret
PF == INSTANCE ThreadParallel WITH pc <- for_pc, runs <- for_runs
PL == INSTANCE ParallelPool WITH Callers <- {Caller}
TM == INSTANCE Timers WITH now <- clock

ASSUME ThreadsAssumption ==
    /\ TH!ThreadHandleAssumption /\ PF!ThreadParallelAssumption
    /\ PL!ParallelPoolAssumption /\ TM!TimersAssumption

(* -------------------------- values for the run -------------------------- *)

CONSTANTS long, short, one, both, outer   \* what the caller of the pool asks for

\* Ranges that are empty, sequential, shorter than the number of cores, divisible
\* and not divisible by it, and with a negative start.
MCRanges == {<<2, 2>>, <<3, 1>>, <<0, 2>>, <<0, 3>>, <<0, 4>>, <<1, 6>>, <<-1, 5>>, <<0, 7>>}

\* A loop that does not divide, a pair of tasks, a loop whose body makes a call of
\* one turn, and a short loop.
MCJobs == {long, short, one, both, outer}
MCKind == [j \in MCJobs |-> IF j = both THEN "invoke" ELSE "for"]
MCBounds == [j \in MCJobs |-> CASE j = long -> <<-1, 8>> [] j = one -> <<3, 4>>
                                 [] OTHER -> <<0, 2>>]
MCNested == [j \in MCJobs |-> IF j = outer THEN one ELSE NoJob]
MCScript == [c \in {Caller} |-> <<long, both, outer, short>>]

(* ----------------------------- specification ---------------------------- *)

Parts == {"channel", "handle", "parallel_for", "pool", "timers"}

thVars == <<handle, finished, joined, proxy, os, h_pc, how, h_ret, dangling>>
pfVars == <<for_pc, start, end, num_cores, i, cur, args, threads, failed, for_runs>>
plVars == <<par, mode, task, ready, done, region, stack, script, runs>>
tmVars == <<g_timers, counter, clock, wait, deadline, cancelled>>

\* An idle channel holds one arbitrary ring, not each.
MCInit == /\ part \in Parts
          /\ Init
          /\ part = "channel" \/ ring = [s \in 0..(Capacity - 1) |-> CHOOSE v \in Values : TRUE]
          /\ TH!Init /\ PF!Init /\ PL!Init /\ TM!Init

MCNext ==
    \/ part = "channel" /\ Next /\ UNCHANGED <<part, thVars, pfVars, plVars, tmVars>>
    \/ part = "handle" /\ TH!Next /\ UNCHANGED <<part, vars, pfVars, plVars, tmVars>>
    \/ part = "parallel_for" /\ PF!Next /\ UNCHANGED <<part, vars, thVars, plVars, tmVars>>
    \/ part = "pool" /\ PL!Next /\ UNCHANGED <<part, vars, thVars, pfVars, tmVars>>
    \/ part = "timers" /\ TM!Next /\ UNCHANGED <<part, vars, thVars, pfVars, plVars>>

allVars == <<part, vars, thVars, pfVars, plVars, tmVars>>

MCSpec == MCInit /\ [][MCNext]_allVars

\* Each component's own fairness, while it is the one that runs.
MCFairSpec ==
    /\ MCSpec
    /\ \A t \in Threads : WF_vars(part = "channel" /\ Continues(t))
    /\ WF_thVars(part = "handle" /\ TH!ProxyCalls)
    /\ WF_thVars(part = "handle" /\ TH!ProxyPublishes)
    /\ WF_thVars(part = "handle" /\ TH!ThreadExits)
    /\ \A j \in Joiners : WF_thVars(part = "handle" /\ TH!JoinResumes(j))
    /\ WF_pfVars(part = "parallel_for" /\ PF!CallerStep)
    /\ \A k \in PF!Slots : WF_pfVars(part = "parallel_for" /\ PF!Worker(k))
    /\ \A t \in PL!Threads : WF_plVars(part = "pool" /\ PL!InCall(t))
    /\ \A w \in PL!Workers : WF_plVars(part = "pool" /\ PL!Works(w))
    /\ WF_tmVars(part = "timers" /\ TM!Tick)
    /\ \A w \in Waiters : WF_tmVars(part = "timers" /\ TM!InWait(w))

(* ------------------------------ properties ------------------------------ *)

\* A thread handle is not touched after free; datara_parallel_for runs each index
\* once; the pool is at rest between two calls; a cancelled timer answers
\* "cancelled", and no timer answers before its deadline.
ThreadSafety ==
    /\ TH!NoUseAfterFree /\ PF!AllIndicesRun /\ PL!PoolAtRest
    /\ TM!CancelSticks /\ TM!CancelledHasReason /\ TM!NotBeforeDeadline

\* What a call may not do on its way, and that it comes back: a join does not time
\* out beside a result, a parallel loop runs each index once; a closed channel
\* releases everybody; joins, parallel loops and timer_wait return.
ThreadProgress ==
    /\ TH!NoFalseTimeout /\ PL!EachIndexOnce
    /\ CloseReleases
    /\ TH!JoinsReturn /\ PF!ParallelForReturns /\ PL!CallsReturn
    /\ TM!WaitsReturn
===============================================================================
