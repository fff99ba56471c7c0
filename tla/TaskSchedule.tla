----------------------------- MODULE TaskSchedule -----------------------------
(***************************************************************************)
(* datara_rt_schedule_run: a graph of tasks is run wave by wave when every *)
(* task is deterministic, and through a ready queue otherwise; another     *)
(* thread may cancel a region at any moment.  Tasks are numbered by their  *)
(* place in the array, which is also their id; a dependency may name an id *)
(* that no task has, and name the same task twice.  The tasks of a wave    *)
(* run in parallel (ParallelPool); every other step is the caller's own.   *)
(***************************************************************************)
EXTENDS Integers, Sequences, FiniteSets

CONSTANTS Nodes,       \* 0..(node_count - 1)
          Graphs,      \* the graphs to run: deps[i], a sequence of ids
          Paths,       \* the values all_deterministic may have
          Regions,     \* region ids; 0 stands for "no region"
          MAX_CANCELLED_REGIONS, \* 512
          MaxCancels   \* bound: calls of schedule_cancel

ASSUME TaskScheduleAssumption ==
    /\ IsFiniteSet(Nodes) /\ Nodes \subseteq Nat /\ Nodes # {}
    /\ \A g \in Graphs : DOMAIN g = Nodes /\ \A i \in Nodes : g[i] \in Seq(Nat)
    /\ Paths \subseteq BOOLEAN /\ Regions \subseteq Nat
    /\ MAX_CANCELLED_REGIONS \in Nat /\ MaxCancels \in Nat

VARIABLES deps,       \* the graph that is run
          det,        \* all_deterministic
          region,     \* region_id
          pc,         \* "call", "wave", "tasks", "pop", "task", "returned"
          in_degree,
          wave,       \* cur_wave, as a set: the order within a wave is not used
          queue,      \* ready_q
          completed,
          result,     \* what schedule_run returned
          status,     \* 0 pending, 1 running, 2 completed, 3 cancelled
          registry,   \* g_cancelled_regions
          cancels,    \* history: the regions cancelled so far
          before      \* history: the regions cancelled before the call

vars == <<deps, det, region, pc, in_degree, wave, queue, completed, result,
          status, registry, cancels, before>>

Init == /\ deps \in Graphs /\ det \in Paths /\ region \in Regions \cup {0}
        /\ pc = "call"
        /\ in_degree = [i \in Nodes |-> 0]
        /\ wave = {} /\ queue = <<>>
        /\ completed = 0 /\ result = 0
        /\ status = [i \in Nodes |-> 0]
        /\ registry = <<>> /\ cancels = <<>> /\ before = {}

Ids(s) == {s[k] : k \in 1..Len(s)}

\* The places at which i names one of the tasks in set S as a prerequisite.
Edges(i, S) == {d \in 1..Len(deps[i]) : deps[i][d] \in S}

(* ------------------------------ cancellation ----------------------------- *)

\* g_cancelled_count < MAX_CANCELLED_REGIONS
HasRoom == Len(registry) < MAX_CANCELLED_REGIONS

\* Another thread cancels a region; a full registry forgets it.  The timers
\* of the region are Timers' part.
ScheduleCancel(r) ==
    /\ r # 0 /\ Len(cancels) < MaxCancels
    /\ cancels' = Append(cancels, r)
    /\ registry' = IF HasRoom THEN Append(registry, r) ELSE registry
    /\ UNCHANGED <<deps, det, region, pc, in_degree, wave, queue, completed,
                   result, status, before>>

\* is_region_cancelled
RegionCancelled == region # 0 /\ region \in Ids(registry)

\* Variant: only the tasks that are ready become cancelled.
PendingCancelled_Ready == [i \in Nodes |-> IF status[i] = 0 /\ in_degree[i] = 0 THEN 3 ELSE status[i]]

\* Every task that is still pending becomes cancelled.
PendingCancelled == [i \in Nodes |-> IF status[i] = 0 THEN 3 ELSE status[i]]

Returns(n) == pc' = "returned" /\ result' = n

(* --------------------------------- the call ------------------------------ *)

\* The tasks without a prerequisite.
Roots == {i \in Nodes : deps[i] = <<>>}

\* The members of S in the order of the array (a set of one sequence).
InOrder(S) == {s \in [1..Cardinality(S) -> S] :
                  \A j, k \in 1..Cardinality(S) : j < k => s[j] < s[k]}

\* A cancelled region returns -1 at once; otherwise the in-degrees are set up
\* and the tasks without a prerequisite are ready.
ScheduleRun ==
    /\ pc = "call"
    /\ before' = Ids(cancels)
    /\ IF RegionCancelled
       THEN /\ status' = [i \in Nodes |-> 3] /\ Returns(-1)
            /\ UNCHANGED <<in_degree, wave, queue>>
       ELSE /\ in_degree' = [i \in Nodes |-> Len(deps[i])]
            /\ IF det THEN wave' = Roots /\ pc' = "wave" /\ UNCHANGED queue
                      ELSE queue' \in InOrder(Roots) /\ pc' = "pop" /\ UNCHANGED wave
            /\ UNCHANGED <<status, result>>
    /\ UNCHANGED <<deps, det, region, completed, registry, cancels>>

(* --------------------------------- waves --------------------------------- *)

\* An empty wave ends the run, a cancelled region stops it before the wave.
WaveStarts ==
    /\ pc = "wave"
    /\ IF wave = {} THEN Returns(completed) /\ UNCHANGED status
       ELSE IF RegionCancelled THEN Returns(completed) /\ status' = PendingCancelled
       ELSE pc' = "tasks" /\ UNCHANGED <<status, result>>
    /\ UNCHANGED <<deps, det, region, in_degree, wave, queue, completed, registry,
                   cancels, before>>

\* wave_task_runner, on a thread of the pool.
TaskStarts(i) ==
    /\ pc = "tasks" /\ i \in wave /\ status[i] = 0
    /\ status' = [status EXCEPT ![i] = 1]
    /\ UNCHANGED <<deps, det, region, pc, in_degree, wave, queue, completed, result,
                   registry, cancels, before>>

TaskEnds(i) ==
    /\ pc = "tasks" /\ i \in wave /\ status[i] = 1
    /\ status' = [status EXCEPT ![i] = 2]
    /\ UNCHANGED <<deps, det, region, pc, in_degree, wave, queue, completed, result,
                   registry, cancels, before>>

\* Variant: the tasks of earlier waves are counted again.
Resolved_Again(i) == Cardinality(Edges(i, {j \in Nodes : status[j] = 2}))

\* Variant: a prerequisite that is named twice is counted once.
Resolved_Once(i) == IF Edges(i, wave) = {} THEN 0 ELSE 1

\* How often the tasks of the wave have i in their lists of successors.
Resolved(i) == Cardinality(Edges(i, wave))

\* Variant: one prerequisite may be missing.
IsReady_OneMissing(n) == n =< 1

\* in_degree == 0
IsReady(n) == n = 0

\* The tasks whose in-degree has just become zero.
NextWave(degree) == {i \in Nodes : in_degree[i] > 0 /\ IsReady(degree[i])}

\* Variant: a wave counts as one task.
WaveLength_One == 1

\* cur_wave_len
WaveLength == Cardinality(wave)

\* parallel_for has returned: the wave is counted and the next one resolved.
WaveEnds ==
    /\ pc = "tasks" /\ \A i \in wave : status[i] = 2
    /\ completed' = completed + WaveLength
    /\ in_degree' = [i \in Nodes |-> in_degree[i] - Resolved(i)]
    /\ wave' = NextWave(in_degree')
    /\ pc' = "wave"
    /\ UNCHANGED <<deps, det, region, queue, result, status, registry, cancels, before>>

(* ------------------------------ ready queue ------------------------------ *)

\* Variant: the caller polls until something is ready.
QueueEmpty_Polls == UNCHANGED <<pc, result>>

\* Nothing is ready: break, "rather than hanging indefinitely".
QueueEmpty == Returns(completed)

\* The end, a cancelled region, the next task, or nothing ready.
Pop ==
    /\ pc = "pop"
    /\ IF completed = Cardinality(Nodes)
       THEN Returns(completed) /\ UNCHANGED <<status, wave, queue>>
       ELSE IF RegionCancelled
       THEN Returns(completed) /\ status' = PendingCancelled /\ UNCHANGED <<wave, queue>>
       ELSE IF queue = <<>>
       THEN QueueEmpty /\ UNCHANGED <<status, wave, queue>>
       ELSE /\ status' = [status EXCEPT ![Head(queue)] = 1]
            /\ wave' = {Head(queue)} /\ queue' = Tail(queue)
            /\ pc' = "task" /\ UNCHANGED result
    /\ UNCHANGED <<deps, det, region, in_degree, completed, registry, cancels, before>>

\* The tasks that name t: for each one the first match is counted, then break.
Dependents(t) == {i \in Nodes : in_degree[i] > 0 /\ Edges(i, {t}) # {}}

\* The task is finished, and the tasks it was the last prerequisite of are
\* pushed in the order of the array.
TaskDone ==
    /\ pc = "task"
    /\ \E t \in wave :
          /\ status' = [status EXCEPT ![t] = 2]
          /\ in_degree' = [i \in Nodes |-> IF i \in Dependents(t) THEN in_degree[i] - 1
                                                                  ELSE in_degree[i]]
          /\ \E s \in InOrder({i \in Dependents(t) : IsReady(in_degree'[i])}) :
                queue' = queue \o s
    /\ completed' = completed + 1 /\ wave' = {} /\ pc' = "pop"
    /\ UNCHANGED <<deps, det, region, result, registry, cancels, before>>

(* ----------------------------- specification ----------------------------- *)

Run == \/ ScheduleRun \/ WaveStarts \/ WaveEnds \/ Pop \/ TaskDone
       \/ \E i \in Nodes : TaskStarts(i) \/ TaskEnds(i)

Next == Run \/ \E r \in Regions : ScheduleCancel(r)

Spec == Init /\ [][Next]_vars

\* The caller goes on, the pool runs the tasks it was given, and tasks end.
FairSpec == Spec /\ WF_vars(Run)

(* ------------------------------- properties ------------------------------ *)

\* Ranges of the variables.
TypeOK ==
    /\ deps \in Graphs /\ det \in BOOLEAN /\ region \in Nat
    /\ pc \in {"call", "wave", "tasks", "pop", "task", "returned"}
    /\ in_degree \in [Nodes -> Nat] /\ wave \subseteq Nodes
    /\ queue \in Seq(Nodes)
    /\ completed \in Nat /\ result \in Int
    /\ status \in [Nodes -> 0..3]
    /\ registry \in Seq(Regions) /\ cancels \in Seq(Regions) /\ before \subseteq Regions

\* "executes the given tasks respecting their dependencies": a task that runs
\* or has run was started after every one of its prerequisites was completed.
DepsRespected ==
    \A i \in Nodes : status[i] \in {1, 2} =>
       \A d \in 1..Len(deps[i]) : deps[i][d] \in Nodes /\ status[deps[i][d]] = 2

\* The ready-queue path subtracts a prerequisite that is named twice only once,
\* although its in-degree counts both: there a task must not name one twice.
CountedOnce(i) == det \/ \A c, d \in 1..Len(deps[i]) : deps[i][c] = deps[i][d] => c = d

\* "uncompleted tasks either form a dependency cycle or await ...": a run that
\* was not cancelled leaves a task pending only if one of its prerequisites was
\* never completed (a cycle, or an id no task has).
PendingHasReason ==
    pc = "returned" /\ ~RegionCancelled =>
       \A i \in Nodes : status[i] # 2 /\ CountedOnce(i) =>
          \E d \in 1..Len(deps[i]) : deps[i][d] \notin Nodes \/ status[deps[i][d]] # 2

\* The number that is returned is that of the completed tasks, and no task is
\* left running: each was run once.
ResultExact ==
    pc = "returned" =>
       /\ \A i \in Nodes : status[i] # 1
       /\ result # -1 => result = Cardinality({i \in Nodes : status[i] = 2})

\* A run that was stopped by a cancellation leaves no task pending: each one is
\* completed or marked cancelled, so that nobody waits for it.  A region that was
\* cancelled before the call runs none of its tasks.
CancelIsTotal ==
    /\ pc = "returned" /\ (\E i \in Nodes : status[i] = 3) =>
          \A i \in Nodes : status[i] \in {2, 3}
    /\ pc # "call" /\ region \in before => \A i \in Nodes : status[i] = 3

\* The tasks whose completion the in-degrees already reflect: a wave is
\* subtracted as a whole, when it has ended.
Settled == {j \in Nodes : status[j] = 2} \ (IF pc = "tasks" THEN wave ELSE {})

\* The places of i's list that are still open.
Open(i) == {d \in 1..Len(deps[i]) : deps[i][d] \notin Settled}

Live == pc \in {"wave", "tasks", "pop", "task"}

\* What is ready has nothing open, and its in-degree is spent.
ReadyExact ==
    \A i \in wave \cup Ids(queue) : in_degree[i] = 0 /\ Open(i) = {}

\* An in-degree never falls below the number of open places; a task that has
\* one left was not started.
DegreeBound ==
    \A i \in Nodes : /\ in_degree[i] >= Cardinality(Open(i))
                     /\ in_degree[i] > 0 => status[i] = 0

\* Where the ready tasks are, and that each is there once and not started.
ReadyShape ==
    /\ pc \in {"wave", "tasks"} => queue = <<>>
    /\ pc = "wave" => \A i \in wave : status[i] = 0
    /\ pc = "pop" => wave = {}
    /\ pc = "task" => \A i \in wave : status[i] = 1
    /\ \A k \in 1..Len(queue) : status[queue[k]] = 0
    /\ \A j, k \in 1..Len(queue) : queue[j] = queue[k] => j = k

\* The inductive invariant behind DepsRespected: a task becomes ready when its
\* in-degree is spent, and by DegreeBound nothing is open then.
ScheduleInv ==
    /\ TypeOK
    /\ DepsRespected
    /\ pc = "call" => /\ \A i \in Nodes : status[i] = 0
                      /\ wave = {} /\ queue = <<>>
    /\ Live => ReadyExact /\ DegreeBound /\ ReadyShape

\* Only a missing prerequisite or a cancellation leaves a task of a graph undone;
\* the returned number counts the completed ones; a cancelled run leaves no task
\* pending.
ScheduleSafety == PendingHasReason /\ ResultExact /\ CancelIsTotal

\* For a task whose prerequisites the code counts once each, the in-degree is the
\* number of open places, neither more nor less.
DegreeExact == \A i \in Nodes : CountedOnce(i) => in_degree[i] = Cardinality(Open(i))

\* A task whose in-degree is spent is ready or was started, and a task that runs
\* is in the wave: none falls out between the two.
NothingLost ==
    \A i \in Nodes : /\ status[i] # 3
                     /\ status[i] = 0 /\ in_degree[i] = 0 => i \in wave \cup Ids(queue)
                     /\ status[i] = 1 => i \in wave

\* Each path keeps to its own steps, and the counter counts what is settled.
PathExact ==
    /\ pc \in {"wave", "tasks"} => det
    /\ pc \in {"pop", "task"} => ~det
    /\ pc = "task" => \E t \in Nodes : wave = {t}
    /\ completed = Cardinality(Settled)

\* The inductive invariant behind ScheduleSafety, for a registry that has room for
\* every cancellation: the count and the in-degrees are exact and nothing is lost,
\* so that a run that stops has nothing left to run.
AccountInv ==
    /\ ScheduleInv
    /\ registry = cancels /\ before \subseteq Ids(registry) /\ 0 \notin Ids(registry)
    /\ pc = "call" => completed = 0 /\ before = {}
    /\ Live => PathExact /\ DegreeExact /\ NothingLost /\ region \notin before
    /\ ScheduleSafety

\* The call returns, cancelled or not, also for a graph with cycles.
RunReturns == <>(pc = "returned")
===============================================================================
