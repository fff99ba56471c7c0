---------------------------- MODULE ThreadParallel ----------------------------
(***************************************************************************)
(* datara_parallel_for: the range is cut into one chunk per core, all but  *)
(* the first are given to spawned threads, the caller runs the first one   *)
(* and joins the rest.  A chunk's thread is ThreadHandle's proxy; here it  *)
(* is reduced to the indices it still has to run.                          *)
(***************************************************************************)
EXTENDS Integers, FiniteSets

CONSTANTS Ranges,        \* the <<start, end>> pairs the program may ask for
          Cores,         \* possible answers of sysconf(_SC_NPROCESSORS_ONLN)
          MaxThreads,    \* 32: the size of the local arrays
          SeqLimit       \* 128: ranges up to this size run on the caller

ThreadParallelAssumption ==
    /\ Ranges \subseteq Int \X Int
    /\ Cores \subseteq Int
    /\ MaxThreads \in Nat \ {0} /\ SeqLimit \in Nat

VARIABLES pc,        \* "idle", "split", "first", "join", "returned"
          start, end,
          num_cores,
          i, cur,    \* the split loop
          args,      \* args[k]: [at, end], what is left of chunk k
          threads,   \* the chunks given to spawned threads and not joined yet
          failed,    \* history: a spawn has failed
          runs       \* history: runs[x], how often body(x) was called

vars == <<pc, start, end, num_cores, i, cur, args, threads, failed, runs>>

Indices == UNION {r[1]..(r[2] - 1) : r \in Ranges}
Slots == 0..(MaxThreads - 1)
Nothing == [at |-> 0, end |-> 0]

Init == /\ pc = "idle" /\ start = 0 /\ end = 0 /\ num_cores = 1
        /\ i = 0 /\ cur = 0
        /\ args = [k \in Slots |-> Nothing]
        /\ threads = {} /\ failed = FALSE
        /\ runs = [x \in Indices |-> 0]

\* num_cores < 1 and num_cores > 32 are brought into range.
Clamp(n) == IF n < 1 THEN 1 ELSE IF n > MaxThreads THEN MaxThreads ELSE n

\* An empty range returns at once, a small one is run by the caller.
ParallelFor ==
    /\ pc = "idle"
    /\ \E r \in Ranges, n \in Cores :
          /\ start' = r[1] /\ end' = r[2] /\ cur' = r[1]
          /\ num_cores' = Clamp(n)
          /\ IF r[1] >= r[2] THEN pc' = "returned" /\ UNCHANGED args
             ELSE IF r[2] - r[1] <= SeqLimit
             THEN pc' = "first" /\ args' = [args EXCEPT ![0] = [at |-> r[1], end |-> r[2]]]
             ELSE pc' = "split" /\ UNCHANGED args
    /\ UNCHANGED <<i, threads, failed, runs>>

\* Variant: the division rounds down.
ChunkSize_RoundDown == (end - start) \div num_cores

ChunkSize == (end - start + num_cores - 1) \div num_cores

ChunkEnd == IF cur + ChunkSize > end THEN end ELSE cur + ChunkSize

\* The first chunk is kept, the others are spawned; after a failed spawn the loop
\* is left.
Split ==
    /\ pc = "split"
    /\ i < num_cores /\ cur < end
    /\ args' = [args EXCEPT ![i] = [at |-> cur, end |-> ChunkEnd]]
    /\ \/ i = 0 /\ i' = 1 /\ cur' = ChunkEnd /\ UNCHANGED <<pc, threads>>
       \/ /\ i > 0
          /\ threads' = threads \cup {i}
          /\ i' = i + 1 /\ cur' = ChunkEnd
          /\ UNCHANGED pc
       \/ i > 0 /\ pc' = "first" /\ UNCHANGED <<i, cur, threads>>
    /\ failed' = (pc' = "first")
    /\ UNCHANGED <<start, end, num_cores, runs>>

SplitEnds == /\ pc = "split"
             /\ ~(i < num_cores /\ cur < end)
             /\ pc' = "first"
             /\ UNCHANGED <<start, end, num_cores, i, cur, args, threads, failed, runs>>

\* One iteration of parallel_chunk_worker on chunk k.
Body(k) == /\ args[k].at < args[k].end
           /\ runs' = [runs EXCEPT ![args[k].at] = @ + 1]
           /\ args' = [args EXCEPT ![k].at = @ + 1]
           /\ UNCHANGED <<pc, start, end, num_cores, i, cur, threads, failed>>

Worker(k) == k \in threads /\ Body(k)
CallerBody == pc = "first" /\ Body(0)

CallerDone == /\ pc = "first"
              /\ args[0].at >= args[0].end
              /\ pc' = "join"
              /\ UNCHANGED <<start, end, num_cores, i, cur, args, threads, failed, runs>>

\* join(-1) and free, one spawned thread after the other in spawn order.
Join == /\ pc = "join"
        /\ \E k \in threads : /\ \A j \in threads : k <= j
                              /\ args[k].at >= args[k].end
                              /\ threads' = threads \ {k}
        /\ UNCHANGED <<pc, start, end, num_cores, i, cur, args, failed, runs>>

\* Variant: the caller waits for one completion per core.
Return_OnePerCore ==
    /\ pc = "join" /\ threads = {}
    /\ i >= num_cores
    /\ pc' = "returned"
    /\ UNCHANGED <<start, end, num_cores, i, cur, args, threads, failed, runs>>

Return == /\ pc = "join" /\ threads = {}
          /\ pc' = "returned"
          /\ UNCHANGED <<start, end, num_cores, i, cur, args, threads, failed, runs>>

Next == \/ ParallelFor \/ Split \/ SplitEnds \/ CallerBody \/ CallerDone \/ Join \/ Return
        \/ \E k \in Slots : Worker(k)

\* The body returns and every thread keeps being scheduled.
CallerStep == Split \/ SplitEnds \/ CallerBody \/ CallerDone \/ Join \/ Return
Spec == Init /\ [][Next]_vars
FairSpec == Spec /\ WF_vars(CallerStep)
                 /\ \A k \in Slots : WF_vars(Worker(k))

-----------------------------------------------------------------------------
\* Types of the loop's variables.
TypeOK == /\ pc \in {"idle", "split", "first", "join", "returned"}
          /\ start \in Int /\ end \in Int /\ cur \in Int
          /\ num_cores \in 1..MaxThreads /\ i \in 0..MaxThreads
          /\ args \in [Slots -> [at : Int, end : Int]]
          /\ threads \subseteq Slots /\ failed \in BOOLEAN
          /\ runs \in [Indices -> Nat]

\* "Execute body(i, ctx) for i in [start, end)": when the call returns every index
\* of the range has been run once, by whichever thread, and no thread is still
\* running one.  After a failed spawn this is so up to the chunk that could not be
\* handed out, and nothing is run of the rest.  Every variable is in its range.
AllIndicesRun ==
    /\ TypeOK
    /\ pc = "returned" =>
          /\ \A x \in Indices :
                runs[x] = IF x \in start..((IF failed THEN cur ELSE end) - 1) THEN 1 ELSE 0
          /\ threads = {}

\* The chunks that somebody runs, where each starts, and up to where they reach:
\* a small range is one chunk, a long one is cut from start to cur.
Chunks == IF i = 0 /\ pc # "split" THEN {0} ELSE 0..(i - 1)
ChunkStart(k) == IF k = 0 THEN start ELSE args[k - 1].end
Reach == IF i = 0 /\ pc # "split" THEN end ELSE cur

\* Why each index is run once (inductive, while the call runs): the chunks cover
\* start..Reach-1 in order without overlap, what was run is the done part of each
\* chunk, and a chunk whose thread is joined is done.
ChunksInv ==
    /\ <<start, end>> \in Ranges /\ start < end
    /\ cur = (IF i = 0 THEN start ELSE args[i - 1].end) /\ cur =< end
    /\ cur = end \/ cur = start + i * ChunkSize
    /\ \A k \in Chunks : /\ ChunkStart(k) =< args[k].at /\ args[k].at =< args[k].end
                         /\ start =< ChunkStart(k) /\ args[k].end =< Reach
    /\ \A k \in Chunks : \A j \in Chunks : k < j => args[k].end =< ChunkStart(j)
    /\ \A x \in start..(Reach - 1) : \E k \in Chunks : ChunkStart(k) =< x /\ x < args[k].end
    /\ \A x \in Indices :
          runs[x] = IF \E k \in Chunks : ChunkStart(k) =< x /\ x < args[k].at THEN 1 ELSE 0
    /\ threads \subseteq Chunks \ {0}
    /\ \A k \in Chunks \ (threads \cup {0}) : args[k].at = args[k].end
    /\ pc = "split" => i =< num_cores /\ ~failed
    /\ pc = "join" => args[0].at = args[0].end
    /\ pc # "split" => (failed /\ i > 0) \/ (~failed /\ Reach = end)
ParallelForInv ==
    /\ AllIndicesRun
    /\ pc = "idle" => i = 0 /\ threads = {} /\ ~failed /\ \A x \in Indices : runs[x] = 0
    /\ pc \in {"split", "first", "join"} => ChunksInv

\* The call returns.
ParallelForReturns == (pc # "idle") ~> (pc = "returned")
===============================================================================
