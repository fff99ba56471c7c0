----------------------------- MODULE ParallelPool -----------------------------
(***************************************************************************)
(* The thread pool behind `parallel for` and `parallel`: a caller writes   *)
(* the loop into global variables, wakes its workers through one condition *)
(* variable each, takes part in the loop and waits for the workers on the  *)
(* same condition variables.  A thread is a stack of activations, since    *)
(* the body of a loop may itself start one.  The pool is initialised, and  *)
(* what follows a pthread_mutex_lock up to the unlock is one step, as is   *)
(* the block that writes g_par_*: with one caller at a time nobody reads   *)
(* these variables then.                                                   *)
(***************************************************************************)
EXTENDS Integers, Sequences, SequencesExt

CONSTANTS Callers,           \* threads of the program
          g_workers_count,   \* size of the pool; place 0 is the caller's
          Jobs,              \* calls the program makes
          Kind,              \* Kind[j]: "for" or "invoke"
          Bounds,            \* Bounds[j]: <<start, end>>; 0..2 for an invoke
          Nested,            \* Nested[j]: the call made by j's body, or NoJob
          Script,            \* Script[c]: the calls caller c makes, in order
          NoJob,
          CHUNKS_PER_WORKER, \* 4
          MAX_CHUNK          \* 2048

\* The numbers of the worker threads.
Workers == 1..(g_workers_count - 1)

ParallelPoolAssumption ==
    /\ g_workers_count \in Nat \ {0}
    /\ Callers \cap Workers = {} /\ NoJob \notin Jobs
    /\ Kind \in [Jobs -> {"for", "invoke"}]
    /\ Bounds \in [Jobs -> Int \X Int]
    /\ Nested \in [Jobs -> Jobs \cup {NoJob}]
    /\ Script \in [Callers -> Seq(Jobs)]
    /\ CHUNKS_PER_WORKER \in Nat \ {0} /\ MAX_CHUNK \in Nat \ {0}

VARIABLES par,      \* g_par_cur, g_par_end, g_par_chunk, g_par_fn
          mode,     \* g_worker_mode: 0, 1 (loop) or 2 (task)
          task,     \* g_worker_tasks[w].task_fn
          ready,    \* g_worker_ready
          done,     \* g_worker_done
          region,   \* tls_in_parallel_region of each thread
          stack,    \* stack[t]: the activations of thread t, innermost last
          script,   \* script[c]: the calls c has still to make
          runs      \* history: runs[j][i], how often the body was called

vars == <<par, mode, task, ready, done, region, stack, script, runs>>

Threads == Callers \cup Workers
Start(j) == Bounds[j][1]
End(j) == Bounds[j][2]
Indices(j) == Start(j)..(End(j) - 1)

\* An activation: what it does next, for which call, the worker it is at,
\* the workers it uses, and the copies the dynamic loop works on.
Frame(pc, j) == [pc |-> pc, job |-> j, w |-> 1, num_w |-> 1,
                 fn |-> NoJob, end |-> 0, chunk |-> 1, at |-> 0, to |-> 0]

Init == /\ par = [cur |-> 0, end |-> 0, chunk |-> 1, fn |-> NoJob]
        /\ mode = [w \in Workers |-> 0]
        /\ task = [w \in Workers |-> NoJob]
        /\ ready = [w \in Workers |-> FALSE]
        /\ done = [w \in Workers |-> FALSE]
        /\ region = [t \in Threads |-> FALSE]
        /\ stack = [t \in Threads |-> IF t \in Workers THEN <<[Frame("wait", NoJob) EXCEPT !.w = t]>>
                                                       ELSE <<>>]
        /\ script = Script
        /\ runs = [j \in Jobs |-> [i \in Indices(j) |-> 0]]

At(t, pc) == stack[t] # <<>> /\ Last(stack[t]).pc = pc
Me(t) == Last(stack[t])
With(s, f) == Front(s) \o <<f>>
Become(t, f) == stack' = [stack EXCEPT ![t] = With(@, f)]
Goto(t, pc) == Become(t, [Me(t) EXCEPT !.pc = pc])

\* pthread_cond_signal on worker w's condition, by thread t, whose activation
\* becomes f: one of the threads that sleep on it, if any, goes back to its test.
Sleepers(w) == {u \in Threads : (At(u, "wait_zz") \/ At(u, "join_zz")) /\ Me(u).w = w}
Awake(f) == [f EXCEPT !.pc = IF @ = "wait_zz" THEN "wait" ELSE "join"]

Signal(w, t, f) ==
    IF Sleepers(w) = {} THEN Become(t, f)
    ELSE \E u \in Sleepers(w) :
            stack' = [stack EXCEPT ![t] = With(@, f), ![u] = With(@, Awake(Last(@)))]

(* --------------------------------- calls -------------------------------- *)

\* total / (num_w * 4), between 1 and 2048.
ChunkSize(total, n) ==
    LET c == total \div (n * CHUNKS_PER_WORKER)
    IN  IF c < 1 THEN 1 ELSE IF c > MAX_CHUNK THEN MAX_CHUNK ELSE c

\* Inside a parallel region of this thread, without workers, and for a loop of
\* one turn, the caller runs everything itself.
Sequential(t, j) ==
    region[t] \/ g_workers_count =< 1 \/ (Kind[j] = "for" /\ End(j) - Start(j) =< 1)

NumW(j) == IF Kind[j] = "invoke" THEN 2
           ELSE IF g_workers_count > End(j) - Start(j) THEN End(j) - Start(j) ELSE g_workers_count

\* The activation with which thread t enters call j.
Entry(t, j) ==
    IF Sequential(t, j)
    THEN [Frame("seq", j) EXCEPT !.fn = j, !.at = Start(j), !.to = End(j)]
    ELSE [Frame("publish", j) EXCEPT !.num_w = NumW(j)]

\* The program makes its next call.
Call(c) ==
    /\ stack[c] = <<>> /\ script[c] # <<>>
    /\ script' = [script EXCEPT ![c] = Tail(@)]
    /\ stack' = [stack EXCEPT ![c] = <<Entry(c, Head(script[c]))>>]
    /\ UNCHANGED <<par, mode, task, ready, done, region, runs>>

\* The loop is written to the global variables; a task to worker 1's.
Publish(t) ==
    /\ At(t, "publish")
    /\ LET j == Me(t).job
       IN  IF Kind[j] = "for"
           THEN /\ par' = [cur |-> Start(j), end |-> End(j), fn |-> j,
                           chunk |-> ChunkSize(End(j) - Start(j), NumW(j))]
                /\ UNCHANGED task
           ELSE task' = [task EXCEPT ![1] = j] /\ UNCHANGED par
    /\ region' = [region EXCEPT ![t] = TRUE]
    /\ Goto(t, "dispatch")
    /\ UNCHANGED <<mode, ready, done, script, runs>>

\* Variant: the answer of the previous call is not cleared.
Cleared_Keeps(w) == done

\* g_worker_done[w] = 0
Cleared(w) == [done EXCEPT ![w] = FALSE]

\* Worker w is given its mode and woken.
Dispatch(t) ==
    /\ At(t, "dispatch") /\ Me(t).w < Me(t).num_w
    /\ LET w == Me(t).w
       IN  /\ mode' = [mode EXCEPT ![w] = IF Kind[Me(t).job] = "for" THEN 1 ELSE 2]
           /\ ready' = [ready EXCEPT ![w] = TRUE]
           /\ done' = Cleared(w)
           /\ Signal(w, t, [Me(t) EXCEPT !.w = w + 1])
    /\ UNCHANGED <<par, task, region, script, runs>>

\* All are dispatched: the caller takes part in the loop, or runs fn2.
Dispatched(t) ==
    /\ At(t, "dispatch") /\ Me(t).w >= Me(t).num_w
    /\ IF Kind[Me(t).job] = "for" THEN Goto(t, "copy")
       ELSE Become(t, [Me(t) EXCEPT !.pc = "body", !.fn = Me(t).job, !.at = 1, !.to = 2])
    /\ UNCHANGED <<par, mode, task, ready, done, region, script, runs>>

(* ---------------------------- the dynamic loop --------------------------- *)

\* What an activation does after its part of the loop: a worker answers, a
\* caller joins.
AfterLoop(t) == IF Me(t).job = NoJob THEN [Me(t) EXCEPT !.pc = "answer"]
                ELSE [Me(t) EXCEPT !.pc = "join", !.w = 1]

\* datara_rt_run_dynamic_loop copies the global variables.
CopyLoop(t) ==
    /\ At(t, "copy")
    /\ Become(t, IF par.fn = NoJob THEN AfterLoop(t)
                 ELSE [Me(t) EXCEPT !.pc = "claim", !.fn = par.fn, !.end = par.end,
                                    !.chunk = par.chunk])
    /\ UNCHANGED <<par, mode, task, ready, done, region, script, runs>>

\* Variant: the chunk's last index is left for the next claim as well.
Claimed_OffByOne(chunk) == [par EXCEPT !.cur = @ + (IF chunk > 1 THEN chunk - 1 ELSE 1)]

\* fetch_and_add
Claimed(chunk) == [par EXCEPT !.cur = @ + chunk]

\* The next chunk, or the end of the loop.
Claim(t) ==
    /\ At(t, "claim")
    /\ LET my_start == par.cur
           my_end == IF my_start + Me(t).chunk > Me(t).end THEN Me(t).end
                     ELSE my_start + Me(t).chunk
       IN  Become(t, IF my_start >= Me(t).end THEN AfterLoop(t)
                     ELSE [Me(t) EXCEPT !.pc = "body", !.at = my_start, !.to = my_end])
    /\ par' = Claimed(Me(t).chunk)
    /\ UNCHANGED <<mode, task, ready, done, region, script, runs>>

\* One turn of the body, which may make a call of its own.
Body(t) ==
    /\ At(t, "body") \/ At(t, "seq")
    /\ Me(t).at < Me(t).to
    /\ LET f == Me(t)
           inner == Nested[f.fn]
           next == [f EXCEPT !.at = @ + 1]
       IN  /\ runs' = [runs EXCEPT ![f.fn][f.at] = @ + 1]
           /\ stack' = [stack EXCEPT ![t] =
                 IF inner = NoJob THEN With(@, next)
                 ELSE Append(With(@, next), Entry(t, inner))]
    /\ UNCHANGED <<par, mode, task, ready, done, region, script>>

\* The chunk is finished: the next one; fn1 or fn2 is finished: the end.
ChunkDone(t) ==
    /\ At(t, "body") /\ Me(t).at >= Me(t).to
    /\ IF Kind[Me(t).fn] = "for" THEN Goto(t, "claim") ELSE Become(t, AfterLoop(t))
    /\ UNCHANGED <<par, mode, task, ready, done, region, script, runs>>

SequentialDone(t) ==
    /\ At(t, "seq") /\ Me(t).at >= Me(t).to
    /\ stack' = [stack EXCEPT ![t] = Front(@)]
    /\ UNCHANGED <<par, mode, task, ready, done, region, script, runs>>

(* --------------------------------- waiting ------------------------------- *)

\* while (!g_worker_done[w]) pthread_cond_wait
Join(t) ==
    /\ At(t, "join") /\ Me(t).w < Me(t).num_w
    /\ Become(t, IF done[Me(t).w] THEN [Me(t) EXCEPT !.w = @ + 1]
                 ELSE [Me(t) EXCEPT !.pc = "join_zz"])
    /\ UNCHANGED <<par, mode, task, ready, done, region, script, runs>>

Return(t) ==
    /\ At(t, "join") /\ Me(t).w >= Me(t).num_w
    /\ region' = [region EXCEPT ![t] = FALSE]
    /\ stack' = [stack EXCEPT ![t] = Front(@)]
    /\ UNCHANGED <<par, mode, task, ready, done, script, runs>>

\* The worker's loop: while (!g_worker_ready[w]) pthread_cond_wait.  The mode
\* is read after the unlock, here with the copy of the loop.
WorkerWaits(w) ==
    /\ At(w, "wait")
    /\ IF ready[w] THEN Goto(w, "start") ELSE Goto(w, "wait_zz")
    /\ ready' = [ready EXCEPT ![w] = FALSE]
    /\ UNCHANGED <<par, mode, task, done, region, script, runs>>

WorkerStarts(w) ==
    /\ At(w, "start")
    /\ IF mode[w] = 1 THEN Goto(w, "copy")
       ELSE Become(w, [Me(w) EXCEPT !.pc = "body", !.fn = task[w], !.at = 0, !.to = 1])
    /\ UNCHANGED <<par, mode, task, ready, done, region, script, runs>>

\* Variant: the answer is stored without a signal.
Answer_NoSignal(w, f) == Become(w, f)

\* pthread_cond_signal
Answer(w, f) == Signal(w, w, f)

WorkerAnswers(w) ==
    /\ At(w, "answer")
    /\ done' = [done EXCEPT ![w] = TRUE]
    /\ Answer(w, [Frame("wait", NoJob) EXCEPT !.w = w])
    /\ UNCHANGED <<par, mode, task, ready, region, script, runs>>

\* pthread_cond_wait may return without a signal.
SpuriousWakeup(t) ==
    /\ At(t, "wait_zz") \/ At(t, "join_zz")
    /\ Become(t, Awake(Me(t)))
    /\ UNCHANGED <<par, mode, task, ready, done, region, script, runs>>

(* ----------------------------- specification ----------------------------- *)

InCall(t) == \/ Publish(t) \/ Dispatch(t) \/ Dispatched(t) \/ CopyLoop(t) \/ Claim(t)
             \/ Body(t) \/ ChunkDone(t) \/ SequentialDone(t) \/ Join(t) \/ Return(t)

Works(w) == WorkerWaits(w) \/ WorkerStarts(w) \/ WorkerAnswers(w)

Next == \/ \E c \in Callers : Call(c)
        \/ \E t \in Threads : InCall(t) \/ SpuriousWakeup(t)
        \/ \E w \in Workers : Works(w)

Spec == Init /\ [][Next]_vars

\* Every thread that can go on does, and every body ends.
FairSpec ==
    /\ Spec
    /\ \A t \in Threads : WF_vars(InCall(t))
    /\ \A w \in Workers : WF_vars(Works(w))

(* ------------------------------- properties ------------------------------ *)

\* Ranges of the variables.
TypeOK ==
    /\ par \in [cur : Int, end : Int, chunk : 1..MAX_CHUNK, fn : Jobs \cup {NoJob}]
    /\ mode \in [Workers -> 0..2] /\ task \in [Workers -> Jobs \cup {NoJob}]
    /\ ready \in [Workers -> BOOLEAN] /\ done \in [Workers -> BOOLEAN]
    /\ region \in [Threads -> BOOLEAN] /\ script \in [Callers -> Seq(Jobs)]
    /\ \A t \in Threads : \A k \in DOMAIN stack[t] : stack[t][k].w \in 1..g_workers_count

\* The job whose call ends in this step on the outermost level, if any.
Ends(c) == stack[c] # <<>> /\ stack'[c] = <<>>

\* "Execute ... and join before continuation": when a call returns to the
\* program, each of its indices has been run, and none twice.
EachIndexOnce ==
    [][\A c \in Callers : Ends(c) =>
          LET j == stack[c][1].job IN \A i \in Indices(j) : runs[j][i] = 1]_vars

\* Between two calls the pool is at rest: no worker has work, is at work, or
\* could still read the loop's variables.  At all times they are in range.
PoolAtRest ==
    /\ TypeOK
    /\ (\A c \in Callers : stack[c] = <<>>) =>
          \A w \in Workers : ~ready[w] /\ (At(w, "wait") \/ At(w, "wait_zz"))

\* A loop started by a body has one turn at most: a longer one, started by a worker,
\* would overwrite the loop it is part of.
NestedIsShort ==
    \A j \in Jobs : Nested[j] # NoJob =>
        Kind[Nested[j]] = "for" /\ End(Nested[j]) - Start(Nested[j]) =< 1

WorkerPcs == {"wait", "wait_zz", "start", "copy", "claim", "body", "answer"}
CallerPcs == {"seq", "publish", "dispatch", "copy", "claim", "body", "join", "join_zz"}
Frames == [pc : WorkerPcs \cup CallerPcs, job : Jobs \cup {NoJob}, w : 1..g_workers_count,
           num_w : 1..g_workers_count, fn : Jobs \cup {NoJob}, end : Int, chunk : Int, at : Int, to : Int]
Base(t) == stack[t][1]

\* The shape of the stacks: a call made by a body runs on its thread alone.
StackInv ==
    /\ stack \in [Threads -> Seq(Frames)]
    /\ \A t \in Threads : \A k \in DOMAIN stack[t] :
          /\ stack[t][k].pc \in {"seq", "body", "claim"} => stack[t][k].fn \in Jobs
          /\ k > 1 => stack[t][k].pc = "seq" /\ Base(t).pc \in {"seq", "body"}
    /\ \A w \in Workers : /\ stack[w] # <<>> /\ Base(w).pc \in WorkerPcs
                           /\ Base(w).w = w /\ Base(w).job = NoJob
    /\ \A c \in Callers : stack[c] # <<>> =>
          /\ Base(c).pc \in CallerPcs /\ Base(c).job \in Jobs /\ Base(c).w =< Base(c).num_w
          /\ Base(c).pc = "publish" => Base(c).num_w = NumW(Base(c).job) /\ Base(c).w = 1
          /\ Base(c).pc = "dispatch" /\ Kind[Base(c).job] # "for" =>
                Base(c).num_w = 2 /\ task[1] \in Jobs

\* Worker w has work or is at work; caller c has given it some and not joined it.
Busy(w) == ready[w] \/ Base(w).pc \notin {"wait", "wait_zz"}
Owed(c, w) ==
    /\ stack[c] # <<>>
    /\ \/ Base(c).pc = "dispatch" /\ w < Base(c).w
       \/ Base(c).pc \in {"copy", "claim", "body"} /\ w < Base(c).num_w
       \/ Base(c).pc \in {"join", "join_zz"} /\ Base(c).w =< w /\ w < Base(c).num_w

\* Why the pool comes to rest (inductive): a worker at work is owed to the caller,
\* and has not answered.
PoolInv ==
    /\ TypeOK /\ StackInv
    /\ \A w \in Workers :
          /\ Busy(w) => ~done[w] /\ mode[w] # 0 /\ \E c \in Callers : Owed(c, w)
          /\ ready[w] => Base(w).pc \in {"wait", "wait_zz"}
          /\ mode[w] = 2 => task[w] \in Jobs

\* A call returns.
CallsReturn == \A c \in Callers : (stack[c] # <<>>) ~> (stack[c] = <<>>)
===============================================================================
