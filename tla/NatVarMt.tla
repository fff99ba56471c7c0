------------------------------- MODULE NatVarMt -------------------------------
(***************************************************************************)
(* The multi-threaded fiber scheduler: clients spawn one-shot fibers into  *)
(* a global queue, worker threads take them, run them and record them in   *)
(* the registry that join and wait_idle poll.  A queue operation is one    *)
(* step (it holds the queue's lock from end to end); the counters that no  *)
(* lock protects are read and written one access at a time.  The queues of *)
(* the single workers are left out: nothing ever pushes to one.            *)
(***************************************************************************)
EXTENDS Integers, Sequences, FiniteSets, SequencesExt

CONSTANTS Clients,        \* threads that call the API (fiber bodies included)
          Threads,        \* the OS threads the runs of mt_start can create
          N,              \* n_workers
          MaxSpawn,       \* bound: fibers that are ever allocated
          MaxStarts,      \* bound: successful calls of mt_start
          MT_DONE_CAP     \* 1048576: the size of the registry

NatVarMtAssumption ==
    /\ Clients # {} /\ IsFiniteSet(Threads)
    /\ N \in 1..Cardinality(Threads)
    /\ {MaxSpawn, MaxStarts, MT_DONE_CAP} \subseteq Nat

VARIABLES workers,    \* g_mt_workers
          shutdown,   \* g_mt_shutdown
          starts,     \* history: the successful calls of mt_start
          spawned,    \* g_mt_spawned
          allocated,  \* history: the fibers malloc has returned, 1..allocated
          handle,     \* handle[f]: the fiber's handle, 0 before it has one
          freed,      \* the fibers given back to free
          queue,      \* g_global_q
          registry,   \* g_mt_done_handles, g_mt_done_count long
          done,       \* g_mt_done
          runs,       \* history: runs[f], how often f's body was run
          client,     \* client[c]: [pc, fiber, reg]
          given,      \* history: given[c], the <<fiber, handle>> spawn returned
          thread      \* thread[t]: [pc, fiber]

vars == <<workers, shutdown, starts, spawned, allocated, handle, freed, queue,
          registry, done, runs, client, given, thread>>

Fibers == 1..MaxSpawn
Handles == 1..MaxSpawn
Idle == [pc |-> "idle", fiber |-> 0, reg |-> 0]
NoThread == [pc |-> "none", fiber |-> 0]

Init == /\ workers = 0 /\ shutdown = FALSE /\ starts = 0
        /\ spawned = 0 /\ allocated = 0
        /\ handle = [f \in Fibers |-> 0] /\ freed = {}
        /\ queue = <<>> /\ registry = <<>> /\ done = 0
        /\ runs = [f \in Fibers |-> 0]
        /\ client = [c \in Clients |-> Idle]
        /\ given = [c \in Clients |-> {}]
        /\ thread = [t \in Threads |-> NoThread]

Is(c, pc) == client[c].pc = pc
Goto(c, pc) == client' = [client EXCEPT ![c].pc = pc]
Return(c) == client' = [client EXCEPT ![c] = Idle]

(* ------------------------- starting and stopping ------------------------ *)

\* A running scheduler is left alone.  Otherwise the queue is made empty,
\* whatever it held, the flag is cleared and N threads are created, whether
\* or not the threads of an earlier start have all ended.  One step: the
\* program starts its scheduler from one thread.
MtStart(c) ==
    /\ Is(c, "idle") /\ workers = 0 /\ starts < MaxStarts
    /\ \E new \in SUBSET {t \in Threads : thread[t] = NoThread} :
          /\ Cardinality(new) = N
          /\ thread' = [t \in Threads |-> IF t \in new THEN [pc |-> "top", fiber |-> 0]
                                                       ELSE thread[t]]
    /\ queue' = <<>> /\ shutdown' = FALSE /\ workers' = N /\ starts' = starts + 1
    /\ UNCHANGED <<spawned, allocated, handle, freed, registry, done, runs,
                   client, given>>

\* The flag is set, and the number of workers cleared after a sleep.  The
\* bound MaxStarts is also one on shutdowns: every shutdown is followed by a
\* start, and with MaxStarts = 1 the program never stops its scheduler.
MtShutdown(c) ==
    /\ Is(c, "idle") /\ workers # 0 /\ starts < MaxStarts
    /\ shutdown' = TRUE /\ Goto(c, "sleep")
    /\ UNCHANGED <<workers, starts, spawned, allocated, handle, freed, queue,
                   registry, done, runs, given, thread>>

ShutdownEnds(c) ==
    /\ Is(c, "sleep") /\ workers' = 0 /\ Return(c)
    /\ UNCHANGED <<shutdown, starts, spawned, allocated, handle, freed, queue,
                   registry, done, runs, given, thread>>

(* -------------------------------- spawn --------------------------------- *)

\* malloc, and the read half of ++g_mt_spawned.
SpawnLoads(c) ==
    /\ Is(c, "idle") /\ workers # 0 /\ allocated < MaxSpawn
    /\ allocated' = allocated + 1
    /\ client' = [client EXCEPT ![c] = [pc |-> "store", fiber |-> allocated + 1,
                                        reg |-> spawned]]
    /\ UNCHANGED <<workers, shutdown, starts, spawned, handle, freed, queue,
                   registry, done, runs, given, thread>>

\* The write half: the new count is the fiber's handle.
SpawnStores(c) ==
    /\ Is(c, "store")
    /\ spawned' = client[c].reg + 1
    /\ handle' = [handle EXCEPT ![client[c].fiber] = client[c].reg + 1]
    /\ Goto(c, "push")
    /\ UNCHANGED <<workers, shutdown, starts, allocated, freed, queue,
                   registry, done, runs, given, thread>>

SpawnPushes(c) ==
    /\ Is(c, "push")
    /\ queue' = Append(queue, client[c].fiber) /\ Goto(c, "ret")
    /\ UNCHANGED <<workers, shutdown, starts, spawned, allocated, handle, freed,
                   registry, done, runs, given, thread>>

\* What reading f->handle yields: anything once the worker has freed f.
ReadHandle(f) == IF f \in freed THEN {0} \cup Handles ELSE {handle[f]}

\* return f->handle, after the fiber was handed over.
SpawnReturns(c) ==
    /\ Is(c, "ret")
    /\ \E h \in ReadHandle(client[c].fiber) :
          given' = [given EXCEPT ![c] = @ \cup {<<client[c].fiber, h>>}]
    /\ Return(c)
    /\ UNCHANGED <<workers, shutdown, starts, spawned, allocated, handle, freed,
                   queue, registry, done, runs, thread>>

(* ------------------------------- waiting -------------------------------- *)

\* The program waits for a handle spawn gave it.
MtJoin(c) ==
    /\ Is(c, "idle")
    /\ \E g \in given[c] :
          client' = [client EXCEPT ![c] = [pc |-> "scan", fiber |-> 0, reg |-> g[2]]]
    /\ UNCHANGED <<workers, shutdown, starts, spawned, allocated, handle, freed,
                   queue, registry, done, runs, given, thread>>

\* Under the lock: a recorded handle answers 0.
JoinScans(c) ==
    /\ Is(c, "scan")
    /\ IF Contains(registry, client[c].reg) THEN Return(c) ELSE Goto(c, "test")
    /\ UNCHANGED <<workers, shutdown, starts, spawned, allocated, handle, freed,
                   queue, registry, done, runs, given, thread>>

\* Variant: the test that gives up is left out.
JoinGivesUp_Never == FALSE

\* No fiber is outstanding: the handle is not going to appear.
JoinGivesUp == Len(registry) >= spawned /\ spawned > 0

\* After the lock was released: answer -1, or sleep and scan again.
JoinTests(c) ==
    /\ Is(c, "test")
    /\ IF JoinGivesUp THEN Return(c) ELSE Goto(c, "scan")
    /\ UNCHANGED <<workers, shutdown, starts, spawned, allocated, handle, freed,
                   queue, registry, done, runs, given, thread>>

\* wait_idle reads the length of the registry under the lock.
WaitIdle(c) ==
    /\ \/ Is(c, "idle")
       \/ Is(c, "wait")
    /\ client' = [client EXCEPT ![c] = [pc |-> "idle?", fiber |-> 0,
                                        reg |-> Len(registry)]]
    /\ UNCHANGED <<workers, shutdown, starts, spawned, allocated, handle, freed,
                   queue, registry, done, runs, given, thread>>

\* Variant: one fiber may still be missing.
AllRecorded_OffByOne(n) == n + 1 >= spawned

\* Variant: one more record than fibers is waited for.
AllRecorded_Strict(n) == n > spawned \/ spawned = 0

\* done >= g_mt_spawned, or nothing was ever spawned.
AllRecorded(n) == (spawned > 0 /\ n >= spawned) \/ spawned = 0

WaitTests(c) ==
    /\ Is(c, "idle?")
    /\ IF AllRecorded(client[c].reg) THEN Return(c) ELSE Goto(c, "wait")
    /\ UNCHANGED <<workers, shutdown, starts, spawned, allocated, handle, freed,
                   queue, registry, done, runs, given, thread>>

(* ------------------------------- workers -------------------------------- *)

\* if (g_mt_shutdown) break
WorkerTop(t) ==
    /\ thread[t].pc = "top"
    /\ thread' = [thread EXCEPT ![t] = IF shutdown THEN NoThread ELSE [@ EXCEPT !.pc = "pop"]]
    /\ UNCHANGED <<workers, shutdown, starts, spawned, allocated, handle, freed,
                   queue, registry, done, runs, client, given>>

\* Variant: the head is read but stays in the queue.
Popped_Keeps == queue

\* The queue without its head.
Popped == Tail(queue)

\* mtq_pop(&g_global_q), or nothing to do.
WorkerPops(t) ==
    /\ thread[t].pc = "pop"
    /\ IF queue = <<>>
       THEN thread' = [thread EXCEPT ![t].pc = "top"] /\ UNCHANGED queue
       ELSE /\ thread' = [thread EXCEPT ![t] = [pc |-> "run", fiber |-> Head(queue)]]
            /\ queue' = Popped
    /\ UNCHANGED <<workers, shutdown, starts, spawned, allocated, handle, freed,
                   registry, done, runs, client, given>>

\* f->fn(f->arg)
WorkerRuns(t) ==
    /\ thread[t].pc = "run"
    /\ runs' = [runs EXCEPT ![thread[t].fiber] = @ + 1]
    /\ thread' = [thread EXCEPT ![t].pc = "record"]
    /\ UNCHANGED <<workers, shutdown, starts, spawned, allocated, handle, freed,
                   queue, registry, done, client, given>>

\* Variant: a fiber whose scheduler is being shut down is not recorded.
Recorded_UnlessShutdown(h) == IF shutdown THEN registry ELSE Append(registry, h)

\* A full registry drops the handle.
Recorded(h) == IF Len(registry) < MT_DONE_CAP THEN Append(registry, h) ELSE registry

\* Under the lock.
WorkerRecords(t) ==
    /\ thread[t].pc = "record"
    /\ registry' = Recorded(handle[thread[t].fiber])
    /\ done' = done + 1
    /\ thread' = [thread EXCEPT ![t].pc = "free"]
    /\ UNCHANGED <<workers, shutdown, starts, spawned, allocated, handle, freed,
                   queue, runs, client, given>>

WorkerFrees(t) ==
    /\ thread[t].pc = "free"
    /\ freed' = freed \cup {thread[t].fiber}
    /\ thread' = [thread EXCEPT ![t] = [pc |-> "top", fiber |-> 0]]
    /\ UNCHANGED <<workers, shutdown, starts, spawned, allocated, handle, queue,
                   registry, done, runs, client, given>>

(* ---------------------------- specification ----------------------------- *)

ClientGoesOn(c) ==
    \/ ShutdownEnds(c)
    \/ SpawnStores(c) \/ SpawnPushes(c) \/ SpawnReturns(c)
    \/ JoinScans(c) \/ JoinTests(c)
    \/ (Is(c, "wait") /\ WaitIdle(c)) \/ WaitTests(c)

ClientCalls(c) == MtStart(c) \/ MtShutdown(c) \/ SpawnLoads(c) \/ MtJoin(c) \/ WaitIdle(c)

Worker(t) == WorkerTop(t) \/ WorkerPops(t) \/ WorkerRuns(t) \/ WorkerRecords(t) \/ WorkerFrees(t)

Next == \/ \E c \in Clients : ClientCalls(c) \/ ClientGoesOn(c)
        \/ \E t \in Threads : Worker(t)

Spec == Init /\ [][Next]_vars

\* The operating system runs every thread, a call that was made goes on, and
\* a fiber's body ends.
FairSpec ==
    /\ Spec
    /\ \A c \in Clients : WF_vars(ClientGoesOn(c))
    /\ \A t \in Threads : WF_vars(Worker(t))

(* ------------------------------ properties ------------------------------ *)

\* Ranges of the variables.
TypeOK ==
    /\ workers \in {0, N} /\ shutdown \in BOOLEAN /\ starts \in 0..MaxStarts
    /\ spawned \in 0..MaxSpawn /\ allocated \in 0..MaxSpawn
    /\ handle \in [Fibers -> 0..MaxSpawn] /\ freed \subseteq Fibers
    /\ queue \in Seq(Fibers) /\ registry \in Seq(Handles)
    /\ done \in 0..MaxSpawn /\ runs \in [Fibers -> 0..MaxSpawn]
    /\ \A c \in Clients : client[c].fiber \in 0..MaxSpawn
    /\ \A t \in Threads : thread[t].fiber \in 0..MaxSpawn

Holding(f) == {t \in Threads : thread[t].fiber = f}
Waiting(c) == client[c].pc \in {"idle?", "wait"}
Joining(c) == client[c].pc \in {"scan", "test"}

\* "Every slot written exactly once by its own task": a body is run at most
\* once, a fiber has one owner at a time (the queue or one worker), and it is
\* freed by the last one, whatever starts and shutdowns come between.
RunOnce ==
    \A f \in Fibers :
       /\ runs[f] =< 1
       /\ Cardinality(Holding(f)) + Cardinality({k \in DOMAIN queue : queue[k] = f}) =< 1
       /\ f \in freed => runs[f] = 1 /\ Holding(f) = {} /\ ~Contains(queue, f)

\* g_mt_done, which the program can read, counts the fibers that have run and
\* are recorded; the registry is as long until it is full.  And every variable
\* is in its range.
DoneCountExact ==
    /\ TypeOK
    /\ done = Cardinality({f \in Fibers : runs[f] > 0})
              - Cardinality({t \in Threads : thread[t].pc = "record"})
    /\ Len(registry) = IF done < MT_DONE_CAP THEN done ELSE MT_DONE_CAP

\* wait_idle returns only when every fiber that has its handle has run.
WaitIdleSound ==
    [][\A c \in Clients : Is(c, "idle?") /\ Is(c, "idle")' =>
          \A f \in Fibers : handle[f] # 0 => runs[f] = 1]_vars

\* The first start, and nobody has stopped the scheduler yet: a restart forgets
\* what is in the queue.
FirstStart == starts = 1 /\ ~shutdown

\* A client inside wait_idle returns: its fibers are run and recorded.
WaitIdleReturns == \A c \in Clients : Waiting(c) /\ FirstStart ~> ~Waiting(c)

\* A client inside mt_join returns, also with a handle that is not one.
JoinsReturn == \A c \in Clients : Joining(c) /\ FirstStart ~> ~Joining(c)

(***************************************************************************)
(* The inductive invariant behind RunOnce and DoneCountExact: a fiber that *)
(* was allocated is with the client that spawns it, in the queue, with one *)
(* worker, freed, or was forgotten by a restart, and its run count says so.*)
(***************************************************************************)

\* The client still has the fiber to itself.
InHand(c) == client[c].pc \in {"store", "push"}

\* The worker has taken a fiber.
Busy(t) == thread[t].pc \in {"run", "record", "free"}

ClientStates == [pc : {"idle", "sleep", "store", "push", "ret", "scan", "test", "idle?", "wait"},
                 fiber : 0..MaxSpawn, reg : 0..MaxSpawn]
ThreadStates == [pc : {"none", "top", "pop", "run", "record", "free"}, fiber : 0..MaxSpawn]

\* A client that spawns has a fiber nobody knows of; the handle it is about to
\* store is at most its fiber's number, whatever other clients do in between.
ClientOK(c) ==
    /\ client[c].pc = "ret" => client[c].fiber \in Fibers
    /\ InHand(c) => /\ client[c].fiber \in 1..allocated
                    /\ runs[client[c].fiber] = 0 /\ client[c].fiber \notin freed
    /\ client[c].pc = "store" => client[c].reg < client[c].fiber
    /\ client[c].pc = "push" => handle[client[c].fiber] \in Handles

\* A worker holds a fiber exactly from the pop to the free.
ThreadOK(t) ==
    IF Busy(t)
    THEN /\ thread[t].fiber \in 1..allocated /\ thread[t].fiber \notin freed
         /\ handle[thread[t].fiber] \in Handles
         /\ runs[thread[t].fiber] = IF thread[t].pc = "run" THEN 0 ELSE 1
    ELSE thread[t].fiber = 0

\* A queued fiber waits for its first run.
QueuedOK(k) == /\ queue[k] \in 1..allocated /\ queue[k] \notin freed
               /\ handle[queue[k]] \in Handles /\ runs[queue[k]] = 0

\* No two of clients, places of the queue and workers have the same fiber.
OneOwner ==
    /\ \A c, d \in Clients : InHand(c) /\ InHand(d) /\ client[c].fiber = client[d].fiber => c = d
    /\ \A t, u \in Threads : Busy(t) /\ Busy(u) /\ thread[t].fiber = thread[u].fiber => t = u
    /\ \A k, l \in 1..Len(queue) : queue[k] = queue[l] => k = l
    /\ \A c \in Clients, t \in Threads : InHand(c) /\ Busy(t) => client[c].fiber # thread[t].fiber
    /\ \A k \in 1..Len(queue) :
          /\ \A c \in Clients : InHand(c) => client[c].fiber # queue[k]
          /\ \A t \in Threads : Busy(t) => thread[t].fiber # queue[k]

\* Everything together, with the counters.
MtInv ==
    /\ DoneCountExact
    /\ client \in [Clients -> ClientStates] /\ thread \in [Threads -> ThreadStates]
    /\ given \in [Clients -> SUBSET (Fibers \X (0..MaxSpawn))]
    /\ spawned =< allocated
    /\ \A c \in Clients : ClientOK(c)
    /\ \A t \in Threads : ThreadOK(t)
    /\ \A k \in 1..Len(queue) : QueuedOK(k)
    /\ \A f \in freed : f \in 1..allocated /\ runs[f] = 1
    /\ \A f \in Fibers : runs[f] \in {0, 1} /\ (f > allocated => runs[f] = 0)
    /\ OneOwner

(* Said in the repository, not kept by the code: see the README, "What the   *)
(* code does not guarantee", for the constants that show it.                *)

\* mt_join answers -1, by the way of JoinTests, only for a handle that is not
\* in the registry at that moment.
JoinFindsTheDone ==
    [][\A c \in Clients : Is(c, "test") /\ Is(c, "idle")' =>
          ~Contains(registry, client[c].reg)]_vars

\* mt_spawn returns the handle of the fiber it has spawned.
SpawnReturnsItsHandle ==
    \A c \in Clients : \A g \in given[c] : g[2] = handle[g[1]]

\* There are never more than N worker threads.
WorkersBounded == Cardinality({t \in Threads : thread[t] # NoThread}) =< N
===============================================================================
