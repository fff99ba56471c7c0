-------------------------------- MODULE NatVar --------------------------------
(***************************************************************************)
(* The single-threaded fiber scheduler of datara_natvar.c: fibers, the     *)
(* ready queue, sleeping fibers, joins, cooperative mutexes with timeouts, *)
(* socket waits and the run_until_done loop.  Channels are added by        *)
(* NatVarChan.                                                             *)
(*                                                                         *)
(* Fibers are cooperative: a call runs without interruption up to the      *)
(* switch back to the scheduler, and is one step.  The fibers' programs    *)
(* are arbitrary (any running fiber may make any call), except that a      *)
(* mutex is unlocked only by a caller that was told it holds it.  The      *)
(* clock (now) moves by itself, between any two steps.  Fields that the    *)
(* code leaves stale after a wait and writes again before the next use     *)
(* (until, wait_on, wake_result) are cleared when the wait ends.           *)
(***************************************************************************)
EXTENDS Integers, Sequences, FiniteSets, SequencesExt

CONSTANTS FIBER_MAX,       \* fibers ever spawned between two resets
          TIMER_MAX,       \* capacity of the sleeping and join arrays
          NATVAR_IO_MAX,   \* capacity of the socket wait list
          NATVAR_MUTEX_MAX, \* mutexes
          WAITERS_MAX,     \* waiters per mutex
          Sockets,         \* sockets the program reads
          Posix,           \* TRUE: contexts are switched with ucontext, FALSE: Windows fibers
          Delays,          \* sleep times, in ms
          Timeouts,        \* lock and receive timeouts, in ms (0: wait for ever)
          MaxTime          \* bound on the clock

NatVarAssumption ==
    /\ FIBER_MAX \in Nat /\ TIMER_MAX \in Nat /\ NATVAR_IO_MAX \in Nat
    /\ NATVAR_MUTEX_MAX \in Nat /\ WAITERS_MAX \in Nat /\ MaxTime \in Nat
    /\ Delays \subseteq Nat /\ Timeouts \subseteq Nat /\ Posix \in BOOLEAN

VARIABLES g_fiber_count, \* spawned fibers; their handles are 1..g_fiber_count
          state,         \* state[f], a FiberState
          until,         \* wake_ms of a sleeper, wait_deadline of a waiter (0: none)
          wait_on,       \* what a waiting fiber waits for: a handle, mutex or socket
          wake_result,   \* why a lock call was resumed: 1 granted, 0 timeout
          call,          \* the blocking call fiber f is inside of, or "body"
          timeout_ms,    \* the timeout argument of the receive f is inside of
          ready,         \* the ready queue, g_ready_head first
          running,       \* g_running: the running fiber, 0 for main and scheduler
          sleeping,      \* g_sleeping
          joining,       \* g_waiting_join
          io_waiters,    \* g_io_waiters, in order of registration
          mutex,         \* g_mutexes: [locked, owner, waiters]
          g_mutex_count,
          g_done_count,
          sched,         \* what the scheduler thread is doing
          driver,        \* the loop a fiber switches back to
          scan,          \* position of a poll over io_waiters or mutex waiters
          last_now,      \* run_until_done's copy of the clock
          now,           \* now_ms_real()
          readable,      \* sockets with something to receive
          context,       \* POSIX: the fiber in whose code the saved context of f goes on,
                         \* 0 before f has run
          posix_self,    \* POSIX: g_posix_self, the last fiber whose trampoline started
          holders        \* history: holders[m] was told "locked" and has not unlocked

fiberVars == <<g_fiber_count, state, until, wait_on, wake_result, call, timeout_ms>>
queueVars == <<ready, running, sleeping, joining, io_waiters, g_done_count>>
mutexVars == <<mutex, g_mutex_count, holders>>
loopVars == <<sched, driver, scan, last_now>>
envVars == <<now, readable>>
ctxVars == <<context, posix_self>>
vars == <<fiberVars, queueVars, mutexVars, loopVars, envVars, ctxVars>>

Fibers == 1..FIBER_MAX
Mutexes == 1..NATVAR_MUTEX_MAX
Main == 0
FiberStates == {"NONE", "READY", "RUNNING", "DONE", "SLEEPING", "WAITING_JOIN",
                "WAITING_CHAN", "WAITING_IO", "WAITING_MUTEX"}
NoScan == [at |-> 0, mutex |-> 0, fds |-> {}, woken |-> FALSE]

Spawned == 1..g_fiber_count
Queued(q) == {q[i] : i \in 1..Len(q)}

Init == /\ g_fiber_count = 0
        /\ state = [f \in Fibers |-> "NONE"]
        /\ until = [f \in Fibers |-> 0]
        /\ wait_on = [f \in Fibers |-> 0]
        /\ wake_result = [f \in Fibers |-> -1]
        /\ call = [f \in Fibers |-> "body"]
        /\ timeout_ms = [f \in Fibers |-> 0]
        /\ ready = <<>> /\ running = 0 /\ sleeping = {} /\ joining = {}
        /\ io_waiters = <<>> /\ g_done_count = 0
        /\ mutex = [m \in Mutexes |-> [locked |-> FALSE, owner |-> 0, waiters |-> <<>>]]
        /\ g_mutex_count = 0 /\ holders = [m \in Mutexes |-> {}]
        /\ sched = "main" /\ driver = "loop" /\ scan = NoScan /\ last_now = 0
        /\ now = 0 /\ readable = {}
        /\ context = [f \in Fibers |-> 0] /\ posix_self = 0

-----------------------------------------------------------------------------
(***************************************************************************)
(* Environment                                                             *)
(***************************************************************************)
Tick == /\ now < MaxTime
        /\ now' = now + 1
        /\ UNCHANGED <<fiberVars, queueVars, mutexVars, loopVars, readable, ctxVars>>

DataArrives(s) == /\ s \notin readable
                  /\ readable' = readable \cup {s}
                  /\ UNCHANGED <<fiberVars, queueVars, mutexVars, loopVars, now, ctxVars>>

-----------------------------------------------------------------------------
(***************************************************************************)
(* The scheduler loop                                                      *)
(***************************************************************************)

\* The saved context of f is its own.  Windows keeps the contexts itself.
OwnContext(f) == context[f] \in {0, f}

\* The first switch to f starts posix_tramp, which notes f in a static.
StartsTrampoline(f) ==
    IF Posix /\ context[f] = 0
    THEN context' = [context EXCEPT ![f] = f] /\ posix_self' = f
    ELSE UNCHANGED ctxVars

\* fiber_switch_to the head of the queue; st is the state after promotions.  A
\* context that was saved at the end of another fiber's trampoline returns from
\* it, and without a uc_link that ends the process.
SwitchTo(st, queue) ==
    /\ queue # <<>>
    /\ ready' = Tail(queue)
    /\ running' = Head(queue)
    /\ state' = [st EXCEPT ![Head(queue)] = "RUNNING"]
    /\ sched' = IF OwnContext(Head(queue)) THEN "fiber" ELSE "exited"
    /\ StartsTrampoline(Head(queue))

\* The scan of timer_pop_due: the due sleepers, and the earliest of them.  Which
\* of several sleepers with the same deadline is taken is left open (the array
\* order the swap-removals leave behind).
Due(t) == {f \in sleeping : state[f] = "SLEEPING" /\ until[f] <= t}

\* Variant: the first one scanned instead of the earliest.
Earliest_AnyDue(t) == Due(t)

Earliest(t) == {f \in Due(t) : \A g \in Due(t) : until[f] <= until[g]}

RunUntilDone == /\ sched = "main"
                /\ g_fiber_count > 0
                /\ sched' = "loop"
                /\ driver' = "loop"
                /\ last_now' = now
                /\ UNCHANGED <<fiberVars, queueVars, mutexVars, scan, envVars, ctxVars>>

\* Variant: sleepers are looked at only when the ready queue is empty.
LoopDispatch_NoPromotion ==
    /\ sched = "loop"
    /\ \/ \E f \in Earliest(last_now) :
             /\ ready = <<>>
             /\ sleeping' = sleeping \ {f}
             /\ SwitchTo([state EXCEPT ![f] = "READY"], Append(ready, f))
       \/ UNCHANGED sleeping /\ SwitchTo(state, ready)
    /\ UNCHANGED <<g_fiber_count, timeout_ms, until, wait_on, wake_result, call, joining, io_waiters,
                   g_done_count, mutexVars, driver, scan, last_now, envVars>>

\* One pass of the loop that finds a fiber to run: promote the earliest due
\* sleeper to the ready queue, then run the head of the queue.
LoopDispatch ==
    /\ sched = "loop"
    /\ \/ \E f \in Earliest(last_now) :
             /\ sleeping' = sleeping \ {f}
             /\ SwitchTo([state EXCEPT ![f] = "READY"], Append(ready, f))
       \/ /\ Due(last_now) = {}
          /\ UNCHANGED sleeping
          /\ SwitchTo(state, ready)
    /\ UNCHANGED <<g_fiber_count, timeout_ms, until, wait_on, wake_result, call, joining, io_waiters,
                   g_done_count, mutexVars, driver, scan, last_now, envVars>>

NothingReady == sched = "loop" /\ ready = <<>> /\ Due(last_now) = {}

LoopAllDone == /\ NothingReady
               /\ g_done_count >= g_fiber_count
               /\ sched' = "main"
               /\ UNCHANGED <<fiberVars, queueVars, mutexVars, driver, scan, last_now, envVars, ctxVars>>

\* io_wait_poll_and_wake: select() over the parked sockets; with none readable
\* it returns at once and no deadline is looked at.
LoopPollIo ==
    /\ NothingReady
    /\ g_done_count < g_fiber_count
    /\ io_waiters # <<>>
    /\ LET fds == readable \cap {wait_on[f] : f \in Queued(io_waiters)}
       IN  IF fds = {}
           THEN last_now' = now /\ UNCHANGED <<sched, scan>>
           ELSE /\ sched' = "io"
                /\ scan' = [NoScan EXCEPT !.at = 1, !.fds = fds]
                /\ UNCHANGED last_now
    /\ UNCHANGED <<fiberVars, queueVars, mutexVars, driver, envVars, ctxVars>>

Expired(f) == until[f] > 0 /\ now >= until[f]

ReadyPush(f) == ready' = Append(ready, f)

\* One waiter of the scan: woken when its socket was readable or its deadline
\* has passed, kept otherwise.
IoScan ==
    /\ sched = "io"
    /\ scan.at <= Len(io_waiters)
    /\ LET f == io_waiters[scan.at]
       IN  \/ /\ wait_on[f] \in scan.fds \/ Expired(f)
              /\ state' = [state EXCEPT ![f] = "READY"]
              /\ until' = [until EXCEPT ![f] = 0]
              /\ ReadyPush(f)
              /\ io_waiters' = RemoveAt(io_waiters, scan.at)
              /\ UNCHANGED scan
           \/ /\ wait_on[f] \notin scan.fds /\ ~Expired(f)
              /\ scan' = [scan EXCEPT !.at = @ + 1]
              /\ UNCHANGED <<state, until, ready, io_waiters>>
    /\ UNCHANGED <<g_fiber_count, timeout_ms, wait_on, wake_result, call, running, sleeping, joining,
                   g_done_count, mutexVars, sched, driver, last_now, envVars, ctxVars>>

IoScanEnd == /\ sched = "io"
             /\ scan.at > Len(io_waiters)
             /\ sched' = "loop"
             /\ last_now' = now
             /\ scan' = NoScan
             /\ UNCHANGED <<fiberVars, queueVars, mutexVars, driver, envVars, ctxVars>>

\* Variant: the halt is decided without looking at the socket waiters.
NothingToPoll_IgnoresSockets == NothingReady /\ g_done_count < g_fiber_count

NothingToPoll == NothingReady /\ g_done_count < g_fiber_count /\ io_waiters = <<>>

\* mutex_wait_poll_and_wake starts: waiters of every mutex, in order.
LoopPollMutexes ==
    /\ NothingToPoll
    /\ g_mutex_count > 0
    /\ sched' = "mutex"
    /\ scan' = [NoScan EXCEPT !.at = 1, !.mutex = 1]
    /\ UNCHANGED <<fiberVars, queueVars, mutexVars, driver, last_now, envVars, ctxVars>>

\* Variant: the timed-out fiber is woken but stays in the wait list.
MutexScan_KeepsWaiter ==
    /\ sched = "mutex"
    /\ scan.mutex <= g_mutex_count
    /\ scan.at <= Len(mutex[scan.mutex].waiters)
    /\ LET f == mutex[scan.mutex].waiters[scan.at]
       IN  \/ /\ Expired(f)
              /\ state[f] = "WAITING_MUTEX"
              /\ state' = [state EXCEPT ![f] = "READY"]
              /\ wake_result' = [wake_result EXCEPT ![f] = 0]
              /\ ReadyPush(f)
              /\ scan' = [scan EXCEPT !.woken = TRUE, !.at = @ + 1]
           \/ /\ ~Expired(f)
              /\ scan' = [scan EXCEPT !.at = @ + 1]
              /\ UNCHANGED <<state, wake_result, ready>>
    /\ UNCHANGED <<g_fiber_count, timeout_ms, until, wait_on, call, running, sleeping, joining, io_waiters,
                   g_done_count, mutex, g_mutex_count, holders, sched, driver, last_now, envVars, ctxVars>>

\* One waiter of the scan: a waiter past its deadline leaves the wait list with
\* the timeout result.
MutexScan ==
    /\ sched = "mutex"
    /\ scan.mutex <= g_mutex_count
    /\ scan.at <= Len(mutex[scan.mutex].waiters)
    /\ LET f == mutex[scan.mutex].waiters[scan.at]
       IN  \/ /\ Expired(f)
              /\ state' = [state EXCEPT ![f] = "READY"]
              /\ until' = [until EXCEPT ![f] = 0]
              /\ wake_result' = [wake_result EXCEPT ![f] = 0]
              /\ ReadyPush(f)
              /\ mutex' = [mutex EXCEPT ![scan.mutex].waiters = RemoveAt(@, scan.at)]
              /\ scan' = [scan EXCEPT !.woken = TRUE]
           \/ /\ ~Expired(f)
              /\ scan' = [scan EXCEPT !.at = @ + 1]
              /\ UNCHANGED <<state, until, wake_result, ready, mutex>>
    /\ UNCHANGED <<g_fiber_count, timeout_ms, wait_on, call, running, sleeping, joining, io_waiters,
                   g_done_count, g_mutex_count, holders, sched, driver, last_now, envVars, ctxVars>>

MutexScanNext ==
    /\ sched = "mutex"
    /\ scan.mutex <= g_mutex_count
    /\ scan.at > Len(mutex[scan.mutex].waiters)
    /\ scan' = [scan EXCEPT !.mutex = @ + 1, !.at = 1]
    /\ UNCHANGED <<fiberVars, queueVars, mutexVars, sched, driver, last_now, envVars, ctxVars>>

\* Nothing was woken: go round again while somebody sleeps (the wait to the next
\* wake-up is no longer than it takes the clock to get there), otherwise report
\* the deadlock and leave the loop.
WaitForSleeperOrHalt ==
    /\ last_now' = now
    /\ sched' = IF \E f \in sleeping : state[f] = "SLEEPING" THEN "loop" ELSE "main"

MutexScanEnd ==
    /\ sched = "mutex"
    /\ scan.mutex > g_mutex_count
    /\ scan' = NoScan
    /\ IF scan.woken THEN sched' = "loop" /\ last_now' = now ELSE WaitForSleeperOrHalt
    /\ UNCHANGED <<fiberVars, queueVars, mutexVars, driver, envVars, ctxVars>>

LoopNoMutexes ==
    /\ NothingToPoll
    /\ g_mutex_count = 0
    /\ WaitForSleeperOrHalt
    /\ UNCHANGED <<fiberVars, queueVars, mutexVars, driver, scan, envVars, ctxVars>>

-----------------------------------------------------------------------------
(***************************************************************************)
(* Calls of the program.  The caller is the running fiber, or main         *)
(* (running = 0) when no scheduler loop is active.                         *)
(***************************************************************************)
\* The running fiber is in its own code, or resumes the named call.
Inside(c) == sched = "fiber" /\ call[running] = c
InFiber == Inside("body")

InProgram == \/ sched = "main" /\ running = Main
             \/ InFiber

\* The switch back to the loop that dispatched the fiber.
SwitchBack == /\ running' = Main
              /\ sched' = driver
              /\ last_now' = IF driver = "loop" THEN now ELSE last_now
              /\ UNCHANGED <<driver, scan, envVars>>

FiberSpawn ==
    /\ InProgram
    /\ g_fiber_count < FIBER_MAX
    /\ g_fiber_count' = g_fiber_count + 1
    /\ state' = [state EXCEPT ![g_fiber_count + 1] = "READY"]
    /\ ReadyPush(g_fiber_count + 1)
    /\ UNCHANGED <<until, wait_on, wake_result, call, timeout_ms, running, sleeping, joining, io_waiters,
                   g_done_count, mutexVars, loopVars, envVars, ctxVars>>

\* fiber_trampoline_entry after the body returned: nobody is woken.  posix_tramp
\* then saves the finished fiber's context through the static, and so into the
\* fiber that started last.
FiberFinish ==
    /\ InFiber
    /\ state' = [state EXCEPT ![running] = "DONE"]
    /\ g_done_count' = g_done_count + 1
    /\ context' = IF Posix THEN [context EXCEPT ![posix_self] = running] ELSE context
    /\ SwitchBack
    /\ UNCHANGED <<g_fiber_count, timeout_ms, until, wait_on, wake_result, call, ready, sleeping, joining,
                   io_waiters, mutexVars, posix_self>>

\* Variant: the yielding fiber goes to the front of the queue.
FiberYield_Front ==
    /\ InFiber
    /\ state' = [state EXCEPT ![running] = "READY"]
    /\ ready' = <<running>> \o ready
    /\ SwitchBack
    /\ UNCHANGED <<g_fiber_count, timeout_ms, until, wait_on, wake_result, call, sleeping, joining,
                   io_waiters, g_done_count, mutexVars, ctxVars>>

FiberYield ==
    /\ InFiber
    /\ state' = [state EXCEPT ![running] = "READY"]
    /\ ReadyPush(running)
    /\ SwitchBack
    /\ UNCHANGED <<g_fiber_count, timeout_ms, until, wait_on, wake_result, call, sleeping, joining,
                   io_waiters, g_done_count, mutexVars, ctxVars>>

\* timer_add silently drops a fiber that does not fit.
Registered(set, f) == IF Cardinality(set) < TIMER_MAX THEN set \cup {f} ELSE set

FiberSleep(ms) ==
    /\ InFiber
    /\ now + ms <= MaxTime
    /\ state' = [state EXCEPT ![running] = "SLEEPING"]
    /\ until' = [until EXCEPT ![running] = now + ms]
    /\ sleeping' = Registered(sleeping, running)
    /\ SwitchBack
    /\ UNCHANGED <<g_fiber_count, timeout_ms, wait_on, wake_result, call, ready, joining, io_waiters,
                   g_done_count, mutexVars, ctxVars>>

\* fiber_join inside a fiber: park while the target is not done (again after
\* every resumption).  Joining a finished or unknown fiber, or from main, changes
\* nothing.
FiberJoin(h) ==
    /\ InFiber \/ (Inside("join") /\ wait_on[running] = h)
    /\ IF h \in Spawned /\ state[h] # "DONE"
       THEN /\ state' = [state EXCEPT ![running] = "WAITING_JOIN"]
            /\ wait_on' = [wait_on EXCEPT ![running] = h]
            /\ call' = [call EXCEPT ![running] = "join"]
            /\ joining' = Registered(joining, running)
            /\ SwitchBack
       ELSE /\ call' = [call EXCEPT ![running] = "body"]
            /\ wait_on' = [wait_on EXCEPT ![running] = 0]
            /\ UNCHANGED <<state, joining, running, loopVars, envVars>>
    /\ UNCHANGED <<g_fiber_count, timeout_ms, until, wake_result, ready, sleeping, io_waiters, g_done_count,
                   mutexVars, ctxVars>>

MutexNew == /\ InProgram
            /\ g_mutex_count < NATVAR_MUTEX_MAX
            /\ g_mutex_count' = g_mutex_count + 1
            /\ UNCHANGED <<fiberVars, queueVars, mutex, holders, loopVars, envVars, ctxVars>>

LockGranted(m) ==
    /\ ~mutex[m].locked
    /\ mutex' = [mutex EXCEPT ![m].locked = TRUE, ![m].owner = running]
    /\ holders' = [holders EXCEPT ![m] = @ \cup {running}]
    /\ UNCHANGED <<fiberVars, queueVars, g_mutex_count, loopVars, envVars, ctxVars>>

\* The lock is taken and the caller can wait.  From main, or with the wait list
\* full, the call answers "mutex busy" and changes nothing.
LockParks(m, ms) ==
    /\ mutex[m].locked
    /\ running # Main
    /\ Len(mutex[m].waiters) < WAITERS_MAX
    /\ ms > 0 => now + ms <= MaxTime
    /\ state' = [state EXCEPT ![running] = "WAITING_MUTEX"]
    /\ wait_on' = [wait_on EXCEPT ![running] = m]
    /\ until' = [until EXCEPT ![running] = IF ms > 0 THEN now + ms ELSE 0]
    /\ wake_result' = [wake_result EXCEPT ![running] = -1]
    /\ call' = [call EXCEPT ![running] = "lock"]
    /\ mutex' = [mutex EXCEPT ![m].waiters = Append(@, running)]
    /\ SwitchBack
    /\ UNCHANGED <<g_fiber_count, timeout_ms, ready, sleeping, joining, io_waiters, g_done_count,
                   g_mutex_count, holders, ctxVars>>

MutexLock(m, ms) == /\ InProgram
                    /\ m <= g_mutex_count
                    /\ LockGranted(m) \/ LockParks(m, ms)

\* The resumed lock call reads why it was woken.
LockReturns ==
    /\ Inside("lock")
    /\ call' = [call EXCEPT ![running] = "body"]
    /\ wait_on' = [wait_on EXCEPT ![running] = 0]
    /\ wake_result' = [wake_result EXCEPT ![running] = -1]
    /\ holders' = [holders EXCEPT ![wait_on[running]] =
                      IF wake_result[running] = 1 THEN @ \cup {running} ELSE @]
    /\ UNCHANGED <<g_fiber_count, timeout_ms, state, until, queueVars, mutex, g_mutex_count, loopVars, envVars, ctxVars>>

\* Variant: the lock is handed over and also left open for the next caller.
MutexUnlock_LeavesOpen(m) ==
    /\ InProgram
    /\ running \in holders[m]
    /\ holders' = [holders EXCEPT ![m] = @ \ {running}]
    /\ LET waiters == mutex[m].waiters
       IN  IF waiters # <<>>
           THEN /\ mutex' = [mutex EXCEPT ![m] = [locked |-> FALSE, owner |-> Head(waiters),
                                                  waiters |-> Tail(waiters)]]
                /\ wake_result' = [wake_result EXCEPT ![Head(waiters)] = 1]
                /\ state' = [state EXCEPT ![Head(waiters)] = "READY"]
                /\ until' = [until EXCEPT ![Head(waiters)] = 0]
                /\ ReadyPush(Head(waiters))
           ELSE /\ mutex' = [mutex EXCEPT ![m].locked = FALSE, ![m].owner = 0]
                /\ UNCHANGED <<wake_result, state, until, ready>>
    /\ UNCHANGED <<g_fiber_count, timeout_ms, wait_on, call, running, sleeping, joining, io_waiters,
                   g_done_count, g_mutex_count, loopVars, envVars, ctxVars>>

\* Ownership goes directly to the head waiter.
MutexUnlock(m) ==
    /\ InProgram
    /\ running \in holders[m]
    /\ holders' = [holders EXCEPT ![m] = @ \ {running}]
    /\ LET waiters == mutex[m].waiters
       IN  IF waiters # <<>>
           THEN /\ mutex' = [mutex EXCEPT ![m].owner = Head(waiters), ![m].waiters = Tail(waiters)]
                /\ wake_result' = [wake_result EXCEPT ![Head(waiters)] = 1]
                /\ state' = [state EXCEPT ![Head(waiters)] = "READY"]
                /\ until' = [until EXCEPT ![Head(waiters)] = 0]
                /\ ReadyPush(Head(waiters))
           ELSE /\ mutex' = [mutex EXCEPT ![m].locked = FALSE, ![m].owner = 0]
                /\ UNCHANGED <<wake_result, state, until, ready>>
    /\ UNCHANGED <<g_fiber_count, timeout_ms, wait_on, call, running, sleeping, joining, io_waiters,
                   g_done_count, g_mutex_count, loopVars, envVars, ctxVars>>

\* A deadline past the bound of the clock is one that does not expire.
Deadline(ms) == IF now + ms <= MaxTime THEN now + ms ELSE MaxTime + 1

\* fiber_net_recv: answer when the socket has something, park otherwise; a
\* resumed call tries again and parks with a new deadline.
FiberNetRecv(s, ms) ==
    /\ \/ InFiber
       \/ Inside("net") /\ wait_on[running] = s /\ timeout_ms[running] = ms
    /\ IF s \in readable
       THEN /\ readable' = readable \ {s}
            /\ call' = [call EXCEPT ![running] = "body"]
            /\ wait_on' = [wait_on EXCEPT ![running] = 0]
            /\ timeout_ms' = [timeout_ms EXCEPT ![running] = 0]
            /\ UNCHANGED <<state, until, running, io_waiters, loopVars, now>>
       ELSE /\ state' = [state EXCEPT ![running] = "WAITING_IO"]
            /\ wait_on' = [wait_on EXCEPT ![running] = s]
            /\ until' = [until EXCEPT ![running] = IF ms > 0 THEN Deadline(ms) ELSE 0]
            /\ call' = [call EXCEPT ![running] = "net"]
            /\ timeout_ms' = [timeout_ms EXCEPT ![running] = ms]
            /\ io_waiters' = IF Len(io_waiters) < NATVAR_IO_MAX
                             THEN Append(io_waiters, running) ELSE io_waiters
            /\ SwitchBack
    /\ UNCHANGED <<g_fiber_count, wake_result, ready, sleeping, joining, g_done_count, mutexVars, ctxVars>>

\* datara_rt_fiber_reset between two programs: everything but the mutexes is
\* cleared.  It is called only when no fiber is left parked (a parked mutex
\* waiter would leave a dangling pointer in g_mutexes).
FiberReset ==
    /\ sched = "main"
    /\ running = Main
    /\ g_fiber_count > 0
    /\ g_done_count = g_fiber_count
    /\ g_fiber_count' = 0
    /\ state' = [f \in Fibers |-> "NONE"]
    /\ until' = [f \in Fibers |-> 0]
    /\ wait_on' = [f \in Fibers |-> 0]
    /\ wake_result' = [f \in Fibers |-> -1]
    /\ call' = [f \in Fibers |-> "body"]
    /\ timeout_ms' = [f \in Fibers |-> 0]
    /\ ready' = <<>> /\ running' = Main /\ sleeping' = {} /\ joining' = {}
    /\ io_waiters' = <<>> /\ g_done_count' = 0
    /\ holders' = [m \in Mutexes |-> holders[m] \cap {Main}]
    /\ context' = [f \in Fibers |-> 0]
    /\ UNCHANGED <<mutex, g_mutex_count, loopVars, envVars, posix_self>>

-----------------------------------------------------------------------------
Environment == Tick \/ \E s \in Sockets : DataArrives(s)

Scheduler == \/ LoopDispatch \/ LoopAllDone \/ LoopPollIo \/ IoScan \/ IoScanEnd
             \/ LoopPollMutexes \/ MutexScan \/ MutexScanNext \/ MutexScanEnd
             \/ LoopNoMutexes

Program == \/ RunUntilDone \/ FiberSpawn \/ MutexNew \/ FiberReset
           \/ FiberFinish \/ FiberYield
           \/ \E ms \in Delays : FiberSleep(ms)
           \/ \E h \in Fibers : FiberJoin(h)
           \/ \E m \in Mutexes, ms \in Timeouts : MutexLock(m, ms)
           \/ LockReturns
           \/ \E m \in Mutexes : MutexUnlock(m)
           \/ \E s \in Sockets, ms \in Timeouts : FiberNetRecv(s, ms)

Next == Environment \/ Scheduler \/ Program

Spec == Init /\ [][Next]_vars

\* The scheduler thread keeps running, the clock advances, a call that was
\* resumed goes on, and no fiber keeps the processor for ever: fibers are
\* cooperative, so this last one is the program's duty.
FiberGivesWay == FiberYield \/ FiberFinish
JoinGoesOn == Inside("join") /\ \E h \in Fibers : FiberJoin(h)
ReceiveGoesOn == Inside("net") /\ \E s \in Sockets, ms \in Timeouts : FiberNetRecv(s, ms)
Fairness == /\ WF_vars(Scheduler)
            /\ WF_vars(Tick)
            /\ WF_vars(LockReturns)
            /\ WF_vars(JoinGoesOn)
            /\ WF_vars(ReceiveGoesOn)
            /\ WF_vars(FiberGivesWay)
FairSpec == Spec /\ Fairness

-----------------------------------------------------------------------------
(***************************************************************************)
(* Properties                                                              *)
(***************************************************************************)
TypeOK == /\ g_fiber_count \in 0..FIBER_MAX
          /\ state \in [Fibers -> FiberStates]
          /\ until \in [Fibers -> 0..(MaxTime + 1)]
          /\ wait_on \in [Fibers -> Fibers \cup Mutexes \cup Sockets \cup {0}]
          /\ wake_result \in [Fibers -> {-1, 0, 1}]
          /\ call \in [Fibers -> {"body", "join", "lock", "net"}]
          /\ ready \in Seq(Spawned) /\ io_waiters \in Seq(Spawned)
          /\ running \in Spawned \cup {Main}
          /\ sleeping \subseteq Spawned /\ joining \subseteq Spawned
          /\ g_mutex_count \in 0..NATVAR_MUTEX_MAX
          /\ g_done_count \in 0..FIBER_MAX
          /\ sched \in {"main", "loop", "fiber", "io", "mutex", "exited"}
          /\ last_now \in 0..now /\ now \in 0..MaxTime
          /\ readable \subseteq Sockets
          /\ context \in [Fibers -> 0..FIBER_MAX] /\ posix_self \in 0..FIBER_MAX

In(st) == {f \in Spawned : state[f] = st}

NoDuplicates(q) == \A i, j \in 1..Len(q) : q[i] = q[j] => i = j

\* The ready queue holds exactly the READY fibers, each once, and the running
\* fiber is the one g_running names.
ReadyExact == /\ NoDuplicates(ready) /\ Queued(ready) = In("READY")
              /\ In("RUNNING") = {running} \ {Main}
              /\ sched \in {"fiber", "exited"} <=> running # Main

\* Every sleeper is in the timer list and every socket waiter in its wait list
\* (as far as these have room), and nobody else is.
SleepersExact == /\ sleeping \subseteq In("SLEEPING")
                 /\ g_fiber_count <= TIMER_MAX => sleeping = In("SLEEPING")
                 /\ NoDuplicates(io_waiters) /\ Queued(io_waiters) \subseteq In("WAITING_IO")
                 /\ g_fiber_count <= NATVAR_IO_MAX => Queued(io_waiters) = In("WAITING_IO")

\* The waiters of a mutex are exactly the fibers parked on it, each once.
WaitersExact == \A m \in Mutexes :
    LET w == mutex[m].waiters
    IN  NoDuplicates(w) /\ Queued(w) = {f \in In("WAITING_MUTEX") : wait_on[f] = m}

\* "makecontext / swapcontext ... provide cooperative stackful switches"
\* (datara_natvar.c:16): a switch to an unfinished fiber goes on in that fiber's
\* code.  On POSIX the code does not keep it (run natvar_posix).
ContextsIntact == \A f \in Spawned : state[f] # "DONE" => OwnContext(f)

\* No fiber is ever lost or scheduled twice, whatever the order of yields,
\* promotions, grants, timeouts and socket wake-ups: its entry is in the right
\* queue, its context is its own; and every variable is in its range.
NoFiberLost == /\ TypeOK /\ ContextsIntact
               /\ ReadyExact /\ SleepersExact /\ WaitersExact
               /\ g_done_count = Cardinality(In("DONE"))

\* At most one caller believes it holds a mutex, it is the recorded owner, and
\* a lock handed to a parked fiber belongs to it before that fiber has run.
MutexExclusion == \A m \in Mutexes :
    LET granted == {f \in Spawned : call[f] = "lock" /\ wait_on[f] = m /\ wake_result[f] = 1}
    IN  /\ Cardinality(holders[m] \cup granted) <= 1
        /\ holders[m] \cup granted # {} => mutex[m].locked /\ mutex[m].owner \in holders[m] \cup granted
        /\ mutex[m].waiters # <<>> => mutex[m].locked

\* "two fibers with different sleep deadlines must wake in deadline order even
\* when both are already due during one scan": a fiber leaves the timer list
\* only when its time has come and nobody who stays was due earlier.
WakeInDeadlineOrder ==
    \A f \in sleeping \ sleeping' : /\ until[f] <= now
                                     /\ \A g \in sleeping' : until[f] <= until[g]

\* run_until_done gives up only in a true deadlock: every unfinished fiber waits
\* for another fiber, and none is ready, asleep or waiting for a socket.
HaltsOnlyInDeadlock ==
    sched # "main" /\ sched' = "main" =>
       \A f \in Spawned : state[f] \in {"DONE", "WAITING_JOIN", "WAITING_MUTEX"}

\* "Fibers can ... wait for a peer (datara_rt_fiber_join)": when the scheduler
\* stops, nobody is still parked on a fiber that has finished.
JoinersResume ==
    sched = "main" => \A f \in In("WAITING_JOIN") : state[wait_on[f]] # "DONE"

(***************************************************************************)
(* The inductive invariant behind NoFiberLost and MutexExclusion.          *)
(***************************************************************************)

\* Ranges of what the part without channels and the part with them share.
CoreTypes ==
    /\ g_fiber_count \in 0..FIBER_MAX /\ state \in [Fibers -> FiberStates]
    /\ until \in [Fibers -> 0..(MaxTime + 1)]
    /\ ready \in Seq(Spawned) /\ io_waiters \in Seq(Spawned)
    /\ running \in Spawned \cup {Main}
    /\ sleeping \subseteq Spawned /\ joining \subseteq Spawned
    /\ last_now \in 0..now /\ now \in 0..MaxTime /\ readable \subseteq Sockets

\* The scheduler's bookkeeping.
CoreInv == CoreTypes /\ ReadyExact /\ SleepersExact /\ g_done_count = Cardinality(In("DONE"))

\* Where the system keeps the contexts no switch goes astray.
ContextsKept == context = [f \in Fibers |-> 0] /\ sched # "exited"

\* A lock call that has not returned: parked without an answer, or resumed with one.
LockCallOK(f) ==
    /\ state[f] = "WAITING_MUTEX" => call[f] = "lock" /\ wake_result[f] = -1
    /\ call[f] = "lock" =>
          /\ wait_on[f] \in Mutexes /\ f \in Spawned
          /\ state[f] \in {"WAITING_MUTEX", "READY", "RUNNING"}
          /\ state[f] # "WAITING_MUTEX" => wake_result[f] \in {0, 1}

\* Whoever holds mutex m, or was handed it, is its owner.
OwnerExact(m) ==
    /\ \A f \in holders[m] : mutex[m].locked /\ mutex[m].owner = f
    /\ \A f \in Fibers : call[f] = "lock" /\ wait_on[f] = m /\ wake_result[f] = 1
                            => mutex[m].locked /\ mutex[m].owner = f
    /\ mutex[m].waiters # <<>> => mutex[m].locked

NatVarInv ==
    /\ CoreInv /\ TypeOK /\ WaitersExact
    /\ ~Posix => ContextsKept
    /\ driver = "loop"
    /\ scan \in [at : Nat, mutex : Nat, fds : SUBSET Sockets, woken : BOOLEAN]
    /\ sched \in {"io", "mutex"} => scan.at > 0
    /\ sched = "mutex" => scan.mutex > 0
    /\ mutex \in [Mutexes -> [locked : BOOLEAN, owner : 0..FIBER_MAX, waiters : Seq(Fibers)]]
    /\ holders \in [Mutexes -> SUBSET (0..FIBER_MAX)]
    /\ \A f \in Fibers : LockCallOK(f)
    /\ \A m \in Mutexes : OwnerExact(m)

(* Said in the repository, not kept by the code: see the README, "What the   *)
(* code does not guarantee", for the constants that show it.                *)

\* "The AB-BA scenario therefore cannot hang the scheduler: both fibers get an
\* err outcome after their timeouts": when the scheduler stops, no fiber is left
\* in a lock call that had a timeout.
TimedLocksAnswer ==
    sched = "main" => \A f \in In("WAITING_MUTEX") : until[f] = 0

\* "Deadline scan for parked mutex waiters (called each scheduler pass)": a lock
\* call whose deadline is within the clock's bound is answered.
LockTimeoutsFire == \A f \in Fibers :
    (state[f] = "WAITING_MUTEX" /\ until[f] \in 1..MaxTime /\ sched # "main")
       ~> (state[f] # "WAITING_MUTEX" \/ sched = "main")

\* The scheduler wakes a receiver "when the fd is readable or the deadline
\* expires".
ReceiveTimeoutsFire == \A f \in Fibers :
    (state[f] = "WAITING_IO" /\ until[f] \in 1..MaxTime /\ sched # "main")
       ~> (state[f] # "WAITING_IO")
==============================================================================
