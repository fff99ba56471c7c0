------------------------------- MODULE MCFibers -------------------------------
(***************************************************************************)
(* The cooperative side of the runtime in one run: the single-threaded     *)
(* fiber scheduler, its channels, the multi-threaded fiber scheduler, and  *)
(* the task scheduler.  A behaviour exercises the one component that       *)
(* `part` names; the others stay as the runtime initialises them.  The     *)
(* configuration gives the bounds.                                         *)
(***************************************************************************)
EXTENDS TaskSchedule

CONSTANTS
    \* the fiber scheduler and its channels; a bound on each while the other runs
    FIBER_MAX, TIMER_MAX, NATVAR_IO_MAX, NATVAR_MUTEX_MAX, WAITERS_MAX, CHAN_MAX,
    Posix, Sockets, Delays, Timeouts, MaxTime, SendsTo, ReceivesFrom, MaxSends,
    NatVarFibers, ChanTime,
    \* the multi-threaded scheduler
    Clients, Threads, N, MaxSpawn, MaxStarts, MT_DONE_CAP

VARIABLES part,
          g_fiber_count, state, until, wait_on, wake_result, call, timeout_ms,
          ready, running, sleeping, joining, io_waiters, mutex, g_mutex_count,
          g_done_count, sched, driver, scan, last_now, now, readable, holders,
          g_chan_count, chan, chan_recv, chan_send, g_waiting_chan_count, recv_on,
          sending, sent, rcvd, context, posix_self,
          workers, shutdown, starts, spawned, allocated, handle, freed,
          mt_queue, mt_registry, done, runs, client, given, thread

(* ------------------------------- instances ------------------------------ *)

NV == INSTANCE NatVarChan
MT == INSTANCE NatVarMt WITH queue <- mt_queue, registry <- mt_registry

ASSUME FibersAssumption ==
    /\ NV!NatVarAssumption /\ NV!NatVarChanAssumption /\ MT!NatVarMtAssumption
    /\ NatVarFibers \in Nat /\ ChanTime \in Nat

(* -------------------------- values for the run -------------------------- *)

\* Fiber 1 sends on the one channel, main and the other two fibers receive.
MCSendsTo == [f \in 0..3 |-> IF f = 1 THEN {1} ELSE {}]
MCReceivesFrom == [f \in 0..3 |-> IF f = 1 THEN {} ELSE {1}]

\* Prerequisite lists of up to two ids, of which 3 is no task's; all graphs of
\* three tasks made of them: cycles, missing tasks and a repeated name too.
Lists == {<<>>, <<0, 0>>} \cup {<<a>> : a \in 0..3} \cup {<<0, 1>>, <<0, 2>>, <<0, 3>>,
                                                           <<1, 2>>, <<1, 3>>, <<2, 3>>}
AllGraphs == [Nodes -> Lists]

(* ----------------------------- specification ---------------------------- *)

Parts == {"natvar", "chan", "mt", "schedule"}

natVars == <<g_fiber_count, state, until, wait_on, wake_result, call, timeout_ms, ready,
             running, sleeping, joining, io_waiters, mutex, g_mutex_count, g_done_count,
             sched, driver, scan, last_now, now, readable, holders, context, posix_self>>
chanVars == <<g_chan_count, chan, chan_recv, chan_send, g_waiting_chan_count, recv_on,
              sending, sent, rcvd>>
mtVars == <<workers, shutdown, starts, spawned, allocated, handle, freed, mt_queue,
            mt_registry, done, runs, client, given, thread>>

\* Bounds on the fibers of the part without channels, and on the clock, the
\* sleepers and the sockets of the part with them.
FewFibers == g_fiber_count =< NatVarFibers
ShortTime == now =< ChanTime /\ readable = {} /\ \A f \in NV!Fibers : until[f] =< ChanTime

MCInit == /\ part \in Parts
          /\ NV!ChanInit
          /\ Init
          /\ part = "schedule" \/ (deps = [i \in Nodes |-> <<>>] /\ det /\ region = 0)
          /\ MT!Init

MCNext ==
    \/ part = "natvar" /\ NV!Next /\ FewFibers' /\ UNCHANGED <<part, chanVars, mtVars, vars>>
    \/ part = "chan" /\ NV!ChanNext /\ ShortTime' /\ UNCHANGED <<part, mtVars, vars>>
    \/ part = "mt" /\ MT!Next /\ UNCHANGED <<part, natVars, chanVars, vars>>
    \/ part = "schedule" /\ Next /\ UNCHANGED <<part, natVars, chanVars, mtVars>>

allVars == <<part, natVars, chanVars, mtVars, vars>>

MCSpec == MCInit /\ [][MCNext]_allVars

\* Each component's own fairness, while it is the one that runs.
MCFairSpec ==
    /\ MCSpec
    /\ WF_natVars(part = "natvar" /\ NV!Scheduler)
    /\ WF_natVars(part = "natvar" /\ NV!Tick)
    /\ WF_natVars(part = "natvar" /\ NV!LockReturns)
    /\ WF_natVars(part = "natvar" /\ NV!JoinGoesOn)
    /\ WF_natVars(part = "natvar" /\ NV!ReceiveGoesOn)
    /\ WF_natVars(part = "natvar" /\ NV!FiberGivesWay)
    /\ \A c \in Clients : WF_mtVars(part = "mt" /\ MT!ClientGoesOn(c))
    /\ \A t \in Threads : WF_mtVars(part = "mt" /\ MT!Worker(t))
    /\ WF_vars(part = "schedule" /\ Run)

(* ------------------------------ properties ------------------------------ *)

\* The scheduler loses no fiber and runs none twice, and a mutex has one holder;
\* the values of a channel arrive once and in order, their sender is parked until
\* then, and no receiver sleeps beside a value; a fiber of the multi-threaded
\* scheduler is run at most once, freed by its last owner and counted exactly.
FiberSafety ==
    /\ part = "natvar" => NV!NoFiberLost /\ NV!MutexExclusion
    /\ part = "chan" => /\ NV!ChanReadyExact /\ NV!InOrderDelivery
                        /\ NV!SenderParkedOnItsValue /\ NV!ReceiverNotForgotten
    /\ MT!RunOnce /\ MT!DoneCountExact

\* run_until_done gives up in a true deadlock only; sleepers wake, in the order of
\* their deadlines and also next to fibers that yield for ever (the fairness repair
\* in run_until_done); a ready fiber gets its turn; wait_idle waits for every
\* fiber, and wait_idle, mt_join and schedule_run return.
FiberProgress ==
    /\ [][part = "natvar" => NV!HaltsOnlyInDeadlock /\ NV!WakeInDeadlineOrder]_natVars
    /\ \A f \in 1..NatVarFibers :
          /\ (part = "natvar" /\ state[f] = "SLEEPING" /\ sched # "main") ~> (state[f] # "SLEEPING")
          /\ (part = "natvar" /\ state[f] = "READY" /\ sched # "main") ~> (state[f] = "RUNNING")
    /\ MT!WaitIdleSound /\ MT!WaitIdleReturns /\ MT!JoinsReturn
    /\ part = "schedule" ~> pc = "returned"
===============================================================================
