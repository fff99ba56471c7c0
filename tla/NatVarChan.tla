------------------------------ MODULE NatVarChan ------------------------------
(***************************************************************************)
(* The rendezvous channels of datara_natvar.c on top of the scheduler of   *)
(* NatVar.  A channel has one slot; a sender fills it and parks until a    *)
(* receiver has emptied it.  Parked receivers and senders of ALL channels  *)
(* are kept in two arrays that share one element count, modelled as they   *)
(* are: wake-ups remove by moving the last counted element of their own    *)
(* array, and slots beyond the count keep their old contents.              *)
(***************************************************************************)
EXTENDS NatVar

CONSTANTS CHAN_MAX,      \* channels
          SendsTo,       \* SendsTo[f]: the channels fiber f may send on
          ReceivesFrom,  \* ReceivesFrom[f], f = Main included: may receive from
          MaxSends       \* bound on the values sent on each channel

NatVarChanAssumption == CHAN_MAX \in Nat /\ MaxSends \in Nat

VARIABLES g_chan_count,
          chan,          \* chan[c]: [has_value, buf]
          chan_recv,     \* g_waiting_chan_recv
          chan_send,     \* g_waiting_chan_send
          g_waiting_chan_count, \* the count of both arrays
          recv_on,       \* the channel main receives on while sched = "recv"
          sending,       \* history: sending[f] is the value f is parked on, or 0
          sent,          \* history: sent[c], the values given to send, in order
          rcvd           \* history: rcvd[c], the values recv returned, in order

chanVars == <<g_chan_count, chan, chan_recv, chan_send, g_waiting_chan_count, recv_on,
              sending, sent, rcvd>>
allVars == <<vars, chanVars>>

Chans == 1..CHAN_MAX
Slots == 1..TIMER_MAX

ChanInit == /\ Init
            /\ g_chan_count = 0
            /\ chan = [c \in Chans |-> [has_value |-> FALSE, buf |-> 0]]
            /\ chan_recv = [i \in Slots |-> 0]
            /\ chan_send = [i \in Slots |-> 0]
            /\ g_waiting_chan_count = 0
            /\ recv_on = 0
            /\ sending = [f \in Fibers |-> 0]
            /\ sent = [c \in Chans |-> <<>>]
            /\ rcvd = [c \in Chans |-> <<>>]

ChanCreate == /\ InProgram
              /\ g_chan_count < CHAN_MAX
              /\ g_chan_count' = g_chan_count + 1
              /\ UNCHANGED <<vars, chan, chan_recv, chan_send, g_waiting_chan_count, recv_on,
                             sending, sent, rcvd>>

-----------------------------------------------------------------------------
\* The slot of the first fiber of the array parked on channel c, as a set.
FirstParked(array, c) ==
    LET hits == {i \in 1..g_waiting_chan_count :
                    /\ array[i] # 0
                    /\ state[array[i]] = "WAITING_CHAN"
                    /\ wait_on[array[i]] = c}
    IN  {i \in hits : \A j \in hits : i <= j}

\* Variant: the woken receiver is queued but its state is not updated.
Woken_KeepsState(array, c) ==
    IF FirstParked(array, c) = {}
    THEN [array |-> array, count |-> g_waiting_chan_count, ready |-> ready, state |-> state]
    ELSE LET i == CHOOSE x \in FirstParked(array, c) : TRUE
         IN  [array |-> [array EXCEPT ![i] = array[g_waiting_chan_count]],
              count |-> g_waiting_chan_count - 1,
              ready |-> Append(ready, array[i]),
              state |-> state]

\* wake_recv_of and wake_send_of: the array, count, ready queue and states after
\* waking the first fiber parked on c, if there is one.
Woken(array, c) ==
    IF FirstParked(array, c) = {}
    THEN [array |-> array, count |-> g_waiting_chan_count, ready |-> ready, state |-> state]
    ELSE LET i == CHOOSE x \in FirstParked(array, c) : TRUE
         IN  [array |-> [array EXCEPT ![i] = array[g_waiting_chan_count]],
              count |-> g_waiting_chan_count - 1,
              ready |-> Append(ready, array[i]),
              state |-> [state EXCEPT ![array[i]] = "READY"]]

\* Variant: send does not look for a parked receiver.
FiberChanSend_NoWake(c) ==
    /\ InFiber
    /\ c <= g_chan_count
    /\ Len(sent[c]) < MaxSends
    /\ LET v == Len(sent[c]) + 1
       IN  /\ chan' = [chan EXCEPT ![c] = [has_value |-> TRUE, buf |-> v]]
           /\ state' = [state EXCEPT ![running] = "WAITING_CHAN"]
           /\ chan_send' = [chan_send EXCEPT ![g_waiting_chan_count + 1] = running]
           /\ g_waiting_chan_count' = g_waiting_chan_count + 1
           /\ wait_on' = [wait_on EXCEPT ![running] = c]
           /\ sending' = [sending EXCEPT ![running] = v]
           /\ sent' = [sent EXCEPT ![c] = Append(@, v)]
    /\ SwitchBack
    /\ UNCHANGED <<g_fiber_count, until, wake_result, call, timeout_ms, ready, sleeping, joining,
                   io_waiters, g_done_count, mutexVars, g_chan_count, chan_recv, recv_on, rcvd, ctxVars>>

\* chan_send: fill the slot, wake a parked receiver, and park.  The slot cannot
\* have been emptied in between (the receiver has not run), so the sender always
\* parks.  From main the call does nothing.
FiberChanSend(c) ==
    /\ InFiber
    /\ c <= g_chan_count
    /\ Len(sent[c]) < MaxSends
    /\ LET v == Len(sent[c]) + 1
           w == Woken(chan_recv, c)
       IN  /\ chan' = [chan EXCEPT ![c] = [has_value |-> TRUE, buf |-> v]]
           /\ chan_recv' = w.array
           /\ ready' = w.ready
           /\ state' = [w.state EXCEPT ![running] = "WAITING_CHAN"]
           /\ IF w.count < TIMER_MAX
              THEN /\ chan_send' = [chan_send EXCEPT ![w.count + 1] = running]
                   /\ g_waiting_chan_count' = w.count + 1
              ELSE g_waiting_chan_count' = w.count /\ UNCHANGED chan_send
           /\ wait_on' = [wait_on EXCEPT ![running] = c]
           /\ sending' = [sending EXCEPT ![running] = v]
           /\ sent' = [sent EXCEPT ![c] = Append(@, v)]
    /\ SwitchBack
    /\ UNCHANGED <<g_fiber_count, until, wake_result, call, timeout_ms, sleeping, joining,
                   io_waiters, g_done_count, mutexVars, g_chan_count, recv_on, rcvd, ctxVars>>

\* Variant: the slot is read but not marked empty.
TakeValue_KeepsSlot(c) ==
    LET w == Woken(chan_send, c)
    IN  /\ chan[c].has_value
        /\ rcvd' = [rcvd EXCEPT ![c] = Append(@, chan[c].buf)]
        /\ chan_send' = w.array
        /\ g_waiting_chan_count' = w.count
        /\ ready' = w.ready
        /\ state' = w.state
        /\ sending' = [f \in Fibers |-> IF w.state[f] = "READY" THEN 0 ELSE sending[f]]
        /\ UNCHANGED <<chan, chan_recv, g_chan_count, sent>>

\* Variant: the sender of the value is not woken.
TakeValue_NoWake(c) ==
    /\ chan[c].has_value
    /\ rcvd' = [rcvd EXCEPT ![c] = Append(@, chan[c].buf)]
    /\ chan' = [chan EXCEPT ![c].has_value = FALSE]
    /\ UNCHANGED <<chan_send, g_waiting_chan_count, ready, state, sending, chan_recv, g_chan_count, sent>>

\* Empty the slot and wake one parked sender.
TakeValue(c) ==
    LET w == Woken(chan_send, c)
    IN  /\ chan[c].has_value
        /\ rcvd' = [rcvd EXCEPT ![c] = Append(@, chan[c].buf)]
        /\ chan' = [chan EXCEPT ![c].has_value = FALSE]
        /\ chan_send' = w.array
        /\ g_waiting_chan_count' = w.count
        /\ ready' = w.ready
        /\ state' = w.state
        /\ sending' = [f \in Fibers |-> IF w.state[f] = "READY" THEN 0 ELSE sending[f]]
        /\ UNCHANGED <<chan_recv, g_chan_count, sent>>

ParkReceiver(c) ==
    /\ ~chan[c].has_value
    /\ state' = [state EXCEPT ![running] = "WAITING_CHAN"]
    /\ IF g_waiting_chan_count < TIMER_MAX
       THEN /\ chan_recv' = [chan_recv EXCEPT ![g_waiting_chan_count + 1] = running]
            /\ g_waiting_chan_count' = g_waiting_chan_count + 1
       ELSE UNCHANGED <<chan_recv, g_waiting_chan_count>>
    /\ UNCHANGED <<ready, g_chan_count, chan, chan_send, sending, sent, rcvd>>

\* chan_recv in a fiber, first try or resumed.
FiberChanRecv(c) ==
    /\ InFiber \/ (Inside("recv") /\ wait_on[running] = c)
    /\ c <= g_chan_count
    /\ \/ /\ TakeValue(c)
          /\ call' = [call EXCEPT ![running] = "body"]
          /\ wait_on' = [wait_on EXCEPT ![running] = 0]
          /\ UNCHANGED <<running, loopVars, envVars>>
       \/ /\ ParkReceiver(c)
          /\ call' = [call EXCEPT ![running] = "recv"]
          /\ wait_on' = [wait_on EXCEPT ![running] = c]
          /\ SwitchBack
    /\ UNCHANGED <<g_fiber_count, until, wake_result, timeout_ms, sleeping, joining, io_waiters,
                   g_done_count, mutexVars, recv_on, ctxVars>>

-----------------------------------------------------------------------------
(***************************************************************************)
(* chan_recv called by main: it steps the scheduler itself.                *)
(***************************************************************************)
MainChanRecv(c) == /\ sched = "main" /\ running = Main
                   /\ c <= g_chan_count
                   /\ sched' = "recv" /\ driver' = "recv" /\ recv_on' = c
                   /\ UNCHANGED <<fiberVars, queueVars, mutexVars, scan, last_now, envVars,
                                  g_chan_count, chan, chan_recv, chan_send, g_waiting_chan_count,
                                  sending, sent, rcvd, ctxVars>>

MainReturns == /\ sched' = "main" /\ recv_on' = 0
               /\ UNCHANGED <<driver, scan, last_now, envVars>>

MainTakes == /\ sched = "recv"
             /\ TakeValue(recv_on)
             /\ MainReturns
             /\ UNCHANGED <<g_fiber_count, until, wait_on, wake_result, call, timeout_ms, running,
                            sleeping, joining, io_waiters, g_done_count, mutexVars, ctxVars>>

\* No value yet: run the head of the ready queue, or else the earliest due
\* sleeper.
MainSteps == /\ sched = "recv"
             /\ ~chan[recv_on].has_value
             /\ \/ SwitchTo(state, ready) /\ UNCHANGED sleeping
                \/ \E f \in Earliest(now) : /\ ready = <<>>
                                            /\ sleeping' = sleeping \ {f}
                                            /\ SwitchTo(state, <<f>>)
             /\ UNCHANGED <<g_fiber_count, until, wait_on, wake_result, call, timeout_ms, joining,
                            io_waiters, g_done_count, mutexVars, driver, scan, last_now, envVars,
                            chanVars>>

AllDone == g_done_count >= g_fiber_count

\* Nothing to run and every fiber done: -1.
MainFailsClosed == /\ sched = "recv"
                   /\ ~chan[recv_on].has_value
                   /\ ready = <<>> /\ Due(now) = {}
                   /\ AllDone
                   /\ MainReturns
                   /\ UNCHANGED <<fiberVars, queueVars, mutexVars, g_chan_count, chan, chan_recv,
                                  chan_send, g_waiting_chan_count, sending, sent, rcvd, ctxVars>>

\* Nothing to run but unfinished fibers: the loop goes round.
MainSpins == /\ sched = "recv"
             /\ ~chan[recv_on].has_value
             /\ ready = <<>> /\ Due(now) = {}
             /\ ~AllDone
             /\ UNCHANGED allVars

-----------------------------------------------------------------------------
\* reset also frees the channels and empties the wait arrays.
ChanReset == /\ FiberReset
             /\ g_chan_count' = 0
             /\ chan' = [c \in Chans |-> [has_value |-> FALSE, buf |-> 0]]
             /\ g_waiting_chan_count' = 0
             /\ sent' = [c \in Chans |-> <<>>]
             /\ rcvd' = [c \in Chans |-> <<>>]
             /\ UNCHANGED <<chan_recv, chan_send, recv_on, sending>>

MainStep == MainTakes \/ MainSteps \/ MainFailsClosed \/ MainSpins

ChanProgram == \/ ChanCreate
               \/ \E c \in Chans : InFiber /\ c \in SendsTo[running] /\ FiberChanSend(c)
               \/ \E c \in Chans : /\ running # Main /\ c \in ReceivesFrom[running]
                                   /\ FiberChanRecv(c)
               \/ \E c \in ReceivesFrom[Main] : MainChanRecv(c)

CoreStep == Environment \/ Scheduler \/ RunUntilDone \/ FiberSpawn \/ FiberFinish
            \/ FiberYield \/ \E ms \in Delays : FiberSleep(ms)

ChanNext == (CoreStep /\ UNCHANGED chanVars) \/ ChanProgram \/ MainStep \/ ChanReset

ChanSpec == ChanInit /\ [][ChanNext]_allVars

ChanFairness == /\ WF_allVars(Scheduler /\ UNCHANGED chanVars)
                /\ WF_allVars(MainStep)
                /\ WF_allVars(Tick /\ UNCHANGED chanVars)
                /\ WF_allVars(FiberGivesWay /\ UNCHANGED chanVars)
                /\ WF_allVars(\E c \in Chans : Inside("recv") /\ FiberChanRecv(c))
ChanFairSpec == ChanSpec /\ ChanFairness

-----------------------------------------------------------------------------
(***************************************************************************)
(* Properties                                                              *)
(***************************************************************************)
\* The scheduler's bookkeeping survives the channels' wake-ups, and the contexts do.
ChanReadyExact == ReadyExact /\ SleepersExact /\ ContextsIntact

\* With one sender per channel, what is received is what was sent, in order,
\* nothing lost and nothing twice.
InOrderDelivery == \A c \in Chans : IsPrefix(rcvd[c], sent[c])

\* Rendezvous: while a value is unreceived its sender is still parked on it and
\* the slot holds it; once it was received the sender is not parked any more.
SenderParkedOnItsValue ==
    \A f \in Spawned : sending[f] # 0 =>
        \E c \in SendsTo[f] : /\ state[f] = "WAITING_CHAN" /\ wait_on[f] = c
                              /\ chan[c].has_value /\ chan[c].buf = sending[f]

\* No wake-up is lost: a fiber parked in recv and a value in the slot of the
\* same channel never coexist once the value's sender has switched away, unless
\* another receiver has already been made ready for it.
ReceiverNotForgotten ==
    \A c \in Chans : chan[c].has_value =>
        \/ \A f \in Spawned : ~(state[f] = "WAITING_CHAN" /\ call[f] = "recv" /\ wait_on[f] = c)
        \/ \E f \in Spawned : state[f] \in {"READY", "RUNNING"} /\ call[f] = "recv" /\ wait_on[f] = c

(***************************************************************************)
(* The inductive invariant behind these, for one channel with one sender   *)
(* and any number of receivers.  With two channels the shared count drops  *)
(* parked fibers (see the README, "What the code does not guarantee").     *)
(***************************************************************************)
OneChannel ==
    /\ CHAN_MAX = 1 /\ FIBER_MAX =< TIMER_MAX
    /\ \A f, g \in Fibers : 1 \in SendsTo[f] /\ 1 \in SendsTo[g] => f = g
    /\ \A f \in Fibers : 1 \in SendsTo[f] => 1 \notin ReceivesFrom[f]
    /\ ReceivesFrom[Main] \subseteq Chans

\* The fibers parked in a receive, and the part of the array they are in.
Receivers == {f \in Spawned : state[f] = "WAITING_CHAN" /\ call[f] = "recv"}
ParkedRecvs == IF chan[1].has_value THEN g_waiting_chan_count - 1 ELSE g_waiting_chan_count

\* The receivers fill the first places of their array, each once; a parked
\* sender has the last counted place of its own.
ArraysExact ==
    /\ chan_recv \in [Slots -> 0..FIBER_MAX] /\ chan_send \in [Slots -> 0..FIBER_MAX]
    /\ g_waiting_chan_count \in 0..TIMER_MAX /\ ParkedRecvs \in Nat
    /\ {chan_recv[i] : i \in 1..ParkedRecvs} = Receivers
    /\ \A i, j \in 1..ParkedRecvs : chan_recv[i] = chan_recv[j] => i = j
    /\ \A i \in Slots : chan_send[i] # 0 => 1 \in SendsTo[chan_send[i]]
    /\ chan[1].has_value => /\ chan_send[g_waiting_chan_count] \in Fibers
                            /\ sending[chan_send[g_waiting_chan_count]] # 0

\* What fiber f does with the channel.
ChanCallOK(f) ==
    /\ call[f] \in {"body", "recv"}
    /\ call[f] = "recv" => wait_on[f] = 1 /\ 1 \notin SendsTo[f] /\ f \in Spawned
    /\ state[f] = "WAITING_CHAN" => wait_on[f] = 1 /\ (call[f] = "recv" \/ sending[f] # 0)
    /\ sending[f] # 0 => /\ f \in Spawned /\ 1 \in SendsTo[f] /\ state[f] = "WAITING_CHAN"
                         /\ call[f] = "body" /\ chan[1].has_value /\ sending[f] = chan[1].buf

\* Values are numbered as they are sent; one is on its way while the slot is full.
ValuesExact ==
    /\ chan \in [Chans -> [has_value : BOOLEAN, buf : Nat]]
    /\ sent[1] \in Seq(Nat) /\ rcvd[1] \in Seq(Nat)
    /\ \A i \in 1..Len(sent[1]) : sent[1][i] = i
    /\ \A i \in 1..Len(rcvd[1]) : rcvd[1][i] = i
    /\ Len(sent[1]) = Len(rcvd[1]) + (IF chan[1].has_value THEN 1 ELSE 0)
    /\ chan[1].has_value => chan[1].buf = Len(sent[1])

ChanInv ==
    /\ CoreInv
    /\ io_waiters = <<>> /\ g_mutex_count = 0
    /\ sched \in {"main", "loop", "fiber", "recv", "exited"} /\ driver \in {"loop", "recv"}
    /\ sched = "recv" => driver = "recv"
    /\ driver = "recv" /\ sched # "main" => recv_on = 1
    /\ context \in [Fibers -> 0..FIBER_MAX] /\ posix_self \in 0..FIBER_MAX
    /\ ~Posix => ContextsKept
    /\ call \in [Fibers -> {"body", "recv"}] /\ DOMAIN wait_on = Fibers
    /\ sending \in [Fibers -> Nat] /\ DOMAIN sent = Chans /\ DOMAIN rcvd = Chans
    /\ \A f \in Fibers : ChanCallOK(f)
    /\ ArraysExact /\ ValuesExact /\ ReceiverNotForgotten

(* Said in the repository, not kept by the code: see the README, "What the   *)
(* code does not guarantee", for the constants that show it.                *)

\* "If no work and no sleeping fibers and no senders remain, fail closed": main's
\* recv returns when nothing is left that could give it a value.
Hopeless == /\ sched = "recv" /\ ~chan[recv_on].has_value /\ running = Main
            /\ ready = <<>> /\ sleeping = {}
MainRecvFailsClosed == Hopeless ~> (sched = "main")
==============================================================================
