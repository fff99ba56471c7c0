---------------------------- MODULE ThreadChannel ----------------------------
(***************************************************************************)
(* The bounded channel of datara_thread.c: a ring guarded by one mutex and *)
(* two condition variables, used by OS threads.  A critical section (from  *)
(* taking the mutex to releasing it or to starting a wait) is one step.    *)
(* A waiting thread is woken by a signal, by the broadcast of close, by a  *)
(* timeout, or spuriously; a woken thread must win the mutex again, and    *)
(* others may get there first.                                             *)
(***************************************************************************)
EXTENDS Integers, FiniteSets

CONSTANTS Senders, Receivers, Values,
          Capacity          \* of the ring, after the default for capacity <= 0

ASSUME ThreadChannelAssumption ==
    /\ Capacity \in Nat \ {0}
    /\ IsFiniteSet(Senders) /\ IsFiniteSet(Receivers)
    /\ Senders \cap Receivers = {}
    /\ Values # {}

VARIABLES ring, head, tail, count, closed,
          pc,       \* "idle", "waiting" on its condition, "awake" after a wait,
                    \* "expired" after a wait that timed out
          arg,      \* arg[t]: what a blocked sender sends, how a blocked receiver waits
          ret       \* ret[t]: the answer of the last completed call

vars == <<ring, head, tail, count, closed, pc, arg, ret>>

Threads == Senders \cup Receivers
Waits == {"forever", "timed", "poll"}     \* timeout_ms < 0, > 0, = 0

TypeOK == /\ ring \in [0..(Capacity - 1) -> Values]
          /\ head \in 0..(Capacity - 1) /\ tail \in 0..(Capacity - 1)
          /\ count \in 0..Capacity
          /\ closed \in BOOLEAN
          /\ pc \in [Threads -> {"idle", "waiting", "awake", "expired"}]
          /\ arg \in [Threads -> Values \cup Waits \cup {"none"}]
          /\ ret \in [Threads -> Values \cup {"none", "sent", "closed", "empty"}]

\* malloc leaves the ring uninitialised: any contents.
Init == /\ ring \in [0..(Capacity - 1) -> Values]
        /\ head = 0 /\ tail = 0 /\ count = 0
        /\ closed = FALSE
        /\ pc = [t \in Threads |-> "idle"]
        /\ arg = [t \in Threads |-> "none"]
        /\ ret = [t \in Threads |-> "none"]

WaitingIn(S) == {t \in S : pc[t] = "waiting"}
\* Woken threads of S that still have to look at the channel again.
AwakeIn(S) == {t \in S : pc[t] \in {"awake", "expired"}}

\* pthread_cond_signal to a condition the threads of S wait on, as t leaves.
SignalOne(S, t) ==
    IF WaitingIn(S) = {} THEN pc' = [pc EXCEPT ![t] = "idle"]
    ELSE \E u \in WaitingIn(S) : pc' = [pc EXCEPT ![t] = "idle", ![u] = "awake"]

Returns(t, answer) == /\ ret' = [ret EXCEPT ![t] = answer]
                      /\ arg' = [arg EXCEPT ![t] = "none"]

-----------------------------------------------------------------------------
\* A thread at the head of its critical section: a new call, or back from a wait.
Enters(t, a) == pc[t] = "idle" \/ (pc[t] \in {"awake", "expired"} /\ arg[t] = a)

Blocks(t, a) == /\ pc' = [pc EXCEPT ![t] = "waiting"]
                /\ arg' = [arg EXCEPT ![t] = a]
                /\ UNCHANGED <<ring, head, tail, count, closed, ret>>

\* The while loop of send: full and open.
SendWaits(t, v) == count >= Capacity /\ ~closed /\ Blocks(t, v)

SendRefused(t) == /\ closed
                  /\ pc' = [pc EXCEPT ![t] = "idle"]
                  /\ Returns(t, "closed")
                  /\ UNCHANGED <<ring, head, tail, count, closed>>

\* Variant: the closed flag is not looked at once there is room.
SendStores_WhenClosed(t, v) ==
    /\ count < Capacity
    /\ ring' = [ring EXCEPT ![tail] = v]
    /\ tail' = (tail + 1) % Capacity
    /\ count' = count + 1
    /\ SignalOne(Receivers, t)
    /\ Returns(t, "sent")
    /\ UNCHANGED <<head, closed>>

\* Variant: nobody is signalled.
SendStores_NoSignal(t, v) ==
    /\ ~closed
    /\ count < Capacity
    /\ ring' = [ring EXCEPT ![tail] = v]
    /\ tail' = (tail + 1) % Capacity
    /\ count' = count + 1
    /\ pc' = [pc EXCEPT ![t] = "idle"]
    /\ Returns(t, "sent")
    /\ UNCHANGED <<head, closed>>

SendStores(t, v) ==
    /\ ~closed
    /\ count < Capacity
    /\ ring' = [ring EXCEPT ![tail] = v]
    /\ tail' = (tail + 1) % Capacity
    /\ count' = count + 1
    /\ SignalOne(Receivers, t)
    /\ Returns(t, "sent")
    /\ UNCHANGED <<head, closed>>

ChannelSend(t) ==
    \E v \in Values : /\ Enters(t, v)
                      /\ SendWaits(t, v) \/ SendRefused(t) \/ SendStores(t, v)

\* The while loops of recv: empty and open, and allowed to wait.
RecvWaits(t, how) == /\ count = 0 /\ ~closed
                     /\ how # "poll"
                     /\ pc[t] # "expired"
                     /\ Blocks(t, how)

RecvTakes(t) == /\ count > 0
                /\ Returns(t, ring[head])
                /\ head' = (head + 1) % Capacity
                /\ count' = count - 1
                /\ SignalOne(Senders, t)
                /\ UNCHANGED <<ring, tail, closed>>

RecvFails(t, how) == /\ count = 0
                     /\ closed \/ how = "poll" \/ pc[t] = "expired"
                     /\ Returns(t, IF closed THEN "closed" ELSE "empty")
                     /\ pc' = [pc EXCEPT ![t] = "idle"]
                     /\ UNCHANGED <<ring, head, tail, count, closed>>

ChannelRecv(t) ==
    \E how \in Waits :
        /\ Enters(t, how)
        /\ RecvWaits(t, how) \/ RecvTakes(t) \/ RecvFails(t, how)

\* Variant: close wakes one waiter of each condition instead of all.
ChannelClose_SignalsOne ==
    /\ closed' = TRUE
    /\ \E W \in SUBSET {t \in Threads : pc[t] = "waiting"} :
          /\ Cardinality(W) <= 1
          /\ pc' = [t \in Threads |-> IF t \in W THEN "awake" ELSE pc[t]]
    /\ UNCHANGED <<ring, head, tail, count, arg, ret>>

ChannelClose ==
    /\ closed' = TRUE
    /\ pc' = [t \in Threads |-> IF pc[t] = "waiting" THEN "awake" ELSE pc[t]]
    /\ UNCHANGED <<ring, head, tail, count, arg, ret>>

-----------------------------------------------------------------------------
\* The condition variables: wake-ups nobody asked for, and timeouts.
SpuriousWakeup(t) == /\ pc[t] = "waiting"
                     /\ pc' = [pc EXCEPT ![t] = "awake"]
                     /\ UNCHANGED <<ring, head, tail, count, closed, arg, ret>>

TimedOut(t) == /\ pc[t] = "waiting"
               /\ arg[t] = "timed"
               /\ pc' = [pc EXCEPT ![t] = "expired"]
               /\ UNCHANGED <<ring, head, tail, count, closed, arg, ret>>

Next == \/ \E t \in Senders : ChannelSend(t)
        \/ \E t \in Receivers : ChannelRecv(t) \/ TimedOut(t)
        \/ ChannelClose
        \/ \E t \in Threads : SpuriousWakeup(t)

Spec == Init /\ [][Next]_vars

\* A woken thread gets the mutex in the end and leaves its critical section.
Continues(t) == /\ pc[t] \in {"awake", "expired"}
                /\ IF t \in Senders THEN ChannelSend(t) ELSE ChannelRecv(t)
FairSpec == Spec /\ \A t \in Threads : WF_vars(Continues(t))

-----------------------------------------------------------------------------
(***************************************************************************)
(* Properties                                                              *)
(***************************************************************************)
\* The ring, head and count implement a bounded queue: the channel is a
\* BoundedFifo under this mapping (wrap-around of head and tail included).
Queue == [i \in 1..count |-> ring[(head + i - 1) % Capacity]]
Fifo == INSTANCE BoundedFifo WITH queue <- Queue
FifoSpec == Fifo!Spec

\* No lost wake-up although send and recv signal one waiter only: while a
\* receiver sleeps, each value in the ring has a woken receiver on its way to it,
\* and while a sender sleeps on an open channel each free slot has a woken sender.
ReceiversSignalled == WaitingIn(Receivers) # {} => count <= Cardinality(AwakeIn(Receivers))
SendersSignalled == WaitingIn(Senders) # {} => Capacity - count <= Cardinality(AwakeIn(Senders))
NoLostWakeup == ReceiversSignalled /\ SendersSignalled

\* Nobody sleeps on a closed channel.
NobodySleepsOnClosed == closed => WaitingIn(Threads) = {}

\* "Close the channel for sending; wakes all waiting receivers": after the close
\* every blocked call, of receivers and of senders, comes back.
CloseReleases == \A t \in Threads : (closed /\ pc[t] # "idle") ~> (pc[t] = "idle")

\* The write position is count places after the read position.
RingShape == tail = (head + count) % Capacity

\* The inductive invariant: types, the ring's arithmetic, and the wake-ups.
ChannelInv == TypeOK /\ RingShape /\ NoLostWakeup /\ NobodySleepsOnClosed
==============================================================================
