----------------------------- MODULE BoundedFifo -----------------------------
(***************************************************************************)
(* What the bounded channels of the runtime promise: a first-in first-out  *)
(* queue of at most Capacity values that can be closed.  A send is refused *)
(* exactly when the queue is closed; values sent before the close are      *)
(* still received; a receive that finds nothing answers "closed" only when *)
(* the queue is closed and drained.                                        *)
(***************************************************************************)
EXTENDS Naturals, Sequences

CONSTANTS Senders, Receivers, Values, Capacity

VARIABLES queue,    \* the values in flight, oldest first
          closed,
          ret       \* ret[t]: the answer of the last completed call of thread t

vars == <<queue, closed, ret>>

Init == queue = <<>> /\ closed = FALSE /\ ret = [t \in Senders \cup Receivers |-> "none"]

Returns(t, answer) == ret' = [ret EXCEPT ![t] = answer]

Send(t, v) == /\ ~closed
              /\ Len(queue) < Capacity
              /\ queue' = Append(queue, v)
              /\ Returns(t, "sent")
              /\ UNCHANGED closed

Refuse(t) == closed /\ Returns(t, "closed") /\ UNCHANGED <<queue, closed>>

Receive(t) == /\ queue # <<>>
              /\ Returns(t, Head(queue))
              /\ queue' = Tail(queue)
              /\ UNCHANGED closed

Fail(t) == /\ queue = <<>>
           /\ Returns(t, IF closed THEN "closed" ELSE "empty")
           /\ UNCHANGED <<queue, closed>>

Close == closed' = TRUE /\ UNCHANGED <<queue, ret>>

Next == \/ \E t \in Senders : Refuse(t) \/ \E v \in Values : Send(t, v)
        \/ \E t \in Receivers : Receive(t) \/ Fail(t)
        \/ Close

Spec == Init /\ [][Next]_vars
==============================================================================
