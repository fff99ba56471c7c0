---------------------------- MODULE ThreadsProofs ----------------------------
(***************************************************************************)
(* Proofs about MCThreads, for any number of threads, workers and waiters  *)
(* and any bounds: the inductive invariant of each component, and that     *)
(* ThreadSafety follows.                                                   *)
(***************************************************************************)
EXTENDS MCThreads, FiniteSetTheorems, SequenceTheorems, TLAPS

(* ------------------------------- channels ------------------------------- *)

\* The arithmetic of the ring: a sum of a position and a count wraps once.
LEMMA Wrap ==
  ASSUME NEW C \in Nat \ {0}, NEW a \in 0..(C - 1), NEW b \in 0..C
  PROVE  /\ (a + b) % C = IF a + b >= C THEN a + b - C ELSE a + b
         /\ (a + b) % C \in 0..(C - 1)
BY SMT

\* Adding to or removing from a part of a finite set changes its size by one.
LEMMA Count ==
  ASSUME NEW S, IsFiniteSet(S), NEW A \in SUBSET S, NEW x \in S
  PROVE  /\ IsFiniteSet(A)
         /\ Cardinality(A) \in Nat
         /\ Cardinality(A \cup {x}) = IF x \in A THEN Cardinality(A) ELSE Cardinality(A) + 1
         /\ Cardinality(A \ {x}) = IF x \in A THEN Cardinality(A) - 1 ELSE Cardinality(A)
BY FS_Subset, FS_CardinalityType, FS_AddElement, FS_RemoveElement

\* Without one of its members a finite set is at most one smaller.
LEMMA CountWithout ==
  ASSUME NEW S, IsFiniteSet(S), NEW A \in SUBSET S, NEW x \in S
  PROVE  /\ Cardinality(A) \in Nat
         /\ Cardinality(A \ {x}) \in Nat
         /\ Cardinality(A \ {x}) >= Cardinality(A) - 1
<1>1. A \ {x} \in SUBSET S
  OBVIOUS
<1>2. Cardinality(A \ {x}) \in Nat
  BY <1>1, Count
<1>3. /\ Cardinality(A) \in Nat
      /\ Cardinality(A \ {x}) = IF x \in A THEN Cardinality(A) - 1 ELSE Cardinality(A)
  BY FS_Subset, FS_CardinalityType, FS_RemoveElement
<1>4. QED
  BY <1>2, <1>3

\* A new channel is empty and nobody is inside it.
LEMMA InitInv == Init => ChannelInv
<1> SUFFICES ASSUME Init PROVE ChannelInv
  OBVIOUS
<1>1. TypeOK
  <2>1. closed \in BOOLEAN
    BY DEF Init
  <2>2. QED
    BY <2>1, ThreadChannelAssumption DEF Init, TypeOK
<1>2. RingShape
  BY ThreadChannelAssumption, Wrap DEF Init, RingShape
<1>3. WaitingIn(Threads) = {} /\ WaitingIn(Senders) = {} /\ WaitingIn(Receivers) = {}
  BY DEF Init, WaitingIn, Threads
<1>4. QED
  BY <1>1, <1>2, <1>3 DEF ChannelInv, NoLostWakeup, ReceiversSignalled, SendersSignalled,
                          NobodySleepsOnClosed, Init

\* Going to sleep: only on an open channel that has nothing for the caller.
LEMMA BlocksInv ==
  ASSUME ChannelInv, NEW t \in Threads, NEW a \in Values \cup Waits, ~closed,
         Blocks(t, a),
         t \in Senders => count >= Capacity,
         t \in Receivers => count = 0
  PROVE  ChannelInv'
<1> USE DEF ChannelInv
<1>1. TypeOK' /\ RingShape' /\ NobodySleepsOnClosed'
  BY DEF TypeOK, RingShape, NobodySleepsOnClosed, Blocks
<1>2. ReceiversSignalled'
  <2>1. CASE t \in Receivers
    <3>1. Cardinality(AwakeIn(Receivers)') \in Nat
      BY <2>1, Count, ThreadChannelAssumption DEF AwakeIn
    <3>2. QED
      BY <3>1, <2>1 DEF ReceiversSignalled, Blocks, TypeOK
  <2>2. CASE t \notin Receivers
    BY <2>2 DEF ReceiversSignalled, NoLostWakeup, AwakeIn, WaitingIn, Blocks, TypeOK, Threads
  <2>3. QED
    BY <2>1, <2>2
<1>3. SendersSignalled'
  <2>1. CASE t \in Senders
    <3>1. Cardinality(AwakeIn(Senders)') \in Nat
      BY <2>1, Count, ThreadChannelAssumption DEF AwakeIn
    <3>2. QED
      BY <3>1, <2>1, ThreadChannelAssumption DEF SendersSignalled, Blocks, TypeOK
  <2>2. CASE t \notin Senders
    BY <2>2 DEF SendersSignalled, NoLostWakeup, AwakeIn, WaitingIn, Blocks, TypeOK, Threads
  <2>3. QED
    BY <2>1, <2>2
<1>4. QED
  BY <1>1, <1>2, <1>3 DEF NoLostWakeup

\* Returning without a change of the ring, when nobody can be asleep for it.
LEMMA LeavesInv ==
  ASSUME ChannelInv, NEW t \in Threads, pc[t] # "waiting",
         pc' = [pc EXCEPT ![t] = "idle"],
         NEW answer \in {"closed", "empty"}, Returns(t, answer),
         UNCHANGED <<ring, head, tail, count, closed>>,
         closed \/ (t \in Receivers /\ count = 0)
  PROVE  ChannelInv'
<1> USE DEF ChannelInv
<1>1. TypeOK' /\ RingShape'
  BY DEF TypeOK, RingShape, Returns
<1>2. WaitingIn(Threads)' = WaitingIn(Threads)
  BY DEF WaitingIn, TypeOK
<1>3. CASE closed
  <2>1. WaitingIn(Senders)' = {} /\ WaitingIn(Receivers)' = {}
    BY <1>2, <1>3 DEF NobodySleepsOnClosed, WaitingIn, Threads
  <2>2. QED
    BY <2>1, <1>1, <1>2 DEF NobodySleepsOnClosed, NoLostWakeup, ReceiversSignalled, SendersSignalled
<1>4. CASE t \in Receivers /\ count = 0
  <2>1. Cardinality(AwakeIn(Receivers)') \in Nat
    BY <1>4, Count, ThreadChannelAssumption DEF AwakeIn
  <2>2. ReceiversSignalled'
    BY <2>1, <1>4 DEF ReceiversSignalled, TypeOK
  <2>3. SendersSignalled'
    <3>1. AwakeIn(Senders)' = AwakeIn(Senders) /\ WaitingIn(Senders)' = WaitingIn(Senders)
      BY <1>4, ThreadChannelAssumption DEF AwakeIn, WaitingIn, TypeOK, Threads
    <3>2. QED
      BY <3>1 DEF SendersSignalled, NoLostWakeup
  <2>4. QED
    BY <1>1, <1>2, <2>2, <2>3 DEF NobodySleepsOnClosed, NoLostWakeup
<1>5. QED
  BY <1>3, <1>4

\* Storing a value: one slot less and one value more, and a sleeping receiver is
\* woken for it.
LEMMA SendStoresInv ==
  ASSUME ChannelInv, NEW t \in Senders, pc[t] # "waiting",
         NEW v \in Values, SendStores(t, v)
  PROVE  ChannelInv'
<1> USE DEF ChannelInv
<1>1. /\ t \in Threads /\ t \notin Receivers
      /\ \A r \in Receivers : r \in Threads /\ r \notin Senders
  BY ThreadChannelAssumption DEF Threads
<1>2. /\ pc' \in [Threads -> {"idle", "waiting", "awake", "expired"}]
      /\ \A s \in Senders : pc'[s] = IF s = t THEN "idle" ELSE pc[s]
      /\ WaitingIn(Threads)' \subseteq WaitingIn(Threads)
  BY <1>1 DEF SendStores, SignalOne, WaitingIn, TypeOK, Threads
<1>3. TypeOK'
  <2>1. tail' \in 0..(Capacity - 1)
    BY Wrap, ThreadChannelAssumption DEF SendStores, TypeOK
  <2>2. count' \in 0..Capacity
    BY ThreadChannelAssumption DEF SendStores, TypeOK
  <2>3. QED
    BY <2>1, <2>2, <1>2, <1>1 DEF SendStores, TypeOK, Returns
<1>4. RingShape'
  <2>1. /\ head \in 0..(Capacity - 1) /\ count \in 0..(Capacity - 1) /\ Capacity \in Nat \ {0}
        /\ tail \in 0..(Capacity - 1)
    BY ThreadChannelAssumption DEF SendStores, TypeOK
  <2>2. (head + (count + 1)) % Capacity = (tail + 1) % Capacity
    <3>1. tail = IF head + count >= Capacity THEN head + count - Capacity ELSE head + count
      BY <2>1 DEF RingShape
    <3>2. (head + (count + 1)) % Capacity = IF head + (count + 1) >= Capacity
                                            THEN head + (count + 1) - Capacity ELSE head + (count + 1)
      BY <2>1
    <3>3. (tail + 1) % Capacity = IF tail + 1 >= Capacity THEN tail + 1 - Capacity ELSE tail + 1
      BY <2>1
    <3>4. QED
      BY <3>1, <3>2, <3>3, <2>1
  <2>3. QED
    BY <2>2 DEF RingShape, SendStores
<1>5. ReceiversSignalled'
  <2>1. CASE WaitingIn(Receivers) = {}
    <3>1. WaitingIn(Receivers)' = {}
      BY <2>1, <1>1 DEF SendStores, SignalOne, WaitingIn, TypeOK
    <3>2. QED
      BY <3>1 DEF ReceiversSignalled
  <2>2. CASE WaitingIn(Receivers) # {}
    <3>1. PICK u \in WaitingIn(Receivers) : pc' = [pc EXCEPT ![t] = "idle", ![u] = "awake"]
      BY <2>2 DEF SendStores, SignalOne
    <3>2. /\ AwakeIn(Receivers)' = AwakeIn(Receivers) \cup {u}
          /\ u \in Receivers /\ u \notin AwakeIn(Receivers)
      BY <3>1, <1>1 DEF AwakeIn, WaitingIn, TypeOK
    <3>3. Cardinality(AwakeIn(Receivers)') = Cardinality(AwakeIn(Receivers)) + 1
      BY <3>2, Count, ThreadChannelAssumption DEF AwakeIn
    <3>4. Cardinality(AwakeIn(Receivers)) \in Nat
      BY <3>2, Count, ThreadChannelAssumption DEF AwakeIn
    <3>5. count <= Cardinality(AwakeIn(Receivers))
      BY <2>2 DEF NoLostWakeup, ReceiversSignalled
    <3>6. QED
      BY <3>3, <3>4, <3>5 DEF ReceiversSignalled, SendStores, TypeOK
  <2>3. QED
    BY <2>1, <2>2
<1>6. SendersSignalled'
  <2>1. /\ AwakeIn(Senders)' = AwakeIn(Senders) \ {t}
        /\ WaitingIn(Senders)' = WaitingIn(Senders)
    BY <1>2 DEF AwakeIn, WaitingIn
  <2>2. /\ Cardinality(AwakeIn(Senders)') >= Cardinality(AwakeIn(Senders)) - 1
        /\ Cardinality(AwakeIn(Senders)) \in Nat /\ Cardinality(AwakeIn(Senders)') \in Nat
    <3>1. AwakeIn(Senders) \in SUBSET Senders
      BY DEF AwakeIn
    <3>2. QED
      BY <3>1, <2>1, CountWithout, ThreadChannelAssumption
  <2>3. QED
    BY <2>1, <2>2, ThreadChannelAssumption DEF SendersSignalled, NoLostWakeup, SendStores, TypeOK
<1>7. NobodySleepsOnClosed'
  BY <1>2 DEF NobodySleepsOnClosed, SendStores
<1>8. QED
  BY <1>3, <1>4, <1>5, <1>6, <1>7 DEF NoLostWakeup

\* Taking a value: the mirror image, for the senders.
LEMMA RecvTakesInv ==
  ASSUME ChannelInv, NEW t \in Receivers, pc[t] # "waiting", RecvTakes(t)
  PROVE  ChannelInv'
<1> USE DEF ChannelInv
<1>1. /\ t \in Threads /\ t \notin Senders
      /\ \A s \in Senders : s \in Threads /\ s \notin Receivers
  BY ThreadChannelAssumption DEF Threads
<1>2. /\ pc' \in [Threads -> {"idle", "waiting", "awake", "expired"}]
      /\ \A r \in Receivers : pc'[r] = IF r = t THEN "idle" ELSE pc[r]
      /\ WaitingIn(Threads)' \subseteq WaitingIn(Threads)
  BY <1>1 DEF RecvTakes, SignalOne, WaitingIn, TypeOK, Threads
<1>3. TypeOK'
  <2>1. head' \in 0..(Capacity - 1)
    BY Wrap, ThreadChannelAssumption DEF RecvTakes, TypeOK
  <2>2. count' \in 0..Capacity
    BY ThreadChannelAssumption DEF RecvTakes, TypeOK
  <2>3. ring[head] \in Values
    BY DEF TypeOK
  <2>4. QED
    BY <2>1, <2>2, <2>3, <1>2, <1>1 DEF RecvTakes, TypeOK, Returns
<1>4. RingShape'
  <2>1. /\ head \in 0..(Capacity - 1) /\ count \in 1..Capacity /\ Capacity \in Nat \ {0}
        /\ count - 1 \in 0..Capacity
    BY ThreadChannelAssumption DEF RecvTakes, TypeOK
  <2> DEFINE h == (head + 1) % Capacity
  <2>2. h \in 0..(Capacity - 1) /\ h = IF head + 1 >= Capacity THEN head + 1 - Capacity ELSE head + 1
    BY <2>1
  <2> HIDE DEF h
  <2>3. (h + (count - 1)) % Capacity = IF h + (count - 1) >= Capacity
                                       THEN h + (count - 1) - Capacity ELSE h + (count - 1)
    BY <2>1, <2>2, Wrap
  <2>4. tail = IF head + count >= Capacity THEN head + count - Capacity ELSE head + count
    BY <2>1 DEF RingShape
  <2>5. tail = (h + (count - 1)) % Capacity
    BY <2>1, <2>2, <2>3, <2>4
  <2>6. QED
    BY <2>5 DEF RingShape, RecvTakes, h
<1>5. SendersSignalled'
  <2>1. CASE WaitingIn(Senders) = {}
    <3>1. WaitingIn(Senders)' = {}
      BY <2>1, <1>1 DEF RecvTakes, SignalOne, WaitingIn, TypeOK
    <3>2. QED
      BY <3>1 DEF SendersSignalled
  <2>2. CASE WaitingIn(Senders) # {}
    <3>1. PICK u \in WaitingIn(Senders) : pc' = [pc EXCEPT ![t] = "idle", ![u] = "awake"]
      BY <2>2 DEF RecvTakes, SignalOne
    <3>2. /\ AwakeIn(Senders)' = AwakeIn(Senders) \cup {u}
          /\ u \in Senders /\ u \notin AwakeIn(Senders)
      BY <3>1, <1>1 DEF AwakeIn, WaitingIn, TypeOK
    <3>3. /\ Cardinality(AwakeIn(Senders)') = Cardinality(AwakeIn(Senders)) + 1
          /\ Cardinality(AwakeIn(Senders)) \in Nat
      <4>1. AwakeIn(Senders) \in SUBSET Senders
        BY DEF AwakeIn
      <4>2. QED
        BY <4>1, <3>2, Count, ThreadChannelAssumption
    <3>4. Capacity - count <= Cardinality(AwakeIn(Senders))
      BY <2>2 DEF NoLostWakeup, SendersSignalled
    <3>5. QED
      BY <3>3, <3>4, ThreadChannelAssumption DEF SendersSignalled, RecvTakes, TypeOK
  <2>3. QED
    BY <2>1, <2>2
<1>6. ReceiversSignalled'
  <2>1. /\ AwakeIn(Receivers)' = AwakeIn(Receivers) \ {t}
        /\ WaitingIn(Receivers)' = WaitingIn(Receivers)
    BY <1>2 DEF AwakeIn, WaitingIn
  <2>2. /\ Cardinality(AwakeIn(Receivers)') >= Cardinality(AwakeIn(Receivers)) - 1
        /\ Cardinality(AwakeIn(Receivers)) \in Nat /\ Cardinality(AwakeIn(Receivers)') \in Nat
    <3>1. AwakeIn(Receivers) \in SUBSET Receivers
      BY DEF AwakeIn
    <3>2. QED
      BY <3>1, <2>1, CountWithout, ThreadChannelAssumption
  <2>3. QED
    BY <2>1, <2>2 DEF ReceiversSignalled, NoLostWakeup, RecvTakes, TypeOK
<1>7. NobodySleepsOnClosed'
  BY <1>2 DEF NobodySleepsOnClosed, RecvTakes
<1>8. QED
  BY <1>3, <1>4, <1>5, <1>6, <1>7 DEF NoLostWakeup

\* A wake-up, spurious or by a timeout, adds a thread that will look again.
LEMMA WakesInv ==
  ASSUME ChannelInv, NEW t \in Threads, pc[t] = "waiting",
         NEW label \in {"awake", "expired"}, pc' = [pc EXCEPT ![t] = label],
         UNCHANGED <<ring, head, tail, count, closed, arg, ret>>
  PROVE  ChannelInv'
<1> USE DEF ChannelInv
<1>1. TypeOK' /\ RingShape'
  BY DEF TypeOK, RingShape
<1>2. NobodySleepsOnClosed'
  BY DEF NobodySleepsOnClosed, WaitingIn, TypeOK
<1>3. ASSUME NEW S \in {Senders, Receivers}
      PROVE  /\ WaitingIn(S)' \subseteq WaitingIn(S)
             /\ Cardinality(AwakeIn(S)) \in Nat
             /\ Cardinality(AwakeIn(S)') \in Nat
             /\ Cardinality(AwakeIn(S)') >= Cardinality(AwakeIn(S))
  <2>1. S \subseteq Threads /\ IsFiniteSet(S)
    BY ThreadChannelAssumption DEF Threads
  <2>2. WaitingIn(S)' \subseteq WaitingIn(S) /\ AwakeIn(S) \subseteq AwakeIn(S)'
    BY <2>1 DEF WaitingIn, AwakeIn, TypeOK
  <2>3. AwakeIn(S)' \subseteq S
    BY DEF AwakeIn
  <2>4. QED
    BY <2>1, <2>2, <2>3, FS_Subset, FS_CardinalityType
<1>4. ReceiversSignalled'
  BY <1>3 DEF ReceiversSignalled, NoLostWakeup, TypeOK
<1>5. SendersSignalled'
  BY <1>3, ThreadChannelAssumption DEF SendersSignalled, NoLostWakeup, TypeOK
<1>6. QED
  BY <1>1, <1>2, <1>4, <1>5 DEF NoLostWakeup

\* Close empties both wait queues.
LEMMA CloseInv == ASSUME ChannelInv, ChannelClose PROVE ChannelInv'
<1> USE DEF ChannelInv
<1>1. TypeOK'
  <2>1. closed' \in BOOLEAN
    BY DEF ChannelClose
  <2>2. pc' \in [Threads -> {"idle", "waiting", "awake", "expired"}]
    BY DEF ChannelClose, TypeOK
  <2>3. QED
    BY <2>1, <2>2 DEF TypeOK, ChannelClose
<1>2. RingShape'
  BY DEF RingShape, ChannelClose
<1>3. WaitingIn(Threads)' = {} /\ WaitingIn(Senders)' = {} /\ WaitingIn(Receivers)' = {}
  BY DEF WaitingIn, ChannelClose, Threads
<1>4. QED
  BY <1>1, <1>2, <1>3 DEF NoLostWakeup, ReceiversSignalled, SendersSignalled, NobodySleepsOnClosed

\* Every step keeps the invariant.
LEMMA NextInv == ChannelInv /\ [Next]_vars => ChannelInv'
<1> SUFFICES ASSUME ChannelInv, [Next]_vars PROVE ChannelInv'
  OBVIOUS
<1>0. Senders \subseteq Threads /\ Receivers \subseteq Threads
  BY DEF Threads
<1>1. CASE \E t \in Senders : ChannelSend(t)
  <2>1. PICK t \in Senders, v \in Values :
           Enters(t, v) /\ (SendWaits(t, v) \/ SendRefused(t) \/ SendStores(t, v))
    BY <1>1 DEF ChannelSend
  <2>2. pc[t] # "waiting"
    BY <2>1 DEF Enters
  <2>3. CASE SendWaits(t, v)
    BY <1>0, <2>3, BlocksInv, ThreadChannelAssumption DEF SendWaits
  <2>4. CASE SendRefused(t)
    BY <1>0, <2>2, <2>4, LeavesInv DEF SendRefused
  <2>5. CASE SendStores(t, v)
    BY <2>2, <2>5, SendStoresInv
  <2>6. QED
    BY <2>1, <2>3, <2>4, <2>5
<1>2. CASE \E t \in Receivers : ChannelRecv(t)
  <2>1. PICK t \in Receivers, h \in Waits :
           Enters(t, h) /\ (RecvWaits(t, h) \/ RecvTakes(t) \/ RecvFails(t, h))
    BY <1>2 DEF ChannelRecv
  <2>2. pc[t] # "waiting"
    BY <2>1 DEF Enters
  <2>3. CASE RecvWaits(t, h)
    BY <1>0, <2>3, BlocksInv, ThreadChannelAssumption DEF RecvWaits
  <2>4. CASE RecvTakes(t)
    BY <2>2, <2>4, RecvTakesInv
  <2>5. CASE RecvFails(t, h)
    <3>1. PICK answer \in {"closed", "empty"} : Returns(t, answer)
      BY <2>5 DEF RecvFails
    <3>2. QED
      BY <1>0, <2>2, <2>5, <3>1, LeavesInv DEF RecvFails
  <2>6. QED
    BY <2>1, <2>3, <2>4, <2>5
<1>3. CASE \E t \in Receivers : TimedOut(t)
  BY <1>0, <1>3, WakesInv DEF TimedOut
<1>4. CASE \E t \in Threads : SpuriousWakeup(t)
  BY <1>4, WakesInv DEF SpuriousWakeup
<1>5. CASE ChannelClose
  BY <1>5, CloseInv
<1>6. CASE UNCHANGED vars
  BY <1>6 DEF vars, ChannelInv, TypeOK, RingShape, NoLostWakeup, ReceiversSignalled, SendersSignalled,
              NobodySleepsOnClosed, WaitingIn, AwakeIn
<1>7. QED
  BY <1>1, <1>2, <1>3, <1>4, <1>5, <1>6 DEF Next

\* The types, the ring's arithmetic and the accounting of wake-ups hold always.
THEOREM ChannelInvariant == Spec => []ChannelInv
<1>1. QED
  BY InitInv, NextInv, PTL DEF Spec

\* No wake-up is lost, with one signal per value and per free slot, for any
\* number of senders and receivers.
THEOREM ChannelNoLostWakeup == Spec => []NoLostWakeup
<1>1. ChannelInv => NoLostWakeup
  BY DEF ChannelInv
<1>2. QED
  BY <1>1, ChannelInvariant, PTL

-----------------------------------------------------------------------------
(***************************************************************************)
(* The ring is a queue.                                                    *)
(***************************************************************************)
\* A finite sequence given by its elements.
LEMMA FunctionSeq ==
  ASSUME NEW n \in Nat, NEW S, NEW f \in [1..n -> S]
  PROVE  f \in Seq(S) /\ Len(f) = n
BY SMT

\* Queue has count elements: the ring's, from head on.
LEMMA QueueSeq ==
  ASSUME TypeOK
  PROVE  /\ Queue \in Seq(Values)
         /\ Len(Queue) = count
         /\ \A k \in 1..count : Queue[k] = ring[(head + k - 1) % Capacity]
<1>1. count \in Nat
  BY ThreadChannelAssumption DEF TypeOK
<1>2. \A k \in 1..count : (head + k - 1) % Capacity \in 0..(Capacity - 1)
  BY ThreadChannelAssumption DEF TypeOK
<1>3. Queue \in [1..count -> Values]
  BY <1>2 DEF Queue, TypeOK
<1>4. QED
  BY <1>1, <1>3, FunctionSeq DEF Queue

\* Storing at tail appends.
LEMMA StoreAppends ==
  ASSUME ChannelInv, ChannelInv', NEW v \in Values, count < Capacity,
         ring' = [ring EXCEPT ![tail] = v], count' = count + 1, head' = head
  PROVE  Queue' = Append(Queue, v)
<1> USE DEF ChannelInv
<1>1. /\ Queue \in Seq(Values) /\ Len(Queue) = count
      /\ \A k \in 1..count : Queue[k] = ring[(head + k - 1) % Capacity]
  BY QueueSeq
<1>2. /\ Queue' \in Seq(Values) /\ Len(Queue') = count + 1
      /\ \A k \in 1..(count + 1) : Queue'[k] = ring'[(head + k - 1) % Capacity]
  <2>1. Queue' \in [1..(count + 1) -> Values]
    <3>1. \A k \in 1..(count + 1) : (head + k - 1) % Capacity \in 0..(Capacity - 1)
      BY ThreadChannelAssumption DEF TypeOK
    <3>2. QED
      BY <3>1 DEF Queue, TypeOK
  <2>2. count + 1 \in Nat
    BY ThreadChannelAssumption DEF TypeOK
  <2>3. QED
    BY <2>1, <2>2, FunctionSeq DEF Queue
<1>3. /\ Append(Queue, v) \in Seq(Values) /\ Len(Append(Queue, v)) = count + 1
      /\ \A k \in 1..count : Append(Queue, v)[k] = Queue[k]
      /\ Append(Queue, v)[count + 1] = v
  BY <1>1
<1>4. ASSUME NEW k \in 1..(count + 1) PROVE Queue'[k] = Append(Queue, v)[k]
  <2>1. /\ head \in 0..(Capacity - 1) /\ count \in 0..(Capacity - 1) /\ Capacity \in Nat \ {0}
    BY ThreadChannelAssumption DEF TypeOK
  <2>2. CASE k = count + 1
    <3>1. (head + k - 1) % Capacity = tail
      BY <2>1, <2>2 DEF RingShape
    <3>2. QED
      BY <3>1, <2>2, <1>2, <1>3 DEF TypeOK
  <2>3. CASE k \in 1..count
    <3>1. (head + k - 1) % Capacity # tail
      <4>1. tail = IF head + count >= Capacity THEN head + count - Capacity ELSE head + count
        BY <2>1 DEF RingShape
      <4>2. (head + k - 1) % Capacity = IF head + k - 1 >= Capacity THEN head + k - 1 - Capacity
                                        ELSE head + k - 1
        BY <2>1, <2>3
      <4>3. QED
        BY <4>1, <4>2, <2>1, <2>3
    <3>2. (head + k - 1) % Capacity \in 0..(Capacity - 1)
      BY <2>1, <2>3
    <3>3. QED
      BY <3>1, <3>2, <2>3, <1>1, <1>2, <1>3 DEF TypeOK
  <2>4. k = count + 1 \/ k \in 1..count
    BY <2>1
  <2>5. QED
    BY <2>2, <2>3, <2>4
<1>5. QED
  BY <1>2, <1>3, <1>4, SeqEqual

\* Advancing head drops the first element.
LEMMA TakeIsTail ==
  ASSUME ChannelInv, ChannelInv', count > 0,
         ring' = ring, count' = count - 1, head' = (head + 1) % Capacity
  PROVE  Queue # <<>> /\ ring[head] = Head(Queue) /\ Queue' = Tail(Queue)
<1> USE DEF ChannelInv
<1>0. /\ head \in 0..(Capacity - 1) /\ count \in 1..Capacity /\ Capacity \in Nat \ {0}
  BY ThreadChannelAssumption DEF TypeOK
<1>1. /\ Queue \in Seq(Values) /\ Len(Queue) = count
      /\ \A k \in 1..count : Queue[k] = ring[(head + k - 1) % Capacity]
  BY QueueSeq
<1>2. /\ Queue' \in Seq(Values) /\ Len(Queue') = count - 1
      /\ \A k \in 1..(count - 1) : Queue'[k] = ring[(head' + k - 1) % Capacity]
  <2>1. Queue' \in [1..(count - 1) -> Values]
    <3>1. \A k \in 1..(count - 1) : (head' + k - 1) % Capacity \in 0..(Capacity - 1)
      BY ThreadChannelAssumption DEF TypeOK
    <3>2. QED
      BY <3>1 DEF Queue, TypeOK
  <2>2. count - 1 \in Nat
    BY <1>0
  <2>3. QED
    BY <2>1, <2>2, FunctionSeq DEF Queue
<1>3. Queue # <<>>
  BY <1>0, <1>1
<1>4. ring[head] = Head(Queue)
  <2>1. (head + 1 - 1) % Capacity = head
    BY <1>0
  <2>2. Head(Queue) = Queue[1]
    BY <1>1, <1>3
  <2>3. QED
    BY <2>1, <2>2, <1>0, <1>1
<1>5. /\ Tail(Queue) \in Seq(Values) /\ Len(Tail(Queue)) = count - 1
      /\ \A k \in 1..(count - 1) : Tail(Queue)[k] = Queue[k + 1]
  BY <1>1, <1>3, HeadTailProperties
<1>6. ASSUME NEW k \in 1..(count - 1) PROVE Queue'[k] = Tail(Queue)[k]
  <2>1. (head' + k - 1) % Capacity = (head + (k + 1) - 1) % Capacity
    <3> DEFINE h == (head + 1) % Capacity
    <3>1. h \in 0..(Capacity - 1) /\ h = IF head + 1 >= Capacity THEN head + 1 - Capacity ELSE head + 1
      BY <1>0
    <3> HIDE DEF h
    <3>2. (h + k - 1) % Capacity = IF h + k - 1 >= Capacity THEN h + k - 1 - Capacity ELSE h + k - 1
      BY <1>0, <3>1
    <3>3. (head + (k + 1) - 1) % Capacity = IF head + k >= Capacity THEN head + k - Capacity
                                            ELSE head + k
      BY <1>0
    <3>4. (h + k - 1) % Capacity = (head + (k + 1) - 1) % Capacity
      BY <1>0, <3>1, <3>2, <3>3
    <3>5. QED
      BY <3>4 DEF h
  <2>2. k + 1 \in 1..count
    BY <1>0
  <2>3. QED
    BY <2>1, <2>2, <1>1, <1>2, <1>5
<1>7. QED
  BY <1>2, <1>3, <1>4, <1>5, <1>6, SeqEqual

\* A step of the channel is a step of the queue, or leaves it alone.
LEMMA NextRefines ==
  ASSUME ChannelInv, ChannelInv', [Next]_vars
  PROVE  [Fifo!Next]_(Fifo!vars)
<1>0. TypeOK /\ Senders \subseteq Threads /\ Receivers \subseteq Threads
  BY DEF Threads, ChannelInv
<1>1. ASSUME UNCHANGED <<ring, head, count, closed, ret>>
      PROVE  UNCHANGED Fifo!vars
  BY <1>1 DEF Queue, Fifo!vars
<1>2. ASSUME NEW t \in Senders, NEW v \in Values, SendStores(t, v)
      PROVE  Fifo!Next
  <2>1. Queue' = Append(Queue, v)
    BY <1>2, StoreAppends DEF SendStores
  <2>2. Len(Queue) < Capacity
    BY <1>0, <1>2, QueueSeq DEF SendStores
  <2>3. Fifo!Send(t, v)
    BY <1>2, <2>1, <2>2 DEF SendStores, Returns, Fifo!Send, Fifo!Returns
  <2>4. QED
    BY <2>3 DEF Fifo!Next
<1>3. ASSUME NEW t \in Receivers, RecvTakes(t)
      PROVE  Fifo!Next
  <2>1. Queue # <<>> /\ ring[head] = Head(Queue) /\ Queue' = Tail(Queue)
    BY <1>3, TakeIsTail DEF RecvTakes
  <2>2. Fifo!Receive(t)
    BY <1>3, <2>1 DEF RecvTakes, Returns, Fifo!Receive, Fifo!Returns
  <2>3. QED
    BY <2>2 DEF Fifo!Next
<1>4. ASSUME NEW t \in Senders, SendRefused(t)
      PROVE  Fifo!Next
  <2>1. Fifo!Refuse(t)
    BY <1>4 DEF SendRefused, Returns, Queue, Fifo!Refuse, Fifo!Returns
  <2>2. QED
    BY <2>1 DEF Fifo!Next
<1>5. ASSUME NEW t \in Receivers, NEW h, RecvFails(t, h)
      PROVE  Fifo!Next
  <2>1. Queue = <<>>
    BY <1>0, <1>5, QueueSeq, EmptySeq DEF RecvFails
  <2>2. Fifo!Fail(t)
    BY <1>5, <2>1 DEF RecvFails, Returns, Queue, Fifo!Fail, Fifo!Returns
  <2>3. QED
    BY <2>2 DEF Fifo!Next
<1>6. CASE \E t \in Senders : ChannelSend(t)
  BY <1>6, <1>1, <1>2, <1>4 DEF ChannelSend, SendWaits, Blocks
<1>7. CASE \E t \in Receivers : ChannelRecv(t)
  BY <1>7, <1>1, <1>3, <1>5 DEF ChannelRecv, RecvWaits, Blocks
<1>8. CASE ChannelClose
  <2>1. Fifo!Close
    BY <1>8 DEF ChannelClose, Queue, Fifo!Close
  <2>2. QED
    BY <2>1 DEF Fifo!Next
<1>9. CASE \/ \E t \in Receivers : TimedOut(t)
           \/ \E t \in Threads : SpuriousWakeup(t)
           \/ UNCHANGED vars
  BY <1>9, <1>1 DEF TimedOut, SpuriousWakeup, vars
<1>10. QED
  BY <1>6, <1>7, <1>8, <1>9 DEF Next

\* The ring with its mutex and conditions implements the closable bounded queue:
\* values come out in the order they went in, each once, wrap-around included;
\* send is refused exactly on a closed channel, and a closed channel is drained.
THEOREM ChannelRefinesFifo == Spec => FifoSpec
<1>1. Init => Fifo!Init
  <2> SUFFICES ASSUME Init PROVE Fifo!Init
    OBVIOUS
  <2>1. TypeOK
    BY InitInv DEF ChannelInv
  <2>2. Queue = <<>>
    BY <2>1, QueueSeq, EmptySeq DEF Init
  <2>3. QED
    BY <2>2 DEF Init, Fifo!Init, Threads
<1>2. QED
  BY <1>1, NextRefines, ChannelInvariant, PTL DEF Spec, FifoSpec, Fifo!Spec

(* ---------------------------- thread handles ---------------------------- *)

\* No call has been made on the handle at the start.
LEMMA HandleInit == TH!Init => TH!HandleInv
BY DEF TH!Init, TH!HandleInv, TH!NoUseAfterFree, TH!TypeOK

\* Whoever touches the struct touches a live one.
LEMMA TouchLive ==
  ASSUME NEW t, TH!HandleInv, handle # "freed", TH!Touch(t)
  PROVE  dangling' = {}
BY DEF TH!Touch, TH!HandleInv, TH!NoUseAfterFree

\* What a join does between taking the mutex and giving it up.
LEMMA JoinStepInv ==
  ASSUME TH!HandleInv, NEW j \in Joiners, NEW h, handle = "live", TH!JoinStep(j, h)
  PROVE  TH!HandleInv'
<1>1. dangling' = {} /\ UNCHANGED <<handle, finished, proxy, os>>
  BY TouchLive DEF TH!JoinStep
<1>2. CASE TH!JoinSucceeds(j)
  BY <1>1, <1>2 DEF TH!HandleInv, TH!NoUseAfterFree, TH!TypeOK, TH!JoinSucceeds
<1>3. CASE TH!JoinWaits(j, h)
  BY <1>1, <1>3 DEF TH!HandleInv, TH!NoUseAfterFree, TH!TypeOK, TH!JoinWaits
<1>4. CASE TH!JoinTimesOut(j, h)
  BY <1>1, <1>4 DEF TH!HandleInv, TH!NoUseAfterFree, TH!TypeOK, TH!JoinTimesOut
<1>5. QED
  BY <1>2, <1>3, <1>4 DEF TH!JoinStep

\* Each step of the handle, the proxy and the joiners keeps the invariant.
LEMMA HandleStep == TH!HandleInv /\ TH!Next => TH!HandleInv'
<1> SUFFICES ASSUME TH!HandleInv, TH!Next PROVE TH!HandleInv'
  OBVIOUS
<1> USE DEF TH!HandleInv, TH!NoUseAfterFree, TH!TypeOK
<1>1. CASE TH!Spawn
  BY <1>1 DEF TH!Spawn
<1>2. CASE TH!ProxyCalls
  <2>1. dangling' = {}
    BY <1>2, TouchLive DEF TH!ProxyCalls
  <2>2. QED
    BY <1>2, <2>1 DEF TH!ProxyCalls
<1>3. CASE TH!ProxyPublishes
  <2>1. handle = "live"
    BY <1>3 DEF TH!ProxyPublishes
  <2>2. dangling' = {}
    BY <1>3, <2>1, TouchLive DEF TH!ProxyPublishes
  <2>3. h_pc' \in [Joiners -> {"idle", "waiting", "awake", "expired"}]
    BY <1>3 DEF TH!ProxyPublishes
  <2>4. QED
    BY <1>3, <2>1, <2>2, <2>3 DEF TH!ProxyPublishes
<1>4. CASE TH!ThreadExits
  BY <1>4 DEF TH!ThreadExits
<1>5. CASE TH!ThreadFree
  BY <1>5 DEF TH!ThreadFree
<1>6. ASSUME NEW j \in Joiners, TH!Join(j) PROVE TH!HandleInv'
  BY <1>6, JoinStepInv DEF TH!Join
<1>7. ASSUME NEW j \in Joiners, TH!JoinResumes(j) PROVE TH!HandleInv'
  <2>1. handle = "live"
    BY <1>7 DEF TH!JoinResumes
  <2>2. QED
    BY <1>7, <2>1, JoinStepInv DEF TH!JoinResumes
<1>8. ASSUME NEW j \in Joiners, TH!Wakeup(j) PROVE TH!HandleInv'
  BY <1>8 DEF TH!Wakeup
<1>9. QED
  BY <1>1, <1>2, <1>3, <1>4, <1>5, <1>6, <1>7, <1>8 DEF TH!Next

(* ------------------------- datara_parallel_for -------------------------- *)

\* The division of ChunkSize rounds up: num_cores chunks of this size are enough.
LEMMA RoundsUp ==
  ASSUME NEW m \in Int, NEW n \in Int, m > 0, n > 0
  PROVE  LET c == (m + n - 1) \div n IN c \in Int /\ c > 0 /\ n * c >= m
OBVIOUS

\* The numbers the loop works with.
LEMMA ForTypes ==
  ASSUME PF!ParallelForInv, PF!ThreadParallelAssumption, for_pc \in {"split", "first", "join"}
  PROVE  /\ start \in Int /\ end \in Int /\ cur \in Int /\ start < end /\ cur =< end
         /\ num_cores \in Int /\ num_cores > 0 /\ num_cores =< MaxThreads /\ i \in Nat
         /\ PF!ChunkSize \in Int /\ PF!ChunkSize > 0
         /\ num_cores * PF!ChunkSize >= end - start
<1>1. /\ start \in Int /\ end \in Int /\ cur \in Int /\ start < end /\ cur =< end
      /\ num_cores \in Int /\ num_cores > 0 /\ num_cores =< MaxThreads /\ i \in Nat
  BY DEF PF!ParallelForInv, PF!ChunksInv, PF!AllIndicesRun, PF!TypeOK, PF!ThreadParallelAssumption
<1>2. end - start \in Int /\ end - start > 0
  BY <1>1
<1>3. QED
  BY <1>1, <1>2, RoundsUp DEF PF!ChunkSize

\* Nothing has run at the start.
LEMMA ForInit == PF!ThreadParallelAssumption /\ PF!Init => PF!ParallelForInv
<1> SUFFICES ASSUME PF!ThreadParallelAssumption, PF!Init PROVE PF!ParallelForInv
  OBVIOUS
<1>1. args \in [PF!Slots -> [at : Int, end : Int]]
  BY DEF PF!Init, PF!Nothing
<1>2. for_runs \in [PF!Indices -> Nat] /\ \A x \in PF!Indices : for_runs[x] = 0
  BY DEF PF!Init
<1>3. PF!TypeOK
  <2>1. num_cores \in 1..MaxThreads /\ i \in 0..MaxThreads
    BY DEF PF!ThreadParallelAssumption, PF!Init
  <2>2. /\ for_pc \in {"idle", "split", "first", "join", "returned"}
        /\ start \in Int /\ end \in Int /\ cur \in Int
        /\ threads \subseteq PF!Slots
    BY DEF PF!Init
  <2>5. failed = FALSE /\ failed \in BOOLEAN
    BY DEF PF!Init
  <2>3. for_runs \in [PF!Indices -> Nat]
    BY <1>2
  <2>4. QED
    BY <1>1, <2>1, <2>2, <2>3, <2>5 DEF PF!TypeOK
<1>4. QED
  BY <1>2, <1>3 DEF PF!Init, PF!ParallelForInv, PF!AllIndicesRun

\* The call is made: an empty range is over, a small one is one chunk, a long one
\* is to be cut.
LEMMA ForCall ==
  ASSUME PF!ParallelForInv, PF!ThreadParallelAssumption, PF!ParallelFor
  PROVE  PF!ParallelForInv'
<1>1. PICK r \in Ranges, n \in Cores :
        /\ start' = r[1] /\ end' = r[2] /\ cur' = r[1]
        /\ num_cores' = PF!Clamp(n)
        /\ IF r[1] >= r[2] THEN for_pc' = "returned" /\ UNCHANGED args
           ELSE IF r[2] - r[1] <= SeqLimit
           THEN for_pc' = "first" /\ args' = [args EXCEPT ![0] = [at |-> r[1], end |-> r[2]]]
           ELSE for_pc' = "split" /\ UNCHANGED args
  BY DEF PF!ParallelFor
<1>2. /\ for_pc = "idle" /\ UNCHANGED <<i, threads, failed, for_runs>>
      /\ i = 0 /\ threads = {} /\ ~failed /\ \A x \in PF!Indices : for_runs[x] = 0
  BY DEF PF!ParallelFor, PF!ParallelForInv
<1>3. r[1] \in Int /\ r[2] \in Int /\ r = <<r[1], r[2]>> /\ n \in Int /\ MaxThreads \in Nat \ {0}
  BY DEF PF!ThreadParallelAssumption
<1>4. PF!Clamp(n) \in 1..MaxThreads
  BY <1>3 DEF PF!Clamp
<1>5. PF!TypeOK
  BY DEF PF!ParallelForInv, PF!AllIndicesRun
<1>6. PF!TypeOK'
  <2>1. args' \in [PF!Slots -> [at : Int, end : Int]]
    BY <1>1, <1>3, <1>5 DEF PF!TypeOK
  <2>2. for_pc' \in {"first", "split", "returned"}
    BY <1>1
  <2>3. QED
    BY <1>1, <1>2, <1>3, <1>4, <1>5, <2>1, <2>2 DEF PF!TypeOK
<1>7. CASE for_pc' = "returned"
  <2>1. start' >= end' /\ \A x \in PF!Indices : x \notin start'..(end' - 1)
    BY <1>1, <1>3, <1>7
  <2>2. QED
    BY <1>2, <1>6, <1>7, <2>1 DEF PF!ParallelForInv, PF!AllIndicesRun
<1>8. CASE for_pc' = "first"
  <2>1. args'[0] = [at |-> start', end |-> end'] /\ start' < end'
    BY <1>1, <1>3, <1>5, <1>8 DEF PF!TypeOK, PF!Slots
  <2>2. PF!Chunks' = {0} /\ PF!Reach' = end' /\ PF!ChunkStart(0)' = start'
    BY <1>2, <1>8 DEF PF!Chunks, PF!Reach, PF!ChunkStart
  <2>3. cur' = start' + i' * PF!ChunkSize'
    <3>1. PF!ChunkSize' \in Int
      BY <1>1, <1>3, <1>4, RoundsUp, <2>1 DEF PF!ChunkSize
    <3>2. QED
      BY <1>1, <1>2, <1>3, <3>1
  <2>4. \A x \in PF!Indices : for_runs'[x] =
          IF \E k \in PF!Chunks' : PF!ChunkStart(k)' =< x /\ x < args'[k].at THEN 1 ELSE 0
    BY <1>1, <1>2, <1>3, <2>1, <2>2 DEF PF!Indices
  <2>5. PF!ChunksInv'
    BY <1>1, <1>2, <1>3, <1>8, <2>1, <2>2, <2>3, <2>4 DEF PF!ChunksInv
  <2>6. QED
    BY <1>6, <1>8, <2>5 DEF PF!ParallelForInv, PF!AllIndicesRun
<1>9. CASE for_pc' = "split"
  <2>1. start' < end' /\ cur' = start'
    BY <1>1, <1>3, <1>9
  <2>2. PF!Chunks' = {} /\ PF!Reach' = cur'
    BY <1>2, <1>9 DEF PF!Chunks, PF!Reach
  <2>3. cur' = start' + i' * PF!ChunkSize'
    <3>1. PF!ChunkSize' \in Int
      BY <1>1, <1>3, <1>4, RoundsUp, <2>1 DEF PF!ChunkSize
    <3>2. QED
      BY <1>1, <1>2, <1>3, <3>1
  <2>4. PF!ChunksInv'
    BY <1>1, <1>2, <1>3, <1>4, <1>9, <2>1, <2>2, <2>3 DEF PF!ChunksInv
  <2>5. QED
    BY <1>6, <1>9, <2>4 DEF PF!ParallelForInv, PF!AllIndicesRun
<1>10. QED
  BY <1>1, <1>7, <1>8, <1>9
\* A chunk is cut off the front of the rest; or the loop is left after a failed spawn.
LEMMA ForSplit ==
  ASSUME PF!ParallelForInv, PF!ThreadParallelAssumption, PF!Split
  PROVE  PF!ParallelForInv'
<1>1. /\ for_pc = "split" /\ i < num_cores /\ cur < end
      /\ args' = [args EXCEPT ![i] = [at |-> cur, end |-> PF!ChunkEnd]]
      /\ UNCHANGED <<start, end, num_cores, for_runs>>
  BY DEF PF!Split
<1>2. PF!ChunksInv /\ PF!TypeOK
  BY <1>1 DEF PF!ParallelForInv, PF!AllIndicesRun
<1> PICK n : n = i
  OBVIOUS
<1>0. failed' = (for_pc' = "first") /\ failed' \in BOOLEAN
  BY DEF PF!Split
<1> DEFINE cs == PF!ChunkSize
           E == PF!ChunkEnd
<1>3. /\ start \in Int /\ end \in Int /\ cur \in Int /\ start < end
      /\ num_cores \in Int /\ num_cores =< MaxThreads /\ i \in Nat /\ MaxThreads \in Nat
      /\ cs \in Int /\ cs > 0 /\ cs' = cs
  BY <1>1, ForTypes DEF PF!ThreadParallelAssumption, PF!ChunkSize
<1>4. E \in Int /\ cur < E /\ E =< end /\ (E = end \/ E = cur + cs)
  BY <1>1, <1>3 DEF PF!ChunkEnd
<1>5. PF!Chunks = 0..(i - 1) /\ PF!Reach = cur
  BY <1>1 DEF PF!Chunks, PF!Reach
<1>6. cur = start + i * cs
  BY <1>1, <1>2, <1>3 DEF PF!ChunksInv
<1>7. /\ args' \in [PF!Slots -> [at : Int, end : Int]]
      /\ args'[i] = [at |-> cur, end |-> E]
      /\ \A k \in 0..(i - 1) : args'[k] = args[k]
      /\ \A k \in 0..(i - 1) : args[k] \in [at : Int, end : Int]
  BY <1>1, <1>2, <1>3, <1>4 DEF PF!TypeOK, PF!Slots
<1>8. \A k \in 0..(i - 1) : PF!ChunkStart(k)' = PF!ChunkStart(k) /\ PF!ChunkStart(k) \in Int
  BY <1>1, <1>3, <1>7 DEF PF!ChunkStart
<1> HIDE DEF cs, E
<1>9. CASE /\ i' = i + 1 /\ cur' = E /\ UNCHANGED for_pc /\ ~failed'
           /\ threads' \subseteq threads \cup {i}
           /\ threads \subseteq threads' /\ (i > 0 => i \in threads') /\ (i = 0 => threads' = threads)
  <2>1. PF!Chunks' = 0..i /\ PF!Reach' = E
    BY <1>1, <1>3, <1>9 DEF PF!Chunks, PF!Reach
  <2>2. PF!ChunkStart(n)' = cur
    BY <1>1, <1>2, <1>3, <1>7 DEF PF!ChunksInv, PF!ChunkStart
  <2>3. PF!TypeOK'
    BY <1>0, <1>1, <1>2, <1>3, <1>4, <1>7, <1>9, SMTT(60) DEF PF!TypeOK, PF!Slots
  <2>4. cur' = args'[i' - 1].end /\ i' # 0
    BY <1>3, <1>7, <1>9
  <2>5. cur' = end' \/ cur' = start' + i' * PF!ChunkSize'
    <3>1. (i + 1) * cs = i * cs + cs
      BY <1>3
    <3>2. QED
      BY <1>1, <1>3, <1>4, <1>6, <1>9, <3>1 DEF cs
  <2>6. \A k \in PF!Chunks' : /\ PF!ChunkStart(k)' =< args'[k].at /\ args'[k].at =< args'[k].end
                              /\ start' =< PF!ChunkStart(k)' /\ args'[k].end =< PF!Reach'
    <3>1. start =< cur
      BY <1>2, <1>3, <1>6 DEF PF!ChunksInv
    <3>2. ASSUME NEW k \in 0..(i - 1)
          PROVE /\ PF!ChunkStart(k)' =< args'[k].at /\ args'[k].at =< args'[k].end
                /\ start' =< PF!ChunkStart(k)' /\ args'[k].end =< PF!Reach'
      BY <1>1, <1>2, <1>3, <1>4, <1>5, <1>7, <1>8, <2>1, SMTT(60) DEF PF!ChunksInv
    <3>3. QED
      BY <1>1, <1>3, <1>4, <1>7, <2>1, <2>2, <3>1, <3>2
  <2>7. \A k \in PF!Chunks' : \A j \in PF!Chunks' : k < j => args'[k].end =< PF!ChunkStart(j)'
    <3>1. ASSUME NEW k \in 0..(i - 1), NEW j \in 0..(i - 1), k < j
          PROVE  args'[k].end =< PF!ChunkStart(j)'
      BY <1>2, <1>5, <1>7, <1>8, <3>1 DEF PF!ChunksInv
    <3>2. ASSUME NEW k \in 0..(i - 1) PROVE args'[k].end =< PF!ChunkStart(n)'
      BY <1>2, <1>5, <1>7, <2>2 DEF PF!ChunksInv
    <3>3. QED
      BY <1>3, <2>1, <3>1, <3>2
  <2>8. \A x \in start'..(PF!Reach' - 1) :
           \E k \in PF!Chunks' : PF!ChunkStart(k)' =< x /\ x < args'[k].end
    <3> SUFFICES ASSUME NEW x \in start..(E - 1)
                 PROVE  \E k \in 0..i : PF!ChunkStart(k)' =< x /\ x < args'[k].end
      BY <1>1, <2>1
    <3>1. CASE x < cur
      <4>1. PICK k \in 0..(i - 1) : PF!ChunkStart(k) =< x /\ x < args[k].end
        BY <1>2, <1>3, <1>4, <1>5, <3>1 DEF PF!ChunksInv
      <4>2. QED
        BY <1>3, <1>7, <1>8, <4>1
    <3>2. CASE x >= cur
      BY <1>3, <1>4, <1>7, <2>2, <3>2
    <3>3. QED
      BY <1>3, <1>4, <3>1, <3>2
  <2>9. \A x \in PF!Indices : for_runs'[x] =
           IF \E k \in PF!Chunks' : PF!ChunkStart(k)' =< x /\ x < args'[k].at THEN 1 ELSE 0
    <3> SUFFICES ASSUME NEW x \in PF!Indices
                 PROVE (\E k \in 0..i : PF!ChunkStart(k)' =< x /\ x < args'[k].at)
                       <=> (\E k \in 0..(i - 1) : PF!ChunkStart(k) =< x /\ x < args[k].at)
      BY <1>1, <1>2, <1>5, <2>1 DEF PF!ChunksInv
    <3>1. x \in Int
      BY DEF PF!Indices
    <3>2. ~(PF!ChunkStart(n)' =< x /\ x < args'[n].at)
      BY <1>3, <1>7, <2>2, <3>1
    <3>3. QED
      BY <1>3, <1>7, <1>8, <3>2
  <2>10. /\ threads' \subseteq PF!Chunks' \ {0}
         /\ \A k \in PF!Chunks' \ (threads' \cup {0}) : args'[k].at = args'[k].end
    <3>1. threads \subseteq 0..(i - 1) /\ 0 \notin threads
      BY <1>2, <1>5 DEF PF!ChunksInv
    <3>2. threads' \subseteq 0..i /\ 0 \notin threads'
      BY <1>3, <1>9, <3>1
    <3>3. ASSUME NEW k \in (0..i) \ (threads' \cup {0}) PROVE args'[k].at = args'[k].end
      <4>1. k \in 0..(i - 1) /\ k \notin threads
        BY <1>3, <1>9
      <4>2. args[k].at = args[k].end
        BY <1>2, <1>5, <4>1 DEF PF!ChunksInv
      <4>3. QED
        BY <1>7, <4>1, <4>2
    <3>4. QED
      BY <2>1, <3>2, <3>3
  <2>11. PF!ChunksInv'
    <3>1. <<start, end>>' \in Ranges /\ start' < end' /\ cur' =< end'
      BY <1>1, <1>2, <1>3, <1>4, <1>9 DEF PF!ChunksInv
    <3>2. for_pc' = "split" /\ i' =< num_cores'
      BY <1>1, <1>3, <1>9
    <3>3. QED
      BY <1>9, <2>4, <2>5, <2>6, <2>7, <2>8, <2>9, <2>10, <3>1, <3>2 DEF PF!ChunksInv
  <2>12. QED
    BY <1>1, <1>9, <2>3, <2>11 DEF PF!ParallelForInv, PF!AllIndicesRun
<1>10. CASE i > 0 /\ for_pc' = "first" /\ UNCHANGED <<i, cur, threads>> /\ failed'
  <2>1. PF!Chunks' = 0..(i - 1) /\ PF!Reach' = cur
    BY <1>1, <1>3, <1>10 DEF PF!Chunks, PF!Reach
  <2>2. PF!TypeOK'
    BY <1>0, <1>1, <1>2, <1>7, <1>10 DEF PF!TypeOK
  <2>3. cur' = args'[i' - 1].end /\ i' # 0
    BY <1>2, <1>3, <1>7, <1>10 DEF PF!ChunksInv
  <2>4. cur' = end' \/ cur' = start' + i' * PF!ChunkSize'
    BY <1>1, <1>3, <1>6, <1>10 DEF cs
  <2>5. \A k \in PF!Chunks' : /\ PF!ChunkStart(k)' =< args'[k].at /\ args'[k].at =< args'[k].end
                              /\ start' =< PF!ChunkStart(k)' /\ args'[k].end =< PF!Reach'
    BY <1>1, <1>2, <1>5, <1>7, <1>8, <2>1 DEF PF!ChunksInv
  <2>6. \A k \in PF!Chunks' : \A j \in PF!Chunks' : k < j => args'[k].end =< PF!ChunkStart(j)'
    BY <1>2, <1>5, <1>7, <1>8, <2>1 DEF PF!ChunksInv
  <2>7. \A x \in start'..(PF!Reach' - 1) :
           \E k \in PF!Chunks' : PF!ChunkStart(k)' =< x /\ x < args'[k].end
    BY <1>1, <1>2, <1>5, <1>7, <1>8, <2>1 DEF PF!ChunksInv
  <2>8. \A x \in PF!Indices : for_runs'[x] =
           IF \E k \in PF!Chunks' : PF!ChunkStart(k)' =< x /\ x < args'[k].at THEN 1 ELSE 0
    BY <1>1, <1>2, <1>5, <1>7, <1>8, <2>1 DEF PF!ChunksInv
  <2>9. /\ threads' \subseteq PF!Chunks' \ {0}
        /\ \A k \in PF!Chunks' \ (threads' \cup {0}) : args'[k].at = args'[k].end
    BY <1>2, <1>5, <1>7, <1>10, <2>1 DEF PF!ChunksInv
  <2>10. PF!ChunksInv'
    BY <1>1, <1>2, <1>10, <2>3, <2>4, <2>5, <2>6, <2>7, <2>8, <2>9 DEF PF!ChunksInv
  <2>11. QED
    BY <1>10, <2>2, <2>10 DEF PF!ParallelForInv, PF!AllIndicesRun
<1>11. QED
  <2>1. CASE i = 0 /\ i' = 1 /\ cur' = PF!ChunkEnd /\ UNCHANGED <<for_pc, threads>>
    <3>1. ~failed'
      BY <1>1, <2>1 DEF PF!Split
    <3>2. QED
      BY <1>3, <1>9, <2>1, <3>1 DEF E
  <2>2. CASE /\ i > 0 /\ threads' = threads \cup {i} /\ i' = i + 1 /\ cur' = PF!ChunkEnd
             /\ UNCHANGED for_pc
    <3>1. ~failed'
      BY <1>1, <2>2 DEF PF!Split
    <3>2. QED
      BY <1>3, <1>9, <2>2, <3>1 DEF E
  <2>3. CASE i > 0 /\ for_pc' = "first" /\ UNCHANGED <<i, cur, threads>>
    <3>1. failed'
      BY <2>3 DEF PF!Split
    <3>2. QED
      BY <1>10, <2>3, <3>1
  <2>4. QED
    BY <2>1, <2>2, <2>3 DEF PF!Split
\* The loop ends with the range used up: num_cores chunks always reach its end.
LEMMA ForSplitEnds ==
  ASSUME PF!ParallelForInv, PF!ThreadParallelAssumption, PF!SplitEnds
  PROVE  PF!ParallelForInv'
<1>1. /\ for_pc = "split" /\ ~(i < num_cores /\ cur < end) /\ for_pc' = "first"
      /\ UNCHANGED <<start, end, num_cores, i, cur, args, threads, failed, for_runs>>
  BY DEF PF!SplitEnds
<1>2. PF!ChunksInv /\ PF!TypeOK /\ i =< num_cores /\ ~failed
  BY <1>1 DEF PF!ParallelForInv, PF!AllIndicesRun, PF!ChunksInv
<1> DEFINE cs == PF!ChunkSize
<1>3. /\ start \in Int /\ end \in Int /\ cur \in Int /\ start < end /\ cur =< end
      /\ num_cores \in Int /\ i \in Nat /\ cs \in Int /\ cs > 0 /\ num_cores * cs >= end - start
      /\ num_cores > 0
  BY <1>1, ForTypes
<1>4. cur = end
  <2>1. cur = end \/ cur = start + i * cs
    BY <1>2 DEF PF!ChunksInv
  <2> HIDE DEF cs
  <2>2. CASE i >= num_cores
    <3>1. i = num_cores
      BY <1>2, <1>3, <2>2
    <3>2. i * cs = num_cores * cs
      BY <3>1
    <3>3. QED
      BY <1>3, <2>1, <3>2
  <2>3. QED
    BY <1>1, <1>3, <2>2
<1>5. i # 0
  BY <1>2, <1>3, <1>4 DEF PF!ChunksInv
<1>6. /\ PF!Chunks' = PF!Chunks /\ PF!Reach' = PF!Reach /\ PF!Reach' = end
      /\ PF!ChunkSize' = PF!ChunkSize /\ \A k : PF!ChunkStart(k)' = PF!ChunkStart(k)
  BY <1>1, <1>4, <1>5 DEF PF!Chunks, PF!Reach, PF!ChunkSize, PF!ChunkStart
<1>7. PF!ChunksInv'
  BY <1>1, <1>2, <1>6 DEF PF!ChunksInv
<1>8. PF!TypeOK'
  BY <1>1, <1>2 DEF PF!TypeOK
<1>9. QED
  BY <1>1, <1>7, <1>8 DEF PF!ParallelForInv, PF!AllIndicesRun

\* One turn of the body: its index is in no other chunk, and was not run before.
LEMMA ForBody ==
  ASSUME PF!ParallelForInv, PF!ThreadParallelAssumption, NEW k, PF!Body(k),
         for_pc \in {"split", "first", "join"}, k \in PF!Chunks, for_pc = "join" => k # 0,
         k = 0 => for_pc = "first", k \in threads \cup {0}
  PROVE  PF!ParallelForInv'
<1> DEFINE x == args[k].at
<1>1. /\ x < args[k].end
      /\ for_runs' = [for_runs EXCEPT ![x] = @ + 1]
      /\ args' = [args EXCEPT ![k].at = @ + 1]
      /\ UNCHANGED <<for_pc, start, end, num_cores, i, cur, threads, failed>>
  BY DEF PF!Body
<1>2. PF!ChunksInv /\ PF!TypeOK
  BY DEF PF!ParallelForInv, PF!AllIndicesRun
<1>3. /\ start \in Int /\ end \in Int /\ cur \in Int /\ start < end /\ cur =< end
      /\ num_cores \in Int /\ num_cores =< MaxThreads /\ i \in Nat
  BY ForTypes
<1>4. /\ PF!Chunks \subseteq PF!Slots /\ \A j \in PF!Chunks : args[j] \in [at : Int, end : Int]
      /\ PF!Chunks \subseteq Nat
  <2>1. i =< MaxThreads /\ MaxThreads \in Nat \ {0}
    BY <1>2 DEF PF!TypeOK, PF!ThreadParallelAssumption
  <2>2. PF!Chunks \subseteq PF!Slots
    BY <1>3, <2>1 DEF PF!Chunks, PF!Slots
  <2>3. QED
    BY <1>2, <2>2 DEF PF!TypeOK, PF!Slots
<1>5. /\ args'[k].at = x + 1 /\ args'[k].end = args[k].end
      /\ \A j \in PF!Chunks : j # k => args'[j] = args[j]
      /\ args' \in [PF!Slots -> [at : Int, end : Int]]
  BY <1>1, <1>2, <1>4 DEF PF!TypeOK
<1>6. \A j \in PF!Slots : args'[j].end = args[j].end
  BY <1>1, <1>2, <1>5 DEF PF!TypeOK
<1>7. PF!Chunks' = PF!Chunks /\ PF!Reach' = PF!Reach /\ PF!ChunkSize' = PF!ChunkSize
  BY <1>1 DEF PF!Chunks, PF!Reach, PF!ChunkSize
<1>8. \A j \in PF!Chunks : PF!ChunkStart(j)' = PF!ChunkStart(j) /\ PF!ChunkStart(j) \in Int
  <2>1. \A j \in PF!Chunks : j # 0 => j - 1 \in PF!Slots
    BY <1>4 DEF PF!Slots, PF!ThreadParallelAssumption
  <2>2. QED
    BY <1>1, <1>2, <1>3, <1>6, <2>1 DEF PF!ChunkStart, PF!TypeOK
<1>9. /\ x \in Int /\ PF!ChunkStart(k) =< x /\ start =< PF!ChunkStart(k) /\ args[k].end =< PF!Reach
      /\ PF!Reach =< end /\ PF!Reach \in Int
  BY <1>2, <1>3, <1>4 DEF PF!ChunksInv, PF!Reach
<1>10. x \in PF!Indices
  <2>1. x \in start..(end - 1)
    BY <1>1, <1>3, <1>4, <1>8, <1>9
  <2>2. <<start, end>> \in Ranges /\ <<start, end>>[1] = start /\ <<start, end>>[2] = end
    BY <1>2 DEF PF!ChunksInv
  <2>3. QED
    BY <2>1, <2>2 DEF PF!Indices
<1>11. ASSUME NEW j \in PF!Chunks, j # k
       PROVE  ~(PF!ChunkStart(j) =< x /\ x < args[j].end) /\ args[j].at =< args[j].end
  <2>1. j < k \/ k < j
    BY <1>4, <1>11
  <2>2. args[j].at =< args[j].end
    BY <1>2 DEF PF!ChunksInv
  <2>3. CASE j < k
    <3>1. args[j].end =< PF!ChunkStart(k)
      BY <1>2, <2>3 DEF PF!ChunksInv
    <3>2. QED
      BY <1>4, <1>8, <1>9, <2>2, <3>1
  <2>4. CASE k < j
    <3>1. args[k].end =< PF!ChunkStart(j)
      BY <1>2, <2>4 DEF PF!ChunksInv
    <3>2. QED
      BY <1>1, <1>4, <1>8, <1>9, <2>2, <3>1
  <2>5. QED
    BY <2>1, <2>3, <2>4
<1> HIDE DEF x
<1>12. \A y \in PF!Indices : for_runs'[y] =
          IF \E j \in PF!Chunks' : PF!ChunkStart(j)' =< y /\ y < args'[j].at THEN 1 ELSE 0
  <2> SUFFICES ASSUME NEW y \in PF!Indices
               PROVE  for_runs'[y] =
                  IF \E j \in PF!Chunks : PF!ChunkStart(j) =< y /\ y < args'[j].at THEN 1 ELSE 0
    BY <1>7, <1>8
  <2>1. y \in Int /\ for_runs \in [PF!Indices -> Nat]
    BY <1>2 DEF PF!Indices, PF!TypeOK
  <2>2. for_runs[y] =
          IF \E j \in PF!Chunks : PF!ChunkStart(j) =< y /\ y < args[j].at THEN 1 ELSE 0
    BY <1>2 DEF PF!ChunksInv
  <2>3. CASE y = x
    <3>1. \A j \in PF!Chunks : ~(PF!ChunkStart(j) =< y /\ y < args[j].at)
      <4>1. ASSUME NEW j \in PF!Chunks, j # k PROVE ~(PF!ChunkStart(j) =< y /\ y < args[j].at)
        BY <1>4, <1>8, <1>9, <1>11, <2>3, <4>1
      <4>2. ~(y < args[k].at)
        BY <1>9, <2>3 DEF x
      <4>3. QED
        BY <4>1, <4>2
    <3>2. for_runs'[y] = 1
      BY <1>1, <1>10, <2>1, <2>2, <2>3, <3>1
    <3>3. PF!ChunkStart(k) =< y /\ y < args'[k].at
      BY <1>5, <1>9, <2>3
    <3>4. QED
      BY <3>2, <3>3
  <2>4. CASE y # x
    <3>1. for_runs'[y] = for_runs[y]
      BY <1>1, <2>1, <2>4
    <3>2. (PF!ChunkStart(k) =< y /\ y < args'[k].at) <=> (PF!ChunkStart(k) =< y /\ y < args[k].at)
      BY <1>5, <1>9, <2>1, <2>4 DEF x
    <3>3. QED
      BY <1>5, <2>2, <3>1, <3>2
  <2>5. QED
    BY <2>3, <2>4
<1>13. PF!TypeOK'
  <2>1. for_runs' \in [PF!Indices -> Nat]
    BY <1>1, <1>2, <1>10 DEF PF!TypeOK
  <2>2. QED
    BY <1>1, <1>2, <1>5, <2>1 DEF PF!TypeOK
<1>14. \A j \in PF!Chunks' : /\ PF!ChunkStart(j)' =< args'[j].at /\ args'[j].at =< args'[j].end
                             /\ start' =< PF!ChunkStart(j)' /\ args'[j].end =< PF!Reach'
  <2> SUFFICES ASSUME NEW j \in PF!Chunks
               PROVE  /\ PF!ChunkStart(j) =< args'[j].at /\ args'[j].at =< args'[j].end
                      /\ start =< PF!ChunkStart(j) /\ args'[j].end =< PF!Reach
    BY <1>1, <1>7, <1>8
  <2>1. CASE j = k
    BY <1>1, <1>4, <1>5, <1>8, <1>9, <2>1 DEF x
  <2>2. CASE j # k
    BY <1>2, <1>5, <2>2 DEF PF!ChunksInv
  <2>3. QED
    BY <2>1, <2>2
<1>15. \A j \in PF!Chunks' : \A m \in PF!Chunks' : j < m => args'[j].end =< PF!ChunkStart(m)'
  <2> SUFFICES ASSUME NEW j \in PF!Chunks, NEW m \in PF!Chunks, j < m
               PROVE  args'[j].end =< PF!ChunkStart(m)
    BY <1>7, <1>8
  <2>1. args[j].end =< PF!ChunkStart(m)
    BY <1>2 DEF PF!ChunksInv
  <2>2. QED
    BY <1>4, <1>6, <2>1
<1>16. \A y \in start'..(PF!Reach' - 1) :
          \E j \in PF!Chunks' : PF!ChunkStart(j)' =< y /\ y < args'[j].end
  BY <1>1, <1>2, <1>4, <1>6, <1>7, <1>8 DEF PF!ChunksInv
<1>17. \A j \in PF!Chunks' \ (threads' \cup {0}) : args'[j].at = args'[j].end
  BY <1>1, <1>2, <1>5, <1>7 DEF PF!ChunksInv
<1>18. cur' = (IF i' = 0 THEN start' ELSE args'[i' - 1].end)
  <2>1. i # 0 => i - 1 \in PF!Slots
    BY <1>2, <1>3 DEF PF!Slots, PF!TypeOK, PF!ThreadParallelAssumption
  <2>2. QED
    BY <1>1, <1>2, <1>6, <2>1 DEF PF!ChunksInv
<1>19. for_pc' = "join" => args'[0].at = args'[0].end
  BY <1>1, <1>2, <1>4, <1>5 DEF PF!ChunksInv, PF!Chunks
<1>20. PF!ChunksInv'
  BY <1>1, <1>2, <1>7, <1>12, <1>14, <1>15, <1>16, <1>17, <1>18, <1>19 DEF PF!ChunksInv
<1>21. QED
  BY <1>1, <1>13, <1>20 DEF PF!ParallelForInv, PF!AllIndicesRun
\* What is left of the call: the caller's own chunk ends, the threads are joined,
\* the call returns.
LEMMA ForEnds ==
  ASSUME PF!ParallelForInv, PF!ThreadParallelAssumption, PF!CallerDone \/ PF!Join \/ PF!Return
  PROVE  PF!ParallelForInv'
<1>1. UNCHANGED <<start, end, num_cores, i, cur, args, failed, for_runs>>
  BY DEF PF!CallerDone, PF!Join, PF!Return
<1>2. for_pc \in {"first", "join"} /\ PF!ChunksInv /\ PF!TypeOK
  BY DEF PF!ParallelForInv, PF!AllIndicesRun, PF!CallerDone, PF!Join, PF!Return
<1>3. /\ start \in Int /\ end \in Int /\ cur \in Int /\ start < end /\ cur =< end
      /\ num_cores \in Int /\ i \in Nat /\ 0 \in PF!Chunks
  BY <1>2, ForTypes DEF PF!Chunks
<1>4. \A k \in PF!Chunks : args[k] \in [at : Int, end : Int]
  BY <1>2, <1>3 DEF PF!Chunks, PF!Slots, PF!TypeOK, PF!ThreadParallelAssumption
<1>5. /\ PF!ChunkSize' = PF!ChunkSize /\ \A k : PF!ChunkStart(k)' = PF!ChunkStart(k)
  BY <1>1 DEF PF!ChunkSize, PF!ChunkStart
<1>6. CASE PF!CallerDone \/ PF!Join
  <2>1. /\ for_pc' = "join" /\ threads' \subseteq threads
        /\ \A k \in threads \ threads' : args[k].at >= args[k].end
        /\ args[0].at = args[0].end
    <3>1. CASE PF!CallerDone
      <4>1. args[0].at = args[0].end
        <5>1. args[0].at =< args[0].end
          BY <1>2, <1>3 DEF PF!ChunksInv
        <5>2. args[0].at >= args[0].end
          BY <3>1 DEF PF!CallerDone
        <5>3. QED
          BY <1>3, <1>4, <5>1, <5>2
      <4>2. QED
        BY <3>1, <4>1 DEF PF!CallerDone
    <3>2. CASE PF!Join
      BY <1>2, <3>2 DEF PF!Join, PF!ChunksInv
    <3>3. QED
      BY <1>6, <3>1, <3>2
  <2>2. PF!Chunks' = PF!Chunks /\ PF!Reach' = PF!Reach
    BY <1>1, <1>2, <2>1 DEF PF!Chunks, PF!Reach
  <2>3. \A k \in PF!Chunks' \ (threads' \cup {0}) : args'[k].at = args'[k].end
    <3> SUFFICES ASSUME NEW k \in PF!Chunks \ (threads' \cup {0}) PROVE args[k].at = args[k].end
      BY <1>1, <2>2
    <3>1. args[k].at =< args[k].end
      BY <1>2 DEF PF!ChunksInv
    <3>2. k \in threads \/ args[k].at = args[k].end
      BY <1>2 DEF PF!ChunksInv
    <3>3. QED
      BY <1>4, <2>1, <3>1, <3>2
  <2>4. PF!ChunksInv'
    BY <1>1, <1>2, <1>5, <2>1, <2>2, <2>3 DEF PF!ChunksInv
  <2>5. PF!TypeOK'
    BY <1>1, <1>2, <2>1 DEF PF!TypeOK
  <2>6. QED
    BY <2>1, <2>4, <2>5 DEF PF!ParallelForInv, PF!AllIndicesRun
<1>7. CASE PF!Return
  <2>1. for_pc = "join" /\ threads = {} /\ for_pc' = "returned" /\ threads' = {}
    BY <1>7 DEF PF!Return
  <2>2. PF!Reach = (IF failed THEN cur ELSE end) /\ PF!Reach =< end
    BY <1>2, <1>3, <2>1 DEF PF!ChunksInv, PF!Reach
  <2>3. \A k \in PF!Chunks : args[k].at = args[k].end
    BY <1>2, <2>1 DEF PF!ChunksInv
  <2>4. ASSUME NEW x \in PF!Indices
        PROVE  for_runs[x] = IF x \in start..(PF!Reach - 1) THEN 1 ELSE 0
    <3>1. for_runs[x] = IF \E k \in PF!Chunks : PF!ChunkStart(k) =< x /\ x < args[k].end THEN 1 ELSE 0
      BY <1>2, <2>3 DEF PF!ChunksInv
    <3>2. ASSUME NEW k \in PF!Chunks, PF!ChunkStart(k) =< x, x < args[k].end
          PROVE  x \in start..(PF!Reach - 1)
      <4>1. start =< PF!ChunkStart(k) /\ args[k].end =< PF!Reach
        BY <1>2 DEF PF!ChunksInv
      <4>2. PF!ChunkStart(k) \in Int /\ PF!Reach \in Int /\ x \in Int
        <5>1. k # 0 => k - 1 \in PF!Chunks
          BY <1>2, <1>3 DEF PF!Chunks
        <5>2. QED
          BY <1>3, <1>4, <5>1 DEF PF!ChunkStart, PF!Reach, PF!Indices
      <4>3. QED
        BY <1>3, <1>4, <3>2, <4>1, <4>2
    <3>3. x \in start..(PF!Reach - 1) =>
             \E k \in PF!Chunks : PF!ChunkStart(k) =< x /\ x < args[k].end
      BY <1>2 DEF PF!ChunksInv
    <3>4. QED
      BY <3>1, <3>2, <3>3
  <2>5. PF!TypeOK'
    BY <1>1, <1>2, <2>1 DEF PF!TypeOK
  <2>6. \A x \in PF!Indices :
           for_runs'[x] = IF x \in start'..((IF failed' THEN cur' ELSE end') - 1) THEN 1 ELSE 0
    BY <1>1, <2>2, <2>4
  <2>7. QED
    BY <2>1, <2>5, <2>6 DEF PF!ParallelForInv, PF!AllIndicesRun
<1>8. QED
  BY <1>6, <1>7

\* Each step of the loop keeps its invariant.
LEMMA ForStep == PF!ThreadParallelAssumption /\ PF!ParallelForInv /\ PF!Next => PF!ParallelForInv'
<1> SUFFICES ASSUME PF!ThreadParallelAssumption, PF!ParallelForInv, PF!Next
             PROVE  PF!ParallelForInv'
  OBVIOUS
<1>1. CASE PF!CallerBody
  <2>1. for_pc = "first" /\ PF!Body(0) /\ i \in Nat
    BY <1>1, ForTypes DEF PF!CallerBody
  <2>2. QED
    BY <2>1, ForBody DEF PF!Chunks
<1>2. ASSUME NEW k \in PF!Slots, PF!Worker(k) PROVE PF!ParallelForInv'
  <2>1. k \in threads /\ PF!Body(k)
    BY <1>2 DEF PF!Worker
  <2>2. for_pc \in {"split", "first", "join"}
    BY <2>1 DEF PF!ParallelForInv, PF!AllIndicesRun, PF!TypeOK
  <2>3. k \in PF!Chunks /\ k # 0
    BY <2>1, <2>2 DEF PF!ParallelForInv, PF!ChunksInv
  <2>4. QED
    BY <2>1, <2>2, <2>3, ForBody
<1>3. QED
  BY <1>1, <1>2, ForCall, ForSplit, ForSplitEnds, ForEnds DEF PF!Next

(* -------------------------------- timers -------------------------------- *)

\* Division with a remainder.
LEMMA Divides ==
  ASSUME NEW n \in Nat \ {0}, NEW a \in Nat
  PROVE  a = n * (a \div n) + (a % n) /\ a \div n \in Int /\ a % n \in Int
<1>1. a = n * (a \div n) + (a % n)
  OBVIOUS
<1>2. a \div n \in Int /\ a % n \in Int
  OBVIOUS
<1>3. QED
  BY <1>1, <1>2

\* Two timers of one place are a whole turn of the array apart.
LEMMA SamePlace ==
  ASSUME NEW n \in Nat \ {0}, NEW a \in Nat, NEW b \in Nat, a > b, a % n = b % n
  PROVE  a >= b + n
<1>1. /\ a \div n \in Int /\ b \div n \in Int /\ a % n \in Int
      /\ a = n * (a \div n) + (a % n) /\ b = n * (b \div n) + (b % n)
  BY Divides
<1> DEFINE p == a \div n
           q == b \div n
<1> HIDE DEF p, q
<1>3. p \in Int /\ q \in Int /\ a - b = n * (p - q)
  <2>1. n * (p - q) = n * p - n * q
    BY <1>1 DEF p, q
  <2>2. QED
    BY <1>1, <2>1 DEF p, q
<1>4. p - q >= 1
  <2>1. CASE p - q =< 0
    <3>1. n * (p - q) =< 0
      BY <1>3, <2>1
    <3>2. QED
      BY <1>3, <3>1
  <2>2. QED
    BY <1>3, <2>1
<1>5. n * (p - q) >= n
  BY <1>3, <1>4
<1>6. QED
  BY <1>3, <1>5
\* What TimerInv says of one waiter whose record is v.
TrueWait(v) ==
    /\ v.pc = "idle" /\ v.id # 0 =>
          /\ v.late => v.st = 2
          /\ v.st = 1 => v.at >= deadline[v.id]
          /\ v.st = 2 => TM!CancelReason(v.id)
    /\ v.id = 0 => v.pc = "idle"
    /\ v.late => v.id \in cancelled
    /\ v.pc = "test" =>
          /\ v.late => v.st = 2
          /\ v.st = 0 => v.fire = deadline[v.id]
          /\ v.st = 1 => clock >= deadline[v.id]
          /\ v.st = 2 => TM!CancelReason(v.id)
    /\ v.pc = "callback" => ~v.late /\ clock >= deadline[v.id]

EveryWait == \A w \in Waiters : TrueWait(wait[w])

WaitRecords == [pc : {"idle", "read", "test", "callback"}, id : 0..counter,
                st : 0..2, fire : Nat, at : Nat, late : BOOLEAN]

\* The invariant, waiter by waiter.
LEMMA ByWaiter ==
  TM!TimerInv <=> TM!TypeOK /\ TM!PlacesInv /\ EveryWait
<1>1. ASSUME NEW w \in Waiters
      PROVE  TrueWait(wait[w]) <=>
               /\ TM!Answered(w) /\ wait[w].late => wait[w].st = 2
               /\ TM!Answered(w) /\ wait[w].st = 1 => wait[w].at >= deadline[wait[w].id]
               /\ TM!Answered(w) /\ wait[w].st = 2 => TM!CancelReason(wait[w].id)
               /\ wait[w].id = 0 => wait[w].pc = "idle"
               /\ wait[w].late => wait[w].id \in cancelled
               /\ wait[w].pc = "test" =>
                    /\ wait[w].late => wait[w].st = 2
                    /\ wait[w].st = 0 => wait[w].fire = deadline[wait[w].id]
                    /\ wait[w].st = 1 => clock >= deadline[wait[w].id]
                    /\ wait[w].st = 2 => TM!CancelReason(wait[w].id)
               /\ wait[w].pc = "callback" => ~wait[w].late /\ clock >= deadline[wait[w].id]
  BY DEF TrueWait, TM!Answered
<1>2. QED
  BY <1>1 DEF TM!TimerInv, TM!CancelSticks, TM!NotBeforeDeadline, TM!CancelledHasReason,
              TM!WaitsInv, TM!CancelReason, EveryWait

\* A timer's place is one of the array's.
LEMMA SlotInRange ==
  ASSUME TM!TimersAssumption, NEW n \in Nat PROVE TM!Slot(n) \in TM!Slots
BY DEF TM!TimersAssumption, TM!Slot, TM!Slots

\* Nobody waits and no place is taken at the start.
LEMMA TimerInit == TM!TimersAssumption /\ TM!Init => TM!TimerInv
<1> SUFFICES ASSUME TM!TimersAssumption, TM!Init PROVE TM!TimerInv
  OBVIOUS
<1>1. TM!TypeOK
  <2>1. wait \in [Waiters -> WaitRecords] /\ counter = 0
    BY DEF TM!Init, TM!Idle, WaitRecords
  <2>2. g_timers \in [TM!Slots -> [id : 0..counter, fire : Nat, region : Regions \cup {0},
                                   status : 0..2]]
    BY DEF TM!Init
  <2>3. QED
    BY <2>1, <2>2 DEF TM!Init, TM!TypeOK, WaitRecords, TM!TimersAssumption
<1>2. TM!PlacesInv
  BY DEF TM!Init, TM!PlacesInv
<1>3. ASSUME NEW w \in Waiters PROVE TrueWait(wait[w])
  BY DEF TM!Init, TM!Idle, TrueWait
<1>4. QED
  BY <1>1, <1>2, <1>3, ByWaiter DEF EveryWait

\* A step of one waiter.
LEMMA OneWaits ==
  ASSUME TM!TimerInv, NEW w \in Waiters, NEW v \in WaitRecords, TrueWait(v),
         wait' = [wait EXCEPT ![w] = v],
         UNCHANGED <<g_timers, counter, clock, deadline, cancelled>>
  PROVE  TM!TimerInv'
<1>1. TM!TypeOK /\ TM!PlacesInv /\ \A u \in Waiters : TrueWait(wait[u])
  BY ByWaiter DEF EveryWait
<1>2. TM!TypeOK'
  BY <1>1 DEF TM!TypeOK, WaitRecords
<1>3. TM!PlacesInv'
  BY <1>1 DEF TM!PlacesInv
<1>4. ASSUME NEW u \in Waiters PROVE TrueWait(wait[u])'
  <2>1. wait'[u] = IF u = w THEN v ELSE wait[u]
    BY <1>1 DEF TM!TypeOK
  <2>2. TrueWait(wait'[u])
    BY <1>1, <2>1
  <2>3. QED
    BY <2>2 DEF TrueWait, TM!CancelReason
<1>5. EveryWait'
  BY <1>4 DEF EveryWait
<1>6. QED
  BY <1>2, <1>3, <1>5, ByWaiter, PTL

\* The locked read: what is found in the place is the timer's, or a newer one's.
LEMMA WaiterReads ==
  ASSUME TM!TimersAssumption, TM!TimerInv, NEW w \in Waiters, TM!WaitReads(w)
  PROVE  TM!TimerInv'
<1> DEFINE n == wait[w].id
           t == g_timers[TM!Slot(n)]
<1>1. /\ TM!TypeOK /\ TM!PlacesInv /\ TrueWait(wait[w]) /\ wait[w] \in WaitRecords
      /\ wait[w].pc = "read" /\ n \in 1..counter /\ counter \in Nat
  BY ByWaiter DEF TM!TypeOK, WaitRecords, TM!WaitReads, TrueWait, EveryWait
<1>2. /\ TM!Slot(n) \in TM!Slots /\ n =< t.id
      /\ t \in [id : 0..counter, fire : Nat, region : Regions \cup {0}, status : 0..2]
      /\ TM!Slot(t.id) = TM!Slot(n)
  <2>1. n \in Nat \ {0}
    BY <1>1
  <2>2. TM!Slot(n) \in TM!Slots
    BY <2>1, SlotInRange
  <2>3. t \in [id : 0..counter, fire : Nat, region : Regions \cup {0}, status : 0..2] /\ n =< t.id
    BY <1>1, <2>2 DEF TM!TypeOK, TM!PlacesInv
  <2>4. TM!Slot(t.id) = TM!Slot(n)
    BY <1>1, <2>1, <2>2, <2>3 DEF TM!TypeOK
  <2>5. QED
    BY <2>2, <2>3, <2>4
<1>3. CASE t.id = n
  <2> DEFINE v == [wait[w] EXCEPT !.pc = "test", !.st = t.status, !.fire = t.fire]
  <2>1. v \in WaitRecords
    BY <1>1, <1>2 DEF WaitRecords
  <2>2. /\ t.fire = deadline[n] /\ (t.status = 2 <=> n \in cancelled)
        /\ t.status = 1 => clock >= t.fire
    BY <1>1, <1>2, <1>3 DEF TM!PlacesInv
  <2>3. TrueWait(v)
    BY <1>1, <2>2 DEF TrueWait, TM!CancelReason, WaitRecords
  <2>4. wait' = [wait EXCEPT ![w] = v]
    BY <1>3 DEF TM!WaitReads, TM!Found
  <2>5. QED
    BY <2>1, <2>3, <2>4, OneWaits DEF TM!WaitReads
<1>4. CASE t.id # n
  <2> DEFINE v == [wait[w] EXCEPT !.pc = "test", !.st = 2, !.fire = 0]
  <2>1. v \in WaitRecords
    <3>1. wait[w] \in WaitRecords /\ 2 \in 0..2
      BY <1>1
    <3>2. QED
      BY <3>1 DEF WaitRecords
  <2>2. counter >= n + MAX_CONCURRENT_TIMERS
    <3>1. t.id \in Nat /\ n \in Nat /\ t.id > n /\ t.id =< counter
      BY <1>1, <1>2, <1>4
    <3>2. t.id % MAX_CONCURRENT_TIMERS = n % MAX_CONCURRENT_TIMERS
      BY <1>2 DEF TM!Slot
    <3>3. MAX_CONCURRENT_TIMERS \in Nat \ {0}
      BY DEF TM!TimersAssumption
    <3>4. t.id >= n + MAX_CONCURRENT_TIMERS
      BY <3>1, <3>2, <3>3, SamePlace
    <3>5. QED
      BY <1>1, <3>1, <3>3, <3>4
  <2>3. TrueWait(v)
    BY <1>1, <2>2 DEF TrueWait, TM!CancelReason, WaitRecords
  <2>4. wait' = [wait EXCEPT ![w] = v]
    BY <1>4 DEF TM!WaitReads, TM!Found
  <2>5. QED
    BY <2>1, <2>3, <2>4, OneWaits DEF TM!WaitReads
<1>5. QED
  BY <1>3, <1>4
\* The steps of a waiter that leave the array alone.
LEMMA WaiterSteps ==
  ASSUME TM!TimersAssumption, TM!TimerInv, NEW w \in Waiters,
         \/ TM!WaitReturns(w) \/ TM!WaitSleeps(w) \/ TM!WaitFires(w)
         \/ \E id \in 1..counter : TM!TimerWait(w, id)
  PROVE  TM!TimerInv'
<1>1. /\ TrueWait(wait[w]) /\ wait[w] \in WaitRecords /\ counter \in Nat /\ clock \in Nat
      /\ deadline \in [1..MaxTimers -> Nat] /\ counter =< MaxTimers
  BY ByWaiter DEF TM!TypeOK, WaitRecords, EveryWait
<1>2. CASE TM!WaitReturns(w)
  <2> DEFINE v == [wait[w] EXCEPT !.pc = "idle", !.st = wait[w].st, !.fire = 0, !.at = clock]
  <2>1. v \in WaitRecords
    BY <1>1 DEF WaitRecords
  <2>2. wait[w].pc = "test" /\ wait[w].st # 0 /\ wait' = [wait EXCEPT ![w] = v]
    BY <1>2 DEF TM!WaitReturns, TM!Answers, TM!IsOver
  <2>3. TrueWait(v)
    BY <1>1, <2>2 DEF TrueWait, WaitRecords
  <2>4. QED
    BY <1>2, <2>1, <2>2, <2>3, OneWaits DEF TM!WaitReturns
<1>3. CASE TM!WaitSleeps(w)
  <2> DEFINE v == [[wait[w] EXCEPT !.pc = "read"] EXCEPT !.fire = 0]
  <2>1. v \in WaitRecords
    BY <1>1 DEF WaitRecords
  <2>2. wait[w].pc = "test" /\ wait' = [wait EXCEPT ![w] = v]
    BY <1>3, ByWaiter DEF TM!WaitSleeps, TM!TypeOK
  <2>3. TrueWait(v)
    BY <1>1, <2>2 DEF TrueWait, WaitRecords
  <2>4. QED
    BY <1>3, <2>1, <2>2, <2>3, OneWaits DEF TM!WaitSleeps
<1>4. CASE TM!WaitFires(w)
  <2> DEFINE v == [wait[w] EXCEPT !.pc = "callback"]
  <2>1. v \in WaitRecords
    BY <1>1 DEF WaitRecords
  <2>2. /\ wait[w].pc = "test" /\ wait[w].st = 0 /\ clock >= wait[w].fire
        /\ wait' = [wait EXCEPT ![w] = v]
    BY <1>4 DEF TM!WaitFires
  <2>3. TrueWait(v)
    BY <1>1, <2>2 DEF TrueWait, WaitRecords
  <2>4. QED
    BY <1>4, <2>1, <2>2, <2>3, OneWaits DEF TM!WaitFires
<1>5. ASSUME NEW id \in 1..counter, TM!TimerWait(w, id) PROVE TM!TimerInv'
  <2> DEFINE v == [TM!Idle EXCEPT !.pc = "read", !.id = id, !.late = id \in cancelled]
  <2>1. v \in WaitRecords /\ v.pc = "read" /\ v.id = id /\ (v.late <=> id \in cancelled)
    <3>1. TM!Idle \in WaitRecords
      BY <1>1 DEF TM!Idle, WaitRecords
    <3>2. PICK b \in BOOLEAN : b = (id \in cancelled)
      <4>1. CASE id \in cancelled
        <5>1. TRUE = (id \in cancelled)
          BY <4>1
        <5>2. QED
          BY <5>1
      <4>2. CASE id \notin cancelled
        <5>1. FALSE = (id \in cancelled)
          BY <4>2
        <5>2. QED
          BY <5>1
      <4>3. QED
        BY <4>1, <4>2
    <3>3. v = [TM!Idle EXCEPT !.pc = "read", !.id = id, !.late = b]
      BY <3>2
    <3>4. id \in 0..counter
      BY <1>1
    <3> HIDE DEF v
    <3>5. v \in WaitRecords
      BY <3>1, <3>3, <3>4 DEF WaitRecords
    <3>6. v.pc = "read" /\ v.id = id /\ v.late = b
      BY <3>1, <3>3 DEF WaitRecords
    <3>7. QED
      BY <3>2, <3>5, <3>6
  <2>2. wait' = [wait EXCEPT ![w] = v]
    BY <1>5 DEF TM!TimerWait
  <2>3. TrueWait(v)
    BY <1>1, <2>1 DEF TrueWait
  <2>4. QED
    BY <1>5, <2>1, <2>2, <2>3, OneWaits DEF TM!TimerWait
<1>6. QED
  BY <1>2, <1>3, <1>4, <1>5

\* A place changes: what makes the invariant hold again.  Waiters and the ids
\* stay; a timer that becomes cancelled was pending.
LEMMA OnePlace ==
  ASSUME TM!TimersAssumption, TM!TimerInv, TM!TypeOK', UNCHANGED <<counter, clock, deadline>>,
         cancelled \subseteq cancelled',
         \A s \in TM!Slots : /\ g_timers'[s].id = g_timers[s].id
                             /\ g_timers'[s].fire = g_timers[s].fire,
         \A s \in TM!Slots : g_timers[s].id # 0 =>
            /\ g_timers'[s].status = 2 <=> g_timers[s].id \in cancelled'
            /\ g_timers'[s].status = 1 => clock >= g_timers[s].fire,
         EveryWait'
  PROVE  TM!TimerInv'
<1>1. TM!TypeOK /\ TM!PlacesInv /\ EveryWait
  BY ByWaiter
<1>2. counter \in Nat
  BY <1>1 DEF TM!TypeOK
<1>3. \A n \in 1..counter : n =< g_timers'[TM!Slot(n)].id
  BY <1>1, <1>2, SlotInRange DEF TM!PlacesInv
<1>4. \A n : TM!Slot(n)' = TM!Slot(n)
  BY DEF TM!Slot
<1>5. TM!PlacesInv'
  BY <1>1, <1>3, <1>4 DEF TM!PlacesInv
<1>6. QED
  BY <1>5, ByWaiter, PTL

\* The callback is over: the place, if it is still the timer's, is marked.
LEMMA WaiterCompletes ==
  ASSUME TM!TimersAssumption, TM!TimerInv, NEW w \in Waiters, TM!WaitCompletes(w)
  PROVE  TM!TimerInv'
<1> DEFINE n == wait[w].id
           v == [wait[w] EXCEPT !.pc = "idle", !.st = 1, !.fire = 0, !.at = clock]
           t == g_timers[TM!Slot(n)]
<1>1. /\ TM!TypeOK /\ TM!PlacesInv /\ EveryWait /\ TrueWait(wait[w]) /\ wait[w] \in WaitRecords
      /\ wait[w].pc = "callback" /\ n \in 1..counter /\ counter \in Nat /\ clock \in Nat
  BY ByWaiter DEF TM!TypeOK, WaitRecords, TM!WaitCompletes, TrueWait, EveryWait
<1>2. /\ wait' = [wait EXCEPT ![w] = v]
      /\ g_timers' = [g_timers EXCEPT ![TM!Slot(n)] =
                         IF t.id = n /\ t.status = 0 THEN [t EXCEPT !.status = 1] ELSE t]
      /\ UNCHANGED <<counter, clock, deadline, cancelled>>
  BY <1>1 DEF TM!WaitCompletes, TM!Answers, TM!IsPending, TM!TypeOK
<1>3. TM!Slot(n) \in TM!Slots
  BY <1>1, SlotInRange
<1>4. v \in WaitRecords
  <2>1. wait[w] \in WaitRecords /\ 1 \in 0..2 /\ clock \in Nat
    BY <1>1
  <2>2. QED
    BY <2>1 DEF WaitRecords
<1>5. t \in [id : 0..counter, fire : Nat, region : Regions \cup {0}, status : 0..2]
  BY <1>1, <1>3 DEF TM!TypeOK
<1>6. ASSUME NEW s \in TM!Slots
      PROVE  g_timers'[s] = IF s = TM!Slot(n) /\ t.id = n /\ t.status = 0
                            THEN [t EXCEPT !.status = 1] ELSE g_timers[s]
  BY <1>1, <1>2 DEF TM!TypeOK
<1>7. TM!TypeOK'
  <2>1. wait' \in [Waiters -> WaitRecords]
    BY <1>1, <1>2, <1>4 DEF TM!TypeOK, WaitRecords
  <2>2. g_timers' \in [TM!Slots -> [id : 0..counter, fire : Nat, region : Regions \cup {0},
                                    status : 0..2]]
    <3>1. [t EXCEPT !.status = 1] \in [id : 0..counter, fire : Nat,
                                       region : Regions \cup {0}, status : 0..2]
      BY <1>5
    <3>2. QED
      BY <1>1, <1>2, <1>5, <3>1 DEF TM!TypeOK
  <2>3. \A s \in TM!Slots : g_timers'[s].id = g_timers[s].id
    BY <1>5, <1>6
  <2>4. QED
    BY <1>1, <1>2, <2>1, <2>2, <2>3 DEF TM!TypeOK, TM!Slot, WaitRecords
<1>8. clock >= deadline[n] /\ ~wait[w].late
  BY <1>1 DEF TrueWait
<1>9. ASSUME NEW u \in Waiters PROVE TrueWait(wait[u])'
  <2>1. wait'[u] = IF u = w THEN v ELSE wait[u]
    BY <1>1, <1>2 DEF TM!TypeOK
  <2>2. TrueWait(v)
    BY <1>1, <1>8 DEF TrueWait, WaitRecords
  <2>3. TrueWait(wait'[u])
    BY <1>1, <2>1, <2>2 DEF EveryWait
  <2>4. QED
    BY <1>2, <2>3 DEF TrueWait, TM!CancelReason
<1>10. EveryWait'
  BY <1>9 DEF EveryWait
<1>11. \A s \in TM!Slots : /\ g_timers'[s].id = g_timers[s].id
                           /\ g_timers'[s].fire = g_timers[s].fire
  BY <1>5, <1>6
<1>12. \A s \in TM!Slots : g_timers[s].id # 0 =>
            /\ g_timers'[s].status = 2 <=> g_timers[s].id \in cancelled'
            /\ g_timers'[s].status = 1 => clock >= g_timers[s].fire
  BY <1>1, <1>2, <1>5, <1>6, <1>8 DEF TM!PlacesInv
<1>13. QED
  BY <1>2, <1>7, <1>10, <1>11, <1>12, OnePlace
\* A waiter's record stays true when time passes, and when more timers are created
\* or cancelled.
LEMMA StaysTrue ==
  ASSUME TM!TimersAssumption, TM!TypeOK, NEW v \in WaitRecords, TrueWait(v),
         clock' \in Nat, clock' >= clock, counter' \in Nat, counter' >= counter,
         cancelled \subseteq cancelled', \A n \in 1..counter : deadline'[n] = deadline[n]
  PROVE  TrueWait(v)'
<1>1. counter \in Nat /\ clock \in Nat /\ MAX_CONCURRENT_TIMERS \in Nat /\ v.id \in 0..counter
      /\ deadline \in [1..MaxTimers -> Nat] /\ counter =< MaxTimers /\ MaxTimers \in Nat
  BY DEF TM!TypeOK, WaitRecords, TM!TimersAssumption
<1>2. TM!CancelReason(v.id) => TM!CancelReason(v.id)'
  BY <1>1 DEF TM!CancelReason
<1>3. CASE v.id = 0
  BY <1>3 DEF TrueWait
<1>4. CASE v.id # 0
  <2>1. deadline'[v.id] = deadline[v.id] /\ deadline[v.id] \in Nat
    BY <1>1, <1>4
  <2>2. QED
    BY <1>1, <1>2, <2>1 DEF TrueWait
<1>5. QED
  BY <1>3, <1>4

\* A new timer takes its place over from an older one, which nobody can cancel any more.
LEMMA Creates ==
  ASSUME TM!TimersAssumption, TM!TimerInv, NEW d \in Delays, NEW r \in Regions \cup {0},
         TM!TimerCreate(d, r)
  PROVE  TM!TimerInv'
<1> DEFINE n == counter + 1
           new == [id |-> n, fire |-> clock + d, region |-> r, status |-> 0]
<1>1. /\ TM!TypeOK /\ TM!PlacesInv /\ EveryWait /\ counter \in Nat /\ clock \in Nat /\ d \in Nat
      /\ counter < MaxTimers /\ MaxTimers \in Nat /\ deadline \in [1..MaxTimers -> Nat]
      /\ cancelled \subseteq 1..counter
  <2>1. TM!TypeOK /\ TM!PlacesInv /\ EveryWait
    BY ByWaiter
  <2>2. d \in Nat /\ MaxTimers \in Nat /\ MaxTime \in Nat /\ counter < MaxTimers
    BY DEF TM!TimersAssumption, TM!TimerCreate
  <2>3. QED
    BY <2>1, <2>2 DEF TM!TypeOK
<1>2. /\ g_timers' = [g_timers EXCEPT ![TM!Slot(n)] = new]
      /\ counter' = n /\ deadline' = [deadline EXCEPT ![n] = clock + d]
      /\ UNCHANGED <<clock, wait, cancelled>>
  BY DEF TM!TimerCreate
<1>3. TM!Slot(n) \in TM!Slots /\ n \in 1..MaxTimers
  BY <1>1, SlotInRange
<1>4. \A m \in 1..counter : deadline'[m] = deadline[m]
  BY <1>1, <1>2, <1>3
<1>5. deadline'[n] = clock + d
  BY <1>1, <1>2, <1>3
<1>6. \A s \in TM!Slots : g_timers'[s] = IF s = TM!Slot(n) THEN new ELSE g_timers[s]
  BY <1>1, <1>2 DEF TM!TypeOK
<1>7. \A s \in TM!Slots : g_timers[s] \in [id : 0..counter, fire : Nat, region : Regions \cup {0},
                                           status : 0..2]
  BY <1>1 DEF TM!TypeOK
<1>8. TM!TypeOK'
  <2>1. new \in [id : 0..n, fire : Nat, region : Regions \cup {0}, status : 0..2]
    BY <1>1
  <2>2. \A s \in TM!Slots : g_timers[s] \in [id : 0..n, fire : Nat, region : Regions \cup {0},
                                             status : 0..2]
    BY <1>1, <1>7
  <2>3. g_timers' \in [TM!Slots -> [id : 0..n, fire : Nat, region : Regions \cup {0}, status : 0..2]]
    BY <1>1, <1>2, <2>1, <2>2 DEF TM!TypeOK
  <2>4. \A s \in TM!Slots : g_timers'[s].id # 0 => TM!Slot(g_timers'[s].id) = s
    <3> SUFFICES ASSUME NEW s \in TM!Slots, g_timers'[s].id # 0
                 PROVE  TM!Slot(g_timers'[s].id) = s
      OBVIOUS
    <3>1. CASE s = TM!Slot(n)
      BY <1>6, <3>1
    <3>2. CASE s # TM!Slot(n)
      BY <1>1, <1>6, <3>2 DEF TM!TypeOK
    <3>3. QED
      BY <3>1, <3>2
  <2>5. wait' \in [Waiters -> [pc : {"idle", "read", "test", "callback"}, id : 0..n,
                               st : 0..2, fire : Nat, at : Nat, late : BOOLEAN]]
    <3>1. WaitRecords \subseteq [pc : {"idle", "read", "test", "callback"}, id : 0..n,
                                 st : 0..2, fire : Nat, at : Nat, late : BOOLEAN]
      BY <1>1 DEF WaitRecords
    <3>2. wait \in [Waiters -> WaitRecords]
      BY <1>1 DEF TM!TypeOK, WaitRecords
    <3>3. QED
      BY <1>2, <3>1, <3>2
  <2>6. deadline' \in [1..MaxTimers -> Nat]
    BY <1>1, <1>2
  <2>7. cancelled' \subseteq 1..n
    BY <1>1, <1>2
  <2>8. clock' \in 0..MaxTime
    BY <1>1, <1>2 DEF TM!TypeOK
  <2>9. QED
    BY <1>1, <1>2, <1>3, <2>3, <2>4, <2>5, <2>6, <2>7, <2>8 DEF TM!TypeOK, TM!Slot
<1>9. TM!PlacesInv'
  <2>1. ASSUME NEW s \in TM!Slots, g_timers'[s].id # 0
        PROVE  /\ g_timers'[s].fire = deadline'[g_timers'[s].id]
               /\ g_timers'[s].status = 2 <=> g_timers'[s].id \in cancelled'
               /\ g_timers'[s].status = 1 => clock' >= g_timers'[s].fire
    <3>1. CASE s = TM!Slot(n)
      <4>1. n \notin cancelled
        BY <1>1
      <4>2. QED
        BY <1>2, <1>5, <1>6, <3>1, <4>1
    <3>2. CASE s # TM!Slot(n)
      <4>1. g_timers[s].id \in 1..counter
        BY <1>6, <1>7, <2>1, <3>2
      <4>2. QED
        BY <1>1, <1>2, <1>4, <1>6, <2>1, <3>2, <4>1 DEF TM!PlacesInv
    <3>3. QED
      BY <3>1, <3>2
  <2>2. ASSUME NEW m \in 1..n PROVE m =< g_timers'[TM!Slot(m)].id
    <3>1. TM!Slot(m) \in TM!Slots
      BY <1>1, SlotInRange
    <3>2. CASE TM!Slot(m) = TM!Slot(n)
      BY <1>1, <1>6, <3>1, <3>2
    <3>3. CASE TM!Slot(m) # TM!Slot(n)
      <4>1. m \in 1..counter
        BY <1>1, <3>3
      <4>2. QED
        BY <1>1, <1>6, <3>1, <3>3, <4>1 DEF TM!PlacesInv
    <3>4. QED
      BY <3>2, <3>3
  <2>3. \A m : TM!Slot(m)' = TM!Slot(m)
    BY DEF TM!Slot
  <2>4. \A m \in 1..counter' : m =< g_timers'[TM!Slot(m)'].id
    BY <1>2, <2>2, <2>3
  <2>5. QED
    BY <2>1, <2>4 DEF TM!PlacesInv
<1>10. EveryWait'
  <2>1. ASSUME NEW w \in Waiters PROVE TrueWait(wait[w])'
    <3>1. wait[w] \in WaitRecords /\ TrueWait(wait[w]) /\ wait'[w] = wait[w]
      BY <1>1, <1>2 DEF TM!TypeOK, WaitRecords, EveryWait
    <3>2. PICK v : v = wait[w]
      OBVIOUS
    <3>3. TrueWait(v)'
      BY <1>1, <1>2, <1>4, <3>1, <3>2, StaysTrue
    <3>4. QED
      BY <3>1, <3>2, <3>3
  <2>2. QED
    BY <2>1 DEF EveryWait
<1>11. QED
  BY <1>8, <1>9, <1>10, ByWaiter, PTL

\* Only time passes.
LEMMA Ticks ==
  ASSUME TM!TimersAssumption, TM!TimerInv, TM!Tick PROVE TM!TimerInv'
<1>1. /\ TM!TypeOK /\ TM!PlacesInv /\ EveryWait /\ clock \in Nat /\ counter \in Nat
      /\ clock' = clock + 1 /\ clock < MaxTime /\ MaxTime \in Nat
      /\ UNCHANGED <<g_timers, counter, wait, deadline, cancelled>>
  BY ByWaiter DEF TM!TypeOK, TM!TimersAssumption, TM!Tick
<1>2. TM!TypeOK'
  BY <1>1 DEF TM!TypeOK, TM!Slot
<1>3. TM!PlacesInv'
  <2>1. \A s \in TM!Slots : g_timers[s].fire \in Nat
    BY <1>1 DEF TM!TypeOK
  <2>2. QED
    BY <1>1, <2>1 DEF TM!PlacesInv, TM!Slot
<1>4. EveryWait'
  <2>1. ASSUME NEW w \in Waiters PROVE TrueWait(wait[w])'
    <3>1. wait[w] \in WaitRecords /\ TrueWait(wait[w]) /\ wait'[w] = wait[w]
      BY <1>1 DEF TM!TypeOK, WaitRecords, EveryWait
    <3>2. PICK v : v = wait[w]
      OBVIOUS
    <3>3. TrueWait(v)'
      BY <1>1, <3>1, <3>2, StaysTrue
    <3>4. QED
      BY <3>1, <3>2, <3>3
  <2>2. QED
    BY <2>1 DEF EveryWait
<1>5. QED
  BY <1>2, <1>3, <1>4, ByWaiter, PTL
\* After a cancellation the waiters' records stay true.
LEMMA StillTrue ==
  ASSUME TM!TimersAssumption, TM!TimerInv, UNCHANGED <<wait, counter, clock, deadline>>,
         cancelled \subseteq cancelled'
  PROVE  EveryWait'
<1>1. TM!TypeOK /\ EveryWait /\ clock \in Nat /\ counter \in Nat
  BY ByWaiter DEF TM!TypeOK
<1>2. ASSUME NEW w \in Waiters PROVE TrueWait(wait[w])'
  <2>1. wait[w] \in WaitRecords /\ TrueWait(wait[w]) /\ wait'[w] = wait[w]
    BY <1>1 DEF TM!TypeOK, WaitRecords, EveryWait
  <2>2. PICK v : v = wait[w]
    OBVIOUS
  <2>3. TrueWait(v)'
    BY <1>1, <2>1, <2>2, StaysTrue
  <2>4. QED
    BY <2>1, <2>2, <2>3
<1>3. QED
  BY <1>2 DEF EveryWait

\* A pending timer is cancelled.
LEMMA Cancels ==
  ASSUME TM!TimersAssumption, TM!TimerInv, NEW id \in 1..counter, TM!TimerCancel(id)
  PROVE  TM!TimerInv'
<1> DEFINE t == g_timers[TM!Slot(id)]
<1>1. TM!TypeOK /\ TM!PlacesInv /\ counter \in Nat
  BY ByWaiter DEF TM!TypeOK
<1>2. /\ t.id = id /\ t.status = 0
      /\ g_timers' = [g_timers EXCEPT ![TM!Slot(id)].status = 2]
      /\ cancelled' = cancelled \cup {id}
      /\ UNCHANGED <<wait, counter, clock, deadline>>
  BY DEF TM!TimerCancel
<1>3. TM!Slot(id) \in TM!Slots
  BY <1>1, SlotInRange
<1>4. t \in [id : 0..counter, fire : Nat, region : Regions \cup {0}, status : 0..2]
  BY <1>1, <1>3 DEF TM!TypeOK
<1>5. \A s \in TM!Slots :
         g_timers'[s] = IF s = TM!Slot(id) THEN [t EXCEPT !.status = 2] ELSE g_timers[s]
  BY <1>1, <1>2 DEF TM!TypeOK
<1>6. \A s \in TM!Slots : /\ g_timers'[s].id = g_timers[s].id
                          /\ g_timers'[s].fire = g_timers[s].fire
  BY <1>4, <1>5
<1>7. TM!TypeOK'
  <2>1. [t EXCEPT !.status = 2] \in [id : 0..counter, fire : Nat, region : Regions \cup {0},
                                     status : 0..2]
    BY <1>4
  <2>2. g_timers' \in [TM!Slots -> [id : 0..counter, fire : Nat, region : Regions \cup {0},
                                    status : 0..2]]
    BY <1>1, <1>2, <2>1 DEF TM!TypeOK
  <2>3. QED
    BY <1>1, <1>2, <1>6, <2>2 DEF TM!TypeOK, TM!Slot
<1>8. ASSUME NEW s \in TM!Slots, g_timers[s].id # 0
      PROVE  /\ g_timers'[s].status = 2 <=> g_timers[s].id \in cancelled'
             /\ g_timers'[s].status = 1 => clock >= g_timers[s].fire
  <2>1. CASE s = TM!Slot(id)
    BY <1>2, <1>4, <1>5, <2>1
  <2>2. CASE s # TM!Slot(id)
    <3>1. g_timers[s].id # id
      BY <1>1, <1>8, <2>2 DEF TM!TypeOK
    <3>2. QED
      BY <1>1, <1>2, <1>5, <1>8, <2>2, <3>1 DEF TM!PlacesInv
  <2>3. QED
    BY <2>1, <2>2
<1>9. QED
  BY <1>2, <1>6, <1>7, <1>8, StillTrue, OnePlace

\* Every pending timer of a region is cancelled.
LEMMA CancelsRegion ==
  ASSUME TM!TimersAssumption, TM!TimerInv, NEW r \in Regions, TM!CancelRegion(r)
  PROVE  TM!TimerInv'
<1> DEFINE hit == {s \in TM!Slots : g_timers[s].id # 0 /\ g_timers[s].region = r
                                     /\ g_timers[s].status = 0}
<1>1. TM!TypeOK /\ TM!PlacesInv /\ counter \in Nat
  BY ByWaiter DEF TM!TypeOK
<1>2. /\ g_timers' = [s \in TM!Slots |-> IF s \in hit THEN [g_timers[s] EXCEPT !.status = 2]
                                         ELSE g_timers[s]]
      /\ cancelled' = cancelled \cup {g_timers[s].id : s \in hit}
      /\ UNCHANGED <<wait, counter, clock, deadline>>
  BY DEF TM!CancelRegion
<1>3. ASSUME NEW s \in TM!Slots
      PROVE  g_timers[s] \in [id : 0..counter, fire : Nat, region : Regions \cup {0},
                              status : 0..2]
  BY <1>1 DEF TM!TypeOK
<1>4. ASSUME NEW s \in hit
      PROVE  s \in TM!Slots /\ g_timers[s].id \in 1..counter /\ g_timers[s].status = 0
             /\ TM!Slot(g_timers[s].id) = s
  BY <1>1, <1>3 DEF TM!TypeOK
<1> HIDE DEF hit
<1>5. ASSUME NEW s \in TM!Slots
      PROVE  /\ g_timers'[s].id = g_timers[s].id /\ g_timers'[s].fire = g_timers[s].fire
             /\ g_timers'[s].status = IF s \in hit THEN 2 ELSE g_timers[s].status
             /\ g_timers'[s] \in [id : 0..counter, fire : Nat, region : Regions \cup {0},
                                  status : 0..2]
  BY <1>2, <1>3
<1>6. TM!TypeOK'
  <2>1. g_timers' \in [TM!Slots -> [id : 0..counter, fire : Nat, region : Regions \cup {0},
                                    status : 0..2]]
    BY <1>2, <1>5
  <2>2. cancelled' \subseteq 1..counter
    BY <1>1, <1>2, <1>4 DEF TM!TypeOK
  <2>3. QED
    BY <1>1, <1>2, <1>5, <2>1, <2>2 DEF TM!TypeOK, TM!Slot
<1>7. ASSUME NEW s \in TM!Slots, g_timers[s].id # 0
      PROVE  /\ g_timers'[s].status = 2 <=> g_timers[s].id \in cancelled'
             /\ g_timers'[s].status = 1 => clock >= g_timers[s].fire
  <2>1. CASE s \in hit
    BY <1>2, <1>5, <2>1
  <2>2. CASE s \notin hit
    <3>1. \A u \in hit : g_timers[u].id # g_timers[s].id
      BY <1>1, <1>4, <1>7, <2>2 DEF TM!TypeOK
    <3>2. QED
      BY <1>1, <1>2, <1>5, <1>7, <2>2, <3>1 DEF TM!PlacesInv
  <2>3. QED
    BY <2>1, <2>2
<1>8. QED
  BY <1>2, <1>5, <1>6, <1>7, StillTrue, OnePlace

\* Each step of the clock, the waiters and the cancellers keeps the invariant.
LEMMA TimerStep == TM!TimersAssumption /\ TM!TimerInv /\ TM!Next => TM!TimerInv'
BY Creates, Ticks, Cancels, CancelsRegion, WaiterReads, WaiterSteps, WaiterCompletes
   DEF TM!Next, TM!InWait

(* ------------------------------- loop pool ------------------------------ *)

\* Taking the last element away.
LEMMA FrontOf ==
  ASSUME NEW S, NEW s \in Seq(S), s # <<>>
  PROVE  /\ PL!Front(s) \in Seq(S) /\ Len(PL!Front(s)) = Len(s) - 1
         /\ \A k \in 1..(Len(s) - 1) : PL!Front(s)[k] = s[k]
<1> DEFINE m == Len(s) - 1
<1>1. m \in Nat /\ 1 \in Int /\ \A k \in 1..m : s[k] \in S
  BY EmptySeq, ElementOfSeq
<1>2. PL!Front(s) = SubSeq(s, 1, m)
  BY DEF PL!Front
<1> HIDE DEF m
<1>3. /\ SubSeq(s, 1, m) \in Seq(S)
      /\ Len(SubSeq(s, 1, m)) = IF 1 =< m THEN m - 1 + 1 ELSE 0
      /\ \A k \in 1..(m - 1 + 1) : SubSeq(s, 1, m)[k] = s[1 + k - 1]
  BY <1>1, SubSeqProperties
<1>4. Len(SubSeq(s, 1, m)) = m /\ \A k \in 1..m : SubSeq(s, 1, m)[k] = s[k]
  BY <1>1, <1>3
<1>5. QED
  BY <1>2, <1>3, <1>4 DEF m

\* Changing the last element of a sequence.
LEMMA WithLast ==
  ASSUME NEW S, NEW s \in Seq(S), s # <<>>, NEW f \in S
  PROVE  /\ PL!With(s, f) \in Seq(S) /\ Len(PL!With(s, f)) = Len(s)
         /\ \A k \in 1..Len(s) : PL!With(s, f)[k] = IF k = Len(s) THEN f ELSE s[k]
<1> DEFINE n == Len(s)
           front == PL!Front(s)
<1>1. n \in Nat \ {0}
  BY EmptySeq
<1>2. front \in Seq(S) /\ Len(front) = n - 1 /\ \A k \in 1..(n - 1) : front[k] = s[k]
  BY FrontOf
<1>3. <<f>> \in Seq(S) /\ Len(<<f>>) = 1 /\ <<f>>[1] = f
  OBVIOUS
<1> HIDE DEF n, front
<1>4. /\ front \o <<f>> \in Seq(S) /\ Len(front \o <<f>>) = n
      /\ \A k \in 1..n : (front \o <<f>>)[k] = IF k =< n - 1 THEN front[k] ELSE <<f>>[k - (n - 1)]
  BY <1>1, <1>2, <1>3, ConcatProperties
<1>5. PL!With(s, f) = front \o <<f>>
  BY DEF PL!With, front
<1>6. QED
  BY <1>1, <1>2, <1>3, <1>4, <1>5 DEF n

\* The tasks a frame owes to worker w, and what is said of the caller's frame.
Owes(f, w) == \/ f.pc = "dispatch" /\ w < f.w
              \/ f.pc \in {"copy", "claim", "body"} /\ w < f.num_w
              \/ f.pc \in {"join", "join_zz"} /\ f.w =< w /\ w < f.num_w

FrameOK(f) == f \in PL!Frames /\ (f.pc \in {"seq", "body", "claim"} => f.fn \in Jobs)

CallerOK(f) ==
    /\ f.pc \in PL!CallerPcs /\ f.job \in Jobs /\ f.w =< f.num_w
    /\ f.pc = "publish" => f.num_w = PL!NumW(f.job) /\ f.w = 1
    /\ f.pc = "dispatch" /\ Kind[f.job] # "for" => f.num_w = 2 /\ task[1] \in Jobs

WorkerOK(f, w) == f.pc \in PL!WorkerPcs /\ f.w = w /\ f.job = NoJob

\* What PoolInv says of worker w.
WorkerInv(w) ==
    /\ PL!Busy(w) => ~done[w] /\ mode[w] # 0 /\ stack[Caller] # <<>> /\ Owes(PL!Base(Caller), w)
    /\ ready[w] => PL!Base(w).pc \in {"wait", "wait_zz"}
    /\ mode[w] = 2 => task[w] \in Jobs

\* The invariant, thread by thread.
Stacks ==
    /\ stack \in [PL!Threads -> Seq(PL!Frames)]
    /\ \A t \in PL!Threads : \A k \in 1..Len(stack[t]) :
          FrameOK(stack[t][k]) /\ (k > 1 => stack[t][k].pc = "seq" /\ stack[t][1].pc \in {"seq", "body"})
    /\ \A w \in PL!Workers : stack[w] # <<>> /\ WorkerOK(stack[w][1], w)
    /\ stack[Caller] # <<>> => CallerOK(stack[Caller][1])

EveryWorker == \A w \in PL!Workers : WorkerInv(w)

\* PoolInv says this of each thread.
LEMMA ByThread == PL!PoolInv <=> PL!TypeOK /\ Stacks /\ EveryWorker
<1>1. ASSUME stack \in [PL!Threads -> Seq(PL!Frames)]
      PROVE  \A t \in PL!Threads : /\ DOMAIN stack[t] = 1..Len(stack[t])
                                   /\ \A k \in 1..Len(stack[t]) : stack[t][k] \in PL!Frames
  BY <1>1, LenProperties, ElementOfSeq
<1>2. PL!StackInv <=> Stacks
  <2>1. ASSUME PL!StackInv PROVE Stacks
    BY <1>1, <2>1 DEF PL!StackInv, Stacks, FrameOK, CallerOK, WorkerOK, PL!Base, PL!Threads
  <2>2. ASSUME Stacks PROVE PL!StackInv
    BY <1>1, <2>2 DEF PL!StackInv, Stacks, FrameOK, CallerOK, WorkerOK, PL!Base, PL!Threads
  <2>3. QED
    BY <2>1, <2>2
<1>3. ASSUME NEW w PROVE (\E c \in {Caller} : PL!Owed(c, w)) <=>
                          stack[Caller] # <<>> /\ Owes(PL!Base(Caller), w)
  BY DEF PL!Owed, Owes
<1>4. QED
  BY <1>2, <1>3 DEF PL!PoolInv, WorkerInv, EveryWorker

\* What TypeOK says of the frames.
FrameTypes ==
    \A t \in PL!Threads : \A k \in DOMAIN stack[t] : stack[t][k].w \in 1..g_workers_count

\* The shape of the stacks gives it.
LEMMA StacksTyped == Stacks => FrameTypes
<1> SUFFICES ASSUME Stacks, NEW t \in PL!Threads, NEW k \in DOMAIN stack[t]
             PROVE  stack[t][k].w \in 1..g_workers_count
  BY DEF FrameTypes
<1>1. stack[t][k] \in PL!Frames
  BY LenProperties, ElementOfSeq DEF Stacks
<1>2. QED
  BY <1>1 DEF PL!Frames

\* The threads and the numbers of the pool.
LEMMA PoolNumbers ==
  ASSUME PL!ParallelPoolAssumption
  PROVE  /\ g_workers_count \in Nat /\ g_workers_count >= 1 /\ PL!Workers = 1..(g_workers_count - 1)
         /\ Caller \notin PL!Workers /\ PL!Threads = {Caller} \cup PL!Workers
         /\ PL!Workers \subseteq Int /\ 1 \in 1..g_workers_count /\ NoJob \notin Jobs
         /\ \A j \in Jobs : PL!Start(j) \in Int /\ PL!End(j) \in Int
BY DEF PL!ParallelPoolAssumption, PL!Workers, PL!Threads, PL!Start, PL!End

\* A sequence of one element.
LEMMA Single ==
  ASSUME NEW S, NEW s \in Seq(S), s # <<>>, ~(Len(s) > 1)
  PROVE  Len(s) = 1 /\ s = <<s[1]>> /\ \A f \in S : PL!With(s, f) = <<f>>
<1>1. Len(s) = 1
  <2> PICK n : n = Len(s)
    OBVIOUS
  <2>1. n \in Nat \ {0} /\ ~(n > 1)
    BY EmptySeq
  <2>2. n = 1
    BY ONLY <2>1
  <2>3. QED
    BY <2>2
<1>2. s = <<s[1]>>
  BY <1>1
<1>3. ASSUME NEW f \in S PROVE PL!With(s, f) = <<f>>
  <2>3. /\ PL!With(s, f) \in Seq(S) /\ Len(PL!With(s, f)) = Len(s)
        /\ \A k \in 1..Len(s) : PL!With(s, f)[k] = IF k = Len(s) THEN f ELSE s[k]
    BY WithLast, ZenonT(90)
  <2> DEFINE g == PL!With(s, f)
  <2> HIDE DEF g
  <2>1. g \in Seq(S) /\ Len(g) = 1 /\ g[1] = f
    BY <1>1, <2>3 DEF g
  <2>2. g = <<f>>
    BY <2>1
  <2>4. QED
    BY <2>2 DEF g
<1>4. QED
  BY <1>1, <1>2, <1>3

\* A thread that is not in a call of a body has one frame.
LEMMA OneFrame ==
  ASSUME Stacks, NEW t \in PL!Threads, NEW p, p # "seq", PL!At(t, p)
  PROVE  /\ stack[t] = <<PL!Me(t)>> /\ stack[t] # <<>> /\ PL!Base(t) = PL!Me(t)
         /\ FrameOK(PL!Me(t)) /\ PL!Me(t).pc = p /\ Len(stack[t]) = 1
         /\ \A f \in PL!Frames : PL!With(stack[t], f) = <<f>>
<1> PICK s : s = stack[t]
  OBVIOUS
<1>1. /\ s \in Seq(PL!Frames) /\ s # <<>> /\ s[Len(s)].pc = p
      /\ \A k \in 1..Len(s) : FrameOK(s[k]) /\ (k > 1 => s[k].pc = "seq")
  BY DEF Stacks, PL!At, PL!Last
<1>2. ~(Len(s) > 1)
  <2>1. Len(s) \in 1..Len(s)
    BY <1>1, EmptySeq
  <2>2. QED
    BY <1>1, <2>1
<1>3. Len(s) = 1 /\ s = <<s[1]>> /\ \A f \in PL!Frames : PL!With(s, f) = <<f>>
  BY <1>1, <1>2, Single
<1>4. s[1] = PL!Me(t) /\ s[1] = PL!Base(t) /\ FrameOK(s[1])
  BY <1>1, <1>3 DEF PL!Me, PL!Last, PL!Base
<1>5. QED
  BY <1>1, <1>3, <1>4

\* The frame of a thread that has one is replaced.
LEMMA SetBase ==
  ASSUME PL!ParallelPoolAssumption, Stacks, NEW t \in PL!Threads, NEW f, FrameOK(f),
         stack' = [stack EXCEPT ![t] = <<f>>],
         t \in PL!Workers => WorkerOK(f, t), t = Caller => CallerOK(f)',
         t # Caller => (task[1] \in Jobs => task'[1] \in Jobs)
  PROVE  /\ Stacks' /\ stack'[t] = <<f>> /\ PL!Base(t)' = f
         /\ \A u \in PL!Threads : u # t => stack'[u] = stack[u] /\ PL!Base(u)' = PL!Base(u)
<1>1. /\ stack \in [PL!Threads -> Seq(PL!Frames)] /\ f \in PL!Frames
      /\ PL!Threads = {Caller} \cup PL!Workers /\ Caller \notin PL!Workers
  BY PoolNumbers DEF Stacks, FrameOK
<1>2. stack'[t] = <<f>> /\ \A u \in PL!Threads : u # t => stack'[u] = stack[u]
  BY <1>1
<1>3. stack' \in [PL!Threads -> Seq(PL!Frames)]
  BY <1>1
<1>4. PL!Base(t)' = f /\ \A u \in PL!Threads : u # t => PL!Base(u)' = PL!Base(u)
  BY <1>2 DEF PL!Base
<1>5. ASSUME NEW u \in PL!Threads, NEW k \in 1..Len(stack'[u])
      PROVE  /\ FrameOK(stack'[u][k])
             /\ k > 1 => stack'[u][k].pc = "seq" /\ stack'[u][1].pc \in {"seq", "body"}
  BY <1>2, <1>5 DEF Stacks
<1>6. ASSUME NEW w \in PL!Workers PROVE stack'[w] # <<>> /\ WorkerOK(stack'[w][1], w)
  BY <1>1, <1>2 DEF Stacks
<1>7. ASSUME stack'[Caller] # <<>> PROVE CallerOK(stack[Caller][1])'
  <2>1. CASE t = Caller
    BY <1>2, <2>1 DEF CallerOK
  <2>2. CASE t # Caller
    BY <1>1, <1>2, <1>7, <2>2 DEF Stacks, CallerOK
  <2>3. QED
    BY <2>1, <2>2
<1>8. Stacks'
  BY <1>3, <1>5, <1>6, <1>7 DEF Stacks, FrameOK, WorkerOK
<1>9. QED
  BY <1>2, <1>4, <1>8

\* A thread goes on and leaves the pool's own variables alone, but for the loop's.
LEMMA OneStep ==
  ASSUME PL!ParallelPoolAssumption, PL!PoolInv, NEW t \in PL!Threads, NEW g, stack[t] = <<g>>,
         NEW f, FrameOK(f), stack' = [stack EXCEPT ![t] = <<f>>],
         UNCHANGED <<mode, task, ready, done, region, script>>,
         par' \in [cur : Int, end : Int, chunk : 1..MAX_CHUNK, fn : Jobs \cup {NoJob}],
         t \in PL!Workers => /\ WorkerOK(f, t)
                             /\ f.pc \in {"wait", "wait_zz"} <=> g.pc \in {"wait", "wait_zz"},
         t = Caller => /\ CallerOK(f)
                       /\ \A w \in PL!Workers : PL!Busy(w) /\ Owes(g, w) => Owes(f, w)
  PROVE  PL!PoolInv'
<1>1. PL!TypeOK /\ Stacks /\ (\A w \in PL!Workers : WorkerInv(w)) /\ PL!Base(t) = g
  BY ByThread DEF PL!Base, EveryWorker
<1>2. PL!Threads = {Caller} \cup PL!Workers /\ Caller \notin PL!Workers
  BY PoolNumbers
<1>3. /\ Stacks' /\ stack'[t] = <<f>> /\ PL!Base(t)' = f
      /\ \A u \in PL!Threads : u # t => stack'[u] = stack[u] /\ PL!Base(u)' = PL!Base(u)
  <2>1. t = Caller => CallerOK(f)'
    BY DEF CallerOK
  <2>2. QED
    BY <1>1, <2>1, SetBase
<1>4. PL!TypeOK'
  <2>1. FrameTypes'
    BY <1>3, StacksTyped, PTL
  <2>2. QED
    BY <1>1, <2>1 DEF PL!TypeOK, FrameTypes
<1>5. ASSUME NEW w \in PL!Workers PROVE WorkerInv(w)'
  <2>1. WorkerInv(w)
    BY <1>1
  <2>2. PL!Busy(w)' <=> PL!Busy(w)
    BY <1>1, <1>2, <1>3 DEF PL!Busy
  <2>3. PL!Base(w)'.pc \in {"wait", "wait_zz"} <=> PL!Base(w).pc \in {"wait", "wait_zz"}
    BY <1>1, <1>2, <1>3
  <2>4. PL!Busy(w) => stack'[Caller] # <<>> /\ Owes(PL!Base(Caller), w)'
    <3>1. CASE t = Caller
      <4>1. PL!Busy(w) => Owes(f, w)
        BY <1>1, <2>1, <3>1 DEF WorkerInv
      <4>2. QED
        BY <1>3, <3>1, <4>1 DEF Owes
    <3>2. CASE t # Caller
      BY <1>2, <1>3, <2>1, <3>2 DEF WorkerInv, Owes
    <3>3. QED
      BY <3>1, <3>2
  <2>5. QED
    BY <2>1, <2>2, <2>3, <2>4 DEF WorkerInv
<1>6. EveryWorker'
  BY <1>5 DEF EveryWorker
<1>7. QED
  BY <1>3, <1>4, <1>6, ByThread, PTL

\* What is known of a thread at p.
LEMMA TheFrame ==
  ASSUME PL!ParallelPoolAssumption, PL!PoolInv, NEW t \in PL!Threads, NEW p, p # "seq",
         PL!At(t, p)
  PROVE  /\ PL!TypeOK /\ Stacks /\ EveryWorker
         /\ stack[t] = <<PL!Me(t)>> /\ FrameOK(PL!Me(t)) /\ PL!Me(t).pc = p
         /\ PL!Me(t) = PL!Base(t)
         /\ t \in PL!Workers => WorkerOK(PL!Me(t), t)
         /\ t = Caller => CallerOK(PL!Me(t))
         /\ \A f \in PL!Frames : PL!Become(t, f) => stack' = [stack EXCEPT ![t] = <<f>>]
<1>1. PL!TypeOK /\ Stacks /\ EveryWorker
  BY ByThread
<1>2. /\ stack[t] = <<PL!Me(t)>> /\ stack[t] # <<>> /\ PL!Base(t) = PL!Me(t)
      /\ FrameOK(PL!Me(t)) /\ PL!Me(t).pc = p
      /\ \A f \in PL!Frames : PL!With(stack[t], f) = <<f>>
  BY <1>1, OneFrame
<1>3. stack[t][1] = PL!Me(t)
  BY <1>2 DEF PL!Base
<1>4. (t \in PL!Workers => WorkerOK(PL!Me(t), t)) /\ (t = Caller => CallerOK(PL!Me(t)))
  BY <1>1, <1>2, <1>3 DEF Stacks
<1>5. QED
  BY <1>1, <1>2, <1>4 DEF PL!Become

\* The frame with which a thread leaves the loop.
LEMMA AfterLoopOK ==
  ASSUME PL!ParallelPoolAssumption, PL!PoolInv, NEW t \in PL!Threads, NEW p,
         p \in {"copy", "claim", "body"}, PL!At(t, p)
  PROVE  LET f == PL!AfterLoop(t) IN
         /\ FrameOK(f) /\ f.pc \notin {"wait", "wait_zz"}
         /\ t \in PL!Workers => WorkerOK(f, t)
         /\ t = Caller => /\ CallerOK(f)
                          /\ \A w \in PL!Workers : Owes(PL!Me(t), w) => Owes(f, w)
<1> DEFINE g == PL!Me(t)
           f == PL!AfterLoop(t)
<1>1. /\ FrameOK(g) /\ g.pc = p /\ (t \in PL!Workers => WorkerOK(g, t))
      /\ t = Caller => CallerOK(g)
  BY TheFrame
<1>2. /\ PL!Threads = {Caller} \cup PL!Workers /\ 1 \in 1..g_workers_count /\ NoJob \notin Jobs
      /\ PL!Workers = 1..(g_workers_count - 1) /\ g_workers_count \in Nat
  BY PoolNumbers
<1>3. g \in PL!Frames /\ g.num_w \in 1..g_workers_count
  BY <1>1 DEF FrameOK, PL!Frames
<1>4. CASE t \in PL!Workers
  <2>1. f = [g EXCEPT !.pc = "answer"]
    BY <1>1, <1>4 DEF PL!AfterLoop, WorkerOK
  <2>2. f \in PL!Frames /\ f.pc = "answer" /\ f.w = t /\ f.job = NoJob
    BY <1>1, <1>3, <1>4, <2>1 DEF PL!Frames, PL!WorkerPcs, WorkerOK
  <2>3. t # Caller
    BY <1>4, PoolNumbers
  <2>4. QED
    BY <1>4, <2>2, <2>3 DEF FrameOK, WorkerOK, PL!WorkerPcs
<1>5. CASE t = Caller
  <2>1. f = [g EXCEPT !.pc = "join", !.w = 1]
    BY <1>1, <1>2, <1>5 DEF PL!AfterLoop, CallerOK
  <2>2. f \in PL!Frames /\ f.pc = "join" /\ f.w = 1 /\ f.job = g.job /\ f.num_w = g.num_w
    BY <1>2, <1>3, <2>1 DEF PL!Frames, PL!CallerPcs
  <2>3. FrameOK(f) /\ CallerOK(f)
    BY <1>1, <1>3, <1>5, <2>2 DEF FrameOK, CallerOK, PL!CallerPcs
  <2>4. \A w \in PL!Workers : Owes(g, w) => Owes(f, w)
    BY <1>1, <1>2, <2>2 DEF Owes
  <2>5. t \notin PL!Workers
    BY <1>5, PoolNumbers
  <2>6. QED
    BY <2>2, <2>3, <2>4, <2>5
<1>6. QED
  BY <1>2, <1>4, <1>5

\* Inside the dynamic loop: the copy of the loop's variables, a claim, the end of a chunk.
LEMMA LoopSteps ==
  ASSUME PL!ParallelPoolAssumption, PL!PoolInv, NEW t \in PL!Threads,
         PL!CopyLoop(t) \/ PL!Claim(t) \/ PL!ChunkDone(t)
  PROVE  PL!PoolInv'
<1> DEFINE g == PL!Me(t)
<1>1. PICK p \in {"copy", "claim", "body"} : PL!At(t, p)
  BY DEF PL!CopyLoop, PL!Claim, PL!ChunkDone
<1>2. /\ PL!TypeOK /\ stack[t] = <<g>> /\ FrameOK(g) /\ g.pc = p
      /\ t \in PL!Workers => WorkerOK(g, t)
      /\ t = Caller => CallerOK(g)
      /\ \A f \in PL!Frames : PL!Become(t, f) => stack' = [stack EXCEPT ![t] = <<f>>]
  BY <1>1, TheFrame
<1>3. UNCHANGED <<mode, task, ready, done, region, script>>
  BY DEF PL!CopyLoop, PL!Claim, PL!ChunkDone
<1>4. /\ g \in PL!Frames /\ g.chunk \in Int /\ g.end \in Int
      /\ par.cur \in Int /\ par.end \in Int /\ par.chunk \in Int /\ par.fn \in Jobs \cup {NoJob}
  BY <1>2 DEF FrameOK, PL!Frames, PL!TypeOK
<1>5. par' \in [cur : Int, end : Int, chunk : 1..MAX_CHUNK, fn : Jobs \cup {NoJob}]
  <2>1. CASE PL!Claim(t)
    BY <1>2, <1>4, <2>1, SMTT(60) DEF PL!Claim, PL!Claimed, PL!TypeOK
  <2>2. CASE UNCHANGED par
    BY <1>2, <2>2 DEF PL!TypeOK
  <2>3. QED
    BY <2>1, <2>2 DEF PL!CopyLoop, PL!ChunkDone
<1>6. PICK f : /\ PL!Become(t, f)
               /\ \/ f = PL!AfterLoop(t)
                  \/ /\ f = [g EXCEPT !.pc = "claim", !.fn = par.fn, !.end = par.end, !.chunk = par.chunk]
                     /\ par.fn # NoJob
                  \/ \E a, b \in Int : f = [g EXCEPT !.pc = "body", !.at = a, !.to = b] /\ p = "claim"
                  \/ f = [g EXCEPT !.pc = "claim"] /\ p = "body"
  <2>1. CASE PL!CopyLoop(t)
    BY <2>1 DEF PL!CopyLoop
  <2>2. CASE PL!Claim(t)
    <3>1. p = "claim"
      BY <1>2, <2>2 DEF PL!Claim, PL!At, PL!Me
    <3>2. par.cur + g.chunk \in Int
      BY <1>4
    <3>3. QED
      BY <1>4, <2>2, <3>1, <3>2 DEF PL!Claim
  <2>3. CASE PL!ChunkDone(t)
    <3>1. p = "body"
      BY <1>2, <2>3 DEF PL!ChunkDone, PL!At, PL!Me
    <3>2. QED
      BY <2>3, <3>1 DEF PL!ChunkDone, PL!Goto
  <2>4. QED
    BY <2>1, <2>2, <2>3
<1>7. CASE f = PL!AfterLoop(t)
  <2>1. /\ FrameOK(f) /\ f.pc \notin {"wait", "wait_zz"}
        /\ t \in PL!Workers => WorkerOK(f, t)
        /\ t = Caller => /\ CallerOK(f)
                         /\ \A w \in PL!Workers : Owes(g, w) => Owes(f, w)
    BY <1>1, <1>7, AfterLoopOK
  <2>2. stack' = [stack EXCEPT ![t] = <<f>>]
    BY <1>2, <1>6, <2>1 DEF FrameOK
  <2>3. QED
    BY <1>2, <1>3, <1>5, <2>1, <2>2, OneStep
<1>8. CASE f # PL!AfterLoop(t)
  <2>1. /\ f \in PL!Frames /\ f.pc \in {"claim", "body"} /\ f.fn \in Jobs
        /\ f.job = g.job /\ f.w = g.w /\ f.num_w = g.num_w
    <3>1. CASE /\ f = [g EXCEPT !.pc = "claim", !.fn = par.fn, !.end = par.end, !.chunk = par.chunk]
               /\ par.fn # NoJob
      BY <1>4, <3>1 DEF PL!Frames, PL!WorkerPcs
    <3>2. CASE \E a, b \in Int : f = [g EXCEPT !.pc = "body", !.at = a, !.to = b] /\ p = "claim"
      <4>1. g.fn \in Jobs
        BY <1>2, <3>2 DEF FrameOK
      <4>2. QED
        BY <1>4, <3>2, <4>1 DEF PL!Frames, PL!WorkerPcs
    <3>3. CASE f = [g EXCEPT !.pc = "claim"] /\ p = "body"
      <4>1. g.fn \in Jobs
        BY <1>2, <3>3 DEF FrameOK
      <4>2. QED
        BY <1>4, <3>3, <4>1 DEF PL!Frames, PL!WorkerPcs
    <3>4. QED
      BY <1>6, <1>8, <3>1, <3>2, <3>3
  <2>2. FrameOK(f) /\ f.pc \notin {"wait", "wait_zz"} /\ g.pc \notin {"wait", "wait_zz"}
    BY <1>2, <2>1 DEF FrameOK
  <2>3. t \in PL!Workers => WorkerOK(f, t)
    BY <1>2, <2>1 DEF WorkerOK, PL!WorkerPcs
  <2>4. t = Caller => CallerOK(f)
    BY <1>2, <2>1 DEF CallerOK, PL!CallerPcs
  <2>5. \A w \in PL!Workers : Owes(g, w) => Owes(f, w)
    BY <1>2, <2>1 DEF Owes
  <2>6. stack' = [stack EXCEPT ![t] = <<f>>]
    BY <1>2, <1>6, <2>1
  <2>7. QED
    BY <1>2, <1>3, <1>5, <2>2, <2>3, <2>4, <2>5, <2>6, OneStep
<1>9. QED
  BY <1>7, <1>8

\* A thread at one of these places is the caller, or a worker.
LEMMA WhoseStep ==
  ASSUME PL!ParallelPoolAssumption, PL!PoolInv, NEW t \in PL!Threads, NEW p, PL!At(t, p)
  PROVE  /\ p \in {"publish", "dispatch", "join", "join_zz"} => t = Caller /\ t \notin PL!Workers
         /\ p \in {"wait", "wait_zz", "start", "answer"} => t \in PL!Workers /\ t # Caller
<1>1. PL!Threads = {Caller} \cup PL!Workers /\ Caller \notin PL!Workers
  BY PoolNumbers
<1>2. CASE p = "seq"
  BY <1>2
<1>3. CASE p # "seq"
  BY <1>1, <1>3, TheFrame DEF WorkerOK, CallerOK, PL!WorkerPcs, PL!CallerPcs
<1>4. QED
  BY <1>2, <1>3

\* The caller turns to its own part, waits for a worker, or goes on to the next.
LEMMA CallerSteps ==
  ASSUME PL!ParallelPoolAssumption, PL!PoolInv, NEW t \in PL!Threads,
         PL!Dispatched(t) \/ PL!Join(t)
  PROVE  PL!PoolInv'
<1> DEFINE g == PL!Me(t)
<1>1. PICK p \in {"dispatch", "join"} : PL!At(t, p)
  BY DEF PL!Dispatched, PL!Join
<1>2. /\ PL!TypeOK /\ EveryWorker /\ stack[t] = <<g>> /\ FrameOK(g) /\ g.pc = p
      /\ t = Caller /\ t \notin PL!Workers /\ CallerOK(g)
      /\ \A f \in PL!Frames : PL!Become(t, f) => stack' = [stack EXCEPT ![t] = <<f>>]
  BY <1>1, TheFrame, WhoseStep
<1>3. UNCHANGED <<mode, task, ready, done, region, script>> /\ par' = par
  BY DEF PL!Dispatched, PL!Join
<1>4. /\ par' \in [cur : Int, end : Int, chunk : 1..MAX_CHUNK, fn : Jobs \cup {NoJob}]
      /\ g \in PL!Frames /\ g.w \in 1..g_workers_count /\ g.num_w \in 1..g_workers_count
      /\ g.job \in Jobs /\ g.w =< g.num_w
      /\ g_workers_count \in Nat /\ PL!Workers = 1..(g_workers_count - 1)
  BY <1>2, <1>3, PoolNumbers DEF FrameOK, PL!Frames, PL!TypeOK, CallerOK
<1>5. CASE PL!Dispatched(t)
  <2>1. p = "dispatch" /\ g.w >= g.num_w
    BY <1>2, <1>5 DEF PL!Dispatched, PL!At, PL!Me
  <2>2. PICK f : /\ PL!Become(t, f)
                 /\ \/ f = [g EXCEPT !.pc = "copy"]
                    \/ f = [g EXCEPT !.pc = "body", !.fn = g.job, !.at = 1, !.to = 2]
    BY <1>5 DEF PL!Dispatched, PL!Goto
  <2>3. /\ f \in PL!Frames /\ f.pc \in {"copy", "body"} /\ (f.pc = "body" => f.fn \in Jobs)
        /\ f.job = g.job /\ f.num_w = g.num_w /\ f.w = g.w
    <3>1. g \in PL!Frames /\ g.job \in Jobs
      BY <1>4
    <3>2. CASE f = [g EXCEPT !.pc = "copy"]
      BY <3>1, <3>2 DEF PL!Frames, PL!CallerPcs
    <3>3. CASE f = [g EXCEPT !.pc = "body", !.fn = g.job, !.at = 1, !.to = 2]
      <4>1. PICK a, b \in Int : f = [g EXCEPT !.pc = "body", !.fn = g.job, !.at = a, !.to = b]
        <5>1. 1 \in Int /\ 2 \in Int
          OBVIOUS
        <5>2. QED
          BY <3>3, <5>1, Zenon
      <4>2. QED
        BY <3>1, <4>1 DEF PL!Frames, PL!CallerPcs
    <3>4. QED
      BY <2>2, <3>2, <3>3
  <2>4. FrameOK(f) /\ CallerOK(f)
    BY <1>4, <2>3 DEF FrameOK, CallerOK, PL!CallerPcs
  <2>5. \A w \in PL!Workers : Owes(g, w) => Owes(f, w)
    BY <1>2, <1>4, <2>1, <2>3 DEF Owes
  <2>6. stack' = [stack EXCEPT ![t] = <<f>>]
    BY <1>2, <2>2, <2>3
  <2>7. QED
    BY <1>2, <1>3, <1>4, <2>4, <2>5, <2>6, OneStep
<1>6. CASE PL!Join(t)
  <2>1. p = "join" /\ g.w < g.num_w
    BY <1>2, <1>6 DEF PL!Join, PL!At, PL!Me
  <2>2. PICK f : /\ PL!Become(t, f)
                 /\ \/ f = [g EXCEPT !.w = g.w + 1] /\ done[g.w]
                    \/ f = [g EXCEPT !.pc = "join_zz"]
    BY <1>6 DEF PL!Join
  <2>3. /\ f \in PL!Frames /\ f.pc \in {"join", "join_zz"} /\ f.job = g.job /\ f.num_w = g.num_w
        /\ f.w = g.w \/ (f.w = g.w + 1 /\ done[g.w])
    BY <1>2, <1>4, <2>1, <2>2, SMTT(60) DEF PL!Frames, PL!CallerPcs
  <2>4. FrameOK(f) /\ CallerOK(f)
    BY <1>4, <2>1, <2>3 DEF FrameOK, CallerOK, PL!CallerPcs
  <2>5. ASSUME NEW w \in PL!Workers, PL!Busy(w), Owes(g, w) PROVE Owes(f, w)
    <3>1. ~done[w] /\ g.w =< w /\ w < g.num_w
      BY <1>2, <2>1, <2>5 DEF EveryWorker, WorkerInv, Owes
    <3>2. f.w =< w
      BY <1>4, <2>3, <3>1
    <3>3. QED
      BY <2>3, <3>1, <3>2 DEF Owes
  <2>6. stack' = [stack EXCEPT ![t] = <<f>>]
    BY <1>2, <2>2, <2>3
  <2>7. QED
    BY <1>2, <1>3, <1>4, <2>4, <2>5, <2>6, OneStep
<1>7. QED
  BY <1>5, <1>6

\* A sleeper awakes without a signal.
LEMMA SpuriousStep ==
  ASSUME PL!ParallelPoolAssumption, PL!PoolInv, NEW t \in PL!Threads, PL!SpuriousWakeup(t)
  PROVE  PL!PoolInv'
<1> DEFINE g == PL!Me(t)
           f == PL!Awake(g)
<1>1. PICK p \in {"wait_zz", "join_zz"} : PL!At(t, p)
  BY DEF PL!SpuriousWakeup
<1>2. /\ PL!TypeOK /\ stack[t] = <<g>> /\ FrameOK(g) /\ g.pc = p
      /\ t \in PL!Workers => WorkerOK(g, t)
      /\ t = Caller => CallerOK(g)
      /\ \A h \in PL!Frames : PL!Become(t, h) => stack' = [stack EXCEPT ![t] = <<h>>]
  BY <1>1, TheFrame
<1>3. UNCHANGED <<mode, task, ready, done, region, script>> /\ par' = par /\ PL!Become(t, f)
  BY DEF PL!SpuriousWakeup
<1>4. /\ f \in PL!Frames /\ f.job = g.job /\ f.num_w = g.num_w /\ f.w = g.w
      /\ f.pc = (IF p = "wait_zz" THEN "wait" ELSE "join")
  BY <1>2 DEF PL!Awake, FrameOK, PL!Frames, PL!WorkerPcs, PL!CallerPcs
<1>5. stack' = [stack EXCEPT ![t] = <<f>>]
  BY <1>2, <1>3, <1>4
<1> HIDE DEF f
<1>6. FrameOK(f) /\ (t \in PL!Workers => WorkerOK(f, t)) /\ (t = Caller => CallerOK(f))
      /\ (f.pc \in {"wait", "wait_zz"} <=> g.pc \in {"wait", "wait_zz"})
      /\ \A w \in PL!Workers : Owes(g, w) => Owes(f, w)
  BY <1>2, <1>4 DEF FrameOK, WorkerOK, CallerOK, Owes, PL!WorkerPcs, PL!CallerPcs
<1>7. par' \in [cur : Int, end : Int, chunk : 1..MAX_CHUNK, fn : Jobs \cup {NoJob}]
  BY <1>2, <1>3 DEF PL!TypeOK
<1>8. QED
  BY <1>2, <1>3, <1>5, <1>6, <1>7, OneStep

\* A worker starts what it was given: a loop, or a task.
LEMMA StartStep ==
  ASSUME PL!ParallelPoolAssumption, PL!PoolInv, NEW t \in PL!Workers, PL!WorkerStarts(t)
  PROVE  PL!PoolInv'
<1> DEFINE g == PL!Me(t)
<1>1. PL!At(t, "start") /\ t \in PL!Threads /\ t # Caller
  BY PoolNumbers DEF PL!WorkerStarts
<1>2. /\ PL!TypeOK /\ EveryWorker /\ stack[t] = <<g>> /\ FrameOK(g) /\ g.pc = "start"
      /\ WorkerOK(g, t) /\ g = PL!Base(t)
      /\ \A h \in PL!Frames : PL!Become(t, h) => stack' = [stack EXCEPT ![t] = <<h>>]
  BY <1>1, TheFrame
<1>3. UNCHANGED <<mode, task, ready, done, region, script>> /\ par' = par
  BY DEF PL!WorkerStarts
<1>4. mode[t] = 1 \/ task[t] \in Jobs
  <2>1. PL!Busy(t)
    BY <1>2 DEF PL!Busy
  <2>2. mode[t] \in 0..2 /\ mode[t] # 0 /\ (mode[t] = 2 => task[t] \in Jobs)
    BY <1>2, <2>1 DEF EveryWorker, WorkerInv, PL!TypeOK
  <2>3. QED
    BY <2>2
<1>5. PICK f : /\ PL!Become(t, f)
               /\ \/ f = [g EXCEPT !.pc = "copy"]
                  \/ f = [g EXCEPT !.pc = "body", !.fn = task[t], !.at = 0, !.to = 1]
                     /\ task[t] \in Jobs
  BY <1>4 DEF PL!WorkerStarts, PL!Goto
<1>6. g \in PL!Frames
  BY <1>2 DEF FrameOK
<1>7. /\ f \in PL!Frames /\ f.pc \in {"copy", "body"} /\ (f.pc = "body" => f.fn \in Jobs)
      /\ f.job = g.job /\ f.w = g.w
  <2>1. CASE f = [g EXCEPT !.pc = "copy"]
    BY <1>6, <2>1 DEF PL!Frames, PL!CallerPcs
  <2>2. CASE f = [g EXCEPT !.pc = "body", !.fn = task[t], !.at = 0, !.to = 1] /\ task[t] \in Jobs
    <3>1. PICK a, b \in Int : f = [g EXCEPT !.pc = "body", !.fn = task[t], !.at = a, !.to = b]
      <4>1. 0 \in Int /\ 1 \in Int
        OBVIOUS
      <4>2. QED
        BY <2>2, <4>1, Zenon
    <3>2. QED
      BY <1>6, <2>2, <3>1 DEF PL!Frames, PL!CallerPcs
  <2>3. QED
    BY <1>5, <2>1, <2>2
<1>8. FrameOK(f) /\ WorkerOK(f, t)
  BY <1>2, <1>7 DEF FrameOK, WorkerOK, PL!WorkerPcs
<1>9. stack' = [stack EXCEPT ![t] = <<f>>]
  BY <1>2, <1>5, <1>7
<1>10. par' \in [cur : Int, end : Int, chunk : 1..MAX_CHUNK, fn : Jobs \cup {NoJob}]
  BY <1>2, <1>3 DEF PL!TypeOK
<1>11. QED
  BY <1>1, <1>2, <1>3, <1>7, <1>8, <1>9, <1>10, OneStep

\* The number of workers a call uses is one of the pool's.
LEMMA NumWOK ==
  ASSUME PL!ParallelPoolAssumption, NEW t \in PL!Threads, NEW j \in Jobs, ~PL!Sequential(t, j)
  PROVE  PL!NumW(j) \in 1..g_workers_count /\ (Kind[j] # "for" => PL!NumW(j) = 2)
<1>1. /\ g_workers_count \in Nat /\ g_workers_count > 1 /\ Kind[j] \in {"for", "invoke"}
      /\ PL!Start(j) \in Int /\ PL!End(j) \in Int
  BY PoolNumbers DEF PL!Sequential, PL!ParallelPoolAssumption
<1>2. Kind[j] = "for" => PL!End(j) - PL!Start(j) > 1
  BY <1>1 DEF PL!Sequential
<1>3. QED
  BY <1>1, <1>2 DEF PL!NumW

\* The frame a call is entered with.
LEMMA EntryOK ==
  ASSUME PL!ParallelPoolAssumption, NEW t \in PL!Threads, NEW j \in Jobs
  PROVE  LET f == PL!Entry(t, j) IN
         /\ FrameOK(f) /\ f.job = j /\ f.w = 1
         /\ f.pc = "seq" \/ (f.pc = "publish" /\ f.num_w = PL!NumW(j))
         /\ Kind[j] = "for" /\ PL!End(j) - PL!Start(j) =< 1 => f.pc = "seq"
<1> DEFINE f == PL!Entry(t, j)
           blank(p) == PL!Frame(p, j)
<1>1. /\ 1 \in 1..g_workers_count /\ PL!Start(j) \in Int /\ PL!End(j) \in Int /\ 0 \in Int /\ 1 \in Int
  BY PoolNumbers
<1>2. \A p \in {"seq", "publish"} :
         /\ blank(p) \in PL!Frames /\ blank(p).pc = p /\ blank(p).job = j /\ blank(p).w = 1
  BY <1>1 DEF PL!Frames, PL!Frame, PL!CallerPcs
<1>3. CASE PL!Sequential(t, j)
  <2>1. f = [blank("seq") EXCEPT !.fn = j, !.at = PL!Start(j), !.to = PL!End(j)]
    BY <1>3 DEF PL!Entry
  <2>2. PICK a, b \in Int : f = [blank("seq") EXCEPT !.fn = j, !.at = a, !.to = b]
    BY <1>1, <2>1
  <2> HIDE DEF blank, f
  <2>3. f \in PL!Frames /\ f.pc = "seq" /\ f.job = j /\ f.w = 1 /\ f.fn = j
    BY <1>2, <2>2 DEF PL!Frames
  <2>4. QED
    BY <2>3 DEF FrameOK, f
<1>4. CASE ~PL!Sequential(t, j)
  <2>1. f = [blank("publish") EXCEPT !.num_w = PL!NumW(j)]
    BY <1>4 DEF PL!Entry
  <2>2. PL!NumW(j) \in 1..g_workers_count
    BY <1>4, NumWOK
  <2> HIDE DEF blank
  <2>3. /\ f \in PL!Frames /\ f.pc = "publish" /\ f.job = j /\ f.w = 1 /\ f.num_w = PL!NumW(j)
    BY <1>2, <2>1, <2>2 DEF PL!Frames
  <2>4. ~(Kind[j] = "for" /\ PL!End(j) - PL!Start(j) =< 1)
    BY <1>4 DEF PL!Sequential
  <2>5. QED
    BY <2>3, <2>4 DEF FrameOK
<1>5. QED
  BY <1>3, <1>4

\* The thread's own stack changes above its base, or in what the base runs next.
LEMMA SameBase ==
  ASSUME PL!ParallelPoolAssumption, PL!PoolInv, NEW t \in PL!Threads, stack[t] # <<>>,
         NEW s \in Seq(PL!Frames), s # <<>>,
         \A k \in 1..Len(s) : FrameOK(s[k]) /\ (k > 1 => s[k].pc = "seq" /\ s[1].pc \in {"seq", "body"}),
         LET f == s[1] g == stack[t][1]
         IN  f.pc = g.pc /\ f.w = g.w /\ f.job = g.job /\ f.num_w = g.num_w,
         stack' = [stack EXCEPT ![t] = s],
         UNCHANGED <<par, mode, task, ready, done, region, script>>
  PROVE  PL!PoolInv'
<1>1. PL!TypeOK /\ Stacks /\ EveryWorker
  BY ByThread
<1>2. /\ PL!Threads = {Caller} \cup PL!Workers /\ Caller \notin PL!Workers
      /\ stack \in [PL!Threads -> Seq(PL!Frames)]
  BY <1>1, PoolNumbers DEF Stacks
<1>3. stack'[t] = s /\ \A u \in PL!Threads : u # t => stack'[u] = stack[u]
  BY <1>2
<1>4. Stacks'
  <2>1. stack' \in [PL!Threads -> Seq(PL!Frames)]
    BY <1>2
  <2>2. ASSUME NEW u \in PL!Threads, NEW k \in 1..Len(stack'[u])
        PROVE  /\ FrameOK(stack'[u][k])
               /\ k > 1 => stack'[u][k].pc = "seq" /\ stack'[u][1].pc \in {"seq", "body"}
    BY <1>1, <1>3, <2>2 DEF Stacks
  <2>3. ASSUME NEW w \in PL!Workers PROVE stack'[w] # <<>> /\ WorkerOK(stack'[w][1], w)
    BY <1>1, <1>2, <1>3 DEF Stacks, WorkerOK
  <2>4. ASSUME stack'[Caller] # <<>> PROVE CallerOK(stack[Caller][1])'
    BY <1>1, <1>2, <1>3, <2>4 DEF Stacks, CallerOK
  <2>5. QED
    BY <2>1, <2>2, <2>3, <2>4 DEF Stacks, FrameOK, WorkerOK
<1>5. FrameTypes'
  BY <1>4, StacksTyped, PTL
<1>6. PL!TypeOK'
  BY <1>1, <1>5 DEF PL!TypeOK, FrameTypes
<1>7. \A u \in PL!Threads : /\ PL!Base(u)'.pc = PL!Base(u).pc /\ PL!Base(u)'.w = PL!Base(u).w
                            /\ PL!Base(u)'.num_w = PL!Base(u).num_w
  BY <1>3 DEF PL!Base
<1>8. ASSUME NEW w \in PL!Workers PROVE WorkerInv(w)'
  <2>1. WorkerInv(w)
    BY <1>1 DEF EveryWorker
  <2>2. stack[Caller] # <<>> => stack'[Caller] # <<>>
    BY <1>2, <1>3
  <2>3. Owes(PL!Base(Caller), w) <=> Owes(PL!Base(Caller), w)'
    BY <1>2, <1>7 DEF Owes
  <2>4. PL!Busy(w)' <=> PL!Busy(w)
    BY <1>2, <1>7 DEF PL!Busy
  <2>5. QED
    BY <1>2, <1>7, <2>1, <2>2, <2>3, <2>4 DEF WorkerInv
<1>9. EveryWorker'
  BY <1>8 DEF EveryWorker
<1>10. QED
  BY <1>4, <1>6, <1>9, ByThread, PTL

\* One turn of the body; a call made by it has one turn, and is run here.
LEMMA BodyStep ==
  ASSUME PL!ParallelPoolAssumption, PL!NestedIsShort, PL!PoolInv, NEW t \in PL!Threads, PL!Body(t)
  PROVE  PL!PoolInv'
<1> PICK s : s = stack[t]
  OBVIOUS
<1> PICK n : n = Len(s)
  OBVIOUS
<1>1. PL!TypeOK /\ Stacks
  BY ByThread
<1>2. /\ s \in Seq(PL!Frames) /\ s # <<>> /\ n \in Nat \ {0} /\ s[n].pc \in {"body", "seq"}
      /\ \A k \in 1..n : FrameOK(s[k]) /\ (k > 1 => s[k].pc = "seq" /\ s[1].pc \in {"seq", "body"})
  BY <1>1, EmptySeq DEF Stacks, PL!Body, PL!At, PL!Last
<1> DEFINE f == s[n]
           next == [f EXCEPT !.at = @ + 1]
           inner == Nested[f.fn]
           s1 == PL!With(s, next)
           s2 == Append(s1, PL!Entry(t, inner))
<1>3. /\ next \in PL!Frames /\ next.pc = f.pc /\ next.w = f.w /\ next.job = f.job
      /\ next.num_w = f.num_w /\ next.fn = f.fn /\ f.fn \in Jobs
  <2>1. n \in 1..n
    BY <1>2
  <2>2. FrameOK(f) /\ f.pc \in {"seq", "body"}
    BY <1>2, <2>1
  <2>3. f \in PL!Frames /\ f.at + 1 \in Int
    BY <2>2 DEF FrameOK, PL!Frames
  <2>4. f.fn \in Jobs
    BY <2>2 DEF FrameOK
  <2>5. QED
    BY <2>3, <2>4 DEF PL!Frames
<1> HIDE DEF next
<1>4. /\ s1 \in Seq(PL!Frames) /\ Len(s1) = n
      /\ \A k \in 1..n : s1[k] = IF k = n THEN next ELSE s[k]
  <2>1. /\ PL!With(s, next) \in Seq(PL!Frames) /\ Len(PL!With(s, next)) = Len(s)
        /\ \A k \in 1..Len(s) : PL!With(s, next)[k] = IF k = Len(s) THEN next ELSE s[k]
    <3>1. s \in Seq(PL!Frames)
      BY <1>2
    <3>2. s # <<>>
      BY <1>2
    <3>3. next \in PL!Frames
      BY <1>3
    <3>4. QED
      BY ONLY <3>1, <3>2, <3>3, WithLast, ZenonT(90)
  <2>2. QED
    BY <2>1
<1> HIDE DEF s1
<1>5. /\ s1 # <<>>
      /\ \A k \in 1..n : FrameOK(s1[k]) /\ (k > 1 => s1[k].pc = "seq" /\ s1[1].pc \in {"seq", "body"})
      /\ s1[1].pc = s[1].pc /\ s1[1].w = s[1].w /\ s1[1].job = s[1].job /\ s1[1].num_w = s[1].num_w
      /\ s1[1].pc \in {"seq", "body"}
  BY <1>2, <1>3, <1>4 DEF FrameOK
<1>6. UNCHANGED <<par, mode, task, ready, done, region, script>>
  BY DEF PL!Body
<1>7. stack' = [stack EXCEPT ![t] = IF inner = NoJob THEN s1 ELSE s2]
  BY DEF PL!Body, PL!Me, PL!Last, s1, next
<1>8. CASE inner = NoJob
  BY <1>2, <1>4, <1>5, <1>6, <1>7, <1>8, SameBase, ZenonT(60)
<1>9. CASE inner # NoJob
  <2>1. inner \in Jobs /\ Kind[inner] = "for" /\ PL!End(inner) - PL!Start(inner) =< 1
    BY <1>3, <1>9 DEF PL!NestedIsShort, PL!ParallelPoolAssumption
  <2> DEFINE e == PL!Entry(t, inner)
  <2>2. FrameOK(e) /\ e.pc = "seq" /\ e \in PL!Frames
    BY <2>1, EntryOK DEF FrameOK
  <2> HIDE DEF e, inner
  <2>3. /\ s2 \in Seq(PL!Frames) /\ s2 # <<>> /\ Len(s2) = n + 1 /\ s2[n + 1] = e
        /\ \A k \in 1..n : s2[k] = s1[k]
    BY <1>4, <2>2, AppendProperties DEF e
  <2> HIDE DEF s2
  <2>4. \A k \in 1..Len(s2) :
           FrameOK(s2[k]) /\ (k > 1 => s2[k].pc = "seq" /\ s2[1].pc \in {"seq", "body"})
    BY <1>2, <1>5, <2>2, <2>3
  <2>5. s2[1] = s1[1]
    BY <1>2, <2>3
  <2>6. stack' = [stack EXCEPT ![t] = s2]
    BY <1>7, <1>9
  <2>7. QED
    <3>1. LET h == s2[1] g == stack[t][1]
          IN  h.pc = g.pc /\ h.w = g.w /\ h.job = g.job /\ h.num_w = g.num_w
      BY <1>5, <2>5
    <3>2. stack[t] # <<>>
      BY <1>2
    <3>3. QED
      BY <1>6, <2>3, <2>4, <2>6, <3>1, <3>2, SameBase
<1>10. QED
  BY <1>8, <1>9

\* The caller's call is over: it owes nobody anything, so nobody is at work.
LEMMA CallEnds ==
  ASSUME PL!ParallelPoolAssumption, PL!PoolInv, stack[Caller] # <<>>,
         \A w \in PL!Workers : ~Owes(PL!Base(Caller), w),
         stack' = [stack EXCEPT ![Caller] = <<>>], region' \in [PL!Threads -> BOOLEAN],
         UNCHANGED <<par, mode, task, ready, done, script>>
  PROVE  PL!PoolInv'
<1>1. PL!TypeOK /\ Stacks /\ EveryWorker
  BY ByThread
<1>2. /\ PL!Threads = {Caller} \cup PL!Workers /\ Caller \notin PL!Workers
      /\ stack \in [PL!Threads -> Seq(PL!Frames)]
  BY <1>1, PoolNumbers DEF Stacks
<1>3. stack'[Caller] = <<>> /\ \A w \in PL!Workers : stack'[w] = stack[w]
  BY <1>2
<1>4. Stacks'
  <2>1. stack' \in [PL!Threads -> Seq(PL!Frames)]
    BY <1>2
  <2>2. ASSUME NEW u \in PL!Threads, NEW k \in 1..Len(stack'[u])
        PROVE  /\ FrameOK(stack'[u][k])
               /\ k > 1 => stack'[u][k].pc = "seq" /\ stack'[u][1].pc \in {"seq", "body"}
    <3>1. u # Caller
      BY <1>3, <2>2, EmptySeq
    <3>2. QED
      BY <1>1, <1>2, <1>3, <2>2, <3>1 DEF Stacks
  <2>3. \A w \in PL!Workers : stack'[w] # <<>> /\ WorkerOK(stack'[w][1], w)
    BY <1>1, <1>3 DEF Stacks
  <2>4. QED
    BY <1>3, <2>1, <2>2, <2>3 DEF Stacks, FrameOK, WorkerOK
<1>5. FrameTypes'
  BY <1>4, StacksTyped, PTL
<1>6. PL!TypeOK'
  BY <1>1, <1>5 DEF PL!TypeOK, FrameTypes
<1>7. ASSUME NEW w \in PL!Workers PROVE WorkerInv(w)'
  <2>1. WorkerInv(w) /\ ~PL!Busy(w)
    BY <1>1 DEF EveryWorker, WorkerInv
  <2>2. PL!Base(w)' = PL!Base(w)
    BY <1>3 DEF PL!Base
  <2>3. QED
    BY <2>1, <2>2 DEF WorkerInv, PL!Busy
<1>8. EveryWorker'
  BY <1>7 DEF EveryWorker
<1>9. QED
  BY <1>4, <1>6, <1>8, ByThread, PTL

\* Every worker is joined, and the call returns.
LEMMA ReturnStep ==
  ASSUME PL!ParallelPoolAssumption, PL!PoolInv, NEW t \in PL!Threads, PL!Return(t)
  PROVE  PL!PoolInv'
<1> DEFINE g == PL!Me(t)
<1>1. PL!At(t, "join") /\ g.w >= g.num_w
  BY DEF PL!Return
<1>2. /\ PL!TypeOK /\ Stacks /\ stack[t] = <<g>> /\ FrameOK(g) /\ g.pc = "join" /\ t = Caller
      /\ CallerOK(g) /\ g = PL!Base(t)
  BY <1>1, TheFrame, WhoseStep
<1>3. \A w \in PL!Workers : ~Owes(g, w)
  <2>1. g.w \in Int /\ g.num_w \in Int /\ PL!Workers \subseteq Int
    BY <1>2, PoolNumbers DEF FrameOK, PL!Frames
  <2>2. QED
    BY <1>1, <1>2, <2>1 DEF Owes
<1>4. stack' = [stack EXCEPT ![Caller] = <<>>]
  <2>1. PL!Front(<<g>>) = <<>>
    BY SubSeqEmpty DEF PL!Front
  <2>2. QED
    BY <1>2, <2>1 DEF PL!Return
<1>5. region' \in [PL!Threads -> BOOLEAN]
  BY <1>2 DEF PL!Return, PL!TypeOK
<1>6. QED
  <2>1. UNCHANGED <<par, mode, task, ready, done, script>>
    BY DEF PL!Return
  <2>2. stack[Caller] # <<>> /\ \A w \in PL!Workers : ~Owes(PL!Base(Caller), w)
    BY <1>2, <1>3
  <2>3. QED
    BY <1>4, <1>5, <2>1, <2>2, CallEnds

\* A call that one thread runs alone is over.
LEMMA SequentialStep ==
  ASSUME PL!ParallelPoolAssumption, PL!PoolInv, NEW t \in PL!Threads, PL!SequentialDone(t)
  PROVE  PL!PoolInv'
<1> PICK s : s = stack[t]
  OBVIOUS
<1> PICK n : n = Len(s)
  OBVIOUS
<1>1. PL!TypeOK /\ Stacks
  BY ByThread
<1>2. /\ s \in Seq(PL!Frames) /\ s # <<>> /\ n \in Nat \ {0} /\ s[n].pc = "seq"
      /\ \A k \in 1..n : FrameOK(s[k]) /\ (k > 1 => s[k].pc = "seq" /\ s[1].pc \in {"seq", "body"})
  BY <1>1, EmptySeq DEF Stacks, PL!SequentialDone, PL!At, PL!Last
<1>3. UNCHANGED <<par, mode, task, ready, done, region, script>>
  BY DEF PL!SequentialDone
<1> DEFINE s1 == PL!Front(s)
<1>4. stack' = [stack EXCEPT ![t] = s1]
  BY DEF PL!SequentialDone
<1>5. s1 \in Seq(PL!Frames) /\ Len(s1) = n - 1 /\ \A k \in 1..(n - 1) : s1[k] = s[k]
  <2>1. /\ PL!Front(s) \in Seq(PL!Frames) /\ Len(PL!Front(s)) = Len(s) - 1
        /\ \A k \in 1..(Len(s) - 1) : PL!Front(s)[k] = s[k]
    <3>1. s \in Seq(PL!Frames)
      BY <1>2
    <3>2. s # <<>>
      BY <1>2
    <3>3. QED
      BY ONLY <3>1, <3>2, FrontOf, Zenon
  <2>2. QED
    BY <2>1
<1> HIDE DEF s1
<1>6. CASE n = 1
  <2>1. s1 = <<>>
    BY <1>5, <1>6, EmptySeq
  <2>2. PL!Base(t).pc = "seq"
    BY <1>2, <1>6 DEF PL!Base
  <2>3. t = Caller
    BY <1>1, <2>2, PoolNumbers DEF Stacks, WorkerOK, PL!WorkerPcs, PL!Base
  <2>4. \A w \in PL!Workers : ~Owes(PL!Base(Caller), w)
    BY <2>2, <2>3 DEF Owes
  <2>5. region' \in [PL!Threads -> BOOLEAN]
    BY <1>1, <1>3 DEF PL!TypeOK
  <2>6. QED
    BY <1>2, <1>3, <1>4, <2>1, <2>3, <2>4, <2>5, CallEnds
<1>7. CASE n # 1
  <2>1. s1 # <<>> /\ s1[1] = s[1] /\ Len(s1) \in Nat /\ Len(s1) < n
    <3>1. Len(s1) \in Nat /\ Len(s1) < n /\ Len(s1) # 0 /\ 1 \in 1..(n - 1)
      <4> PICK m : m = Len(s1)
        OBVIOUS
      <4>1. m = n - 1 /\ n \in Nat \ {0} /\ n # 1
        BY <1>2, <1>5, <1>7
      <4>2. m \in Nat /\ m < n /\ m # 0 /\ 1 \in 1..(n - 1)
        BY ONLY <4>1
      <4>3. QED
        BY <4>2
    <3>2. s1 # <<>>
      BY <3>1, EmptySeq
    <3>3. QED
      BY <1>5, <3>1, <3>2
  <2>2. \A k \in 1..Len(s1) :
           FrameOK(s1[k]) /\ (k > 1 => s1[k].pc = "seq" /\ s1[1].pc \in {"seq", "body"})
    BY <1>2, <1>5, <2>1
  <2>3. LET h == s1[1] g == stack[t][1]
        IN  h.pc = g.pc /\ h.w = g.w /\ h.job = g.job /\ h.num_w = g.num_w
    BY <2>1
  <2>4. QED
    BY <1>2, <1>3, <1>4, <1>5, <2>1, <2>2, <2>3, SameBase
<1>8. QED
  BY <1>6, <1>7

\* The pool's variables after a step of thread t whose frame becomes f.
LEMMA PoolAfter ==
  ASSUME PL!ParallelPoolAssumption, PL!PoolInv, NEW t \in PL!Threads, NEW f, FrameOK(f),
         stack' = [stack EXCEPT ![t] = <<f>>],
         t \in PL!Workers => WorkerOK(f, t), t = Caller => CallerOK(f)',
         t # Caller => UNCHANGED task,
         par' \in [cur : Int, end : Int, chunk : 1..MAX_CHUNK, fn : Jobs \cup {NoJob}],
         mode' \in [PL!Workers -> 0..2], task' \in [PL!Workers -> Jobs \cup {NoJob}],
         ready' \in [PL!Workers -> BOOLEAN], done' \in [PL!Workers -> BOOLEAN],
         region' \in [PL!Threads -> BOOLEAN], script' \in [{Caller} -> Seq(Jobs)]
  PROVE  /\ Stacks' /\ PL!TypeOK' /\ stack'[t] = <<f>> /\ PL!Base(t)' = f
         /\ \A u \in PL!Threads : u # t => stack'[u] = stack[u] /\ PL!Base(u)' = PL!Base(u)
<1>1. /\ Stacks' /\ stack'[t] = <<f>> /\ PL!Base(t)' = f
      /\ \A u \in PL!Threads : u # t => stack'[u] = stack[u] /\ PL!Base(u)' = PL!Base(u)
  BY ByThread, SetBase
<1>2. FrameTypes'
  BY <1>1, StacksTyped, PTL
<1>3. QED
  BY <1>1, <1>2 DEF PL!TypeOK, FrameTypes

\* The program makes its next call: nobody is at work.
LEMMA CallStep ==
  ASSUME PL!ParallelPoolAssumption, PL!PoolInv, PL!Call(Caller)
  PROVE  PL!PoolInv'
<1>1. PL!TypeOK /\ Stacks /\ EveryWorker
  BY ByThread
<1>2. /\ PL!Threads = {Caller} \cup PL!Workers /\ Caller \notin PL!Workers
      /\ 1 \in 1..g_workers_count /\ PL!Workers \subseteq Int
  BY PoolNumbers
<1>3. PICK j : j = Head(script[Caller])
  OBVIOUS
<1>4. script[Caller] \in Seq(Jobs) /\ script[Caller] # <<>>
  BY <1>1 DEF PL!TypeOK, PL!Call
<1>5. j \in Jobs /\ Tail(script[Caller]) \in Seq(Jobs)
  BY <1>3, <1>4, HeadTailProperties
<1> PICK f : f = PL!Entry(Caller, j)
  OBVIOUS
<1>6. /\ FrameOK(f) /\ f.job = j /\ f.w = 1
      /\ f.pc = "seq" \/ (f.pc = "publish" /\ f.num_w = PL!NumW(j))
  BY <1>2, <1>5, EntryOK
<1>7. stack[Caller] = <<>> /\ stack' = [stack EXCEPT ![Caller] = <<f>>]
      /\ UNCHANGED <<par, mode, task, ready, done, region>>
  BY <1>3 DEF PL!Call
<1>8. script' \in [{Caller} -> Seq(Jobs)]
  BY <1>1, <1>5 DEF PL!Call, PL!TypeOK
<1>9. CallerOK(f)'
  <2>1. f.num_w \in 1..g_workers_count /\ f.pc \in {"seq", "publish"}
    BY <1>6 DEF FrameOK, PL!Frames
  <2>2. f.w =< f.num_w
    BY <1>6, <2>1
  <2>3. QED
    BY <1>5, <1>6, <2>1, <2>2 DEF CallerOK, PL!CallerPcs
<1>10. /\ Stacks' /\ PL!TypeOK'
       /\ \A u \in PL!Threads : u # Caller => stack'[u] = stack[u] /\ PL!Base(u)' = PL!Base(u)
  <2>1. /\ par' \in [cur : Int, end : Int, chunk : 1..MAX_CHUNK, fn : Jobs \cup {NoJob}]
        /\ mode' \in [PL!Workers -> 0..2] /\ task' \in [PL!Workers -> Jobs \cup {NoJob}]
        /\ ready' \in [PL!Workers -> BOOLEAN] /\ done' \in [PL!Workers -> BOOLEAN]
        /\ region' \in [PL!Threads -> BOOLEAN]
    BY <1>1, <1>7 DEF PL!TypeOK
  <2>2. QED
    <3>1. Caller \in PL!Threads /\ Caller \notin PL!Workers
      BY <1>2
    <3>2. FrameOK(f)
      BY <1>6
    <3>3. stack' = [stack EXCEPT ![Caller] = <<f>>]
      BY <1>7
    <3>4. QED
      BY <1>8, <1>9, <2>1, <3>1, <3>2, <3>3, PoolAfter
<1>11. ASSUME NEW w \in PL!Workers PROVE WorkerInv(w)'
  <2>1. WorkerInv(w) /\ ~PL!Busy(w)
    BY <1>1, <1>7 DEF EveryWorker, WorkerInv
  <2>2. PL!Base(w)' = PL!Base(w)
    BY <1>2, <1>10
  <2>3. QED
    BY <1>7, <2>1, <2>2 DEF WorkerInv, PL!Busy
<1>12. EveryWorker'
  BY <1>11 DEF EveryWorker
<1>13. QED
  BY <1>10, <1>12, ByThread, PTL

\* A chunk has a turn at least.
LEMMA ChunkSizeOK ==
  ASSUME PL!ParallelPoolAssumption, NEW total \in Int, NEW n \in Nat \ {0}
  PROVE  PL!ChunkSize(total, n) \in 1..MAX_CHUNK
<1>1. CHUNKS_PER_WORKER \in Nat \ {0} /\ MAX_CHUNK \in Nat \ {0}
  BY DEF PL!ParallelPoolAssumption
<1>2. n * CHUNKS_PER_WORKER \in Nat \ {0}
  BY <1>1
<1> DEFINE c == total \div (n * CHUNKS_PER_WORKER)
<1>3. c \in Int
  BY <1>2
<1> HIDE DEF c
<1>4. (IF c < 1 THEN 1 ELSE IF c > MAX_CHUNK THEN MAX_CHUNK ELSE c) \in 1..MAX_CHUNK
  BY <1>1, <1>3
<1>5. QED
  BY <1>4 DEF PL!ChunkSize, c

\* The loop or the task is written down: nobody has been given work yet.
LEMMA PublishStep ==
  ASSUME PL!ParallelPoolAssumption, PL!PoolInv, NEW t \in PL!Threads, PL!Publish(t)
  PROVE  PL!PoolInv'
<1> PICK g : g = PL!Me(t)
  OBVIOUS
<1> PICK f : f = [g EXCEPT !.pc = "dispatch"]
  OBVIOUS
<1> PICK j : j = g.job
  OBVIOUS
<1>1. PL!At(t, "publish")
  BY DEF PL!Publish
<1>2. /\ PL!TypeOK /\ Stacks /\ EveryWorker /\ stack[t] = <<g>> /\ FrameOK(g) /\ g.pc = "publish"
      /\ g = PL!Base(t) /\ t = Caller /\ CallerOK(g)
      /\ \A h \in PL!Frames : PL!Become(t, h) => stack' = [stack EXCEPT ![t] = <<h>>]
  BY <1>1, TheFrame, WhoseStep
<1>3. /\ PL!Threads = {Caller} \cup PL!Workers /\ Caller \notin PL!Workers
      /\ PL!Workers = 1..(g_workers_count - 1) /\ g_workers_count \in Nat
  BY PoolNumbers
<1>4. /\ j \in Jobs /\ g.num_w = PL!NumW(j) /\ g.w = 1 /\ g.num_w \in 1..g_workers_count
      /\ PL!Start(j) \in Int /\ PL!End(j) \in Int /\ Kind[j] \in {"for", "invoke"}
  BY <1>2, PoolNumbers DEF CallerOK, FrameOK, PL!Frames, PL!ParallelPoolAssumption
<1>5. /\ f \in PL!Frames /\ f.pc = "dispatch" /\ f.job = j /\ f.w = 1 /\ f.num_w = g.num_w
  BY <1>2, <1>4 DEF FrameOK, PL!Frames, PL!CallerPcs
<1>6. stack' = [stack EXCEPT ![t] = <<f>>]
  BY <1>2, <1>5 DEF PL!Publish, PL!Goto
<1>7. UNCHANGED <<mode, ready, done, script>> /\ region' = [region EXCEPT ![t] = TRUE]
  BY DEF PL!Publish
<1>8. /\ par' \in [cur : Int, end : Int, chunk : 1..MAX_CHUNK, fn : Jobs \cup {NoJob}]
      /\ task' \in [PL!Workers -> Jobs \cup {NoJob}]
      /\ \A w \in PL!Workers : task'[w] = task[w] \/ task'[w] \in Jobs
      /\ Kind[j] # "for" => g.num_w = 2 /\ task'[1] \in Jobs
  <2>1. CASE Kind[j] = "for"
    <3>1. PL!ChunkSize(PL!End(j) - PL!Start(j), PL!NumW(j)) \in 1..MAX_CHUNK
      <4>1. PL!NumW(j) \in Nat \ {0} /\ PL!End(j) - PL!Start(j) \in Int
        BY <1>3, <1>4
      <4>2. QED
        BY <4>1, ChunkSizeOK
    <3>2. par' = [cur |-> PL!Start(j), end |-> PL!End(j), fn |-> j,
                  chunk |-> PL!ChunkSize(PL!End(j) - PL!Start(j), PL!NumW(j))]
          /\ UNCHANGED task
      BY <2>1 DEF PL!Publish
    <3>3. QED
      BY <1>2, <1>4, <2>1, <3>1, <3>2 DEF PL!TypeOK
  <2>2. CASE Kind[j] # "for"
    <3>1. task' = [task EXCEPT ![1] = j] /\ UNCHANGED par
      BY <2>2 DEF PL!Publish
    <3>2. g.num_w = 2 /\ 1 \in PL!Workers
      BY <1>3, <1>4, <2>2 DEF PL!NumW
    <3>3. QED
      BY <1>2, <1>4, <2>2, <3>1, <3>2 DEF PL!TypeOK
  <2>3. QED
    BY <2>1, <2>2
<1>9. FrameOK(f) /\ CallerOK(f)'
  <2>1. FrameOK(f)
    BY <1>5 DEF FrameOK
  <2>2. f.pc \in PL!CallerPcs /\ f.job \in Jobs /\ f.w =< f.num_w /\ f.pc # "publish"
    BY <1>4, <1>5 DEF PL!CallerPcs
  <2>3. Kind[f.job] # "for" => f.num_w = 2 /\ task'[1] \in Jobs
    BY <1>5, <1>8
  <2>4. QED
    BY <2>1, <2>2, <2>3 DEF CallerOK
<1>10. /\ Stacks' /\ PL!TypeOK'
       /\ \A u \in PL!Threads : u # t => stack'[u] = stack[u] /\ PL!Base(u)' = PL!Base(u)
  <2>1. /\ mode' \in [PL!Workers -> 0..2]
        /\ ready' \in [PL!Workers -> BOOLEAN] /\ done' \in [PL!Workers -> BOOLEAN]
        /\ region' \in [PL!Threads -> BOOLEAN] /\ script' \in [{Caller} -> Seq(Jobs)]
    BY <1>2, <1>7 DEF PL!TypeOK
  <2>2. t \notin PL!Workers
    BY <1>2, <1>3
  <2>3. QED
    <3>1. t = Caller
      BY <1>2
    <3>2. /\ par' \in [cur : Int, end : Int, chunk : 1..MAX_CHUNK, fn : Jobs \cup {NoJob}]
          /\ task' \in [PL!Workers -> Jobs \cup {NoJob}]
      BY <1>8
    <3>3. QED
      BY <1>6, <1>9, <2>1, <2>2, <3>1, <3>2, PoolAfter
<1>11. ASSUME NEW w \in PL!Workers PROVE WorkerInv(w)'
  <2>1. ~Owes(g, w) /\ WorkerInv(w)
    BY <1>2 DEF Owes, EveryWorker
  <2>2. ~PL!Busy(w)
    BY <1>2, <2>1 DEF WorkerInv
  <2>3. PL!Base(w)' = PL!Base(w)
    BY <1>2, <1>3, <1>10
  <2>4. QED
    BY <1>7, <1>8, <2>1, <2>2, <2>3 DEF WorkerInv, PL!Busy
<1>12. EveryWorker'
  BY <1>11 DEF EveryWorker
<1>13. QED
  BY <1>10, <1>12, ByThread, PTL

\* A sleeper that is signalled: its frame h becomes f.
Woken(h, f, u) ==
    /\ FrameOK(f)
    /\ u \in PL!Workers => WorkerOK(f, u)
    /\ u = Caller => CallerOK(f)
    /\ f.pc \in {"wait", "wait_zz"} <=> h.pc \in {"wait", "wait_zz"}
    /\ \A w \in PL!Workers : Owes(f, w) <=> Owes(h, w)

\* A sleeper's frame is as before but for its place.
LEMMA AwakeOK ==
  ASSUME PL!ParallelPoolAssumption, PL!PoolInv, NEW u \in PL!Threads,
         PL!At(u, "wait_zz") \/ PL!At(u, "join_zz")
  PROVE  /\ stack[u] = <<PL!Base(u)>> /\ Woken(PL!Base(u), PL!Awake(PL!Base(u)), u)
         /\ PL!Awake(PL!Base(u)) \in PL!Frames /\ PL!Me(u) = PL!Base(u)
         /\ \A f \in PL!Frames : PL!With(stack[u], f) = <<f>>
<1>1. PICK p \in {"wait_zz", "join_zz"} : PL!At(u, p)
  OBVIOUS
<1> PICK g : g = PL!Base(u)
  OBVIOUS
<1>2. /\ stack[u] = <<g>> /\ FrameOK(g) /\ g.pc = p /\ PL!Me(u) = g
      /\ u \in PL!Workers => WorkerOK(g, u)
      /\ u = Caller => CallerOK(g)
  BY <1>1, TheFrame
<1>3. \A f \in PL!Frames : PL!With(stack[u], f) = <<f>>
  BY <1>1, OneFrame, ByThread
<1> PICK f : f = PL!Awake(g)
  OBVIOUS
<1>4. /\ f \in PL!Frames /\ f.job = g.job /\ f.num_w = g.num_w /\ f.w = g.w
      /\ f.pc = (IF p = "wait_zz" THEN "wait" ELSE "join")
  BY <1>2 DEF PL!Awake, FrameOK, PL!Frames, PL!WorkerPcs, PL!CallerPcs
<1>5. Woken(g, f, u)
  BY <1>2, <1>4 DEF Woken, FrameOK, WorkerOK, CallerOK, Owes, PL!WorkerPcs, PL!CallerPcs
<1>6. QED
  BY <1>2, <1>3, <1>4, <1>5

\* A signal wakes one sleeper, or nobody.
LEMMA SignalOK ==
  ASSUME PL!ParallelPoolAssumption, PL!PoolInv, NEW w \in PL!Workers, NEW t \in PL!Threads,
         NEW p, p \notin {"seq", "wait_zz", "join_zz"}, PL!At(t, p), NEW f \in PL!Frames,
         PL!Signal(w, t, f)
  PROVE  /\ stack' \in [PL!Threads -> Seq(PL!Frames)] /\ stack'[t] = <<f>>
         /\ \A u \in PL!Threads : u # t =>
               \/ stack'[u] = stack[u]
               \/ /\ stack[u] = <<PL!Base(u)>>
                  /\ \E h : stack'[u] = <<h>> /\ Woken(PL!Base(u), h, u)
<1>1. /\ stack \in [PL!Threads -> Seq(PL!Frames)] /\ PL!With(stack[t], f) = <<f>>
      /\ <<f>> \in Seq(PL!Frames)
  BY OneFrame, ByThread DEF Stacks
<1>2. CASE PL!Sleepers(w) = {}
  BY <1>1, <1>2 DEF PL!Signal, PL!Become
<1>3. CASE PL!Sleepers(w) # {}
  <2>1. PICK u \in PL!Sleepers(w) :
           stack' = [stack EXCEPT ![t] = PL!With(@, f),
                                  ![u] = PL!With(@, PL!Awake(PL!Last(@)))]
    BY <1>3 DEF PL!Signal
  <2>2. u \in PL!Threads /\ (PL!At(u, "wait_zz") \/ PL!At(u, "join_zz"))
    BY DEF PL!Sleepers
  <2>3. u # t
    BY <2>2 DEF PL!At
  <2> PICK h : h = PL!Awake(PL!Base(u))
    OBVIOUS
  <2>4. /\ stack[u] = <<PL!Base(u)>> /\ Woken(PL!Base(u), h, u) /\ h \in PL!Frames
        /\ PL!With(stack[u], h) = <<h>> /\ PL!Last(stack[u]) = PL!Base(u)
    BY <2>2, AwakeOK DEF PL!Me
  <2>5. stack' = [stack EXCEPT ![t] = <<f>>, ![u] = <<h>>]
    BY <1>1, <2>1, <2>2, <2>3, <2>4
  <2>6. <<h>> \in Seq(PL!Frames)
    BY <2>4
  <2>7. QED
    BY <1>1, <2>2, <2>3, <2>4, <2>5, <2>6
<1>4. QED
  BY <1>2, <1>3

\* The pool after thread t has signalled: its own frame is f, a sleeper may be awake.
LEMMA AfterSignal ==
  ASSUME PL!ParallelPoolAssumption, PL!PoolInv, NEW w \in PL!Workers, NEW t \in PL!Threads,
         NEW p, p \notin {"seq", "wait_zz", "join_zz"}, PL!At(t, p), NEW f, FrameOK(f),
         t \in PL!Workers => WorkerOK(f, t), t = Caller => CallerOK(f),
         PL!Signal(w, t, f),
         UNCHANGED <<par, task, region, script>>, mode' \in [PL!Workers -> 0..2],
         ready' \in [PL!Workers -> BOOLEAN], done' \in [PL!Workers -> BOOLEAN]
  PROVE  /\ Stacks' /\ PL!TypeOK' /\ PL!Base(t)' = f /\ stack'[t] # <<>>
         /\ \A u \in PL!Threads : u # t =>
               /\ stack[u] # <<>> => stack'[u] # <<>>
               /\ PL!Base(u)'.pc \in {"wait", "wait_zz"} <=> PL!Base(u).pc \in {"wait", "wait_zz"}
               /\ \A v \in PL!Workers : Owes(PL!Base(u), v) => Owes(PL!Base(u), v)'
<1>1. PL!TypeOK /\ Stacks /\ f \in PL!Frames
  BY ByThread DEF FrameOK
<1>2. /\ stack' \in [PL!Threads -> Seq(PL!Frames)] /\ stack'[t] = <<f>>
      /\ \A u \in PL!Threads : u # t =>
            \/ stack'[u] = stack[u]
            \/ /\ stack[u] = <<PL!Base(u)>>
               /\ \E h : stack'[u] = <<h>> /\ Woken(PL!Base(u), h, u)
  BY <1>1, SignalOK
<1>3. /\ PL!Threads = {Caller} \cup PL!Workers /\ Caller \notin PL!Workers
  BY PoolNumbers
<1>4. ASSUME NEW u \in PL!Threads, NEW k \in 1..Len(stack'[u])
      PROVE  /\ FrameOK(stack'[u][k])
             /\ k > 1 => stack'[u][k].pc = "seq" /\ stack'[u][1].pc \in {"seq", "body"}
  <2>1. CASE stack'[u] = stack[u]
    BY <1>1, <1>4, <2>1 DEF Stacks
  <2>2. CASE \E h : stack'[u] = <<h>> /\ FrameOK(h)
    BY <1>4, <2>2
  <2>3. QED
    BY <1>2, <2>1, <2>2 DEF Woken
<1>5. ASSUME NEW v \in PL!Workers PROVE stack'[v] # <<>> /\ WorkerOK(stack'[v][1], v)
  <2>1. CASE stack'[v] = stack[v]
    BY <1>1, <2>1 DEF Stacks
  <2>2. CASE \E h : stack'[v] = <<h>> /\ WorkerOK(h, v)
    BY <2>2
  <2>3. QED
    BY <1>2, <1>3, <2>1, <2>2 DEF Woken
<1>6. ASSUME stack'[Caller] # <<>> PROVE CallerOK(stack[Caller][1])'
  <2>1. CallerOK(stack'[Caller][1])
    BY <1>1, <1>2, <1>3, <1>6 DEF Stacks, Woken
  <2>2. QED
    BY <2>1 DEF CallerOK
<1>7. Stacks'
  BY <1>2, <1>4, <1>5, <1>6 DEF Stacks, FrameOK, WorkerOK
<1>8. FrameTypes'
  BY <1>7, StacksTyped, PTL
<1>9. PL!TypeOK'
  BY <1>1, <1>8 DEF PL!TypeOK, FrameTypes
<1>10. ASSUME NEW u \in PL!Threads, u # t
       PROVE  /\ stack[u] # <<>> => stack'[u] # <<>>
              /\ PL!Base(u)'.pc \in {"wait", "wait_zz"} <=> PL!Base(u).pc \in {"wait", "wait_zz"}
              /\ \A v \in PL!Workers : Owes(PL!Base(u), v) => Owes(PL!Base(u), v)'
  <2>1. CASE stack'[u] = stack[u]
    BY <2>1 DEF PL!Base, Owes
  <2>2. CASE stack'[u] # stack[u]
    <3>1. PICK h : stack'[u] = <<h>> /\ Woken(PL!Base(u), h, u)
      BY <1>2, <1>10, <2>2
    <3>2. PL!Base(u)' = h /\ stack'[u] # <<>>
      BY <3>1 DEF PL!Base
    <3>3. ASSUME NEW v \in PL!Workers, Owes(PL!Base(u), v) PROVE Owes(PL!Base(u), v)'
      <4>1. Owes(h, v)
        BY <3>1, <3>3 DEF Woken
      <4>2. QED
        BY <3>2, <4>1 DEF Owes
    <3>4. QED
      BY <3>1, <3>2, <3>3 DEF Woken
  <2>3. QED
    BY <2>1, <2>2
<1>11. QED
  BY <1>2, <1>7, <1>9, <1>10 DEF PL!Base

\* Worker w is given its part and woken: it had none.
LEMMA DispatchStep ==
  ASSUME PL!ParallelPoolAssumption, PL!PoolInv, NEW t \in PL!Threads, PL!Dispatch(t)
  PROVE  PL!PoolInv'
<1> PICK g : g = PL!Me(t)
  OBVIOUS
<1> PICK w : w = g.w
  OBVIOUS
<1> PICK f : f = [g EXCEPT !.w = w + 1]
  OBVIOUS
<1>1. PL!At(t, "dispatch") /\ w < g.num_w
  BY DEF PL!Dispatch
<1>2. /\ PL!TypeOK /\ Stacks /\ EveryWorker /\ stack[t] = <<g>> /\ FrameOK(g) /\ g.pc = "dispatch"
      /\ g = PL!Base(t) /\ t = Caller /\ CallerOK(g)
  BY <1>1, TheFrame, WhoseStep
<1>3. /\ PL!Threads = {Caller} \cup PL!Workers /\ Caller \notin PL!Workers
      /\ PL!Workers = 1..(g_workers_count - 1) /\ g_workers_count \in Nat
  BY PoolNumbers
<1>4. /\ w \in PL!Workers /\ g.num_w \in 1..g_workers_count /\ g.job \in Jobs /\ w \in Int
  BY <1>1, <1>2, <1>3 DEF CallerOK, FrameOK, PL!Frames
<1>5. f \in PL!Frames /\ f.pc = "dispatch" /\ f.job = g.job /\ f.w = w + 1 /\ f.num_w = g.num_w
  <2>1. w + 1 \in 1..g_workers_count
    BY <1>3, <1>4
  <2>2. QED
    BY <1>2, <2>1 DEF FrameOK, PL!Frames
<1>6. /\ mode' = [mode EXCEPT ![w] = IF Kind[g.job] = "for" THEN 1 ELSE 2]
      /\ ready' = [ready EXCEPT ![w] = TRUE]
      /\ done' = [done EXCEPT ![w] = FALSE]
      /\ PL!Signal(w, t, f)
      /\ UNCHANGED <<par, task, region, script>>
  BY DEF PL!Dispatch, PL!Cleared
<1>7. ready \in [PL!Workers -> BOOLEAN] /\ done \in [PL!Workers -> BOOLEAN]
      /\ mode \in [PL!Workers -> 0..2]
  BY <1>2 DEF PL!TypeOK
<1>8. /\ mode' \in [PL!Workers -> 0..2] /\ mode'[w] # 0 /\ (mode'[w] = 2 => Kind[g.job] # "for")
      /\ \A u \in PL!Workers : u # w => mode'[u] = mode[u]
  <2>1. PICK m \in 1..2 : m = (IF Kind[g.job] = "for" THEN 1 ELSE 2)
    OBVIOUS
  <2>2. mode' = [mode EXCEPT ![w] = m]
    BY <1>6, <2>1
  <2>3. QED
    BY <1>4, <1>7, <2>1, <2>2
<1>9. /\ ready' \in [PL!Workers -> BOOLEAN] /\ ready'[w]
      /\ \A u \in PL!Workers : u # w => ready'[u] = ready[u]
  BY <1>4, <1>6, <1>7
<1>10. /\ done' \in [PL!Workers -> BOOLEAN] /\ ~done'[w]
       /\ \A u \in PL!Workers : u # w => done'[u] = done[u]
  BY <1>4, <1>6, <1>7
<1>11. ~PL!Busy(w)
  BY <1>2, <1>4 DEF EveryWorker, WorkerInv, Owes
<1>12. FrameOK(f) /\ CallerOK(f)
  BY <1>1, <1>2, <1>3, <1>4, <1>5 DEF FrameOK, CallerOK, PL!CallerPcs
<1>13. /\ Stacks' /\ PL!TypeOK' /\ PL!Base(Caller)' = f /\ stack'[Caller] # <<>>
       /\ \A u \in PL!Workers :
             PL!Base(u)'.pc \in {"wait", "wait_zz"} <=> PL!Base(u).pc \in {"wait", "wait_zz"}
  <2>1. t \notin PL!Workers
    BY <1>2, <1>3
  <2>2. Stacks' /\ PL!TypeOK' /\ PL!Base(t)' = f /\ stack'[t] # <<>>
        /\ \A u \in PL!Threads : u # t =>
             (PL!Base(u)'.pc \in {"wait", "wait_zz"} <=> PL!Base(u).pc \in {"wait", "wait_zz"})
    BY <1>1, <1>4, <1>6, <1>8, <1>9, <1>10, <1>12, <2>1, AfterSignal
  <2>3. QED
    BY <1>2, <1>3, <2>1, <2>2
<1>14. ASSUME NEW u \in PL!Workers PROVE WorkerInv(u)'
  <2>1. WorkerInv(u) /\ u \in Int
    BY <1>2, <1>3 DEF EveryWorker
  <2>2. CASE u = w
    <3>1. Owes(PL!Base(Caller), w)'
      BY <1>4, <1>5, <1>13 DEF Owes
    <3>2. PL!Base(w)'.pc \in {"wait", "wait_zz"}
      BY <1>4, <1>11, <1>13 DEF PL!Busy
    <3>3. mode'[w] = 2 => task'[w] \in Jobs
      <4>1. mode'[w] = 2 => g.num_w = 2 /\ task[1] \in Jobs
        BY <1>2, <1>8 DEF CallerOK
      <4>2. g.num_w = 2 => w = 1
        BY <1>1, <1>3, <1>4
      <4>3. QED
        BY <1>6, <4>1, <4>2
    <3>4. QED
      BY <1>8, <1>9, <1>10, <1>13, <2>2, <3>1, <3>2, <3>3 DEF WorkerInv
  <2>3. CASE u # w
    <3>1. PL!Busy(u)' <=> PL!Busy(u)
      BY <1>9, <1>13, <2>3 DEF PL!Busy
    <3>2. PL!Busy(u) => Owes(PL!Base(Caller), u)'
      <4>1. PL!Busy(u) => Owes(g, u)
        BY <1>2, <2>1 DEF WorkerInv
      <4>2. Owes(g, u) => Owes(f, u)
        BY <1>2, <1>4, <1>5, <2>1 DEF Owes
      <4>3. QED
        BY <1>13, <4>1, <4>2 DEF Owes
    <3>3. QED
      BY <1>6, <1>8, <1>9, <1>10, <1>13, <2>1, <2>3, <3>1, <3>2 DEF WorkerInv
  <2>4. QED
    BY <2>2, <2>3
<1>15. EveryWorker'
  BY <1>14 DEF EveryWorker
<1>16. QED
  BY <1>13, <1>15, ByThread, PTL

\* A worker sees that it is ready, or sleeps.
LEMMA WaitStep ==
  ASSUME PL!ParallelPoolAssumption, PL!PoolInv, NEW t \in PL!Workers, PL!WorkerWaits(t)
  PROVE  PL!PoolInv'
<1> PICK g : g = PL!Me(t)
  OBVIOUS
<1> PICK f : f = [g EXCEPT !.pc = IF ready[t] THEN "start" ELSE "wait_zz"]
  OBVIOUS
<1>1. PL!At(t, "wait") /\ t \in PL!Threads /\ t # Caller
  BY PoolNumbers DEF PL!WorkerWaits
<1>2. /\ PL!TypeOK /\ Stacks /\ EveryWorker /\ stack[t] = <<g>> /\ FrameOK(g) /\ g.pc = "wait"
      /\ WorkerOK(g, t) /\ g = PL!Base(t)
      /\ \A h \in PL!Frames : PL!Become(t, h) => stack' = [stack EXCEPT ![t] = <<h>>]
  BY <1>1, TheFrame
<1>3. /\ f \in PL!Frames /\ f.job = g.job /\ f.w = g.w
      /\ f.pc = IF ready[t] THEN "start" ELSE "wait_zz"
  <2>1. PICK p \in {"start", "wait_zz"} : p = IF ready[t] THEN "start" ELSE "wait_zz"
    OBVIOUS
  <2>2. QED
    BY <1>2, <2>1 DEF FrameOK, PL!Frames, PL!WorkerPcs
<1>4. FrameOK(f) /\ WorkerOK(f, t)
  BY <1>2, <1>3 DEF FrameOK, WorkerOK, PL!WorkerPcs
<1>5. PL!Become(t, f)
  BY DEF PL!WorkerWaits, PL!Goto
<1>6. stack' = [stack EXCEPT ![t] = <<f>>]
  BY <1>2, <1>3, <1>5
<1>7. /\ UNCHANGED <<par, mode, task, done, region, script>>
      /\ ready' = [ready EXCEPT ![t] = FALSE]
  BY DEF PL!WorkerWaits
<1>8. /\ ready' \in [PL!Workers -> BOOLEAN] /\ ~ready'[t]
      /\ \A u \in PL!Workers : u # t => ready'[u] = ready[u]
  BY <1>2, <1>7 DEF PL!TypeOK
<1>9. /\ Stacks' /\ PL!TypeOK' /\ PL!Base(t)' = f
      /\ \A u \in PL!Threads : u # t => stack'[u] = stack[u] /\ PL!Base(u)' = PL!Base(u)
  <2>1. /\ par' \in [cur : Int, end : Int, chunk : 1..MAX_CHUNK, fn : Jobs \cup {NoJob}]
        /\ mode' \in [PL!Workers -> 0..2] /\ task' \in [PL!Workers -> Jobs \cup {NoJob}]
        /\ done' \in [PL!Workers -> BOOLEAN]
        /\ region' \in [PL!Threads -> BOOLEAN] /\ script' \in [{Caller} -> Seq(Jobs)]
    BY <1>2, <1>7 DEF PL!TypeOK
  <2>2. UNCHANGED task
    BY <1>7
  <2>3. QED
    BY <1>1, <1>4, <1>6, <1>8, <2>1, <2>2, PoolAfter
<1>10. ASSUME NEW u \in PL!Workers PROVE WorkerInv(u)'
  <2>1. WorkerInv(u)
    BY <1>2 DEF EveryWorker
  <2>2. /\ stack'[Caller] = stack[Caller] /\ PL!Base(Caller)' = PL!Base(Caller)
        /\ Owes(PL!Base(Caller), u)' <=> Owes(PL!Base(Caller), u)
    BY <1>1, <1>9, PoolNumbers DEF Owes
  <2>3. CASE u = t
    <3>1. PL!Busy(t)' => PL!Busy(t)
      BY <1>3, <1>8, <1>9 DEF PL!Busy
    <3>2. QED
      BY <1>7, <1>8, <2>1, <2>2, <2>3, <3>1 DEF WorkerInv
  <2>4. CASE u # t
    <3>1. u \in PL!Threads
      BY PoolNumbers
    <3>2. PL!Base(u)' = PL!Base(u) /\ ready'[u] = ready[u]
      BY <1>8, <1>9, <2>4, <3>1
    <3>3. PL!Busy(u)' <=> PL!Busy(u)
      BY <3>2 DEF PL!Busy
    <3>4. QED
      BY <1>7, <2>1, <2>2, <3>2, <3>3 DEF WorkerInv
  <2>5. QED
    BY <2>3, <2>4
<1>11. EveryWorker'
  BY <1>10 DEF EveryWorker
<1>12. QED
  BY <1>9, <1>11, ByThread, PTL

\* A worker answers, wakes who joins it, and waits again.
LEMMA AnswerStep ==
  ASSUME PL!ParallelPoolAssumption, PL!PoolInv, NEW t \in PL!Workers, PL!WorkerAnswers(t)
  PROVE  PL!PoolInv'
<1> PICK blank : blank = PL!Frame("wait", NoJob)
  OBVIOUS
<1> PICK f : f = [blank EXCEPT !.w = t]
  OBVIOUS
<1>1. PL!At(t, "answer") /\ t \in PL!Threads /\ t # Caller /\ t \in 1..g_workers_count
      /\ 1 \in 1..g_workers_count
  BY PoolNumbers DEF PL!WorkerAnswers
<1>2. /\ PL!TypeOK /\ Stacks /\ EveryWorker /\ PL!Me(t).pc = "answer" /\ PL!Me(t) = PL!Base(t)
  BY <1>1, TheFrame
<1>3. blank \in PL!Frames /\ blank.pc = "wait" /\ blank.job = NoJob
  <2>1. 0 \in Int /\ 1 \in Int
    OBVIOUS
  <2>2. QED
    BY <1>1, <2>1 DEF PL!Frame, PL!Frames, PL!WorkerPcs
<1>4. f \in PL!Frames /\ f.pc = "wait" /\ f.job = NoJob /\ f.w = t
  BY <1>1, <1>3 DEF PL!Frames
<1>5. FrameOK(f) /\ WorkerOK(f, t)
  BY <1>4 DEF FrameOK, WorkerOK, PL!WorkerPcs
<1>6. /\ UNCHANGED <<par, mode, task, ready, region, script>>
      /\ done' = [done EXCEPT ![t] = TRUE] /\ PL!Signal(t, t, f)
  BY DEF PL!WorkerAnswers, PL!Answer
<1>7. /\ done' \in [PL!Workers -> BOOLEAN]
      /\ \A u \in PL!Workers : u # t => done'[u] = done[u]
      /\ mode' \in [PL!Workers -> 0..2] /\ ready' \in [PL!Workers -> BOOLEAN]
  BY <1>2, <1>6 DEF PL!TypeOK
<1>8. /\ Stacks' /\ PL!TypeOK' /\ PL!Base(t)' = f
      /\ \A u \in PL!Threads : u # t =>
            /\ stack[u] # <<>> => stack'[u] # <<>>
            /\ PL!Base(u)'.pc \in {"wait", "wait_zz"} <=> PL!Base(u).pc \in {"wait", "wait_zz"}
            /\ \A v \in PL!Workers : Owes(PL!Base(u), v) => Owes(PL!Base(u), v)'
  <2>1. UNCHANGED <<par, task, region, script>>
    BY <1>6
  <2>2. QED
    BY <1>1, <1>5, <1>6, <1>7, <2>1, AfterSignal
<1>9. ASSUME NEW u \in PL!Workers PROVE WorkerInv(u)'
  <2>1. WorkerInv(u)
    BY <1>2 DEF EveryWorker
  <2>2. CASE u = t
    <3>1. ~ready[t]
      BY <1>2, <2>1, <2>2 DEF WorkerInv
    <3>2. QED
      BY <1>4, <1>6, <1>8, <2>1, <2>2, <3>1 DEF WorkerInv, PL!Busy
  <2>3. CASE u # t
    <3>1. u \in PL!Threads /\ Caller \in PL!Threads
      BY PoolNumbers
    <3>2. PL!Base(u)'.pc \in {"wait", "wait_zz"} <=> PL!Base(u).pc \in {"wait", "wait_zz"}
      BY <1>8, <2>3, <3>1
    <3>3. PL!Busy(u)' <=> PL!Busy(u)
      BY <1>6, <3>2 DEF PL!Busy
    <3>4. /\ stack[Caller] # <<>> => stack'[Caller] # <<>>
          /\ Owes(PL!Base(Caller), u) => Owes(PL!Base(Caller), u)'
      BY <1>1, <1>8, <3>1
    <3>5. done'[u] = done[u] /\ UNCHANGED <<mode, task, ready>>
      BY <1>6, <1>7, <2>3
    <3>6. QED
      BY <2>1, <3>2, <3>3, <3>4, <3>5 DEF WorkerInv
  <2>4. QED
    BY <2>2, <2>3
<1>10. EveryWorker'
  BY <1>9 DEF EveryWorker
<1>11. QED
  BY <1>8, <1>10, ByThread, PTL

\* The pool starts at rest.
LEMMA PoolInit == PL!ParallelPoolAssumption /\ PL!Init => PL!PoolInv
<1> SUFFICES ASSUME PL!ParallelPoolAssumption, PL!Init PROVE PL!PoolInv
  OBVIOUS
<1> DEFINE blank == PL!Frame("wait", NoJob)
           first(w) == [blank EXCEPT !.w = w]
<1>1. /\ PL!Threads = {Caller} \cup PL!Workers /\ Caller \notin PL!Workers
      /\ 1 \in 1..g_workers_count /\ PL!Workers = 1..(g_workers_count - 1)
      /\ g_workers_count \in Nat /\ MAX_CHUNK \in Nat \ {0}
  BY PoolNumbers DEF PL!ParallelPoolAssumption
<1>2. blank \in PL!Frames /\ blank.pc = "wait" /\ blank.job = NoJob
  <2>1. 0 \in Int /\ 1 \in Int
    OBVIOUS
  <2>2. QED
    BY <1>1, <2>1 DEF PL!Frame, PL!Frames, PL!WorkerPcs
<1> HIDE DEF blank
<1>3. \A w \in PL!Workers : /\ first(w) \in PL!Frames /\ first(w).pc = "wait"
                            /\ first(w).job = NoJob /\ first(w).w = w
  BY <1>1, <1>2 DEF PL!Frames
<1>4. stack = [t \in PL!Threads |-> IF t \in PL!Workers THEN <<first(t)>> ELSE <<>>]
  BY DEF PL!Init, blank
<1> HIDE DEF first
<1>5. /\ stack \in [PL!Threads -> Seq(PL!Frames)] /\ stack[Caller] = <<>>
      /\ \A w \in PL!Workers : /\ stack[w] # <<>> /\ Len(stack[w]) = 1 /\ stack[w][1] \in PL!Frames
                              /\ stack[w][1].pc = "wait" /\ stack[w][1].job = NoJob /\ stack[w][1].w = w
  <2>1. stack \in [PL!Threads -> Seq(PL!Frames)] /\ stack[Caller] = <<>>
    BY <1>1, <1>3, <1>4
  <2>2. ASSUME NEW w \in PL!Workers
        PROVE  /\ stack[w] # <<>> /\ Len(stack[w]) = 1 /\ stack[w][1] \in PL!Frames
               /\ stack[w][1].pc = "wait" /\ stack[w][1].job = NoJob /\ stack[w][1].w = w
    <3> PICK g : g = first(w)
      OBVIOUS
    <3>1. g \in PL!Frames /\ g.pc = "wait" /\ g.job = NoJob /\ g.w = w
      BY <1>3
    <3>2. stack[w] = <<g>>
      BY <1>1, <1>4
    <3>3. QED
      BY <3>1, <3>2
  <2>3. QED
    BY <2>1, <2>2
<1>6. Stacks
  <2>1. ASSUME NEW t \in PL!Threads, NEW k \in 1..Len(stack[t])
        PROVE  /\ FrameOK(stack[t][k])
               /\ k > 1 => stack[t][k].pc = "seq" /\ stack[t][1].pc \in {"seq", "body"}
    <3>1. CASE t = Caller
      BY <1>5, <2>1, <3>1, EmptySeq
    <3>2. CASE t \in PL!Workers
      <4>1. k = 1
        <5> PICK n : n = Len(stack[t])
          OBVIOUS
        <5>1. n = 1 /\ k \in 1..n
          BY <1>5, <2>1, <3>2
        <5>2. QED
          BY ONLY <5>1
      <4>2. stack[t][1] \in PL!Frames /\ stack[t][1].pc = "wait"
        BY <1>5, <3>2
      <4>3. QED
        BY <4>1, <4>2 DEF FrameOK
    <3>3. QED
      BY <1>1, <3>1, <3>2
  <2>2. \A w \in PL!Workers : stack[w] # <<>> /\ WorkerOK(stack[w][1], w)
    BY <1>5 DEF WorkerOK, PL!WorkerPcs
  <2>3. QED
    BY <1>5, <2>1, <2>2 DEF Stacks
<1>7. PL!TypeOK
  <2>1. FrameTypes
    BY <1>6, StacksTyped
  <2>2. /\ par \in [cur : Int, end : Int, chunk : 1..MAX_CHUNK, fn : Jobs \cup {NoJob}]
        /\ mode \in [PL!Workers -> 0..2] /\ task \in [PL!Workers -> Jobs \cup {NoJob}]
    BY <1>1 DEF PL!Init
  <2>3. /\ ready \in [PL!Workers -> BOOLEAN] /\ done \in [PL!Workers -> BOOLEAN]
        /\ region \in [PL!Threads -> BOOLEAN] /\ script \in [{Caller} -> Seq(Jobs)]
    BY DEF PL!Init, PL!ParallelPoolAssumption
  <2>4. QED
    BY <2>1, <2>2, <2>3 DEF PL!TypeOK, FrameTypes
<1>8. EveryWorker
  <2>1. ASSUME NEW w \in PL!Workers PROVE WorkerInv(w)
    <3>1. PL!Base(w).pc = "wait" /\ ~ready[w] /\ mode[w] = 0
      BY <1>5 DEF PL!Base, PL!Init
    <3>2. QED
      BY <3>1 DEF WorkerInv, PL!Busy
  <2>2. QED
    BY <2>1 DEF EveryWorker
<1>9. QED
  BY <1>6, <1>7, <1>8, ByThread

\* Every step of the pool keeps its invariant.
LEMMA PoolStep ==
  ASSUME PL!ParallelPoolAssumption, PL!NestedIsShort, PL!PoolInv, PL!Next
  PROVE  PL!PoolInv'
<1>1. PL!Workers \subseteq PL!Threads
  BY PoolNumbers
<1>2. CASE PL!Call(Caller)
  BY <1>2, CallStep
<1>3. ASSUME NEW t \in PL!Threads, PL!InCall(t) PROVE PL!PoolInv'
  <2>1. CASE PL!Publish(t)
    BY <2>1, PublishStep
  <2>2. CASE PL!Dispatch(t)
    BY <2>2, DispatchStep
  <2>3. CASE PL!Dispatched(t) \/ PL!Join(t)
    BY <2>3, CallerSteps
  <2>4. CASE PL!CopyLoop(t) \/ PL!Claim(t) \/ PL!ChunkDone(t)
    BY <2>4, LoopSteps
  <2>5. CASE PL!Body(t)
    BY <2>5, BodyStep
  <2>6. CASE PL!SequentialDone(t)
    BY <2>6, SequentialStep
  <2>7. CASE PL!Return(t)
    BY <2>7, ReturnStep
  <2>8. QED
    BY <1>3, <2>1, <2>2, <2>3, <2>4, <2>5, <2>6, <2>7 DEF PL!InCall
<1>4. ASSUME NEW w \in PL!Workers, PL!Works(w) PROVE PL!PoolInv'
  BY <1>4, WaitStep, StartStep, AnswerStep DEF PL!Works
<1>5. QED
  BY <1>2, <1>3, <1>4, SpuriousStep DEF PL!Next

\* Nobody works for a caller that is in no call.
LEMMA AtRest ==
  ASSUME PL!ParallelPoolAssumption, PL!PoolInv
  PROVE  PL!PoolAtRest
<1>1. PL!TypeOK /\ Stacks /\ EveryWorker
  BY ByThread
<1>2. ASSUME stack[Caller] = <<>>, NEW w \in PL!Workers
      PROVE  ~ready[w] /\ (PL!At(w, "wait") \/ PL!At(w, "wait_zz"))
  <2>1. ~ready[w] /\ PL!Base(w).pc \in {"wait", "wait_zz"}
    BY <1>1, <1>2 DEF EveryWorker, WorkerInv, PL!Busy
  <2> PICK s : s = stack[w]
    OBVIOUS
  <2>2. /\ s \in Seq(PL!Frames) /\ s # <<>> /\ s[1].pc \in {"wait", "wait_zz"}
        /\ \A k \in 1..Len(s) : k > 1 => s[1].pc \in {"seq", "body"}
    BY <1>1, <2>1, PoolNumbers DEF Stacks, PL!Base
  <2>3. Len(s) \in 1..Len(s)
    BY <2>2, EmptySeq
  <2>4. ~(Len(s) > 1)
    BY <2>2, <2>3
  <2>5. Len(s) = 1
    BY <2>2, <2>4, Single
  <2>6. PL!Last(s) = s[1]
    BY <2>5 DEF PL!Last
  <2>7. QED
    BY <2>1, <2>2, <2>6 DEF PL!At
<1>3. QED
  BY <1>1, <1>2 DEF PL!PoolAtRest

(* --------------------------- the four together -------------------------- *)

\* Thread handles keep their invariant while another component runs.
LEMMA HandleStays == TH!HandleInv /\ UNCHANGED thVars => TH!HandleInv'
BY DEF thVars, TH!HandleInv, TH!NoUseAfterFree, TH!TypeOK

\* So does datara_parallel_for when another component runs.
LEMMA ForStays == PF!ParallelForInv /\ UNCHANGED pfVars => PF!ParallelForInv'
<1> SUFFICES ASSUME PF!ParallelForInv, UNCHANGED pfVars PROVE PF!ParallelForInv'
  OBVIOUS
<1>1. /\ PF!Chunks' = PF!Chunks /\ PF!Reach' = PF!Reach /\ PF!ChunkSize' = PF!ChunkSize
      /\ \A k : PF!ChunkStart(k)' = PF!ChunkStart(k)
  BY DEF pfVars, PF!Chunks, PF!Reach, PF!ChunkSize, PF!ChunkStart
<1>2. PF!AllIndicesRun'
  BY DEF pfVars, PF!ParallelForInv, PF!AllIndicesRun, PF!TypeOK
<1>3. PF!ChunksInv => PF!ChunksInv'
  BY <1>1 DEF pfVars, PF!ChunksInv
<1>4. QED
  BY <1>2, <1>3 DEF pfVars, PF!ParallelForInv

\* And the timers.
LEMMA TimerStays == TM!TimerInv /\ UNCHANGED tmVars => TM!TimerInv'
<1> SUFFICES ASSUME TM!TimerInv, UNCHANGED tmVars PROVE TM!TimerInv'
  OBVIOUS
<1>1. TM!TypeOK' /\ TM!PlacesInv'
  BY DEF tmVars, TM!TimerInv, TM!CancelSticks, TM!TypeOK, TM!PlacesInv
<1>2. EveryWait'
  BY ByWaiter DEF tmVars, EveryWait, TrueWait, TM!CancelReason
<1>3. QED
  BY <1>1, <1>2, ByWaiter, PTL

\* And the loop pool.
LEMMA PoolStays == PL!PoolInv /\ UNCHANGED plVars => PL!PoolInv'
BY DEF plVars, PL!PoolInv, PL!TypeOK, PL!StackInv, PL!Base, PL!Busy, PL!Owed

\* The invariants of the four components.
ThreadsInv == TH!HandleInv /\ PF!ParallelForInv /\ PL!PoolInv /\ TM!TimerInv

\* The components keep their invariants in every behaviour, if a loop that a body
\* starts has one turn at most: a longer one on a worker would overwrite g_par_*
\* under the loop it belongs to.
THEOREM ComponentInvariants ==
  ASSUME PL!NestedIsShort PROVE MCSpec => []ThreadsInv
<1>1. MCInit => ThreadsInv
  BY ThreadsAssumption, HandleInit, ForInit, PoolInit, TimerInit DEF MCInit, ThreadsInv
<1>2. ThreadsInv /\ [MCNext]_allVars => ThreadsInv'
  <2> SUFFICES ASSUME ThreadsInv, [MCNext]_allVars PROVE ThreadsInv'
    OBVIOUS
  <2>1. TH!Next \/ UNCHANGED thVars
    BY DEF MCNext, allVars
  <2>2. PF!Next \/ UNCHANGED pfVars
    BY DEF MCNext, allVars
  <2>3. PL!Next \/ UNCHANGED plVars
    BY DEF MCNext, allVars
  <2>4. TM!Next \/ UNCHANGED tmVars
    BY DEF MCNext, allVars
  <2>5. QED
    BY <2>1, <2>2, <2>3, <2>4, ThreadsAssumption, HandleStep, HandleStays, ForStep, ForStays,
       PoolStep, PoolStays, TimerStep, TimerStays DEF ThreadsInv
<1>3. QED
  BY <1>1, <1>2, PTL DEF MCSpec

\* No use after free, each index of datara_parallel_for run once, a pool at rest
\* between calls, timers that tell the truth: in every state, for any sizes.
THEOREM ThreadsAreSafe ==
  ASSUME PL!NestedIsShort PROVE MCSpec => []ThreadSafety
<1>1. ThreadsInv => ThreadSafety
  BY ThreadsAssumption, AtRest DEF ThreadsInv, ThreadSafety, TH!HandleInv, PF!ParallelForInv, TM!TimerInv
<1>2. QED
  BY <1>1, ComponentInvariants, PTL
=============================================================================
