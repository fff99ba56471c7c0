-------------------------- MODULE FibersProofs --------------------------
(***************************************************************************)
(* Proofs for TaskSchedule: for every set of tasks and every graph, cyclic *)
(* or not, on both paths and with cancellations at any moment, a task is   *)
(* started only after all its prerequisites were completed.                *)
(***************************************************************************)
EXTENDS MCFibers, WellFoundedInduction, FiniteSetTheorems, SequenceTheorems, TLAPS

\* The lists of prerequisites are finite sequences of ids.
LEMMA DepsType ==
    ASSUME TypeOK, NEW i \in Nodes
    PROVE  /\ deps[i] \in Seq(Nat) /\ Len(deps[i]) \in Nat
           /\ IsFiniteSet(1..Len(deps[i])) /\ Cardinality(1..Len(deps[i])) = Len(deps[i])
<1>1. deps[i] \in Seq(Nat)
  BY TaskScheduleAssumption DEF TypeOK
<1>2. Len(deps[i]) \in Nat
  BY <1>1
<1> QED BY <1>1, <1>2, FS_Interval

\* The open places of a list form a finite set.
LEMMA OpenFinite ==
    ASSUME TypeOK, NEW i \in Nodes
    PROVE  IsFiniteSet(Open(i)) /\ Cardinality(Open(i)) \in Nat
                                /\ Cardinality(Open(i)) =< Len(deps[i])
<1>1. Open(i) \in SUBSET (1..Len(deps[i]))
  BY DEF Open
<1> QED BY <1>1, DepsType, FS_Subset, FS_CardinalityType

\* A wave is finite.
LEMMA WaveFinite ==
    ASSUME TypeOK
    PROVE  IsFiniteSet(wave) /\ Cardinality(wave) \in Nat
BY TaskScheduleAssumption, FS_Subset, FS_CardinalityType DEF TypeOK

\* The elements of a sequence.
LEMMA IdsType ==
    ASSUME NEW S, NEW s \in Seq(S)
    PROVE  Ids(s) \subseteq S
BY DEF Ids

\* A concatenation has the elements of both parts.
LEMMA IdsConcat ==
    ASSUME NEW S, NEW s \in Seq(S), NEW r \in Seq(S)
    PROVE  Ids(s) \cup Ids(r) \subseteq Ids(s \o r)
<1>1. /\ Len(s) \in Nat /\ Len(r) \in Nat /\ Len(s \o r) = Len(s) + Len(r)
      /\ \A k \in 1..Len(s \o r) : (s \o r)[k] = IF k <= Len(s) THEN s[k] ELSE r[k - Len(s)]
  BY ConcatProperties
<1>2. ASSUME NEW k \in 1..Len(s) PROVE s[k] \in Ids(s \o r)
  <2>1. k \in 1..Len(s \o r) /\ (s \o r)[k] = s[k]
    BY <1>1
  <2> QED BY <2>1 DEF Ids
<1>3. ASSUME NEW k \in 1..Len(r) PROVE r[k] \in Ids(s \o r)
  <2>1. k + Len(s) \in 1..Len(s \o r) /\ ~(k + Len(s) <= Len(s)) /\ k + Len(s) - Len(s) = k
    BY <1>1
  <2>2. (s \o r)[k + Len(s)] = r[k]
    BY <1>1, <2>1
  <2> QED BY <2>1, <2>2 DEF Ids
<1> QED BY <1>2, <1>3 DEF Ids

\* A task with nothing open has all its prerequisites completed.
LEMMA NothingOpen ==
    ASSUME NEW i \in Nodes, Open(i) = {}
    PROVE  \A d \in 1..Len(deps[i]) : deps[i][d] \in Nodes /\ status[deps[i][d]] = 2
BY DEF Open, Settled

\* The initial states satisfy the invariant.
LEMMA InitInv == Init => ScheduleInv
<1> SUFFICES ASSUME Init PROVE ScheduleInv
  OBVIOUS
<1>1. TypeOK
  BY TaskScheduleAssumption DEF Init, TypeOK
<1> QED BY <1>1 DEF Init, ScheduleInv, DepsRespected, Live

\* An ascending sequence over S lists members of S, each once.
LEMMA InOrderFacts ==
    ASSUME NEW S \in SUBSET Nodes, NEW s \in InOrder(S)
    PROVE  /\ s \in Seq(Nodes) /\ Len(s) \in Nat
           /\ \A k \in 1..Len(s) : s[k] \in S
           /\ \A j, k \in 1..Len(s) : s[j] = s[k] => j = k
<1>1. Cardinality(S) \in Nat
  BY TaskScheduleAssumption, FS_Subset, FS_CardinalityType
<1>2. s \in [1..Cardinality(S) -> S]
  BY DEF InOrder
<1>3. s \in Seq(S) /\ Len(s) = Cardinality(S)
  BY <1>1, <1>2
<1>4. s \in Seq(Nodes)
  BY <1>1, <1>2
<1>5. ASSUME NEW j \in 1..Len(s), NEW k \in 1..Len(s), s[j] = s[k] PROVE j = k
  <2>0. s[j] \in S /\ s[k] \in S
    BY <1>2, <1>3
  <2>1. s[j] \in Nat /\ s[k] \in Nat
    BY <2>0, TaskScheduleAssumption
  <2>4. j \in Int /\ k \in Int
    BY <1>1, <1>3
  <2>2. j < k => s[j] < s[k]
    BY <1>3 DEF InOrder
  <2>3. k < j => s[k] < s[j]
    BY <1>3 DEF InOrder
  <2> QED BY <2>1, <2>2, <2>3, <2>4, <1>5
<1> QED BY <1>1, <1>2, <1>3, <1>4, <1>5

\* It lists all of them.
LEMMA InOrderOnto ==
    ASSUME NEW S \in SUBSET Nodes, NEW s \in InOrder(S)
    PROVE  S \subseteq Ids(s)
<1>1. IsFiniteSet(S) /\ Cardinality(S) \in Nat
  BY TaskScheduleAssumption, FS_Subset, FS_CardinalityType
<1>2. s \in [1..Cardinality(S) -> S] /\ Len(s) = Cardinality(S)
  BY <1>1 DEF InOrder
<1>3. s \in Injection(1..Cardinality(S), S)
  BY <1>1, <1>2, InOrderFacts DEF Injection, IsInjective
<1>4. IsFiniteSet(1..Cardinality(S)) /\ Cardinality(1..Cardinality(S)) = Cardinality(S)
  BY <1>1, FS_Interval
<1>5. s \in Surjection(1..Cardinality(S), S)
  BY <1>1, <1>3, <1>4, FS_Injection
<1> QED BY <1>2, <1>5 DEF Surjection, Ids

\* A cancellation by another thread leaves the run alone.
LEMMA ScheduleCancelInv ==
    ASSUME ScheduleInv, NEW r \in Regions, ScheduleCancel(r)
    PROVE  ScheduleInv'
<1>1. TypeOK'
  BY DEF ScheduleInv, TypeOK, ScheduleCancel
<1> QED BY <1>1 DEF ScheduleInv, ScheduleCancel, DepsRespected, Live, ReadyExact,
               DegreeBound, ReadyShape, Open, Settled, Ids

\* A step that changes nothing.
LEMMA StutterInv ==
    ASSUME ScheduleInv, UNCHANGED vars
    PROVE  ScheduleInv'
<1>1. TypeOK' /\ DepsRespected'
  BY DEF ScheduleInv, vars, TypeOK, DepsRespected
<1>2. Live => ReadyExact' /\ DegreeBound' /\ ReadyShape'
  BY DEF ScheduleInv, vars, ReadyExact, DegreeBound, ReadyShape, Open, Settled, Ids
<1> QED BY <1>1, <1>2 DEF ScheduleInv, vars, Live

\* Starting the run makes exactly the tasks without a prerequisite ready.
LEMMA ScheduleRunInv ==
    ASSUME ScheduleInv, ScheduleRun
    PROVE  ScheduleInv'
<1> USE DEF ScheduleInv, ScheduleRun
<1>0. Ids(cancels) \subseteq Regions
  BY IdsType DEF TypeOK
<1>1. CASE RegionCancelled
  <2>1. TypeOK'
    BY <1>0, <1>1 DEF TypeOK, Returns
  <2> QED BY <2>1, <1>1 DEF DepsRespected, Live, Returns, TypeOK
<1>2. CASE ~RegionCancelled
  <2>1. Roots \subseteq Nodes
    BY DEF Roots
  <2>2. /\ queue' \in Seq(Nodes)
        /\ \A k \in 1..Len(queue') : queue'[k] \in Roots
        /\ \A j, k \in 1..Len(queue') : queue'[j] = queue'[k] => j = k
    <3>1. CASE det
      BY <1>2, <3>1 DEF TypeOK
    <3>2. CASE ~det
      BY <1>2, <2>1, <3>2, InOrderFacts
    <3> QED BY <3>1, <3>2
  <2>3. pc' \in {"wave", "pop"} /\ wave' \subseteq Roots
        /\ (pc' = "wave" => queue' = <<>>) /\ (pc' = "pop" => wave' = {})
    BY <1>2
  <2>4. in_degree' = [i \in Nodes |-> Len(deps[i])] /\ status' = status /\ deps' = deps
        /\ \A i \in Nodes : status[i] = 0
    BY <1>2
  <2>5. TypeOK'
    BY <1>0, <1>2, <2>1, <2>2, <2>3, <2>4, DepsType DEF TypeOK
  <2>6. \A i \in Nodes : Open(i)' = 1..Len(deps[i])
    BY <2>3, <2>4 DEF Open, Settled
  <2>7. ReadyExact'
    <3> SUFFICES ASSUME NEW i \in (wave \cup Ids(queue))'
                 PROVE  in_degree'[i] = 0 /\ Open(i)' = {}
      BY DEF ReadyExact
    <3>1. i \in Roots
      BY <2>2, <2>3 DEF Ids
    <3>2. i \in Nodes /\ Len(deps[i]) = 0
      BY <3>1 DEF Roots
    <3> QED BY <3>2, <2>4, <2>6
  <2>8. DegreeBound'
    <3> SUFFICES ASSUME NEW i \in Nodes
                 PROVE  in_degree'[i] >= Cardinality(Open(i)') /\ status'[i] = 0
      BY DEF DegreeBound
    <3> QED BY <2>4, <2>6, DepsType
  <2>9. ReadyShape'
    BY <2>2, <2>3, <2>4, <2>1 DEF ReadyShape
  <2>10. DepsRespected'
    BY <2>4 DEF DepsRespected
  <2> QED BY <2>3, <2>5, <2>7, <2>8, <2>9, <2>10
<1> QED BY <1>1, <1>2

\* A run that returns leaves only the completed tasks behind.
LEMMA ReturnInv ==
    ASSUME ScheduleInv, TypeOK', pc' = "returned", deps' = deps,
           status' \in {status, PendingCancelled}
    PROVE  ScheduleInv'
<1>1. \A i \in Nodes : /\ status'[i] \in {1, 2} => status[i] = status'[i]
                       /\ status[i] = 2 => status'[i] = 2
  BY DEF PendingCancelled
<1>2. DepsRespected'
  <2> SUFFICES ASSUME NEW i \in Nodes, status'[i] \in {1, 2}, NEW d \in 1..Len(deps[i])
               PROVE  deps[i][d] \in Nodes /\ status'[deps[i][d]] = 2
    BY DEF DepsRespected
  <2>0. status[i] \in {1, 2}
    BY <1>1
  <2>1. deps[i][d] \in Nodes /\ status[deps[i][d]] = 2
    BY <2>0, Zenon DEF ScheduleInv, DepsRespected
  <2> QED BY <1>1, <2>1, Zenon
<1> QED BY <1>2 DEF ScheduleInv, Live

\* Looking at the next wave starts it, or ends the run.
LEMMA WaveStartsInv ==
    ASSUME ScheduleInv, WaveStarts
    PROVE  ScheduleInv'
<1>1. TypeOK'
  BY DEF ScheduleInv, TypeOK, WaveStarts, PendingCancelled, Returns
<1>2. CASE pc' = "returned"
  BY <1>1, <1>2, ReturnInv DEF WaveStarts, Returns
<1>3. CASE pc' = "tasks"
  <2>1. /\ UNCHANGED <<deps, status, wave, queue, in_degree>>
        /\ \A i \in wave : status[i] = 0
    BY <1>3 DEF WaveStarts, Returns, ScheduleInv, ReadyShape, Live
  <2>2. Settled' = Settled
    BY <2>1, <1>3 DEF Settled, WaveStarts
  <2> QED BY <1>1, <1>3, <2>1, <2>2 DEF WaveStarts, ScheduleInv, DepsRespected, Live,
             ReadyExact, DegreeBound, ReadyShape, Open, Ids
<1> QED BY <1>2, <1>3 DEF WaveStarts, Returns

\* A task of the wave is started: nothing is open in its list.
LEMMA TaskStartsInv ==
    ASSUME ScheduleInv, NEW i \in Nodes, TaskStarts(i)
    PROVE  ScheduleInv'
<1>1. TypeOK'
  BY DEF ScheduleInv, TypeOK, TaskStarts
<1>2. Settled' = Settled /\ UNCHANGED <<deps, wave, queue, in_degree>>
  BY DEF Settled, TaskStarts, ScheduleInv, TypeOK
<1>3. Open(i) = {} /\ in_degree[i] = 0
  BY DEF ScheduleInv, Live, ReadyExact, TaskStarts
<1>4. DepsRespected'
  BY <1>1, <1>2, <1>3, NothingOpen DEF DepsRespected, ScheduleInv, TaskStarts, TypeOK
<1>5. ReadyExact'
  BY <1>2 DEF TaskStarts, ScheduleInv, Live, ReadyExact, Open, Ids
<1>6. DegreeBound'
  <2> SUFFICES ASSUME NEW k \in Nodes
               PROVE  /\ in_degree'[k] >= Cardinality(Open(k)')
                      /\ in_degree'[k] > 0 => status'[k] = 0
    BY DEF DegreeBound
  <2>1. in_degree[k] >= Cardinality(Open(k)) /\ (in_degree[k] > 0 => status[k] = 0)
    BY DEF TaskStarts, ScheduleInv, Live, DegreeBound
  <2>2. Open(k)' = Open(k)
    BY <1>2 DEF Open
  <2>3. k # i => status'[k] = status[k]
    BY DEF TaskStarts, ScheduleInv, TypeOK
  <2> QED BY <1>2, <1>3, <2>1, <2>2, <2>3
<1>7. ReadyShape'
  BY <1>2 DEF TaskStarts, ScheduleInv, Live, ReadyShape
<1> QED BY <1>1, <1>4, <1>5, <1>6, <1>7 DEF ScheduleInv, TaskStarts

\* A task of the wave ends: the in-degrees do not reflect it yet.
LEMMA TaskEndsInv ==
    ASSUME ScheduleInv, NEW i \in Nodes, TaskEnds(i)
    PROVE  ScheduleInv'
<1>1. TypeOK'
  BY DEF ScheduleInv, TypeOK, TaskEnds
<1>2. Settled' = Settled /\ UNCHANGED <<deps, wave, queue, in_degree>>
  BY DEF Settled, TaskEnds, ScheduleInv, TypeOK
<1>3. in_degree[i] = 0
  BY DEF ScheduleInv, Live, ReadyExact, TaskEnds
<1>4. DepsRespected'
  BY <1>1, <1>2 DEF DepsRespected, ScheduleInv, TaskEnds, TypeOK
<1>5. ReadyExact'
  BY <1>2 DEF TaskEnds, ScheduleInv, Live, ReadyExact, Open, Ids
<1>6. DegreeBound'
  <2> SUFFICES ASSUME NEW k \in Nodes
               PROVE  /\ in_degree'[k] >= Cardinality(Open(k)')
                      /\ in_degree'[k] > 0 => status'[k] = 0
    BY DEF DegreeBound
  <2>1. in_degree[k] >= Cardinality(Open(k)) /\ (in_degree[k] > 0 => status[k] = 0)
    BY DEF TaskEnds, ScheduleInv, Live, DegreeBound
  <2>2. Open(k)' = Open(k)
    BY <1>2 DEF Open
  <2>3. k # i => status'[k] = status[k]
    BY DEF TaskEnds, ScheduleInv, TypeOK
  <2> QED BY <1>2, <1>3, <2>1, <2>2, <2>3
<1>7. ReadyShape'
  BY <1>2 DEF TaskEnds, ScheduleInv, Live, ReadyShape
<1> QED BY <1>1, <1>4, <1>5, <1>6, <1>7 DEF ScheduleInv, TaskEnds

\* Taking some of the open places away takes as many from their number.
LEMMA OpenMinus ==
    ASSUME TypeOK, NEW i \in Nodes, NEW E \in SUBSET Open(i)
    PROVE  /\ IsFiniteSet(Open(i) \ E) /\ Cardinality(E) \in Nat
           /\ Cardinality(E) =< Cardinality(Open(i))
           /\ Cardinality(Open(i) \ E) = Cardinality(Open(i)) - Cardinality(E)
<1>1. IsFiniteSet(Open(i)) /\ Cardinality(Open(i)) \in Nat
  BY OpenFinite
<1>2. Cardinality(E) \in Nat /\ Cardinality(E) =< Cardinality(Open(i))
  BY <1>1, FS_Subset, FS_CardinalityType
<1>3. Open(i) \cap E = E
  OBVIOUS
<1> QED BY <1>1, <1>2, <1>3, FS_Difference

\* The end of a wave settles its tasks and closes the places that name them.
LEMMA WaveEndsOpen ==
    ASSUME ScheduleInv, WaveEnds
    PROVE  /\ Settled' = Settled \cup wave /\ Settled \cap wave = {}
           /\ \A i \in Nodes : /\ Open(i)' = Open(i) \ Edges(i, wave)
                               /\ Edges(i, wave) \subseteq Open(i)
<1>1. Settled' = Settled \cup wave /\ Settled \cap wave = {}
  BY DEF WaveEnds, ScheduleInv, TypeOK, Settled
<1> QED BY <1>1 DEF WaveEnds, Open, Edges

\* A wave that has ended is subtracted from the in-degrees place by place, so
\* the in-degrees stay at or above the number of open places.
LEMMA WaveEndsInv ==
    ASSUME ScheduleInv, WaveEnds
    PROVE  ScheduleInv'
<1> USE DEF WaveEnds
<1>0. TypeOK /\ ReadyExact /\ DegreeBound /\ ReadyShape /\ DepsRespected /\ wave \subseteq Nodes
  BY DEF ScheduleInv, Live, TypeOK
<1>1. Settled' = Settled \cup wave /\ Settled \cap wave = {}
  BY WaveEndsOpen
<1>2. ASSUME NEW i \in Nodes
      PROVE  /\ Open(i)' = Open(i) \ Edges(i, wave)
             /\ Edges(i, wave) \subseteq Open(i)
  BY WaveEndsOpen
<1>3. ASSUME NEW i \in Nodes
      PROVE  /\ in_degree'[i] \in Nat /\ in_degree'[i] =< in_degree[i]
             /\ IsFiniteSet(Open(i)')
             /\ in_degree'[i] >= Cardinality(Open(i)')
  <2>1. IsFiniteSet(Open(i)) /\ Cardinality(Open(i)) \in Nat
    BY <1>0, OpenFinite
  <2>2. IsFiniteSet(Open(i)') /\ Cardinality(Edges(i, wave)) \in Nat
        /\ Cardinality(Edges(i, wave)) =< Cardinality(Open(i))
        /\ Cardinality(Open(i)') = Cardinality(Open(i)) - Cardinality(Edges(i, wave))
    BY <1>0, <1>2, OpenMinus
  <2>5. in_degree'[i] = in_degree[i] - Cardinality(Edges(i, wave))
        /\ in_degree[i] \in Nat /\ in_degree[i] >= Cardinality(Open(i))
    BY <1>0 DEF Resolved, TypeOK, DegreeBound
  <2> QED BY <2>1, <2>2, <2>5
<1>4. TypeOK'
  <2>1. in_degree' \in [Nodes -> Nat]
    BY <1>3
  <2>2. wave' \subseteq Nodes /\ completed' \in Nat
    BY <1>0, WaveFinite DEF NextWave, WaveLength, TypeOK
  <2> QED BY <1>0, <2>1, <2>2 DEF TypeOK
<1>5. DepsRespected'
  BY <1>0 DEF DepsRespected
<1>6. ASSUME NEW i \in wave'
      PROVE  i \in Nodes /\ in_degree'[i] = 0 /\ Open(i)' = {} /\ status[i] = 0
  <2>1. i \in Nodes /\ in_degree[i] > 0 /\ in_degree'[i] = 0
    BY DEF NextWave, IsReady
  <2>2. Cardinality(Open(i)') = 0
    BY <1>3, <2>1, FS_CardinalityType
  <2>3. Open(i)' = {}
    BY <1>3, <2>1, <2>2, FS_EmptySet
  <2> QED BY <1>0, <2>1, <2>3 DEF DegreeBound
<1>7. ReadyExact'
  BY <1>0, <1>6 DEF ReadyExact, ReadyShape, Ids
<1>8. DegreeBound'
  BY <1>0, <1>3 DEF DegreeBound, TypeOK
<1>9. ReadyShape'
  BY <1>0, <1>6 DEF ReadyShape
<1> QED BY <1>4, <1>5, <1>7, <1>8, <1>9 DEF ScheduleInv

\* The head of the queue is started: nothing is open in its list, and it is
\* nowhere else in the queue.
LEMMA PopInv ==
    ASSUME ScheduleInv, Pop
    PROVE  ScheduleInv'
<1>0. TypeOK /\ ReadyExact /\ DegreeBound /\ ReadyShape /\ DepsRespected /\ pc = "pop"
  BY DEF ScheduleInv, Live, Pop
<1>1. CASE pc' = "returned"
  <2>1. TypeOK'
    BY <1>0, <1>1 DEF TypeOK, Pop, Returns, QueueEmpty, PendingCancelled
  <2> QED BY <1>1, <2>1, ReturnInv DEF Pop, Returns, QueueEmpty
<1>2. CASE pc' = "task"
  <2> DEFINE h == Head(queue)
  <2>1. /\ queue # <<>> /\ status' = [status EXCEPT ![h] = 1]
        /\ wave' = {h} /\ queue' = Tail(queue)
        /\ UNCHANGED <<deps, det, region, in_degree, completed, result, registry, cancels, before>>
    BY <1>2 DEF Pop, Returns, QueueEmpty
  <2>2. /\ queue \in Seq(Nodes) /\ Len(queue) \in Nat /\ Len(queue) > 0 /\ h = queue[1]
        /\ h \in Nodes /\ Tail(queue) \in Seq(Nodes) /\ Len(Tail(queue)) = Len(queue) - 1
        /\ \A k \in 1..Len(Tail(queue)) : Tail(queue)[k] = queue[k + 1]
    BY <1>0, <2>1, HeadTailProperties DEF TypeOK
  <2>3. h \in Ids(queue) /\ Ids(Tail(queue)) \subseteq Ids(queue)
    BY <2>2 DEF Ids
  <2>4. in_degree[h] = 0 /\ Open(h) = {} /\ status[h] = 0
    BY <1>0, <2>2, <2>3 DEF ReadyExact, ReadyShape
  <2>5. TypeOK'
    BY <1>0, <1>2, <2>1, <2>2 DEF TypeOK
  <2>6. Settled' = Settled
    BY <1>0, <1>2, <2>1, <2>2, <2>4 DEF Settled, TypeOK
  <2>7. \A i \in Nodes : Open(i)' = Open(i)
    BY <2>1, <2>6 DEF Open
  <2>8. DepsRespected'
    <3> SUFFICES ASSUME NEW i \in Nodes, status'[i] \in {1, 2}, NEW d \in 1..Len(deps[i])
                 PROVE  deps[i][d] \in Nodes /\ status'[deps[i][d]] = 2
      BY <2>1 DEF DepsRespected
    <3>1. deps[i][d] \in Nodes /\ status[deps[i][d]] = 2
      <4>1. CASE i = h
        BY <2>2, <2>4, <4>1, NothingOpen
      <4>2. CASE i # h
        BY <1>0, <2>1, <4>2 DEF DepsRespected, TypeOK
      <4> QED BY <4>1, <4>2
    <3> QED BY <1>0, <2>1, <2>4, <3>1 DEF TypeOK
  <2>9. ReadyExact'
    BY <1>0, <2>1, <2>2, <2>3, <2>4, <2>7, IdsType DEF ReadyExact
  <2>10. DegreeBound'
    <3> SUFFICES ASSUME NEW k \in Nodes
                 PROVE  /\ in_degree'[k] >= Cardinality(Open(k)')
                        /\ in_degree'[k] > 0 => status'[k] = 0
      BY DEF DegreeBound
    <3>1. in_degree[k] >= Cardinality(Open(k)) /\ (in_degree[k] > 0 => status[k] = 0)
      BY <1>0 DEF DegreeBound
    <3>2. k # h => status'[k] = status[k]
      BY <1>0, <2>1 DEF TypeOK
    <3> QED BY <2>1, <2>4, <2>7, <3>1, <3>2
  <2>11. ReadyShape'
    <3>1. ASSUME NEW k \in 1..Len(queue') PROVE status'[queue'[k]] = 0
      <4>1. k + 1 \in 1..Len(queue) /\ queue'[k] = queue[k + 1] /\ k + 1 # 1 /\ 1 \in 1..Len(queue)
        BY <2>1, <2>2
      <4>2. queue[k + 1] # h /\ status[queue[k + 1]] = 0 /\ queue[k + 1] \in Nodes
        BY <1>0, <2>2, <4>1 DEF ReadyShape
      <4> QED BY <1>0, <2>1, <4>1, <4>2 DEF TypeOK
    <3>2. ASSUME NEW j \in 1..Len(queue'), NEW k \in 1..Len(queue'), queue'[j] = queue'[k]
          PROVE  j = k
      <4>1. j + 1 \in 1..Len(queue) /\ k + 1 \in 1..Len(queue) /\ queue[j + 1] = queue[k + 1]
        BY <2>1, <2>2, <3>2
      <4>2. j + 1 = k + 1
        BY <1>0, <4>1 DEF ReadyShape
      <4> QED BY <2>1, <2>2, <4>2
    <3>3. \A i \in wave' : status'[i] = 1
      BY <1>0, <2>1, <2>2 DEF TypeOK
    <3> QED BY <1>2, <3>1, <3>2, <3>3 DEF ReadyShape
  <2> QED BY <1>2, <2>5, <2>8, <2>9, <2>10, <2>11 DEF ScheduleInv
<1> QED BY <1>1, <1>2 DEF Pop, Returns, QueueEmpty

\* The end of the running task t settles it and closes the places that name it.
LEMMA TaskDoneOpen ==
    ASSUME ScheduleInv, TaskDone, NEW t \in wave, status' = [status EXCEPT ![t] = 2]
    PROVE  /\ t \in Nodes /\ status[t] = 1 /\ in_degree[t] = 0
           /\ Settled' = Settled \cup {t} /\ t \notin Settled
           /\ \A i \in Nodes : Open(i)' = Open(i) \ Edges(i, {t}) /\ Edges(i, {t}) \subseteq Open(i)
<1>1. TypeOK /\ ReadyExact /\ ReadyShape /\ pc = "task" /\ pc' = "pop" /\ deps' = deps
  BY DEF ScheduleInv, Live, TaskDone
<1>2. t \in Nodes /\ status[t] = 1 /\ in_degree[t] = 0
  BY <1>1 DEF TypeOK, ReadyShape, ReadyExact
<1>3. Settled' = Settled \cup {t} /\ t \notin Settled
  BY <1>1, <1>2 DEF Settled, TypeOK
<1> QED BY <1>1, <1>2, <1>3 DEF Open, Edges

\* The running task is finished: each dependent loses one degree and at least
\* one open place, and the tasks that are pushed were not in the queue.
LEMMA TaskDoneInv ==
    ASSUME ScheduleInv, TaskDone
    PROVE  ScheduleInv'
<1>0. TypeOK /\ ReadyExact /\ DegreeBound /\ ReadyShape /\ DepsRespected /\ pc = "task"
  BY DEF ScheduleInv, Live, TaskDone
<1>1. PICK t \in wave :
        /\ status' = [status EXCEPT ![t] = 2]
        /\ in_degree' = [i \in Nodes |-> IF i \in Dependents(t) THEN in_degree[i] - 1 ELSE in_degree[i]]
        /\ \E s \in InOrder({i \in Dependents(t) : IsReady(in_degree'[i])}) : queue' = queue \o s
  BY DEF TaskDone
<1> DEFINE New == {i \in Dependents(t) : IsReady(in_degree'[i])}
<1>2. PICK s \in InOrder(New) : queue' = queue \o s
  BY <1>1
<1>3. /\ completed' = completed + 1 /\ wave' = {} /\ pc' = "pop"
      /\ UNCHANGED <<deps, det, region, result, registry, cancels, before>>
  BY DEF TaskDone
<1>4. t \in Nodes /\ status[t] = 1 /\ in_degree[t] = 0 /\ New \subseteq Nodes
  BY <1>1, TaskDoneOpen DEF Dependents
<1>6. ASSUME NEW i \in Nodes
      PROVE  Open(i)' = Open(i) \ Edges(i, {t}) /\ Edges(i, {t}) \subseteq Open(i)
  BY <1>1, TaskDoneOpen
<1>7. ASSUME NEW i \in Nodes
      PROVE  /\ in_degree'[i] \in Nat /\ in_degree'[i] =< in_degree[i]
             /\ IsFiniteSet(Open(i)') /\ in_degree'[i] >= Cardinality(Open(i)')
             /\ Cardinality(Open(i)') \in Nat
  <2>1. IsFiniteSet(Open(i)) /\ Cardinality(Open(i)) \in Nat
        /\ in_degree[i] \in Nat /\ in_degree[i] >= Cardinality(Open(i))
    BY <1>0, OpenFinite DEF DegreeBound, TypeOK
  <2>2. Open(i)' \in SUBSET Open(i)
    BY <1>6
  <2>3. IsFiniteSet(Open(i)') /\ Cardinality(Open(i)') \in Nat
        /\ Cardinality(Open(i)') =< Cardinality(Open(i))
        /\ (Cardinality(Open(i)) = Cardinality(Open(i)') => Open(i) = Open(i)')
    BY <2>1, <2>2, FS_Subset, FS_CardinalityType
  <2>4. CASE i \in Dependents(t)
    <3>1. in_degree[i] > 0 /\ Open(i) # Open(i)'
      BY <1>6, <2>4 DEF Dependents
    <3>2. in_degree'[i] = in_degree[i] - 1
      BY <1>1, <2>4
    <3> QED BY <2>1, <2>3, <3>1, <3>2
  <2>5. CASE i \notin Dependents(t)
    <3>1. in_degree'[i] = in_degree[i]
      BY <1>1, <2>5
    <3> QED BY <2>1, <2>3, <3>1
  <2> QED BY <2>4, <2>5
<1>8. ASSUME NEW i \in New
      PROVE  /\ i \in Nodes /\ in_degree[i] > 0 /\ in_degree'[i] = 0 /\ status[i] = 0
             /\ i # t /\ i \notin Ids(queue) /\ Open(i)' = {}
  <2>1. i \in Nodes /\ in_degree[i] > 0 /\ in_degree'[i] = 0
    BY DEF Dependents, IsReady
  <2>2. status[i] = 0 /\ i # t /\ i \notin Ids(queue)
    BY <1>0, <1>4, <2>1 DEF DegreeBound, ReadyExact
  <2>3. Cardinality(Open(i)') = 0
    BY <1>7, <2>1
  <2> QED BY <1>7, <2>1, <2>2, <2>3, FS_EmptySet
<1>9. /\ s \in Seq(Nodes) /\ Len(s) \in Nat
      /\ \A k \in 1..Len(s) : s[k] \in New
      /\ \A j, k \in 1..Len(s) : s[j] = s[k] => j = k
  <2> HIDE DEF New
  <2> QED BY <1>2, <1>4, InOrderFacts
<1>10. /\ queue \in Seq(Nodes) /\ Len(queue) \in Nat
       /\ queue' \in Seq(Nodes) /\ Len(queue') = Len(queue) + Len(s)
       /\ \A k \in 1..Len(queue') : queue'[k] = IF k <= Len(queue) THEN queue[k] ELSE s[k - Len(queue)]
  BY <1>0, <1>2, <1>9, ConcatProperties DEF TypeOK
<1>11. ASSUME NEW k \in 1..Len(queue')
       PROVE  \/ k \in 1..Len(queue) /\ queue'[k] = queue[k] /\ queue[k] \in Ids(queue)
              \/ k - Len(queue) \in 1..Len(s) /\ k > Len(queue) /\ queue'[k] = s[k - Len(queue)] /\ queue'[k] \in New
  <2>1. CASE k <= Len(queue)
    BY <1>10, <2>1 DEF Ids
  <2>2. CASE k > Len(queue)
    <3>1. k - Len(queue) \in 1..Len(s) /\ queue'[k] = s[k - Len(queue)]
      BY <1>9, <1>10, <2>2
    <3> QED BY <1>9, <2>2, <3>1
  <2> QED BY <1>10, <2>1, <2>2
<1>12. TypeOK'
  <2>1. in_degree' \in [Nodes -> Nat]
    BY <1>1, <1>7
  <2>2. status' \in [Nodes -> 0..3] /\ completed' \in Nat
    BY <1>0, <1>1, <1>3 DEF TypeOK
  <2> QED BY <1>0, <1>3, <1>10, <2>1, <2>2 DEF TypeOK
<1>13. DepsRespected'
  BY <1>0, <1>1, <1>3, <1>4 DEF DepsRespected, TypeOK
<1>14. ASSUME NEW i \in Ids(queue)
       PROVE  i \in Nodes /\ in_degree'[i] = 0 /\ Open(i)' = {} /\ status[i] = 0
  <2>1. i \in Nodes /\ in_degree[i] = 0 /\ Open(i) = {} /\ status[i] = 0
    BY <1>0, <1>10 DEF ReadyExact, ReadyShape, Ids
  <2>2. in_degree'[i] = 0
    BY <1>7, <2>1
  <2> QED BY <1>6, <2>1, <2>2
<1>15. ReadyExact'
  <2> SUFFICES ASSUME NEW i \in (wave \cup Ids(queue))'
               PROVE  in_degree'[i] = 0 /\ Open(i)' = {}
    BY DEF ReadyExact
  <2>1. PICK k \in 1..Len(queue') : i = queue'[k]
    BY <1>3 DEF Ids
  <2>2. i \in Ids(queue) \/ i \in New
    BY <1>11, <2>1
  <2> QED BY <1>8, <1>14, <2>2
<1>16. DegreeBound'
  BY <1>0, <1>1, <1>4, <1>7 DEF DegreeBound, TypeOK
<1>17. ReadyShape'
  <2>1. ASSUME NEW k \in 1..Len(queue') PROVE status'[queue'[k]] = 0
    <3>1. queue'[k] \in Nodes /\ status[queue'[k]] = 0
      BY <1>8, <1>11, <1>14
    <3> QED BY <1>0, <1>1, <1>4, <3>1 DEF TypeOK
  <2>2. ASSUME NEW j \in 1..Len(queue'), NEW k \in 1..Len(queue'), queue'[j] = queue'[k]
        PROVE  j = k
    <3>1. CASE j \in 1..Len(queue) /\ k \in 1..Len(queue)
      BY <1>0, <1>10, <2>2, <3>1 DEF ReadyShape
    <3>2. CASE j > Len(queue) /\ k > Len(queue)
      <4>0. /\ j - Len(queue) \in 1..Len(s) /\ queue'[j] = s[j - Len(queue)]
            /\ k - Len(queue) \in 1..Len(s) /\ queue'[k] = s[k - Len(queue)]
        BY <1>10, <1>11, <3>2
      <4>1. j - Len(queue) = k - Len(queue)
        BY <1>9, <2>2, <4>0
      <4> QED BY <1>10, <4>1
    <3> QED BY <1>8, <1>10, <1>11, <2>2, <3>1, <3>2
  <2> QED BY <1>3, <2>1, <2>2 DEF ReadyShape
<1> QED BY <1>3, <1>12, <1>13, <1>15, <1>16, <1>17 DEF ScheduleInv

\* Every step of the scheduler, of the pool and of a canceller keeps the
\* invariant.
LEMMA NextInv == ScheduleInv /\ [Next]_vars => ScheduleInv'
<1> SUFFICES ASSUME ScheduleInv, [Next]_vars PROVE ScheduleInv'
  OBVIOUS
<1>1. CASE Run
  BY <1>1, ScheduleRunInv, WaveStartsInv, WaveEndsInv, PopInv, TaskDoneInv, TaskStartsInv,
     TaskEndsInv DEF Run
<1>2. CASE \E r \in Regions : ScheduleCancel(r)
  BY <1>2, ScheduleCancelInv
<1>3. CASE UNCHANGED vars
  BY <1>3, StutterInv
<1> QED BY <1>1, <1>2, <1>3 DEF Next

\* schedule_run keeps ScheduleInv for every number of tasks, every graph, both
\* paths and every sequence of cancellations.
THEOREM ScheduleInvariant == Spec => []ScheduleInv
<1>1. Init => ScheduleInv
  BY InitInv
<1>2. ScheduleInv /\ [Next]_vars => ScheduleInv'
  BY NextInv
<1> QED BY <1>1, <1>2, PTL DEF Spec

\* "executes the given tasks respecting their dependencies": no task is started
\* before all the tasks it names have been completed.
THEOREM ScheduleDepsRespected == Spec => []DepsRespected
<1>1. ScheduleInv => DepsRespected
  BY DEF ScheduleInv
<1> QED BY <1>1, ScheduleInvariant, PTL
-------------------------------------------------------------------------------
(***************************************************************************)
(* What a run leaves behind.  AccountInv says that the count and the       *)
(* in-degrees are exact and that no task is lost between them, so that a   *)
(* run with nothing ready has nothing left to run.                         *)
(***************************************************************************)

\* The settled tasks form a finite set.
LEMMA SettledFinite ==
    ASSUME TypeOK
    PROVE  Settled \subseteq Nodes /\ IsFiniteSet(Settled) /\ Cardinality(Settled) \in Nat
BY TaskScheduleAssumption, FS_Subset, FS_CardinalityType DEF Settled

\* Every cancellation is in the registry: it has room for all of them.
LEMMA RegistryKeepsAll ==
    ASSUME MaxCancels =< MAX_CANCELLED_REGIONS, AccountInv, NEW r \in Regions, ScheduleCancel(r)
    PROVE  /\ registry' = cancels' /\ UNCHANGED before
           /\ Ids(registry) \subseteq Ids(registry') /\ 0 \notin Ids(registry')
<1>1. registry \in Seq(Regions) /\ registry = cancels /\ Len(registry) \in Nat
  BY DEF AccountInv, ScheduleInv, TypeOK
<1>2. HasRoom
  BY <1>1, TaskScheduleAssumption DEF ScheduleCancel, HasRoom
<1>3. registry' = Append(registry, r) /\ registry' = cancels' /\ UNCHANGED before
  BY <1>1, <1>2 DEF ScheduleCancel
<1>4. /\ \A k \in 1..Len(registry) : k \in 1..Len(registry') /\ registry'[k] = registry[k]
      /\ \A k \in 1..Len(registry') : k \in 1..Len(registry) \/ registry'[k] = r
  <2>1. registry \in Seq(Regions) /\ Len(registry) \in Nat /\ registry' = Append(registry, r)
    BY <1>1, <1>3
  <2>2. Len(registry') = Len(registry) + 1
        /\ \A k \in 1..Len(registry) : registry'[k] = registry[k]
        /\ registry'[Len(registry) + 1] = r
    BY <2>1, AppendProperties
  <2> QED BY <2>1, <2>2
<1>5. 0 \notin Ids(registry')
  <2>1. r # 0 /\ 0 \notin Ids(registry)
    BY DEF ScheduleCancel, AccountInv
  <2> QED BY <1>4, <2>1 DEF Ids
<1> QED BY <1>3, <1>4, <1>5 DEF Ids

\* No task is done before the call.
LEMMA InitAccount == Init => AccountInv
<1> SUFFICES ASSUME Init PROVE AccountInv
  OBVIOUS
<1>1. ScheduleInv
  BY InitInv
<1> QED BY <1>1 DEF Init, AccountInv, Live, ScheduleSafety, PendingHasReason, ResultExact,
                   CancelIsTotal, Ids

\* Neither a step that changes nothing nor a cancellation by another thread
\* disturbs the account: a run that has returned stays cancelled if it was.
LEMMA OthersAccount ==
    ASSUME MaxCancels =< MAX_CANCELLED_REGIONS, AccountInv,
           UNCHANGED vars \/ \E r \in Regions : ScheduleCancel(r)
    PROVE  AccountInv'
<1>1. ScheduleInv'
  BY StutterInv, ScheduleCancelInv DEF AccountInv
<1>2. /\ UNCHANGED <<deps, det, region, pc, in_degree, wave, queue, completed, result, status, before>>
      /\ registry' = cancels' /\ Ids(registry) \subseteq Ids(registry') /\ 0 \notin Ids(registry')
  <2>1. CASE UNCHANGED vars
    BY <2>1 DEF vars, AccountInv, Ids
  <2>2. CASE \E r \in Regions : ScheduleCancel(r)
    BY <2>2, RegistryKeepsAll DEF ScheduleCancel
  <2> QED BY <2>1, <2>2
<1>3. RegionCancelled => RegionCancelled'
  BY <1>2 DEF RegionCancelled
<1>4. ScheduleSafety'
  BY <1>2, <1>3 DEF AccountInv, ScheduleSafety, PendingHasReason, ResultExact, CancelIsTotal,
                    CountedOnce
<1>5. Settled' = Settled /\ Ids(queue)' = Ids(queue)
  BY <1>2 DEF Settled, Ids
<1>6. \A i \in Nodes : Open(i)' = Open(i) /\ (CountedOnce(i)' <=> CountedOnce(i))
  BY <1>2, <1>5 DEF Open, CountedOnce
<1>7. Live => PathExact' /\ NothingLost' /\ (region \notin before)'
  BY <1>2, <1>5 DEF AccountInv, Live, PathExact, NothingLost
<1>8. Live => DegreeExact'
  BY <1>2, <1>6 DEF AccountInv, DegreeExact
<1> QED BY <1>1, <1>2, <1>4, <1>7, <1>8 DEF AccountInv, Live

\* The call marks every task cancelled, or starts with nothing done and every
\* place open.
LEMMA ScheduleRunAccount ==
    ASSUME AccountInv, ScheduleRun
    PROVE  AccountInv'
<1> USE DEF ScheduleRun
<1>1. ScheduleInv /\ ScheduleInv' /\ TypeOK /\ pc = "call" /\ completed = 0
      /\ \A i \in Nodes : status[i] = 0
  BY ScheduleRunInv DEF AccountInv, ScheduleInv
<1>2. registry' = cancels' /\ before' = Ids(registry')
  BY DEF AccountInv, Ids
<1>3. CASE RegionCancelled
  <2>1. pc' = "returned" /\ result' = -1 /\ status' = [i \in Nodes |-> 3] /\ RegionCancelled'
    BY <1>3 DEF Returns, RegionCancelled, Ids
  <2>2. ScheduleSafety'
    BY <2>1 DEF ScheduleSafety, PendingHasReason, ResultExact, CancelIsTotal
  <2> QED BY <1>1, <1>2, <2>1, <2>2 DEF AccountInv, Live
<1>4. CASE ~RegionCancelled
  <2>1. /\ in_degree' = [i \in Nodes |-> Len(deps[i])] /\ status' = status
        /\ pc' = (IF det THEN "wave" ELSE "pop")
        /\ UNCHANGED <<deps, det, region, completed, registry>>
    BY <1>4
  <2>2. Settled' = {} /\ \A i \in Nodes : Open(i)' = 1..Len(deps[i])
    BY <1>1, <2>1 DEF Settled, Open
  <2>3. PathExact'
    BY <1>1, <2>1, <2>2, FS_EmptySet DEF PathExact, TypeOK
  <2>4. DegreeExact'
    BY <1>1, <2>1, <2>2, DepsType DEF DegreeExact
  <2>5. Roots \subseteq wave' \cup Ids(queue)'
    <3>1. CASE det
      BY <1>4, <3>1
    <3>2. CASE ~det
      <4>1. PICK s \in InOrder(Roots) : queue' = s
        BY <1>4, <3>2
      <4> QED BY <4>1, InOrderOnto DEF Roots
    <3> QED BY <3>1, <3>2
  <2>6. NothingLost'
    <3> SUFFICES ASSUME NEW i \in Nodes, in_degree'[i] = 0
                 PROVE  i \in wave' \cup Ids(queue)'
      BY <1>1, <2>1 DEF NothingLost
    <3>1. deps[i] \in Seq(Nat) /\ Len(deps[i]) = 0
      BY <1>1, <2>1, DepsType
    <3>2. deps[i] = <<>>
      BY <3>1, EmptySeq
    <3> QED BY <2>5, <3>2 DEF Roots
  <2>7. (region \notin before)'
    BY <1>4, <1>2, <2>1 DEF RegionCancelled, AccountInv
  <2>8. ScheduleSafety'
    BY <2>1, <2>7 DEF ScheduleSafety, PendingHasReason, ResultExact, CancelIsTotal
  <2> QED BY <1>1, <1>2, <2>1, <2>3, <2>4, <2>6, <2>7, <2>8 DEF AccountInv
<1> QED BY <1>3, <1>4

\* A run that returns with the number of the settled tasks, having marked the
\* pending ones cancelled or having nothing ready, satisfies ScheduleSafety.
LEMMA ReturnAccount ==
    ASSUME AccountInv, Live, pc \in {"wave", "pop"}, ScheduleInv',
           pc' = "returned", result' = completed,
           UNCHANGED <<deps, det, region, in_degree, completed, registry, cancels, before>>,
           \/ RegionCancelled /\ status' = PendingCancelled
           \/ status' = status /\ (\A i \in Nodes : status[i] = 0 => in_degree[i] > 0)
    PROVE  AccountInv'
<1>1. TypeOK /\ PathExact /\ DegreeExact /\ NothingLost /\ ReadyShape
  BY DEF AccountInv, ScheduleInv
<1>2. \A i \in Nodes : status[i] \in {0, 2}
  BY <1>1 DEF NothingLost, ReadyShape, TypeOK
<1>3. Settled = {i \in Nodes : status[i] = 2}
  BY DEF Settled
<1>4. result' = Cardinality({i \in Nodes : status'[i] = 2})
  <2>1. \A i \in Nodes : status'[i] = 2 <=> status[i] = 2
    BY DEF PendingCancelled
  <2>2. Settled = {i \in Nodes : status'[i] = 2}
    BY <1>3, <2>1
  <2> QED BY <1>1, <2>2 DEF PathExact
<1>5. ResultExact'
  BY <1>2, <1>4 DEF ResultExact, PendingCancelled
<1>6. CancelIsTotal'
  BY <1>2 DEF CancelIsTotal, AccountInv, PendingCancelled
<1>7. PendingHasReason'
  <2>1. RegionCancelled' = RegionCancelled
    BY DEF RegionCancelled, Ids
  <2> SUFFICES ASSUME ~RegionCancelled, NEW i \in Nodes, status'[i] # 2, CountedOnce(i)
               PROVE  \E d \in 1..Len(deps[i]) : deps[i][d] \notin Nodes \/ status'[deps[i][d]] # 2
    BY <2>1 DEF PendingHasReason, CountedOnce
  <2>2. status' = status /\ in_degree[i] > 0
    BY <1>2
  <2>3. Cardinality(Open(i)) > 0
    BY <1>1, <2>2 DEF DegreeExact
  <2>4. Open(i) # {}
    BY <2>3, FS_EmptySet
  <2> QED BY <1>3, <2>2, <2>4 DEF Open
<1> QED BY <1>5, <1>6, <1>7 DEF AccountInv, Live, ScheduleSafety

\* A wave is begun, or the run returns.
LEMMA WaveStartsAccount ==
    ASSUME AccountInv, WaveStarts
    PROVE  AccountInv'
<1>1. ScheduleInv /\ ScheduleInv' /\ Live /\ pc = "wave"
      /\ TypeOK /\ PathExact /\ DegreeExact /\ NothingLost /\ ReadyShape
  BY WaveStartsInv DEF AccountInv, ScheduleInv, WaveStarts, Live
<1>2. CASE pc' = "returned"
  <2>1. wave = {} => \A i \in Nodes : status[i] = 0 => in_degree[i] > 0
    BY <1>1 DEF NothingLost, ReadyShape, TypeOK, Ids
  <2> QED BY <1>1, <1>2, <2>1, ReturnAccount DEF WaveStarts, Returns
<1>3. CASE pc' = "tasks"
  <2>1. /\ UNCHANGED <<deps, det, region, in_degree, wave, queue, completed, status, registry, cancels, before>>
        /\ \A i \in wave : status[i] = 0
    BY <1>1, <1>3 DEF WaveStarts, Returns, ReadyShape
  <2>2. Settled' = Settled /\ \A i \in Nodes : Open(i)' = Open(i) /\ (CountedOnce(i)' <=> CountedOnce(i))
    BY <1>1, <1>3, <2>1 DEF Settled, Open, CountedOnce
  <2>3. PathExact' /\ DegreeExact' /\ NothingLost'
    BY <1>1, <1>3, <2>1, <2>2 DEF PathExact, DegreeExact, NothingLost, Ids
  <2>4. ScheduleSafety' /\ (region \notin before)'
    BY <1>1, <1>3, <2>1 DEF AccountInv, ScheduleSafety, PendingHasReason, ResultExact, CancelIsTotal
  <2>5. (before \subseteq Ids(registry) /\ 0 \notin Ids(registry) /\ registry = cancels)'
    BY <2>1 DEF AccountInv, Ids
  <2> QED BY <1>1, <1>3, <2>3, <2>4, <2>5 DEF AccountInv
<1> QED BY <1>2, <1>3 DEF WaveStarts, Returns

\* A task of the wave starts or ends: nothing is settled before the wave is over.
LEMMA TaskAccount ==
    ASSUME AccountInv, NEW i \in Nodes, TaskStarts(i) \/ TaskEnds(i)
    PROVE  AccountInv'
<1>1. ScheduleInv /\ ScheduleInv' /\ Live /\ pc = "tasks" /\ i \in wave
      /\ TypeOK /\ PathExact /\ DegreeExact /\ NothingLost
  BY TaskStartsInv, TaskEndsInv DEF AccountInv, ScheduleInv, TaskStarts, TaskEnds, Live
<1>2. /\ UNCHANGED <<deps, det, region, pc, in_degree, wave, queue, completed, result, registry, cancels, before>>
      /\ \E n \in {1, 2} : status' = [status EXCEPT ![i] = n]
  BY DEF TaskStarts, TaskEnds
<1>3. Settled' = Settled /\ \A k \in Nodes : Open(k)' = Open(k) /\ (CountedOnce(k)' <=> CountedOnce(k))
  BY <1>1, <1>2 DEF Settled, Open, CountedOnce, TypeOK
<1>4. PathExact' /\ DegreeExact'
  BY <1>1, <1>2, <1>3 DEF PathExact, DegreeExact
<1>5. NothingLost'
  BY <1>1, <1>2 DEF NothingLost, TypeOK, Ids
<1>6. ScheduleSafety' /\ (region \notin before)'
  BY <1>1, <1>2 DEF AccountInv, ScheduleSafety, PendingHasReason, ResultExact, CancelIsTotal
<1>7. (before \subseteq Ids(registry) /\ 0 \notin Ids(registry) /\ registry = cancels)'
  BY <1>2 DEF AccountInv, Ids
<1> QED BY <1>1, <1>2, <1>4, <1>5, <1>6, <1>7 DEF AccountInv

\* The wave is counted, and every task it was the last prerequisite of is in the
\* next one.
LEMMA WaveEndsAccount ==
    ASSUME AccountInv, WaveEnds
    PROVE  AccountInv'
<1>1. ScheduleInv /\ ScheduleInv' /\ Live /\ pc = "tasks" /\ pc' = "wave" /\ det
      /\ TypeOK /\ PathExact /\ DegreeExact /\ NothingLost /\ ReadyShape
  BY WaveEndsInv DEF AccountInv, ScheduleInv, WaveEnds, Live, PathExact
<1>2. /\ completed' = completed + Cardinality(wave)
      /\ in_degree' = [i \in Nodes |-> in_degree[i] - Cardinality(Edges(i, wave))]
      /\ wave' = {i \in Nodes : in_degree[i] > 0 /\ in_degree'[i] = 0}
      /\ \A i \in wave : status[i] = 2
      /\ UNCHANGED <<deps, det, region, queue, result, status, registry, cancels, before>>
  BY DEF WaveEnds, WaveLength, Resolved, NextWave, IsReady
<1>3. Settled' = Settled \cup wave /\ Settled \cap wave = {}
  BY <1>1, WaveEndsOpen
<1>4. PathExact'
  <2>1. Cardinality(Settled') = Cardinality(Settled) + Cardinality(wave)
    BY <1>1, <1>3, SettledFinite, WaveFinite, FS_Union, FS_EmptySet
  <2> QED BY <1>1, <1>2, <2>1 DEF PathExact
<1>5. DegreeExact'
  <2> SUFFICES ASSUME NEW i \in Nodes
               PROVE  in_degree'[i] = Cardinality(Open(i)')
    BY DEF DegreeExact
  <2>1. in_degree[i] = Cardinality(Open(i))
    BY <1>1 DEF DegreeExact, CountedOnce
  <2>2. Open(i)' = Open(i) \ Edges(i, wave) /\ Edges(i, wave) \in SUBSET Open(i)
    BY <1>1, WaveEndsOpen
  <2>3. Cardinality(Open(i)') = Cardinality(Open(i)) - Cardinality(Edges(i, wave))
    BY <1>1, <2>2, OpenMinus
  <2> QED BY <1>2, <2>1, <2>3
<1>6. NothingLost'
  <2> SUFFICES ASSUME NEW i \in Nodes
               PROVE  /\ status[i] \notin {1, 3}
                      /\ status[i] = 0 /\ in_degree'[i] = 0 => i \in wave'
    BY <1>2 DEF NothingLost
  <2>1. status[i] \notin {1, 3}
    BY <1>1, <1>2 DEF NothingLost
  <2>2. status[i] = 0 => in_degree[i] > 0
    BY <1>1, <1>2 DEF NothingLost, ReadyShape, TypeOK, Ids
  <2> QED BY <1>2, <2>1, <2>2
<1>7. ScheduleSafety' /\ (region \notin before)'
  BY <1>1, <1>2 DEF AccountInv, ScheduleSafety, PendingHasReason, ResultExact, CancelIsTotal
<1>8. (before \subseteq Ids(registry) /\ 0 \notin Ids(registry) /\ registry = cancels)'
  BY <1>2 DEF AccountInv, Ids
<1> QED BY <1>1, <1>4, <1>5, <1>6, <1>7, <1>8 DEF AccountInv

\* The head of the queue is started; with an empty queue every task that is left
\* has a place open.
LEMMA PopAccount ==
    ASSUME AccountInv, Pop
    PROVE  AccountInv'
<1>1. ScheduleInv /\ ScheduleInv' /\ Live /\ pc = "pop"
      /\ TypeOK /\ PathExact /\ DegreeExact /\ NothingLost /\ ReadyShape
  BY PopInv DEF AccountInv, ScheduleInv, Pop, Live
<1>2. CASE pc' = "returned"
  <2>1. queue = <<>> => \A i \in Nodes : status[i] = 0 => in_degree[i] > 0
    BY <1>1 DEF NothingLost, ReadyShape, TypeOK, Ids
  <2>2. completed = Cardinality(Nodes) => \A i \in Nodes : status[i] = 2
    <3> SUFFICES ASSUME Cardinality(Settled) = Cardinality(Nodes)
                 PROVE  \A i \in Nodes : status[i] = 2
      BY <1>1 DEF PathExact
    <3>1. Settled = Nodes
      BY <1>1, SettledFinite, TaskScheduleAssumption, FS_Subset
    <3> QED BY <3>1 DEF Settled
  <2> QED BY <1>1, <1>2, <2>1, <2>2, ReturnAccount DEF Pop, Returns, QueueEmpty
<1>3. CASE pc' = "task"
  <2> DEFINE h == Head(queue)
  <2>1. /\ queue # <<>> /\ status' = [status EXCEPT ![h] = 1]
        /\ wave' = {h} /\ queue' = Tail(queue) /\ ~RegionCancelled
        /\ UNCHANGED <<deps, det, region, in_degree, completed, result, registry, cancels, before>>
    BY <1>3 DEF Pop, Returns, QueueEmpty
  <2>2. /\ queue \in Seq(Nodes) /\ Len(queue) \in Nat /\ Len(queue) > 0 /\ h = queue[1]
        /\ h \in Nodes /\ Len(Tail(queue)) = Len(queue) - 1
        /\ \A k \in 1..Len(Tail(queue)) : Tail(queue)[k] = queue[k + 1]
    BY <1>1, <2>1, HeadTailProperties DEF TypeOK
  <2>3. status[h] = 0
    BY <1>1, <2>2 DEF ReadyShape
  <2>4. Ids(queue) \subseteq {h} \cup Ids(Tail(queue))
    <3> SUFFICES ASSUME NEW k \in 1..Len(queue), k # 1
                 PROVE  queue[k] \in Ids(Tail(queue))
      BY <2>2 DEF Ids
    <3>1. k - 1 \in 1..Len(Tail(queue)) /\ Tail(queue)[k - 1] = queue[k]
      BY <2>2
    <3> QED BY <3>1 DEF Ids
  <2>5. Settled' = Settled
    BY <1>1, <1>3, <2>1, <2>2, <2>3 DEF Settled, TypeOK
  <2>6. \A i \in Nodes : Open(i)' = Open(i) /\ (CountedOnce(i)' <=> CountedOnce(i))
    BY <2>1, <2>5 DEF Open, CountedOnce
  <2>7. PathExact' /\ DegreeExact'
    BY <1>1, <1>3, <2>1, <2>2, <2>5, <2>6 DEF PathExact, DegreeExact
  <2>8. NothingLost'
    <3> SUFFICES ASSUME NEW i \in Nodes
                 PROVE  /\ status'[i] # 3
                        /\ status'[i] = 0 /\ in_degree[i] = 0 => i \in wave' \cup Ids(queue')
                        /\ status'[i] = 1 => i \in wave'
      BY <2>1 DEF NothingLost, Ids
    <3>1. CASE i = h
      BY <1>1, <2>1, <2>2, <3>1 DEF TypeOK
    <3>2. CASE i # h
      <4>1. status'[i] = status[i] /\ i \notin wave
        BY <1>1, <2>1, <3>2 DEF TypeOK, ReadyShape
      <4> QED BY <1>1, <2>1, <2>4, <3>2, <4>1 DEF NothingLost
    <3> QED BY <3>1, <3>2
  <2>9. ScheduleSafety' /\ (region \notin before)'
    BY <1>1, <1>3, <2>1 DEF AccountInv, ScheduleSafety, PendingHasReason, ResultExact, CancelIsTotal
  <2>10. (before \subseteq Ids(registry) /\ 0 \notin Ids(registry) /\ registry = cancels)'
    BY <2>1 DEF AccountInv, Ids
  <2> QED BY <1>1, <1>3, <2>7, <2>8, <2>9, <2>10 DEF AccountInv
<1> QED BY <1>2, <1>3 DEF Pop, Returns, QueueEmpty

\* One more task is counted, and the tasks it was the last prerequisite of are
\* in the queue.
LEMMA TaskDoneAccount ==
    ASSUME AccountInv, TaskDone
    PROVE  AccountInv'
<1>1. ScheduleInv /\ ScheduleInv' /\ Live /\ pc = "task" /\ pc' = "pop" /\ wave' = {} /\ ~det
      /\ TypeOK /\ PathExact /\ DegreeExact /\ NothingLost /\ ReadyShape
  BY TaskDoneInv DEF AccountInv, ScheduleInv, TaskDone, Live, PathExact
<1>2. PICK t \in wave :
        /\ status' = [status EXCEPT ![t] = 2]
        /\ in_degree' = [i \in Nodes |-> IF i \in Dependents(t) THEN in_degree[i] - 1 ELSE in_degree[i]]
        /\ \E s \in InOrder({i \in Dependents(t) : IsReady(in_degree'[i])}) : queue' = queue \o s
  BY DEF TaskDone
<1>3. completed' = completed + 1 /\ UNCHANGED <<deps, det, region, result, registry, cancels, before>>
  BY DEF TaskDone
<1>4. /\ t \in Nodes /\ status[t] = 1 /\ wave = {t}
      /\ Settled' = Settled \cup {t} /\ t \notin Settled
      /\ \A i \in Nodes : Open(i)' = Open(i) \ Edges(i, {t}) /\ Edges(i, {t}) \in SUBSET Open(i)
  BY <1>1, <1>2, TaskDoneOpen DEF PathExact
<1>5. PathExact'
  <2>1. Cardinality(Settled') = Cardinality(Settled) + 1
    BY <1>1, <1>4, SettledFinite, FS_AddElement
  <2> QED BY <1>1, <1>3, <2>1 DEF PathExact
<1>6. DegreeExact'
  <2> SUFFICES ASSUME NEW i \in Nodes, CountedOnce(i)
               PROVE  in_degree'[i] = Cardinality(Open(i)')
    BY <1>3 DEF DegreeExact, CountedOnce
  <2>1. in_degree[i] = Cardinality(Open(i)) /\ in_degree[i] \in Nat
    BY <1>1 DEF DegreeExact, TypeOK
  <2>2. Cardinality(Open(i)') = Cardinality(Open(i)) - Cardinality(Edges(i, {t}))
        /\ Cardinality(Edges(i, {t})) \in Nat /\ Cardinality(Edges(i, {t})) =< Cardinality(Open(i))
    BY <1>1, <1>4, OpenMinus
  <2>3. CASE Edges(i, {t}) = {}
    <3>1. i \notin Dependents(t) /\ Cardinality(Edges(i, {t})) = 0
      BY <2>3, FS_EmptySet DEF Dependents
    <3> QED BY <1>2, <2>1, <2>2, <3>1
  <2>4. CASE Edges(i, {t}) # {}
    <3>1. PICK d \in Edges(i, {t}) : TRUE
      BY <2>4
    <3>2. Edges(i, {t}) = {d}
      BY <1>1, <3>1 DEF CountedOnce, Edges
    <3>3. Cardinality(Edges(i, {t})) = 1
      BY <3>2, FS_Singleton
    <3>4. i \in Dependents(t)
      BY <2>1, <2>2, <2>4, <3>3 DEF Dependents
    <3> QED BY <1>2, <2>1, <2>2, <3>3, <3>4
  <2> QED BY <2>3, <2>4
<1>7. NothingLost'
  <2> DEFINE New == {i \in Dependents(t) : IsReady(in_degree'[i])}
  <2>1. PICK s \in InOrder(New) : queue' = queue \o s
    BY <1>2
  <2>2. New \subseteq Nodes
    BY DEF Dependents
  <2>3. New \subseteq Ids(s) /\ s \in Seq(Nodes)
    <3> HIDE DEF New
    <3> QED BY <2>1, <2>2, InOrderOnto, InOrderFacts
  <2>4. Ids(queue) \cup Ids(s) \subseteq Ids(queue')
    BY <1>1, <2>1, <2>3, IdsConcat DEF TypeOK
  <2> SUFFICES ASSUME NEW i \in Nodes
               PROVE  /\ status'[i] \notin {1, 3}
                      /\ status'[i] = 0 /\ in_degree'[i] = 0 => i \in Ids(queue')
    BY DEF NothingLost, Ids
  <2>5. CASE i = t
    BY <1>1, <1>2, <1>4, <2>5 DEF TypeOK
  <2>6. CASE i # t
    <3>1. status'[i] = status[i] /\ status[i] \notin {1, 3}
      BY <1>1, <1>2, <1>4, <2>6 DEF TypeOK, NothingLost
    <3>2. CASE i \in Dependents(t)
      BY <2>3, <2>4, <3>1, <3>2 DEF IsReady
    <3>3. CASE i \notin Dependents(t)
      <4>1. in_degree'[i] = in_degree[i] /\ i \notin wave
        BY <1>2, <1>4, <2>6, <3>3
      <4> QED BY <1>1, <2>4, <3>1, <4>1 DEF NothingLost
    <3> QED BY <3>1, <3>2, <3>3
  <2> QED BY <2>5, <2>6
<1>8. ScheduleSafety' /\ (region \notin before)'
  BY <1>1, <1>3 DEF AccountInv, ScheduleSafety, PendingHasReason, ResultExact, CancelIsTotal
<1>9. (before \subseteq Ids(registry) /\ 0 \notin Ids(registry) /\ registry = cancels)'
  BY <1>3 DEF AccountInv, Ids
<1> QED BY <1>1, <1>5, <1>6, <1>7, <1>8, <1>9 DEF AccountInv

\* With a registry that has room for every cancellation, schedule_run keeps its
\* account for every graph, on both paths.
THEOREM AccountInvariant ==
    ASSUME MaxCancels =< MAX_CANCELLED_REGIONS
    PROVE  Spec => []AccountInv
<1>1. Init => AccountInv
  BY InitAccount
<1>2. AccountInv /\ [Next]_vars => AccountInv'
  <2> SUFFICES ASSUME AccountInv, [Next]_vars PROVE AccountInv'
    OBVIOUS
  <2>1. CASE Run
    BY <2>1, ScheduleRunAccount, WaveStartsAccount, WaveEndsAccount, PopAccount, TaskDoneAccount,
       TaskAccount DEF Run
  <2>2. CASE UNCHANGED vars \/ \E r \in Regions : ScheduleCancel(r)
    BY <2>2, OthersAccount
  <2> QED BY <2>1, <2>2 DEF Next
<1> QED BY <1>1, <1>2, PTL DEF Spec

\* "uncompleted tasks either form a dependency cycle or await ...": a run that was
\* not cancelled leaves only tasks with an open prerequisite behind, its result is
\* the number of completed tasks and none is left running, and a cancelled run
\* leaves no task pending, as long as the registry has room for the cancellations.
THEOREM ScheduleIsSafe ==
    ASSUME MaxCancels =< MAX_CANCELLED_REGIONS
    PROVE  Spec => []ScheduleSafety
<1>1. AccountInv => ScheduleSafety
  BY DEF AccountInv
<1> QED BY <1>1, AccountInvariant, PTL


-----------------------------------------------------------------------------
(***************************************************************************)
(* The multi-threaded fiber scheduler.                                     *)
(***************************************************************************)

\* The library's cardinality and the instance's are one operator.
LEMMA MtCard ==
  /\ \A S : MT!Cardinality(S) = Cardinality(S)
  /\ \A S : MT!IsFiniteSet(S) <=> IsFiniteSet(S)
BY DEF MT!Cardinality, Cardinality, MT!IsFiniteSet, IsFiniteSet


MtFrame == <<thread, mt_queue, mt_registry, done, runs, freed, allocated, spawned, handle>>

\* The constants' types.
LEMMA MtNumbers ==
  ASSUME MT!NatVarMtAssumption
  PROVE  /\ N \in Nat \ {0} /\ MaxSpawn \in Nat /\ MaxStarts \in Nat /\ MT_DONE_CAP \in Nat
         /\ IsFiniteSet(Threads) /\ IsFiniteSet(MT!Fibers) /\ Cardinality(MT!Fibers) = MaxSpawn
<1>1. MaxSpawn \in Nat /\ MaxStarts \in Nat /\ MT_DONE_CAP \in Nat /\ IsFiniteSet(Threads)
  BY MtCard DEF MT!NatVarMtAssumption
<1>2. Cardinality(Threads) \in Nat
  BY <1>1, FS_CardinalityType
<1>3. IsFiniteSet(1..MaxSpawn) /\ Cardinality(1..MaxSpawn) = IF 1 > MaxSpawn THEN 0 ELSE MaxSpawn - 1 + 1
  BY <1>1, FS_Interval
<1>4. QED
  BY <1>1, <1>2, <1>3 DEF MT!NatVarMtAssumption, MT!Fibers

\* Steps that change only a client that has no fiber in its hand before or after.
LEMMA MtCallStep ==
  ASSUME MT!NatVarMtAssumption, MT!MtInv, NEW c \in Clients, NEW r \in MT!ClientStates,
         r.pc \notin {"store", "push", "ret"}, client' = [client EXCEPT ![c] = r],
         UNCHANGED MtFrame,
         workers' \in {0, N}, shutdown' \in BOOLEAN, starts' \in 0..MaxStarts,
         given' \in [Clients -> SUBSET (MT!Fibers \X (0..MaxSpawn))]
  PROVE  MT!MtInv'
<1> USE DEF MtFrame
<1>1. \A d \in Clients : d # c => client'[d] = client[d]
  BY DEF MT!MtInv
<1>2. client'[c] = r /\ client' \in [Clients -> MT!ClientStates]
  BY DEF MT!MtInv
<1>3. \A d \in Clients : MT!ClientOK(d)'
  BY <1>1, <1>2 DEF MT!MtInv, MT!ClientOK, MT!InHand
<1>4. MT!OneOwner'
  BY <1>1, <1>2 DEF MT!MtInv, MT!OneOwner, MT!InHand, MT!Busy
<1>5. MT!DoneCountExact'
  <2>1. \A d \in Clients : client'[d].fiber \in 0..MaxSpawn
    BY <1>2 DEF MT!ClientStates
  <2>2. MT!TypeOK'
    BY <2>1 DEF MT!MtInv, MT!DoneCountExact, MT!TypeOK, MT!Handles, MT!Fibers
  <2>3. QED
    BY <2>2 DEF MT!MtInv, MT!DoneCountExact
<1>6. QED
  BY <1>2, <1>3, <1>4, <1>5 DEF MT!MtInv, MT!ThreadOK, MT!QueuedOK, MT!Busy

\* The calls of a client that hand over no fiber: shutdown, join and wait_idle,
\* and the return of a spawn.
LEMMA MtCalls ==
  ASSUME MT!NatVarMtAssumption, MT!MtInv, NEW c \in Clients,
         \/ MT!MtShutdown(c) \/ MT!ShutdownEnds(c) \/ MT!SpawnReturns(c) \/ MT!MtJoin(c) \/ MT!JoinScans(c)
         \/ MT!JoinTests(c) \/ MT!WaitIdle(c) \/ MT!WaitTests(c)
  PROVE  MT!MtInv'
<1> DEFINE G == SUBSET (MT!Fibers \X (0..MaxSpawn))
<1>1. /\ client \in [Clients -> MT!ClientStates] /\ given \in [Clients -> G]
      /\ workers \in {0, N} /\ shutdown \in BOOLEAN /\ starts \in 0..MaxStarts
      /\ Len(mt_registry) \in 0..MaxSpawn
  BY MtNumbers DEF MT!MtInv, MT!DoneCountExact, MT!TypeOK
<1>2. client[c] \in MT!ClientStates
  BY <1>1
<1>3. MT!Idle \in MT!ClientStates
  BY MtNumbers DEF MT!Idle, MT!ClientStates
<1>4. ASSUME MT!Return(c), UNCHANGED MtFrame,
             workers' \in {0, N}, shutdown' \in BOOLEAN, starts' \in 0..MaxStarts, given' \in [Clients -> G]
      PROVE  MT!MtInv'
  BY <1>3, <1>4, MtCallStep DEF MT!Return, MT!Idle
<1>5. ASSUME NEW p, MT!Goto(c, p), p \in {"sleep", "scan", "test", "wait"}, UNCHANGED MtFrame,
             workers' \in {0, N}, shutdown' \in BOOLEAN, starts' \in 0..MaxStarts, given' \in [Clients -> G]
      PROVE  MT!MtInv'
  <2> DEFINE r == [client[c] EXCEPT !.pc = p]
  <2>1. r \in MT!ClientStates /\ r.pc = p
    BY <1>2, <1>5 DEF MT!ClientStates
  <2>2. client' = [client EXCEPT ![c] = r]
    BY <1>1, <1>5 DEF MT!Goto
  <2> HIDE DEF r
  <2>3. QED
    BY <1>5, <2>1, <2>2, MtCallStep
<1>6. CASE MT!MtShutdown(c)
  BY <1>1, <1>5, <1>6 DEF MT!MtShutdown, MtFrame
<1>7. CASE MT!ShutdownEnds(c)
  BY <1>1, <1>4, <1>7 DEF MT!ShutdownEnds, MtFrame
<1>8. CASE MT!SpawnReturns(c)
  <2>1. client[c].fiber \in MT!Fibers
    BY <1>8 DEF MT!SpawnReturns, MT!Is, MT!MtInv, MT!ClientOK
  <2>2. PICK h \in MT!ReadHandle(client[c].fiber) :
             given' = [given EXCEPT ![c] = @ \cup {<<client[c].fiber, h>>}]
    BY <1>8 DEF MT!SpawnReturns
  <2>3. h \in 0..MaxSpawn
    BY <2>1, MtNumbers DEF MT!ReadHandle, MT!MtInv, MT!DoneCountExact, MT!TypeOK, MT!Handles, MT!Fibers
  <2>4. given' \in [Clients -> G]
    BY <1>1, <2>1, <2>2, <2>3
  <2>5. QED
    BY <1>1, <1>4, <1>8, <2>4 DEF MT!SpawnReturns, MtFrame
<1>9. CASE MT!MtJoin(c)
  <2>1. PICK g \in given[c] : client' = [client EXCEPT ![c] = [pc |-> "scan", fiber |-> 0, reg |-> g[2]]]
    BY <1>9 DEF MT!MtJoin
  <2>2. g[2] \in 0..MaxSpawn
    BY <1>1, <2>1
  <2>3. [pc |-> "scan", fiber |-> 0, reg |-> g[2]] \in MT!ClientStates
    BY <2>2, MtNumbers DEF MT!ClientStates
  <2>4. QED
    BY <1>1, <1>9, <2>1, <2>3, MtCallStep DEF MT!MtJoin, MtFrame
<1>10. CASE MT!JoinScans(c)
  BY <1>1, <1>4, <1>5, <1>10 DEF MT!JoinScans, MtFrame
<1>11. CASE MT!JoinTests(c)
  BY <1>1, <1>4, <1>5, <1>11 DEF MT!JoinTests, MtFrame
<1>12. CASE MT!WaitIdle(c)
  <2>1. [pc |-> "idle?", fiber |-> 0, reg |-> Len(mt_registry)] \in MT!ClientStates
    BY <1>1, MtNumbers DEF MT!ClientStates
  <2>2. QED
    BY <1>1, <1>12, <2>1, MtCallStep DEF MT!WaitIdle, MtFrame
<1>13. CASE MT!WaitTests(c)
  BY <1>1, <1>4, <1>5, <1>13 DEF MT!WaitTests, MtFrame
<1>14. QED
  BY <1>6, <1>7, <1>8, <1>9, <1>10, <1>11, <1>12, <1>13

\* The fibers that have run and the workers that have not recorded theirs yet
\* make up g_mt_done.
Ran == {f \in MT!Fibers : runs[f] > 0}
Recording == {t \in Threads : thread[t].pc = "record"}

\* The sets that are counted are finite.
LEMMA MtSets ==
  ASSUME MT!NatVarMtAssumption
  PROVE  /\ IsFiniteSet(Ran) /\ Cardinality(Ran) \in 0..MaxSpawn
         /\ IsFiniteSet(Recording) /\ Cardinality(Recording) \in Nat
<1>1. Ran \in SUBSET MT!Fibers /\ Recording \in SUBSET Threads
  BY DEF Ran, Recording
<1>2. QED
  BY <1>1, MtNumbers, FS_Subset, FS_CardinalityType

\* What starting, storing and pushing leave alone.
LEMMA MtStartStep ==
  ASSUME MT!NatVarMtAssumption, MT!MtInv, NEW c \in Clients, MT!MtStart(c)
  PROVE  MT!MtInv'
<1>1. PICK new \in SUBSET {t \in Threads : thread[t] = MT!NoThread} :
         thread' = [t \in Threads |-> IF t \in new THEN [pc |-> "top", fiber |-> 0] ELSE thread[t]]
  BY DEF MT!MtStart
<1>2. /\ thread' \in [Threads -> MT!ThreadStates]
      /\ \A t \in Threads : \/ thread'[t] = thread[t]
                            \/ thread'[t] = [pc |-> "top", fiber |-> 0] /\ ~MT!Busy(t)
  <2>1. [pc |-> "top", fiber |-> 0] \in MT!ThreadStates
    BY MtNumbers DEF MT!ThreadStates
  <2>2. \A t \in Threads : thread[t] \in MT!ThreadStates
    BY DEF MT!MtInv
  <2>3. \A t \in new : thread[t].pc = "none"
    BY DEF MT!NoThread
  <2>4. \A t \in Threads : thread'[t] = IF t \in new THEN [pc |-> "top", fiber |-> 0] ELSE thread[t]
    BY <1>1
  <2>5. thread' \in [Threads -> MT!ThreadStates]
    BY <1>1, <2>1, <2>2
  <2>6. QED
    BY <2>3, <2>4, <2>5 DEF MT!Busy
<1>3. \A t \in Threads : /\ MT!Busy(t)' => MT!Busy(t) /\ thread'[t] = thread[t]
                         /\ thread'[t].pc = "record" <=> thread[t].pc = "record"
  BY <1>2 DEF MT!Busy
<1>4. Len(mt_queue') = 0 /\ mt_queue' = <<>>
  BY DEF MT!MtStart
<1>5. UNCHANGED <<spawned, allocated, handle, freed, mt_registry, done, runs, client, given>>
  BY DEF MT!MtStart
<1>6. MT!OneOwner'
  <2>1. \A k : k \notin 1..Len(mt_queue')
    BY <1>4
  <2>2. QED
    BY <1>3, <1>5, <2>1 DEF MT!MtInv, MT!OneOwner, MT!InHand
<1>7. \A d \in Clients : MT!ClientOK(d)'
  BY <1>5 DEF MT!MtInv, MT!ClientOK, MT!InHand
<1>8. \A t \in Threads : MT!ThreadOK(t)'
  BY <1>2, <1>3, <1>5 DEF MT!MtInv, MT!ThreadOK, MT!Busy
<1>9. MT!DoneCountExact'
  <2>1. \A t \in Threads : thread'[t].fiber \in 0..MaxSpawn
    BY <1>2 DEF MT!ThreadStates
  <2>2. workers' \in {0, N} /\ shutdown' \in BOOLEAN /\ starts' \in 0..MaxStarts
    <3>1. workers' = N /\ shutdown' = FALSE /\ starts' = starts + 1 /\ starts < MaxStarts
      BY DEF MT!MtStart
    <3>2. starts \in 0..MaxStarts
      BY DEF MT!MtInv, MT!DoneCountExact, MT!TypeOK
    <3>3. QED
      <4>1. workers' \in {0, N}
        BY <3>1
      <4>2. shutdown' \in BOOLEAN
        BY <3>1
      <4>3. starts' \in 0..MaxStarts
        BY <3>1, <3>2, MtNumbers
      <4>4. QED
        BY <4>1, <4>2, <4>3
  <2>3. MT!TypeOK'
    BY <1>4, <1>5, <2>1, <2>2 DEF MT!MtInv, MT!DoneCountExact, MT!TypeOK, MT!Handles, MT!Fibers
  <2>4. {t \in Threads : thread'[t].pc = "record"} = {t \in Threads : thread[t].pc = "record"}
    <3>1. \A t \in Threads : thread'[t].pc = "record" <=> thread[t].pc = "record"
      BY <1>3
    <3>2. QED
      BY <3>1
  <2>5. QED
    BY <1>5, <2>3, <2>4 DEF MT!MtInv, MT!DoneCountExact
<1>10. QED
  BY <1>2, <1>4, <1>5, <1>6, <1>7, <1>8, <1>9 DEF MT!MtInv

\* natvar_mt_spawn takes a fiber nobody has seen.
LEMMA MtSpawnLoads ==
  ASSUME MT!NatVarMtAssumption, MT!MtInv, NEW c \in Clients, MT!SpawnLoads(c)
  PROVE  MT!MtInv'
<1> PICK n : n = allocated + 1
  OBVIOUS
<1> DEFINE r == [pc |-> "store", fiber |-> n, reg |-> spawned]
<1>1. /\ allocated \in Nat /\ n \in 1..MaxSpawn /\ n > allocated /\ allocated' = n
      /\ spawned \in 0..allocated /\ client' = [client EXCEPT ![c] = r]
      /\ UNCHANGED <<workers, shutdown, starts, spawned, handle, freed, mt_queue, mt_registry, done, runs, given, thread>>
  BY MtNumbers DEF MT!SpawnLoads, MT!MtInv, MT!DoneCountExact, MT!TypeOK
<1>2. r \in MT!ClientStates
  BY <1>1, MtNumbers DEF MT!ClientStates
<1> HIDE DEF r
<1>3. r.pc = "store" /\ r.fiber = n /\ r.reg = spawned
  BY DEF r
<1>4. /\ client' \in [Clients -> MT!ClientStates] /\ client'[c] = r
      /\ \A d \in Clients : d # c => client'[d] = client[d]
  BY <1>1, <1>2 DEF MT!MtInv
<1>5. /\ n \in MT!Fibers /\ runs[n] = 0 /\ n \notin freed
      /\ \A d \in Clients : MT!InHand(d) => client[d].fiber # n
      /\ \A t \in Threads : MT!Busy(t) => thread[t].fiber # n
      /\ \A k \in 1..Len(mt_queue) : mt_queue[k] # n
  BY <1>1 DEF MT!MtInv, MT!ClientOK, MT!ThreadOK, MT!QueuedOK, MT!Fibers
<1>6. \A d \in Clients : MT!ClientOK(d)'
  BY <1>1, <1>3, <1>4, <1>5 DEF MT!MtInv, MT!ClientOK, MT!InHand
<1>7. \A t \in Threads : MT!ThreadOK(t)'
  BY <1>1 DEF MT!MtInv, MT!ThreadOK, MT!Busy
<1>8. MT!OneOwner'
  BY <1>1, <1>3, <1>4, <1>5 DEF MT!MtInv, MT!OneOwner, MT!InHand, MT!Busy
<1>9. MT!DoneCountExact'
  <2>1. \A d \in Clients : client'[d].fiber \in 0..MaxSpawn
    BY <1>4 DEF MT!ClientStates
  <2>2. MT!TypeOK'
    BY <1>1, <2>1 DEF MT!MtInv, MT!DoneCountExact, MT!TypeOK, MT!Handles, MT!Fibers
  <2>3. QED
    BY <1>1, <2>2 DEF MT!MtInv, MT!DoneCountExact
<1>10. QED
  BY <1>1, <1>4, <1>6, <1>7, <1>8, <1>9 DEF MT!MtInv, MT!QueuedOK, MT!Fibers

\* It stores the handle, which no other spawn can have given to its fiber.
LEMMA MtSpawnStores ==
  ASSUME MT!NatVarMtAssumption, MT!MtInv, NEW c \in Clients, MT!SpawnStores(c)
  PROVE  MT!MtInv'
<1> PICK f : f = client[c].fiber
  OBVIOUS
<1> PICK h : h = client[c].reg + 1
  OBVIOUS
<1> DEFINE r == [client[c] EXCEPT !.pc = "push"]
<1>1. /\ f \in 1..allocated /\ allocated \in 0..MaxSpawn /\ h \in 1..f /\ h \in MT!Handles /\ f \in MT!Fibers
      /\ client[c] \in MT!ClientStates /\ MT!InHand(c) /\ f \notin freed /\ runs[f] = 0
  BY MtNumbers, SMTT(90) DEF MT!SpawnStores, MT!Is, MT!MtInv, MT!ClientOK, MT!InHand, MT!DoneCountExact, MT!TypeOK, MT!Handles, MT!Fibers, MT!ClientStates
<1>2. r \in MT!ClientStates /\ r.pc = "push" /\ r.fiber = f
  BY <1>1 DEF MT!ClientStates
<1>3. /\ client' = [client EXCEPT ![c] = r] /\ spawned' = h /\ handle' = [handle EXCEPT ![f] = h]
      /\ UNCHANGED <<workers, shutdown, starts, allocated, freed, mt_queue, mt_registry, done, runs, given, thread>>
  BY DEF MT!SpawnStores, MT!Goto, MT!MtInv
<1> HIDE DEF r
<1>4. /\ client' \in [Clients -> MT!ClientStates] /\ client'[c] = r
      /\ \A d \in Clients : d # c => client'[d] = client[d]
  BY <1>2, <1>3 DEF MT!MtInv
<1>5. \A g \in MT!Fibers : handle[g] \in MT!Handles \/ g = f => handle'[g] \in MT!Handles
  BY <1>1, <1>3 DEF MT!MtInv, MT!DoneCountExact, MT!TypeOK
<1>6. \A d \in Clients : MT!ClientOK(d)'
  BY <1>1, <1>2, <1>3, <1>4, <1>5 DEF MT!MtInv, MT!ClientOK, MT!InHand, MT!DoneCountExact, MT!TypeOK, MT!Fibers
<1>7. \A t \in Threads : MT!ThreadOK(t)'
  BY <1>1, <1>3, <1>5 DEF MT!MtInv, MT!ThreadOK, MT!Busy, MT!Fibers
<1>8. \A k \in 1..Len(mt_queue') : MT!QueuedOK(k)'
  BY <1>1, <1>3, <1>5 DEF MT!MtInv, MT!QueuedOK, MT!Fibers
<1>9. MT!OneOwner'
  BY <1>1, <1>2, <1>3, <1>4 DEF MT!MtInv, MT!OneOwner, MT!InHand, MT!Busy
<1>10. MT!DoneCountExact'
  <2>1. \A d \in Clients : client'[d].fiber \in 0..MaxSpawn
    BY <1>4 DEF MT!ClientStates
  <2>2. MT!TypeOK'
    BY <1>1, <1>3, <2>1, SMTT(90) DEF MT!MtInv, MT!DoneCountExact, MT!TypeOK, MT!Handles, MT!Fibers
  <2>3. QED
    BY <1>3, <2>2 DEF MT!MtInv, MT!DoneCountExact
<1>11. QED
  BY <1>1, <1>3, <1>4, <1>6, <1>7, <1>8, <1>9, <1>10 DEF MT!MtInv

\* It queues the fiber: the queue owns it from here.
LEMMA MtSpawnPushes ==
  ASSUME MT!NatVarMtAssumption, MT!MtInv, NEW c \in Clients, MT!SpawnPushes(c)
  PROVE  MT!MtInv'
<1> PICK f : f = client[c].fiber
  OBVIOUS
<1> PICK n : n = Len(mt_queue)
  OBVIOUS
<1> DEFINE r == [client[c] EXCEPT !.pc = "ret"]
<1>1. /\ f \in 1..allocated /\ f \in MT!Fibers /\ f \notin freed /\ runs[f] = 0 /\ handle[f] \in MT!Handles
      /\ client[c] \in MT!ClientStates /\ MT!InHand(c)
      /\ \A k \in 1..n : mt_queue[k] # f
      /\ \A d \in Clients : MT!InHand(d) /\ d # c => client[d].fiber # f
      /\ \A t \in Threads : MT!Busy(t) => thread[t].fiber # f
  BY DEF MT!SpawnPushes, MT!Is, MT!MtInv, MT!ClientOK, MT!InHand, MT!DoneCountExact, MT!TypeOK, MT!Fibers, MT!OneOwner
<1>2. r \in MT!ClientStates /\ r.pc = "ret" /\ r.fiber = f
  BY <1>1 DEF MT!ClientStates
<1>3. /\ client' = [client EXCEPT ![c] = r] /\ mt_queue' = Append(mt_queue, f)
      /\ UNCHANGED <<workers, shutdown, starts, spawned, allocated, handle, freed, mt_registry, done, runs, given, thread>>
  BY DEF MT!SpawnPushes, MT!Goto, MT!MtInv
<1> HIDE DEF r
<1>4. /\ client' \in [Clients -> MT!ClientStates] /\ client'[c] = r
      /\ \A d \in Clients : d # c => client'[d] = client[d]
  BY <1>2, <1>3 DEF MT!MtInv
<1>5. /\ mt_queue \in Seq(MT!Fibers) /\ n \in Nat /\ mt_queue' \in Seq(MT!Fibers) /\ Len(mt_queue') = n + 1
      /\ mt_queue'[n + 1] = f /\ \A k \in 1..n : mt_queue'[k] = mt_queue[k]
  <2>1. mt_queue \in Seq(MT!Fibers)
    BY DEF MT!MtInv, MT!DoneCountExact, MT!TypeOK
  <2>2. QED
    BY <1>1, <1>3, <2>1, AppendProperties
<1>6. \A d \in Clients : MT!ClientOK(d)'
  BY <1>1, <1>2, <1>3, <1>4 DEF MT!MtInv, MT!ClientOK, MT!InHand
<1>7. \A k \in 1..Len(mt_queue') : MT!QueuedOK(k)'
  <2>1. \A k \in 1..Len(mt_queue') : k \in 1..n \/ k = n + 1
    BY <1>5
  <2>2. QED
    BY <1>1, <1>3, <1>5, <2>1 DEF MT!MtInv, MT!QueuedOK
<1>8. MT!OneOwner'
  <2>1. \A k \in 1..Len(mt_queue') : k \in 1..n \/ k = n + 1
    BY <1>5
  <2>2. \A d \in Clients : MT!InHand(d)' => MT!InHand(d) /\ d # c /\ client'[d] = client[d]
    BY <1>2, <1>4 DEF MT!InHand
  <2>3. \A k, l \in 1..Len(mt_queue') : mt_queue'[k] = mt_queue'[l] => k = l
    BY <1>1, <1>5, <2>1 DEF MT!MtInv, MT!OneOwner
  <2>4. \A k \in 1..Len(mt_queue') :
          /\ \A d \in Clients : MT!InHand(d)' => client'[d].fiber # mt_queue'[k]
          /\ \A t \in Threads : MT!Busy(t)' => thread'[t].fiber # mt_queue'[k]
    BY <1>1, <1>3, <1>5, <2>1, <2>2 DEF MT!MtInv, MT!OneOwner, MT!Busy
  <2>5. QED
    BY <1>3, <2>2, <2>3, <2>4 DEF MT!MtInv, MT!OneOwner, MT!Busy
<1>9. MT!DoneCountExact'
  <2>1. \A d \in Clients : client'[d].fiber \in 0..MaxSpawn
    BY <1>4 DEF MT!ClientStates
  <2>2. MT!TypeOK'
    BY <1>3, <1>5, <2>1 DEF MT!MtInv, MT!DoneCountExact, MT!TypeOK, MT!Handles, MT!Fibers
  <2>3. QED
    BY <1>3, <2>2 DEF MT!MtInv, MT!DoneCountExact
<1>10. QED
  BY <1>3, <1>4, <1>6, <1>7, <1>8, <1>9 DEF MT!MtInv, MT!ThreadOK, MT!Busy

\* A worker that stays without a fiber.
LEMMA MtIdleWorker ==
  ASSUME MT!NatVarMtAssumption, MT!MtInv, NEW t \in Threads, ~MT!Busy(t), NEW r \in MT!ThreadStates,
         r.pc \in {"none", "top", "pop"}, r.fiber = 0, thread' = [thread EXCEPT ![t] = r],
         UNCHANGED <<workers, shutdown, starts, spawned, allocated, handle, freed,
                     mt_queue, mt_registry, done, runs, client, given>>
  PROVE  MT!MtInv'
<1>1. /\ thread' \in [Threads -> MT!ThreadStates] /\ thread'[t] = r
      /\ \A u \in Threads : u # t => thread'[u] = thread[u]
  BY DEF MT!MtInv
<1>2. \A u \in Threads : /\ MT!Busy(u)' => MT!Busy(u) /\ thread'[u] = thread[u]
                         /\ thread'[u].pc = "record" <=> thread[u].pc = "record"
  BY <1>1 DEF MT!Busy
<1>3. \A u \in Threads : MT!ThreadOK(u)'
  BY <1>1, <1>2 DEF MT!MtInv, MT!ThreadOK, MT!Busy
<1>4. MT!OneOwner'
  BY <1>2 DEF MT!MtInv, MT!OneOwner, MT!InHand
<1>5. MT!DoneCountExact'
  <2>1. \A u \in Threads : thread'[u].fiber \in 0..MaxSpawn
    BY <1>1 DEF MT!ThreadStates
  <2>2. MT!TypeOK'
    BY <2>1 DEF MT!MtInv, MT!DoneCountExact, MT!TypeOK, MT!Handles, MT!Fibers
  <2>3. \A u \in Threads : thread'[u].pc = "record" <=> thread[u].pc = "record"
    BY <1>2
  <2>4. {u \in Threads : thread'[u].pc = "record"} = {u \in Threads : thread[u].pc = "record"}
    BY <2>3
  <2>5. QED
    BY <2>2, <2>4 DEF MT!MtInv, MT!DoneCountExact
<1>6. QED
  BY <1>1, <1>3, <1>4, <1>5 DEF MT!MtInv, MT!ClientOK, MT!QueuedOK, MT!InHand

\* A worker at the top of its loop looks at the shutdown flag.
LEMMA MtWorkerTop ==
  ASSUME MT!NatVarMtAssumption, MT!MtInv, NEW t \in Threads, MT!WorkerTop(t)
  PROVE  MT!MtInv'
<1> DEFINE r == IF shutdown THEN MT!NoThread ELSE [thread[t] EXCEPT !.pc = "pop"]
<1>1. /\ thread \in [Threads -> MT!ThreadStates] /\ thread[t] \in MT!ThreadStates
      /\ thread[t].pc = "top" /\ ~MT!Busy(t) /\ thread[t].fiber = 0
  BY DEF MT!WorkerTop, MT!MtInv, MT!ThreadOK, MT!Busy
<1>2. thread' = [thread EXCEPT ![t] = r]
  BY <1>1 DEF MT!WorkerTop
<1>3. r \in MT!ThreadStates /\ r.pc \in {"none", "top", "pop"} /\ r.fiber = 0
  BY <1>1, MtNumbers DEF MT!NoThread, MT!ThreadStates
<1> HIDE DEF r
<1>4. QED
  BY <1>1, <1>2, <1>3, MtIdleWorker DEF MT!WorkerTop

\* It takes a fiber, which leaves the queue, or finds none.
LEMMA MtWorkerPops ==
  ASSUME MT!NatVarMtAssumption, MT!MtInv, NEW t \in Threads, MT!WorkerPops(t)
  PROVE  MT!MtInv'
<1>1. /\ thread \in [Threads -> MT!ThreadStates] /\ thread[t] \in MT!ThreadStates
      /\ thread[t].pc = "pop" /\ ~MT!Busy(t) /\ thread[t].fiber = 0
      /\ UNCHANGED <<workers, shutdown, starts, spawned, allocated, handle, freed,
                      mt_registry, done, runs, client, given>>
  BY DEF MT!WorkerPops, MT!MtInv, MT!ThreadOK, MT!Busy
<1>2. CASE mt_queue = <<>>
  <2> DEFINE r == [thread[t] EXCEPT !.pc = "top"]
  <2>1. r \in MT!ThreadStates /\ r.pc = "top" /\ r.fiber = 0
    BY <1>1 DEF MT!ThreadStates
  <2>2. thread' = [thread EXCEPT ![t] = r] /\ UNCHANGED mt_queue
    BY <1>1, <1>2 DEF MT!WorkerPops
  <2> HIDE DEF r
  <2>3. QED
    BY <1>1, <2>1, <2>2, MtIdleWorker
<1>3. CASE mt_queue # <<>>
  <2> PICK n : n = Len(mt_queue)
    OBVIOUS
  <2> PICK f : f = mt_queue[1]
    OBVIOUS
  <2> DEFINE r == [pc |-> "run", fiber |-> f]
  <2>1. /\ mt_queue \in Seq(MT!Fibers) /\ n \in Nat \ {0} /\ Head(mt_queue) = f
        /\ mt_queue' \in Seq(MT!Fibers) /\ Len(mt_queue') = n - 1
        /\ \A k \in 1..(n - 1) : mt_queue'[k] = mt_queue[k + 1]
    <3>1. mt_queue \in Seq(MT!Fibers)
      BY DEF MT!MtInv, MT!DoneCountExact, MT!TypeOK
    <3>2. mt_queue' = Tail(mt_queue)
      BY <1>3 DEF MT!WorkerPops, MT!Popped
    <3>3. n \in Nat \ {0}
      BY <1>3, <3>1, EmptySeq
    <3>4. QED
      BY <1>3, <3>1, <3>2, <3>3, HeadTailProperties
  <2>2. /\ f \in 1..allocated /\ f \in MT!Fibers /\ f \notin freed /\ handle[f] \in MT!Handles /\ runs[f] = 0
        /\ \A u \in Threads : MT!Busy(u) => thread[u].fiber # f
        /\ \A d \in Clients : MT!InHand(d) => client[d].fiber # f
        /\ \A k \in 2..n : mt_queue[k] # f
    <3>1. 1 \in 1..n
      BY <2>1
    <3>2. \A k \in 2..n : k \in 1..n /\ k # 1
      BY <2>1
    <3>3. f \in MT!Fibers
      BY <2>1, <3>1
    <3>4. QED
      BY <3>1, <3>2, <3>3 DEF MT!MtInv, MT!QueuedOK, MT!OneOwner
  <2>3. thread' = [thread EXCEPT ![t] = r]
    BY <1>3, <2>1 DEF MT!WorkerPops
  <2>4. r \in MT!ThreadStates
    BY <2>2 DEF MT!ThreadStates, MT!Fibers
  <2>5. r.pc = "run" /\ r.fiber = f
    OBVIOUS
  <2> HIDE DEF r
  <2>6. /\ thread' \in [Threads -> MT!ThreadStates] /\ thread'[t] = r
        /\ \A u \in Threads : u # t => thread'[u] = thread[u]
    BY <1>1, <2>3, <2>4
  <2>7. \A u \in Threads : MT!ThreadOK(u)'
    BY <1>1, <2>2, <2>5, <2>6 DEF MT!MtInv, MT!ThreadOK, MT!Busy
  <2>8. \A k \in 1..Len(mt_queue') : k + 1 \in 2..n /\ k + 1 \in 1..n /\ mt_queue'[k] = mt_queue[k + 1]
    BY <2>1
  <2>9. \A k \in 1..Len(mt_queue') : MT!QueuedOK(k)'
    BY <1>1, <2>1, <2>8 DEF MT!MtInv, MT!QueuedOK
  <2>10. MT!OneOwner'
    <3>1. \A k, l \in 1..Len(mt_queue') : mt_queue'[k] = mt_queue'[l] => k = l
      <4>1. \A k, l \in 1..Len(mt_queue') : mt_queue'[k] = mt_queue'[l] => k + 1 = l + 1
        BY <2>1, <2>8 DEF MT!MtInv, MT!OneOwner
      <4>2. QED
        BY <2>1, <4>1
    <3>2. \A k \in 1..Len(mt_queue') :
             /\ \A d \in Clients : MT!InHand(d)' => client'[d].fiber # mt_queue'[k]
             /\ \A u \in Threads : MT!Busy(u)' => thread'[u].fiber # mt_queue'[k]
      <4>1. \A k \in 1..Len(mt_queue') : mt_queue'[k] # f
        BY <2>1, <2>2, <2>8
      <4>2. ASSUME NEW k \in 1..Len(mt_queue'), NEW d \in Clients, MT!InHand(d)' PROVE client'[d].fiber # mt_queue'[k]
        BY <1>1, <2>8, <4>2 DEF MT!MtInv, MT!OneOwner, MT!InHand
      <4>3. ASSUME NEW k \in 1..Len(mt_queue'), NEW u \in Threads, MT!Busy(u)' PROVE thread'[u].fiber # mt_queue'[k]
        BY <2>5, <2>6, <2>8, <4>1, <4>3 DEF MT!MtInv, MT!OneOwner, MT!Busy
      <4>4. QED
        BY <4>2, <4>3
    <3>3. \A u, v \in Threads : MT!Busy(u)' /\ MT!Busy(v)' /\ thread'[u].fiber = thread'[v].fiber => u = v
      BY <2>2, <2>5, <2>6 DEF MT!MtInv, MT!OneOwner, MT!Busy
    <3>4. \A d \in Clients, u \in Threads : MT!InHand(d)' /\ MT!Busy(u)' => client'[d].fiber # thread'[u].fiber
      BY <1>1, <2>2, <2>5, <2>6 DEF MT!MtInv, MT!OneOwner, MT!Busy, MT!InHand
    <3>5. QED
      BY <1>1, <3>1, <3>2, <3>3, <3>4 DEF MT!MtInv, MT!OneOwner, MT!InHand
  <2>11. MT!DoneCountExact'
    <3>1. \A u \in Threads : thread'[u].fiber \in 0..MaxSpawn
      BY <2>6 DEF MT!ThreadStates
    <3>2. MT!TypeOK'
      BY <1>1, <2>1, <3>1 DEF MT!MtInv, MT!DoneCountExact, MT!TypeOK, MT!Handles, MT!Fibers
    <3>3. \A u \in Threads : thread'[u].pc = "record" <=> thread[u].pc = "record"
      BY <1>1, <2>5, <2>6
    <3>4. {u \in Threads : thread'[u].pc = "record"} = {u \in Threads : thread[u].pc = "record"}
      BY <3>3
    <3>5. QED
      BY <1>1, <3>2, <3>4 DEF MT!MtInv, MT!DoneCountExact
  <2>12. QED
    BY <1>1, <2>6, <2>7, <2>9, <2>10, <2>11 DEF MT!MtInv, MT!ClientOK, MT!InHand
<1>4. QED
  BY <1>2, <1>3

\* One more element in a finite set.
LEMMA OneMore ==
  ASSUME NEW S, IsFiniteSet(S), NEW x, x \notin S
  PROVE  Cardinality(S \cup {x}) = Cardinality(S) + 1 /\ Cardinality(S) \in Nat
BY FS_AddElement, FS_CardinalityType

\* It runs the body: the fiber has run and is not yet recorded.
LEMMA MtWorkerRuns ==
  ASSUME MT!NatVarMtAssumption, MT!MtInv, NEW t \in Threads, MT!WorkerRuns(t)
  PROVE  MT!MtInv'
<1> PICK f : f = thread[t].fiber
  OBVIOUS
<1> DEFINE r == [thread[t] EXCEPT !.pc = "record"]
<1>1. /\ thread[t] \in MT!ThreadStates /\ thread[t].pc = "run" /\ MT!Busy(t)
      /\ f \in 1..allocated /\ f \in MT!Fibers /\ runs[f] = 0 /\ f \notin freed
      /\ UNCHANGED <<workers, shutdown, starts, spawned, allocated, handle, freed,
                      mt_queue, mt_registry, done, client, given>>
  BY DEF MT!WorkerRuns, MT!MtInv, MT!ThreadOK, MT!Busy, MT!DoneCountExact, MT!TypeOK, MT!Fibers
<1>2. r \in MT!ThreadStates /\ r.pc = "record" /\ r.fiber = f
  BY <1>1 DEF MT!ThreadStates
<1>3. thread' = [thread EXCEPT ![t] = r]
  BY DEF MT!WorkerRuns
<1> HIDE DEF r
<1>4. /\ thread' \in [Threads -> MT!ThreadStates] /\ thread'[t] = r
      /\ \A u \in Threads : u # t => thread'[u] = thread[u]
  BY <1>2, <1>3 DEF MT!MtInv
<1>5. runs' \in [MT!Fibers -> 0..MaxSpawn] /\ runs'[f] = 1 /\ \A g \in MT!Fibers : g # f => runs'[g] = runs[g]
  <2>1. runs \in [MT!Fibers -> 0..MaxSpawn] /\ 1 \in 0..MaxSpawn
    BY <1>1, MtNumbers DEF MT!MtInv, MT!DoneCountExact, MT!TypeOK, MT!Fibers
  <2>2. runs' = [runs EXCEPT ![f] = 1]
    BY <1>1, <2>1 DEF MT!WorkerRuns
  <2>3. QED
    BY <1>1, <2>1, <2>2
<1>6. \A u \in Threads : MT!ThreadOK(u)'
  <2>1. ASSUME NEW u \in Threads, u # t, MT!Busy(u)
        PROVE  thread[u].fiber \in MT!Fibers /\ thread[u].fiber # f
    BY <1>1, <2>1 DEF MT!MtInv, MT!ThreadOK, MT!OneOwner, MT!Fibers, MT!DoneCountExact, MT!TypeOK
  <2>2. QED
    BY <1>1, <1>2, <1>4, <1>5, <2>1 DEF MT!MtInv, MT!ThreadOK, MT!Busy
<1>7. \A d \in Clients : MT!ClientOK(d)'
  BY <1>1, <1>5 DEF MT!MtInv, MT!ClientOK, MT!InHand, MT!OneOwner, MT!Fibers, MT!DoneCountExact, MT!TypeOK
<1>8. \A k \in 1..Len(mt_queue') : MT!QueuedOK(k)'
  <2>1. \A k \in 1..Len(mt_queue) : mt_queue[k] # f /\ mt_queue[k] \in MT!Fibers
    BY <1>1 DEF MT!MtInv, MT!OneOwner, MT!DoneCountExact, MT!TypeOK
  <2>2. QED
    BY <1>1, <1>5, <2>1 DEF MT!MtInv, MT!QueuedOK
<1>9. MT!OneOwner'
  BY <1>1, <1>2, <1>4 DEF MT!MtInv, MT!OneOwner, MT!InHand, MT!Busy
<1>10. MT!DoneCountExact'
  <2>1. \A u \in Threads : thread'[u].fiber \in 0..MaxSpawn
    BY <1>4 DEF MT!ThreadStates
  <2>2. MT!TypeOK'
    BY <1>1, <1>5, <2>1 DEF MT!MtInv, MT!DoneCountExact, MT!TypeOK, MT!Handles, MT!Fibers
  <2>3. {g \in MT!Fibers : runs'[g] > 0} = Ran \cup {f} /\ f \notin Ran
    <3>1. f \notin Ran
      BY <1>1, <1>5 DEF Ran
    <3>2. \A g \in MT!Fibers : runs'[g] > 0 <=> (g \in Ran \/ g = f)
      BY <1>1, <1>5 DEF Ran
    <3>3. f \in MT!Fibers /\ Ran \subseteq MT!Fibers
      BY <1>1, <1>5 DEF Ran
    <3>4. QED
      BY <3>1, <3>2, <3>3
  <2>4. {u \in Threads : thread'[u].pc = "record"} = Recording \cup {t} /\ t \notin Recording
    BY <1>1, <1>2, <1>4 DEF Recording
  <2>5. /\ Cardinality(Ran \cup {f}) = Cardinality(Ran) + 1 /\ Cardinality(Ran) \in Nat
        /\ Cardinality(Recording \cup {t}) = Cardinality(Recording) + 1 /\ Cardinality(Recording) \in Nat
    BY <2>3, <2>4, MtSets, OneMore
  <2>6. done = Cardinality(Ran) - Cardinality(Recording)
    BY MtCard DEF MT!MtInv, MT!DoneCountExact, Ran, Recording
  <2>7. done' = Cardinality({g \in MT!Fibers : runs'[g] > 0}) - Cardinality({u \in Threads : thread'[u].pc = "record"})
    <3> DEFINE R == Cardinality(Ran) Q == Cardinality(Recording)
    <3>1. /\ Cardinality({g \in MT!Fibers : runs'[g] > 0}) = R + 1
          /\ Cardinality({u \in Threads : thread'[u].pc = "record"}) = Q + 1
      BY <2>3, <2>4, <2>5
    <3>2. R \in Nat /\ Q \in Nat /\ done' = R - Q
      BY <1>1, <2>5, <2>6
    <3> HIDE DEF R, Q
    <3>3. (R + 1) - (Q + 1) = R - Q
      BY <3>2
    <3>4. QED
      BY <3>1, <3>2, <3>3
  <2>8. QED
    BY <1>1, <2>2, <2>7, MtCard DEF MT!MtInv, MT!DoneCountExact
<1>11. QED
  <2>1. \A g \in MT!Fibers : runs'[g] \in {0, 1} /\ (g > allocated' => runs'[g] = 0)
    <3>1. \A g \in MT!Fibers : runs[g] \in {0, 1} /\ (g > allocated => runs[g] = 0)
      BY DEF MT!MtInv
    <3>2. allocated' = allocated /\ ~(f > allocated)
      BY <1>1 DEF MT!MtInv, MT!DoneCountExact, MT!TypeOK
    <3>3. QED
      BY <1>5, <3>1, <3>2
  <2>2. \A g \in freed' : g \in 1..allocated' /\ runs'[g] = 1
    BY <1>1, <1>5 DEF MT!MtInv, MT!DoneCountExact, MT!TypeOK
  <2>3. QED
    BY <1>1, <1>4, <1>6, <1>7, <1>8, <1>9, <1>10, <2>1, <2>2 DEF MT!MtInv

\* It records the fiber: the count catches up with the runs.
LEMMA MtWorkerRecords ==
  ASSUME MT!NatVarMtAssumption, MT!MtInv, NEW t \in Threads, MT!WorkerRecords(t)
  PROVE  MT!MtInv'
<1> PICK f : f = thread[t].fiber
  OBVIOUS
<1> PICK n : n = Len(mt_registry)
  OBVIOUS
<1> DEFINE r == [thread[t] EXCEPT !.pc = "free"]
<1>1. /\ thread[t] \in MT!ThreadStates /\ thread[t].pc = "record" /\ MT!Busy(t)
      /\ f \in 1..allocated /\ f \in MT!Fibers /\ handle[f] \in MT!Handles
      /\ mt_registry' = MT!Recorded(handle[f]) /\ done' = done + 1
      /\ UNCHANGED <<workers, shutdown, starts, spawned, allocated, handle, freed,
                      mt_queue, runs, client, given>>
  BY DEF MT!WorkerRecords, MT!MtInv, MT!ThreadOK, MT!Busy, MT!DoneCountExact, MT!TypeOK, MT!Fibers
<1>2. r \in MT!ThreadStates /\ r.pc = "free" /\ r.fiber = f
  BY <1>1 DEF MT!ThreadStates
<1>3. thread' = [thread EXCEPT ![t] = r]
  BY DEF MT!WorkerRecords
<1> HIDE DEF r
<1>4. /\ thread' \in [Threads -> MT!ThreadStates] /\ thread'[t] = r
      /\ \A u \in Threads : u # t => thread'[u] = thread[u]
  BY <1>2, <1>3 DEF MT!MtInv
<1>5. \A u \in Threads : MT!ThreadOK(u)'
  BY <1>1, <1>2, <1>4 DEF MT!MtInv, MT!ThreadOK, MT!Busy
<1>6. MT!OneOwner'
  BY <1>1, <1>2, <1>4 DEF MT!MtInv, MT!OneOwner, MT!InHand, MT!Busy
<1>7. MT!DoneCountExact'
  <2>1. \A u \in Threads : thread'[u].fiber \in 0..MaxSpawn
    BY <1>4 DEF MT!ThreadStates
  <2>2. {u \in Threads : thread'[u].pc = "record"} = Recording \ {t} /\ t \in Recording
    BY <1>1, <1>2, <1>4 DEF Recording
  <2>3. Cardinality(Recording \ {t}) = Cardinality(Recording) - 1 /\ Cardinality(Recording \ {t}) \in Nat
    BY <2>2, MtSets, FS_RemoveElement, FS_CardinalityType
  <2>4. done = Cardinality(Ran) - Cardinality(Recording)
    BY MtCard DEF MT!MtInv, MT!DoneCountExact, Ran, Recording
  <2>5. /\ done' = Cardinality(Ran) - Cardinality(Recording \ {t}) /\ done' \in 0..MaxSpawn
        /\ done \in 0..MaxSpawn
    <3> DEFINE R == Cardinality(Ran) Q == Cardinality(Recording) P == Cardinality(Recording \ {t})
    <3>1. R \in 0..MaxSpawn /\ Q \in Nat /\ P \in Nat /\ P = Q - 1 /\ done = R - Q
      BY <2>3, <2>4, MtSets
    <3>2. done \in 0..MaxSpawn /\ done' = done + 1
      BY <1>1 DEF MT!MtInv, MT!DoneCountExact, MT!TypeOK
    <3> HIDE DEF R, Q, P
    <3>3. done' = R - P /\ done' \in 0..MaxSpawn
      BY <3>1, <3>2, MtNumbers
    <3>4. QED
      BY <3>2, <3>3 DEF R, P
  <2>6. mt_registry' \in Seq(MT!Handles) /\ Len(mt_registry') = IF done' < MT_DONE_CAP THEN done' ELSE MT_DONE_CAP
    <3>1. mt_registry \in Seq(MT!Handles) /\ n = IF done < MT_DONE_CAP THEN done ELSE MT_DONE_CAP
      BY DEF MT!MtInv, MT!DoneCountExact, MT!TypeOK
    <3>2. CASE n < MT_DONE_CAP
      <4>1. mt_registry' = Append(mt_registry, handle[f])
        BY <1>1, <3>2 DEF MT!Recorded
      <4>2. mt_registry' \in Seq(MT!Handles) /\ Len(mt_registry') = n + 1
        <5> PICK h : h = handle[f]
          OBVIOUS
        <5>1. h \in MT!Handles /\ mt_registry' = Append(mt_registry, h)
          BY <1>1, <4>1
        <5>2. QED
          <6>1. mt_registry \in Seq(MT!Handles)
            BY <3>1
          <6>3. n = Len(mt_registry)
            OBVIOUS
          <6>2. QED
            BY ONLY <5>1, <6>1, <6>3, AppendProperties
      <4>3. QED
        BY <1>1, <2>5, <3>1, <3>2, <4>2, MtNumbers
    <3>3. CASE ~(n < MT_DONE_CAP)
      <4>1. mt_registry' = mt_registry
        BY <1>1, <3>3 DEF MT!Recorded
      <4>2. QED
        <5>1. done \in Nat /\ done' = done + 1 /\ MT_DONE_CAP \in Nat /\ n = Len(mt_registry')
          BY <1>1, <2>5, <4>1, MtNumbers
        <5>2. n = MT_DONE_CAP /\ ~(done' < MT_DONE_CAP)
          BY <3>1, <3>3, <5>1
        <5>3. QED
          BY <3>1, <4>1, <5>1, <5>2
    <3>4. QED
      BY <3>2, <3>3
  <2>7. MT!TypeOK'
    BY <1>1, <2>1, <2>5, <2>6 DEF MT!MtInv, MT!DoneCountExact, MT!TypeOK, MT!Handles, MT!Fibers
  <2>8. {g \in MT!Fibers : runs'[g] > 0} = Ran
    BY <1>1 DEF Ran
  <2>9. QED
    BY <2>2, <2>5, <2>6, <2>7, <2>8, MtCard DEF MT!DoneCountExact
<1>8. QED
  BY <1>1, <1>4, <1>5, <1>6, <1>7 DEF MT!MtInv, MT!ClientOK, MT!QueuedOK, MT!InHand

\* It frees the fiber, which nobody else has.
LEMMA MtWorkerFrees ==
  ASSUME MT!NatVarMtAssumption, MT!MtInv, NEW t \in Threads, MT!WorkerFrees(t)
  PROVE  MT!MtInv'
<1> PICK f : f = thread[t].fiber
  OBVIOUS
<1> DEFINE r == [pc |-> "top", fiber |-> 0]
<1>1. /\ thread[t] \in MT!ThreadStates /\ thread[t].pc = "free" /\ MT!Busy(t)
      /\ f \in 1..allocated /\ f \in MT!Fibers /\ runs[f] = 1 /\ freed' = freed \cup {f}
      /\ UNCHANGED <<workers, shutdown, starts, spawned, allocated, handle, mt_queue,
                      mt_registry, done, runs, client, given>>
  BY DEF MT!WorkerFrees, MT!MtInv, MT!ThreadOK, MT!Busy, MT!DoneCountExact, MT!TypeOK, MT!Fibers
<1>2. r \in MT!ThreadStates /\ r.pc = "top" /\ r.fiber = 0
  BY MtNumbers DEF MT!ThreadStates
<1>3. thread' = [thread EXCEPT ![t] = r]
  BY DEF MT!WorkerFrees
<1> HIDE DEF r
<1>4. /\ thread' \in [Threads -> MT!ThreadStates] /\ thread'[t] = r
      /\ \A u \in Threads : u # t => thread'[u] = thread[u]
  BY <1>2, <1>3 DEF MT!MtInv
<1>5. \A u \in Threads : MT!Busy(u)' => MT!Busy(u) /\ thread'[u] = thread[u] /\ thread[u].fiber # f
  BY <1>1, <1>2, <1>4 DEF MT!Busy, MT!MtInv, MT!OneOwner
<1>6. \A u \in Threads : MT!ThreadOK(u)'
  BY <1>1, <1>2, <1>4, <1>5 DEF MT!MtInv, MT!ThreadOK, MT!Busy
<1>7. MT!OneOwner'
  BY <1>1, <1>5 DEF MT!MtInv, MT!OneOwner, MT!InHand
<1>8. \A d \in Clients : MT!ClientOK(d)'
  BY <1>1 DEF MT!MtInv, MT!ClientOK, MT!InHand
<1>9. \A k \in 1..Len(mt_queue') : MT!QueuedOK(k)'
  BY <1>1 DEF MT!MtInv, MT!QueuedOK
<1>10. MT!DoneCountExact'
  <2>1. \A u \in Threads : thread'[u].fiber \in 0..MaxSpawn
    BY <1>4 DEF MT!ThreadStates
  <2>2. MT!TypeOK'
    BY <1>1, <2>1 DEF MT!MtInv, MT!DoneCountExact, MT!TypeOK, MT!Handles, MT!Fibers
  <2>3. \A u \in Threads : thread'[u].pc = "record" <=> thread[u].pc = "record"
    BY <1>1, <1>2, <1>4
  <2>4. {u \in Threads : thread'[u].pc = "record"} = {u \in Threads : thread[u].pc = "record"}
    BY <2>3
  <2>5. QED
    BY <1>1, <2>2, <2>4 DEF MT!MtInv, MT!DoneCountExact
<1>11. QED
  BY <1>1, <1>4, <1>6, <1>7, <1>8, <1>9, <1>10 DEF MT!MtInv

\* One step of any client, of any worker, or of a start.
LEMMA MtStep ==
  ASSUME MT!NatVarMtAssumption, MT!MtInv, MT!Next
  PROVE  MT!MtInv'
<1>1. ASSUME NEW c \in Clients, MT!ClientCalls(c) \/ MT!ClientGoesOn(c) PROVE MT!MtInv'
  BY <1>1, MtCalls, MtStartStep, MtSpawnLoads, MtSpawnStores, MtSpawnPushes
     DEF MT!ClientCalls, MT!ClientGoesOn
<1>2. ASSUME NEW t \in Threads, MT!Worker(t) PROVE MT!MtInv'
  BY <1>2, MtWorkerTop, MtWorkerPops, MtWorkerRuns, MtWorkerRecords, MtWorkerFrees DEF MT!Worker
<1>3. QED
  BY <1>1, <1>2 DEF MT!Next

\* Nothing is started at first.
LEMMA MtInitOK ==
  ASSUME MT!NatVarMtAssumption, MT!Init
  PROVE  MT!MtInv
<1>1. MT!Idle \in MT!ClientStates /\ MT!NoThread \in MT!ThreadStates
  BY MtNumbers DEF MT!Idle, MT!NoThread, MT!ClientStates, MT!ThreadStates
<1>2. \A c \in Clients : client[c] = MT!Idle /\ ~MT!InHand(c)
  BY DEF MT!Init, MT!InHand, MT!Idle
<1>3. \A t \in Threads : thread[t] = MT!NoThread /\ ~MT!Busy(t)
  BY DEF MT!Init, MT!Busy, MT!NoThread
<1>4. mt_queue = <<>> /\ Len(mt_queue) = 0 /\ mt_registry = <<>> /\ Len(mt_registry) = 0
  BY DEF MT!Init
<1>5. MT!TypeOK
  <2>1. /\ workers \in {0, N} /\ starts \in 0..MaxStarts /\ spawned \in 0..MaxSpawn /\ allocated \in 0..MaxSpawn
        /\ done \in 0..MaxSpawn
    BY MtNumbers DEF MT!Init
  <2>2. shutdown \in BOOLEAN /\ freed \subseteq MT!Fibers /\ mt_queue \in Seq(MT!Fibers) /\ mt_registry \in Seq(MT!Handles)
    <3>1. shutdown = FALSE /\ freed = {} /\ mt_queue = <<>> /\ mt_registry = <<>>
      BY DEF MT!Init
    <3>2. shutdown \in BOOLEAN
      BY <3>1
    <3>3. freed \subseteq MT!Fibers /\ mt_queue \in Seq(MT!Fibers) /\ mt_registry \in Seq(MT!Handles)
      BY <3>1
    <3>4. QED
      BY <3>2, <3>3
  <2>3. handle \in [MT!Fibers -> 0..MaxSpawn] /\ runs \in [MT!Fibers -> 0..MaxSpawn]
    BY MtNumbers DEF MT!Init
  <2>4. 0 \in 0..MaxSpawn
    BY MtNumbers
  <2>5. QED
    BY <1>2, <1>3, <2>1, <2>2, <2>3, <2>4 DEF MT!TypeOK, MT!Idle, MT!NoThread
<1>6. MT!DoneCountExact
  <2>1. {f \in MT!Fibers : runs[f] > 0} = {} /\ {t \in Threads : thread[t].pc = "record"} = {}
    BY <1>3 DEF MT!Init, MT!NoThread
  <2>2. QED
    <3>1. done = 0 /\ Cardinality({}) = 0
      BY FS_EmptySet DEF MT!Init
    <3>2. done = Cardinality({f \in MT!Fibers : runs[f] > 0}) - Cardinality({t \in Threads : thread[t].pc = "record"})
      <4>1. Cardinality({f \in MT!Fibers : runs[f] > 0}) = 0 /\ Cardinality({t \in Threads : thread[t].pc = "record"}) = 0
        BY <2>1, <3>1
      <4>2. QED
        BY <3>1, <4>1
    <3>3. Len(mt_registry) = IF done < MT_DONE_CAP THEN done ELSE MT_DONE_CAP
      BY <1>4, <3>1, MtNumbers
    <3>4. QED
      BY <1>5, <3>2, <3>3, MtCard DEF MT!DoneCountExact
<1>7. QED
  BY <1>1, <1>2, <1>3, <1>4, <1>6, MtNumbers
     DEF MT!MtInv, MT!Init, MT!ClientOK, MT!ThreadOK, MT!OneOwner, MT!Idle, MT!NoThread, MT!QueuedOK

\* What the invariant says of the owners of a fiber.
LEMMA MtRunOnce ==
  ASSUME MT!NatVarMtAssumption, MT!MtInv
  PROVE  MT!RunOnce /\ MT!DoneCountExact
<1> SUFFICES ASSUME NEW f \in MT!Fibers
             PROVE  /\ runs[f] =< 1
                    /\ Cardinality(MT!Holding(f)) + Cardinality({k \in DOMAIN mt_queue : mt_queue[k] = f}) =< 1
                    /\ f \in freed => runs[f] = 1 /\ MT!Holding(f) = {} /\ ~MT!Contains(mt_queue, f)
  BY MtCard DEF MT!RunOnce, MT!MtInv
<1> DEFINE Places == {k \in DOMAIN mt_queue : mt_queue[k] = f}
<1>1. \A t \in MT!Holding(f) : t \in Threads /\ MT!Busy(t) /\ thread[t].fiber = f
  BY DEF MT!Holding, MT!Fibers, MT!MtInv, MT!ThreadOK
<1>2. \A k \in Places : k \in 1..Len(mt_queue) /\ mt_queue[k] = f
  BY DEF MT!MtInv, MT!DoneCountExact, MT!TypeOK
<1>3. \A t, u \in MT!Holding(f) : t = u
  BY <1>1 DEF MT!MtInv, MT!OneOwner
<1>4. \A k, l \in Places : k = l
  BY <1>2 DEF MT!MtInv, MT!OneOwner
<1>5. MT!Holding(f) = {} \/ Places = {}
  BY <1>1, <1>2 DEF MT!MtInv, MT!OneOwner
<1>6. ASSUME NEW S, \A x, y \in S : x = y PROVE Cardinality(S) \in {0, 1}
  <2>1. S = {} \/ \E x \in S : S = {x}
    BY <1>6
  <2>2. QED
    BY <2>1, FS_EmptySet, FS_Singleton
<1>7. Cardinality(MT!Holding(f)) \in {0, 1} /\ Cardinality(Places) \in {0, 1}
  BY <1>3, <1>4, <1>6
<1>8. Cardinality({}) = 0
  BY FS_EmptySet
<1>9. Cardinality(MT!Holding(f)) + Cardinality(Places) =< 1
  BY <1>5, <1>7, <1>8
<1>10. runs[f] =< 1
  BY DEF MT!MtInv
<1>11. f \in freed => runs[f] = 1 /\ MT!Holding(f) = {} /\ ~MT!Contains(mt_queue, f)
  BY <1>1 DEF MT!MtInv, MT!ThreadOK, MT!QueuedOK, MT!Contains
<1>12. QED
  BY <1>9, <1>10, <1>11

-----------------------------------------------------------------------------
(***************************************************************************)
(* The fiber scheduler.  The scheduler's bookkeeping is one predicate,     *)
(* CoreIs, of the ready queue, the states, the running fiber, the number   *)
(* of fibers, the sleepers, the socket waiters and the finished count; the *)
(* lemmas Core... say what each move of a fiber does to it, and the steps  *)
(* of both parts (without and with channels) are followed through them.    *)
(***************************************************************************)

\* The library's cardinality and the instance's are one operator.
LEMMA NvCard ==
  /\ \A S : NV!Cardinality(S) = Cardinality(S)
  /\ \A S : NV!IsFiniteSet(S) <=> IsFiniteSet(S)
BY DEF NV!Cardinality, Cardinality, NV!IsFiniteSet, IsFiniteSet

\* One more place at the end of a queue.
LEMMA QueueAppend ==
  ASSUME NEW S, NEW q \in Seq(S), NEW f \in S
  PROVE  /\ Append(q, f) \in Seq(S) /\ NV!Queued(Append(q, f)) = NV!Queued(q) \cup {f}
         /\ NV!NoDuplicates(q) /\ f \notin NV!Queued(q) => NV!NoDuplicates(Append(q, f))
<1> PICK n : n = Len(q)
  OBVIOUS
<1> PICK p : p = Append(q, f)
  OBVIOUS
<1>1. n \in Nat /\ p \in Seq(S) /\ Len(p) = n + 1 /\ p[n + 1] = f /\ \A i \in 1..n : p[i] = q[i]
  BY AppendProperties
<1>2. \A i \in 1..(n + 1) : i \in 1..n \/ i = n + 1
  BY <1>1
<1>3. n + 1 \in 1..(n + 1) /\ \A i \in 1..n : i \in 1..(n + 1)
  BY <1>1
<1>4. NV!Queued(p) = NV!Queued(q) \cup {f}
  BY <1>1, <1>2, <1>3 DEF NV!Queued
<1>5. NV!NoDuplicates(q) /\ f \notin NV!Queued(q) => NV!NoDuplicates(p)
  BY <1>1, <1>2 DEF NV!NoDuplicates, NV!Queued
<1>6. QED
  BY <1>1, <1>4, <1>5

\* A queue without its head.
LEMMA QueueTail ==
  ASSUME NEW S, NEW q \in Seq(S), q # <<>>, NV!NoDuplicates(q)
  PROVE  /\ Tail(q) \in Seq(S) /\ Head(q) \in S /\ Head(q) \in NV!Queued(q)
         /\ NV!Queued(Tail(q)) = NV!Queued(q) \ {Head(q)} /\ NV!NoDuplicates(Tail(q))
<1> PICK n : n = Len(q)
  OBVIOUS
<1> PICK p : p = Tail(q)
  OBVIOUS
<1>1. /\ n \in Nat \ {0} /\ p \in Seq(S) /\ Len(p) = n - 1 /\ Head(q) = q[1] /\ q[1] \in S
      /\ \A i \in 1..(n - 1) : p[i] = q[i + 1]
  <2>1. n \in Nat \ {0}
    BY EmptySeq
  <2>2. QED
    BY <2>1, HeadTailProperties
<1>2. \A i \in 1..(n - 1) : i + 1 \in 1..n /\ i + 1 # 1
  BY <1>1
<1>3. 1 \in 1..n /\ \A i \in 1..n : i # 1 => i - 1 \in 1..(n - 1) /\ (i - 1) + 1 = i
  BY <1>1
<1>4. NV!Queued(p) = NV!Queued(q) \ {q[1]}
  <2>1. \A x \in NV!Queued(p) : x \in NV!Queued(q) /\ x # q[1]
    BY <1>1, <1>2, <1>3 DEF NV!Queued, NV!NoDuplicates
  <2>2. \A x \in NV!Queued(q) : x # q[1] => x \in NV!Queued(p)
    BY <1>1, <1>3 DEF NV!Queued
  <2>3. QED
    BY <1>3, <2>1, <2>2 DEF NV!Queued
<1>5. NV!NoDuplicates(p)
  <2>1. \A i, j \in 1..(n - 1) : p[i] = p[j] => i + 1 = j + 1
    BY <1>1, <1>2 DEF NV!NoDuplicates
  <2>2. QED
    BY <1>1, <2>1 DEF NV!NoDuplicates
<1>6. Head(q) \in NV!Queued(q)
  BY <1>1, <1>3 DEF NV!Queued
<1>7. QED
  BY <1>1, <1>4, <1>5, <1>6

\* A queue without the element at place i.
LEMMA QueueRemove ==
  ASSUME NEW S, NEW q \in Seq(S), NV!NoDuplicates(q), NEW i \in 1..Len(q)
  PROVE  /\ NV!RemoveAt(q, i) \in Seq(S) /\ q[i] \in S /\ q[i] \in NV!Queued(q)
         /\ NV!Queued(NV!RemoveAt(q, i)) = NV!Queued(q) \ {q[i]} /\ NV!NoDuplicates(NV!RemoveAt(q, i))
<1> PICK n : n = Len(q)
  OBVIOUS
<1> PICK p : p = NV!RemoveAt(q, i)
  OBVIOUS
<1>1. n \in Nat /\ i \in 1..n /\ q[i] \in S /\ n - 1 \in Nat
  BY LenProperties
<1>2. /\ p \in Seq(S) /\ Len(p) = n - 1
      /\ \A k \in 1..(n - 1) : p[k] = IF k < i THEN q[k] ELSE q[k + 1]
  <2> DEFINE a == SubSeq(q, 1, i - 1)
             b == SubSeq(q, i + 1, n)
  <2>1. /\ a \in Seq(S) /\ Len(a) = i - 1 /\ \A k \in 1..(i - 1) : a[k] = q[k]
    <3>1. \A k \in 1..(i - 1) : k \in 1..n
      BY <1>1
    <3>2. QED
      BY <1>1, <3>1, SubSeqProperties
  <2>2. /\ b \in Seq(S) /\ Len(b) = n - i /\ \A k \in 1..(n - i) : b[k] = q[i + k]
    <3>1. CASE i = n
      <4>1. b = <<>>
        BY <1>1, <3>1, SubSeqProperties
      <4>2. QED
        BY <1>1, <3>1, <4>1
    <3>2. CASE i < n
      <4>1. i + 1 \in 1..(n + 1) /\ n \in i..n
        BY <1>1, <3>2
      <4>2. \A k \in (i + 1)..n : k \in 1..n
        BY <1>1
      <4>3. b \in Seq(S) /\ Len(b) = n - (i + 1) + 1 /\ \A k \in 1..(n - (i + 1) + 1) : b[k] = q[(i + 1) + k - 1]
        BY <1>1, <3>2, <4>1, <4>2, SubSeqProperties
      <4>4. n - (i + 1) + 1 = n - i /\ \A k \in 1..(n - i) : (i + 1) + k - 1 = i + k
        BY <1>1
      <4>5. QED
        BY <4>3, <4>4
    <3>3. QED
      BY <1>1, <3>1, <3>2
  <2>3. p = a \o b
    BY DEF NV!RemoveAt
  <2> HIDE DEF a, b
  <2>8. /\ a \o b \in Seq(S) /\ Len(a \o b) = Len(a) + Len(b)
        /\ \A k \in 1..(Len(a) + Len(b)) : (a \o b)[k] = IF k =< Len(a) THEN a[k] ELSE b[k - Len(a)]
    BY ONLY <2>1, <2>2, ConcatProperties
  <2>4. /\ p \in Seq(S) /\ Len(p) = (i - 1) + (n - i)
        /\ \A k \in 1..((i - 1) + (n - i)) : p[k] = IF k =< i - 1 THEN a[k] ELSE b[k - (i - 1)]
    BY ONLY <2>1, <2>2, <2>3, <2>8
  <2>5. (i - 1) + (n - i) = n - 1
    BY <1>1
  <2>6. ASSUME NEW k \in 1..(n - 1) PROVE p[k] = IF k < i THEN q[k] ELSE q[k + 1]
    <3>1. CASE k < i
      <4>1. k \in 1..(i - 1) /\ k =< i - 1
        BY <1>1, <3>1
      <4>2. QED
        BY <2>1, <2>4, <2>5, <3>1, <4>1
    <3>2. CASE ~(k < i)
      <4>1. k - (i - 1) \in 1..(n - i) /\ i + (k - (i - 1)) = k + 1 /\ ~(k =< i - 1)
        BY <1>1, <3>2
      <4>2. QED
        BY <2>2, <2>4, <2>5, <3>2, <4>1
    <3>3. QED
      BY <3>1, <3>2
  <2>7. QED
    BY <2>4, <2>5, <2>6
<1> DEFINE at(k) == IF k < i THEN k ELSE k + 1
<1>3. \A k \in 1..(n - 1) : at(k) \in 1..n /\ at(k) # i /\ p[k] = q[at(k)]
  BY <1>1, <1>2
<1>4. \A k, l \in 1..(n - 1) : at(k) = at(l) => k = l
  BY <1>1
<1>5. \A k \in 1..n : k # i => \E l \in 1..(n - 1) : at(l) = k
  <2> SUFFICES ASSUME NEW k \in 1..n, k # i PROVE \E l \in 1..(n - 1) : at(l) = k
    OBVIOUS
  <2>1. CASE k < i
    <3>1. k \in 1..(n - 1) /\ at(k) = k
      BY <1>1, <2>1
    <3>2. QED
      BY <3>1
  <2>2. CASE k > i
    <3>1. k - 1 \in 1..(n - 1) /\ at(k - 1) = k
      BY <1>1, <2>2
    <3>2. QED
      BY <3>1
  <2>3. QED
    BY <1>1, <2>1, <2>2
<1> HIDE DEF at
<1>6. NV!Queued(p) = NV!Queued(q) \ {q[i]}
  <2>1. \A x \in NV!Queued(p) : x \in NV!Queued(q) /\ x # q[i]
    BY <1>1, <1>2, <1>3 DEF NV!Queued, NV!NoDuplicates
  <2>2. \A x \in NV!Queued(q) : x # q[i] => x \in NV!Queued(p)
    <3> SUFFICES ASSUME NEW k \in 1..n, q[k] # q[i] PROVE q[k] \in NV!Queued(p)
      BY DEF NV!Queued
    <3>1. PICK l \in 1..(n - 1) : at(l) = k
      BY <1>5
    <3>2. p[l] = q[k]
      BY <1>3, <3>1
    <3>3. QED
      BY <1>2, <3>2 DEF NV!Queued
  <2>3. QED
    BY <2>1, <2>2
<1>7. NV!NoDuplicates(p)
  BY <1>2, <1>3, <1>4 DEF NV!NoDuplicates
<1>8. QED
  BY <1>1, <1>2, <1>6, <1>7 DEF NV!Queued

\* What the scheduler's invariant says, of given queues and states instead of the
\* current ones, so that it can be followed through the parts of one step: the
\* ready queue q, the states st, the running fiber r, n fibers, the sleepers sl,
\* the socket waiters io and the count k of finished fibers.
ShapeIs(q, st, r, n, sl, io) ==
  /\ n \in 0..FIBER_MAX /\ st \in [NV!Fibers -> NV!FiberStates] /\ q \in Seq(1..n)
  /\ io \in Seq(1..n) /\ r \in 0..n /\ sl \subseteq 1..n
ReadyIs(q, st, r, n) ==
  /\ NV!NoDuplicates(q) /\ \A f \in 1..n : f \in NV!Queued(q) <=> st[f] = "READY"
  /\ \A f \in 1..n : st[f] = "RUNNING" <=> f = r
SleepIs(sl, io, st, n) ==
  /\ \A f \in sl : st[f] = "SLEEPING"
  /\ n =< TIMER_MAX => \A f \in 1..n : st[f] = "SLEEPING" => f \in sl
  /\ NV!NoDuplicates(io) /\ \A f \in NV!Queued(io) : st[f] = "WAITING_IO"
  /\ n =< NATVAR_IO_MAX => \A f \in 1..n : st[f] = "WAITING_IO" => f \in NV!Queued(io)
DoneIs(st, n, k) == k = Cardinality({f \in 1..n : st[f] = "DONE"})
CoreIs(q, st, r, n, sl, io, k) ==
  ShapeIs(q, st, r, n, sl, io) /\ ReadyIs(q, st, r, n) /\ SleepIs(sl, io, st, n) /\ DoneIs(st, n, k)

\* The waits a fiber is woken from by another one.
Waits == {"WAITING_JOIN", "WAITING_CHAN", "WAITING_MUTEX"}

\* The members of a queue are fibers, and its states are known.
LEMMA CoreFacts ==
  ASSUME NV!NatVarAssumption, NEW q, NEW st, NEW r, NEW n, NEW sl, NEW io, NEW k,
         CoreIs(q, st, r, n, sl, io, k)
  PROVE  /\ n \in Nat /\ n =< FIBER_MAX /\ 1..n \subseteq NV!Fibers /\ n + 1 \in Nat
         /\ NV!Queued(q) \subseteq 1..n /\ NV!Queued(io) \subseteq 1..n
         /\ IsFiniteSet(1..n) /\ Cardinality(1..n) = n
<1>1. n \in Nat /\ n =< FIBER_MAX /\ q \in Seq(1..n) /\ io \in Seq(1..n)
  BY DEF CoreIs, ShapeIs, NV!NatVarAssumption
<1>2. 1..n \subseteq NV!Fibers
  BY <1>1 DEF NV!Fibers, NV!NatVarAssumption
<1>3. NV!Queued(q) \subseteq 1..n /\ NV!Queued(io) \subseteq 1..n
  BY <1>1, ElementOfSeq DEF NV!Queued
<1>4. IsFiniteSet(1..n) /\ Cardinality(1..n) = IF 1 > n THEN 0 ELSE n - 1 + 1
  BY <1>1, FS_Interval
<1>5. QED
  BY <1>1, <1>2, <1>3, <1>4

\* A waiting fiber is made ready.
LEMMA CoreWake ==
  ASSUME NV!NatVarAssumption, NEW q, NEW st, NEW r, NEW n, NEW sl, NEW io, NEW k,
         CoreIs(q, st, r, n, sl, io, k), NEW f \in 1..n, st[f] \in Waits
  PROVE  CoreIs(Append(q, f), [st EXCEPT ![f] = "READY"], r, n, sl, io, k)
<1> PICK s2 : s2 = [st EXCEPT ![f] = "READY"]
  OBVIOUS
<1> PICK q2 : q2 = Append(q, f)
  OBVIOUS
<1>1. s2 \in [NV!Fibers -> NV!FiberStates] /\ \A g \in NV!Fibers : s2[g] = IF g = f THEN "READY" ELSE st[g]
  BY CoreFacts DEF CoreIs, ShapeIs, NV!FiberStates
<1>2. f \notin NV!Queued(q)
  BY DEF CoreIs, ReadyIs, Waits
<1>3. q2 \in Seq(1..n) /\ NV!Queued(q2) = NV!Queued(q) \cup {f} /\ NV!NoDuplicates(q2)
  BY <1>2, QueueAppend DEF CoreIs, ShapeIs, ReadyIs
<1>4. ShapeIs(q2, s2, r, n, sl, io)
  BY <1>1, <1>3 DEF CoreIs, ShapeIs
<1>5. ReadyIs(q2, s2, r, n)
  BY <1>1, <1>3, CoreFacts DEF CoreIs, ReadyIs, Waits
<1>6. SleepIs(sl, io, s2, n)
  <2>1. f \notin sl /\ f \notin NV!Queued(io)
    BY DEF CoreIs, SleepIs, Waits
  <2>2. sl \subseteq NV!Fibers /\ NV!Queued(io) \subseteq NV!Fibers
    BY CoreFacts DEF CoreIs, ShapeIs
  <2>3. QED
    BY <1>1, <2>1, <2>2, CoreFacts DEF CoreIs, SleepIs, Waits
<1>7. DoneIs(s2, n, k)
  <2>1. \A g \in 1..n : s2[g] = "DONE" <=> st[g] = "DONE"
    BY <1>1, CoreFacts DEF Waits
  <2>2. QED
    BY <2>1 DEF CoreIs, DoneIs
<1>8. QED
  BY <1>4, <1>5, <1>6, <1>7 DEF CoreIs

\* A fiber joins a queue it is not in.
LEMMA QueueJoin ==
  \A S : \A q \in Seq(S) : \A f \in S : NV!NoDuplicates(q) /\ f \notin NV!Queued(q) =>
     /\ Append(q, f) \in Seq(S) /\ NV!NoDuplicates(Append(q, f))
     /\ NV!Queued(Append(q, f)) = NV!Queued(q) \cup {f}
  BY QueueAppend

\* A queue of fibers, each once, has room for those that are not in it.
LEMMA QueueRoom ==
  ASSUME NEW n \in Nat, NEW q \in Seq(1..n), NV!NoDuplicates(q), NEW f \in 1..n, f \notin NV!Queued(q)
  PROVE  Len(q) =< n - 1
<1>1. Len(q) \in Nat /\ q \in [1..Len(q) -> 1..n]
  BY LenProperties
<1>2. \A i \in 1..Len(q) : q[i] # f
  BY DEF NV!Queued
<1>3. q \in Injection(1..Len(q), (1..n) \ {f})
  BY <1>1, <1>2 DEF Injection, IsInjective, NV!NoDuplicates
<1>4. IsFiniteSet(1..n) /\ Cardinality(1..n) = IF 1 > n THEN 0 ELSE n - 1 + 1
  BY FS_Interval
<1>5. IsFiniteSet((1..n) \ {f}) /\ Cardinality((1..n) \ {f}) = n - 1
  <2>1. Cardinality(1..n) = n
    BY <1>4
  <2>2. f \in 1..n
    OBVIOUS
  <2>3. QED
    BY <1>4, <2>1, <2>2, FS_RemoveElement
<1>6. Cardinality(1..Len(q)) =< n - 1
  BY <1>3, <1>5, FS_Injection
<1>9. 1 \in Int /\ Len(q) \in Int
  BY <1>1
<1>7. Cardinality(1..Len(q)) = IF 1 > Len(q) THEN 0 ELSE Len(q) - 1 + 1
  BY <1>9, FS_Interval
<1>8. QED
  BY <1>1, <1>6, <1>7

\* A sleeper is made ready and leaves the timer list.
LEMMA CoreWakeSleeper ==
  ASSUME NV!NatVarAssumption, NEW q, NEW st, NEW r, NEW n, NEW sl, NEW io, NEW k,
         CoreIs(q, st, r, n, sl, io, k), NEW f \in sl
  PROVE  CoreIs(Append(q, f), [st EXCEPT ![f] = "READY"], r, n, sl \ {f}, io, k)
<1> PICK s2 : s2 = [st EXCEPT ![f] = "READY"]
  OBVIOUS
<1> PICK q2 : q2 = Append(q, f)
  OBVIOUS
<1>1. s2 \in [NV!Fibers -> NV!FiberStates] /\ \A g \in NV!Fibers : s2[g] = IF g = f THEN "READY" ELSE st[g]
  BY CoreFacts DEF CoreIs, ShapeIs, NV!FiberStates
<1>2. f \notin NV!Queued(q) /\ f \in 1..n
  BY DEF CoreIs, ReadyIs, SleepIs, ShapeIs
<1>3. q2 \in Seq(1..n) /\ NV!Queued(q2) = NV!Queued(q) \cup {f} /\ NV!NoDuplicates(q2)
  BY <1>2, QueueAppend DEF CoreIs, ShapeIs, ReadyIs
<1>4. ShapeIs(q2, s2, r, n, sl \ {f}, io)
  BY <1>1, <1>3 DEF CoreIs, ShapeIs
<1>5. ReadyIs(q2, s2, r, n)
  BY <1>1, <1>3, CoreFacts DEF CoreIs, ShapeIs, SleepIs, ReadyIs
<1>6. SleepIs(sl \ {f}, io, s2, n)
  <2>1. f \notin NV!Queued(io)
    BY DEF CoreIs, ShapeIs, SleepIs
  <2>2. sl \subseteq NV!Fibers /\ NV!Queued(io) \subseteq NV!Fibers
    BY CoreFacts DEF CoreIs, ShapeIs
  <2>3. QED
    BY <1>1, <2>1, <2>2, CoreFacts DEF CoreIs, SleepIs
<1>7. DoneIs(s2, n, k)
  <2>1. \A g \in 1..n : s2[g] = "DONE" <=> st[g] = "DONE"
    BY <1>1, <1>3, CoreFacts DEF CoreIs, ReadyIs, SleepIs
  <2>2. QED
    BY <2>1 DEF CoreIs, DoneIs
<1>8. QED
  BY <1>4, <1>5, <1>6, <1>7 DEF CoreIs

\* A sleeper runs at once: nothing else was ready.
LEMMA CoreRunSleeper ==
  ASSUME NV!NatVarAssumption, NEW q, NEW st, NEW r, NEW n, NEW sl, NEW io, NEW k,
         CoreIs(q, st, r, n, sl, io, k), NEW f \in sl, q = <<>>, r = NV!Main
  PROVE  CoreIs(<<>>, [st EXCEPT ![f] = "RUNNING"], f, n, sl \ {f}, io, k)
<1> PICK s2 : s2 = [st EXCEPT ![f] = "RUNNING"]
  OBVIOUS
<1>1. s2 \in [NV!Fibers -> NV!FiberStates] /\ \A g \in NV!Fibers : s2[g] = IF g = f THEN "RUNNING" ELSE st[g]
  BY CoreFacts DEF CoreIs, ShapeIs, NV!FiberStates, NV!Main
<1>3. /\ <<>> \in Seq(1..n) /\ NV!NoDuplicates(<<>>) /\ f \in 1..n /\ f # 0 /\ st[f] = "SLEEPING"
      /\ \A x : x \notin NV!Queued(<<>>)
  <2>1. \A x : x \notin 1..Len(<<>>)
    BY EmptySeq
  <2>2. <<>> \in Seq(1..n) /\ NV!NoDuplicates(<<>>) /\ \A x : x \notin NV!Queued(<<>>)
    BY <2>1 DEF NV!NoDuplicates, NV!Queued
  <2>3. f \in 1..n /\ f # 0 /\ st[f] = "SLEEPING"
    BY DEF CoreIs, ShapeIs, SleepIs
  <2>4. QED
    BY <2>2, <2>3
<1>4. ShapeIs(<<>>, s2, f, n, sl \ {f}, io)
  BY <1>1, <1>3 DEF CoreIs, ShapeIs, NV!Main
<1>5. ReadyIs(<<>>, s2, f, n)
  BY <1>1, <1>3, CoreFacts DEF CoreIs, ShapeIs, SleepIs, ReadyIs, NV!Main
<1>6. SleepIs(sl \ {f}, io, s2, n)
  <2>1. f \notin NV!Queued(io)
    BY DEF CoreIs, ShapeIs, SleepIs
  <2>2. sl \subseteq NV!Fibers /\ NV!Queued(io) \subseteq NV!Fibers
    BY CoreFacts DEF CoreIs, ShapeIs
  <2>3. QED
    BY <1>1, <2>1, <2>2, CoreFacts DEF CoreIs, SleepIs
<1>7. DoneIs(s2, n, k)
  <2>1. \A g \in 1..n : s2[g] = "DONE" <=> st[g] = "DONE"
    BY <1>1, <1>3, CoreFacts DEF CoreIs, ReadyIs, SleepIs, NV!Main
  <2>2. QED
    BY <2>1 DEF CoreIs, DoneIs
<1>8. QED
  BY <1>4, <1>5, <1>6, <1>7 DEF CoreIs

\* The running fiber goes to the end of the ready queue.
LEMMA CoreYield ==
  ASSUME NV!NatVarAssumption, NEW q, NEW st, NEW r, NEW n, NEW sl, NEW io, NEW k,
         CoreIs(q, st, r, n, sl, io, k), r # NV!Main
  PROVE  CoreIs(Append(q, r), [st EXCEPT ![r] = "READY"], NV!Main, n, sl, io, k)
<1> PICK s2 : s2 = [st EXCEPT ![r] = "READY"]
  OBVIOUS
<1> PICK q2 : q2 = Append(q, r)
  OBVIOUS
<1>1. s2 \in [NV!Fibers -> NV!FiberStates] /\ \A g \in NV!Fibers : s2[g] = IF g = r THEN "READY" ELSE st[g]
  BY CoreFacts DEF CoreIs, ShapeIs, NV!FiberStates, NV!Main
<1>2. r \notin NV!Queued(q) /\ r \in 1..n
  BY DEF NV!Main, CoreIs, ReadyIs, SleepIs, ShapeIs
<1>3. r \in 1..n /\ st[r] = "RUNNING" /\ q2 \in Seq(1..n) /\ NV!Queued(q2) = NV!Queued(q) \cup {r} /\ NV!NoDuplicates(q2)
  BY <1>2, QueueAppend DEF NV!Main, CoreIs, ShapeIs, ReadyIs
<1>4. ShapeIs(q2, s2, NV!Main, n, sl, io)
  BY <1>1, <1>3 DEF CoreIs, ShapeIs, NV!Main
<1>5. ReadyIs(q2, s2, NV!Main, n)
  BY <1>1, <1>3, CoreFacts DEF CoreIs, ShapeIs, SleepIs, ReadyIs, NV!Main
<1>6. SleepIs(sl, io, s2, n)
  <2>1. r \notin sl /\ r \notin NV!Queued(io)
    BY <1>3 DEF CoreIs, ShapeIs, SleepIs, ReadyIs
  <2>2. sl \subseteq NV!Fibers /\ NV!Queued(io) \subseteq NV!Fibers
    BY CoreFacts DEF CoreIs, ShapeIs
  <2>3. QED
    BY <1>1, <1>3, <2>1, <2>2, CoreFacts DEF CoreIs, SleepIs, ReadyIs, NV!Main
<1>7. DoneIs(s2, n, k)
  <2>1. \A g \in 1..n : s2[g] = "DONE" <=> st[g] = "DONE"
    BY <1>1, <1>3, CoreFacts DEF CoreIs, ReadyIs, SleepIs, NV!Main
  <2>2. QED
    BY <2>1 DEF CoreIs, DoneIs
<1>8. QED
  BY <1>4, <1>5, <1>6, <1>7 DEF CoreIs

\* The running fiber waits for another one.
LEMMA CorePark ==
  ASSUME NV!NatVarAssumption, NEW q, NEW st, NEW r, NEW n, NEW sl, NEW io, NEW k,
         CoreIs(q, st, r, n, sl, io, k), r # NV!Main, NEW s \in Waits
  PROVE  CoreIs(q, [st EXCEPT ![r] = s], NV!Main, n, sl, io, k)
<1> PICK s2 : s2 = [st EXCEPT ![r] = s]
  OBVIOUS
<1>1. s2 \in [NV!Fibers -> NV!FiberStates] /\ \A g \in NV!Fibers : s2[g] = IF g = r THEN s ELSE st[g]
  BY CoreFacts DEF CoreIs, ShapeIs, NV!FiberStates, NV!Main, Waits
<1>3. r \in 1..n /\ st[r] = "RUNNING"
  BY DEF CoreIs, ShapeIs, ReadyIs, NV!Main
<1>4. ShapeIs(q, s2, NV!Main, n, sl, io)
  BY <1>1, <1>3 DEF CoreIs, ShapeIs, NV!Main, Waits
<1>5. ReadyIs(q, s2, NV!Main, n)
  BY <1>1, <1>3, CoreFacts DEF CoreIs, ShapeIs, SleepIs, ReadyIs, NV!Main, Waits
<1>6. SleepIs(sl, io, s2, n)
  <2>1. r \notin sl /\ r \notin NV!Queued(io)
    BY <1>3 DEF CoreIs, ShapeIs, SleepIs, ReadyIs
  <2>2. sl \subseteq NV!Fibers /\ NV!Queued(io) \subseteq NV!Fibers
    BY CoreFacts DEF CoreIs, ShapeIs
  <2>3. QED
    BY <1>1, <1>3, <2>1, <2>2, CoreFacts DEF CoreIs, SleepIs, ReadyIs, NV!Main, Waits
<1>7. DoneIs(s2, n, k)
  <2>1. \A g \in 1..n : s2[g] = "DONE" <=> st[g] = "DONE"
    BY <1>1, <1>3, CoreFacts DEF CoreIs, ReadyIs, SleepIs, NV!Main, Waits
  <2>2. QED
    BY <2>1 DEF CoreIs, DoneIs
<1>8. QED
  BY <1>4, <1>5, <1>6, <1>7 DEF CoreIs

\* The head of the ready queue runs.
LEMMA CoreRun ==
  ASSUME NV!NatVarAssumption, NEW q, NEW st, NEW r, NEW n, NEW sl, NEW io, NEW k,
         CoreIs(q, st, r, n, sl, io, k), r = NV!Main, q # <<>>
  PROVE  CoreIs(Tail(q), [st EXCEPT ![Head(q)] = "RUNNING"], Head(q), n, sl, io, k)
<1> PICK s2 : s2 = [st EXCEPT ![Head(q)] = "RUNNING"]
  OBVIOUS
<1> PICK q2 : q2 = Tail(q)
  OBVIOUS
<1>1. s2 \in [NV!Fibers -> NV!FiberStates] /\ \A g \in NV!Fibers : s2[g] = IF g = Head(q) THEN "RUNNING" ELSE st[g]
  BY CoreFacts DEF CoreIs, ShapeIs, NV!FiberStates, NV!Main
<1>3. /\ q2 \in Seq(1..n) /\ Head(q) \in 1..n /\ Head(q) # 0 /\ st[Head(q)] = "READY"
      /\ NV!Queued(q2) = NV!Queued(q) \ {Head(q)} /\ NV!NoDuplicates(q2)
  <2>1. /\ q2 \in Seq(1..n) /\ Head(q) \in 1..n /\ Head(q) \in NV!Queued(q)
        /\ NV!Queued(q2) = NV!Queued(q) \ {Head(q)} /\ NV!NoDuplicates(q2)
    BY QueueTail DEF CoreIs, ShapeIs, ReadyIs
  <2>2. QED
    BY <2>1 DEF CoreIs, ReadyIs
<1>4. ShapeIs(q2, s2, Head(q), n, sl, io)
  BY <1>1, <1>3 DEF CoreIs, ShapeIs, NV!Main
<1>5. ReadyIs(q2, s2, Head(q), n)
  BY <1>1, <1>3, CoreFacts DEF CoreIs, ShapeIs, SleepIs, ReadyIs, NV!Main
<1>6. SleepIs(sl, io, s2, n)
  <2>1. Head(q) \notin sl /\ Head(q) \notin NV!Queued(io)
    BY <1>3 DEF CoreIs, ShapeIs, SleepIs, ReadyIs
  <2>2. sl \subseteq NV!Fibers /\ NV!Queued(io) \subseteq NV!Fibers
    BY CoreFacts DEF CoreIs, ShapeIs
  <2>3. QED
    BY <1>1, <1>3, <2>1, <2>2, CoreFacts DEF CoreIs, SleepIs, ReadyIs, NV!Main
<1>7. DoneIs(s2, n, k)
  <2>1. \A g \in 1..n : s2[g] = "DONE" <=> st[g] = "DONE"
    BY <1>1, <1>3, CoreFacts DEF CoreIs, ReadyIs, SleepIs, NV!Main
  <2>2. QED
    BY <2>1 DEF CoreIs, DoneIs
<1>8. QED
  BY <1>4, <1>5, <1>6, <1>7 DEF CoreIs

\* The running fiber goes to sleep: the timer list has room while there are no more
\* fibers than places.
LEMMA CoreSleep ==
  ASSUME NV!NatVarAssumption, NEW q, NEW st, NEW r, NEW n, NEW sl, NEW io, NEW k,
         CoreIs(q, st, r, n, sl, io, k), r # NV!Main
  PROVE  CoreIs(q, [st EXCEPT ![r] = "SLEEPING"], NV!Main, n, IF Cardinality(sl) < TIMER_MAX THEN sl \cup {r} ELSE sl, io, k)
<1> PICK s2 : s2 = [st EXCEPT ![r] = "SLEEPING"]
  OBVIOUS
<1> PICK sl2 : sl2 = IF Cardinality(sl) < TIMER_MAX THEN sl \cup {r} ELSE sl
  OBVIOUS
<1>1. s2 \in [NV!Fibers -> NV!FiberStates] /\ \A g \in NV!Fibers : s2[g] = IF g = r THEN "SLEEPING" ELSE st[g]
  BY CoreFacts DEF CoreIs, ShapeIs, NV!FiberStates, NV!Main
<1>3. /\ r \in 1..n /\ st[r] = "RUNNING" /\ sl2 \subseteq 1..n
      /\ \A g \in sl2 : g \in sl \/ g = r
  BY DEF CoreIs, ShapeIs, ReadyIs, NV!Main
<1>4. ShapeIs(q, s2, NV!Main, n, sl2, io)
  BY <1>1, <1>3 DEF CoreIs, ShapeIs, NV!Main
<1>5. ReadyIs(q, s2, NV!Main, n)
  BY <1>1, <1>3, CoreFacts DEF CoreIs, ShapeIs, SleepIs, ReadyIs, NV!Main
<1>6. SleepIs(sl2, io, s2, n)
  <2>1. r \notin sl /\ r \notin NV!Queued(io) /\ sl \subseteq NV!Fibers /\ NV!Queued(io) \subseteq NV!Fibers
    BY <1>3, CoreFacts DEF CoreIs, ShapeIs, SleepIs
  <2>2. ASSUME n =< TIMER_MAX PROVE sl2 = sl \cup {r}
    <3>6. IsFiniteSet(1..n) /\ Cardinality(1..n) = n /\ r \in 1..n
      BY <1>3, CoreFacts
    <3>7. IsFiniteSet((1..n) \ {r}) /\ Cardinality((1..n) \ {r}) = n - 1
      BY <3>6, FS_RemoveElement
    <3>1. sl \in SUBSET ((1..n) \ {r}) /\ IsFiniteSet((1..n) \ {r}) /\ Cardinality((1..n) \ {r}) = n - 1
      BY <3>7, <2>1 DEF CoreIs, ShapeIs
    <3>8. IsFiniteSet(sl) /\ Cardinality(sl) =< Cardinality((1..n) \ {r})
      BY <3>1, FS_Subset
    <3>2. IsFiniteSet(sl) /\ Cardinality(sl) =< n - 1
      BY <3>1, <3>8
    <3>3. Cardinality(sl) \in Nat /\ TIMER_MAX \in Nat /\ n \in Nat
      BY <3>2, FS_CardinalityType, CoreFacts DEF NV!NatVarAssumption
    <3>4. Cardinality(sl) < TIMER_MAX
      BY <2>2, <3>2, <3>3
    <3>5. QED
      BY <3>4
  <2>3. \A g \in sl2 : s2[g] = "SLEEPING"
    BY <1>1, <1>3, <2>1 DEF CoreIs, SleepIs
  <2>4. n =< TIMER_MAX => \A g \in 1..n : s2[g] = "SLEEPING" => g \in sl2
    BY <1>1, <1>3, <2>2, CoreFacts DEF CoreIs, SleepIs
  <2>5. \A g \in NV!Queued(io) : s2[g] = "WAITING_IO"
    BY <1>1, <2>1 DEF CoreIs, SleepIs
  <2>6. n =< NATVAR_IO_MAX => \A g \in 1..n : s2[g] = "WAITING_IO" => g \in NV!Queued(io)
    BY <1>1, CoreFacts DEF CoreIs, SleepIs
  <2>7. QED
    BY <2>3, <2>4, <2>5, <2>6 DEF CoreIs, SleepIs
<1>7. DoneIs(s2, n, k)
  <2>1. \A g \in 1..n : s2[g] = "DONE" <=> st[g] = "DONE"
    BY <1>1, <1>3, CoreFacts DEF CoreIs, ReadyIs, SleepIs, NV!Main
  <2>2. QED
    BY <2>1 DEF CoreIs, DoneIs
<1>8. QED
  BY <1>4, <1>5, <1>6, <1>7 DEF CoreIs

\* The running fiber waits for a socket: the list has room while there are no more
\* fibers than places.
LEMMA CoreParkIo ==
  ASSUME NV!NatVarAssumption, NEW q, NEW st, NEW r, NEW n, NEW sl, NEW io, NEW k,
         CoreIs(q, st, r, n, sl, io, k), r # NV!Main
  PROVE  CoreIs(q, [st EXCEPT ![r] = "WAITING_IO"], NV!Main, n, sl, IF Len(io) < NATVAR_IO_MAX THEN Append(io, r) ELSE io, k)
<1> PICK s2 : s2 = [st EXCEPT ![r] = "WAITING_IO"]
  OBVIOUS
<1> PICK io2 : io2 = IF Len(io) < NATVAR_IO_MAX THEN Append(io, r) ELSE io
  OBVIOUS
<1>1. s2 \in [NV!Fibers -> NV!FiberStates] /\ \A g \in NV!Fibers : s2[g] = IF g = r THEN "WAITING_IO" ELSE st[g]
  BY CoreFacts DEF CoreIs, ShapeIs, NV!FiberStates, NV!Main
<1>3. /\ r \in 1..n /\ st[r] = "RUNNING" /\ io2 \in Seq(1..n) /\ NV!NoDuplicates(io2)
      /\ \A g \in NV!Queued(io2) : g \in NV!Queued(io) \/ g = r
  <2>1. r \in 1..n /\ st[r] = "RUNNING" /\ io \in Seq(1..n) /\ r \notin NV!Queued(io) /\ NV!NoDuplicates(io)
    BY DEF CoreIs, ShapeIs, ReadyIs, SleepIs, NV!Main
  <2>4. PICK ap : ap = Append(io, r)
    OBVIOUS
  <2>2. ap \in Seq(1..n) /\ NV!NoDuplicates(ap) /\ NV!Queued(ap) = NV!Queued(io) \cup {r}
    BY <2>1, <2>4, QueueJoin, ZenonT(60)
  <2>3. QED
    BY <2>1, <2>2, <2>4
<1>4. ShapeIs(q, s2, NV!Main, n, sl, io2)
  BY <1>1, <1>3 DEF CoreIs, ShapeIs, NV!Main
<1>5. ReadyIs(q, s2, NV!Main, n)
  BY <1>1, <1>3, CoreFacts DEF CoreIs, ShapeIs, SleepIs, ReadyIs, NV!Main
<1>6. SleepIs(sl, io2, s2, n)
  <2>1. r \notin sl /\ r \notin NV!Queued(io) /\ sl \subseteq NV!Fibers /\ NV!Queued(io) \subseteq NV!Fibers
    BY <1>3, CoreFacts DEF CoreIs, ShapeIs, SleepIs
  <2>2. ASSUME n =< NATVAR_IO_MAX PROVE NV!Queued(io2) = NV!Queued(io) \cup {r}
    <3>1. Len(io) =< n - 1
      BY <2>1, <1>3, QueueRoom, CoreFacts DEF CoreIs, ShapeIs, SleepIs
    <3>2. Len(io) \in Nat /\ NATVAR_IO_MAX \in Nat /\ n \in Nat
      BY LenProperties, CoreFacts DEF NV!NatVarAssumption, CoreIs, ShapeIs
    <3>3. Len(io) < NATVAR_IO_MAX
      BY <2>2, <3>1, <3>2
    <3>4. QED
      BY <1>3, <3>3, QueueAppend DEF CoreIs, ShapeIs
  <2>3. \A g \in sl : s2[g] = "SLEEPING"
    BY <1>1, <2>1 DEF CoreIs, SleepIs
  <2>4. n =< TIMER_MAX => \A g \in 1..n : s2[g] = "SLEEPING" => g \in sl
    BY <1>1, CoreFacts DEF CoreIs, SleepIs
  <2>5. \A g \in NV!Queued(io2) : s2[g] = "WAITING_IO"
    BY <1>1, <1>3, <2>1, CoreFacts DEF CoreIs, SleepIs
  <2>6. n =< NATVAR_IO_MAX => \A g \in 1..n : s2[g] = "WAITING_IO" => g \in NV!Queued(io2)
    BY <1>1, <2>2, CoreFacts DEF CoreIs, SleepIs
  <2>7. QED
    BY <1>3, <2>3, <2>4, <2>5, <2>6 DEF SleepIs
<1>7. DoneIs(s2, n, k)
  <2>1. \A g \in 1..n : s2[g] = "DONE" <=> st[g] = "DONE"
    BY <1>1, <1>3, CoreFacts DEF CoreIs, ReadyIs, SleepIs, NV!Main
  <2>2. QED
    BY <2>1 DEF CoreIs, DoneIs
<1>8. QED
  BY <1>4, <1>5, <1>6, <1>7 DEF CoreIs

\* The socket waiter at place i is made ready and leaves the list.
LEMMA CoreWakeIo ==
  ASSUME NV!NatVarAssumption, NEW q, NEW st, NEW r, NEW n, NEW sl, NEW io, NEW k,
         CoreIs(q, st, r, n, sl, io, k), NEW i \in 1..Len(io)
  PROVE  CoreIs(Append(q, io[i]), [st EXCEPT ![io[i]] = "READY"], r, n, sl, NV!RemoveAt(io, i), k)
<1> PICK s2 : s2 = [st EXCEPT ![io[i]] = "READY"]
  OBVIOUS
<1> PICK q2 : q2 = Append(q, io[i])
  OBVIOUS
<1> PICK io2 : io2 = NV!RemoveAt(io, i)
  OBVIOUS
<1>1. s2 \in [NV!Fibers -> NV!FiberStates] /\ \A g \in NV!Fibers : s2[g] = IF g = io[i] THEN "READY" ELSE st[g]
  BY CoreFacts DEF CoreIs, ShapeIs, NV!FiberStates
<1>2. /\ io2 \in Seq(1..n) /\ io[i] \in 1..n /\ io[i] \in NV!Queued(io) /\ st[io[i]] = "WAITING_IO"
      /\ NV!Queued(io2) = NV!Queued(io) \ {io[i]} /\ NV!NoDuplicates(io2)
  BY QueueRemove DEF CoreIs, ShapeIs, SleepIs
<1>9. io[i] \notin NV!Queued(q)
  BY <1>2 DEF CoreIs, ReadyIs
<1>10. q2 \in Seq(1..n) /\ NV!Queued(q2) = NV!Queued(q) \cup {io[i]} /\ NV!NoDuplicates(q2)
  BY <1>2, <1>9, QueueAppend DEF CoreIs, ShapeIs, ReadyIs
<1>3. /\ io2 \in Seq(1..n) /\ io[i] \in 1..n /\ st[io[i]] = "WAITING_IO"
      /\ q2 \in Seq(1..n) /\ NV!Queued(q2) = NV!Queued(q) \cup {io[i]} /\ NV!NoDuplicates(q2)
  BY <1>2, <1>10
<1>4. ShapeIs(q2, s2, r, n, sl, io2)
  BY <1>1, <1>3 DEF CoreIs, ShapeIs
<1>5. ReadyIs(q2, s2, r, n)
  BY <1>1, <1>3, CoreFacts DEF CoreIs, ShapeIs, SleepIs, ReadyIs
<1>6. SleepIs(sl, io2, s2, n)
  <2>1. io[i] \notin sl /\ sl \subseteq NV!Fibers /\ NV!Queued(io) \subseteq NV!Fibers
    BY <1>2, CoreFacts DEF CoreIs, ShapeIs, SleepIs
  <2>2. QED
    BY <1>1, <1>2, <2>1, CoreFacts DEF CoreIs, SleepIs
<1>7. DoneIs(s2, n, k)
  <2>1. \A g \in 1..n : s2[g] = "DONE" <=> st[g] = "DONE"
    BY <1>1, <1>3, CoreFacts DEF CoreIs, ReadyIs, SleepIs
  <2>2. QED
    BY <2>1 DEF CoreIs, DoneIs
<1>8. QED
  BY <1>4, <1>5, <1>6, <1>7 DEF CoreIs

\* The running fiber finishes, and is counted.
LEMMA CoreFinish ==
  ASSUME NV!NatVarAssumption, NEW q, NEW st, NEW r, NEW n, NEW sl, NEW io, NEW k,
         CoreIs(q, st, r, n, sl, io, k), r # NV!Main
  PROVE  CoreIs(q, [st EXCEPT ![r] = "DONE"], NV!Main, n, sl, io, k + 1)
<1> PICK s2 : s2 = [st EXCEPT ![r] = "DONE"]
  OBVIOUS
<1>1. s2 \in [NV!Fibers -> NV!FiberStates] /\ \A g \in NV!Fibers : s2[g] = IF g = r THEN "DONE" ELSE st[g]
  BY CoreFacts DEF CoreIs, ShapeIs, NV!FiberStates, NV!Main
<1>3. r \in 1..n /\ st[r] = "RUNNING"
  BY DEF CoreIs, ShapeIs, ReadyIs, NV!Main
<1>4. ShapeIs(q, s2, NV!Main, n, sl, io)
  BY <1>1, <1>3 DEF CoreIs, ShapeIs, NV!Main
<1>5. ReadyIs(q, s2, NV!Main, n)
  BY <1>1, <1>3, CoreFacts DEF CoreIs, ShapeIs, ReadyIs, NV!Main
<1>6. SleepIs(sl, io, s2, n)
  <2>1. r \notin sl /\ r \notin NV!Queued(io)
    BY <1>3 DEF CoreIs, ShapeIs, SleepIs, ReadyIs
  <2>2. sl \subseteq NV!Fibers /\ NV!Queued(io) \subseteq NV!Fibers
    BY CoreFacts DEF CoreIs, ShapeIs
  <2>3. QED
    BY <1>1, <1>3, <2>1, <2>2, CoreFacts DEF CoreIs, SleepIs
<1>7. DoneIs(s2, n, k + 1)
  <2>1. \A g \in 1..n : s2[g] = "DONE" <=> st[g] = "DONE" \/ g = r
    BY <1>1, <1>3, CoreFacts
  <2>2. {f \in 1..n : s2[f] = "DONE"} = {f \in 1..n : st[f] = "DONE"} \cup {r}
    BY <1>3, <2>1
  <2>3. IsFiniteSet({f \in 1..n : st[f] = "DONE"}) /\ r \notin {f \in 1..n : st[f] = "DONE"}
    BY <1>3, CoreFacts, FS_Subset
  <2>4. QED
    BY <2>2, <2>3, FS_AddElement DEF CoreIs, DoneIs
<1>8. QED
  BY <1>4, <1>5, <1>6, <1>7 DEF CoreIs

\* A fiber is spawned, while the runtime has a place for one.
LEMMA CoreSpawn ==
  ASSUME NV!NatVarAssumption, NEW q, NEW st, NEW r, NEW n, NEW sl, NEW io, NEW k,
         CoreIs(q, st, r, n, sl, io, k), n < FIBER_MAX
  PROVE  CoreIs(Append(q, n + 1), [st EXCEPT ![n + 1] = "READY"], r, n + 1, sl, io, k)
<1> PICK m : m = n + 1
  OBVIOUS
<1> PICK s2 : s2 = [st EXCEPT ![m] = "READY"]
  OBVIOUS
<1> PICK q2 : q2 = Append(q, m)
  OBVIOUS
<1>1. /\ n \in Nat /\ m \in 1..m /\ m \in 0..FIBER_MAX /\ m \in NV!Fibers /\ 1..n \subseteq 1..m /\ m \notin 1..n
      /\ \A g \in 1..m : g \in 1..n \/ g = m
      /\ 0..n \subseteq 0..m /\ 1..m \subseteq NV!Fibers /\ m # 0 /\ m \notin 0..n
  BY CoreFacts DEF NV!NatVarAssumption, NV!Fibers
<1>2. s2 \in [NV!Fibers -> NV!FiberStates] /\ \A g \in NV!Fibers : s2[g] = IF g = m THEN "READY" ELSE st[g]
  BY <1>1 DEF CoreIs, ShapeIs, NV!FiberStates
<1>3. q \in Seq(1..m) /\ io \in Seq(1..m) /\ m \notin NV!Queued(q) /\ m \notin NV!Queued(io) /\ m \notin sl /\ r # m
  BY <1>1, CoreFacts, SeqMonotonic DEF CoreIs, ShapeIs
<1>4. q2 \in Seq(1..m) /\ NV!Queued(q2) = NV!Queued(q) \cup {m} /\ NV!NoDuplicates(q2)
  BY <1>1, <1>3, QueueAppend DEF CoreIs, ReadyIs
<1>5. ShapeIs(q2, s2, r, m, sl, io)
  BY <1>1, <1>2, <1>3, <1>4 DEF CoreIs, ShapeIs
<1>6. ReadyIs(q2, s2, r, m)
  BY <1>1, <1>2, <1>3, <1>4, CoreFacts DEF CoreIs, ReadyIs
<1>7. SleepIs(sl, io, s2, m)
  <2>1. sl \subseteq 1..n /\ NV!Queued(io) \subseteq 1..n
    BY CoreFacts DEF CoreIs, ShapeIs
  <2>2. TIMER_MAX \in Nat /\ NATVAR_IO_MAX \in Nat
    BY DEF NV!NatVarAssumption
  <2>3. (m =< TIMER_MAX => n =< TIMER_MAX) /\ (m =< NATVAR_IO_MAX => n =< NATVAR_IO_MAX)
    BY <1>1, <2>2
  <2>4. QED
    BY <1>1, <1>2, <1>3, <2>1, <2>3, CoreFacts DEF CoreIs, SleepIs
<1>8. DoneIs(s2, m, k)
  <2>1. {f \in 1..m : s2[f] = "DONE"} = {f \in 1..n : st[f] = "DONE"}
    BY <1>1, <1>2, CoreFacts
  <2>2. QED
    BY <2>1 DEF CoreIs, DoneIs
<1>9. QED
  BY <1>5, <1>6, <1>7, <1>8 DEF CoreIs

NvFrame == <<g_fiber_count, state, until, wait_on, wake_result, call, timeout_ms, ready, running,
             sleeping, joining, io_waiters, g_done_count, mutex, holders>>

\* The parts of NatVarInv.
Here == CoreIs(ready, state, running, g_fiber_count, sleeping, io_waiters, g_done_count)
ClockOK == /\ until \in [NV!Fibers -> 0..(MaxTime + 1)] /\ joining \subseteq NV!Spawned
           /\ last_now \in 0..now /\ now \in 0..MaxTime /\ readable \subseteq Sockets
InFiberOnly == sched \in {"fiber", "exited"} <=> running # NV!Main
WaitIs(mx, st, wo, n) ==
  /\ mx \in [NV!Mutexes -> [locked : BOOLEAN, owner : 0..FIBER_MAX, waiters : Seq(NV!Fibers)]]
  /\ \A m \in NV!Mutexes : /\ NV!NoDuplicates(mx[m].waiters) /\ NV!Queued(mx[m].waiters) \subseteq 1..n
                           /\ \A f \in 1..n : f \in NV!Queued(mx[m].waiters)
                                                 <=> (st[f] = "WAITING_MUTEX" /\ wo[f] = m)
LoopOK == /\ driver = "loop" /\ sched \in {"main", "loop", "fiber", "io", "mutex", "exited"}
          /\ g_mutex_count \in 0..NATVAR_MUTEX_MAX
          /\ scan \in [at : Nat, mutex : Nat, fds : SUBSET Sockets, woken : BOOLEAN]
          /\ (sched \in {"io", "mutex"} => scan.at > 0) /\ (sched = "mutex" => scan.mutex > 0)
CallsOK == /\ wait_on \in [NV!Fibers -> NV!Fibers \cup NV!Mutexes \cup Sockets \cup {0}]
           /\ wake_result \in [NV!Fibers -> {-1, 0, 1}]
           /\ call \in [NV!Fibers -> {"body", "join", "lock", "net"}]
LocksOK == /\ holders \in [NV!Mutexes -> SUBSET (0..FIBER_MAX)]
           /\ \A f \in NV!Fibers : NV!LockCallOK(f)
           /\ \A m \in NV!Mutexes : NV!OwnerExact(m)

\* The saved contexts: fibers, and Windows' own where the system keeps them.
CtxOK == /\ context \in [NV!Fibers -> 0..FIBER_MAX] /\ posix_self \in 0..FIBER_MAX
         /\ ~Posix => NV!ContextsKept

\* The scheduler's invariant in the form the steps are followed in.
LEMMA CoreForm ==
  ASSUME NV!NatVarAssumption
  PROVE  NV!CoreInv <=> Here /\ ClockOK /\ InFiberOnly
<1>1. ASSUME NV!CoreTypes
      PROVE  /\ ShapeIs(ready, state, running, g_fiber_count, sleeping, io_waiters) /\ NV!Spawned \subseteq NV!Fibers
             /\ NV!Queued(ready) \subseteq NV!Spawned /\ NV!Queued(io_waiters) \subseteq NV!Spawned
             /\ g_fiber_count \in Nat /\ ClockOK
  <2>1. /\ g_fiber_count \in 0..FIBER_MAX /\ FIBER_MAX \in Nat /\ g_fiber_count \in Nat
    BY <1>1 DEF NV!CoreTypes, NV!NatVarAssumption
  <2>2. running \in 0..g_fiber_count
    BY <1>1, <2>1 DEF NV!CoreTypes, NV!Spawned, NV!Main
  <2>3. NV!Spawned \subseteq NV!Fibers
    BY <2>1 DEF NV!Spawned, NV!Fibers
  <2>4. NV!Queued(ready) \subseteq NV!Spawned /\ NV!Queued(io_waiters) \subseteq NV!Spawned
    BY <1>1, ElementOfSeq DEF NV!CoreTypes, NV!Queued
  <2>5. ShapeIs(ready, state, running, g_fiber_count, sleeping, io_waiters)
    BY <1>1, <2>2 DEF NV!CoreTypes, ShapeIs, NV!Spawned
  <2>6. QED
    BY <1>1, <2>1, <2>3, <2>4, <2>5 DEF NV!CoreTypes, ClockOK
<1>2. ASSUME ShapeIs(ready, state, running, g_fiber_count, sleeping, io_waiters), ClockOK
      PROVE  NV!CoreTypes
  <2>1. running \in NV!Spawned \cup {NV!Main}
    BY <1>2 DEF ShapeIs, NV!NatVarAssumption, NV!Spawned, NV!Main
  <2>2. QED
    BY <1>2, <2>1 DEF ShapeIs, ClockOK, NV!CoreTypes, NV!Spawned
<1>3. ASSUME NV!CoreTypes
      PROVE  NV!ReadyExact <=> ReadyIs(ready, state, running, g_fiber_count) /\ InFiberOnly
  <2>1. NV!Queued(ready) = NV!In("READY") <=> \A f \in NV!Spawned : f \in NV!Queued(ready) <=> state[f] = "READY"
    BY <1>1, <1>3 DEF NV!In
  <2>2. NV!In("RUNNING") = {running} \ {NV!Main} <=> \A f \in NV!Spawned : state[f] = "RUNNING" <=> f = running
    <3>1. \A f \in NV!Spawned : f # 0
      BY <1>1, <1>3 DEF NV!Spawned
    <3>2. running \in NV!Spawned \cup {NV!Main}
      BY <1>3 DEF NV!CoreTypes
    <3>3. QED
      BY <3>1, <3>2 DEF NV!In, NV!Main
  <2>3. QED
    BY <2>1, <2>2 DEF NV!ReadyExact, ReadyIs, InFiberOnly, NV!Spawned
<1>4. ASSUME NV!CoreTypes
      PROVE  NV!SleepersExact <=> SleepIs(sleeping, io_waiters, state, g_fiber_count)
  <2>1. sleeping \subseteq NV!Spawned /\ NV!Queued(io_waiters) \subseteq NV!Spawned
    BY <1>1, <1>4 DEF NV!CoreTypes
  <2>2. (sleeping \subseteq NV!In("SLEEPING")) <=> \A f \in sleeping : state[f] = "SLEEPING"
    BY <2>1 DEF NV!In
  <2>3. sleeping \subseteq NV!In("SLEEPING") => (sleeping = NV!In("SLEEPING") <=> \A f \in NV!Spawned : state[f] = "SLEEPING" => f \in sleeping)
    BY <2>1 DEF NV!In
  <2>4. (NV!Queued(io_waiters) \subseteq NV!In("WAITING_IO")) <=> \A f \in NV!Queued(io_waiters) : state[f] = "WAITING_IO"
    BY <2>1 DEF NV!In
  <2>5. NV!Queued(io_waiters) \subseteq NV!In("WAITING_IO") => (NV!Queued(io_waiters) = NV!In("WAITING_IO") <=> \A f \in NV!Spawned : state[f] = "WAITING_IO" => f \in NV!Queued(io_waiters))
    BY <2>1 DEF NV!In
  <2> QED
    BY <2>2, <2>3, <2>4, <2>5 DEF NV!SleepersExact, SleepIs, NV!Spawned
<1>5. g_done_count = Cardinality(NV!In("DONE")) <=> DoneIs(state, g_fiber_count, g_done_count)
  BY DEF DoneIs, NV!In, NV!Spawned
<1>6. QED
  BY <1>1, <1>2, <1>3, <1>4, <1>5, NvCard DEF NV!CoreInv, Here, CoreIs

\* The invariant of the part without channels, in its parts.
LEMMA NatVarForm ==
  ASSUME NV!NatVarAssumption
  PROVE  NV!NatVarInv <=> Here /\ ClockOK /\ InFiberOnly /\ WaitIs(mutex, state, wait_on, g_fiber_count)
                         /\ LoopOK /\ CallsOK /\ LocksOK /\ CtxOK
<1>1. ASSUME Here, ClockOK
      PROVE  NV!WaitersExact /\ mutex \in [NV!Mutexes -> [locked : BOOLEAN, owner : 0..FIBER_MAX, waiters : Seq(NV!Fibers)]]
                <=> WaitIs(mutex, state, wait_on, g_fiber_count)
  <2>1. \A m \in NV!Mutexes : NV!Queued(mutex[m].waiters) = {f \in NV!In("WAITING_MUTEX") : wait_on[f] = m}
           <=> /\ NV!Queued(mutex[m].waiters) \subseteq NV!Spawned
               /\ \A f \in NV!Spawned : f \in NV!Queued(mutex[m].waiters) <=> (state[f] = "WAITING_MUTEX" /\ wait_on[f] = m)
    <3> SUFFICES ASSUME NEW m \in NV!Mutexes
        PROVE NV!Queued(mutex[m].waiters) = {f \in NV!In("WAITING_MUTEX") : wait_on[f] = m}
           <=> /\ NV!Queued(mutex[m].waiters) \subseteq NV!Spawned
               /\ \A f \in NV!Spawned : f \in NV!Queued(mutex[m].waiters) <=> (state[f] = "WAITING_MUTEX" /\ wait_on[f] = m)
      OBVIOUS
    <3> PICK Q : Q = NV!Queued(mutex[m].waiters)
      OBVIOUS
    <3>1. Q = {f \in NV!In("WAITING_MUTEX") : wait_on[f] = m}
           <=> /\ Q \subseteq NV!Spawned
               /\ \A f \in NV!Spawned : f \in Q <=> (state[f] = "WAITING_MUTEX" /\ wait_on[f] = m)
      BY DEF NV!In
    <3>2. QED
      BY <3>1
  <2>2. QED
    BY <2>1 DEF NV!WaitersExact, WaitIs, NV!Spawned
<1>2. ASSUME Here, ClockOK, LoopOK, CallsOK, CtxOK
      PROVE  NV!TypeOK
  <2>1. g_done_count \in 0..FIBER_MAX
    <3>1. IsFiniteSet(1..g_fiber_count) /\ Cardinality(1..g_fiber_count) = g_fiber_count
          /\ g_fiber_count \in Nat /\ g_fiber_count =< FIBER_MAX /\ FIBER_MAX \in Nat
      BY <1>2, CoreFacts DEF Here, NV!NatVarAssumption
    <3>2. {f \in 1..g_fiber_count : state[f] = "DONE"} \in SUBSET (1..g_fiber_count)
      OBVIOUS
    <3>3. g_done_count \in Nat /\ g_done_count =< Cardinality(1..g_fiber_count)
      BY <1>2, <3>1, <3>2, FS_Subset, FS_CardinalityType DEF Here, CoreIs, DoneIs
    <3>4. QED
      BY <3>1, <3>3
  <2>2. NV!CoreTypes
    <3>1. NV!CoreInv \/ ~InFiberOnly
      BY <1>2, CoreForm
    <3>2. running \in NV!Spawned \cup {NV!Main}
      BY <1>2 DEF Here, CoreIs, ShapeIs, NV!NatVarAssumption, NV!Spawned, NV!Main
    <3>3. QED
      BY <1>2, <3>2 DEF Here, CoreIs, ShapeIs, ClockOK, NV!CoreTypes, NV!Spawned
  <2>3. QED
    BY <1>2, <2>1, <2>2 DEF NV!TypeOK, NV!CoreTypes, ClockOK, LoopOK, CallsOK, CtxOK
<1>3. NV!NatVarInv => LoopOK /\ CallsOK /\ LocksOK /\ CtxOK
  BY DEF NV!NatVarInv, NV!TypeOK, LoopOK, CallsOK, LocksOK, CtxOK
<1>4. QED
  BY <1>1, <1>2, <1>3, CoreForm DEF NV!NatVarInv, LoopOK, LocksOK, CtxOK

NvParts == /\ Here /\ ClockOK /\ InFiberOnly /\ WaitIs(mutex, state, wait_on, g_fiber_count)
           /\ LoopOK /\ CallsOK /\ LocksOK

\* Waiting lists do not see what other fibers do.
LEMMA WaitFrame ==
  ASSUME NEW mx, NEW st, NEW wo, NEW n, WaitIs(mx, st, wo, n), NEW s2, NEW w2,
         \A g \in 1..n : /\ s2[g] = "WAITING_MUTEX" <=> st[g] = "WAITING_MUTEX"
                         /\ st[g] = "WAITING_MUTEX" => w2[g] = wo[g]
  PROVE  WaitIs(mx, s2, w2, n)
  BY DEF WaitIs

Scans == [at : Nat, mutex : Nat, fds : SUBSET Sockets, woken : BOOLEAN]

\* A poll's position r after moving s to place a of list m, or to place a with F readable.
ScanList(r, s, a, m) == r = [s EXCEPT !.mutex = m, !.at = a]
ScanFds(r, s, a, F) == r = [s EXCEPT !.at = a, !.fds = F]
ScanAt(r, s, a) == r = [s EXCEPT !.at = a]

\* They stay positions.
LEMMA ScanMoves ==
  ASSUME NEW r, NEW s \in Scans, NEW a \in Nat, NEW m \in Nat, NEW F \in SUBSET Sockets
  PROVE  /\ ScanList(r, s, a, m) => r \in Scans /\ r.at = a /\ r.mutex = m
         /\ ScanFds(r, s, a, F) => r \in Scans /\ r.at = a
         /\ ScanAt(r, s, a) => r \in Scans /\ r.at = a /\ r.mutex = s.mutex
  BY DEF Scans, ScanList, ScanFds, ScanAt

\* Steps of the loop, the clock and the sockets that leave fibers and mutexes alone.
LEMMA NvLoopStep ==
  ASSUME NV!NatVarAssumption, NvParts, UNCHANGED NvFrame, ClockOK', InFiberOnly', LoopOK'
  PROVE  NvParts'
<1> USE DEF NvFrame
<1>1. Here'
  BY DEF NvParts, Here
<1>2. WaitIs(mutex, state, wait_on, g_fiber_count)'
  BY DEF NvParts
<1>3. CallsOK'
  BY DEF NvParts, CallsOK
<1>4. LocksOK'
  BY DEF NvParts, LocksOK, NV!LockCallOK, NV!OwnerExact, NV!Spawned
<1>5. QED
  BY <1>1, <1>2, <1>3, <1>4 DEF NvParts

\* The steps of the loop that move no fiber, and those of the environment.
LEMMA NvLoopSteps ==
  ASSUME NV!NatVarAssumption, NvParts,
         \/ NV!Environment \/ NV!RunUntilDone \/ NV!LoopAllDone \/ NV!LoopPollIo \/ NV!IoScanEnd \/ NV!LoopPollMutexes
         \/ NV!MutexScanNext \/ NV!MutexScanEnd \/ NV!LoopNoMutexes \/ NV!MutexNew
  PROVE  NvParts'
<1>0. /\ MaxTime \in Nat /\ NATVAR_MUTEX_MAX \in Nat /\ scan \in Scans /\ NV!NoScan \in Scans
      /\ now \in 0..MaxTime /\ last_now \in 0..now /\ now \in 0..now
  BY DEF NvParts, LoopOK, ClockOK, NV!NatVarAssumption, NV!NoScan, Scans
<1>1. ASSUME NV!Environment PROVE NvParts'
  <2>1. UNCHANGED NvFrame
    BY <1>1 DEF NV!Environment, NV!Tick, NV!DataArrives, NvFrame, NV!fiberVars, NV!queueVars, NV!mutexVars
  <2>2. now' \in 0..MaxTime /\ last_now' \in 0..now' /\ readable' \subseteq Sockets
    BY <1>1, <1>0 DEF NV!Environment, NV!Tick, NV!DataArrives, NV!loopVars, NvParts, ClockOK
  <2>3. ClockOK' /\ InFiberOnly' /\ LoopOK'
    BY <1>1, <2>1, <2>2 DEF NV!Environment, NV!Tick, NV!DataArrives, NvFrame, NV!fiberVars, NV!queueVars, NV!mutexVars, NV!loopVars,
       NvParts, ClockOK, InFiberOnly, LoopOK, NV!Spawned
  <2>4. QED
    BY <2>1, <2>3, NvLoopStep
<1>2. ASSUME NV!RunUntilDone \/ NV!LoopAllDone \/ NV!LoopNoMutexes PROVE NvParts'
  <2> USE DEF NV!RunUntilDone, NV!LoopAllDone, NV!LoopNoMutexes, NV!WaitForSleeperOrHalt, NV!NothingToPoll, NV!NothingReady
  <2>1. UNCHANGED NvFrame
    BY <1>2 DEF NvFrame, NV!fiberVars, NV!queueVars, NV!mutexVars
  <2>2. sched' \in {"loop", "main"} /\ sched \notin {"fiber", "exited"} /\ driver' = driver /\ driver' = "loop" /\ UNCHANGED <<scan, g_mutex_count, now, readable>> /\ last_now' \in 0..now
    BY <1>0, <1>2 DEF NvParts, LoopOK, NV!mutexVars, NV!envVars
  <2>3. ClockOK' /\ InFiberOnly' /\ LoopOK'
    BY <2>1, <2>2 DEF NvFrame, NvParts, ClockOK, InFiberOnly, LoopOK, NV!Spawned, Scans
  <2>4. QED
    BY <2>1, <2>3, NvLoopStep
<1>3. ASSUME NV!LoopPollIo \/ NV!LoopPollMutexes PROVE NvParts'
  <2> USE DEF NV!LoopPollIo, NV!LoopPollMutexes, NV!NothingToPoll, NV!NothingReady
  <2>1. UNCHANGED NvFrame
    BY <1>3 DEF NvFrame, NV!fiberVars, NV!queueVars, NV!mutexVars
  <2>2. /\ sched' \in {"loop", "io", "mutex"} /\ sched \notin {"fiber", "exited"} /\ driver' = driver /\ UNCHANGED <<g_mutex_count, now, readable>> /\ last_now' \in 0..now
    BY <1>0, <1>3 DEF NvParts, LoopOK, NV!mutexVars, NV!envVars
  <2>3. scan' \in Scans /\ (sched' \in {"io", "mutex"} => scan'.at > 0) /\ (sched' = "mutex" => scan'.mutex > 0)
    <3>1. CASE NV!LoopPollMutexes
      <4>1. PICK a \in Nat : a = 1
        OBVIOUS
      <4>2. ScanList(scan', NV!NoScan, a, a) /\ sched' = "mutex"
        BY <3>1, <4>1 DEF ScanList
      <4>7. scan' \in Scans /\ scan'.at = a /\ scan'.mutex = a
        BY <1>0, <4>1, <4>2, ScanMoves
      <4>8. a > 0
        BY <4>1
      <4>3. QED
        BY <4>1, <4>2, <4>7, <4>8
    <3>2. CASE NV!LoopPollIo
      <4> DEFINE fds == readable \cap {wait_on[f] : f \in NV!Queued(io_waiters)}
      <4>1. CASE fds = {}
        BY <1>0, <3>2, <4>1
      <4>2. CASE fds # {}
        <5>1. fds \in SUBSET Sockets
          BY DEF NvParts, ClockOK
        <5> HIDE DEF fds
        <5>2. PICK a \in Nat : a = 1
          OBVIOUS
        <5>3. ScanFds(scan', NV!NoScan, a, fds) /\ sched' = "io"
          BY <3>2, <4>2, <5>2 DEF fds, ScanFds
        <5>7. scan' \in Scans /\ scan'.at = a
          BY <1>0, <5>2, <5>1, <5>3, ScanMoves
        <5>8. a > 0
          BY <5>2
        <5>4. QED
          BY <5>2, <5>1, <5>3, <5>7, <5>8
      <4>3. QED
        BY <4>1, <4>2
    <3>3. QED
      BY <1>3, <3>1, <3>2
  <2> HIDE DEF NV!LoopPollIo, NV!LoopPollMutexes, NV!NothingToPoll, NV!NothingReady
  <2>4. ClockOK' /\ InFiberOnly' /\ LoopOK'
    BY <2>1, <2>2, <2>3 DEF NvFrame, NvParts, ClockOK, InFiberOnly, LoopOK, NV!Spawned, Scans
  <2>5. QED
    BY <2>1, <2>4, NvLoopStep
<1>4. ASSUME NV!IoScanEnd \/ NV!MutexScanNext \/ NV!MutexScanEnd PROVE NvParts'
  <2> USE DEF NV!IoScanEnd, NV!MutexScanNext, NV!MutexScanEnd, NV!WaitForSleeperOrHalt
  <2>1. UNCHANGED NvFrame
    BY <1>4 DEF NvFrame, NV!fiberVars, NV!queueVars, NV!mutexVars
  <2>2. /\ sched' \in {"main", "loop", "mutex"} /\ sched \notin {"fiber", "exited"} /\ driver' = driver /\ UNCHANGED <<g_mutex_count, now, readable>> /\ last_now' \in 0..now
    BY <1>0, <1>4 DEF NvParts, LoopOK, NV!mutexVars, NV!envVars
  <2>3. scan' \in Scans /\ (sched' = "mutex" => scan'.mutex > 0 /\ scan'.at > 0)
    <3>1. PICK a \in Nat : a = 1
      OBVIOUS
    <3>2. CASE NV!IoScanEnd \/ NV!MutexScanEnd
      BY <1>0, <3>2
    <3>3. CASE NV!MutexScanNext
      <4>1. PICK m \in Nat : m = scan.mutex + 1 /\ m > 0
        BY <1>0 DEF Scans
      <4>2. ScanList(scan', scan, a, m)
        BY <3>1, <3>3, <4>1 DEF ScanList
      <4>7. scan' \in Scans /\ scan'.at = a /\ scan'.mutex = m
        BY <1>0, <4>2, ScanMoves
      <4>8. a > 0
        BY <3>1
      <4>3. QED
        BY <3>1, <4>2, <4>1, <4>7, <4>8
    <3>4. QED
      BY <1>4, <3>2, <3>3
  <2> HIDE DEF NV!IoScanEnd, NV!MutexScanNext, NV!MutexScanEnd, NV!WaitForSleeperOrHalt
  <2>4. ClockOK' /\ InFiberOnly' /\ LoopOK'
    BY <2>1, <2>2, <2>3 DEF NvFrame, NvParts, ClockOK, InFiberOnly, LoopOK, NV!Spawned, Scans
  <2>5. QED
    BY <2>1, <2>4, NvLoopStep
<1>5. ASSUME NV!MutexNew PROVE NvParts'
  <2>1. UNCHANGED NvFrame
    BY <1>5 DEF NV!MutexNew, NvFrame, NV!fiberVars, NV!queueVars, NV!mutexVars
  <2>2. g_mutex_count' \in 0..NATVAR_MUTEX_MAX
    BY <1>0, <1>5 DEF NV!MutexNew, NvParts, LoopOK
  <2>3. ClockOK' /\ InFiberOnly' /\ LoopOK'
    BY <1>5, <2>1, <2>2 DEF NV!MutexNew, NvFrame, NV!loopVars, NV!envVars, NvParts, ClockOK, InFiberOnly, LoopOK, NV!Spawned
  <2>4. QED
    BY <2>1, <2>3, NvLoopStep
<1>6. QED
  BY <1>1, <1>2, <1>3, <1>4, <1>5

\* A fiber that makes a call is the running one.
LEMMA NvRunning ==
  ASSUME NV!NatVarAssumption, Here, InFiberOnly, NEW c, NV!Inside(c)
  PROVE  /\ running # NV!Main /\ running \in 1..g_fiber_count /\ running \in NV!Fibers
         /\ state[running] = "RUNNING" /\ call[running] = c /\ 1..g_fiber_count \subseteq NV!Fibers
<1>1. running # NV!Main /\ call[running] = c
  BY DEF NV!Inside, InFiberOnly
<1>2. running \in 1..g_fiber_count /\ state[running] = "RUNNING"
  BY <1>1 DEF Here, CoreIs, ShapeIs, ReadyIs, NV!Main
<1>3. QED
  BY <1>1, <1>2, CoreFacts DEF Here

\* A switch back to the loop.
LEMMA NvSwitch ==
  ASSUME NV!NatVarAssumption, NvParts, NV!SwitchBack, UNCHANGED g_mutex_count
  PROVE  /\ LoopOK' /\ InFiberOnly' /\ running' = NV!Main
         /\ now' = now /\ readable' = readable /\ last_now' \in 0..now
<1>1. sched' = "loop" /\ driver' = "loop" /\ running' = NV!Main /\ last_now' = now
      /\ UNCHANGED <<scan, now, readable>>
  BY DEF NV!SwitchBack, NvParts, LoopOK, NV!envVars
<1>2. now \in 0..now
  BY DEF NvParts, ClockOK, NV!NatVarAssumption
<1>3. QED
  BY <1>1, <1>2 DEF LoopOK, InFiberOnly, NvParts

\* natvar_spawn: the new fiber joins the ready queue.
LEMMA NvSpawn ==
  ASSUME NV!NatVarAssumption, NvParts, NV!FiberSpawn
  PROVE  NvParts'
<1> USE DEF NV!FiberSpawn, NV!mutexVars, NV!loopVars, NV!envVars
<1> PICK n : n = g_fiber_count
  OBVIOUS
<1>1. /\ n \in Nat /\ n < FIBER_MAX /\ g_fiber_count' = n + 1 /\ 1..n \subseteq 1..(n + 1)
      /\ 1..n \subseteq NV!Fibers /\ 1..(n + 1) \subseteq NV!Fibers /\ n + 1 \notin 1..n /\ n + 1 \in NV!Fibers
      /\ \A f \in 1..(n + 1) : f \in 1..n \/ f = n + 1
  BY CoreFacts DEF NvParts, Here, NV!Fibers, NV!NatVarAssumption
<1> PICK m : m = n + 1
  OBVIOUS
<1>2. /\ state' = [state EXCEPT ![m] = "READY"] /\ ready' = Append(ready, m) /\ g_fiber_count' = m
      /\ UNCHANGED <<running, sleeping, io_waiters, g_done_count>>
  BY <1>1 DEF NV!ReadyPush
<1>3. \A f \in NV!Fibers : state'[f] = IF f = m THEN "READY" ELSE state[f]
  BY <1>2 DEF NvParts, Here, CoreIs, ShapeIs
<1>4. Here'
  <2>1. CoreIs(ready, state, running, n, sleeping, io_waiters, g_done_count)
    BY DEF NvParts, Here
  <2>2. CoreIs(Append(ready, n + 1), [state EXCEPT ![n + 1] = "READY"], running, n + 1, sleeping, io_waiters, g_done_count)
    BY <1>1, <2>1, CoreSpawn
  <2>3. CoreIs(Append(ready, m), [state EXCEPT ![m] = "READY"], running, m, sleeping, io_waiters, g_done_count)
    BY <2>2
  <2>4. QED
    BY <1>2, <2>3 DEF Here
<1>5. ClockOK' /\ InFiberOnly' /\ LoopOK' /\ CallsOK'
  BY <1>1, <1>2 DEF NvParts, ClockOK, InFiberOnly, LoopOK, CallsOK, NV!Spawned
<1>6. WaitIs(mutex, state, wait_on, g_fiber_count)'
  <2>1. WaitIs(mutex, state', wait_on, m)
    <3>1. /\ \A f \in 1..m : f \in 1..n \/ f = m
          /\ m \notin 1..n /\ 1..n \subseteq 1..m /\ 1..m \subseteq NV!Fibers
      BY <1>1
    <3>2. WaitIs(mutex, state, wait_on, n)
      BY DEF NvParts
    <3>3. QED
      BY <1>3, <3>1, <3>2 DEF WaitIs
  <2>2. QED
    BY <2>1, <1>2
<1>7. LocksOK'
  <2>1. \A f \in NV!Fibers : NV!LockCallOK(f)'
    BY <1>1, <1>3 DEF NvParts, LocksOK, NV!LockCallOK, NV!Spawned
  <2>2. QED
    BY <2>1 DEF NvParts, LocksOK, NV!OwnerExact
<1>8. QED
  BY <1>4, <1>5, <1>6, <1>7 DEF NvParts

\* A fiber in its own code that ends, yields or sleeps.
LEMMA NvGivesWay ==
  ASSUME NV!NatVarAssumption, NvParts, NV!FiberFinish \/ NV!FiberYield \/ \E ms \in Delays : NV!FiberSleep(ms)
  PROVE  NvParts'
<1>1. /\ running # NV!Main /\ running \in 1..g_fiber_count /\ running \in NV!Fibers
      /\ state[running] = "RUNNING" /\ call[running] = "body" /\ 1..g_fiber_count \subseteq NV!Fibers
  BY NvRunning DEF NvParts, NV!FiberFinish, NV!FiberYield, NV!FiberSleep, NV!InFiber
<1>2. PICK s \in {"DONE", "READY", "SLEEPING"} : state' = [state EXCEPT ![running] = s]
  BY DEF NV!FiberFinish, NV!FiberYield, NV!FiberSleep
<1>3. /\ NV!SwitchBack /\ UNCHANGED <<g_mutex_count, g_fiber_count, mutex, holders, wait_on, wake_result, call, joining, io_waiters>>
  BY DEF NV!FiberFinish, NV!FiberYield, NV!FiberSleep, NV!mutexVars
<1>4. \A f \in NV!Fibers : state'[f] = IF f = running THEN s ELSE state[f]
  BY <1>2 DEF NvParts, Here, CoreIs, ShapeIs
<1>5. Here'
  <2>1. CASE NV!FiberFinish
    <3>1. CoreIs(ready, [state EXCEPT ![running] = "DONE"], NV!Main, g_fiber_count, sleeping, io_waiters, g_done_count + 1)
      BY <1>1, CoreFinish DEF NvParts, Here
    <3>2. QED
      BY <2>1, <3>1 DEF NV!FiberFinish, Here, NV!SwitchBack
  <2>2. CASE NV!FiberYield
    <3>1. CoreIs(Append(ready, running), [state EXCEPT ![running] = "READY"], NV!Main, g_fiber_count, sleeping, io_waiters, g_done_count)
      BY <1>1, CoreYield DEF NvParts, Here
    <3>2. QED
      BY <2>2, <3>1 DEF NV!FiberYield, Here, NV!SwitchBack, NV!ReadyPush
  <2>3. CASE \E ms \in Delays : NV!FiberSleep(ms)
    <3>1. CoreIs(ready, [state EXCEPT ![running] = "SLEEPING"], NV!Main, g_fiber_count,
                 IF Cardinality(sleeping) < TIMER_MAX THEN sleeping \cup {running} ELSE sleeping, io_waiters, g_done_count)
      BY <1>1, CoreSleep DEF NvParts, Here
    <3>2. QED
      BY <2>3, <3>1, NvCard DEF NV!FiberSleep, Here, NV!SwitchBack, NV!Registered
  <2>4. QED
    BY <2>1, <2>2, <2>3
<1>6. LoopOK' /\ InFiberOnly' /\ now' = now /\ readable' = readable /\ last_now' \in 0..now
  BY <1>3, NvSwitch
<1>7. ClockOK'
  <2>1. until' \in [NV!Fibers -> 0..(MaxTime + 1)]
    <3>1. CASE UNCHANGED until
      BY <3>1 DEF NvParts, ClockOK
    <3>2. CASE \E ms \in Delays : NV!FiberSleep(ms)
      <4>1. PICK ms \in Delays : NV!FiberSleep(ms)
        BY <3>2
      <4>2. PICK u : u = now + ms
        OBVIOUS
      <4>3. u \in 0..(MaxTime + 1)
        <5>1. ms \in Nat /\ now \in Nat /\ MaxTime \in Nat /\ now + ms =< MaxTime
          BY <4>1 DEF NV!FiberSleep, NV!NatVarAssumption, NvParts, ClockOK
        <5>2. QED
          BY <4>2, <5>1
      <4>4. until' = [until EXCEPT ![running] = u]
        BY <4>1, <4>2 DEF NV!FiberSleep
      <4>5. QED
        BY <4>3, <4>4 DEF NvParts, ClockOK
    <3>3. QED
      BY <3>1, <3>2 DEF NV!FiberFinish, NV!FiberYield
  <2>2. QED
    BY <1>3, <1>6, <2>1 DEF NvParts, ClockOK, NV!Spawned
<1>8. CallsOK'
  BY <1>3 DEF NvParts, CallsOK
<1>9. WaitIs(mutex, state, wait_on, g_fiber_count)'
  <2>1. WaitIs(mutex, state', wait_on, g_fiber_count)
    BY <1>1, <1>4, WaitFrame DEF NvParts
  <2>2. QED
    BY <2>1, <1>3
<1>10. LocksOK'
  <2>1. \A f \in NV!Fibers : NV!LockCallOK(f)'
    BY <1>1, <1>3, <1>4 DEF NvParts, LocksOK, NV!LockCallOK, NV!Spawned
  <2>2. QED
    BY <1>3, <2>1 DEF NvParts, LocksOK, NV!OwnerExact
<1>11. QED
  BY <1>5, <1>6, <1>7, <1>8, <1>9, <1>10 DEF NvParts

\* natvar_join: the caller waits until the fiber it names is done.
LEMMA NvJoin ==
  ASSUME NV!NatVarAssumption, NvParts, NEW h \in NV!Fibers, NV!FiberJoin(h)
  PROVE  NvParts'
<1>1. /\ running # NV!Main /\ running \in 1..g_fiber_count /\ running \in NV!Fibers
      /\ state[running] = "RUNNING" /\ call[running] \in {"body", "join"} /\ 1..g_fiber_count \subseteq NV!Fibers
  BY NvRunning DEF NvParts, NV!FiberJoin, NV!InFiber
<1>2. /\ UNCHANGED <<g_fiber_count, until, wake_result, ready, sleeping, io_waiters, g_done_count, mutex, g_mutex_count, holders>>
  BY DEF NV!FiberJoin, NV!mutexVars
<1>3. PICK w \in NV!Fibers \cup {0} : wait_on' = [wait_on EXCEPT ![running] = w]
  BY DEF NV!FiberJoin
<1>4. PICK c \in {"body", "join"} : call' = [call EXCEPT ![running] = c]
  BY DEF NV!FiberJoin
<1>5. /\ \A f \in NV!Fibers : f # running => wait_on'[f] = wait_on[f] /\ call'[f] = call[f]
      /\ call'[running] \in {"body", "join"}
      /\ CallsOK'
  BY <1>1, <1>2, <1>3, <1>4 DEF NvParts, CallsOK
<1>6. /\ Here' /\ InFiberOnly' /\ LoopOK' /\ UNCHANGED <<now, readable>> /\ last_now' \in 0..now /\ joining' \subseteq NV!Spawned
      /\ \A f \in NV!Fibers : f # running => state'[f] = state[f]
      /\ state'[running] \in {"RUNNING", "WAITING_JOIN"}
  <2>1. CASE h \in NV!Spawned /\ state[h] # "DONE"
    <3>1. /\ NV!SwitchBack /\ state' = [state EXCEPT ![running] = "WAITING_JOIN"]
          /\ joining' = NV!Registered(joining, running)
      BY <2>1 DEF NV!FiberJoin
    <3>2. CoreIs(ready, [state EXCEPT ![running] = "WAITING_JOIN"], NV!Main, g_fiber_count, sleeping, io_waiters, g_done_count)
      BY <1>1, CorePark DEF NvParts, Here, Waits
    <3>3. Here'
      BY <1>2, <3>1, <3>2 DEF Here, NV!SwitchBack
    <3>4. joining' \subseteq NV!Spawned
      BY <1>1, <3>1 DEF NvParts, ClockOK, NV!Registered, NV!Spawned
    <3>5. \A f \in NV!Fibers : state'[f] = IF f = running THEN "WAITING_JOIN" ELSE state[f]
      BY <3>1 DEF NvParts, Here, CoreIs, ShapeIs
    <3>6. QED
      BY <1>1, <1>2, <3>1, <3>3, <3>4, <3>5, NvSwitch
  <2>2. CASE ~(h \in NV!Spawned /\ state[h] # "DONE")
    <3>1. UNCHANGED <<state, joining, running, NV!loopVars, NV!envVars>>
      BY <2>2 DEF NV!FiberJoin
    <3>2. QED
      BY <1>1, <1>2, <3>1 DEF NvParts, Here, InFiberOnly, LoopOK, ClockOK, NV!loopVars, NV!envVars
  <2>3. QED
    BY <2>1, <2>2
<1>7. ClockOK'
  BY <1>2, <1>6 DEF NvParts, ClockOK, NV!Spawned
<1>8. WaitIs(mutex, state, wait_on, g_fiber_count)'
  <2>1. WaitIs(mutex, state', wait_on', g_fiber_count)
    BY <1>1, <1>5, <1>6, WaitFrame DEF NvParts
  <2>2. QED
    BY <2>1, <1>2
<1>9. LocksOK'
  <2>1. \A f \in NV!Fibers : NV!LockCallOK(f)'
    BY <1>1, <1>2, <1>5, <1>6 DEF NvParts, LocksOK, NV!LockCallOK, NV!Spawned
  <2>2. \A m \in NV!Mutexes : NV!OwnerExact(m)'
    BY <1>2, <1>5 DEF NvParts, LocksOK, NV!OwnerExact
  <2>3. QED
    BY <1>2, <2>1, <2>2 DEF NvParts, LocksOK
<1>10. QED
  BY <1>5, <1>6, <1>7, <1>8, <1>9 DEF NvParts

\* Before the first fiber, and after a reset.
LEMMA CoreStart ==
  ASSUME NV!NatVarAssumption, NEW st, st = [f \in NV!Fibers |-> "NONE"]
  PROVE  CoreIs(<<>>, st, NV!Main, 0, {}, <<>>, 0)
<1>1. \A x : x \notin 1..Len(<<>>)
  BY EmptySeq
<1>2. \A x : x \notin 1..0
  OBVIOUS
<1>3. NV!NoDuplicates(<<>>) /\ \A x : x \notin NV!Queued(<<>>)
  BY <1>1 DEF NV!NoDuplicates, NV!Queued
<1>4. ShapeIs(<<>>, st, NV!Main, 0, {}, <<>>)
  BY <1>2 DEF ShapeIs, NV!FiberStates, NV!Main, NV!NatVarAssumption
<1>5. {f \in 1..0 : st[f] = "DONE"} = {}
  BY <1>2
<1>6. DoneIs(st, 0, 0)
  BY <1>5, FS_EmptySet DEF DoneIs
<1>7. QED
  BY <1>2, <1>3, <1>4, <1>6 DEF CoreIs, ReadyIs, SleepIs

\* When as many fibers have finished as were spawned, all have.
LEMMA AllDoneFacts ==
  ASSUME NV!NatVarAssumption, Here, g_done_count = g_fiber_count
  PROVE  \A f \in 1..g_fiber_count : state[f] = "DONE"
<1> PICK D : D = {f \in 1..g_fiber_count : state[f] = "DONE"}
  OBVIOUS
<1>1. D \in SUBSET (1..g_fiber_count) /\ IsFiniteSet(1..g_fiber_count) /\ Cardinality(1..g_fiber_count) = g_fiber_count
  BY CoreFacts DEF Here
<1>2. Cardinality(D) = g_fiber_count
  BY DEF Here, CoreIs, DoneIs
<1>3. D = 1..g_fiber_count
  BY <1>1, <1>2, FS_Subset
<1>4. QED
  BY <1>3

\* natvar_reset: everything starts over, from main only.
LEMMA NvReset ==
  ASSUME NV!NatVarAssumption, NvParts, NV!FiberReset
  PROVE  NvParts'
<1> USE DEF NV!FiberReset
<1>1. /\ g_fiber_count' = 0 /\ state' = [f \in NV!Fibers |-> "NONE"] /\ ready' = <<>> /\ running' = NV!Main
      /\ sleeping' = {} /\ joining' = {} /\ io_waiters' = <<>> /\ g_done_count' = 0
      /\ UNCHANGED <<mutex, g_mutex_count, NV!loopVars, NV!envVars>>
  OBVIOUS
<1>2. Here'
  <2>1. CoreIs(<<>>, state', NV!Main, 0, {}, <<>>, 0)
    BY <1>1, CoreStart
  <2>2. QED
    BY <1>1, <2>1 DEF Here
<1>3. ClockOK' /\ InFiberOnly' /\ LoopOK' /\ CallsOK'
  <2>1. MaxTime \in Nat
    BY DEF NV!NatVarAssumption
  <2>2. ClockOK' /\ LoopOK' /\ CallsOK'
    BY <1>1, <2>1 DEF NvParts, ClockOK, LoopOK, CallsOK, NV!loopVars, NV!envVars
  <2>3. InFiberOnly'
    BY <1>1 DEF InFiberOnly, NV!loopVars
  <2>4. QED
    BY <2>2, <2>3
<1>4. WaitIs(mutex, state, wait_on, g_fiber_count)'
  <2>1. \A f \in 1..g_fiber_count : state[f] = "DONE"
    BY AllDoneFacts DEF NvParts
  <2>2. \A x : x \notin 1..0
    OBVIOUS
  <2>3. \A m \in NV!Mutexes : NV!NoDuplicates(mutex[m].waiters) /\ \A x : x \notin NV!Queued(mutex[m].waiters)
    BY <2>1 DEF NvParts, WaitIs
  <2>4. WaitIs(mutex, state', wait_on', 0)
    BY <2>2, <2>3 DEF NvParts, WaitIs
  <2>5. QED
    BY <1>1, <2>4
<1>5. LocksOK'
  <2>1. \A f \in NV!Fibers : state'[f] = "NONE" /\ call'[f] = "body"
    OBVIOUS
  <2>2. \A m \in NV!Mutexes : holders'[m] \subseteq holders[m]
    OBVIOUS
  <2>3. \A f \in NV!Fibers : NV!LockCallOK(f)'
    BY <2>1 DEF NV!LockCallOK
  <2>4. \A m \in NV!Mutexes : NV!OwnerExact(m)'
    BY <1>1, <2>1, <2>2 DEF NvParts, LocksOK, NV!OwnerExact
  <2>5. holders' \in [NV!Mutexes -> SUBSET (0..FIBER_MAX)]
    BY <2>2 DEF NvParts, LocksOK
  <2>6. QED
    BY <2>3, <2>4, <2>5 DEF LocksOK
<1>6. QED
  BY <1>2, <1>3, <1>4, <1>5 DEF NvParts

\* No fiber at first.
LEMMA NvInit ==
  ASSUME NV!NatVarAssumption, NV!Init
  PROVE  NvParts
<1> USE DEF NV!Init
<1>1. Here
  <2>1. state = [f \in NV!Fibers |-> "NONE"]
    OBVIOUS
  <2>2. CoreIs(<<>>, state, NV!Main, 0, {}, <<>>, 0)
    BY ONLY NV!NatVarAssumption, <2>1, CoreStart
  <2>3. ready = <<>> /\ running = NV!Main /\ g_fiber_count = 0 /\ sleeping = {} /\ io_waiters = <<>> /\ g_done_count = 0
    BY DEF NV!Main
  <2>4. QED
    BY ONLY <2>2, <2>3 DEF Here
<1>2. MaxTime \in Nat /\ FIBER_MAX \in Nat /\ NATVAR_MUTEX_MAX \in Nat
  BY DEF NV!NatVarAssumption
<1>3. ClockOK /\ InFiberOnly
  BY <1>2 DEF ClockOK, InFiberOnly, NV!Main
<1>4. LoopOK
  BY <1>2 DEF LoopOK, NV!NoScan
<1>5. CallsOK
  BY DEF CallsOK
<1>6. WaitIs(mutex, state, wait_on, g_fiber_count)
  <2>1. \A x : x \notin 1..Len(<<>>)
    BY EmptySeq
  <2>2. \A x : x \notin 1..0
    OBVIOUS
  <2>3. NV!NoDuplicates(<<>>) /\ NV!Queued(<<>>) \subseteq 1..0
    BY <2>1 DEF NV!NoDuplicates, NV!Queued
  <2>4. <<>> \in Seq(NV!Fibers)
    BY EmptySeq
  <2>5. WaitIs(mutex, state, wait_on, 0)
    BY <1>2, <2>2, <2>3, <2>4 DEF WaitIs
  <2>6. QED
    BY <2>5
<1>7. LocksOK
  BY DEF LocksOK, NV!LockCallOK, NV!OwnerExact
<1>8. QED
  BY <1>1, <1>3, <1>4, <1>5, <1>6, <1>7 DEF NvParts

\* A fiber reads a socket: what is readable is taken, else it waits in the list.
LEMMA NvNetRecv ==
  ASSUME NV!NatVarAssumption, NvParts, NEW s \in Sockets, NEW ms \in Timeouts, NV!FiberNetRecv(s, ms)
  PROVE  NvParts'
<1>1. /\ running # NV!Main /\ running \in 1..g_fiber_count /\ running \in NV!Fibers
      /\ state[running] = "RUNNING" /\ call[running] \in {"body", "net"} /\ 1..g_fiber_count \subseteq NV!Fibers
  BY NvRunning DEF NvParts, NV!FiberNetRecv, NV!InFiber
<1>2. UNCHANGED <<g_fiber_count, wake_result, ready, sleeping, joining, g_done_count, mutex, g_mutex_count, holders>>
  BY DEF NV!FiberNetRecv, NV!mutexVars
<1>3. PICK w \in Sockets \cup {0} : wait_on' = [wait_on EXCEPT ![running] = w]
  BY DEF NV!FiberNetRecv
<1>4. PICK c \in {"body", "net"} : call' = [call EXCEPT ![running] = c]
  BY DEF NV!FiberNetRecv
<1>5. /\ \A f \in NV!Fibers : f # running => wait_on'[f] = wait_on[f] /\ call'[f] = call[f]
      /\ call'[running] \in {"body", "net"}
      /\ CallsOK'
  BY <1>1, <1>2, <1>3, <1>4 DEF NvParts, CallsOK
<1>6. /\ Here' /\ InFiberOnly' /\ LoopOK' /\ now' = now /\ readable' \subseteq Sockets /\ last_now' \in 0..now
      /\ until' \in [NV!Fibers -> 0..(MaxTime + 1)]
      /\ \A f \in NV!Fibers : f # running => state'[f] = state[f]
      /\ state'[running] \in {"RUNNING", "WAITING_IO"}
  <2>1. CASE s \notin readable
    <3>1. /\ NV!SwitchBack /\ state' = [state EXCEPT ![running] = "WAITING_IO"]
          /\ io_waiters' = IF Len(io_waiters) < NATVAR_IO_MAX THEN Append(io_waiters, running) ELSE io_waiters
          /\ until' = [until EXCEPT ![running] = IF ms > 0 THEN NV!Deadline(ms) ELSE 0]
      BY <2>1 DEF NV!FiberNetRecv
    <3>2. CoreIs(ready, [state EXCEPT ![running] = "WAITING_IO"], NV!Main, g_fiber_count, sleeping,
                 IF Len(io_waiters) < NATVAR_IO_MAX THEN Append(io_waiters, running) ELSE io_waiters, g_done_count)
      BY <1>1, CoreParkIo DEF NvParts, Here
    <3>3. Here'
      BY <1>2, <3>1, <3>2 DEF Here, NV!SwitchBack
    <3>4. (IF ms > 0 THEN NV!Deadline(ms) ELSE 0) \in 0..(MaxTime + 1)
      <4>1. ms \in Nat /\ now \in Nat /\ MaxTime \in Nat
        BY DEF NV!NatVarAssumption, NvParts, ClockOK
      <4>2. QED
        BY <4>1 DEF NV!Deadline
    <3>5. until' \in [NV!Fibers -> 0..(MaxTime + 1)]
      BY <3>1, <3>4 DEF NvParts, ClockOK
    <3>6. \A f \in NV!Fibers : state'[f] = IF f = running THEN "WAITING_IO" ELSE state[f]
      BY <3>1 DEF NvParts, Here, CoreIs, ShapeIs
    <3>7. readable' \subseteq Sockets
      BY <1>2, <3>1, NvSwitch DEF NvParts, ClockOK
    <3>8. QED
      BY <1>1, <1>2, <3>1, <3>3, <3>5, <3>6, <3>7, NvSwitch
  <2>2. CASE s \in readable
    <3>1. UNCHANGED <<state, until, running, io_waiters, NV!loopVars, now>> /\ readable' = readable \ {s}
      BY <2>2 DEF NV!FiberNetRecv
    <3>2. QED
      BY <1>1, <1>2, <3>1 DEF NvParts, Here, InFiberOnly, LoopOK, ClockOK, NV!loopVars
  <2>3. QED
    BY <2>1, <2>2
<1>7. ClockOK'
  BY <1>2, <1>6 DEF NvParts, ClockOK, NV!Spawned
<1>8. WaitIs(mutex, state, wait_on, g_fiber_count)'
  <2>1. WaitIs(mutex, state', wait_on', g_fiber_count)
    BY <1>1, <1>5, <1>6, WaitFrame DEF NvParts
  <2>2. QED
    BY <2>1, <1>2
<1>9. LocksOK'
  <2>1. \A f \in NV!Fibers : NV!LockCallOK(f)'
    BY <1>1, <1>2, <1>5, <1>6 DEF NvParts, LocksOK, NV!LockCallOK, NV!Spawned
  <2>2. \A m \in NV!Mutexes : NV!OwnerExact(m)'
    BY <1>2, <1>5 DEF NvParts, LocksOK, NV!OwnerExact
  <2>3. QED
    BY <1>2, <2>1, <2>2 DEF NvParts, LocksOK
<1>10. QED
  BY <1>5, <1>6, <1>7, <1>8, <1>9 DEF NvParts

MutexRecords == [locked : BOOLEAN, owner : 0..FIBER_MAX, waiters : Seq(NV!Fibers)]

\* One fiber leaves the wait list of mutex m, or joins it.
LEMMA WaitChange ==
  ASSUME NEW mx, NEW st, NEW wo, NEW n, WaitIs(mx, st, wo, n), NEW m \in NV!Mutexes, NEW f \in 1..n,
         NEW m2 \in [NV!Mutexes -> MutexRecords], NEW s2, NEW w2,
         \A j \in NV!Mutexes : j # m => m2[j].waiters = mx[j].waiters,
         \A g \in 1..n : g # f => s2[g] = st[g] /\ w2[g] = wo[g],
         NV!NoDuplicates(m2[m].waiters),
         \/ /\ st[f] = "WAITING_MUTEX" /\ wo[f] = m /\ s2[f] # "WAITING_MUTEX"
            /\ NV!Queued(m2[m].waiters) = NV!Queued(mx[m].waiters) \ {f}
         \/ /\ st[f] # "WAITING_MUTEX" /\ s2[f] = "WAITING_MUTEX" /\ w2[f] = m
            /\ NV!Queued(m2[m].waiters) = NV!Queued(mx[m].waiters) \cup {f}
  PROVE  WaitIs(m2, s2, w2, n)
<1>1. \A j \in NV!Mutexes : j # m => /\ NV!NoDuplicates(m2[j].waiters) /\ NV!Queued(m2[j].waiters) \subseteq 1..n
         /\ \A g \in 1..n : g \in NV!Queued(m2[j].waiters) <=> (s2[g] = "WAITING_MUTEX" /\ w2[g] = j)
  BY DEF WaitIs
<1>2. /\ NV!Queued(m2[m].waiters) \subseteq 1..n
      /\ \A g \in 1..n : g \in NV!Queued(m2[m].waiters) <=> (s2[g] = "WAITING_MUTEX" /\ w2[g] = m)
  BY DEF WaitIs
<1>3. QED
  BY <1>1, <1>2 DEF WaitIs, MutexRecords

\* What is known of a fiber in a wait list.
LEMMA NvWaiter ==
  ASSUME NV!NatVarAssumption, NvParts, NEW m \in NV!Mutexes, NEW i \in 1..Len(mutex[m].waiters), NEW f,
         f = mutex[m].waiters[i]
  PROVE  /\ f \in 1..g_fiber_count /\ f \in NV!Fibers /\ state[f] = "WAITING_MUTEX" /\ wait_on[f] = m
         /\ call[f] = "lock" /\ wake_result[f] = -1 /\ 1..g_fiber_count \subseteq NV!Fibers
<1>1. f \in NV!Queued(mutex[m].waiters)
  BY DEF NV!Queued
<1>2. f \in 1..g_fiber_count /\ state[f] = "WAITING_MUTEX" /\ wait_on[f] = m
  BY <1>1 DEF NvParts, WaitIs
<1>3. 1..g_fiber_count \subseteq NV!Fibers
  BY CoreFacts DEF NvParts, Here
<1>4. QED
  BY <1>2, <1>3 DEF NvParts, LocksOK, NV!LockCallOK

\* The loop moves a fiber that is due to the ready queue, and resumes the first.
LEMMA NvDispatch ==
  ASSUME NV!NatVarAssumption, NvParts, NV!LoopDispatch
  PROVE  NvParts'
<1>1. /\ sched = "loop" /\ running = NV!Main /\ sched' \in {"fiber", "exited"}
      /\ UNCHANGED <<g_fiber_count, until, wait_on, wake_result, call, joining, io_waiters, g_done_count,
                     mutex, g_mutex_count, holders, driver, scan, last_now, now, readable>>
  BY DEF NV!LoopDispatch, NV!SwitchTo, NV!mutexVars, NV!envVars, NvParts, InFiberOnly
<1>2. /\ Here' /\ running' # NV!Main
      /\ \A g \in NV!Fibers : \/ state'[g] = state[g]
                              \/ state[g] \in {"READY", "SLEEPING"} /\ state'[g] \in {"READY", "RUNNING"}
  <2>1. CASE \E f \in NV!Earliest(last_now) : /\ sleeping' = sleeping \ {f}
                                              /\ NV!SwitchTo([state EXCEPT ![f] = "READY"], Append(ready, f))
    <3>1. PICK f \in NV!Earliest(last_now) : /\ sleeping' = sleeping \ {f}
                                             /\ NV!SwitchTo([state EXCEPT ![f] = "READY"], Append(ready, f))
      BY <2>1
    <3>2. f \in sleeping /\ state[f] = "SLEEPING"
      BY DEF NV!Earliest, NV!Due
    <3>3. PICK s2 : s2 = [state EXCEPT ![f] = "READY"]
      OBVIOUS
    <3>4. PICK q2 : q2 = Append(ready, f)
      OBVIOUS
    <3>5. CoreIs(q2, s2, NV!Main, g_fiber_count, sleeping', io_waiters, g_done_count)
      BY <1>1, <3>1, <3>2, <3>3, <3>4, CoreWakeSleeper DEF NvParts, Here
    <3>6. q2 # <<>> /\ ready' = Tail(q2) /\ running' = Head(q2) /\ state' = [s2 EXCEPT ![Head(q2)] = "RUNNING"]
      BY <3>1, <3>3, <3>4 DEF NV!SwitchTo
    <3>7. CoreIs(Tail(q2), [s2 EXCEPT ![Head(q2)] = "RUNNING"], Head(q2), g_fiber_count, sleeping', io_waiters, g_done_count)
      BY <3>5, <3>6, CoreRun
    <3>8. Here'
      BY <1>1, <3>6, <3>7 DEF Here
    <3>9. Head(q2) \in 1..g_fiber_count /\ Head(q2) \in NV!Queued(q2)
      BY <3>5, <3>6, QueueTail DEF CoreIs, ShapeIs, ReadyIs
    <3>10. s2[Head(q2)] = "READY" /\ running' # NV!Main
      BY <3>5, <3>6, <3>9 DEF CoreIs, ReadyIs, NV!Main
    <3>11. \A g \in NV!Fibers : /\ s2[g] = IF g = f THEN "READY" ELSE state[g]
                                /\ state'[g] = IF g = running' THEN "RUNNING" ELSE s2[g]
      <4>1. state \in [NV!Fibers -> NV!FiberStates] /\ s2 \in [NV!Fibers -> NV!FiberStates]
        BY <3>5 DEF NvParts, Here, CoreIs, ShapeIs
      <4>2. QED
        BY <3>3, <3>6, <4>1
    <3>12. QED
      BY <3>2, <3>6, <3>8, <3>10, <3>11
  <2>2. CASE UNCHANGED sleeping /\ NV!SwitchTo(state, ready)
    <3>1. ready # <<>> /\ ready' = Tail(ready) /\ running' = Head(ready) /\ state' = [state EXCEPT ![Head(ready)] = "RUNNING"]
      BY <2>2 DEF NV!SwitchTo
    <3>2. CoreIs(Tail(ready), [state EXCEPT ![Head(ready)] = "RUNNING"], Head(ready), g_fiber_count, sleeping, io_waiters, g_done_count)
      BY <1>1, <3>1, CoreRun DEF NvParts, Here
    <3>3. Here'
      BY <1>1, <2>2, <3>1, <3>2 DEF Here
    <3>4. Head(ready) \in 1..g_fiber_count /\ Head(ready) \in NV!Queued(ready)
      BY <3>1, QueueTail DEF NvParts, Here, CoreIs, ShapeIs, ReadyIs
    <3>5. state[Head(ready)] = "READY" /\ running' # NV!Main
      BY <3>1, <3>4 DEF NvParts, Here, CoreIs, ReadyIs, NV!Main
    <3>6. \A g \in NV!Fibers : state'[g] = IF g = running' THEN "RUNNING" ELSE state[g]
      BY <3>1 DEF NvParts, Here, CoreIs, ShapeIs
    <3>7. QED
      BY <3>1, <3>3, <3>5, <3>6
  <2>3. QED
    BY <2>1, <2>2 DEF NV!LoopDispatch
<1>3. ClockOK' /\ InFiberOnly' /\ LoopOK' /\ CallsOK'
  <2>1. sleeping' \subseteq sleeping
    BY DEF NV!LoopDispatch
  <2>2. QED
    BY <1>1, <1>2, <2>1 DEF NvParts, ClockOK, InFiberOnly, LoopOK, CallsOK, NV!Spawned
<1>4. 1..g_fiber_count \subseteq NV!Fibers
  BY CoreFacts DEF NvParts, Here
<1>5. WaitIs(mutex, state, wait_on, g_fiber_count)'
  <2>1. WaitIs(mutex, state', wait_on, g_fiber_count)
    BY <1>2, <1>4, WaitFrame DEF NvParts
  <2>2. QED
    BY <1>1, <2>1
<1>6. LocksOK'
  <2>1. \A f \in NV!Fibers : NV!LockCallOK(f)'
    BY <1>1, <1>2 DEF NvParts, LocksOK, NV!LockCallOK, NV!Spawned
  <2>2. QED
    BY <1>1, <2>1 DEF NvParts, LocksOK, NV!OwnerExact
<1>7. QED
  BY <1>2, <1>3, <1>5, <1>6 DEF NvParts

\* One place of the socket list: ready or timed out it leaves, otherwise it stays.
LEMMA NvIoScan ==
  ASSUME NV!NatVarAssumption, NvParts, NV!IoScan
  PROVE  NvParts'
<1>1. /\ sched = "io" /\ scan.at \in 1..Len(io_waiters)
      /\ UNCHANGED <<g_fiber_count, wait_on, wake_result, call, running, sleeping, joining,
                     g_done_count, mutex, g_mutex_count, holders, sched, driver, last_now, now, readable>>
  <2>1. scan.at \in Nat /\ scan.at > 0 /\ scan.at =< Len(io_waiters)
    BY DEF NV!IoScan, NvParts, LoopOK
  <2>2. Len(io_waiters) \in Nat
    BY LenProperties DEF NvParts, Here, CoreIs, ShapeIs
  <2>3. QED
    BY <2>1, <2>2 DEF NV!IoScan, NV!mutexVars, NV!envVars
<1>2. PICK i : i = scan.at
  OBVIOUS
<1>3. PICK f : f = io_waiters[i]
  OBVIOUS
<1>4. f \in 1..g_fiber_count /\ f \in NV!Fibers /\ state[f] = "WAITING_IO" /\ 1..g_fiber_count \subseteq NV!Fibers
  <2>1. f \in NV!Queued(io_waiters)
    BY <1>1, <1>2, <1>3 DEF NV!Queued
  <2>2. QED
    BY <2>1, CoreFacts DEF NvParts, Here, CoreIs, SleepIs
<1>5. CASE /\ state' = [state EXCEPT ![f] = "READY"] /\ until' = [until EXCEPT ![f] = 0]
           /\ ready' = Append(ready, f) /\ io_waiters' = NV!RemoveAt(io_waiters, i) /\ UNCHANGED scan
  <2>1. CoreIs(Append(ready, io_waiters[i]), [state EXCEPT ![io_waiters[i]] = "READY"], running, g_fiber_count,
               sleeping, NV!RemoveAt(io_waiters, i), g_done_count)
    BY <1>1, <1>2, CoreWakeIo DEF NvParts, Here
  <2>2. Here'
    BY <1>1, <1>3, <1>5, <2>1 DEF Here
  <2>3. until' \in [NV!Fibers -> 0..(MaxTime + 1)]
    <3>1. 0 \in 0..(MaxTime + 1)
      BY DEF NV!NatVarAssumption
    <3>2. until \in [NV!Fibers -> 0..(MaxTime + 1)]
      BY DEF NvParts, ClockOK
    <3>3. QED
      BY <1>5, <3>1, <3>2
  <2>4. ClockOK' /\ InFiberOnly' /\ LoopOK' /\ CallsOK'
    BY <1>1, <1>5, <2>3 DEF NvParts, ClockOK, InFiberOnly, LoopOK, CallsOK, NV!Spawned
  <2>5. \A g \in NV!Fibers : state'[g] = IF g = f THEN "READY" ELSE state[g]
    BY <1>5 DEF NvParts, Here, CoreIs, ShapeIs
  <2>6. WaitIs(mutex, state', wait_on, g_fiber_count)
    BY <1>4, <2>5, WaitFrame DEF NvParts
  <2>7. WaitIs(mutex, state, wait_on, g_fiber_count)'
    BY <1>1, <2>6
  <2>8. LocksOK'
    <3>1. \A g \in NV!Fibers : NV!LockCallOK(g)'
      BY <1>1, <1>4, <2>5 DEF NvParts, LocksOK, NV!LockCallOK, NV!Spawned
    <3>2. QED
      BY <1>1, <3>1 DEF NvParts, LocksOK, NV!OwnerExact
  <2>9. QED
    BY <2>2, <2>4, <2>7, <2>8 DEF NvParts
<1>6. CASE scan' = [scan EXCEPT !.at = @ + 1] /\ UNCHANGED <<state, until, ready, io_waiters>>
  <2>1. PICK a \in Nat : a = scan.at + 1 /\ a > 0
    BY <1>1
  <2>2. ScanAt(scan', scan, a) /\ scan \in Scans
    BY <1>6, <2>1 DEF ScanAt, NvParts, LoopOK, Scans
  <2>3. scan' \in Scans /\ scan'.at = a
    BY <2>2, ScanMoves
  <2>4. ClockOK' /\ InFiberOnly' /\ LoopOK' /\ CallsOK'
    BY <1>1, <1>6, <2>1, <2>3 DEF NvParts, ClockOK, InFiberOnly, LoopOK, CallsOK, NV!Spawned, Scans
  <2>5. Here' /\ LocksOK' /\ WaitIs(mutex, state, wait_on, g_fiber_count)'
    BY <1>1, <1>6 DEF NvParts, Here, LocksOK, NV!LockCallOK, NV!OwnerExact, NV!Spawned
  <2>6. QED
    BY <2>4, <2>5 DEF NvParts
<1>7. QED
  BY <1>2, <1>3, <1>5, <1>6 DEF NV!IoScan, NV!ReadyPush

\* One waiter of a mutex: past its deadline it leaves the list, otherwise it stays.
LEMMA NvMutexScan ==
  ASSUME NV!NatVarAssumption, NvParts, NV!MutexScan
  PROVE  NvParts'
<1>1. PICK m \in NV!Mutexes : m = scan.mutex
  <2>1. scan.mutex \in Nat /\ scan.mutex > 0 /\ scan.mutex =< g_mutex_count
    BY DEF NV!MutexScan, NvParts, LoopOK
  <2>2. g_mutex_count \in Nat /\ g_mutex_count =< NATVAR_MUTEX_MAX /\ NATVAR_MUTEX_MAX \in Nat
    BY DEF NvParts, LoopOK, NV!NatVarAssumption
  <2>3. QED
    BY <2>1, <2>2 DEF NV!Mutexes
<1>2. /\ mutex \in [NV!Mutexes -> MutexRecords] /\ mutex[m] \in MutexRecords /\ mutex[m].waiters \in Seq(NV!Fibers)
  BY DEF NvParts, WaitIs, MutexRecords
<1>3. PICK i \in 1..Len(mutex[m].waiters) : i = scan.at
  <2>1. scan.at \in Nat /\ scan.at > 0 /\ scan.at =< Len(mutex[m].waiters)
    BY <1>1 DEF NV!MutexScan, NvParts, LoopOK
  <2>2. Len(mutex[m].waiters) \in Nat
    BY <1>2, LenProperties
  <2>3. QED
    BY <2>1, <2>2
<1>4. PICK f : f = mutex[m].waiters[i]
  OBVIOUS
<1>5. /\ f \in 1..g_fiber_count /\ f \in NV!Fibers /\ state[f] = "WAITING_MUTEX" /\ wait_on[f] = m
      /\ call[f] = "lock" /\ wake_result[f] = -1 /\ 1..g_fiber_count \subseteq NV!Fibers
  BY <1>4, NvWaiter
<1>6. /\ sched = "mutex" /\ UNCHANGED <<g_fiber_count, wait_on, call, running, sleeping, joining, io_waiters,
             g_done_count, g_mutex_count, holders, sched, driver, last_now, now, readable>>
  BY DEF NV!MutexScan, NV!envVars
<1>7. CASE /\ state' = [state EXCEPT ![f] = "READY"] /\ until' = [until EXCEPT ![f] = 0]
           /\ wake_result' = [wake_result EXCEPT ![f] = 0] /\ ready' = Append(ready, f)
           /\ mutex' = [mutex EXCEPT ![m].waiters = NV!RemoveAt(@, i)] /\ scan' = [scan EXCEPT !.woken = TRUE]
  <2>1. CoreIs(Append(ready, f), [state EXCEPT ![f] = "READY"], running, g_fiber_count, sleeping, io_waiters, g_done_count)
    BY <1>5, CoreWake DEF NvParts, Here, Waits
  <2>2. Here'
    BY <1>6, <1>7, <2>1 DEF Here
  <2>3. until' \in [NV!Fibers -> 0..(MaxTime + 1)]
    <3>1. 0 \in 0..(MaxTime + 1)
      BY DEF NV!NatVarAssumption
    <3>2. until \in [NV!Fibers -> 0..(MaxTime + 1)]
      BY DEF NvParts, ClockOK
    <3>3. QED
      BY <1>7, <3>1, <3>2
  <2>4. \A g \in NV!Fibers : state'[g] = IF g = f THEN "READY" ELSE state[g]
    BY <1>7 DEF NvParts, Here, CoreIs, ShapeIs
  <2>5. wake_result' \in [NV!Fibers -> {-1, 0, 1}] /\ wake_result'[f] = 0
        /\ \A g \in NV!Fibers : g # f => wake_result'[g] = wake_result[g]
    <3>1. PICK z \in {-1, 0, 1} : z = 0
      OBVIOUS
    <3>2. QED
      BY <1>5, <1>7, <3>1 DEF NvParts, CallsOK
  <2>6. PICK b \in BOOLEAN : b = TRUE
    OBVIOUS
  <2>7. scan' = [scan EXCEPT !.woken = b] /\ scan \in Scans
    BY <1>7, <2>6 DEF NvParts, LoopOK, Scans
  <2>8. scan' \in Scans /\ scan'.at = scan.at /\ scan'.mutex = scan.mutex
    BY <2>7 DEF Scans
  <2>9. ClockOK' /\ InFiberOnly' /\ LoopOK' /\ CallsOK'
    BY <1>6, <2>3, <2>5, <2>8 DEF NvParts, ClockOK, InFiberOnly, LoopOK, CallsOK, NV!Spawned, Scans
  <2>10. PICK w : w = NV!RemoveAt(mutex[m].waiters, i)
    OBVIOUS
  <2>11. w \in Seq(NV!Fibers) /\ NV!NoDuplicates(w) /\ NV!Queued(w) = NV!Queued(mutex[m].waiters) \ {f}
    BY <1>2, <1>4, <2>10, QueueRemove DEF NvParts, WaitIs
  <2>12. /\ mutex' \in [NV!Mutexes -> MutexRecords] /\ mutex'[m].waiters = w
         /\ mutex'[m].locked = mutex[m].locked /\ mutex'[m].owner = mutex[m].owner
         /\ \A j \in NV!Mutexes : j # m => mutex'[j] = mutex[j]
    BY <1>2, <1>7, <2>10, <2>11 DEF MutexRecords
  <2>13. WaitIs(mutex', state', wait_on, g_fiber_count)
    <3>1. WaitIs(mutex, state, wait_on, g_fiber_count)
      BY DEF NvParts
    <3>2. \A g \in 1..g_fiber_count : g # f => state'[g] = state[g] /\ wait_on[g] = wait_on[g]
      BY <1>5, <2>4
    <3>3. \A j \in NV!Mutexes : j # m => mutex'[j].waiters = mutex[j].waiters
      BY <2>12
    <3>4. state'[f] # "WAITING_MUTEX"
      BY <1>5, <2>4
    <3>5. QED
      BY <1>5, <2>11, <2>12, <3>1, <3>2, <3>3, <3>4, WaitChange
  <2>14. WaitIs(mutex, state, wait_on, g_fiber_count)'
    BY <1>6, <2>13
  <2>15. \A g \in NV!Fibers : NV!LockCallOK(g)'
    BY <1>5, <1>6, <2>4, <2>5 DEF NvParts, LocksOK, NV!LockCallOK, NV!Spawned
  <2>16. \A j \in NV!Mutexes : NV!OwnerExact(j)'
    <3>1. ASSUME NEW j \in NV!Mutexes PROVE NV!OwnerExact(j)'
      <4>1. /\ mutex'[j].locked = mutex[j].locked /\ mutex'[j].owner = mutex[j].owner
            /\ mutex'[j].waiters # <<>> => mutex[j].waiters # <<>>
        <5>1. f \in NV!Queued(mutex[m].waiters)
          BY <1>4 DEF NV!Queued
        <5>2. mutex[m].waiters # <<>>
          <6>1. \A x : x \notin 1..Len(<<>>)
            BY EmptySeq
          <6>2. QED
            BY <5>1, <6>1 DEF NV!Queued
        <5>3. QED
          BY <2>12, <5>2
      <4>2. \A g \in NV!Fibers : wake_result'[g] = 1 => wake_result[g] = 1
        BY <2>5
      <4>3. QED
        BY <1>6, <4>1, <4>2 DEF NvParts, LocksOK, NV!OwnerExact
    <3>2. QED
      BY <3>1
  <2>17. LocksOK'
    BY <1>6, <2>15, <2>16 DEF NvParts, LocksOK
  <2>18. QED
    BY <2>2, <2>9, <2>14, <2>17 DEF NvParts
<1>8. CASE scan' = [scan EXCEPT !.at = @ + 1] /\ UNCHANGED <<state, until, wake_result, ready, mutex>>
  <2>1. PICK a \in Nat : a = scan.at + 1 /\ a > 0
    BY <1>3, <1>2, LenProperties
  <2>2. ScanAt(scan', scan, a) /\ scan \in Scans
    BY <1>8, <2>1 DEF ScanAt, NvParts, LoopOK, Scans
  <2>3. scan' \in Scans /\ scan'.at = a /\ scan'.mutex = scan.mutex
    BY <2>2, ScanMoves
  <2>4. ClockOK' /\ InFiberOnly' /\ LoopOK' /\ CallsOK'
    BY <1>6, <1>8, <2>1, <2>3 DEF NvParts, ClockOK, InFiberOnly, LoopOK, CallsOK, NV!Spawned, Scans
  <2>5. Here' /\ LocksOK' /\ WaitIs(mutex, state, wait_on, g_fiber_count)'
    BY <1>6, <1>8 DEF NvParts, Here, LocksOK, NV!LockCallOK, NV!OwnerExact, NV!Spawned
  <2>6. QED
    BY <2>4, <2>5 DEF NvParts
<1>9. QED
  BY <1>1, <1>3, <1>4, <1>7, <1>8 DEF NV!MutexScan, NV!ReadyPush

\* A caller is the running fiber, or main.
LEMMA NvCaller ==
  ASSUME NV!NatVarAssumption, NvParts, NV!InProgram
  PROVE  /\ running \in 0..FIBER_MAX /\ 1..g_fiber_count \subseteq NV!Fibers
         /\ running # NV!Main => /\ running \in 1..g_fiber_count /\ running \in NV!Fibers
                                 /\ state[running] = "RUNNING" /\ call[running] = "body"
         /\ running = NV!Main => running \notin NV!Fibers
<1>1. 1..g_fiber_count \subseteq NV!Fibers
  BY CoreFacts DEF NvParts, Here
<1>2. running # NV!Main => /\ running \in 1..g_fiber_count /\ running \in NV!Fibers
                           /\ state[running] = "RUNNING" /\ call[running] = "body"
  BY NvRunning DEF NvParts, NV!InProgram, NV!InFiber
<1>3. running \in 0..FIBER_MAX
  BY <1>2 DEF NV!Main, NV!Fibers, NV!NatVarAssumption
<1>4. QED
  BY <1>1, <1>2, <1>3 DEF NV!Main, NV!Fibers

\* A lock on a free mutex makes the caller its holder.
LEMMA NvLockGranted ==
  ASSUME NV!NatVarAssumption, NvParts, NV!InProgram, NEW m \in NV!Mutexes, NV!LockGranted(m)
  PROVE  NvParts'
<1>1. /\ UNCHANGED <<g_fiber_count, state, until, wait_on, wake_result, call, ready, running, sleeping, joining,
                     io_waiters, g_done_count, g_mutex_count, sched, driver, scan, last_now, now, readable>>
      /\ ~mutex[m].locked /\ holders' = [holders EXCEPT ![m] = @ \cup {running}]
  BY DEF NV!LockGranted, NV!fiberVars, NV!queueVars, NV!loopVars, NV!envVars
<1>2. running \in 0..FIBER_MAX
  BY NvCaller
<1>3. mutex \in [NV!Mutexes -> MutexRecords] /\ holders \in [NV!Mutexes -> SUBSET (0..FIBER_MAX)]
  BY DEF NvParts, WaitIs, MutexRecords, LocksOK
<1>4. /\ mutex' \in [NV!Mutexes -> MutexRecords] /\ mutex'[m].waiters = mutex[m].waiters
      /\ mutex'[m].locked = TRUE /\ mutex'[m].owner = running
      /\ \A j \in NV!Mutexes : j # m => mutex'[j] = mutex[j]
  <2>1. PICK b \in BOOLEAN : b = TRUE
    OBVIOUS
  <2>2. mutex' = [mutex EXCEPT ![m].locked = b, ![m].owner = running]
    BY <2>1 DEF NV!LockGranted
  <2>3. /\ mutex' \in [NV!Mutexes -> MutexRecords] /\ mutex'[m].waiters = mutex[m].waiters
        /\ mutex'[m].locked = b /\ mutex'[m].owner = running
        /\ \A j \in NV!Mutexes : j # m => mutex'[j] = mutex[j]
    BY <1>2, <1>3, <2>2 DEF MutexRecords
  <2>4. QED
    BY <2>1, <2>3
<1>5. Here' /\ ClockOK' /\ InFiberOnly' /\ LoopOK' /\ CallsOK'
  BY <1>1 DEF NvParts, Here, ClockOK, InFiberOnly, LoopOK, CallsOK, NV!Spawned
<1>6. WaitIs(mutex, state, wait_on, g_fiber_count)'
  <2>1. \A j \in NV!Mutexes : mutex'[j].waiters = mutex[j].waiters
    BY <1>4
  <2>2. WaitIs(mutex', state, wait_on, g_fiber_count)
    BY <1>4, <2>1 DEF NvParts, WaitIs, MutexRecords
  <2>3. QED
    BY <1>1, <2>2
<1>7. LocksOK'
  <2>1. holders' \in [NV!Mutexes -> SUBSET (0..FIBER_MAX)]
    BY <1>1, <1>2, <1>3
  <2>2. \A f \in NV!Fibers : NV!LockCallOK(f)'
    BY <1>1 DEF NvParts, LocksOK, NV!LockCallOK, NV!Spawned
  <2>3. NV!OwnerExact(m)'
    <3>1. holders[m] = {} /\ \A f \in NV!Fibers : ~(call[f] = "lock" /\ wait_on[f] = m /\ wake_result[f] = 1)
      BY <1>1 DEF NvParts, LocksOK, NV!OwnerExact
    <3>2. holders'[m] = {running}
      BY <1>1, <1>3, <3>1
    <3>3. QED
      BY <1>1, <1>4, <3>1, <3>2 DEF NV!OwnerExact
  <2>4. \A j \in NV!Mutexes : j # m => NV!OwnerExact(j)'
    BY <1>1, <1>3, <1>4 DEF NvParts, LocksOK, NV!OwnerExact
  <2>5. QED
    BY <2>1, <2>2, <2>3, <2>4 DEF LocksOK
<1>8. QED
  BY <1>5, <1>6, <1>7 DEF NvParts

\* A lock on a taken mutex parks the caller on it.
LEMMA NvLockParks ==
  ASSUME NV!NatVarAssumption, NvParts, NV!InProgram, NEW m \in NV!Mutexes, NEW ms \in Timeouts, NV!LockParks(m, ms)
  PROVE  NvParts'
<1>1. /\ running # NV!Main /\ running \in 1..g_fiber_count /\ running \in NV!Fibers
      /\ state[running] = "RUNNING" /\ call[running] = "body" /\ 1..g_fiber_count \subseteq NV!Fibers
  BY NvCaller DEF NV!LockParks
<1>2. /\ NV!SwitchBack /\ UNCHANGED <<g_fiber_count, ready, sleeping, joining, io_waiters, g_done_count, g_mutex_count, holders>>
      /\ mutex[m].locked
  BY DEF NV!LockParks
<1>3. LoopOK' /\ InFiberOnly' /\ now' = now /\ readable' = readable /\ last_now' \in 0..now /\ running' = NV!Main
  BY <1>2, NvSwitch
<1>4. \A g \in NV!Fibers : state'[g] = IF g = running THEN "WAITING_MUTEX" ELSE state[g]
  BY DEF NV!LockParks, NvParts, Here, CoreIs, ShapeIs
<1>5. Here'
  <2>1. CoreIs(ready, [state EXCEPT ![running] = "WAITING_MUTEX"], NV!Main, g_fiber_count, sleeping, io_waiters, g_done_count)
    BY <1>1, CorePark DEF NvParts, Here, Waits
  <2>2. QED
    BY <1>2, <1>3, <2>1 DEF Here, NV!LockParks
<1>6. ClockOK'
  <2>1. (IF ms > 0 THEN now + ms ELSE 0) \in 0..(MaxTime + 1)
    <3>1. ms \in Nat /\ now \in Nat /\ MaxTime \in Nat /\ (ms > 0 => now + ms =< MaxTime)
      BY DEF NV!NatVarAssumption, NvParts, ClockOK, NV!LockParks
    <3>2. QED
      BY <3>1
  <2>2. until' \in [NV!Fibers -> 0..(MaxTime + 1)]
    BY <2>1 DEF NvParts, ClockOK, NV!LockParks
  <2>3. QED
    BY <1>2, <1>3, <2>2 DEF NvParts, ClockOK, NV!Spawned
<1>7. /\ CallsOK' /\ wait_on'[running] = m /\ wake_result'[running] = -1 /\ call'[running] = "lock"
      /\ \A g \in NV!Fibers : g # running => wait_on'[g] = wait_on[g] /\ wake_result'[g] = wake_result[g] /\ call'[g] = call[g]
  <2>1. wait_on' = [wait_on EXCEPT ![running] = m] /\ call' = [call EXCEPT ![running] = "lock"]
    BY DEF NV!LockParks
  <2>2. PICK z \in {-1, 0, 1} : z = -1
    OBVIOUS
  <2>3. wake_result' = [wake_result EXCEPT ![running] = z]
    BY <2>2 DEF NV!LockParks
  <2>4. /\ wait_on' \in [NV!Fibers -> NV!Fibers \cup NV!Mutexes \cup Sockets \cup {0}] /\ wait_on'[running] = m
        /\ \A g \in NV!Fibers : g # running => wait_on'[g] = wait_on[g]
    BY <1>1, <2>1 DEF NvParts, CallsOK
  <2>5. /\ call' \in [NV!Fibers -> {"body", "join", "lock", "net"}] /\ call'[running] = "lock"
        /\ \A g \in NV!Fibers : g # running => call'[g] = call[g]
    BY <1>1, <2>1 DEF NvParts, CallsOK
  <2>6. /\ wake_result' \in [NV!Fibers -> {-1, 0, 1}] /\ wake_result'[running] = z
        /\ \A g \in NV!Fibers : g # running => wake_result'[g] = wake_result[g]
    BY <1>1, <2>3 DEF NvParts, CallsOK
  <2>7. QED
    BY <2>2, <2>4, <2>5, <2>6 DEF CallsOK
<1>8. PICK w : w = Append(mutex[m].waiters, running)
  OBVIOUS
<1>9. mutex \in [NV!Mutexes -> MutexRecords] /\ mutex[m].waiters \in Seq(NV!Fibers)
  BY DEF NvParts, WaitIs, MutexRecords
<1>10. /\ w \in Seq(NV!Fibers) /\ NV!NoDuplicates(w) /\ NV!Queued(w) = NV!Queued(mutex[m].waiters) \cup {running}
  <2>1. running \notin NV!Queued(mutex[m].waiters) /\ NV!NoDuplicates(mutex[m].waiters)
    BY <1>1 DEF NvParts, WaitIs
  <2>2. w \in Seq(NV!Fibers)
    BY <1>1, <1>8, <1>9, AppendProperties
  <2>3. NV!NoDuplicates(w) /\ NV!Queued(w) = NV!Queued(mutex[m].waiters) \cup {running}
    <3>1. NV!NoDuplicates(w)
      BY <1>1, <1>8, <1>9, <2>1, QueueJoin
    <3>2. NV!Queued(w) = NV!Queued(mutex[m].waiters) \cup {running}
      <4>1. PICK v : v = mutex[m].waiters
        OBVIOUS
      <4>2. PICK r : r = running
        OBVIOUS
      <4>3. v \in Seq(NV!Fibers) /\ r \in NV!Fibers /\ r \notin NV!Queued(v) /\ NV!NoDuplicates(v) /\ w = Append(v, r)
        BY <1>1, <1>8, <1>9, <2>1, <4>1, <4>2
      <4>4. NV!Queued(w) = NV!Queued(v) \cup {r}
        BY ONLY <4>3, QueueJoin, ZenonT(60)
      <4>5. QED
        BY <4>1, <4>2, <4>4
    <3>3. QED
      BY <3>1, <3>2
  <2>4. QED
    BY <2>2, <2>3
<1>11. /\ mutex' \in [NV!Mutexes -> MutexRecords] /\ mutex'[m].waiters = w
       /\ mutex'[m].locked = mutex[m].locked /\ mutex'[m].owner = mutex[m].owner
       /\ \A j \in NV!Mutexes : j # m => mutex'[j] = mutex[j]
  BY <1>8, <1>9, <1>10 DEF MutexRecords, NV!LockParks
<1>12. WaitIs(mutex, state, wait_on, g_fiber_count)'
  <2>1. WaitIs(mutex, state, wait_on, g_fiber_count)
    BY DEF NvParts
  <2>2. \A g \in 1..g_fiber_count : g # running => state'[g] = state[g] /\ wait_on'[g] = wait_on[g]
    BY <1>1, <1>4, <1>7
  <2>3. \A j \in NV!Mutexes : j # m => mutex'[j].waiters = mutex[j].waiters
    BY <1>11
  <2>4. state[running] # "WAITING_MUTEX" /\ state'[running] = "WAITING_MUTEX"
    BY <1>1, <1>4
  <2>5. WaitIs(mutex', state', wait_on', g_fiber_count)
    BY <1>1, <1>7, <1>10, <1>11, <2>1, <2>2, <2>3, <2>4, WaitChange
  <2>6. QED
    BY <1>2, <2>5
<1>13. LocksOK'
  <2>1. \A f \in NV!Fibers : NV!LockCallOK(f)'
    BY <1>1, <1>2, <1>4, <1>7 DEF NvParts, LocksOK, NV!LockCallOK, NV!Spawned
  <2>2. ASSUME NEW j \in NV!Mutexes PROVE NV!OwnerExact(j)'
    <3>1. mutex'[j].locked = mutex[j].locked /\ mutex'[j].owner = mutex[j].owner
      BY <1>11
    <3>2. mutex'[j].waiters # <<>> => mutex[j].locked
      BY <1>2, <1>11 DEF NvParts, LocksOK, NV!OwnerExact
    <3>3. \A g \in NV!Fibers : call'[g] = "lock" /\ wait_on'[g] = j /\ wake_result'[g] = 1
             => call[g] = "lock" /\ wait_on[g] = j /\ wake_result[g] = 1
      BY <1>7
    <3>4. QED
      BY <1>2, <3>1, <3>2, <3>3 DEF NvParts, LocksOK, NV!OwnerExact
  <2>3. QED
    BY <1>2, <2>1, <2>2 DEF NvParts, LocksOK
<1>14. QED
  BY <1>3, <1>5, <1>6, <1>7, <1>12, <1>13 DEF NvParts

\* A woken lock returns; the fiber holds the mutex if an unlock woke it.
LEMMA NvLockReturns ==
  ASSUME NV!NatVarAssumption, NvParts, NV!LockReturns
  PROVE  NvParts'
<1>1. /\ running # NV!Main /\ running \in 1..g_fiber_count /\ running \in NV!Fibers
      /\ state[running] = "RUNNING" /\ call[running] = "lock" /\ 1..g_fiber_count \subseteq NV!Fibers
  BY NvRunning DEF NvParts, NV!LockReturns
<1>2. PICK m \in NV!Mutexes : m = wait_on[running]
  BY <1>1 DEF NvParts, LocksOK, NV!LockCallOK
<1>3. /\ UNCHANGED <<g_fiber_count, state, until, ready, running, sleeping, joining, io_waiters, g_done_count,
                     mutex, g_mutex_count, sched, driver, scan, last_now, now, readable>>
      /\ holders' = [holders EXCEPT ![m] = IF wake_result[running] = 1 THEN @ \cup {running} ELSE @]
  BY <1>2 DEF NV!LockReturns, NV!queueVars, NV!loopVars, NV!envVars
<1>4. /\ CallsOK' /\ call'[running] = "body"
      /\ \A g \in NV!Fibers : g # running => wait_on'[g] = wait_on[g] /\ wake_result'[g] = wake_result[g] /\ call'[g] = call[g]
  <2>1. PICK b \in {"body"}, z \in {-1}, o \in {0} : TRUE
    OBVIOUS
  <2>2. call' = [call EXCEPT ![running] = b] /\ wait_on' = [wait_on EXCEPT ![running] = o]
        /\ wake_result' = [wake_result EXCEPT ![running] = z]
    BY DEF NV!LockReturns
  <2>3. z \in {-1, 0, 1} /\ o \in {0}
    OBVIOUS
  <2>4. /\ wait_on' \in [NV!Fibers -> NV!Fibers \cup NV!Mutexes \cup Sockets \cup {0}]
        /\ \A g \in NV!Fibers : g # running => wait_on'[g] = wait_on[g]
    BY <1>1, <2>2, <2>3 DEF NvParts, CallsOK
  <2>5. /\ call' \in [NV!Fibers -> {"body", "join", "lock", "net"}] /\ call'[running] = "body"
        /\ \A g \in NV!Fibers : g # running => call'[g] = call[g]
    BY <1>1, <2>2 DEF NvParts, CallsOK
  <2>6. /\ wake_result' \in [NV!Fibers -> {-1, 0, 1}]
        /\ \A g \in NV!Fibers : g # running => wake_result'[g] = wake_result[g]
    BY <1>1, <2>2, <2>3 DEF NvParts, CallsOK
  <2>7. QED
    BY <2>4, <2>5, <2>6 DEF CallsOK
<1>5. Here' /\ ClockOK' /\ InFiberOnly' /\ LoopOK'
  BY <1>3 DEF NvParts, Here, ClockOK, InFiberOnly, LoopOK, NV!Spawned
<1>6. WaitIs(mutex, state, wait_on, g_fiber_count)'
  <2>1. WaitIs(mutex, state, wait_on', g_fiber_count)
    BY <1>1, <1>4, WaitFrame DEF NvParts
  <2>2. QED
    BY <1>3, <2>1
<1>7. LocksOK'
  <2>1. \A f \in NV!Fibers : NV!LockCallOK(f)'
    BY <1>1, <1>3, <1>4 DEF NvParts, LocksOK, NV!LockCallOK, NV!Spawned
  <2>2. holders \in [NV!Mutexes -> SUBSET (0..FIBER_MAX)] /\ running \in 0..FIBER_MAX
    BY <1>1 DEF NvParts, LocksOK, NV!Fibers, NV!NatVarAssumption
  <2>3. /\ holders' \in [NV!Mutexes -> SUBSET (0..FIBER_MAX)]
        /\ \A j \in NV!Mutexes : j # m => holders'[j] = holders[j]
        /\ holders'[m] = IF wake_result[running] = 1 THEN holders[m] \cup {running} ELSE holders[m]
    BY <1>3, <2>2
  <2>4. ASSUME NEW j \in NV!Mutexes PROVE NV!OwnerExact(j)'
    <3>1. \A g \in NV!Fibers : call'[g] = "lock" /\ wait_on'[g] = j /\ wake_result'[g] = 1
             => call[g] = "lock" /\ wait_on[g] = j /\ wake_result[g] = 1
      BY <1>4
    <3>2. \A g \in holders'[j] : mutex[j].locked /\ mutex[j].owner = g
      BY <1>1, <1>2, <2>3 DEF NvParts, LocksOK, NV!OwnerExact
    <3>3. QED
      BY <1>3, <3>1, <3>2 DEF NvParts, LocksOK, NV!OwnerExact
  <2>5. QED
    BY <2>1, <2>3, <2>4 DEF LocksOK
<1>8. QED
  BY <1>4, <1>5, <1>6, <1>7 DEF NvParts

\* An unlock hands the mutex to its first waiter, who holds it when its lock
\* returns, or opens it.
LEMMA NvUnlock ==
  ASSUME NV!NatVarAssumption, NvParts, NEW m \in NV!Mutexes, NV!MutexUnlock(m)
  PROVE  NvParts'
<1>1. /\ running \in 0..FIBER_MAX /\ 1..g_fiber_count \subseteq NV!Fibers
      /\ running \in NV!Fibers => call[running] = "body"
  BY NvCaller DEF NV!MutexUnlock
<1>2. mutex \in [NV!Mutexes -> MutexRecords] /\ holders \in [NV!Mutexes -> SUBSET (0..FIBER_MAX)]
      /\ mutex[m].waiters \in Seq(NV!Fibers) /\ running \in holders[m]
  BY DEF NvParts, WaitIs, MutexRecords, LocksOK, NV!MutexUnlock
<1>3. /\ holders' = [holders EXCEPT ![m] = @ \ {running}]
      /\ UNCHANGED <<g_fiber_count, wait_on, call, running, sleeping, joining, io_waiters, g_done_count,
                     g_mutex_count, sched, driver, scan, last_now, now, readable>>
  BY DEF NV!MutexUnlock, NV!loopVars, NV!envVars
<1>4. /\ holders' \in [NV!Mutexes -> SUBSET (0..FIBER_MAX)] /\ holders'[m] = {}
      /\ \A j \in NV!Mutexes : j # m => holders'[j] = holders[j]
      /\ mutex[m].locked
  <2>1. \A g \in holders[m] : g = running
    BY <1>2 DEF NvParts, LocksOK, NV!OwnerExact
  <2>2. mutex[m].locked
    BY <1>2 DEF NvParts, LocksOK, NV!OwnerExact
  <2>3. QED
    BY <1>2, <1>3, <2>1, <2>2
<1>5. \A g \in NV!Fibers : ~(call[g] = "lock" /\ wait_on[g] = m /\ wake_result[g] = 1)
  BY <1>1, <1>2 DEF NvParts, LocksOK, NV!OwnerExact
<1>6. CASE mutex[m].waiters # <<>>
  <2>1. PICK f : f = Head(mutex[m].waiters)
    OBVIOUS
  <2>2. PICK w : w = Tail(mutex[m].waiters)
    OBVIOUS
  <2>3. /\ state' = [state EXCEPT ![f] = "READY"] /\ until' = [until EXCEPT ![f] = 0]
        /\ wake_result' = [wake_result EXCEPT ![f] = 1] /\ ready' = Append(ready, f)
        /\ mutex' = [mutex EXCEPT ![m].owner = f, ![m].waiters = w]
    BY <1>6, <2>1, <2>2 DEF NV!MutexUnlock, NV!ReadyPush
  <2>4. /\ w \in Seq(NV!Fibers) /\ NV!NoDuplicates(w) /\ NV!Queued(w) = NV!Queued(mutex[m].waiters) \ {f}
        /\ f \in NV!Queued(mutex[m].waiters)
    BY <1>2, <1>6, <2>1, <2>2, QueueTail DEF NvParts, WaitIs
  <2>5. PICK i \in 1..Len(mutex[m].waiters) : f = mutex[m].waiters[i]
    BY <2>4 DEF NV!Queued
  <2>6. /\ f \in 1..g_fiber_count /\ f \in NV!Fibers /\ state[f] = "WAITING_MUTEX" /\ wait_on[f] = m
        /\ call[f] = "lock" /\ wake_result[f] = -1
    BY <2>5, NvWaiter
  <2>7. Here'
    <3>1. CoreIs(Append(ready, f), [state EXCEPT ![f] = "READY"], running, g_fiber_count, sleeping, io_waiters, g_done_count)
      BY <2>6, CoreWake DEF NvParts, Here, Waits
    <3>2. QED
      BY <1>3, <2>3, <3>1 DEF Here
  <2>8. until' \in [NV!Fibers -> 0..(MaxTime + 1)]
    <3>1. 0 \in 0..(MaxTime + 1)
      BY DEF NV!NatVarAssumption
    <3>2. until \in [NV!Fibers -> 0..(MaxTime + 1)]
      BY DEF NvParts, ClockOK
    <3>3. QED
      BY <2>3, <3>1, <3>2
  <2>9. \A g \in NV!Fibers : state'[g] = IF g = f THEN "READY" ELSE state[g]
    BY <2>3 DEF NvParts, Here, CoreIs, ShapeIs
  <2>10. /\ wake_result' \in [NV!Fibers -> {-1, 0, 1}] /\ wake_result'[f] = 1
         /\ \A g \in NV!Fibers : g # f => wake_result'[g] = wake_result[g]
    <3>1. PICK z \in {-1, 0, 1} : z = 1
      OBVIOUS
    <3>2. QED
      BY <2>3, <2>6, <3>1 DEF NvParts, CallsOK
  <2>11. ClockOK' /\ InFiberOnly' /\ LoopOK' /\ CallsOK'
    BY <1>3, <2>8, <2>10 DEF NvParts, ClockOK, InFiberOnly, LoopOK, CallsOK, NV!Spawned
  <2>12. /\ mutex' \in [NV!Mutexes -> MutexRecords] /\ mutex'[m].waiters = w
         /\ mutex'[m].locked = mutex[m].locked /\ mutex'[m].owner = f
         /\ \A j \in NV!Mutexes : j # m => mutex'[j] = mutex[j]
    <3>1. f \in 0..FIBER_MAX
      BY <2>6 DEF NV!Fibers, NV!NatVarAssumption
    <3>2. QED
      BY <1>2, <2>3, <2>4, <3>1 DEF MutexRecords
  <2>13. WaitIs(mutex, state, wait_on, g_fiber_count)'
    <3>1. WaitIs(mutex, state, wait_on, g_fiber_count)
      BY DEF NvParts
    <3>2. \A g \in 1..g_fiber_count : g # f => state'[g] = state[g] /\ wait_on[g] = wait_on[g]
      BY <1>1, <2>9
    <3>3. \A j \in NV!Mutexes : j # m => mutex'[j].waiters = mutex[j].waiters
      BY <2>12
    <3>4. state'[f] # "WAITING_MUTEX"
      BY <2>6, <2>9
    <3>5. WaitIs(mutex', state', wait_on, g_fiber_count)
      BY <2>4, <2>6, <2>12, <3>1, <3>2, <3>3, <3>4, WaitChange
    <3>6. QED
      BY <1>3, <3>5
  <2>14. \A g \in NV!Fibers : NV!LockCallOK(g)'
    BY <1>3, <2>6, <2>9, <2>10 DEF NvParts, LocksOK, NV!LockCallOK, NV!Spawned
  <2>15. NV!OwnerExact(m)'
    BY <1>3, <1>4, <1>5, <2>10, <2>12 DEF NV!OwnerExact
  <2>16. ASSUME NEW j \in NV!Mutexes, j # m PROVE NV!OwnerExact(j)'
    BY <1>3, <1>4, <2>6, <2>10, <2>12, <2>16 DEF NvParts, LocksOK, NV!OwnerExact
  <2>17. LocksOK'
    BY <1>4, <2>14, <2>15, <2>16 DEF LocksOK
  <2>18. QED
    BY <2>7, <2>11, <2>13, <2>17 DEF NvParts
<1>7. CASE mutex[m].waiters = <<>>
  <2>1. /\ mutex' = [mutex EXCEPT ![m].locked = FALSE, ![m].owner = 0]
        /\ UNCHANGED <<wake_result, state, until, ready>>
    BY <1>7 DEF NV!MutexUnlock
  <2>2. /\ mutex' \in [NV!Mutexes -> MutexRecords] /\ mutex'[m].waiters = <<>>
        /\ \A j \in NV!Mutexes : j # m => mutex'[j] = mutex[j]
    <3>4. 0 \in 0..FIBER_MAX /\ FALSE \in BOOLEAN
      BY DEF NV!NatVarAssumption
    <3>1. PICK b \in BOOLEAN, z \in 0..FIBER_MAX : b = FALSE /\ z = 0
      BY <3>4
    <3>2. mutex' = [mutex EXCEPT ![m].locked = b, ![m].owner = z]
      BY <2>1, <3>1
    <3>3. QED
      BY <1>2, <1>7, <3>2 DEF MutexRecords
  <2>3. Here' /\ ClockOK' /\ InFiberOnly' /\ LoopOK' /\ CallsOK'
    BY <1>3, <2>1 DEF NvParts, Here, ClockOK, InFiberOnly, LoopOK, CallsOK, NV!Spawned
  <2>4. WaitIs(mutex, state, wait_on, g_fiber_count)'
    <3>1. \A j \in NV!Mutexes : mutex'[j].waiters = mutex[j].waiters
      BY <1>7, <2>2
    <3>2. WaitIs(mutex', state, wait_on, g_fiber_count)
      BY <2>2, <3>1 DEF NvParts, WaitIs, MutexRecords
    <3>3. QED
      BY <1>3, <2>1, <3>2
  <2>5. \A f \in NV!Fibers : NV!LockCallOK(f)'
    BY <1>3, <2>1 DEF NvParts, LocksOK, NV!LockCallOK, NV!Spawned
  <2>6. NV!OwnerExact(m)'
    BY <1>3, <1>4, <1>5, <2>1, <2>2 DEF NV!OwnerExact
  <2>7. \A j \in NV!Mutexes : j # m => NV!OwnerExact(j)'
    BY <1>3, <1>4, <2>1, <2>2 DEF NvParts, LocksOK, NV!OwnerExact
  <2>8. LocksOK'
    BY <1>4, <2>5, <2>6, <2>7 DEF LocksOK
  <2>9. QED
    BY <2>3, <2>4, <2>8 DEF NvParts
<1>8. QED
  BY <1>6, <1>7

\* The parts used by the steps above are the invariant the runs check.
LEMMA NvForm == NV!NatVarAssumption => (NvParts /\ CtxOK <=> NV!NatVarInv)
  BY NatVarForm DEF NvParts

\* A step that leaves the contexts alone and does not end the process.
LEMMA CtxStill ==
  ASSUME CtxOK, UNCHANGED <<context, posix_self>>, sched' = sched \/ sched' # "exited"
  PROVE  CtxOK'
  BY DEF CtxOK, NV!ContextsKept

\* A switch: the first one to a fiber starts its trampoline.  Where the system keeps
\* the contexts every fiber's is its own.
LEMMA CtxSwitch ==
  ASSUME NV!NatVarAssumption, CtxOK, NEW st, NEW q, NV!SwitchTo(st, q), Head(q) \in NV!Fibers
  PROVE  CtxOK'
<1> PICK f \in NV!Fibers : f = Head(q)
  OBVIOUS
<1>1. CASE Posix
  <2>1. \/ UNCHANGED <<context, posix_self>>
        \/ context' = [context EXCEPT ![f] = f] /\ posix_self' = f
    BY DEF NV!SwitchTo, NV!StartsTrampoline, NV!ctxVars
  <2>2. f \in 0..FIBER_MAX
    BY DEF NV!Fibers, NV!NatVarAssumption
  <2>3. QED
    BY <1>1, <2>1, <2>2 DEF CtxOK
<1>2. CASE ~Posix
  <2>1. NV!OwnContext(f)
    BY <1>2 DEF CtxOK, NV!ContextsKept, NV!OwnContext
  <2>2. sched' = "fiber" /\ UNCHANGED <<context, posix_self>>
    BY <1>2, <2>1 DEF NV!SwitchTo, NV!StartsTrampoline, NV!ctxVars
  <2>3. QED
    BY <2>2, CtxStill
<1>3. QED
  BY <1>1, <1>2 DEF NV!NatVarAssumption

\* The end of a fiber saves its context through the static.
LEMMA CtxFinish ==
  ASSUME CtxOK, NV!FiberFinish, driver # "exited", running \in 0..FIBER_MAX
  PROVE  CtxOK'
<1>1. sched' # "exited" /\ posix_self' = posix_self
  BY DEF NV!FiberFinish, NV!SwitchBack
<1>2. context' = IF Posix THEN [context EXCEPT ![posix_self] = running] ELSE context
  BY DEF NV!FiberFinish
<1>3. QED
  BY <1>1, <1>2 DEF CtxOK, NV!ContextsKept

\* A reset clears the table of contexts.
LEMMA CtxReset ==
  ASSUME NV!NatVarAssumption, CtxOK, NV!FiberReset
  PROVE  CtxOK'
<1>1. context' = [f \in NV!Fibers |-> 0] /\ posix_self' = posix_self /\ sched' = sched
  BY DEF NV!FiberReset, NV!loopVars
<1>2. QED
  BY <1>1 DEF CtxOK, NV!ContextsKept, NV!NatVarAssumption

\* The running fiber is one of the table.
LEMMA RunningFiber ==
  ASSUME NV!NatVarAssumption, Here
  PROVE  running \in 0..FIBER_MAX /\ (running # NV!Main => running \in NV!Fibers)
<1>1. running \in 0..g_fiber_count /\ 1..g_fiber_count \subseteq NV!Fibers
  BY CoreFacts DEF Here, CoreIs, ShapeIs
<1>2. QED
  BY <1>1 DEF NV!Fibers, NV!Main, NV!NatVarAssumption

\* Every step of the scheduler and of the loop.
LEMMA CtxLoop ==
  ASSUME NV!NatVarAssumption, CtxOK, NV!Environment \/ NV!Scheduler,
         NV!LoopDispatch => Here' /\ running' # NV!Main
  PROVE  CtxOK'
<1>1. CASE NV!Environment
  BY <1>1, CtxStill DEF NV!Environment, NV!Tick, NV!DataArrives, NV!loopVars, NV!ctxVars
<1>2. CASE NV!LoopDispatch
  <2>1. running' \in NV!Fibers
    <3>1. (Here => running \in 0..FIBER_MAX /\ (running # NV!Main => running \in NV!Fibers))'
      BY RunningFiber, PTL
    <3>2. QED
      BY <1>2, <3>1 DEF NV!Main
  <2>2. \E st, q : NV!SwitchTo(st, q)
    BY <1>2 DEF NV!LoopDispatch
  <2>3. PICK st, q : NV!SwitchTo(st, q)
    BY <2>2
  <2>4. Head(q) \in NV!Fibers
    BY <2>1, <2>3 DEF NV!SwitchTo
  <2>5. QED
    BY <2>3, <2>4, CtxSwitch
<1>3. CASE NV!LoopAllDone \/ NV!LoopPollIo \/ NV!LoopPollMutexes \/ NV!LoopNoMutexes
  BY <1>3, CtxStill DEF NV!LoopAllDone, NV!LoopPollIo, NV!LoopPollMutexes, NV!LoopNoMutexes, NV!WaitForSleeperOrHalt, NV!ctxVars
<1>4. CASE NV!IoScan \/ NV!IoScanEnd
  BY <1>4, CtxStill DEF NV!IoScan, NV!IoScanEnd, NV!WaitForSleeperOrHalt, NV!ctxVars
<1>5. CASE NV!MutexScan \/ NV!MutexScanNext \/ NV!MutexScanEnd
  BY <1>5, CtxStill DEF NV!MutexScan, NV!MutexScanNext, NV!MutexScanEnd, NV!WaitForSleeperOrHalt, NV!ctxVars
<1>6. QED
  BY <1>1, <1>2, <1>3, <1>4, <1>5 DEF NV!Scheduler

\* One step of the scheduler without channels.
LEMMA NvStep ==
  ASSUME NV!NatVarAssumption, NV!NatVarInv, NV!Next
  PROVE  NV!NatVarInv'
<1>1. NvParts /\ CtxOK
  BY NatVarForm DEF NvParts
<1>2. NvParts'
  <2>1. CASE NV!Environment
    BY <1>1, <2>1, NvLoopSteps
  <2>2. CASE NV!Scheduler
    BY <1>1, <2>2, NvLoopSteps, NvDispatch, NvIoScan, NvMutexScan DEF NV!Scheduler
  <2>3. CASE NV!Program
    BY <1>1, <2>3, NvLoopSteps, NvSpawn, NvReset, NvGivesWay, NvJoin, NvLockGranted, NvLockParks, NvLockReturns,
       NvUnlock, NvNetRecv DEF NV!Program, NV!MutexLock
  <2>4. QED
    BY <2>1, <2>2, <2>3 DEF NV!Next
<1>3. (NvParts /\ CtxOK <=> NV!NatVarInv)'
  BY NvForm, PTL
<1>5. CtxOK'
  <2>0. driver # "exited"
    BY <1>1 DEF NvParts, LoopOK
  <2>1. CASE NV!Environment \/ NV!Scheduler
    <3>1. NV!LoopDispatch => sched' \in {"fiber", "exited"}
      BY DEF NV!LoopDispatch, NV!SwitchTo
    <3>2. NV!LoopDispatch => Here' /\ running' # NV!Main
      BY <1>2, <3>1 DEF NvParts, InFiberOnly, NV!Main
    <3>3. QED
      BY <1>1, <2>1, <3>2, CtxLoop
  <2>2. CASE NV!FiberFinish
    BY <1>1, <2>2, RunningFiber, CtxFinish DEF NvParts, LoopOK
  <2>3. CASE NV!FiberReset
    BY <1>1, <2>3, CtxReset
  <2>4. CASE NV!RunUntilDone \/ NV!FiberSpawn \/ NV!MutexNew \/ NV!FiberYield \/ \E ms \in Delays : NV!FiberSleep(ms)
    BY <1>1, <2>0, <2>4, CtxStill DEF NV!RunUntilDone, NV!FiberSpawn, NV!MutexNew, NV!FiberYield, NV!FiberSleep, NV!SwitchBack, NV!loopVars, NV!ctxVars
  <2>5. CASE (\E h \in NV!Fibers : NV!FiberJoin(h)) \/ \E s \in Sockets, ms \in Timeouts : NV!FiberNetRecv(s, ms)
    BY <1>1, <2>0, <2>5, CtxStill DEF NV!FiberJoin, NV!FiberNetRecv, NV!SwitchBack, NV!loopVars, NV!ctxVars
  <2>6. CASE NV!LockReturns \/ \E m \in NV!Mutexes : NV!MutexUnlock(m) \/ \E ms \in Timeouts : NV!MutexLock(m, ms)
    BY <1>1, <2>0, <2>6, CtxStill DEF NV!LockReturns, NV!MutexUnlock, NV!MutexLock, NV!LockGranted, NV!LockParks, NV!SwitchBack, NV!loopVars, NV!ctxVars
  <2>7. QED
    BY <2>1, <2>2, <2>3, <2>4, <2>5, <2>6 DEF NV!Next, NV!Program
<1>4. QED
  BY <1>2, <1>3, <1>5

\* What the invariant is for.
LEMMA NvSafe ==
  ASSUME NV!NatVarAssumption, ~Posix, NV!NatVarInv
  PROVE  NV!NoFiberLost /\ NV!MutexExclusion
<1>0. NV!ContextsIntact
  BY DEF NV!NatVarInv, NV!CoreInv, NV!CoreTypes, NV!ContextsKept, NV!ContextsIntact, NV!OwnContext, NV!Spawned, NV!Fibers,
     NV!NatVarAssumption
<1>1. NV!NoFiberLost
  BY <1>0 DEF NV!NatVarInv, NV!CoreInv, NV!NoFiberLost
<1>2. ASSUME NEW m \in NV!Mutexes,
             NEW G, G = {f \in NV!Spawned : call[f] = "lock" /\ wait_on[f] = m /\ wake_result[f] = 1}
      PROVE  /\ Cardinality(holders[m] \cup G) <= 1
             /\ holders[m] \cup G # {} => mutex[m].locked /\ mutex[m].owner \in holders[m] \cup G
             /\ mutex[m].waiters # <<>> => mutex[m].locked
  <2>1. NV!Spawned \subseteq NV!Fibers
    BY NatVarForm, CoreFacts DEF Here, NV!Spawned
  <2>2. \A f \in holders[m] \cup G : mutex[m].locked /\ f = mutex[m].owner
    BY <1>2, <2>1 DEF NV!NatVarInv, NV!OwnerExact
  <2>3. holders[m] \cup G \subseteq {mutex[m].owner}
    BY <2>2
  <2>4. Cardinality(holders[m] \cup G) <= 1
    <3>1. holders[m] \cup G = {} \/ holders[m] \cup G = {mutex[m].owner}
      BY <2>3
    <3>2. Cardinality(holders[m] \cup G) \in {0, 1}
      BY <3>1, FS_Singleton, FS_EmptySet
    <3>3. QED
      BY <3>2
  <2>5. mutex[m].waiters # <<>> => mutex[m].locked
    BY DEF NV!NatVarInv, NV!OwnerExact
  <2>6. ASSUME holders[m] \cup G # {} PROVE mutex[m].locked /\ mutex[m].owner \in holders[m] \cup G
    <3>1. PICK f : f \in holders[m] \cup G
      BY <2>6
    <3>2. QED
      BY <2>2, <3>1
  <2>7. QED
    BY <2>4, <2>5, <2>6
<1>3. QED
  BY <1>1, <1>2, NvCard DEF NV!MutexExclusion

\* Every non-empty set of numbers has a smallest member.
LEMMA Smallest ==
  ASSUME NEW T \in SUBSET Nat, T # {}
  PROVE  \E x \in T : \A y \in T : x =< y
<1>1. PICK x \in T : \A y \in T : ~ (<<y, x>> \in OpToRel(<, Nat))
  BY NatLessThanWellFounded, WFMin, Zenon
<1>2. \A y \in T : ~(y < x)
  BY <1>1, Zenon DEF OpToRel
<1>3. QED
  BY <1>2

\* The invariant of the channel, and what the rest of ChanInv says of the loop.
ChanTypes == /\ call \in [NV!Fibers -> {"body", "recv"}] /\ DOMAIN wait_on = NV!Fibers
             /\ sending \in [NV!Fibers -> Nat] /\ DOMAIN sent = NV!Chans /\ DOMAIN rcvd = NV!Chans
ChanPart == /\ ChanTypes /\ (\A f \in NV!Fibers : NV!ChanCallOK(f))
            /\ NV!ArraysExact /\ NV!ValuesExact /\ NV!ReceiverNotForgotten
ChLoopOK == /\ io_waiters = <<>> /\ g_mutex_count = 0
            /\ sched \in {"main", "loop", "fiber", "recv", "exited"} /\ driver \in {"loop", "recv"}
            /\ sched = "recv" => driver = "recv"
            /\ driver = "recv" /\ sched # "main" => recv_on = 1
ChParts == Here /\ ClockOK /\ InFiberOnly /\ ChLoopOK /\ ChanPart

ChBodyVars == <<call, wait_on, chan, chan_recv, chan_send, g_waiting_chan_count, sending, sent, rcvd>>

\* The parts used below are the invariant with a channel.
LEMMA ChForm == NV!NatVarAssumption => (NV!ChanInv <=> ChParts /\ CtxOK)
  BY CoreForm DEF NV!ChanInv, ChParts, ChLoopOK, ChanPart, ChanTypes, CtxOK

\* Nothing of the channel is known of a fiber that does not wait on it.
LEMMA ChStay ==
  ASSUME NV!NatVarAssumption, NV!OneChannel, ChanPart, UNCHANGED ChBodyVars, NV!Spawned \subseteq NV!Spawned',
         NV!Spawned \subseteq NV!Fibers, NV!Spawned' \subseteq NV!Fibers,
         \A g \in NV!Fibers : state'[g] = "WAITING_CHAN" <=> state[g] = "WAITING_CHAN",
         \A g \in NV!Fibers : call[g] = "recv" /\ state[g] \in {"READY", "RUNNING"} => state'[g] \in {"READY", "RUNNING"}
  PROVE  ChanPart'
<1> USE DEF ChBodyVars
<1>1. ChanTypes' /\ NV!ValuesExact'
  BY DEF ChanPart, ChanTypes, NV!ValuesExact
<1>2. \A f \in NV!Fibers : NV!ChanCallOK(f)'
  BY DEF ChanPart, NV!ChanCallOK
<1>3. NV!Receivers' = NV!Receivers
  <2>1. \A f \in NV!Fibers : state[f] = "WAITING_CHAN" => f \in NV!Spawned
    BY DEF ChanPart, NV!ChanCallOK
  <2>2. QED
    BY <2>1 DEF NV!Receivers
<1>4. NV!ArraysExact'
  <2>1. NV!ParkedRecvs' = NV!ParkedRecvs
    BY DEF NV!ParkedRecvs
  <2>2. QED
    BY <1>3, <2>1 DEF ChanPart, NV!ArraysExact
<1>5. NV!ReceiverNotForgotten'
  <2>1. ASSUME NEW c \in NV!Chans, chan'[c].has_value
        PROVE  \/ \A f \in NV!Spawned' : ~(state'[f] = "WAITING_CHAN" /\ call'[f] = "recv" /\ wait_on'[f] = c)
               \/ \E f \in NV!Spawned' : state'[f] \in {"READY", "RUNNING"} /\ call'[f] = "recv" /\ wait_on'[f] = c
    <3>1. CASE \A f \in NV!Spawned : ~(state[f] = "WAITING_CHAN" /\ call[f] = "recv" /\ wait_on[f] = c)
      <4>1. \A f \in NV!Spawned' : state'[f] = "WAITING_CHAN" => f \in NV!Spawned /\ state[f] = "WAITING_CHAN"
        BY DEF ChanPart, NV!ChanCallOK
      <4>2. QED
        BY <3>1, <4>1
    <3>2. CASE \E f \in NV!Spawned : state[f] \in {"READY", "RUNNING"} /\ call[f] = "recv" /\ wait_on[f] = c
      BY <3>2
    <3>3. QED
      BY <2>1, <3>1, <3>2 DEF ChanPart, NV!ReceiverNotForgotten
  <2>2. QED
    BY <2>1 DEF NV!ReceiverNotForgotten
<1>6. QED
  BY <1>1, <1>2, <1>4, <1>5 DEF ChanPart

\* The fibers made so far are fibers.
LEMMA ChSpawnedFibers ==
  ASSUME NV!NatVarAssumption, Here
  PROVE  NV!Spawned \subseteq NV!Fibers
  BY CoreFacts DEF Here, NV!Spawned

\* A switch back to the loop that runs, or to main's receive.
LEMMA ChSwitch ==
  ASSUME NV!NatVarAssumption, ChParts, InFiberOnly, sched = "fiber", NV!SwitchBack, io_waiters' = io_waiters,
         UNCHANGED <<g_mutex_count, recv_on>>
  PROVE  /\ ChLoopOK' /\ InFiberOnly' /\ running' = NV!Main
         /\ now' = now /\ readable' = readable /\ last_now' \in 0..now
<1>1. now \in 0..now /\ last_now \in 0..now
  BY DEF ChParts, ClockOK, NV!NatVarAssumption
<1>2. sched' = driver /\ driver' = driver /\ running' = NV!Main /\ last_now' \in {now, last_now}
      /\ UNCHANGED <<now, readable>>
  BY DEF NV!SwitchBack, NV!envVars
<1>3. QED
  BY <1>1, <1>2 DEF ChParts, ChLoopOK, InFiberOnly

\* Steps that change neither fibers nor the channel.
LEMMA ChLoopStep ==
  ASSUME NV!NatVarAssumption, NV!OneChannel, ChParts,
         UNCHANGED <<g_fiber_count, state, until, ready, running, sleeping, joining, io_waiters, g_done_count, ChBodyVars>>,
         ClockOK', InFiberOnly', ChLoopOK'
  PROVE  ChParts'
<1>1. Here'
  BY DEF ChParts, Here
<1>2. NV!Spawned' = NV!Spawned
  BY DEF NV!Spawned
<1>3. ChanPart'
  BY <1>2, ChStay, ChSpawnedFibers DEF ChParts
<1>4. QED
  BY <1>1, <1>3 DEF ChParts

ChQuiet == \/ NV!Environment \/ NV!RunUntilDone \/ NV!LoopAllDone \/ NV!LoopNoMutexes \/ NV!LoopPollIo \/ NV!IoScan \/ NV!IoScanEnd
           \/ NV!LoopPollMutexes \/ NV!MutexScan \/ NV!MutexScanNext \/ NV!MutexScanEnd

\* The steps that touch neither a fiber nor the channel.
LEMMA ChQuietSteps ==
  ASSUME NV!NatVarAssumption, NV!OneChannel, ChParts, ChQuiet, UNCHANGED NV!chanVars
  PROVE  ChParts'
<1> DEFINE Same == UNCHANGED <<g_fiber_count, state, until, ready, running, sleeping, joining, io_waiters, g_done_count, ChBodyVars>>
<1>0. /\ MaxTime \in Nat /\ now \in 0..MaxTime /\ last_now \in 0..now /\ now \in 0..now
      /\ io_waiters = <<>> /\ g_mutex_count = 0 /\ sched \notin {"io", "mutex"}
  BY DEF ChParts, ChLoopOK, ClockOK, NV!NatVarAssumption
<1>1. ASSUME NV!Environment PROVE ChParts'
  <2>1. Same
    BY <1>1 DEF NV!Environment, NV!Tick, NV!DataArrives, NV!fiberVars, NV!queueVars, NV!mutexVars, NV!chanVars, ChBodyVars
  <2>2. now' \in 0..MaxTime /\ last_now' \in 0..now' /\ readable' \subseteq Sockets
    BY <1>1, <1>0 DEF NV!Environment, NV!Tick, NV!DataArrives, NV!loopVars, ChParts, ClockOK
  <2>3. UNCHANGED <<sched, driver, recv_on, g_mutex_count>>
    BY <1>1 DEF NV!Environment, NV!Tick, NV!DataArrives, NV!loopVars, NV!mutexVars, NV!chanVars
  <2>4. ClockOK' /\ InFiberOnly' /\ ChLoopOK'
    BY <2>1, <2>2, <2>3 DEF ChParts, ClockOK, InFiberOnly, ChLoopOK, NV!Spawned
  <2>5. QED
    BY <2>1, <2>4, ChLoopStep
<1>2. ASSUME NV!RunUntilDone \/ NV!LoopAllDone \/ NV!LoopNoMutexes PROVE ChParts'
  <2> USE DEF NV!RunUntilDone, NV!LoopAllDone, NV!LoopNoMutexes, NV!WaitForSleeperOrHalt, NV!NothingToPoll, NV!NothingReady
  <2>1. Same
    BY <1>2 DEF NV!fiberVars, NV!queueVars, NV!mutexVars, NV!chanVars, ChBodyVars
  <2>2. sched' \in {"loop", "main"} /\ sched \notin {"fiber", "exited"} /\ UNCHANGED <<g_mutex_count, now, readable, recv_on>> /\ last_now' \in 0..now
    BY <1>0, <1>2 DEF NV!mutexVars, NV!envVars, NV!chanVars
  <2>3. driver' \in {"loop", driver} /\ (sched' = "loop" => driver' = "loop" \/ (driver' = driver /\ sched = "loop"))
    BY <1>2
  <2> HIDE DEF NV!RunUntilDone, NV!LoopAllDone, NV!LoopNoMutexes, NV!WaitForSleeperOrHalt, NV!NothingToPoll, NV!NothingReady
  <2>4. ClockOK' /\ InFiberOnly' /\ ChLoopOK'
    BY <2>1, <2>2, <2>3 DEF ChParts, ClockOK, InFiberOnly, ChLoopOK, NV!Spawned
  <2>5. QED
    BY <2>1, <2>4, ChLoopStep
<1>3. ~(NV!LoopPollIo \/ NV!IoScan \/ NV!IoScanEnd \/ NV!LoopPollMutexes \/ NV!MutexScan \/ NV!MutexScanNext \/ NV!MutexScanEnd)
  BY <1>0 DEF NV!LoopPollIo, NV!IoScan, NV!IoScanEnd, NV!LoopPollMutexes, NV!MutexScan, NV!MutexScanNext, NV!MutexScanEnd
<1>4. QED
  BY <1>1, <1>2, <1>3 DEF ChQuiet

\* A new fiber waits on nothing.
LEMMA ChSpawn ==
  ASSUME NV!NatVarAssumption, NV!OneChannel, ChParts, NV!FiberSpawn, UNCHANGED NV!chanVars
  PROVE  ChParts'
<1> PICK n : n = g_fiber_count
  OBVIOUS
<1>1. /\ n \in Nat /\ n < FIBER_MAX /\ g_fiber_count' = n + 1 /\ 1..n \subseteq 1..(n + 1)
      /\ 1..n \subseteq NV!Fibers /\ 1..(n + 1) \subseteq NV!Fibers /\ n + 1 \notin 1..n /\ n + 1 \in NV!Fibers
  BY CoreFacts DEF ChParts, Here, NV!Fibers, NV!NatVarAssumption, NV!FiberSpawn
<1> PICK m : m = n + 1
  OBVIOUS
<1>2. /\ state' = [state EXCEPT ![m] = "READY"] /\ ready' = Append(ready, m) /\ g_fiber_count' = m
      /\ UNCHANGED <<until, joining, running, sleeping, io_waiters, g_done_count, g_mutex_count, sched, driver, last_now, now, readable,
                     recv_on, ChBodyVars>>
  BY <1>1 DEF NV!FiberSpawn, NV!ReadyPush, NV!mutexVars, NV!loopVars, NV!envVars, NV!chanVars, ChBodyVars
<1>3. \A f \in NV!Fibers : state'[f] = IF f = m THEN "READY" ELSE state[f]
  BY <1>2 DEF ChParts, Here, CoreIs, ShapeIs
<1>4. Here'
  <2>1. CoreIs(ready, state, running, n, sleeping, io_waiters, g_done_count)
    BY DEF ChParts, Here
  <2>2. CoreIs(Append(ready, n + 1), [state EXCEPT ![n + 1] = "READY"], running, n + 1, sleeping, io_waiters, g_done_count)
    BY <1>1, <2>1, CoreSpawn
  <2>3. CoreIs(Append(ready, m), [state EXCEPT ![m] = "READY"], running, m, sleeping, io_waiters, g_done_count)
    BY <2>2
  <2>4. QED
    BY <1>2, <2>3 DEF Here
<1>5. ClockOK' /\ InFiberOnly' /\ ChLoopOK'
  BY <1>1, <1>2 DEF ChParts, ClockOK, InFiberOnly, ChLoopOK, NV!Spawned
<1>6. ChanPart'
  <2>1. state[m] # "WAITING_CHAN" /\ ~(call[m] = "recv")
    BY <1>1 DEF ChParts, ChanPart, NV!ChanCallOK, NV!Spawned
  <2>2. NV!Spawned \subseteq NV!Spawned' /\ NV!Spawned \subseteq NV!Fibers /\ NV!Spawned' \subseteq NV!Fibers
    BY <1>1 DEF NV!Spawned
  <2>3. \A g \in NV!Fibers : state'[g] = "WAITING_CHAN" <=> state[g] = "WAITING_CHAN"
    BY <1>3, <2>1
  <2>4. \A g \in NV!Fibers : call[g] = "recv" /\ state[g] \in {"READY", "RUNNING"} => state'[g] \in {"READY", "RUNNING"}
    BY <1>3
  <2>5. QED
    BY <1>2, <2>2, <2>3, <2>4, ChStay DEF ChParts
<1>7. QED
  BY <1>4, <1>5, <1>6 DEF ChParts

\* A fiber that yields, sleeps or finishes was not waiting on the channel.
LEMMA ChGivesWay ==
  ASSUME NV!NatVarAssumption, NV!OneChannel, ChParts, NV!FiberFinish \/ NV!FiberYield \/ \E ms \in Delays : NV!FiberSleep(ms),
         UNCHANGED NV!chanVars
  PROVE  ChParts'
<1>1. /\ running # NV!Main /\ running \in 1..g_fiber_count /\ running \in NV!Fibers /\ sched = "fiber"
      /\ state[running] = "RUNNING" /\ call[running] = "body" /\ 1..g_fiber_count \subseteq NV!Fibers
  BY NvRunning DEF ChParts, NV!FiberFinish, NV!FiberYield, NV!FiberSleep, NV!InFiber, NV!Inside
<1>2. PICK s \in {"DONE", "READY", "SLEEPING"} : state' = [state EXCEPT ![running] = s]
  BY DEF NV!FiberFinish, NV!FiberYield, NV!FiberSleep
<1>3. /\ NV!SwitchBack /\ UNCHANGED <<g_mutex_count, g_fiber_count, joining, io_waiters, recv_on, ChBodyVars>>
  BY DEF NV!FiberFinish, NV!FiberYield, NV!FiberSleep, NV!mutexVars, NV!chanVars, ChBodyVars
<1>4. \A f \in NV!Fibers : state'[f] = IF f = running THEN s ELSE state[f]
  BY <1>2 DEF ChParts, Here, CoreIs, ShapeIs
<1>5. Here'
  <2>1. CASE NV!FiberFinish
    <3>1. CoreIs(ready, [state EXCEPT ![running] = "DONE"], NV!Main, g_fiber_count, sleeping, io_waiters, g_done_count + 1)
      BY <1>1, CoreFinish DEF ChParts, Here
    <3>2. QED
      BY <2>1, <3>1 DEF NV!FiberFinish, Here, NV!SwitchBack
  <2>2. CASE NV!FiberYield
    <3>1. CoreIs(Append(ready, running), [state EXCEPT ![running] = "READY"], NV!Main, g_fiber_count, sleeping, io_waiters, g_done_count)
      BY <1>1, CoreYield DEF ChParts, Here
    <3>2. QED
      BY <2>2, <3>1 DEF NV!FiberYield, Here, NV!SwitchBack, NV!ReadyPush
  <2>3. CASE \E ms \in Delays : NV!FiberSleep(ms)
    <3>1. CoreIs(ready, [state EXCEPT ![running] = "SLEEPING"], NV!Main, g_fiber_count,
                 IF Cardinality(sleeping) < TIMER_MAX THEN sleeping \cup {running} ELSE sleeping, io_waiters, g_done_count)
      BY <1>1, CoreSleep DEF ChParts, Here
    <3>2. QED
      BY <2>3, <3>1, NvCard DEF NV!FiberSleep, Here, NV!SwitchBack, NV!Registered
  <2>4. QED
    BY <2>1, <2>2, <2>3
<1>6. ChLoopOK' /\ InFiberOnly' /\ now' = now /\ readable' = readable /\ last_now' \in 0..now
  BY <1>1, <1>3, ChSwitch DEF ChParts
<1>7. ClockOK'
  <2>1. until' \in [NV!Fibers -> 0..(MaxTime + 1)]
    <3>1. CASE UNCHANGED until
      BY <3>1 DEF ChParts, ClockOK
    <3>2. CASE \E ms \in Delays : NV!FiberSleep(ms)
      <4>1. PICK ms \in Delays : NV!FiberSleep(ms)
        BY <3>2
      <4>2. PICK u : u = now + ms
        OBVIOUS
      <4>3. u \in 0..(MaxTime + 1)
        <5>1. ms \in Nat /\ now \in Nat /\ MaxTime \in Nat /\ now + ms =< MaxTime
          BY <4>1 DEF NV!FiberSleep, NV!NatVarAssumption, ChParts, ClockOK
        <5>2. QED
          BY <4>2, <5>1
      <4>4. until' = [until EXCEPT ![running] = u]
        BY <4>1, <4>2 DEF NV!FiberSleep
      <4>5. QED
        BY <4>3, <4>4 DEF ChParts, ClockOK
    <3>3. QED
      BY <3>1, <3>2 DEF NV!FiberFinish, NV!FiberYield
  <2>2. QED
    BY <1>3, <1>6, <2>1 DEF ChParts, ClockOK, NV!Spawned
<1>8. ChanPart'
  <2>1. \A g \in NV!Fibers : state'[g] = "WAITING_CHAN" <=> state[g] = "WAITING_CHAN"
    BY <1>1, <1>4
  <2>2. \A g \in NV!Fibers : call[g] = "recv" /\ state[g] \in {"READY", "RUNNING"} => state'[g] \in {"READY", "RUNNING"}
    BY <1>1, <1>4
  <2>3. NV!Spawned' = NV!Spawned /\ NV!Spawned \subseteq NV!Fibers
    BY <1>1, <1>3 DEF NV!Spawned
  <2>4. QED
    BY <1>3, <2>1, <2>2, <2>3, ChStay DEF ChParts
<1>9. QED
  BY <1>5, <1>6, <1>7, <1>8 DEF ChParts

\* What a dispatch does, by the loop or by main's receive.
LEMMA ChRuns ==
  ASSUME NV!NatVarAssumption, NV!OneChannel, ChParts, sched # "fiber",
         UNCHANGED <<g_fiber_count, until, joining, io_waiters, g_done_count, g_mutex_count, driver, last_now, now, readable,
                     recv_on, ChBodyVars>>,
         sched' \in {"fiber", "exited"}, sched # "main",
         sleeping' \subseteq sleeping, Here', running' # NV!Main,
         \A g \in NV!Fibers : \/ state'[g] = state[g]
                              \/ state[g] \in {"READY", "SLEEPING"} /\ state'[g] \in {"READY", "RUNNING"}
  PROVE  ChParts'
<1>1. ClockOK' /\ InFiberOnly' /\ ChLoopOK'
  BY DEF ChParts, ClockOK, InFiberOnly, ChLoopOK, NV!Spawned
<1>2. NV!Spawned' = NV!Spawned /\ NV!Spawned \subseteq NV!Fibers
  BY ChSpawnedFibers DEF NV!Spawned, ChParts
<1>3. \A g \in NV!Fibers : state'[g] = "WAITING_CHAN" <=> state[g] = "WAITING_CHAN"
  OBVIOUS
<1>4. ChanPart'
  BY <1>2, <1>3, ChStay DEF ChParts
<1>5. QED
  BY <1>1, <1>4 DEF ChParts

\* The queue's head runs.
LEMMA HeadRuns ==
  ASSUME NV!NatVarAssumption, NEW q, NEW st, NEW r, NEW n, NEW sl, NEW io, NEW k,
         CoreIs(q, st, r, n, sl, io, k), r = NV!Main, q # <<>>
  PROVE  /\ Head(q) # NV!Main /\ st[Head(q)] = "READY"
         /\ \A g \in NV!Fibers : [st EXCEPT ![Head(q)] = "RUNNING"][g] = IF g = Head(q) THEN "RUNNING" ELSE st[g]
<1>1. Head(q) \in 1..n /\ Head(q) \in NV!Queued(q)
  BY QueueTail DEF CoreIs, ShapeIs, ReadyIs
<1>2. QED
  BY <1>1 DEF CoreIs, ReadyIs, ShapeIs, NV!Main

\* The fiber that the loop resumes was ready, so no channel has it parked.
LEMMA ChDispatch ==
  ASSUME NV!NatVarAssumption, NV!OneChannel, ChParts, NV!LoopDispatch, UNCHANGED NV!chanVars
  PROVE  ChParts'
<1>1. /\ sched = "loop" /\ running = NV!Main /\ sched' \in {"fiber", "exited"}
      /\ UNCHANGED <<g_fiber_count, until, joining, io_waiters, g_done_count, g_mutex_count, driver, last_now, now, readable,
                     recv_on, ChBodyVars>>
  BY DEF NV!LoopDispatch, NV!SwitchTo, NV!mutexVars, NV!envVars, NV!chanVars, ChBodyVars, ChParts, InFiberOnly
<1>2. /\ Here' /\ running' # NV!Main
      /\ \A g \in NV!Fibers : \/ state'[g] = state[g]
                              \/ state[g] \in {"READY", "SLEEPING"} /\ state'[g] \in {"READY", "RUNNING"}
  <2>1. CASE \E f \in NV!Earliest(last_now) : /\ sleeping' = sleeping \ {f}
                                              /\ NV!SwitchTo([state EXCEPT ![f] = "READY"], Append(ready, f))
    <3>1. PICK f \in NV!Earliest(last_now) : /\ sleeping' = sleeping \ {f}
                                             /\ NV!SwitchTo([state EXCEPT ![f] = "READY"], Append(ready, f))
      BY <2>1
    <3>2. f \in sleeping /\ state[f] = "SLEEPING"
      BY DEF NV!Earliest, NV!Due
    <3>3. PICK s2 : s2 = [state EXCEPT ![f] = "READY"]
      OBVIOUS
    <3>4. PICK q2 : q2 = Append(ready, f)
      OBVIOUS
    <3>5. CoreIs(q2, s2, NV!Main, g_fiber_count, sleeping', io_waiters, g_done_count)
      BY <1>1, <3>1, <3>2, <3>3, <3>4, CoreWakeSleeper DEF ChParts, Here
    <3>6. q2 # <<>> /\ ready' = Tail(q2) /\ running' = Head(q2) /\ state' = [s2 EXCEPT ![Head(q2)] = "RUNNING"]
      BY <3>1, <3>3, <3>4 DEF NV!SwitchTo
    <3>7. CoreIs(Tail(q2), [s2 EXCEPT ![Head(q2)] = "RUNNING"], Head(q2), g_fiber_count, sleeping', io_waiters, g_done_count)
      BY <3>5, <3>6, CoreRun
    <3>12. /\ Head(q2) # NV!Main /\ s2[Head(q2)] = "READY"
           /\ \A g \in NV!Fibers : state'[g] = IF g = Head(q2) THEN "RUNNING" ELSE s2[g]
      BY <3>5, <3>6, HeadRuns
    <3>8. Here'
      BY <1>1, <3>6, <3>7 DEF Here
    <3>9. \A g \in NV!Fibers : s2[g] = IF g = f THEN "READY" ELSE state[g]
      BY <3>3 DEF ChParts, Here, CoreIs, ShapeIs
    <3>10. QED
      BY <3>2, <3>6, <3>8, <3>9, <3>12
  <2>2. CASE UNCHANGED sleeping /\ NV!SwitchTo(state, ready)
    <3>1. ready # <<>> /\ ready' = Tail(ready) /\ running' = Head(ready) /\ state' = [state EXCEPT ![Head(ready)] = "RUNNING"]
      BY <2>2 DEF NV!SwitchTo
    <3>11. CoreIs(ready, state, NV!Main, g_fiber_count, sleeping, io_waiters, g_done_count)
      BY <1>1 DEF ChParts, Here
    <3>2. CoreIs(Tail(ready), [state EXCEPT ![Head(ready)] = "RUNNING"], Head(ready), g_fiber_count, sleeping, io_waiters, g_done_count)
      BY <1>1, <3>1, <3>11, CoreRun
    <3>12. /\ Head(ready) # NV!Main /\ state[Head(ready)] = "READY"
           /\ \A g \in NV!Fibers : state'[g] = IF g = Head(ready) THEN "RUNNING" ELSE state[g]
      BY <1>1, <3>1, <3>11, HeadRuns
    <3>3. Here'
      BY <1>1, <2>2, <3>1, <3>2 DEF Here
    <3>4. QED
      BY <3>1, <3>3, <3>12
  <2>3. QED
    BY <2>1, <2>2 DEF NV!LoopDispatch
<1>3. sleeping' \subseteq sleeping
  BY DEF NV!LoopDispatch
<1>4. QED
  BY <1>1, <1>2, <1>3, ChRuns DEF NV!LoopDispatch

\* Main's receive runs the head of the queue, or a due sleeper.
LEMMA ChMainSteps ==
  ASSUME NV!NatVarAssumption, NV!OneChannel, ChParts, NV!MainSteps
  PROVE  ChParts'
<1>1. /\ sched = "recv" /\ running = NV!Main /\ sched' \in {"fiber", "exited"}
      /\ UNCHANGED <<g_fiber_count, until, joining, io_waiters, g_done_count, g_mutex_count, driver, last_now, now, readable,
                     recv_on, ChBodyVars>>
  BY DEF NV!MainSteps, NV!SwitchTo, NV!mutexVars, NV!envVars, NV!chanVars, ChBodyVars, ChParts, InFiberOnly
<1>2. /\ Here' /\ running' # NV!Main /\ sleeping' \subseteq sleeping
      /\ \A g \in NV!Fibers : \/ state'[g] = state[g]
                              \/ state[g] \in {"READY", "SLEEPING"} /\ state'[g] \in {"READY", "RUNNING"}
  <2>0. CoreIs(ready, state, NV!Main, g_fiber_count, sleeping, io_waiters, g_done_count)
    BY <1>1 DEF ChParts, Here
  <2>1. CASE NV!SwitchTo(state, ready) /\ UNCHANGED sleeping
    <3>1. ready # <<>> /\ ready' = Tail(ready) /\ running' = Head(ready) /\ state' = [state EXCEPT ![Head(ready)] = "RUNNING"]
      BY <2>1 DEF NV!SwitchTo
    <3>2. CoreIs(Tail(ready), [state EXCEPT ![Head(ready)] = "RUNNING"], Head(ready), g_fiber_count, sleeping, io_waiters, g_done_count)
      BY <1>1, <2>0, <3>1, CoreRun
    <3>3. /\ Head(ready) # NV!Main /\ state[Head(ready)] = "READY"
          /\ \A g \in NV!Fibers : state'[g] = IF g = Head(ready) THEN "RUNNING" ELSE state[g]
      BY <2>0, <3>1, HeadRuns
    <3>4. Here'
      BY <1>1, <2>1, <3>1, <3>2 DEF Here
    <3>5. QED
      BY <2>1, <3>1, <3>3, <3>4
  <2>2. CASE \E f \in NV!Earliest(now) : /\ ready = <<>>
                                         /\ sleeping' = sleeping \ {f}
                                         /\ NV!SwitchTo(state, <<f>>)
    <3>1. PICK f \in NV!Earliest(now) : /\ ready = <<>>
                                        /\ sleeping' = sleeping \ {f}
                                        /\ NV!SwitchTo(state, <<f>>)
      BY <2>2
    <3>2. f \in sleeping /\ state[f] = "SLEEPING"
      BY DEF NV!Earliest, NV!Due
    <3>3. ready' = <<>> /\ running' = f /\ state' = [state EXCEPT ![f] = "RUNNING"]
      <4>1. Head(<<f>>) = f /\ Tail(<<f>>) = <<>>
        OBVIOUS
      <4>2. QED
        BY <3>1, <4>1 DEF NV!SwitchTo
    <3>4. CoreIs(<<>>, [state EXCEPT ![f] = "RUNNING"], f, g_fiber_count, sleeping \ {f}, io_waiters, g_done_count)
      BY <1>1, <2>0, <3>1, <3>2, CoreRunSleeper
    <3>5. Here'
      BY <1>1, <3>1, <3>3, <3>4 DEF Here
    <3>6. f # NV!Main
      BY <2>0, <3>2 DEF CoreIs, ShapeIs, NV!Main
    <3>7. \A g \in NV!Fibers : state'[g] = IF g = f THEN "RUNNING" ELSE state[g]
      BY <2>0, <3>3 DEF CoreIs, ShapeIs
    <3>8. QED
      BY <3>1, <3>2, <3>3, <3>5, <3>6, <3>7
  <2>3. QED
    BY <2>1, <2>2 DEF NV!MainSteps
<1>3. QED
  BY <1>1, <1>2, ChRuns

ChCalls == NV!ChanCreate \/ (\E c \in ReceivesFrom[NV!Main] : NV!MainChanRecv(c)) \/ NV!MainFailsClosed \/ NV!MainSpins

\* main's calls around the channel: create, the start of a receive, its failure, its spin.
LEMMA ChMainCalls ==
  ASSUME NV!NatVarAssumption, NV!OneChannel, ChParts, ChCalls
  PROVE  ChParts'
<1>1. UNCHANGED <<g_fiber_count, state, until, ready, running, sleeping, joining, io_waiters, g_done_count, ChBodyVars>>
  BY DEF ChCalls, NV!ChanCreate, NV!MainChanRecv, NV!MainFailsClosed, NV!MainSpins, NV!allVars, NV!vars, NV!fiberVars, NV!queueVars, NV!chanVars, ChBodyVars
<1>2. UNCHANGED <<now, last_now, readable, g_mutex_count>>
  BY DEF ChCalls, NV!ChanCreate, NV!MainChanRecv, NV!MainFailsClosed, NV!MainSpins, NV!MainReturns, NV!allVars, NV!vars, NV!envVars, NV!loopVars, NV!mutexVars
<1>3. ReceivesFrom[NV!Main] \subseteq {1}
  BY DEF NV!OneChannel, NV!Chans
<1>4. InFiberOnly' /\ ChLoopOK'
  <2>1. CASE NV!ChanCreate \/ NV!MainSpins
    <3>1. UNCHANGED <<sched, driver, recv_on>>
      BY <2>1 DEF NV!ChanCreate, NV!MainSpins, NV!allVars, NV!vars, NV!loopVars, NV!chanVars
    <3>2. QED
      BY <1>1, <1>2, <3>1 DEF ChParts, InFiberOnly, ChLoopOK
  <2>2. CASE \E c \in ReceivesFrom[NV!Main] : NV!MainChanRecv(c)
    <3>1. sched = "main" /\ running = NV!Main /\ sched' = "recv" /\ driver' = "recv" /\ recv_on' = 1
      BY <1>3, <2>2 DEF NV!MainChanRecv
    <3>2. QED
      BY <1>1, <1>2, <3>1 DEF ChParts, InFiberOnly, ChLoopOK
  <2>3. CASE NV!MainFailsClosed
    <3>1. sched = "recv" /\ sched' = "main" /\ driver' = driver
      BY <2>3 DEF NV!MainFailsClosed, NV!MainReturns
    <3>2. QED
      BY <1>1, <1>2, <3>1 DEF ChParts, InFiberOnly, ChLoopOK
  <2>4. QED
    BY <2>1, <2>2, <2>3 DEF ChCalls
<1>5. ClockOK'
  BY <1>1, <1>2 DEF ChParts, ClockOK, NV!Spawned
<1>6. QED
  BY <1>1, <1>4, <1>5, ChLoopStep

\* natvar_reset forgets the channel with the fibers.
LEMMA ChReset ==
  ASSUME NV!NatVarAssumption, NV!OneChannel, ChParts, NV!ChanReset
  PROVE  ChParts'
<1> USE DEF NV!ChanReset
<1>1. /\ g_fiber_count' = 0 /\ state' = [f \in NV!Fibers |-> "NONE"] /\ ready' = <<>> /\ running' = NV!Main
      /\ sleeping' = {} /\ joining' = {} /\ io_waiters' = <<>> /\ g_done_count' = 0
      /\ call' = [f \in NV!Fibers |-> "body"] /\ wait_on' = [f \in NV!Fibers |-> 0] /\ until' = [f \in NV!Fibers |-> 0]
      /\ chan' = [c \in NV!Chans |-> [has_value |-> FALSE, buf |-> 0]] /\ g_waiting_chan_count' = 0
      /\ sent' = [c \in NV!Chans |-> <<>>] /\ rcvd' = [c \in NV!Chans |-> <<>>]
      /\ UNCHANGED <<chan_recv, chan_send, recv_on, sending, g_mutex_count, sched, driver, last_now, now, readable>>
      /\ sched = "main" /\ running = NV!Main /\ g_done_count = g_fiber_count
  BY DEF NV!FiberReset, NV!loopVars, NV!envVars
<1> HIDE DEF NV!ChanReset
<1>2. Here'
  <2>1. CoreIs(<<>>, state', NV!Main, 0, {}, <<>>, 0)
    BY <1>1, CoreStart
  <2>2. QED
    BY <1>1, <2>1 DEF Here
<1>3. ClockOK' /\ InFiberOnly' /\ ChLoopOK'
  <2>1. MaxTime \in Nat /\ \A x : x \notin 1..0
    BY DEF NV!NatVarAssumption
  <2>2. ClockOK' /\ ChLoopOK'
    BY <1>1, <2>1 DEF ChParts, ClockOK, ChLoopOK, NV!Spawned
  <2>3. InFiberOnly'
    BY <1>1 DEF InFiberOnly
  <2>4. QED
    BY <2>2, <2>3
<1>4. \A f \in NV!Fibers : sending[f] = 0
  <2>1. \A f \in 1..g_fiber_count : state[f] = "DONE"
    BY <1>1, AllDoneFacts DEF ChParts
  <2>2. QED
    BY <2>1 DEF ChParts, ChanPart, ChanTypes, NV!ChanCallOK, NV!Spawned
<1>5. NV!Chans = {1} /\ 1 \in NV!Chans
  BY DEF NV!OneChannel, NV!Chans
<1>6. chan'[1] = [has_value |-> FALSE, buf |-> 0] /\ sent'[1] = <<>> /\ rcvd'[1] = <<>> /\ ~chan'[1].has_value
  BY <1>1, <1>5
<1>7. \A f \in NV!Fibers : state'[f] = "NONE" /\ call'[f] = "body" /\ sending'[f] = 0
  BY <1>1, <1>4
<1>8. ChanTypes' /\ \A f \in NV!Fibers : NV!ChanCallOK(f)'
  <2>1. ChanTypes'
    BY <1>1 DEF ChParts, ChanPart, ChanTypes
  <2>2. \A f \in NV!Fibers : NV!ChanCallOK(f)'
    BY <1>7 DEF NV!ChanCallOK
  <2>3. QED
    BY <2>1, <2>2
<1>9. NV!ArraysExact'
  <2>1. NV!ParkedRecvs' = 0 /\ (\A x : x \notin 1..0) /\ TIMER_MAX \in Nat
    BY <1>1, <1>6 DEF NV!ParkedRecvs, NV!NatVarAssumption
  <2>2. NV!Receivers' = {}
    BY <1>1, <2>1 DEF NV!Receivers, NV!Spawned
  <2>3. {chan_recv'[k] : k \in 1..0} = {}
    BY <2>1
  <2>4. QED
    BY <1>1, <1>6, <2>1, <2>2, <2>3 DEF ChParts, ChanPart, NV!ArraysExact
<1>10. NV!ValuesExact'
  <2>1. chan' \in [NV!Chans -> [has_value : BOOLEAN, buf : Nat]]
    BY <1>1
  <2>2. <<>> \in Seq(Nat) /\ Len(<<>>) = 0 /\ \A x : x \notin 1..0
    OBVIOUS
  <2>3. QED
    BY <1>6, <2>1, <2>2 DEF NV!ValuesExact
<1>11. NV!ReceiverNotForgotten'
  BY <1>5, <1>6 DEF NV!ReceiverNotForgotten
<1>12. QED
  BY <1>2, <1>3, <1>8, <1>9, <1>10, <1>11 DEF ChParts, ChanPart

\* No channel at first.
LEMMA ChInit ==
  ASSUME NV!NatVarAssumption, NV!OneChannel, NV!ChanInit
  PROVE  ChParts
<1> USE DEF NV!ChanInit
<1>1. /\ g_fiber_count = 0 /\ state = [f \in NV!Fibers |-> "NONE"] /\ ready = <<>> /\ running = NV!Main
      /\ sleeping = {} /\ io_waiters = <<>> /\ g_done_count = 0 /\ joining = {}
      /\ call = [f \in NV!Fibers |-> "body"] /\ wait_on = [f \in NV!Fibers |-> 0] /\ until = [f \in NV!Fibers |-> 0]
      /\ chan = [c \in NV!Chans |-> [has_value |-> FALSE, buf |-> 0]] /\ g_waiting_chan_count = 0
      /\ sent = [c \in NV!Chans |-> <<>>] /\ rcvd = [c \in NV!Chans |-> <<>>]
      /\ chan_recv = [k \in NV!Slots |-> 0] /\ chan_send = [k \in NV!Slots |-> 0] /\ sending = [f \in NV!Fibers |-> 0]
      /\ g_mutex_count = 0 /\ sched = "main" /\ driver = "loop" /\ last_now = 0 /\ now = 0 /\ readable = {}
  BY DEF NV!Init, NV!Main
<1> HIDE DEF NV!ChanInit
<1>2. Here
  <2>1. CoreIs(<<>>, state, NV!Main, 0, {}, <<>>, 0)
    BY <1>1, CoreStart
  <2>2. QED
    BY <1>1, <2>1 DEF Here
<1>3. ClockOK /\ InFiberOnly /\ ChLoopOK
  <2>1. MaxTime \in Nat
    BY DEF NV!NatVarAssumption
  <2>2. ClockOK /\ ChLoopOK
    BY <1>1, <2>1 DEF ClockOK, ChLoopOK
  <2>3. InFiberOnly
    BY <1>1 DEF InFiberOnly
  <2>4. QED
    BY <2>2, <2>3
<1>5. NV!Chans = {1} /\ 1 \in NV!Chans
  BY DEF NV!OneChannel, NV!Chans
<1>6. chan[1] = [has_value |-> FALSE, buf |-> 0] /\ sent[1] = <<>> /\ rcvd[1] = <<>> /\ ~chan[1].has_value
  BY <1>1, <1>5
<1>7. \A f \in NV!Fibers : state[f] = "NONE" /\ call[f] = "body" /\ sending[f] = 0
  BY <1>1
<1>8. ChanTypes /\ \A f \in NV!Fibers : NV!ChanCallOK(f)
  <2>1. ChanTypes
    BY <1>1 DEF ChanTypes
  <2>2. \A f \in NV!Fibers : NV!ChanCallOK(f)
    BY <1>7 DEF NV!ChanCallOK
  <2>3. QED
    BY <2>1, <2>2
<1>9. NV!ArraysExact
  <2>1. NV!ParkedRecvs = 0 /\ (\A x : x \notin 1..0) /\ TIMER_MAX \in Nat /\ FIBER_MAX \in Nat
    BY <1>1, <1>6 DEF NV!ParkedRecvs, NV!NatVarAssumption
  <2>2. NV!Receivers = {}
    BY <1>1, <2>1 DEF NV!Receivers, NV!Spawned
  <2>3. {chan_recv[k] : k \in 1..0} = {}
    BY <2>1
  <2>4. \A k \in NV!Slots : chan_send[k] = 0
    BY <1>1
  <2>5. chan_recv \in [NV!Slots -> 0..FIBER_MAX] /\ chan_send \in [NV!Slots -> 0..FIBER_MAX]
    BY <1>1, <2>1
  <2>6. QED
    BY <1>1, <1>6, <2>1, <2>2, <2>3, <2>4, <2>5 DEF NV!ArraysExact
<1>10. NV!ValuesExact
  <2>1. chan \in [NV!Chans -> [has_value : BOOLEAN, buf : Nat]]
    BY <1>1
  <2>2. <<>> \in Seq(Nat) /\ Len(<<>>) = 0 /\ \A x : x \notin 1..0
    OBVIOUS
  <2>3. QED
    BY <1>6, <2>1, <2>2 DEF NV!ValuesExact
<1>11. NV!ReceiverNotForgotten
  BY <1>5, <1>6 DEF NV!ReceiverNotForgotten
<1>12. QED
  BY <1>2, <1>3, <1>8, <1>9, <1>10, <1>11 DEF ChParts, ChanPart

\* A part of the receivers' array holds each fiber once and not the running one,
\* so there is a place left.
LEMMA ArrayRoom ==
  ASSUME NEW n \in Nat, NEW m \in Nat, NEW r \in 1..m, NEW a, \A k \in 1..n : a[k] \in (1..m) \ {r},
         \A j, k \in 1..n : a[j] = a[k] => j = k
  PROVE  n =< m - 1
<1> PICK q : q = [k \in 1..n |-> a[k]]
  OBVIOUS
<1>1. q \in Seq(1..m) /\ Len(q) = n /\ \A k \in 1..n : q[k] = a[k]
  OBVIOUS
<1>2. NV!NoDuplicates(q) /\ r \notin NV!Queued(q)
  BY <1>1 DEF NV!NoDuplicates, NV!Queued
<1>3. Len(q) =< m - 1
  BY <1>1, <1>2, QueueRoom
<1>4. QED
  BY <1>1, <1>3

\* What is known of the channel and of its fibers.
LEMMA ChFacts ==
  ASSUME NV!NatVarAssumption, NV!OneChannel, ChParts
  PROVE  /\ NV!Chans = {1} /\ 1 \in NV!Chans /\ chan[1].has_value \in BOOLEAN /\ NV!Spawned \subseteq NV!Fibers
         /\ \A f \in NV!Receivers : f \in NV!Spawned /\ f # 0 /\ state[f] = "WAITING_CHAN" /\ wait_on[f] = 1 /\ call[f] = "recv"
                                 /\ 1 \notin SendsTo[f]
         /\ g_waiting_chan_count \in Nat /\ g_waiting_chan_count =< TIMER_MAX
<1>1. NV!Chans = {1} /\ 1 \in NV!Chans
  BY DEF NV!OneChannel, NV!Chans
<1>2. NV!Spawned \subseteq NV!Fibers /\ \A f \in NV!Spawned : f # 0
  BY ChSpawnedFibers DEF ChParts, NV!Spawned
<1>3. chan[1].has_value \in BOOLEAN
  BY <1>1 DEF ChParts, ChanPart, NV!ValuesExact
<1>4. g_waiting_chan_count \in Nat /\ g_waiting_chan_count =< TIMER_MAX
  BY DEF ChParts, ChanPart, NV!ArraysExact, NV!NatVarAssumption
<1>5. QED
  BY <1>1, <1>2, <1>3, <1>4 DEF ChParts, ChanPart, NV!ChanCallOK, NV!Receivers

\* A send wakes a receiver if one is parked, and the others keep their places.
RecvWoken(a, n, q, st, W) ==
  /\ W \in SUBSET NV!Receivers /\ (W = {} => NV!Receivers = {})
  /\ n \in Nat /\ n =< g_waiting_chan_count /\ (W # {} => n = g_waiting_chan_count - 1)
  /\ a \in [NV!Slots -> 0..FIBER_MAX] /\ {a[k] : k \in 1..n} = NV!Receivers \ W
  /\ \A j, k \in 1..n : a[j] = a[k] => j = k
  /\ CoreIs(q, st, running, g_fiber_count, sleeping, io_waiters, g_done_count)
  /\ \A f \in NV!Fibers : st[f] = IF f \in W THEN "READY" ELSE state[f]

\* After a send the scan of the wait array wakes the receiver with the lowest
\* place and closes the gap with the last.
LEMMA WakesReceiver ==
  ASSUME NV!NatVarAssumption, NV!OneChannel, ChParts, ~chan[1].has_value,
         NEW w, w = NV!Woken(chan_recv, 1)
  PROVE  \E W : RecvWoken(w.array, w.count, w.ready, w.state, W)
<1> PICK n : n = g_waiting_chan_count
  OBVIOUS
<1>1. /\ n \in Nat /\ n =< TIMER_MAX /\ TIMER_MAX \in Nat /\ {chan_recv[k] : k \in 1..n} = NV!Receivers
      /\ \A j, k \in 1..n : chan_recv[j] = chan_recv[k] => j = k
      /\ chan_recv \in [NV!Slots -> 0..FIBER_MAX]
      /\ 1..n \subseteq NV!Slots
  <2>1. NV!ParkedRecvs = n
    BY DEF NV!ParkedRecvs
  <2>2. n \in Nat /\ n =< TIMER_MAX /\ TIMER_MAX \in Nat
    BY ChFacts DEF NV!NatVarAssumption
  <2>3. 1..n \subseteq NV!Slots
    BY <2>2 DEF NV!Slots
  <2>4. QED
    BY <2>1, <2>2, <2>3 DEF ChParts, ChanPart, NV!ArraysExact
<1>2. \A k \in 1..n : chan_recv[k] \in NV!Receivers /\ chan_recv[k] # 0 /\ state[chan_recv[k]] = "WAITING_CHAN" /\ wait_on[chan_recv[k]] = 1
  BY <1>1, ChFacts
<1>3. CoreIs(ready, state, running, g_fiber_count, sleeping, io_waiters, g_done_count)
  BY DEF ChParts, Here
<1>4. CASE n = 0
  <2>1. (\A x : x \notin 1..n) /\ NV!Receivers = {}
    BY <1>1, <1>4
  <2>2. NV!FirstParked(chan_recv, 1) = {}
    BY <2>1 DEF NV!FirstParked
  <2>3. w = [array |-> chan_recv, count |-> n, ready |-> ready, state |-> state]
    BY <2>2 DEF NV!Woken
  <2>4. w.array = chan_recv /\ w.count = n /\ w.ready = ready /\ w.state = state
    BY <2>3
  <2>5. RecvWoken(chan_recv, n, ready, state, {})
    BY <1>1, <1>3, <2>1 DEF RecvWoken
  <2>6. QED
    BY <2>4, <2>5
<1>5. CASE n # 0
  <2>1. 1 \in 1..n /\ n \in 1..n /\ n - 1 \in Nat /\ n \in NV!Slots /\ 1 \in NV!Slots
    BY <1>1, <1>5
  <2>2. NV!FirstParked(chan_recv, 1) = {1}
    <3>1. NV!FirstParked(chan_recv, 1) = {k \in 1..n : \A j \in 1..n : k =< j}
      BY <1>2 DEF NV!FirstParked
    <3>2. \A k \in 1..n : 1 =< k /\ (k =< 1 => k = 1)
      OBVIOUS
    <3>3. QED
      BY <2>1, <3>1, <3>2
  <2> PICK f0 : f0 = chan_recv[1]
    OBVIOUS
  <2> PICK a2 : a2 = [chan_recv EXCEPT ![1] = chan_recv[n]]
    OBVIOUS
  <2> PICK m : m = n - 1
    OBVIOUS
  <2> PICK q2 : q2 = Append(ready, f0)
    OBVIOUS
  <2> PICK s2 : s2 = [state EXCEPT ![f0] = "READY"]
    OBVIOUS
  <2>3. w = [array |-> a2, count |-> m, ready |-> q2, state |-> s2]
    <3>1. (CHOOSE x \in {1} : TRUE) = 1 /\ {1} # {}
      OBVIOUS
    <3>2. QED
      BY <2>2, <3>1 DEF NV!Woken
  <2>4. f0 \in NV!Receivers /\ f0 \in 1..g_fiber_count /\ f0 \in NV!Fibers /\ state[f0] \in Waits
    BY <1>2, <2>1, ChFacts DEF Waits, NV!Spawned
  <2>5. CoreIs(q2, s2, running, g_fiber_count, sleeping, io_waiters, g_done_count)
    BY <1>3, <2>4, CoreWake
  <2>6. a2 \in [NV!Slots -> 0..FIBER_MAX] /\ \A k \in NV!Slots : a2[k] = IF k = 1 THEN chan_recv[n] ELSE chan_recv[k]
    BY <1>1, <2>1
  <2>7. \A k \in 1..m : k \in 1..n /\ k # n
    BY <2>1
  <2>8. \A k \in 1..n : k # n => k \in 1..m
    BY <2>1
  <2>9. \A k \in 1..m : k \in NV!Slots /\ a2[k] \in NV!Receivers /\ a2[k] # f0
    <3>1. SUFFICES ASSUME NEW k \in 1..m
                   PROVE  k \in NV!Slots /\ a2[k] \in NV!Receivers /\ a2[k] # f0
      OBVIOUS
    <3>2. k \in 1..n /\ k # n /\ k \in NV!Slots
      BY <1>1, <2>7
    <3>3. a2[k] = chan_recv[IF k = 1 THEN n ELSE k]
      BY <2>6, <3>2
    <3>4. (IF k = 1 THEN n ELSE k) \in 1..n /\ (IF k = 1 THEN n ELSE k) # 1
      BY <2>1, <3>2
    <3>5. QED
      BY <1>1, <1>2, <2>1, <3>2, <3>3, <3>4
  <2>10. \A j, k \in 1..m : a2[j] = a2[k] => j = k
    <3>1. SUFFICES ASSUME NEW j \in 1..m, NEW k \in 1..m, a2[j] = a2[k]
                   PROVE  j = k
      OBVIOUS
    <3>2. j \in 1..n /\ j # n /\ j \in NV!Slots /\ k \in 1..n /\ k # n /\ k \in NV!Slots
      BY <1>1, <2>7
    <3>3. (IF j = 1 THEN n ELSE j) = (IF k = 1 THEN n ELSE k)
      BY <1>1, <2>1, <2>6, <3>1, <3>2
    <3>4. QED
      BY <3>2, <3>3
  <2>11. {a2[k] : k \in 1..m} = NV!Receivers \ {f0}
    <3>1. ASSUME NEW g \in NV!Receivers, g # f0
          PROVE  \E k \in 1..m : g = a2[k]
      <4>1. PICK k \in 1..n : g = chan_recv[k]
        BY <1>1
      <4>2. k # 1
        BY <3>1, <4>1
      <4>3. CASE k = n
        <5>1. 1 \in 1..m /\ a2[1] = chan_recv[n]
          BY <2>1, <2>6, <2>8, <4>2, <4>3
        <5>2. QED
          BY <4>1, <4>3, <5>1
      <4>4. CASE k # n
        BY <1>1, <2>6, <2>8, <4>1, <4>2, <4>4
      <4>5. QED
        BY <4>3, <4>4
    <3>2. QED
      BY <2>9, <3>1
  <2>12. \A f \in NV!Fibers : s2[f] = IF f \in {f0} THEN "READY" ELSE state[f]
    BY <1>3, <2>4 DEF CoreIs, ShapeIs
  <2>13. {f0} \in SUBSET NV!Receivers /\ {f0} # {} /\ m \in Nat /\ m =< n /\ m = g_waiting_chan_count - 1
    BY <2>1, <2>4
  <2>14. w.array = a2 /\ w.count = m /\ w.ready = q2 /\ w.state = s2
    BY ONLY <2>3
  <2>15. RecvWoken(a2, m, q2, s2, {f0})
    BY <2>5, <2>6, <2>10, <2>11, <2>12, <2>13 DEF RecvWoken
  <2>16. QED
    BY <2>14, <2>15
<1>6. QED
  BY <1>4, <1>5

\* A receive that finds a value wakes its sender.
SendWoken(a, n, q, st, s) ==
  /\ s \in NV!Spawned /\ sending[s] # 0 /\ state[s] = "WAITING_CHAN" /\ call[s] = "body"
  /\ \A f \in NV!Fibers : sending[f] # 0 => f = s
  /\ n \in Nat /\ n = g_waiting_chan_count - 1
  /\ a \in [NV!Slots -> 0..FIBER_MAX] /\ \A k \in NV!Slots : a[k] # 0 => 1 \in SendsTo[a[k]]
  /\ CoreIs(q, st, running, g_fiber_count, sleeping, io_waiters, g_done_count)
  /\ \A f \in NV!Fibers : st[f] = IF f = s THEN "READY" ELSE state[f]

\* After a receive the same scan finds the one sender, in the last place.
LEMMA WakesSender ==
  ASSUME NV!NatVarAssumption, NV!OneChannel, ChParts, chan[1].has_value,
         NEW w, w = NV!Woken(chan_send, 1)
  PROVE  \E s : SendWoken(w.array, w.count, w.ready, w.state, s)
<1> PICK n : n = g_waiting_chan_count
  OBVIOUS
<1> PICK s : s = chan_send[n]
  OBVIOUS
<1>1. /\ n \in Nat /\ n =< TIMER_MAX /\ TIMER_MAX \in Nat /\ n - 1 \in Nat
      /\ chan_send \in [NV!Slots -> 0..FIBER_MAX] /\ \A k \in NV!Slots : chan_send[k] # 0 => 1 \in SendsTo[chan_send[k]]
      /\ s \in NV!Fibers /\ sending[s] # 0
  BY ChFacts DEF ChParts, ChanPart, NV!ArraysExact, NV!ParkedRecvs, NV!NatVarAssumption
<1>2. n \in 1..n /\ n \in NV!Slots /\ 1..n \subseteq NV!Slots /\ 1..n \subseteq Nat /\ s # 0
  BY <1>1 DEF NV!Slots, NV!Fibers
<1>3. /\ s \in NV!Spawned /\ state[s] = "WAITING_CHAN" /\ call[s] = "body" /\ wait_on[s] = 1 /\ 1 \in SendsTo[s]
  BY <1>1 DEF ChParts, ChanPart, NV!ChanCallOK
<1>4. \A f \in NV!Fibers : 1 \in SendsTo[f] => f = s
  BY <1>1, <1>3 DEF NV!OneChannel
<1>5. \A f \in NV!Fibers : sending[f] # 0 => f = s
  BY <1>4 DEF ChParts, ChanPart, NV!ChanCallOK
<1>6. CoreIs(ready, state, running, g_fiber_count, sleeping, io_waiters, g_done_count)
  BY DEF ChParts, Here
<1> DEFINE hits == {k \in 1..n : chan_send[k] # 0 /\ state[chan_send[k]] = "WAITING_CHAN" /\ wait_on[chan_send[k]] = 1}
<1>7. NV!FirstParked(chan_send, 1) = {k \in hits : \A j \in hits : k =< j}
  BY DEF NV!FirstParked
<1>8. n \in hits /\ hits \in SUBSET Nat /\ hits # {} /\ hits \subseteq 1..n
  BY <1>2, <1>3
<1> HIDE DEF hits
<1>9. \E k \in hits : \A j \in hits : k =< j
  BY <1>8, Smallest
<1>10. PICK p : p = CHOOSE x \in NV!FirstParked(chan_send, 1) : TRUE
  OBVIOUS
<1>11. NV!FirstParked(chan_send, 1) # {} /\ p \in hits
  BY <1>7, <1>9, <1>10
<1>12. p \in NV!Slots /\ chan_send[p] = s
  <2>1. p \in 1..n /\ chan_send[p] # 0
    BY <1>11 DEF hits
  <2>2. p \in NV!Slots /\ chan_send[p] \in NV!Fibers /\ 1 \in SendsTo[chan_send[p]]
    BY <1>1, <1>2, <2>1 DEF NV!Fibers, NV!NatVarAssumption
  <2>3. QED
    BY <1>4, <2>2
<1> PICK a2 : a2 = [chan_send EXCEPT ![p] = s]
  OBVIOUS
<1> PICK m : m = n - 1
  OBVIOUS
<1> PICK q2 : q2 = Append(ready, s)
  OBVIOUS
<1> PICK s2 : s2 = [state EXCEPT ![s] = "READY"]
  OBVIOUS
<1>13. w = [array |-> a2, count |-> m, ready |-> q2, state |-> s2]
  BY <1>10, <1>11, <1>12 DEF NV!Woken
<1>14. w.array = a2 /\ w.count = m /\ w.ready = q2 /\ w.state = s2
  BY ONLY <1>13
<1>15. a2 \in [NV!Slots -> 0..FIBER_MAX] /\ \A k \in NV!Slots : a2[k] # 0 => 1 \in SendsTo[a2[k]]
  <2>1. s \in 0..FIBER_MAX
    BY <1>1, <1>2
  <2>2. QED
    BY <1>1, <1>3, <1>12, <2>1
<1>16. CoreIs(q2, s2, running, g_fiber_count, sleeping, io_waiters, g_done_count)
  <2>1. s \in 1..g_fiber_count /\ state[s] \in Waits
    BY <1>3 DEF Waits, NV!Spawned
  <2>2. QED
    BY <1>6, <2>1, CoreWake
<1>17. \A f \in NV!Fibers : s2[f] = IF f = s THEN "READY" ELSE state[f]
  BY <1>6 DEF CoreIs, ShapeIs
<1>18. SendWoken(a2, m, q2, s2, s)
  BY <1>1, <1>3, <1>5, <1>15, <1>16, <1>17 DEF SendWoken
<1>19. QED
  BY <1>14, <1>18, ZenonT(90)

\* A send stores the value, wakes a receiver and parks its caller on the value.
LEMMA ChSend ==
  ASSUME NV!NatVarAssumption, NV!OneChannel, ChParts, NV!InFiber, 1 \in SendsTo[running], NV!FiberChanSend(1)
  PROVE  ChParts'
<1>1. /\ running # NV!Main /\ running \in 1..g_fiber_count /\ running \in NV!Fibers /\ sched = "fiber"
      /\ state[running] = "RUNNING" /\ call[running] = "body" /\ 1..g_fiber_count \subseteq NV!Fibers
  BY NvRunning DEF ChParts, NV!InFiber, NV!Inside
<1>2. NV!Chans = {1} /\ 1 \in NV!Chans
  BY ChFacts
<1>3. ~chan[1].has_value
  <2>1. SUFFICES ASSUME chan[1].has_value PROVE FALSE
    OBVIOUS
  <2> PICK w : w = NV!Woken(chan_send, 1)
    OBVIOUS
  <2>2. PICK s : SendWoken(w.array, w.count, w.ready, w.state, s)
    BY <2>1, WakesSender
  <2>3. s \in NV!Fibers /\ sending[s] # 0 /\ state[s] = "WAITING_CHAN"
    BY <1>1, <2>2 DEF SendWoken, NV!Spawned
  <2>4. 1 \in SendsTo[s]
    BY <2>3 DEF ChParts, ChanPart, NV!ChanCallOK
  <2>5. s = running
    BY <1>1, <2>3, <2>4 DEF NV!OneChannel
  <2>6. QED
    BY <1>1, <2>3, <2>5
<1> PICK w : w = NV!Woken(chan_recv, 1)
  OBVIOUS
<1>4. PICK W : RecvWoken(w.array, w.count, w.ready, w.state, W)
  BY <1>3, WakesReceiver
<1> PICK a : a = w.array
  OBVIOUS
<1> PICK n : n = w.count
  OBVIOUS
<1> PICK q : q = w.ready
  OBVIOUS
<1> PICK st : st = w.state
  OBVIOUS
<1> PICK v : v = Len(sent[1]) + 1
  OBVIOUS
<1>5. RecvWoken(a, n, q, st, W)
  BY <1>4
<1>6. n < TIMER_MAX /\ TIMER_MAX \in Nat /\ n \in Nat /\ n + 1 \in NV!Slots
  <2>1. TIMER_MAX \in Nat /\ FIBER_MAX \in Nat /\ FIBER_MAX =< TIMER_MAX
    BY DEF NV!OneChannel, NV!NatVarAssumption
  <2>2. n \in Nat /\ n =< g_waiting_chan_count /\ g_waiting_chan_count \in Nat /\ g_waiting_chan_count =< TIMER_MAX
    BY <1>5, ChFacts DEF RecvWoken
  <2>3. g_waiting_chan_count =< g_fiber_count - 1
    <3>1. g_fiber_count \in Nat /\ g_waiting_chan_count \in Nat
      BY CoreFacts, <2>2 DEF ChParts, Here
    <3>2. \A k \in 1..g_waiting_chan_count : chan_recv[k] \in (1..g_fiber_count) \ {running}
      <4>1. NV!ParkedRecvs = g_waiting_chan_count
        BY <1>3 DEF NV!ParkedRecvs
      <4>2. \A k \in 1..g_waiting_chan_count : chan_recv[k] \in NV!Receivers
        BY <4>1 DEF ChParts, ChanPart, NV!ArraysExact
      <4>3. QED
        BY <1>1, <4>2 DEF NV!Receivers, NV!Spawned
    <3>3. \A j, k \in 1..g_waiting_chan_count : chan_recv[j] = chan_recv[k] => j = k
      BY <1>3 DEF ChParts, ChanPart, NV!ArraysExact, NV!ParkedRecvs
    <3>4. QED
      BY <1>1, <3>1, <3>2, <3>3, ArrayRoom
  <2>4. g_fiber_count \in Nat /\ g_fiber_count =< FIBER_MAX
    BY CoreFacts DEF ChParts, Here
  <2>5. QED
    BY <2>1, <2>2, <2>3, <2>4 DEF NV!Slots
<1> PICK m : m = n + 1
  OBVIOUS
<1>7. /\ chan' = [chan EXCEPT ![1] = [has_value |-> TRUE, buf |-> v]]
      /\ chan_recv' = a /\ ready' = q /\ state' = [st EXCEPT ![running] = "WAITING_CHAN"]
      /\ chan_send' = [chan_send EXCEPT ![m] = running] /\ g_waiting_chan_count' = m
      /\ wait_on' = [wait_on EXCEPT ![running] = 1] /\ sending' = [sending EXCEPT ![running] = v]
      /\ sent' = [sent EXCEPT ![1] = Append(sent[1], v)] /\ NV!SwitchBack
      /\ UNCHANGED <<g_fiber_count, until, call, sleeping, joining, io_waiters, g_done_count, g_mutex_count, recv_on, rcvd>>
  BY <1>6 DEF NV!FiberChanSend, NV!mutexVars
<1>8. CoreIs(q, st, running, g_fiber_count, sleeping, io_waiters, g_done_count)
  BY <1>5 DEF RecvWoken
<1>9. Here'
  <2>1. CoreIs(q, [st EXCEPT ![running] = "WAITING_CHAN"], NV!Main, g_fiber_count, sleeping, io_waiters, g_done_count)
    BY <1>1, <1>8, CorePark DEF Waits
  <2>2. running' = NV!Main
    BY <1>7 DEF NV!SwitchBack
  <2>3. QED
    BY <1>7, <2>1, <2>2 DEF Here
<1>10. ChLoopOK' /\ InFiberOnly' /\ now' = now /\ readable' = readable /\ last_now' \in 0..now
  BY <1>1, <1>7, ChSwitch DEF ChParts
<1>11. ClockOK'
  BY <1>7, <1>10 DEF ChParts, ClockOK, NV!Spawned
<1>12. /\ \A f \in NV!Fibers : state'[f] = IF f = running THEN "WAITING_CHAN" ELSE IF f \in W THEN "READY" ELSE state[f]
       /\ NV!Spawned' = NV!Spawned /\ NV!Spawned \subseteq NV!Fibers
  <2>1. \A f \in NV!Fibers : state'[f] = IF f = running THEN "WAITING_CHAN" ELSE st[f]
    BY <1>7, <1>8 DEF CoreIs, ShapeIs
  <2>2. \A f \in NV!Fibers : st[f] = IF f \in W THEN "READY" ELSE state[f]
    BY <1>5 DEF RecvWoken
  <2>3. QED
    BY <1>1, <1>7, <2>1, <2>2 DEF NV!Spawned
<1>13. W \subseteq NV!Receivers /\ running \notin NV!Receivers /\ (W = {} => NV!Receivers = {})
  BY <1>1, <1>5 DEF RecvWoken, NV!Receivers
<1>14. v \in Nat /\ v # 0 /\ v = Len(sent[1]) + 1 /\ Len(sent[1]) \in Nat /\ sent[1] \in Seq(Nat)
  <2>1. sent[1] \in Seq(Nat)
    BY DEF ChParts, ChanPart, NV!ValuesExact
  <2>2. Len(sent[1]) \in Nat
    BY <2>1
  <2>3. QED
    BY <2>1, <2>2
<1>15. /\ chan' \in [NV!Chans -> [has_value : BOOLEAN, buf : Nat]] /\ chan'[1].has_value = TRUE /\ chan'[1].buf = v
       /\ sent'[1] = Append(sent[1], v) /\ DOMAIN sent' = NV!Chans
  <2>1. PICK b \in BOOLEAN : b = TRUE
    OBVIOUS
  <2>2. PICK r \in [has_value : BOOLEAN, buf : Nat] : r = [has_value |-> TRUE, buf |-> v]
    BY <1>14
  <2>3. r.has_value = TRUE /\ r.buf = v
    BY ONLY <2>2
  <2>4. chan' = [chan EXCEPT ![1] = r]
    BY <1>7, <2>2
  <2>5. chan' \in [NV!Chans -> [has_value : BOOLEAN, buf : Nat]] /\ chan'[1] = r
    BY <1>2, <2>4 DEF ChParts, ChanPart, NV!ValuesExact
  <2>6. sent'[1] = Append(sent[1], v) /\ DOMAIN sent' = NV!Chans
    BY <1>2, <1>7 DEF ChParts, ChanPart, ChanTypes
  <2>7. QED
    BY <2>3, <2>5, <2>6
<1>16. ChanTypes'
  BY <1>1, <1>7, <1>14, <1>15 DEF ChParts, ChanPart, ChanTypes
<1>17. \A f \in NV!Fibers : NV!ChanCallOK(f)'
  <2>1. \A f \in NV!Fibers : sending[f] = 0
    BY <1>3 DEF ChParts, ChanPart, ChanTypes, NV!ChanCallOK
  <2>2. \A f \in NV!Fibers : /\ sending'[f] = IF f = running THEN v ELSE sending[f]
                             /\ wait_on'[f] = IF f = running THEN 1 ELSE wait_on[f]
                             /\ call'[f] = call[f]
    BY <1>7 DEF ChParts, ChanPart, ChanTypes
  <2>3. running \in NV!Spawned
    BY <1>1 DEF NV!Spawned
  <2>4. QED
    BY <1>1, <1>12, <1>14, <1>15, <2>1, <2>2, <2>3, SMTT(90) DEF ChParts, ChanPart, NV!ChanCallOK
<1>18. NV!ArraysExact'
  <2>1. NV!ParkedRecvs' = n
    BY <1>6, <1>7, <1>15 DEF NV!ParkedRecvs
  <2>2. NV!Receivers' = NV!Receivers \ W
    <3>1. call'[running] = "body" /\ call' = call
      BY <1>1, <1>7
    <3>2. QED
      BY <1>1, <1>12, <1>13, <3>1 DEF NV!Receivers
  <2>3. {a[k] : k \in 1..n} = NV!Receivers \ W /\ (\A j, k \in 1..n : a[j] = a[k] => j = k) /\ a \in [NV!Slots -> 0..FIBER_MAX]
    BY <1>5 DEF RecvWoken
  <2>4. running \in 0..FIBER_MAX /\ m \in 0..TIMER_MAX /\ m \in NV!Slots
    BY <1>1, <1>6 DEF NV!Fibers, NV!NatVarAssumption
  <2>5. /\ chan_send' \in [NV!Slots -> 0..FIBER_MAX] /\ chan_send'[m] = running
        /\ \A k \in NV!Slots : chan_send'[k] # 0 => 1 \in SendsTo[chan_send'[k]]
    BY <1>7, <2>4 DEF ChParts, ChanPart, NV!ArraysExact
  <2>6. sending'[running] # 0
    BY <1>1, <1>7, <1>14 DEF ChParts, ChanPart, ChanTypes
  <2>7. QED
    BY <1>1, <1>6, <1>7, <2>1, <2>2, <2>3, <2>4, <2>5, <2>6 DEF NV!ArraysExact
<1>19. NV!ValuesExact'
  <2>1. /\ Len(sent'[1]) = v /\ sent'[1] \in Seq(Nat) /\ sent'[1][v] = v
        /\ \A k \in 1..Len(sent[1]) : sent'[1][k] = sent[1][k]
    BY <1>14, <1>15, AppendProperties
  <2>2. \A k \in 1..v : k \in 1..Len(sent[1]) \/ k = v
    BY <1>14
  <2>3. \A k \in 1..v : sent'[1][k] = k
    BY <2>1, <2>2 DEF ChParts, ChanPart, NV!ValuesExact
  <2>4. Len(sent[1]) = Len(rcvd[1])
    BY <1>3 DEF ChParts, ChanPart, NV!ValuesExact
  <2>5. QED
    BY <1>7, <1>14, <1>15, <2>1, <2>3, <2>4 DEF ChParts, ChanPart, NV!ValuesExact
<1>20. NV!ReceiverNotForgotten'
  <2>1. CASE W = {}
    <3>1. \A f \in NV!Spawned : ~(state'[f] = "WAITING_CHAN" /\ call'[f] = "recv")
      BY <1>1, <1>7, <1>12, <1>13, <2>1 DEF NV!Receivers
    <3>2. QED
      BY <1>12, <3>1 DEF NV!ReceiverNotForgotten
  <2>2. CASE W # {}
    <3>1. PICK f \in W : TRUE
      BY <2>2
    <3>2. f \in NV!Spawned /\ call[f] = "recv" /\ wait_on[f] = 1 /\ f # running /\ f \in NV!Fibers
      BY <1>12, <1>13, ChFacts
    <3>3. state'[f] = "READY" /\ call'[f] = "recv" /\ wait_on'[f] = 1
      BY <1>7, <1>12, <3>2 DEF ChParts, ChanPart, ChanTypes
    <3>4. QED
      BY <1>2, <1>12, <3>2, <3>3 DEF NV!ReceiverNotForgotten
  <2>3. QED
    BY <2>1, <2>2
<1>21. QED
  BY <1>9, <1>10, <1>11, <1>16, <1>17, <1>18, <1>19, <1>20 DEF ChParts, ChanPart

\* What taking the value does to fibers and channel, for a fiber or main.
LEMMA ChTakes ==
  ASSUME NV!NatVarAssumption, NV!OneChannel, ChParts, NV!TakeValue(1),
         UNCHANGED <<g_fiber_count, until, sleeping, joining, io_waiters, g_done_count, running>>,
         call' \in [NV!Fibers -> {"body", "recv"}], DOMAIN wait_on' = NV!Fibers,
         \A f \in NV!Fibers : \/ call'[f] = call[f] /\ wait_on'[f] = wait_on[f]
                              \/ call'[f] = "body" /\ state[f] = "RUNNING"
  PROVE  Here' /\ ChanPart'
<1>1. NV!Chans = {1} /\ 1 \in NV!Chans /\ NV!Spawned' = NV!Spawned /\ NV!Spawned \subseteq NV!Fibers
  BY ChFacts DEF NV!Spawned
<1> PICK w : w = NV!Woken(chan_send, 1)
  OBVIOUS
<1>2. /\ chan[1].has_value
      /\ rcvd' = [rcvd EXCEPT ![1] = Append(rcvd[1], chan[1].buf)]
      /\ chan' = [chan EXCEPT ![1].has_value = FALSE]
      /\ chan_send' = w.array /\ g_waiting_chan_count' = w.count /\ ready' = w.ready /\ state' = w.state
      /\ sending' = [f \in NV!Fibers |-> IF w.state[f] = "READY" THEN 0 ELSE sending[f]]
      /\ UNCHANGED <<chan_recv, g_chan_count, sent>>
  BY DEF NV!TakeValue
<1>3. PICK s : SendWoken(w.array, w.count, w.ready, w.state, s)
  BY <1>2, WakesSender
<1>4. SendWoken(chan_send', g_waiting_chan_count', ready', state', s)
  BY <1>2, <1>3
<1>5. /\ s \in NV!Spawned /\ sending[s] # 0 /\ state[s] = "WAITING_CHAN" /\ call[s] = "body"
      /\ \A f \in NV!Fibers : sending[f] # 0 => f = s
      /\ g_waiting_chan_count' \in Nat /\ g_waiting_chan_count' = g_waiting_chan_count - 1
      /\ chan_send' \in [NV!Slots -> 0..FIBER_MAX] /\ \A k \in NV!Slots : chan_send'[k] # 0 => 1 \in SendsTo[chan_send'[k]]
      /\ CoreIs(ready', state', running, g_fiber_count, sleeping, io_waiters, g_done_count)
      /\ \A f \in NV!Fibers : state'[f] = IF f = s THEN "READY" ELSE state[f]
  BY <1>4 DEF SendWoken
<1>6. Here'
  BY <1>5 DEF Here
<1>7. \A f \in NV!Fibers : sending'[f] = 0
  <2>1. sending' = [f \in NV!Fibers |-> IF state'[f] = "READY" THEN 0 ELSE sending[f]]
    BY <1>2
  <2>2. QED
    BY <1>5, <2>1
<1>8. chan' \in [NV!Chans -> [has_value : BOOLEAN, buf : Nat]] /\ ~chan'[1].has_value
  <2>1. PICK b \in BOOLEAN : b = FALSE
    OBVIOUS
  <2>2. chan' = [chan EXCEPT ![1].has_value = b]
    BY <1>2, <2>1
  <2>3. chan' \in [NV!Chans -> [has_value : BOOLEAN, buf : Nat]] /\ chan'[1].has_value = b
    BY <1>1, <2>2, ZenonT(90) DEF ChParts, ChanPart, NV!ValuesExact
  <2>4. QED
    BY <2>1, <2>3
<1>9. ChanTypes'
  <2>1. sending' \in [NV!Fibers -> Nat]
    BY <1>2, <1>7
  <2>2. DOMAIN rcvd' = NV!Chans /\ DOMAIN sent' = NV!Chans
    BY <1>2 DEF ChParts, ChanPart, ChanTypes
  <2>3. QED
    BY <2>1, <2>2 DEF ChanTypes
<1>10. \A f \in NV!Fibers : NV!ChanCallOK(f)'
  <2>1. SUFFICES ASSUME NEW f \in NV!Fibers PROVE NV!ChanCallOK(f)'
    OBVIOUS
  <2>2. NV!ChanCallOK(f) /\ sending'[f] = 0 /\ state'[f] = IF f = s THEN "READY" ELSE state[f]
    BY <1>5, <1>7 DEF ChParts, ChanPart
  <2>3. (\/ call'[f] = call[f] /\ wait_on'[f] = wait_on[f]
         \/ call'[f] = "body" /\ state[f] = "RUNNING")
        /\ (f # s => sending[f] = 0)
    BY <1>5
  <2>4. QED
    BY <1>1, <2>2, <2>3 DEF NV!ChanCallOK
<1>11. NV!ArraysExact'
  <2>1. NV!ParkedRecvs = g_waiting_chan_count - 1 /\ NV!ParkedRecvs' = NV!ParkedRecvs
    BY <1>2, <1>5, <1>8 DEF NV!ParkedRecvs
  <2>2. NV!Receivers' = NV!Receivers
    BY <1>1, <1>5 DEF NV!Receivers
  <2>3. g_waiting_chan_count' \in 0..TIMER_MAX
    BY <1>5, ChFacts DEF NV!NatVarAssumption
  <2>4. QED
    BY <1>2, <1>5, <1>8, <2>1, <2>2, <2>3 DEF ChParts, ChanPart, NV!ArraysExact
<1>12. NV!ValuesExact'
  <2> PICK v : v = chan[1].buf
    OBVIOUS
  <2>1. /\ sent[1] \in Seq(Nat) /\ rcvd[1] \in Seq(Nat) /\ v = Len(sent[1]) /\ Len(sent[1]) = Len(rcvd[1]) + 1
    BY <1>2 DEF ChParts, ChanPart, NV!ValuesExact
  <2>2. Len(rcvd[1]) \in Nat /\ v = Len(rcvd[1]) + 1 /\ v \in Nat
    <3>1. Len(rcvd[1]) \in Nat
      BY <2>1
    <3>2. QED
      BY <2>1, <3>1
  <2>3. rcvd'[1] = Append(rcvd[1], v)
    BY <1>1, <1>2 DEF ChParts, ChanPart, ChanTypes
  <2>4. /\ Len(rcvd'[1]) = v /\ rcvd'[1] \in Seq(Nat) /\ rcvd'[1][v] = v
        /\ \A k \in 1..Len(rcvd[1]) : rcvd'[1][k] = rcvd[1][k]
    BY <2>1, <2>2, <2>3, AppendProperties
  <2>5. \A k \in 1..v : k \in 1..Len(rcvd[1]) \/ k = v
    BY <2>2
  <2>6. \A k \in 1..v : rcvd'[1][k] = k
    BY <2>4, <2>5 DEF ChParts, ChanPart, NV!ValuesExact
  <2>7. QED
    BY <1>2, <1>8, <2>1, <2>2, <2>4, <2>6 DEF ChParts, ChanPart, NV!ValuesExact
<1>13. NV!ReceiverNotForgotten'
  BY <1>1, <1>8 DEF NV!ReceiverNotForgotten
<1>14. QED
  BY <1>6, <1>9, <1>10, <1>11, <1>12, <1>13 DEF ChanPart

\* A fiber parks in its receive.
LEMMA ChParks ==
  ASSUME NV!NatVarAssumption, NV!OneChannel, ChParts, NV!ParkReceiver(1), sched = "fiber", running # NV!Main,
         1 \notin SendsTo[running],
         NV!SwitchBack, call' = [call EXCEPT ![running] = "recv"], wait_on' = [wait_on EXCEPT ![running] = 1],
         UNCHANGED <<g_fiber_count, until, sleeping, joining, io_waiters, g_done_count, g_mutex_count, recv_on>>
  PROVE  ChParts'
<1>1. NV!Chans = {1} /\ 1 \in NV!Chans /\ NV!Spawned' = NV!Spawned /\ NV!Spawned \subseteq NV!Fibers
  BY ChFacts DEF NV!Spawned
<1>2. running \in 1..g_fiber_count /\ running \in NV!Fibers /\ running \in NV!Spawned /\ state[running] = "RUNNING"
  BY <1>1 DEF ChParts, Here, CoreIs, ShapeIs, ReadyIs, NV!Main, NV!Spawned
<1> PICK n : n = g_waiting_chan_count
  OBVIOUS
<1>3. ~chan[1].has_value /\ state' = [state EXCEPT ![running] = "WAITING_CHAN"]
      /\ UNCHANGED <<ready, chan, chan_send, sending, sent, rcvd>>
  BY DEF NV!ParkReceiver
<1>4. /\ n \in Nat /\ {chan_recv[k] : k \in 1..n} = NV!Receivers /\ NV!ParkedRecvs = n
      /\ \A j, k \in 1..n : chan_recv[j] = chan_recv[k] => j = k
  BY <1>3, ChFacts DEF NV!ParkedRecvs, ChParts, ChanPart, NV!ArraysExact
<1>5. n < TIMER_MAX /\ TIMER_MAX \in Nat /\ n + 1 \in NV!Slots /\ 1..n \subseteq NV!Slots
  <2>1. TIMER_MAX \in Nat /\ FIBER_MAX \in Nat /\ FIBER_MAX =< TIMER_MAX
    BY DEF NV!OneChannel, NV!NatVarAssumption
  <2>2. n =< g_fiber_count - 1
    <3>1. g_fiber_count \in Nat
      BY CoreFacts DEF ChParts, Here
    <3>2. \A k \in 1..n : chan_recv[k] \in (1..g_fiber_count) \ {running}
      BY <1>2, <1>4 DEF NV!Receivers, NV!Spawned
    <3>3. QED
      BY <1>2, <1>4, <3>1, <3>2, ArrayRoom, ZenonT(90)
  <2>3. g_fiber_count \in Nat /\ g_fiber_count =< FIBER_MAX
    BY CoreFacts DEF ChParts, Here
  <2>4. QED
    BY <1>4, <2>1, <2>2, <2>3 DEF NV!Slots
<1> PICK m : m = n + 1
  OBVIOUS
<1>6. chan_recv' = [chan_recv EXCEPT ![m] = running] /\ g_waiting_chan_count' = m
  BY <1>5 DEF NV!ParkReceiver
<1>7. Here'
  <2>1. CoreIs(ready, [state EXCEPT ![running] = "WAITING_CHAN"], NV!Main, g_fiber_count, sleeping, io_waiters, g_done_count)
    BY CorePark DEF Waits, ChParts, Here
  <2>2. running' = NV!Main
    BY DEF NV!SwitchBack
  <2>3. QED
    BY <1>3, <2>1, <2>2 DEF Here
<1>8. ChLoopOK' /\ InFiberOnly' /\ now' = now /\ readable' = readable /\ last_now' \in 0..now
  BY ChSwitch DEF ChParts
<1>9. ClockOK'
  BY <1>3, <1>8 DEF ChParts, ClockOK, NV!Spawned
<1>10. \A f \in NV!Fibers : /\ state'[f] = IF f = running THEN "WAITING_CHAN" ELSE state[f]
                            /\ call'[f] = IF f = running THEN "recv" ELSE call[f]
                            /\ wait_on'[f] = IF f = running THEN 1 ELSE wait_on[f]
  BY <1>3 DEF ChParts, Here, CoreIs, ShapeIs, ChanPart, ChanTypes
<1>11. ChanTypes'
  BY <1>2, <1>3 DEF ChParts, ChanPart, ChanTypes
<1>12. \A f \in NV!Fibers : NV!ChanCallOK(f)'
  <2>1. sending[running] = 0
    BY <1>2 DEF ChParts, ChanPart, ChanTypes, NV!ChanCallOK
  <2>2. QED
    BY <1>1, <1>2, <1>3, <1>10, <2>1 DEF ChParts, ChanPart, NV!ChanCallOK
<1>13. NV!ArraysExact'
  <2>1. NV!ParkedRecvs' = m
    BY <1>3, <1>6 DEF NV!ParkedRecvs
  <2>2. NV!Receivers' = NV!Receivers \cup {running} /\ running \notin NV!Receivers
    BY <1>1, <1>2, <1>10, ZenonT(90) DEF NV!Receivers
  <2>3. running \in 0..FIBER_MAX /\ m \in 0..TIMER_MAX /\ m \in NV!Slots /\ m \in Nat
    BY <1>2, <1>4, <1>5 DEF NV!Fibers, NV!NatVarAssumption
  <2>4. /\ chan_recv' \in [NV!Slots -> 0..FIBER_MAX]
        /\ \A k \in NV!Slots : chan_recv'[k] = IF k = m THEN running ELSE chan_recv[k]
    BY <1>6, <2>3 DEF ChParts, ChanPart, NV!ArraysExact
  <2>5. (\A k \in 1..m : k \in 1..n \/ k = m) /\ m \in 1..m /\ 1..n \subseteq 1..m /\ m \notin 1..n
    BY <1>4
  <2>6. \A k \in 1..n : chan_recv'[k] = chan_recv[k] /\ chan_recv[k] \in NV!Receivers
    BY <1>4, <1>5, <2>4, <2>5
  <2>7. {chan_recv'[k] : k \in 1..m} = NV!Receivers \cup {running}
    <3>1. \A k \in 1..m : chan_recv'[k] \in NV!Receivers \cup {running}
      BY <2>3, <2>4, <2>5, <2>6
    <3>2. \A f \in NV!Receivers \cup {running} : \E k \in 1..m : f = chan_recv'[k]
      BY <1>4, <2>3, <2>4, <2>5, <2>6
    <3>3. QED
      BY <3>1, <3>2
  <2>8. \A j, k \in 1..m : chan_recv'[j] = chan_recv'[k] => j = k
    BY <1>4, <2>2, <2>3, <2>4, <2>5, <2>6
  <2>9. chan_send' = chan_send /\ ~chan'[1].has_value
    BY <1>3
  <2>10. QED
    BY <1>6, <2>1, <2>2, <2>3, <2>4, <2>7, <2>8, <2>9 DEF ChParts, ChanPart, NV!ArraysExact
<1>14. NV!ValuesExact' /\ NV!ReceiverNotForgotten'
  BY <1>1, <1>3 DEF ChParts, ChanPart, NV!ValuesExact, NV!ReceiverNotForgotten
<1>15. QED
  BY <1>7, <1>8, <1>9, <1>11, <1>12, <1>13, <1>14 DEF ChParts, ChanPart

\* A receive by a fiber takes the value and wakes its sender, or parks its caller.
LEMMA ChRecv ==
  ASSUME NV!NatVarAssumption, NV!OneChannel, ChParts, running # NV!Main, 1 \in ReceivesFrom[running], NV!FiberChanRecv(1)
  PROVE  ChParts'
<1>1. /\ running \in NV!Fibers /\ sched = "fiber" /\ state[running] = "RUNNING" /\ 1 \notin SendsTo[running]
  BY NvRunning DEF ChParts, NV!FiberChanRecv, NV!InFiber, NV!Inside, NV!OneChannel
<1>2. UNCHANGED <<g_fiber_count, until, sleeping, joining, io_waiters, g_done_count, g_mutex_count, recv_on>>
  BY DEF NV!FiberChanRecv, NV!mutexVars
<1>3. CASE /\ NV!TakeValue(1)
           /\ call' = [call EXCEPT ![running] = "body"]
           /\ wait_on' = [wait_on EXCEPT ![running] = 0]
           /\ UNCHANGED <<running, NV!loopVars, NV!envVars>>
  <2>1. /\ call' \in [NV!Fibers -> {"body", "recv"}] /\ DOMAIN wait_on' = NV!Fibers
        /\ \A f \in NV!Fibers : \/ call'[f] = call[f] /\ wait_on'[f] = wait_on[f]
                                \/ call'[f] = "body" /\ state[f] = "RUNNING"
    BY <1>1, <1>3 DEF ChParts, ChanPart, ChanTypes
  <2>2. Here' /\ ChanPart'
    BY <1>2, <1>3, <2>1, ChTakes
  <2>3. UNCHANGED <<running, sched, driver, last_now, now, readable>>
    BY <1>3 DEF NV!loopVars, NV!envVars
  <2>4. InFiberOnly' /\ ChLoopOK' /\ ClockOK'
    BY <1>2, <2>3 DEF ChParts, InFiberOnly, ChLoopOK, ClockOK, NV!Spawned
  <2>5. QED
    BY <2>2, <2>4 DEF ChParts
<1>4. CASE /\ NV!ParkReceiver(1)
           /\ call' = [call EXCEPT ![running] = "recv"]
           /\ wait_on' = [wait_on EXCEPT ![running] = 1]
           /\ NV!SwitchBack
  BY <1>1, <1>2, <1>4, ChParks
<1>5. QED
  BY <1>3, <1>4 DEF NV!FiberChanRecv

\* main takes the value and wakes its sender.
LEMMA ChMainTakes ==
  ASSUME NV!NatVarAssumption, NV!OneChannel, ChParts, NV!MainTakes
  PROVE  ChParts'
<1>1. /\ sched = "recv" /\ recv_on = 1 /\ sched' = "main"
      /\ UNCHANGED <<g_fiber_count, until, wait_on, call, running, sleeping, joining, io_waiters, g_done_count, g_mutex_count,
                     driver, last_now, now, readable>>
  BY DEF NV!MainTakes, NV!MainReturns, NV!mutexVars, NV!envVars, ChParts, ChLoopOK
<1>2. NV!TakeValue(1)
  BY <1>1 DEF NV!MainTakes
<1>3. Here' /\ ChanPart'
  BY <1>1, <1>2, ChTakes DEF ChParts, ChanPart, ChanTypes
<1>4. InFiberOnly' /\ ChLoopOK' /\ ClockOK'
  BY <1>1 DEF ChParts, InFiberOnly, ChLoopOK, ClockOK, NV!Spawned
<1>5. QED
  BY <1>3, <1>4 DEF ChParts

\* The scheduler's own steps while there is a channel.
LEMMA ChCore ==
  ASSUME NV!NatVarAssumption, NV!OneChannel, ChParts, NV!CoreStep, UNCHANGED NV!chanVars
  PROVE  ChParts'
<1>1. CASE ChQuiet
  BY <1>1, ChQuietSteps
<1>2. CASE NV!LoopDispatch
  BY <1>2, ChDispatch
<1>3. CASE NV!FiberSpawn
  BY <1>3, ChSpawn
<1>4. CASE NV!FiberFinish \/ NV!FiberYield \/ \E ms \in Delays : NV!FiberSleep(ms)
  BY <1>4, ChGivesWay
<1>5. QED
  BY <1>1, <1>2, <1>3, <1>4 DEF NV!CoreStep, NV!Scheduler, ChQuiet

\* One step of the scheduler with a channel.
LEMMA ChStep ==
  ASSUME NV!NatVarAssumption, NV!OneChannel, ChParts, NV!ChanNext
  PROVE  ChParts'
<1>0. NV!Chans = {1}
  BY ChFacts
<1>1. CASE NV!CoreStep /\ UNCHANGED NV!chanVars
  BY <1>1, ChCore
<1>2. CASE ChCalls
  BY <1>2, ChMainCalls
<1>3. CASE \E c \in NV!Chans : NV!InFiber /\ c \in SendsTo[running] /\ NV!FiberChanSend(c)
  <2>1. NV!InFiber /\ 1 \in SendsTo[running] /\ NV!FiberChanSend(1)
    BY <1>0, <1>3
  <2>2. QED
    BY <2>1, ChSend
<1>4. CASE \E c \in NV!Chans : running # NV!Main /\ c \in ReceivesFrom[running] /\ NV!FiberChanRecv(c)
  <2>1. running # NV!Main /\ 1 \in ReceivesFrom[running] /\ NV!FiberChanRecv(1)
    BY <1>0, <1>4
  <2>2. QED
    BY <2>1, ChRecv
<1>5. CASE NV!MainTakes
  BY <1>5, ChMainTakes
<1>6. CASE NV!MainSteps
  BY <1>6, ChMainSteps
<1>7. CASE NV!ChanReset
  BY <1>7, ChReset
<1>8. QED
  BY <1>1, <1>2, <1>3, <1>4, <1>5, <1>6, <1>7 DEF NV!ChanNext, NV!ChanProgram, NV!MainStep, ChCalls

\* The contexts, with a channel.
LEMMA ChCtxStep ==
  ASSUME NV!NatVarAssumption, ChParts, CtxOK, NV!ChanNext, ChParts'
  PROVE  CtxOK'
<1>0. sched' \in {"fiber", "exited"} => Here' /\ running' # NV!Main
  BY DEF ChParts, InFiberOnly, NV!Main
<1>10. driver # "exited"
  BY DEF ChParts, ChLoopOK
<1>1. CASE NV!Environment \/ NV!Scheduler
  <2>1. NV!LoopDispatch => sched' \in {"fiber", "exited"}
    BY DEF NV!LoopDispatch, NV!SwitchTo
  <2>2. QED
    BY <1>0, <1>1, <2>1, CtxLoop
<1>2. CASE NV!FiberFinish
  BY <1>2, RunningFiber, CtxFinish DEF ChParts, ChLoopOK
<1>3. CASE NV!ChanReset
  BY <1>3, CtxReset DEF NV!ChanReset
<1>4. CASE NV!RunUntilDone \/ NV!FiberSpawn \/ NV!FiberYield \/ \E ms \in Delays : NV!FiberSleep(ms)
  BY <1>10, <1>4, CtxStill DEF NV!RunUntilDone, NV!FiberSpawn, NV!FiberYield, NV!FiberSleep, NV!SwitchBack, NV!loopVars, NV!ctxVars
<1>5. CASE NV!ChanCreate \/ \E c \in NV!Chans : NV!FiberChanSend(c)
  BY <1>10, <1>5, CtxStill DEF NV!ChanCreate, NV!FiberChanSend, NV!SwitchBack, NV!vars, NV!loopVars, NV!ctxVars
<1>6. CASE (\E c \in NV!Chans : NV!FiberChanRecv(c)) \/ \E c \in ReceivesFrom[NV!Main] : NV!MainChanRecv(c)
  BY <1>10, <1>6, CtxStill DEF NV!FiberChanRecv, NV!ParkReceiver, NV!MainChanRecv, NV!SwitchBack, NV!vars, NV!loopVars, NV!ctxVars
<1>7. CASE NV!MainSteps
  <2>1. PICK st, q : NV!SwitchTo(st, q)
    BY <1>7 DEF NV!MainSteps
  <2>2. running' \in NV!Fibers
    <3>1. (Here => running \in 0..FIBER_MAX /\ (running # NV!Main => running \in NV!Fibers))'
      BY RunningFiber, PTL
    <3>2. QED
      BY <1>0, <2>1, <3>1 DEF NV!SwitchTo, NV!Main
  <2>3. Head(q) \in NV!Fibers
    BY <2>1, <2>2 DEF NV!SwitchTo
  <2>4. QED
    BY <2>1, <2>3, CtxSwitch
<1>8. CASE NV!MainTakes \/ NV!MainFailsClosed \/ NV!MainSpins
  BY <1>8, CtxStill DEF NV!MainTakes, NV!MainFailsClosed, NV!MainSpins, NV!MainReturns, NV!allVars, NV!vars, NV!loopVars, NV!ctxVars
<1>9. QED
  BY <1>1, <1>2, <1>3, <1>4, <1>5, <1>6, <1>7, <1>8 DEF NV!ChanNext, NV!ChanProgram, NV!MainStep, NV!CoreStep

\* What the invariant promises: the four statements about the channel.
LEMMA ChSafe ==
  ASSUME NV!NatVarAssumption, NV!OneChannel, ~Posix, ChParts, CtxOK
  PROVE  NV!ChanReadyExact /\ NV!InOrderDelivery /\ NV!SenderParkedOnItsValue /\ NV!ReceiverNotForgotten
<1>0. NV!ContextsIntact
  BY ChForm DEF NV!ChanInv, NV!CoreInv, NV!CoreTypes, NV!ContextsKept, NV!ContextsIntact, NV!OwnContext, NV!Spawned, NV!Fibers,
     NV!NatVarAssumption
<1>1. NV!ChanReadyExact
  BY <1>0, ChForm DEF NV!ChanInv, NV!CoreInv, NV!ChanReadyExact
<1>2. NV!ReceiverNotForgotten
  BY DEF ChParts, ChanPart
<1>3. NV!Chans = {1} /\ 1 \in NV!Chans /\ NV!Spawned \subseteq NV!Fibers
  BY ChFacts
<1>4. NV!SenderParkedOnItsValue
  BY <1>3 DEF ChParts, ChanPart, NV!ChanCallOK, NV!SenderParkedOnItsValue
<1>5. NV!InOrderDelivery
  <2> PICK n : n = Len(rcvd[1])
    OBVIOUS
  <2> PICK m : m = Len(sent[1])
    OBVIOUS
  <2>1. /\ sent[1] \in Seq(Nat) /\ rcvd[1] \in Seq(Nat) /\ n =< m /\ n \in Nat /\ m \in Nat
        /\ \A k \in 1..n : rcvd[1][k] = k
        /\ \A k \in 1..m : sent[1][k] = k
    <3>1. sent[1] \in Seq(Nat) /\ rcvd[1] \in Seq(Nat) /\ m = n + (IF chan[1].has_value THEN 1 ELSE 0)
      BY DEF ChParts, ChanPart, NV!ValuesExact
    <3>2. n \in Nat /\ m \in Nat
      BY <3>1, LenProperties
    <3>3. n =< m
      BY ONLY <3>1, <3>2
    <3>4. QED
      BY <3>1, <3>2, <3>3 DEF ChParts, ChanPart, NV!ValuesExact
  <2>2. /\ SubSeq(rcvd[1], 1, n) \in Seq(Nat) /\ SubSeq(sent[1], 1, n) \in Seq(Nat)
        /\ Len(SubSeq(rcvd[1], 1, n)) = n /\ Len(SubSeq(sent[1], 1, n)) = n
        /\ \A k \in 1..n : SubSeq(rcvd[1], 1, n)[k] = rcvd[1][k]
        /\ \A k \in 1..n : SubSeq(sent[1], 1, n)[k] = sent[1][k]
    BY <2>1, SMTT(90)
  <2>3. SubSeq(rcvd[1], 1, n) = SubSeq(sent[1], 1, n)
    <3> PICK a : a = SubSeq(rcvd[1], 1, n)
      OBVIOUS
    <3> PICK b : b = SubSeq(sent[1], 1, n)
      OBVIOUS
    <3>1. /\ a \in Seq(Nat) /\ b \in Seq(Nat) /\ Len(a) = n /\ Len(b) = n
          /\ \A k \in 1..n : a[k] = b[k]
      <4>1. \A k \in 1..n : k \in 1..m
        BY <2>1
      <4>2. QED
        BY <2>1, <2>2, <4>1
    <3>2. a = b
      BY ONLY <3>1, SeqEqual
    <3>3. QED
      BY <3>2
  <2>4. NV!IsPrefix(rcvd[1], sent[1])
    BY <2>1, <2>3 DEF NV!IsPrefix
  <2>5. QED
    BY <1>3, <2>4 DEF NV!InOrderDelivery
<1>6. QED
  BY <1>1, <1>2, <1>4, <1>5

-----------------------------------------------------------------------------
(***************************************************************************)
(* All parts of the run.                                                   *)
(***************************************************************************)

\* A part whose variables nobody touches keeps its invariant.
LEMMA NvStays ==
  ASSUME NV!NatVarAssumption, NV!NatVarInv, UNCHANGED natVars
  PROVE  NV!NatVarInv'
<1> USE DEF natVars
<1>1. NvParts /\ CtxOK
  BY NvForm
<1>2. Here' /\ ClockOK' /\ InFiberOnly' /\ WaitIs(mutex, state, wait_on, g_fiber_count)' /\ LoopOK' /\ CallsOK'
  BY <1>1 DEF NvParts, Here, ClockOK, InFiberOnly, LoopOK, CallsOK, NV!Spawned
<1>3. LocksOK'
  <2>1. \A f \in NV!Fibers : NV!LockCallOK(f)'
    BY <1>1 DEF NvParts, LocksOK, NV!LockCallOK, NV!Spawned
  <2>2. \A m \in NV!Mutexes : NV!OwnerExact(m)'
    BY <1>1 DEF NvParts, LocksOK, NV!OwnerExact
  <2>3. QED
    BY <1>1, <2>1, <2>2 DEF NvParts, LocksOK
<1>4. NvParts'
  BY <1>2, <1>3 DEF NvParts
<1>5. (NvParts /\ CtxOK <=> NV!NatVarInv)'
  BY NvForm, PTL
<1>6. CtxOK'
  BY <1>1, CtxStill
<1>7. QED
  BY <1>4, <1>5, <1>6

\* The steps of the other parts leave the channel as it is.
LEMMA ChStays ==
  ASSUME NV!NatVarAssumption, NV!OneChannel, NV!ChanInv, UNCHANGED <<natVars, chanVars>>
  PROVE  NV!ChanInv'
<1> USE DEF natVars, chanVars
<1>1. ChParts /\ CtxOK
  BY ChForm
<1>2. /\ UNCHANGED <<g_fiber_count, state, until, ready, running, sleeping, joining, io_waiters, g_done_count>>
      /\ UNCHANGED ChBodyVars
  BY DEF ChBodyVars
<1>3. ClockOK' /\ InFiberOnly' /\ ChLoopOK'
  BY <1>1 DEF ChParts, ClockOK, InFiberOnly, ChLoopOK, NV!Spawned
<1>4. ChParts'
  BY <1>1, <1>2, <1>3, ChLoopStep
<1>5. (ChParts /\ CtxOK <=> NV!ChanInv)'
  BY ChForm, PTL
<1>6. CtxOK'
  BY <1>1, CtxStill
<1>7. QED
  BY <1>4, <1>5, <1>6

\* And the multi-threaded scheduler.
LEMMA MtStays ==
  ASSUME MT!NatVarMtAssumption, MT!MtInv, UNCHANGED mtVars
  PROVE  MT!MtInv'
<1> USE DEF mtVars
<1>1. MT!DoneCountExact' /\ MT!OneOwner'
  <2>1. MT!TypeOK'
    BY DEF MT!MtInv, MT!DoneCountExact, MT!TypeOK
  <2>2. /\ {f \in MT!Fibers : runs'[f] > 0} = {f \in MT!Fibers : runs[f] > 0}
        /\ {t \in Threads : thread'[t].pc = "record"} = {t \in Threads : thread[t].pc = "record"}
    OBVIOUS
  <2>3. MT!DoneCountExact'
    BY <2>1, <2>2 DEF MT!MtInv, MT!DoneCountExact
  <2>4. MT!OneOwner'
    BY DEF MT!MtInv, MT!OneOwner, MT!InHand, MT!Busy
  <2>5. QED
    BY <2>3, <2>4
<1>2. (\A c \in Clients : MT!ClientOK(c)') /\ (\A t \in Threads : MT!ThreadOK(t)')
  <2>1. \A c \in Clients : MT!ClientOK(c)'
    BY DEF MT!MtInv, MT!ClientOK, MT!InHand
  <2>2. \A t \in Threads : MT!ThreadOK(t)'
    BY DEF MT!MtInv, MT!ThreadOK, MT!Busy
  <2>3. QED
    BY <2>1, <2>2
<1>3. \A k \in 1..Len(mt_queue') : MT!QueuedOK(k)'
  BY DEF MT!MtInv, MT!QueuedOK
<1>4. QED
  BY <1>1, <1>2, <1>3 DEF MT!MtInv

\* Each part keeps its own invariant while it runs.  One channel is assumed for
\* the channels only.
FibersInv == /\ part \in Parts
             /\ part = "natvar" => NV!NatVarInv
             /\ part = "chan" /\ NV!OneChannel => NV!ChanInv
             /\ MT!MtInv

\* All parts hold at first.
LEMMA FibersInit ==
  ASSUME MCInit
  PROVE  FibersInv
<1> USE FibersAssumption
<1>0. CtxOK
  BY DEF MCInit, NV!ChanInit, NV!Init, CtxOK, NV!ContextsKept, NV!NatVarAssumption
<1>1. NV!NatVarInv
  BY <1>0, NvInit, NvForm DEF MCInit, NV!ChanInit
<1>2. NV!OneChannel => NV!ChanInv
  BY <1>0, ChInit, ChForm DEF MCInit
<1>3. MT!MtInv
  BY MtInitOK DEF MCInit
<1>4. QED
  BY <1>1, <1>2, <1>3 DEF FibersInv, MCInit

\* And every step of the run keeps them.
LEMMA FibersStep ==
  ASSUME FibersInv, [MCNext]_allVars
  PROVE  FibersInv'
<1> USE FibersAssumption
<1>1. CASE part = "natvar" /\ NV!Next /\ UNCHANGED <<part, mtVars>>
  <2>1. NV!NatVarInv'
    BY <1>1, NvStep DEF FibersInv
  <2>2. MT!MtInv'
    BY <1>1, MtStays DEF FibersInv
  <2>3. QED
    BY <1>1, <2>1, <2>2 DEF FibersInv
<1>2. CASE part = "chan" /\ NV!ChanNext /\ UNCHANGED <<part, mtVars>>
  <2>1. ASSUME NV!OneChannel PROVE NV!ChanInv'
    <3>1. ChParts /\ CtxOK
      BY <1>2, <2>1, ChForm DEF FibersInv
    <3>2. ChParts'
      BY <1>2, <2>1, <3>1, ChStep
    <3>3. (ChParts /\ CtxOK <=> NV!ChanInv)'
      BY ChForm, PTL
    <3>4. CtxOK'
      BY <1>2, <3>1, <3>2, ChCtxStep
    <3>5. QED
      BY <3>2, <3>3, <3>4
  <2>2. MT!MtInv'
    BY <1>2, MtStays DEF FibersInv
  <2>3. QED
    BY <1>2, <2>1, <2>2 DEF FibersInv
<1>3. CASE MT!Next /\ UNCHANGED <<part, natVars, chanVars>>
  <2>1. MT!MtInv'
    BY <1>3, MtStep DEF FibersInv
  <2>2. part = "natvar" => NV!NatVarInv'
    BY <1>3, NvStays DEF FibersInv
  <2>3. part = "chan" /\ NV!OneChannel => NV!ChanInv'
    BY <1>3, ChStays DEF FibersInv
  <2>4. QED
    BY <1>3, <2>1, <2>2, <2>3 DEF FibersInv
<1>4. CASE UNCHANGED <<part, natVars, chanVars, mtVars>>
  <2>1. MT!MtInv'
    BY <1>4, MtStays DEF FibersInv
  <2>2. part = "natvar" => NV!NatVarInv'
    BY <1>4, NvStays DEF FibersInv
  <2>3. part = "chan" /\ NV!OneChannel => NV!ChanInv'
    BY <1>4, ChStays DEF FibersInv
  <2>4. QED
    BY <1>4, <2>1, <2>2, <2>3 DEF FibersInv
<1>5. QED
  BY <1>1, <1>2, <1>3, <1>4 DEF MCNext, allVars

\* The invariants of the components hold at every step.
THEOREM FibersInvariant == MCSpec => []FibersInv
<1>1. MCInit => FibersInv
  BY FibersInit
<1>2. FibersInv /\ [MCNext]_allVars => FibersInv'
  BY FibersStep
<1> QED BY <1>1, <1>2, PTL DEF MCSpec

\* Where the system keeps the contexts of fibers (Windows): whatever the fibers call
\* and however yields, sleeps, locks with timeouts, joins, socket waits and resets
\* interleave, every switch goes on in the fiber's own code, the single-threaded
\* scheduler queues no fiber twice and leaves none out, and a mutex has one holder;
\* the multi-threaded scheduler runs a fiber at most once, frees it at its last owner
\* and counts it once.  With ucontext the code loses fibers (run natvar_posix).
THEOREM NoFiberIsLost ==
  ASSUME ~Posix
  PROVE  MCSpec => []( /\ part = "natvar" => NV!NoFiberLost /\ NV!MutexExclusion
                       /\ MT!RunOnce /\ MT!DoneCountExact )
<1>1. FibersInv => /\ part = "natvar" => NV!NoFiberLost /\ NV!MutexExclusion
                   /\ MT!RunOnce /\ MT!DoneCountExact
  BY FibersAssumption, NvSafe, MtRunOnce DEF FibersInv
<1> QED BY <1>1, FibersInvariant, PTL

\* The same with a channel: one sender, any number of receivers (main among them)
\* and room in the wait arrays for every fiber.  Values arrive once and in order,
\* their sender is parked on them until then, and no receiver is left asleep
\* beside a value.
THEOREM FibersAreSafe ==
  ASSUME NV!OneChannel, ~Posix
  PROVE  MCSpec => []FiberSafety
<1>1. FibersInv => FiberSafety
  <2> SUFFICES ASSUME FibersInv PROVE FiberSafety
    OBVIOUS
  <2>1. part = "natvar" => NV!NoFiberLost /\ NV!MutexExclusion
    BY FibersAssumption, NvSafe DEF FibersInv
  <2>2. MT!RunOnce /\ MT!DoneCountExact
    BY FibersAssumption, MtRunOnce DEF FibersInv
  <2>3. part = "chan" => /\ NV!ChanReadyExact /\ NV!InOrderDelivery
                         /\ NV!SenderParkedOnItsValue /\ NV!ReceiverNotForgotten
    BY FibersAssumption, ChForm, ChSafe DEF FibersInv
  <2>4. QED
    BY <2>1, <2>2, <2>3 DEF FiberSafety
<1> QED BY <1>1, FibersInvariant, PTL

\* The task scheduler takes its own steps in this run, so what is proved of it
\* above holds here.
LEMMA TasksRun == MCSpec => Spec
<1>1. MCInit => Init
  BY DEF MCInit
<1>2. [MCNext]_allVars => [Next]_vars
  BY DEF MCNext, allVars
<1> QED BY <1>1, <1>2, PTL DEF MCSpec, Spec

\* In this run too a task starts only after its prerequisites were completed.
THEOREM TasksWaitForDeps == MCSpec => []DepsRespected
BY TasksRun, ScheduleDepsRespected, PTL

\* And no task is lost, run twice or left out of the count.
THEOREM TasksAreSafe ==
  ASSUME MaxCancels =< MAX_CANCELLED_REGIONS
  PROVE  MCSpec => []ScheduleSafety
BY TasksRun, ScheduleIsSafe, PTL
================================================================================
