------------------------------ MODULE ArcProofs ------------------------------
(***************************************************************************)
(* Proofs about Arc: for any number of threads and references, ArcInv is   *)
(* an inductive invariant, and the properties the runs check follow.       *)
(***************************************************************************)
EXTENDS Arc, FiniteSetTheorems, TLAPS

\* The references held are finitely many, and a held one makes the count
\* positive.
LEMMA HeldFinite ==
  ASSUME NEW S, IsFiniteSet(S), NEW f \in [S -> Threads \cup {None}]
  PROVE  /\ IsFiniteSet(Held(f))
         /\ Cardinality(Held(f)) \in Nat
         /\ Cardinality(Held(f)) = 0 <=> Held(f) = {}
<1>1. Held(f) \subseteq S
  BY DEF Held
<1>2. IsFiniteSet(Held(f))
  BY <1>1, FS_Subset
<1>3. QED
  BY <1>2, FS_CardinalityType, FS_EmptySet

\* A new reference adds one to the number held.
LEMMA HeldAdd ==
  ASSUME NEW S, IsFiniteSet(S), NEW f \in [S -> Threads \cup {None}],
         NEW r \in S, r \notin Held(f), NEW t \in Threads
  PROVE  Cardinality(Held([f EXCEPT ![r] = t])) = Cardinality(Held(f)) + 1
<1>1. Held([f EXCEPT ![r] = t]) = Held(f) \cup {r}
  BY ArcAssumption DEF Held
<1>2. QED
  BY <1>1, HeldFinite, FS_AddElement

\* Giving a reference up takes one off the number held.
LEMMA HeldRemove ==
  ASSUME NEW S, IsFiniteSet(S), NEW f \in [S -> Threads \cup {None}],
         NEW r \in S, f[r] \in Threads
  PROVE  Cardinality(Held([f EXCEPT ![r] = None])) = Cardinality(Held(f)) - 1
<1>1. /\ Held([f EXCEPT ![r] = None]) = Held(f) \ {r}
      /\ r \in Held(f)
  BY ArcAssumption DEF Held
<1>2. QED
  BY <1>1, HeldFinite, FS_RemoveElement

\* Moving a reference to another thread leaves the number held alone.
LEMMA HeldMove ==
  ASSUME NEW S, NEW f \in [S -> Threads \cup {None}],
         NEW r \in S, f[r] \in Threads, NEW u \in Threads
  PROVE  Held([f EXCEPT ![r] = u]) = Held(f)
BY ArcAssumption DEF Held

\* A holder of a strong reference sees a positive strong count.
LEMMA HolderSeesPositive ==
  ASSUME TypeOK, CountsExact, NEW t \in Threads, HoldsStrong(t)
  PROVE  strong > 0
<1>1. Held(sref) # {}
  BY ArcAssumption DEF HoldsStrong, Held, TypeOK
<1>2. QED
  BY <1>1, HeldFinite, ArcAssumption DEF TypeOK, CountsExact

\* The object starts with one reference, counted once.
LEMMA InitInv == Init => ArcInv
<1> SUFFICES ASSUME Init PROVE ArcInv
  OBVIOUS
<1>1. PICK t \in Threads, r \in StrongRefs :
         sref = [s \in StrongRefs |-> IF s = r THEN t ELSE None]
  BY DEF Init
<1>2. TypeOK
  <2>1. sref \in [StrongRefs -> Threads \cup {None}]
    BY <1>1
  <2>2. uaf \in BOOLEAN
    BY DEF Init
  <2>3. QED
    BY <2>1, <2>2 DEF Init, TypeOK, PCs
<1>3. Held(sref) = {r}
  BY <1>1, ArcAssumption DEF Held
<1>4. Held(wref) = {}
  BY DEF Held, Init
<1>5. CountsExact
  BY <1>3, <1>4, FS_Singleton, FS_EmptySet DEF CountsExact, Init
<1>6. QED
  BY <1>2, <1>5 DEF ArcInv, CallersHold, ZeroIsFinal, SomebodyLooks, NeverAborts, Init

\* An increment adds one reference and one count, and only to a live object.
LEMMA IncrementInv ==
  ASSUME ArcInv, NEW t \in Threads, Touch, pc[t] \in {"acquire", "upgrade"},
         prev[t] > 0, Increment(t)
  PROVE  ArcInv'
<1> USE DEF ArcInv
<1>1. PICK r \in StrongRefs \ Held(sref) : sref' = [sref EXCEPT ![r] = t]
  BY DEF Increment
<1>2. TypeOK'
  BY <1>1 DEF TypeOK, Increment, Touch, Goto, PCs
<1>3. CountsExact'
  <2>1. Cardinality(Held(sref')) = Cardinality(Held(sref)) + 1
    BY <1>1, HeldAdd, ArcAssumption DEF TypeOK
  <2>2. QED
    BY <2>1 DEF CountsExact, Increment
<1>4. CallersHold'
  BY <1>1, ArcAssumption DEF CallersHold, HoldsStrong, Held, Increment, Goto, TypeOK
<1>5. ZeroIsFinal' /\ SomebodyLooks' /\ NeverAborts' /\ (uaf' \/ frees' <= 1)
  BY DEF ZeroIsFinal, SomebodyLooks, NeverAborts, Increment, Goto, Touch, TypeOK
<1>6. QED
  BY <1>2, <1>3, <1>4, <1>5

\* A decrement takes one reference and one count; at zero its thread looks.
LEMMA DecrementInv ==
  ASSUME ArcInv, NEW t \in Threads, Touch, pc[t] = "release",
         prev[t] > 0, Decrement(t)
  PROVE  ArcInv'
<1> USE DEF ArcInv
<1>1. PICK r \in StrongRefs : sref[r] = t /\ sref' = [sref EXCEPT ![r] = None]
  BY DEF Decrement
<1>2. TypeOK'
  BY <1>1 DEF TypeOK, Decrement, Touch, Goto, PCs
<1>3. CountsExact'
  <2>1. Cardinality(Held(sref')) = Cardinality(Held(sref)) - 1
    BY <1>1, HeldRemove, ArcAssumption DEF TypeOK
  <2>2. QED
    BY <2>1 DEF CountsExact, Decrement
<1>4. CallersHold'
  BY <1>1, ArcAssumption DEF CallersHold, HoldsStrong, Decrement, Goto, TypeOK
<1>5. ZeroIsFinal' /\ NeverAborts' /\ (uaf' \/ frees' <= 1)
  BY DEF ZeroIsFinal, NeverAborts, Decrement, Goto, Touch, TypeOK
<1>6. SomebodyLooks'
  BY DEF SomebodyLooks, Decrement, Goto, Touch, TypeOK
<1>7. QED
  BY <1>2, <1>3, <1>4, <1>5, <1>6

\* Reading the strong count, at the start of a call or after a failed CAS.
LEMMA ReadInv ==
  ASSUME ArcInv, NEW t \in Threads, Touch,
         NEW label \in {"acquire", "release", "upgrade"},
         label = "upgrade" \/ HoldsStrong(t),
         pc[t] \in {"idle", label},
         prev' = [prev EXCEPT ![t] = strong],
         pc' = [pc EXCEPT ![t] = label],
         UNCHANGED <<strong, weak, sref, wref, frees>>
  PROVE  ArcInv'
<1> USE DEF ArcInv
<1>1. TypeOK'
  BY DEF TypeOK, Touch, PCs
<1>2. CountsExact'
  BY DEF CountsExact
<1>3. CallersHold'
  BY HolderSeesPositive DEF CallersHold, HoldsStrong, TypeOK
<1>4. ZeroIsFinal' /\ NeverAborts' /\ SomebodyLooks' /\ (uaf' \/ frees' <= 1)
  BY DEF ZeroIsFinal, NeverAborts, SomebodyLooks, Touch, TypeOK
<1>5. QED
  BY <1>1, <1>2, <1>3, <1>4

\* Looking at the other count: a free happens only after the strong count died.
LEMMA LookInv ==
  ASSUME ArcInv, NEW t \in Threads, NEW zero \in BOOLEAN,
         Touch, FreeIf(zero), pc' = [pc EXCEPT ![t] = "idle"],
         UNCHANGED <<strong, weak, sref, wref, prev>>,
         zero => strong = 0,
         (strong = 0 /\ weak = 0) => zero
  PROVE  ArcInv'
<1> USE DEF ArcInv
<1>1. frees' \in {frees, frees + 1} /\ frees' \in 0..2 /\ uaf' \in BOOLEAN
  BY DEF FreeIf, TypeOK, Touch
<1>2. TypeOK'
  BY <1>1 DEF TypeOK, PCs
<1>3. CountsExact' /\ CallersHold'
  BY DEF CountsExact, CallersHold, HoldsStrong, TypeOK
<1>4. ZeroIsFinal' /\ NeverAborts'
  BY <1>1 DEF ZeroIsFinal, NeverAborts, FreeIf, TypeOK
<1>5. frees' <= 1 \/ uaf'
  <2>1. CASE frees > 0
    BY <2>1 DEF Touch
  <2>2. CASE ~(frees > 0)
    BY <2>2 DEF FreeIf
  <2>3. QED
    BY <2>1, <2>2
<1>6. SomebodyLooks'
  BY <1>1 DEF SomebodyLooks, FreeIf, TypeOK
<1>7. QED
  BY <1>2, <1>3, <1>4, <1>5, <1>6

\* A weak handle comes from a live object, so that no zero needs looking at.
LEMMA WeakCreateInv ==
  ASSUME ArcInv, NEW t \in Threads, WeakCreate(t)
  PROVE  ArcInv'
<1> USE DEF ArcInv
<1>1. PICK w \in WeakRefs \ Held(wref) : wref' = [wref EXCEPT ![w] = t]
  BY DEF WeakCreate
<1>2. TypeOK'
  BY <1>1 DEF TypeOK, WeakCreate, Touch
<1>3. CountsExact'
  <2>1. Cardinality(Held(wref')) = Cardinality(Held(wref)) + 1
    BY <1>1, HeldAdd, ArcAssumption DEF TypeOK
  <2>2. QED
    BY <2>1 DEF CountsExact, WeakCreate
<1>4. CallersHold' /\ ZeroIsFinal' /\ NeverAborts' /\ SomebodyLooks' /\ (uaf' \/ frees' <= 1)
  BY DEF CallersHold, HoldsStrong, ZeroIsFinal, NeverAborts, SomebodyLooks, WeakCreate,
         Touch, TypeOK
<1>5. QED
  BY <1>2, <1>3, <1>4

\* Dropping the last weak handle makes its thread look at the strong count.
LEMMA WeakDropInv ==
  ASSUME ArcInv, NEW t \in Threads, WeakDrop(t)
  PROVE  ArcInv'
<1> USE DEF ArcInv
<1>1. PICK w \in WeakRefs : wref[w] = t /\ wref' = [wref EXCEPT ![w] = None]
  BY DEF WeakDrop
<1>2. CountsExact' /\ weak' \in Nat
  <2>1. Cardinality(Held(wref')) = Cardinality(Held(wref)) - 1
    BY <1>1, HeldRemove, ArcAssumption DEF TypeOK
  <2>2. wref' \in [WeakRefs -> Threads \cup {None}]
    BY <1>1 DEF TypeOK
  <2>3. Cardinality(Held(wref')) \in Nat
    BY <2>2, HeldFinite, ArcAssumption
  <2>4. QED
    BY <2>1, <2>3 DEF CountsExact, WeakDrop
<1>3. TypeOK'
  BY <1>1, <1>2 DEF TypeOK, WeakDrop, Touch, Goto, PCs
<1>4. CallersHold' /\ ZeroIsFinal' /\ NeverAborts' /\ (uaf' \/ frees' <= 1)
  BY DEF CallersHold, HoldsStrong, ZeroIsFinal, NeverAborts, WeakDrop, Touch, Goto, TypeOK
<1>5. SomebodyLooks'
  BY DEF SomebodyLooks, WeakDrop, Touch, Goto, TypeOK
<1>6. QED
  BY <1>2, <1>3, <1>4, <1>5

\* Handing a reference over changes no count, and not a reference in use.
LEMMA MoveInv ==
  ASSUME ArcInv, NEW t \in Threads, NEW u \in Threads, Move(t, u)
  PROVE  ArcInv'
<1> USE DEF ArcInv
<1>1. CASE \E r \in StrongRefs : sref[r] = t /\ sref' = [sref EXCEPT ![r] = u]
           /\ UNCHANGED wref
  <2>1. PICK r \in StrongRefs : sref[r] = t /\ sref' = [sref EXCEPT ![r] = u]
    BY <1>1
  <2>2. TypeOK' /\ Held(sref') = Held(sref)
    <3>1. Held(sref') = Held(sref)
      BY <2>1, HeldMove DEF TypeOK
    <3>2. sref' \in [StrongRefs -> Threads \cup {None}]
      BY <2>1 DEF TypeOK
    <3>3. QED
      BY <1>1, <3>1, <3>2 DEF TypeOK, Move
  <2>3. CountsExact'
    BY <1>1, <2>2 DEF CountsExact, Move
  <2>4. CallersHold'
    BY <2>1 DEF CallersHold, HoldsStrong, Move, TypeOK
  <2>5. QED
    BY <1>1, <2>2, <2>3, <2>4 DEF Move, ZeroIsFinal, SomebodyLooks, NeverAborts
<1>2. CASE \E w \in WeakRefs : wref[w] = t /\ wref' = [wref EXCEPT ![w] = u]
           /\ UNCHANGED sref
  <2>1. PICK w \in WeakRefs : wref[w] = t /\ wref' = [wref EXCEPT ![w] = u]
    BY <1>2
  <2>2. TypeOK' /\ Held(wref') = Held(wref)
    <3>1. Held(wref') = Held(wref)
      BY <2>1, HeldMove DEF TypeOK
    <3>2. wref' \in [WeakRefs -> Threads \cup {None}]
      BY <2>1 DEF TypeOK
    <3>3. QED
      BY <1>2, <3>1, <3>2 DEF TypeOK, Move
  <2>3. CountsExact'
    BY <1>2, <2>2 DEF CountsExact, Move
  <2>4. QED
    BY <1>2, <2>2, <2>3 DEF Move, CallersHold, HoldsStrong, ZeroIsFinal, SomebodyLooks, NeverAborts
<1>3. QED
  BY <1>1, <1>2 DEF Move

\* Every step of every thread preserves the invariant.
LEMMA StepInv ==
  ASSUME ArcInv, NEW t \in Threads, Step(t)
  PROVE  ArcInv'
<1>0. prev[t] \in Nat /\ pc \in [Threads -> PCs]
  BY DEF ArcInv, TypeOK
<1>1. CASE ArcAcquireLoad(t)
  BY <1>1, ReadInv DEF ArcAcquireLoad, LoadStrong, Goto
<1>2. CASE ArcAcquireCas(t)
  <2>1. prev[t] > 0 /\ HoldsStrong(t)
    BY <1>2 DEF ArcAcquireCas, ArcInv, CallersHold
  <2>2. CASE Increment(t)
    BY <1>2, <2>1, <2>2, IncrementInv DEF ArcAcquireCas
  <2>3. CASE Retry(t)
    <3>1. pc' = [pc EXCEPT ![t] = "acquire"]
      BY <1>0, <1>2, <2>3 DEF Retry, ArcAcquireCas
    <3>2. QED
      BY <1>2, <2>1, <2>3, <3>1, ReadInv DEF Retry, ArcAcquireCas
  <2>4. QED
    BY <1>0, <1>2, <2>1, <2>2, <2>3 DEF ArcAcquireCas
<1>3. CASE ArcReleaseLoad(t)
  BY <1>3, ReadInv DEF ArcReleaseLoad, LoadStrong, Goto
<1>4. CASE ArcReleaseCas(t)
  <2>1. prev[t] > 0 /\ HoldsStrong(t)
    BY <1>4 DEF ArcReleaseCas, ArcInv, CallersHold
  <2>2. CASE Decrement(t)
    BY <1>4, <2>1, <2>2, DecrementInv DEF ArcReleaseCas
  <2>3. CASE Retry(t)
    <3>1. pc' = [pc EXCEPT ![t] = "release"]
      BY <1>0, <1>4, <2>3 DEF Retry, ArcReleaseCas
    <3>2. QED
      BY <1>4, <2>1, <2>3, <3>1, ReadInv DEF Retry, ArcReleaseCas
  <2>4. QED
    BY <1>0, <1>4, <2>1, <2>2, <2>3 DEF ArcReleaseCas
<1>5. CASE ArcReleaseCheck(t)
  <2>1. strong = 0
    BY <1>5 DEF ArcReleaseCheck, ArcInv, ZeroIsFinal
  <2>2. QED
    BY <1>5, <2>1, LookInv DEF ArcReleaseCheck, Goto
<1>6. CASE WeakCreate(t)
  BY <1>6, WeakCreateInv
<1>7. CASE WeakUpgradeLoad(t)
  BY <1>7, ReadInv DEF WeakUpgradeLoad, LoadStrong, Goto
<1>8. CASE WeakUpgradeCas(t)
  <2>1. CASE prev[t] <= 0 /\ Leave(t, "idle")
    BY <1>8, <2>1 DEF WeakUpgradeCas, Leave, Goto, Touch, ArcInv, TypeOK, PCs, CountsExact,
       CallersHold, HoldsStrong, ZeroIsFinal, SomebodyLooks, NeverAborts
  <2>2. CASE prev[t] > 0 /\ Increment(t)
    BY <1>8, <2>2, IncrementInv DEF WeakUpgradeCas
  <2>3. CASE Retry(t)
    <3>1. pc' = [pc EXCEPT ![t] = "upgrade"]
      BY <1>0, <1>8, <2>3 DEF Retry, WeakUpgradeCas
    <3>2. QED
      BY <1>8, <2>3, <3>1, ReadInv DEF Retry, WeakUpgradeCas
  <2>4. QED
    BY <1>0, <1>8, <2>1, <2>2, <2>3 DEF WeakUpgradeCas
<1>9. CASE WeakDrop(t)
  BY <1>9, WeakDropInv
<1>10. CASE WeakDropCheck(t)
  BY <1>10, LookInv DEF WeakDropCheck, Goto
<1>11. CASE \E u \in Threads \ {t} : Move(t, u)
  BY <1>11, MoveInv
<1>12. QED
  BY <1>1, <1>2, <1>3, <1>4, <1>5, <1>6, <1>7, <1>8, <1>9, <1>10, <1>11 DEF Step

\* ArcInv holds in every state of every execution: the header's counts are
\* exact, datara_rt_arc_use_after_free is never reached, and the last of two
\* racing threads to see both counts at zero always looks.
THEOREM ArcInvariant == Spec => []ArcInv
<1>1. ArcInv /\ [Next]_vars => ArcInv'
  <2> SUFFICES ASSUME ArcInv, [Next]_vars PROVE ArcInv'
    OBVIOUS
  <2>1. CASE UNCHANGED vars
    BY <2>1 DEF vars, ArcInv, TypeOK, CountsExact, CallersHold, HoldsStrong, ZeroIsFinal,
       SomebodyLooks, NeverAborts
  <2>2. QED
    BY <2>1, StepInv DEF Next
<1>2. QED
  BY InitInv, <1>1, PTL DEF Spec

\* A program that follows the ownership rules never reaches the fatal path of
\* acquire and release.
THEOREM ArcNeverAborts == Spec => []NeverAborts
<1>1. ArcInv => NeverAborts
  BY DEF ArcInv
<1>2. QED
  BY <1>1, ArcInvariant, PTL

\* No thread's strong reference is ever reclaimed under it.
THEOREM ArcStrongKeepsAlive == Spec => []StrongKeepsAlive
<1>1. ArcInv => StrongKeepsAlive
  <2> SUFFICES ASSUME ArcInv, Held(sref) # {} PROVE frees = 0
    BY DEF StrongKeepsAlive
  <2>1. strong # 0
    BY HeldFinite, ArcAssumption DEF ArcInv, CountsExact, TypeOK
  <2>2. QED
    BY <2>1 DEF ArcInv, ZeroIsFinal, TypeOK
<1>2. QED
  BY <1>1, ArcInvariant, PTL

\* When every handle is gone and every call has returned, the allocation has
\* been reclaimed.
THEOREM ArcNoLeak == Spec => []NoLeak
<1>1. ArcInv => NoLeak
  <2> SUFFICES ASSUME ArcInv, Held(sref) = {}, Held(wref) = {}, ~uaf,
                      \A t \in Threads : pc[t] = "idle"
               PROVE  frees > 0
    BY DEF NoLeak
  <2>1. strong = 0 /\ weak = 0
    BY FS_EmptySet DEF ArcInv, CountsExact
  <2>2. QED
    BY <2>1 DEF ArcInv, SomebodyLooks
<1>2. QED
  BY <1>1, ArcInvariant, PTL

\* The compare-and-swap loops never bring a dead object back.
THEOREM ArcNoResurrection == Spec => NoResurrection
<1>1. ArcInv /\ [Next]_vars => [strong = 0 => strong' = 0]_vars
  <2> SUFFICES ASSUME ArcInv, NEW t \in Threads, Step(t), strong = 0
               PROVE  strong' = 0
    BY DEF Next
  <2>1. prev[t] \in Nat /\ strong \in Nat
    BY DEF ArcInv, TypeOK
  <2>2. QED
    BY <2>1 DEF Step, ArcAcquireLoad, ArcAcquireCas, ArcReleaseLoad, ArcReleaseCas,
       ArcReleaseCheck, WeakCreate, WeakUpgradeLoad, WeakUpgradeCas, WeakDrop,
       WeakDropCheck, Move, LoadStrong, Leave, Increment, Decrement, Retry
<1>2. QED
  BY <1>1, ArcInvariant, PTL DEF Spec, NoResurrection
==============================================================================
