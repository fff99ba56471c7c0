-------------------------- MODULE OwnershipProofs --------------------------
(***************************************************************************)
(* Proofs about the ownership analysis of DMIR (BorrowCheck).              *)
(*                                                                         *)
(* 1. The states form a join semilattice: the worklist of abstract.rs may  *)
(*    visit the predecessors of a block in any order and any number of     *)
(*    times, its result is the same, and no join makes a state smaller.    *)
(* 2. Inside a block: a loaded value is, at its use, what was loaded, a    *)
(*    load of a variable moved for certain is an error, and a consumed     *)
(*    variable is moved in the state.                                      *)
(* 3. Between blocks: the in-state of a block covers the moves of every    *)
(*    predecessor that is not in the worklist, through joins, widening and *)
(*    narrowing; the walk that orders the blocks leaves none out.          *)
(* 4. The guards: where each instruction lands among the acquires and      *)
(*    releases that insert_runtime_guards puts around it.                  *)
(* 5. The execution: the path has moved nothing that the state at its      *)
(*    place does not show, so a use of a moved variable is unproven and    *)
(*    therefore guarded.                                                   *)
(***************************************************************************)
EXTENDS BorrowCheck, WellFoundedInduction, FiniteSetTheorems, TLAPS

\* The states the analysis can reach: every borrower has its borrow.
Counted == {s \in VarStates : Cardinality(s.by) <= s.borrows}

BaseBelow(a, b) == a = b \/ a = "uninit" \/ b = "unknown"

Below(s, t) ==
    /\ BaseBelow(s.base, t.base)
    /\ s.borrows <= t.borrows
    /\ s.muts <= t.muts
    /\ s.by \subseteq t.by

\* Every non-empty set of numbers has a smallest member.
LEMMA Smallest ==
  ASSUME NEW T \in SUBSET Nat, T # {}
  PROVE  \E x \in T : \A y \in T : x <= y
<1>1. PICK x \in T : \A y \in T : ~ (<<y, x>> \in OpToRel(<, Nat))
  BY NatLessThanWellFounded, WFMin, Zenon
<1>2. \A y \in T : ~(y < x)
  BY <1>1, Zenon DEF OpToRel
<1>. QED BY <1>2

(* The bases alone: order and repetition of joins do not matter, and "moved" is
   the result only when no side has the value in another state (domain.rs: the
   base of a join). *)
THEOREM JoinBaseSemilattice ==
  ASSUME NEW a \in Bases, NEW b \in Bases, NEW c \in Bases
  PROVE  /\ JoinBase(a, b) \in Bases
         /\ JoinBase(a, a) = a
         /\ JoinBase(a, b) = JoinBase(b, a)
         /\ JoinBase(JoinBase(a, b), c) = JoinBase(a, JoinBase(b, c))
         /\ BaseBelow(a, JoinBase(a, b))
         /\ BaseBelow(a, c) /\ BaseBelow(b, c) => BaseBelow(JoinBase(a, b), c)
BY DEF JoinBase, Bases, BaseBelow

\* A larger set of borrowers has at least as many members.
LEMMA CardinalityGrows ==
  ASSUME IsFiniteSet(Borrowers), NEW A \in SUBSET Borrowers, NEW B \in SUBSET Borrowers
  PROVE  /\ Cardinality(A) \in Nat
         /\ Cardinality(A \cup B) \in Nat
         /\ Cardinality(A) <= Cardinality(A \cup B)
<1>1. IsFiniteSet(A \cup B) /\ A \subseteq A \cup B
  BY FS_Subset, A \cup B \in SUBSET Borrowers
<1>. QED BY <1>1, FS_Subset, FS_CardinalityType

\* The general case of Join.
Fields(s, t) ==
    [base    |-> JoinBase(s.base, t.base),
     borrows |-> Larger(Cardinality(s.by \cup t.by), Larger(s.borrows, t.borrows)),
     muts    |-> Larger(s.muts, t.muts),
     by      |-> s.by \cup t.by]

\* On counted states the case s = t of Join is no exception to its other case.
LEMMA JoinFields ==
  ASSUME IsFiniteSet(Borrowers), NEW s \in Counted, NEW t \in Counted
  PROVE  Join(s, t) = Fields(s, t)
<1>1. CASE s # t
  BY <1>1 DEF Join, Fields
<1>2. CASE s = t
  <2>1. /\ JoinBase(s.base, s.base) = s.base
        /\ Larger(s.muts, s.muts) = s.muts
        /\ s.by \cup s.by = s.by
    BY JoinBaseSemilattice DEF Counted, VarStates, Larger
  <2>2. Larger(Cardinality(s.by), Larger(s.borrows, s.borrows)) = s.borrows
    BY CardinalityGrows DEF Counted, VarStates, Larger
  <2>3. s = [base |-> s.base, borrows |-> s.borrows, muts |-> s.muts, by |-> s.by]
    BY DEF Counted, VarStates
  <2>. QED BY <1>2, <2>1, <2>2, <2>3 DEF Join, Fields
<1>. QED BY <1>1, <1>2

LEMMA JoinParts ==
  ASSUME IsFiniteSet(Borrowers), NEW s \in Counted, NEW t \in Counted
  PROVE  /\ Join(s, t).base = JoinBase(s.base, t.base)
         /\ Join(s, t).borrows = Larger(Cardinality(s.by \cup t.by), Larger(s.borrows, t.borrows))
         /\ Join(s, t).muts = Larger(s.muts, t.muts)
         /\ Join(s, t).by = s.by \cup t.by
BY JoinFields DEF Fields

(* The analysis stays among the counted states: a join keeps at least one borrow
   per borrower, and the conflict tests of transfer.rs look at the counts
   only. *)
THEOREM JoinCounted ==
  ASSUME IsFiniteSet(Borrowers), NEW s \in Counted, NEW t \in Counted
  PROVE  Join(s, t) \in Counted
<1>1. /\ JoinBase(s.base, t.base) \in Bases
      /\ s.by \cup t.by \in SUBSET Borrowers
      /\ Cardinality(s.by \cup t.by) \in Nat
  BY JoinBaseSemilattice, CardinalityGrows DEF Counted, VarStates
<1>. QED BY <1>1, JoinFields DEF Fields, Counted, VarStates, Larger

(* Predecessors may be joined in any order. *)
THEOREM JoinCommutes ==
  ASSUME IsFiniteSet(Borrowers), NEW s \in Counted, NEW t \in Counted
  PROVE  Join(s, t) = Join(t, s)
<1>1. s.by \cup t.by = t.by \cup s.by
  OBVIOUS
<1>2. JoinBase(s.base, t.base) = JoinBase(t.base, s.base)
  BY JoinBaseSemilattice DEF Counted, VarStates
<1>3. Larger(s.borrows, t.borrows) = Larger(t.borrows, s.borrows) /\ Larger(s.muts, t.muts) = Larger(t.muts, s.muts)
  BY DEF Counted, VarStates, Larger
<1>4. Fields(s, t) = Fields(t, s)
  BY <1>1, <1>2, <1>3 DEF Fields
<1>. QED BY <1>4, JoinFields

(* Predecessors may be joined in any grouping: the state at the entry of a block
   depends on the states that reach it and on nothing else. *)
THEOREM JoinAssociates ==
  ASSUME IsFiniteSet(Borrowers),
         NEW s \in Counted, NEW t \in Counted, NEW u \in Counted
  PROVE  Join(Join(s, t), u) = Join(s, Join(t, u))
<1> DEFINE all == s.by \cup t.by \cup u.by
           st == Cardinality(s.by \cup t.by)
           tu == Cardinality(t.by \cup u.by)
           n  == Cardinality(all)
<1>1. Join(s, t) \in Counted /\ Join(t, u) \in Counted
  BY JoinCounted
<1>2. /\ Join(s, t).by \cup u.by = all
      /\ s.by \cup Join(t, u).by = all
  <2>1. Join(s, t).by = s.by \cup t.by /\ Join(t, u).by = t.by \cup u.by
    BY JoinParts
  <2>. QED BY <2>1
<1>3. JoinBase(Join(s, t).base, u.base) = JoinBase(s.base, Join(t, u).base)
  <2>1. s.base \in Bases /\ t.base \in Bases /\ u.base \in Bases
    BY DEF Counted, VarStates
  <2>2. JoinBase(JoinBase(s.base, t.base), u.base) = JoinBase(s.base, JoinBase(t.base, u.base))
    BY <2>1, JoinBaseSemilattice
  <2>. QED BY <2>2, JoinParts
<1>4. /\ st \in Nat /\ tu \in Nat /\ n \in Nat
      /\ st <= n /\ tu <= n
  <2>1. s.by \cup t.by \in SUBSET Borrowers /\ t.by \cup u.by \in SUBSET Borrowers
        /\ s.by \in SUBSET Borrowers /\ u.by \in SUBSET Borrowers
    BY DEF Counted, VarStates
  <2>2. all = (s.by \cup t.by) \cup u.by /\ all = (t.by \cup u.by) \cup s.by
    OBVIOUS
  <2>. QED BY <2>1, <2>2, CardinalityGrows
<1>5. Larger(n, Larger(Join(s, t).borrows, u.borrows)) = Larger(n, Larger(s.borrows, Join(t, u).borrows))
  <2>1. Join(s, t).borrows = Larger(st, Larger(s.borrows, t.borrows))
        /\ Join(t, u).borrows = Larger(tu, Larger(t.borrows, u.borrows))
    BY JoinParts
  <2>2. s.borrows \in Nat /\ t.borrows \in Nat /\ u.borrows \in Nat
    BY DEF Counted, VarStates
  <2>. HIDE DEF st, tu, n
  <2>. QED BY <1>4, <2>1, <2>2 DEF Larger
<1>6. Larger(Join(s, t).muts, u.muts) = Larger(s.muts, Join(t, u).muts)
  <2>1. Join(s, t).muts = Larger(s.muts, t.muts) /\ Join(t, u).muts = Larger(t.muts, u.muts)
    BY JoinParts
  <2>2. s.muts \in Nat /\ t.muts \in Nat /\ u.muts \in Nat
    BY DEF Counted, VarStates
  <2>. QED BY <2>1, <2>2 DEF Larger
<1>7. Fields(Join(s, t), u) = Fields(s, Join(t, u))
  <2>. HIDE DEF all
  <2>. QED BY <1>2, <1>3, <1>5, <1>6 DEF Fields
<1>. QED BY <1>1, <1>7, JoinFields

(* A join is above both sides: what the analysis knows at the end of a predecessor
   it does not forget at the entry of the block. *)
THEOREM JoinAbove ==
  ASSUME IsFiniteSet(Borrowers), NEW s \in Counted, NEW t \in Counted
  PROVE  Below(s, Join(s, t))
<1>1. BaseBelow(s.base, JoinBase(s.base, t.base))
  BY JoinBaseSemilattice DEF Counted, VarStates
<1>2. Cardinality(s.by \cup t.by) \in Nat
  BY CardinalityGrows DEF Counted, VarStates
<1>. QED BY <1>1, <1>2, JoinParts DEF Below, Counted, VarStates, Larger

(* Errors are certain: after a join a variable is moved only if each side had moved
   it or had not seen it, so that a use of it is an error on every path. *)
THEOREM MovedOnEverySide ==
  ASSUME IsFiniteSet(Borrowers), NEW s \in Counted, NEW t \in Counted,
         Join(s, t).base = "moved"
  PROVE  /\ s.base \in {"moved", "uninit"} /\ t.base \in {"moved", "uninit"}
         /\ "moved" \in {s.base, t.base}
<1>1. JoinBase(s.base, t.base) = "moved"
  BY JoinParts
<1>. QED BY <1>1 DEF JoinBase, Counted, VarStates, Bases

(* Borrows keep the count of the borrowers as well. *)
THEOREM BorrowCounted ==
  ASSUME IsFiniteSet(Borrowers), NEW s \in Counted, NEW f \in Borrowers
  PROVE  Borrow(s, f) \in Counted /\ BorrowMut(s, f) \in Counted
<1>1. /\ s.by \in SUBSET Borrowers
      /\ IsFiniteSet(s.by)
      /\ Cardinality(s.by) \in Nat
      /\ Cardinality(s.by \cup {f}) <= Cardinality(s.by) + 1
  BY FS_Subset, FS_CardinalityType, FS_AddElement DEF Counted, VarStates
<1>2. Cardinality(s.by \cup {f}) \in Nat
  BY <1>1, FS_AddElement, FS_CardinalityType
<1>3. Borrow(s, f) \in Counted
  <2>1. s \in VarStates /\ s.borrows \in Nat /\ Cardinality(s.by) <= s.borrows
    BY DEF Counted, VarStates
  <2>2. s.by \cup {f} \in SUBSET Borrowers
    BY <1>1
  <2>3. Borrow(s, f) \in VarStates
    <3> DEFINE by == s.by \cup {f}
    <3>1. by \in SUBSET Borrowers /\ s.borrows + 1 \in Nat
      BY <2>1, <2>2
    <3>2. Borrow(s, f) = [s EXCEPT !.borrows = s.borrows + 1, !.by = by]
      BY DEF Borrow
    <3>. HIDE DEF by
    <3>. QED BY <2>1, <3>1, <3>2 DEF VarStates
  <2>4. Borrow(s, f).by = s.by \cup {f} /\ Borrow(s, f).borrows = s.borrows + 1
    BY <2>1 DEF Borrow, VarStates
  <2>5. Cardinality(s.by \cup {f}) <= s.borrows + 1
    BY <1>1, <1>2, <2>1
  <2>. QED BY <2>3, <2>4, <2>5 DEF Counted
<1>4. Borrow(s, f).muts = s.muts
  BY DEF Borrow, Counted, VarStates
<1>. QED BY <1>3, <1>4 DEF BorrowMut, Counted, VarStates

(* ------------------------------ recursion ------------------------------- *)

\* Induction over the numbers up to n.
LEMMA Climb ==
  ASSUME NEW n \in Nat, NEW S, 0 \in S,
         \A i \in 1..n : i - 1 \in S => i \in S
  PROVE  \A i \in 0..n : i \in S
<1> DEFINE T == {i \in 0..n : i \notin S}
<1>1. SUFFICES ASSUME T # {} PROVE FALSE
  OBVIOUS
<1>2. PICK m \in T : \A k \in T : m <= k
  <2>1. T \in SUBSET Nat
    OBVIOUS
  <2>. HIDE DEF T
  <2>. QED BY <1>1, <2>1, Smallest
<1>3. m \in 1..n /\ m - 1 \in 0..n /\ m - 1 \notin T
  BY <1>2
<1>. QED BY <1>3

\* The states of a block, from one instruction to the next.
LEMMA StatesStep ==
  ASSUME NEW st, NEW insts, Len(insts) \in Nat
  PROVE  /\ StateBefore(st, insts, 1) = st
         /\ \A i \in 1..Len(insts) :
              StateBefore(st, insts, i + 1) = ApplyTransfer(StateBefore(st, insts, i), insts[i])
         /\ StateAfter(st, insts) = StateBefore(st, insts, Len(insts) + 1)
<1> DEFINE Is(g, n) == g = [i \in 1..(n + 1) |->
                              IF i = 1 THEN st ELSE ApplyTransfer(g[i - 1], insts[i - 1])]
           S == {n \in Nat : \E g : Is(g, n)}
<1>1. 0 \in S
  <2>1. Is([i \in 1..1 |-> st], 0)
    OBVIOUS
  <2>. QED BY <2>1
<1>2. ASSUME NEW n \in 1..Len(insts), n - 1 \in S PROVE n \in S
  <2>1. PICK g : Is(g, n - 1)
    BY <1>2
  <2> DEFINE h == [i \in 1..(n + 1) |-> IF i <= n THEN g[i] ELSE ApplyTransfer(g[n], insts[n])]
  <2>2. g = [i \in 1..n |-> IF i = 1 THEN st ELSE ApplyTransfer(g[i - 1], insts[i - 1])]
    BY <2>1
  <2>3. ASSUME NEW i \in 1..(n + 1)
        PROVE  h[i] = IF i = 1 THEN st ELSE ApplyTransfer(h[i - 1], insts[i - 1])
    <3>1. CASE i = 1
      BY <3>1, <2>2
    <3>2. CASE i # 1 /\ i <= n
      <4>1. g[i] = ApplyTransfer(g[i - 1], insts[i - 1])
        BY <2>2, <3>2
      <4>2. h[i - 1] = g[i - 1] /\ h[i] = g[i]
        BY <3>2
      <4>. QED BY <3>2, <4>1, <4>2
    <3>3. CASE i = n + 1
      BY <3>3
    <3>. QED BY <3>1, <3>2, <3>3
  <2>4. Is(h, n)
    BY <2>3
  <2>. HIDE DEF Is, h
  <2>. QED BY <2>4
<1>3. PICK g : Is(g, Len(insts))
  <2>. HIDE DEF S
  <2>1. \A i \in 0..Len(insts) : i \in S
    BY ONLY Len(insts) \in Nat, <1>1, <1>2, Climb
  <2>. QED BY <2>1 DEF S
<1>4. Is(States(st, insts), Len(insts))
  BY <1>3 DEF States
<1>5. \A i \in 1..(Len(insts) + 1) :
         States(st, insts)[i] = IF i = 1 THEN st ELSE ApplyTransfer(States(st, insts)[i - 1], insts[i - 1])
  BY <1>4
<1>. QED BY <1>5 DEF StateBefore, StateAfter

(* ----------------------------- one instruction --------------------------- *)

Origins == Names \cup {"none"}
State == [vars : [Names -> Counted], vals : [Values -> Counted], origin : [Values -> Origins]]

\* The part of WellFormed that is about one instruction.
InstOK(inst) ==
    /\ inst \in Instructions
    /\ InstUses(inst) \subseteq Values
    /\ inst.op \in {"load", "assign"} => inst.name \in Names
    /\ inst.op \in {"assign", "method", "setfield"} => inst.args # <<>>

\* Whether a call changes what is known of its argument, and to what.
Acts(s, callee) ==
    /\ s.base # "moved" /\ s.muts = 0
    /\ \/ Mode(callee) = "owned" /\ s.borrows = 0
       \/ callee = "mut_view" /\ s.borrows = 0
       \/ callee = "view"
Touched(s, inst) ==
    \/ inst.op = "method" /\ inst.name = "view"
    \/ inst.op = "call" /\ inst.args # <<>> /\ Acts(s, inst.name)
Given(s, inst) ==
    CASE inst.op = "method" -> Borrow(s, "method_view")
      [] inst.op # "method" /\ Mode(inst.name) = "owned" -> Moved
      [] inst.op # "method" /\ inst.name = "mut_view" -> BorrowMut(s, "mut_view")
      [] OTHER -> Borrow(s, "view")

LEMMA PlainCounted == Owned \in Counted /\ Moved \in Counted /\ Uninit \in Counted
<1>1. Cardinality({}) = 0
  BY FS_EmptySet, Zenon
<1>2. ASSUME NEW base \in Bases PROVE Plain(base) \in Counted
  <2>1. Plain(base) \in VarStates
    BY DEF Plain, VarStates
  <2>2. Plain(base).by = {} /\ Plain(base).borrows = 0
    BY DEF Plain
  <2>. QED BY <1>1, <2>1, <2>2 DEF Counted
<1>. QED BY <1>2 DEF Owned, Moved, Uninit, Bases

LEMMA GivenCounted ==
  ASSUME NEW s \in Counted, NEW inst
  PROVE  /\ Given(s, inst) \in Counted
         /\ Given(s, inst) = Moved \/ Given(s, inst).base = s.base
<1>1. {"view", "mut_view", "method_view"} \subseteq Borrowers /\ IsFiniteSet(Borrowers)
  BY BorrowAssumption
<1>2. ASSUME NEW f \in Borrowers PROVE Borrow(s, f) \in Counted /\ BorrowMut(s, f) \in Counted
  BY <1>1, BorrowCounted, Zenon
<1>3. \A f \in Borrowers : Borrow(s, f).base = s.base /\ BorrowMut(s, f).base = s.base
  BY DEF Borrow, BorrowMut, Counted, VarStates
<1>. QED BY <1>1, <1>2, <1>3, PlainCounted DEF Given

LEMMA SetBothParts ==
  ASSUME NEW st \in State, NEW v \in Values, NEW s \in Counted
  PROVE  /\ SetBoth(st, v, s) \in State
         /\ SetBoth(st, v, s).origin = st.origin
         /\ SetBoth(st, v, s).vals = [st.vals EXCEPT ![v] = s]
         /\ SetBoth(st, v, s).vars = IF st.origin[v] = "none" THEN st.vars
                                     ELSE [st.vars EXCEPT ![st.origin[v]] = s]
BY DEF SetBoth, State

LEMMA PassedIs ==
  ASSUME NEW st \in State, NEW inst, InstOK(inst), inst.op = "call", inst.args # <<>>
  PROVE  Passed(st, inst).st = IF Touched(st.vals[inst.args[1]], inst)
                               THEN SetBoth(st, inst.args[1], Given(st.vals[inst.args[1]], inst))
                               ELSE st
<1> DEFINE v == inst.args[1]
           s == st.vals[v]
<1>1. Passed(st, inst) = PassArg(st, inst.name, v)
  BY DEF Passed
<1>2. v \in Values /\ s \in Counted
  BY DEF InstOK, Instructions, InstUses, State
<1>3. s.borrows \in Nat /\ s.muts \in Nat
  BY <1>2 DEF Counted, VarStates
<1>4. Touched(s, inst) <=> Acts(s, inst.name)
  BY DEF Touched
<1>. HIDE DEF v, s
<1>5. CASE Mode(inst.name) = "owned"
  <2>1. inst.name \notin {"view", "mut_view"}
    BY <1>5 DEF Mode
  <2>2. Given(s, inst) = Moved
    BY <1>5, <2>1 DEF Given
  <2>3. PassArg(st, inst.name, v).st = IF Acts(s, inst.name) THEN SetBoth(st, v, Moved) ELSE st
    BY <1>3, <1>5, <2>1 DEF PassArg, Acts, Consume, s
  <2>. QED BY <1>1, <1>4, <2>2, <2>3 DEF v, s
<1>6. CASE Mode(inst.name) = "mut"
  <2>1. inst.name # "view"
    BY <1>6 DEF Mode
  <2>2. inst.name = "mut_view" => Given(s, inst) = BorrowMut(s, "mut_view")
    BY <1>6 DEF Given
  <2>3. PassArg(st, inst.name, v).st =
           IF Acts(s, inst.name) THEN SetBoth(st, v, BorrowMut(s, "mut_view")) ELSE st
    BY <1>3, <1>6, <2>1 DEF PassArg, Acts, s
  <2>4. Acts(s, inst.name) => inst.name = "mut_view"
    BY <1>6, <2>1 DEF Acts
  <2>. QED BY <1>1, <1>4, <2>2, <2>3, <2>4 DEF v, s
<1>7. CASE Mode(inst.name) = "view"
  <2>1. inst.name # "mut_view"
    BY <1>7 DEF Mode
  <2>2. inst.name = "view" => Given(s, inst) = Borrow(s, "view")
    BY <1>7, <2>1 DEF Given
  <2>3. PassArg(st, inst.name, v).st =
           IF Acts(s, inst.name) THEN SetBoth(st, v, Borrow(s, "view")) ELSE st
    BY <1>3, <1>7, <2>1 DEF PassArg, Acts, s
  <2>4. Acts(s, inst.name) => inst.name = "view"
    BY <1>7, <2>1 DEF Acts
  <2>. QED BY <1>1, <1>4, <2>2, <2>3, <2>4 DEF v, s
<1>8. CASE Mode(inst.name) = "plain"
  <2>1. inst.name \notin {"mut_view", "view"}
    BY <1>8 DEF Mode
  <2>. QED BY <1>1, <1>4, <1>8, <2>1 DEF PassArg, Acts, v, s
<1>. QED BY <1>5, <1>6, <1>7, <1>8 DEF Mode

\* What an instruction does to what is known, part by part.
Hits(st, inst) == inst.args # <<>> /\ Touched(st.vals[inst.args[1]], inst)
Gives(st, inst) == Given(st.vals[inst.args[1]], inst)

OriginAfter(st, inst) ==
    IF inst.op = "load" THEN [st.origin EXCEPT ![inst.dest] = inst.name] ELSE st.origin
VarsAfter(st, inst) ==
    IF inst.op = "assign" THEN [st.vars EXCEPT ![inst.name] = st.vals[inst.args[1]]]
    ELSE IF Hits(st, inst) /\ st.origin[inst.args[1]] # "none"
    THEN [st.vars EXCEPT ![st.origin[inst.args[1]]] = Gives(st, inst)]
    ELSE st.vars
PassedVals(st, inst) ==
    IF Hits(st, inst) THEN [st.vals EXCEPT ![inst.args[1]] = Gives(st, inst)] ELSE st.vals
ValsAfter(st, inst) ==
    CASE inst.op \in {"assign", "setfield"} -> st.vals
      [] inst.op = "load" -> [st.vals EXCEPT ![inst.dest] = st.vars[inst.name]]
      [] OTHER -> [PassedVals(st, inst) EXCEPT ![inst.dest] = Owned]

LEMMA Transfer ==
  ASSUME NEW st \in State, NEW inst, InstOK(inst)
  PROVE  /\ ApplyTransfer(st, inst) \in State
         /\ ApplyTransfer(st, inst).origin = OriginAfter(st, inst)
         /\ ApplyTransfer(st, inst).vars = VarsAfter(st, inst)
         /\ ApplyTransfer(st, inst).vals = ValsAfter(st, inst)
<1> DEFINE v == inst.args[1]
           s == st.vals[v]
           hit == inst.args # <<>> /\ Touched(s, inst)
           mid == IF hit THEN SetBoth(st, v, Given(s, inst)) ELSE st
           last == [mid EXCEPT !.vals[inst.dest] = Owned]
<1>0. inst.args # <<>> => v \in Values /\ s \in Counted
  BY DEF InstOK, Instructions, InstUses, State
<1>1. CASE inst.op = "assign"
  <2>1. ApplyTransfer(st, inst) = [st EXCEPT !.vars[inst.name] = s] /\ ~Touched(s, inst)
    BY <1>1 DEF ApplyTransfer, Touched
  <2>2. inst.name \in Names /\ v \in Values /\ s \in Counted
    BY <1>0, <1>1 DEF InstOK
  <2>. HIDE DEF v, s
  <2>3. /\ ApplyTransfer(st, inst) \in State
        /\ ApplyTransfer(st, inst).origin = st.origin
        /\ ApplyTransfer(st, inst).vars = [st.vars EXCEPT ![inst.name] = s]
        /\ ApplyTransfer(st, inst).vals = st.vals
    BY <2>1, <2>2 DEF State
  <2>. QED BY <1>1, <2>3 DEF OriginAfter, VarsAfter, ValsAfter, v, s
<1>2. CASE inst.op = "load"
  <2>1. ApplyTransfer(st, inst) = [st EXCEPT !.vals[inst.dest] = st.vars[inst.name], !.origin[inst.dest] = inst.name]
        /\ ~Touched(s, inst)
    BY <1>2 DEF ApplyTransfer, Touched
  <2>2. inst.name \in Names /\ inst.name \in Origins
    BY <1>2 DEF InstOK, Origins
  <2>3. st.vars[inst.name] \in Counted
    BY <2>2 DEF State
  <2> DEFINE new == st.vars[inst.name]
  <2>4. st = [vars |-> st.vars, vals |-> st.vals, origin |-> st.origin]
    BY DEF State
  <2>5. ApplyTransfer(st, inst) = [vars |-> st.vars, vals |-> [st.vals EXCEPT ![inst.dest] = new],
                                   origin |-> [st.origin EXCEPT ![inst.dest] = inst.name]]
    BY <2>1, <2>4
  <2>6. /\ [st.vals EXCEPT ![inst.dest] = new] \in [Values -> Counted]
        /\ [st.origin EXCEPT ![inst.dest] = inst.name] \in [Values -> Origins]
    <3>. HIDE DEF new
    <3>. QED BY <2>2, <2>3 DEF State, new
  <2>7. ApplyTransfer(st, inst) \in State
    BY <2>5, <2>6 DEF State
  <2>8. /\ ApplyTransfer(st, inst).vars = st.vars
        /\ ApplyTransfer(st, inst).vals = [st.vals EXCEPT ![inst.dest] = new]
        /\ ApplyTransfer(st, inst).origin = [st.origin EXCEPT ![inst.dest] = inst.name]
    BY <2>5
  <2>9. ~Hits(st, inst) /\ inst.op # "assign" /\ inst.op \notin {"assign", "setfield"}
    BY <1>2, <2>1 DEF Hits, s
  <2>. QED BY <1>2, <2>7, <2>8, <2>9 DEF OriginAfter, VarsAfter, ValsAfter
<1>3. CASE inst.op = "setfield"
  <2>1. ApplyTransfer(st, inst) = st /\ ~Touched(s, inst)
    BY <1>3 DEF ApplyTransfer, Touched
  <2>2. ~Hits(st, inst)
    BY <2>1 DEF Hits
  <2>. QED BY <1>3, <2>1, <2>2 DEF OriginAfter, VarsAfter, ValsAfter
<1>4. CASE inst.op \notin {"assign", "load", "setfield"}
  <2>1. ApplyTransfer(st, inst) = last
    <3>1. CASE inst.op = "call"
      <4>1. ApplyTransfer(st, inst) = [Passed(st, inst).st EXCEPT !.vals[inst.dest] = Owned]
        BY <3>1 DEF ApplyTransfer
      <4>2. Passed(st, inst).st = mid
        BY <3>1, PassedIs DEF Passed
      <4>. QED BY <4>1, <4>2
    <3>2. CASE inst.op = "method" /\ inst.name = "view"
      <4>1. inst.args # <<>> /\ Touched(s, inst) /\ Given(s, inst) = Borrow(s, "method_view")
        BY <3>2 DEF InstOK, Touched, Given
      <4>. QED BY <3>2, <4>1 DEF ApplyTransfer
    <3>3. CASE inst.op # "call" /\ ~(inst.op = "method" /\ inst.name = "view")
      <4>1. ~Touched(s, inst)
        BY <3>3 DEF Touched
      <4>. QED BY <1>4, <3>3, <4>1 DEF ApplyTransfer
    <3>. QED BY <3>1, <3>2, <3>3
  <2>2. /\ mid \in State
        /\ mid.origin = st.origin
        /\ mid.vals = IF hit THEN [st.vals EXCEPT ![v] = Given(s, inst)] ELSE st.vals
        /\ mid.vars = IF hit /\ st.origin[v] # "none" THEN [st.vars EXCEPT ![st.origin[v]] = Given(s, inst)]
                      ELSE st.vars
    <3>. HIDE DEF v, s
    <3>1. CASE hit
      <4>1. v \in Values /\ Given(s, inst) \in Counted
        BY <1>0, <3>1, GivenCounted
      <4>. QED BY <3>1, <4>1, SetBothParts
    <3>. QED BY <3>1
  <2>. HIDE DEF mid, hit, v, s
  <2>3. /\ last \in State /\ last.origin = mid.origin /\ last.vars = mid.vars
        /\ last.vals = [mid.vals EXCEPT ![inst.dest] = Owned]
    BY <2>2, PlainCounted DEF State
  <2>4. /\ hit <=> Hits(st, inst)
        /\ v = inst.args[1] /\ Given(s, inst) = Gives(st, inst)
    BY DEF hit, v, s, Hits, Gives
  <2>5. mid.vals = PassedVals(st, inst)
    BY <2>2, <2>4 DEF PassedVals
  <2>6. last.vals = ValsAfter(st, inst)
    BY <1>4, <2>3, <2>5 DEF ValsAfter
  <2>7. last.vars = VarsAfter(st, inst)
    BY <1>4, <2>2, <2>3, <2>4 DEF VarsAfter
  <2>8. last.origin = OriginAfter(st, inst)
    BY <1>4, <2>2, <2>3 DEF OriginAfter
  <2>. QED BY <2>1, <2>3, <2>6, <2>7, <2>8
<1>. QED BY <1>1, <1>2, <1>3, <1>4

(* ------------------------------- one block ------------------------------- *)

LEMMA TheFunction ==
  ASSUME func \in Functions
  PROVE  /\ WellFormed(func) /\ LoadsAreFresh(func)
         /\ Len(func) \in Nat /\ Len(func) > 0 /\ DOMAIN func = 1..Len(func)
         /\ MaxValue(func) \in Nat
         /\ \A b \in DOMAIN func :
              /\ func[b] \in [params : Seq(Nat), insts : Seq(Instructions), term : Terminators]
              /\ Len(func[b].insts) \in Nat /\ DOMAIN func[b].insts = 1..Len(func[b].insts)
              /\ TermUses(func[b].term) \subseteq Values
              /\ \A i \in DOMAIN func[b].insts : InstOK(func[b].insts[i])
<1>1. WellFormed(func) /\ LoadsAreFresh(func)
  BY BorrowAssumption
<1>2. func \in Seq([params : Seq(Nat), insts : Seq(Instructions), term : Terminators]) /\ func # <<>>
  BY <1>1 DEF WellFormed
<1>3. Len(func) \in Nat /\ Len(func) > 0 /\ DOMAIN func = 1..Len(func)
  BY <1>2
<1>4. ASSUME NEW b \in DOMAIN func
      PROVE  /\ func[b] \in [params : Seq(Nat), insts : Seq(Instructions), term : Terminators]
             /\ func[b].insts \in Seq(Instructions)
             /\ Len(func[b].insts) \in Nat /\ DOMAIN func[b].insts = 1..Len(func[b].insts)
  <2> DEFINE B == [params : Seq(Nat), insts : Seq(Instructions), term : Terminators]
  <2>1. func[b] \in B
    <3>1. func \in Seq(B)
      BY <1>2
    <3>. HIDE DEF B
    <3>. QED BY <3>1
  <2>2. func[b].insts \in Seq(Instructions)
    BY <2>1
  <2>. QED BY <2>1, <2>2
<1>5. ASSUME NEW b \in DOMAIN func, NEW i \in DOMAIN func[b].insts
      PROVE  InstOK(func[b].insts[i])
  <2>1. func[b].insts[i] \in Instructions
    BY <1>4
  <2>. QED BY <1>1, <2>1 DEF WellFormed, InstOK, Values
<1>6. MaxValue(func) \in Nat /\ \A b \in DOMAIN func : TermUses(func[b].term) \subseteq Values
  BY <1>1 DEF WellFormed, Values
<1>. QED BY <1>1, <1>3, <1>4, <1>5, <1>6

\* The origin of a value is the variable of one of its loads.
OriginsOf(st) ==
    \A v \in Values : st.origin[v] # "none" => \E p \in Loads(func, v) : Named(func, p) = st.origin[v]

LEMMA OriginStep ==
  ASSUME func \in Functions, NEW b \in DOMAIN func, NEW i \in DOMAIN func[b].insts,
         NEW st \in State, OriginsOf(st)
  PROVE  OriginsOf(ApplyTransfer(st, func[b].insts[i]))
<1> DEFINE inst == func[b].insts[i]
           t == ApplyTransfer(st, inst)
<1>1. InstOK(inst)
  BY TheFunction
<1>2. t.origin = OriginAfter(st, inst) /\ t \in State
  <2>. HIDE DEF inst
  <2>. QED BY <1>1, Transfer
<1>3. ASSUME inst.op = "load" PROVE <<b, i>> \in Loads(func, inst.dest) /\ Named(func, <<b, i>>) = inst.name
  BY <1>3 DEF Loads, Named
<1>4. ASSUME NEW v \in Values, t.origin[v] # "none"
      PROVE  \E p \in Loads(func, v) : Named(func, p) = t.origin[v]
  <2>. HIDE DEF inst, t
  <2>1. CASE inst.op = "load" /\ v = inst.dest
    <3>1. t.origin[v] = inst.name
      BY <1>2, <2>1 DEF OriginAfter, State
    <3>. QED BY <1>3, <2>1, <3>1
  <2>2. CASE ~(inst.op = "load" /\ v = inst.dest)
    <3>1. t.origin[v] = st.origin[v]
      BY <1>2, <2>2 DEF OriginAfter, State
    <3>. QED BY <1>4, <3>1 DEF OriginsOf
  <2>. QED BY <2>1, <2>2
<1>. QED BY <1>4 DEF OriginsOf

\* Every state within a block is one.
LEMMA Along ==
  ASSUME func \in Functions, NEW b \in DOMAIN func, NEW st \in State, OriginsOf(st)
  PROVE  /\ \A i \in 1..Past(b) :
              /\ StateBefore(st, func[b].insts, i) \in State
              /\ OriginsOf(StateBefore(st, func[b].insts, i))
         /\ StateAfter(st, func[b].insts) \in State
         /\ OriginsOf(StateAfter(st, func[b].insts))
<1> DEFINE insts == func[b].insts
           n == Len(insts)
           at1(k) == StateBefore(st, insts, k + 1)
           S == {k \in 0..n : at1(k) \in State /\ OriginsOf(at1(k))}
<1>0. n \in Nat /\ DOMAIN insts = 1..n
  BY TheFunction
<1>1. /\ StateBefore(st, insts, 1) = st
      /\ \A i \in 1..n : StateBefore(st, insts, i + 1) = ApplyTransfer(StateBefore(st, insts, i), insts[i])
      /\ StateAfter(st, insts) = StateBefore(st, insts, n + 1)
  <2>. HIDE DEF insts
  <2>. QED BY <1>0, StatesStep
<1>2. 0 \in S
  BY <1>0, <1>1
<1>3. ASSUME NEW k \in 1..n, k - 1 \in S PROVE k \in S
  <2>1. at1(k) = ApplyTransfer(at1(k - 1), insts[k])
    BY <1>0, <1>1
  <2>2. at1(k - 1) \in State /\ OriginsOf(at1(k - 1)) /\ InstOK(insts[k])
    BY <1>0, <1>3, TheFunction
  <2>3. ApplyTransfer(at1(k - 1), insts[k]) \in State
    <3>. HIDE DEF at1, insts
    <3>. QED BY <2>2, Transfer
  <2>4. OriginsOf(ApplyTransfer(at1(k - 1), insts[k]))
    <3>. HIDE DEF at1
    <3>. QED BY <1>0, <2>2, OriginStep
  <2>. HIDE DEF at1, insts
  <2>. QED BY <1>0, <2>1, <2>3, <2>4
<1>4. \A k \in 0..n : k \in S
  <2>. HIDE DEF S, n
  <2>. QED BY <1>0, <1>2, <1>3, Climb
<1>5. \A i \in 1..(n + 1) : at1(i - 1) \in State /\ OriginsOf(at1(i - 1)) /\ at1(i - 1) = StateBefore(st, insts, i)
  BY <1>0, <1>4
<1>. HIDE DEF n, insts, at1
<1>. QED BY <1>0, <1>1, <1>5 DEF Past, insts, n

LEMMA BlockStates ==
  ASSUME func \in Functions, NEW b \in DOMAIN func, NEW st
  PROVE  /\ StateBefore(st, func[b].insts, 1) = st
         /\ StateAfter(st, func[b].insts) = StateBefore(st, func[b].insts, Past(b))
         /\ \A i \in DOMAIN func[b].insts :
              StateBefore(st, func[b].insts, i + 1)
                = ApplyTransfer(StateBefore(st, func[b].insts, i), func[b].insts[i])
<1> DEFINE insts == func[b].insts
<1>1. Len(insts) \in Nat /\ DOMAIN insts = 1..Len(insts) /\ Past(b) = Len(insts) + 1
  BY TheFunction DEF Past
<1>2. /\ StateBefore(st, insts, 1) = st
      /\ \A i \in 1..Len(insts) : StateBefore(st, insts, i + 1) = ApplyTransfer(StateBefore(st, insts, i), insts[i])
      /\ StateAfter(st, insts) = StateBefore(st, insts, Len(insts) + 1)
  <2>. HIDE DEF insts
  <2>. QED BY <1>1, StatesStep
<1>. HIDE DEF insts
<1>. QED BY <1>1, <1>2 DEF insts

LEMMA NextState ==
  ASSUME func \in Functions, NEW b \in DOMAIN func, NEW st, NEW i \in DOMAIN func[b].insts
  PROVE  StateBefore(st, func[b].insts, i + 1)
           = ApplyTransfer(StateBefore(st, func[b].insts, i), func[b].insts[i])
<1>1. /\ StateBefore(st, func[b].insts, 1) = st
      /\ StateAfter(st, func[b].insts) = StateBefore(st, func[b].insts, Past(b))
      /\ \A k \in DOMAIN func[b].insts :
              StateBefore(st, func[b].insts, k + 1)
                = ApplyTransfer(StateBefore(st, func[b].insts, k), func[b].insts[k])
  BY BlockStates
<1>. QED BY <1>1

\* The values that instruction i of block b uses, or its terminator.
UsesAt(b, i) == IF i = Past(b) THEN TermUses(func[b].term) ELSE InstUses(func[b].insts[i])

\* An instruction that leaves a loaded value and its variable alone.
LEMMA StepAside ==
  ASSUME func \in Functions, NEW st \in State, OriginsOf(st), NEW b \in DOMAIN func,
         NEW l \in DOMAIN func[b].insts, NEW x \in Names, NEW v \in Values,
         Loads(func, v) # {}, \A p \in Loads(func, v) : Named(func, p) = x,
         LeavesAlone(func, b, l, x, v)
  PROVE  LET t == ApplyTransfer(st, func[b].insts[l])
         IN  t.vars[x] = st.vars[x] /\ t.vals[v] = st.vals[v] /\ t.origin[v] = st.origin[v]
<1> DEFINE inst == func[b].insts[l]
           a == inst.args[1]
           t == ApplyTransfer(st, inst)
<1>1. InstOK(inst)
  BY TheFunction
<1>2. /\ inst.op = "assign" => inst.name # x
      /\ inst.dest # v
      /\ inst.op \in {"call", "method"} /\ inst.args # <<>> =>
            \A p \in Loads(func, a) : Named(func, p) # x
  BY DEF LeavesAlone
<1>3. ASSUME Hits(st, inst)
      PROVE  a \in Values /\ a # v /\ st.origin[a] # x /\ inst.op # "assign"
  <2>1. inst.op \in {"call", "method"} /\ inst.args # <<>>
    BY <1>3 DEF Hits, Touched
  <2>2. a \in Values
    BY <1>1, <2>1 DEF InstOK, Instructions, InstUses
  <2>3. a # v
    <3>. HIDE DEF a
    <3>. QED BY <1>2, <2>1
  <2>4. st.origin[a] # "none" => st.origin[a] # x
    <3>. HIDE DEF a, inst
    <3>. QED BY <1>2, <2>1, <2>2 DEF OriginsOf
  <2>5. "none" # x
    BY BorrowAssumption
  <2>. QED BY <2>1, <2>2, <2>3, <2>4, <2>5
<1>4. /\ t.origin = OriginAfter(st, inst)
      /\ t.vars = VarsAfter(st, inst)
      /\ t.vals = ValsAfter(st, inst)
  <2>. HIDE DEF inst
  <2>. QED BY <1>1, Transfer
<1>. HIDE DEF inst, t
<1>5. t.origin[v] = st.origin[v]
  BY <1>2, <1>4 DEF OriginAfter, State
<1>6. t.vars[x] = st.vars[x]
  <2>1. CASE inst.op = "assign"
    BY <1>2, <1>4, <2>1 DEF VarsAfter, State
  <2>2. CASE inst.op # "assign" /\ Hits(st, inst)
    BY <1>3, <1>4, <2>2 DEF VarsAfter, State, a
  <2>3. CASE inst.op # "assign" /\ ~Hits(st, inst)
    BY <1>4, <2>3 DEF VarsAfter
  <2>. QED BY <2>1, <2>2, <2>3
<1>7. t.vals[v] = st.vals[v]
  <2>1. PassedVals(st, inst)[v] = st.vals[v]
    BY <1>3 DEF PassedVals, State, a
  <2>2. DOMAIN PassedVals(st, inst) = Values
    BY DEF PassedVals, State
  <2>3. [PassedVals(st, inst) EXCEPT ![inst.dest] = Owned][v] = st.vals[v]
    BY <1>2, <2>1, <2>2
  <2>4. [st.vals EXCEPT ![inst.dest] = st.vars[inst.name]][v] = st.vals[v]
    BY <1>2 DEF State
  <2>. QED BY <1>4, <2>3, <2>4 DEF ValsAfter
<1>. QED BY <1>5, <1>6, <1>7 DEF t, inst

\* At its use a loaded value still is its variable, as it was at the load.
LEMMA UseIsFresh ==
  ASSUME func \in Functions, NEW b \in DOMAIN func, NEW st \in State, OriginsOf(st),
         NEW n \in 1..Past(b), NEW v \in UsesAt(b, n), Loads(func, v) # {}
  PROVE  \E m \in 1..(n - 1) :
           LET then == StateBefore(st, func[b].insts, m)
               now  == StateBefore(st, func[b].insts, n)
               x    == func[b].insts[m].name
           IN  /\ Loads(func, v) = {<<b, m>>} /\ v \in Values /\ x \in Names
               /\ m \in DOMAIN func[b].insts
               /\ func[b].insts[m].op = "load" /\ func[b].insts[m].dest = v
               /\ now.origin[v] = x
               /\ now.vals[v] = then.vars[x] /\ now.vars[x] = then.vars[x]
<1> DEFINE insts == func[b].insts
           size == Len(insts)
           at1(k) == StateBefore(st, insts, k)
<1>0. size \in Nat /\ DOMAIN insts = 1..size /\ Past(b) = size + 1 /\ n \in 1..(size + 1)
  BY TheFunction DEF Past
<1>1. v \in Values
  <2>1. CASE n = Past(b)
    BY <2>1, TheFunction DEF UsesAt
  <2>2. CASE n # Past(b)
    <3>1. n \in DOMAIN insts /\ v \in InstUses(insts[n])
      BY <1>0, <2>2 DEF UsesAt
    <3>. QED BY <3>1, TheFunction DEF InstOK
  <2>. QED BY <2>1, <2>2
<1>c. PICK c \in DOMAIN func : \E k \in DOMAIN func[c].insts :
         func[c].insts[k].op = "load" /\ func[c].insts[k].dest = v
  BY DEF Loads
<1>2. PICK m \in DOMAIN func[c].insts :
         func[c].insts[m].op = "load" /\ func[c].insts[m].dest = v
  BY <1>c
<1>3. /\ Loads(func, v) = {<<c, m>>}
      /\ c = b /\ m < n
      /\ \A l \in (m + 1)..(n - 1) : LeavesAlone(func, b, l, func[c].insts[m].name, v)
  <2> DEFINE x == func[c].insts[m].name
             Fresh(d, k) == d = c /\ m < k /\ \A l \in (m+1)..(k-1) : LeavesAlone(func, c, l, x, v)
  <2>1. LoadsAreFresh(func)
    BY TheFunction
  <2>2. /\ Loads(func, v) = {<<c, m>>}
        /\ \A d \in DOMAIN func :
             /\ \A k \in DOMAIN func[d].insts : v \in InstUses(func[d].insts[k]) => Fresh(d, k)
             /\ v \in TermUses(func[d].term) => Fresh(d, Len(func[d].insts) + 1)
    BY <1>2, <2>1, Zenon DEF LoadsAreFresh
  <2>3. Fresh(b, n)
    <3>1. CASE n = Past(b)
      BY <2>2, <3>1 DEF UsesAt, Past
    <3>2. CASE n # Past(b)
      BY <1>0, <2>2, <3>2 DEF UsesAt
    <3>. QED BY <3>1, <3>2
  <2>. QED BY <2>2, <2>3
<1> DEFINE x == insts[m].name
           s0 == at1(m).vars[x]
<1>4. m \in DOMAIN insts /\ m \in 1..(n - 1) /\ insts[m].op = "load" /\ insts[m].dest = v
  BY <1>0, <1>2, <1>3
<1>5. InstOK(insts[m]) /\ x \in Names
  BY <1>4, TheFunction DEF InstOK
<1>6. \A p \in Loads(func, v) : Named(func, p) = x
  BY <1>3 DEF Named
<1>7. \A i \in 1..(size + 1) : at1(i) \in State /\ OriginsOf(at1(i))
  BY <1>0, Along
<1>8. \A i \in 1..size : at1(i + 1) = ApplyTransfer(at1(i), insts[i])
  <2>1. /\ \A i \in 1..size : StateBefore(st, insts, i + 1) = ApplyTransfer(StateBefore(st, insts, i), insts[i])
        /\ StateAfter(st, insts) = StateBefore(st, insts, size + 1)
    <3>. HIDE DEF insts
    <3>. QED BY <1>0, StatesStep
  <2>. QED BY <2>1
<1> DEFINE Good(s) == s.origin[v] = x /\ s.vals[v] = s0 /\ s.vars[x] = s0
           S == {k \in 0..(n - m - 1) : Good(at1(m + 1 + k))}
<1>9. 0 \in S
  <2> DEFINE s == at1(m)
             inst == insts[m]
  <2>1. at1(m + 1) = ApplyTransfer(s, inst) /\ s \in State
    BY <1>0, <1>4, <1>7, <1>8
  <2>. HIDE DEF s, inst
  <2>2. /\ ApplyTransfer(s, inst).origin = OriginAfter(s, inst)
        /\ ApplyTransfer(s, inst).vars = VarsAfter(s, inst)
        /\ ApplyTransfer(s, inst).vals = ValsAfter(s, inst)
    BY <1>5, <2>1, Transfer DEF inst
  <2>3. inst.op = "load" /\ inst.dest = v /\ inst.name = x /\ ~Hits(s, inst)
    BY <1>4 DEF inst, Hits, Touched
  <2>4. OriginAfter(s, inst) = [s.origin EXCEPT ![v] = x] /\ VarsAfter(s, inst) = s.vars
        /\ ValsAfter(s, inst) = [s.vals EXCEPT ![v] = s.vars[x]]
    BY <2>3 DEF OriginAfter, VarsAfter, ValsAfter
  <2>5. Good(ApplyTransfer(s, inst))
    <3>. HIDE DEF x, at1
    <3>. QED BY <1>1, <2>1, <2>2, <2>4 DEF State, s
  <2>. HIDE DEF Good, at1
  <2>. QED BY <1>0, <1>4, <2>1, <2>5
<1>10. ASSUME NEW k \in 1..(n - m - 1), k - 1 \in S PROVE k \in S
  <2> DEFINE l == m + k
  <2>1. l \in (m + 1)..(n - 1) /\ l \in DOMAIN insts /\ l + 1 = m + 1 + k /\ m + 1 + (k - 1) = l
    <3>1. n \in Nat /\ m \in Nat /\ n <= size + 1 /\ m >= 1
      BY <1>0, <1>4
    <3>. HIDE DEF S, insts, size
    <3>. QED BY <1>0, <3>1
  <2>2. Good(at1(l)) /\ at1(l) \in State /\ OriginsOf(at1(l)) /\ at1(l + 1) = ApplyTransfer(at1(l), insts[l])
    <3>. HIDE DEF Good, at1
    <3>. QED BY <1>0, <1>7, <1>8, <1>10, <2>1
  <2>3. LeavesAlone(func, b, l, x, v)
    BY <1>3, <2>1
  <2>4. LET t == ApplyTransfer(at1(l), insts[l])
        IN  t.vars[x] = at1(l).vars[x] /\ t.vals[v] = at1(l).vals[v] /\ t.origin[v] = at1(l).origin[v]
    <3>. HIDE DEF at1, l, x
    <3>. QED BY <1>1, <1>5, <1>6, <2>1, <2>2, <2>3, StepAside
  <2>5. Good(at1(l + 1))
    <3>. HIDE DEF at1, l, x, s0, insts
    <3>. QED BY <2>2, <2>4
  <2>. HIDE DEF Good, at1
  <2>. QED BY <2>1, <2>5
<1>11. n - m - 1 \in S
  <2>1. n - m - 1 \in Nat
    BY <1>0, <1>4
  <2> DEFINE top == n - m - 1
  <2>2. \A k \in 0..top : k \in S
    <3>. HIDE DEF S, top
    <3>. QED BY <1>9, <1>10, <2>1, Climb DEF top
  <2>. QED BY <2>1, <2>2
<1>12. Good(at1(n))
  <2>1. m + 1 + (n - m - 1) = n
    BY <1>0, <1>4
  <2>. HIDE DEF Good, at1
  <2>. QED BY <1>11, <2>1
<1>. QED BY <1>1, <1>3, <1>4, <1>5, <1>12

(* ------------------------- what a path has moved ------------------------- *)

MayBeMoved(s) == s.base \in {"moved", "unknown"}

\* The variable that value v holds before instruction n of block b.
SourceOf(b, n, v) ==
    LET loads == {m \in 1..(n-1) : func[b].insts[m].op = "load" /\ func[b].insts[m].dest = v}
    IN  IF loads = {} THEN "none" ELSE func[b].insts[CHOOSE m \in loads : TRUE].name

\* The analysis has the same variable for it, and for both the same state, which the
\* load has seen.
LEMMA SourceIsOrigin ==
  ASSUME func \in Functions, NEW b \in DOMAIN func, NEW st \in State, OriginsOf(st),
         NEW n \in 1..Past(b), NEW v \in UsesAt(b, n)
  PROVE  LET now == StateBefore(st, func[b].insts, n)
             x   == SourceOf(b, n, v)
         IN  /\ v \in Values
             /\ now.origin[v] = x
             /\ x # "none" =>
                  /\ x \in Names /\ now.vals[v] = now.vars[x]
                  /\ \E m \in DOMAIN func[b].insts :
                       /\ func[b].insts[m].op = "load" /\ func[b].insts[m].name = x
                       /\ now.vals[v] = StateBefore(st, func[b].insts, m).vars[x]
<1> DEFINE insts == func[b].insts
           now == StateBefore(st, insts, n)
           loads == {m \in 1..(n-1) : insts[m].op = "load" /\ insts[m].dest = v}
<1>0. Len(insts) \in Nat /\ DOMAIN insts = 1..Len(insts) /\ Past(b) = Len(insts) + 1 /\ n \in 1..(Len(insts) + 1)
  BY TheFunction DEF Past
<1>1. v \in Values
  <2>1. CASE n = Past(b)
    BY <2>1, TheFunction DEF UsesAt
  <2>2. CASE n # Past(b)
    <3>1. n \in DOMAIN insts /\ v \in InstUses(insts[n])
      BY <1>0, <2>2 DEF UsesAt
    <3>. QED BY <3>1, TheFunction DEF InstOK
  <2>. QED BY <2>1, <2>2
<1>2. OriginsOf(now)
  BY Along
<1>3. loads \subseteq DOMAIN insts /\ \A m \in loads : <<b, m>> \in Loads(func, v)
  <2>1. loads \subseteq DOMAIN insts
    BY <1>0
  <2>. QED BY <2>1 DEF Loads
<1>4. CASE Loads(func, v) = {}
  <2>1. SourceOf(b, n, v) = "none"
    BY <1>3, <1>4 DEF SourceOf
  <2>2. now.origin[v] = "none"
    <3>. HIDE DEF now
    <3>. QED BY <1>1, <1>2, <1>4 DEF OriginsOf
  <2>. QED BY <1>1, <2>1, <2>2
<1>5. CASE Loads(func, v) # {}
  <2>1. PICK m \in 1..(n - 1) :
          /\ Loads(func, v) = {<<b, m>>} /\ v \in Values /\ insts[m].name \in Names
          /\ m \in DOMAIN insts
          /\ insts[m].op = "load" /\ insts[m].dest = v
          /\ now.origin[v] = insts[m].name
          /\ now.vals[v] = StateBefore(st, insts, m).vars[insts[m].name]
          /\ now.vars[insts[m].name] = StateBefore(st, insts, m).vars[insts[m].name]
    BY <1>5, UseIsFresh
  <2>2. m \in loads /\ \A k \in loads : k = m
    BY <1>3, <2>1
  <2>3. SourceOf(b, n, v) = insts[m].name
    <3>1. (CHOOSE k \in loads : TRUE) = m
      BY <2>2
    <3>. QED BY <2>2, <3>1 DEF SourceOf
  <2>. HIDE DEF now, loads
  <2>. QED BY <1>1, <2>1, <2>3 DEF now
<1>. QED BY <1>4, <1>5

(* A load of a variable that is moved for certain is an error: in an accepted block no
   value that was loaded is moved at its use, whatever the instructions in between. *)
THEOREM LoadedIsNotMoved ==
  ASSUME func \in Functions, NEW b \in DOMAIN func, NEW st \in State, OriginsOf(st),
         NEW n \in 1..Past(b), NEW v \in UsesAt(b, n), SourceOf(b, n, v) # "none",
         \A m \in DOMAIN func[b].insts :
            Errors(StateBefore(st, func[b].insts, m), func[b].insts[m]) = {}
  PROVE  StateBefore(st, func[b].insts, n).vals[v].base # "moved"
<1> DEFINE now == StateBefore(st, func[b].insts, n)
           x   == SourceOf(b, n, v)
<1>1. PICK m \in DOMAIN func[b].insts :
         /\ func[b].insts[m].op = "load" /\ func[b].insts[m].name = x
         /\ now.vals[v] = StateBefore(st, func[b].insts, m).vars[x]
  <2>. HIDE DEF x, now
  <2>. QED BY SourceIsOrigin DEF x, now
<1> DEFINE then == StateBefore(st, func[b].insts, m)
           inst == func[b].insts[m]
<1>2. Errors(then, inst) = {} /\ inst.op = "load"
  BY <1>1
<1>. HIDE DEF then, inst
<1>3. then.vars[inst.name].base # "moved"
  BY <1>2 DEF Errors
<1>. QED BY <1>1, <1>3 DEF then, inst

\* What an instruction does to the variables of the program.
LiveAfter(held, inst, x) ==
    CASE inst.op = "assign" -> [held EXCEPT ![inst.name] = IF x = "none" THEN "live" ELSE held[x]]
      [] inst.op = "call" /\ Mode(inst.name) = "owned" /\ x # "none" -> [held EXCEPT ![x] = "moved"]
      [] OTHER -> held

MovesKnown(held, st) == \A x \in Names : held[x] = "moved" => MayBeMoved(st.vars[x])

LEMMA MoveIsSeen ==
  ASSUME func \in Functions, NEW b \in DOMAIN func, NEW st \in State, OriginsOf(st),
         NEW i \in DOMAIN func[b].insts,
         Errors(StateBefore(st, func[b].insts, i), func[b].insts[i]) = {},
         NEW held, DOMAIN held = Names, MovesKnown(held, StateBefore(st, func[b].insts, i)),
         NEW x, x = IF func[b].insts[i].args = <<>> THEN "none"
                    ELSE SourceOf(b, i, func[b].insts[i].args[1])
  PROVE  /\ MovesKnown(LiveAfter(held, func[b].insts[i], x), StateBefore(st, func[b].insts, i + 1))
         /\ DOMAIN LiveAfter(held, func[b].insts[i], x) = Names
<1> DEFINE inst == func[b].insts[i]
           now == StateBefore(st, func[b].insts, i)
           next == StateBefore(st, func[b].insts, i + 1)
           v == inst.args[1]
           s == now.vals[v]
<1>0. Len(func[b].insts) \in Nat /\ i \in 1..Len(func[b].insts) /\ i \in 1..Past(b) /\ i # Past(b)
  BY TheFunction DEF Past
<1>1. InstOK(inst) /\ now \in State
  BY <1>0, TheFunction, Along
<1>2. next = ApplyTransfer(now, inst)
  BY NextState, Zenon
<1>3. ASSUME inst.args # <<>>
      PROVE  /\ v \in Values /\ s \in Counted /\ now.origin[v] = x
             /\ x # "none" => x \in Names /\ s = now.vars[x]
  <2>1. v \in InstUses(inst) /\ v \in UsesAt(b, i)
    <3>1. 1 \in DOMAIN inst.args
      BY <1>1, <1>3 DEF InstOK, Instructions
    <3>2. InstUses(inst) = UsesAt(b, i)
      BY <1>0 DEF UsesAt
    <3>3. v \in InstUses(inst)
      <4>. HIDE DEF inst
      <4>. QED BY <3>1 DEF InstUses
    <3>. HIDE DEF v, inst
    <3>. QED BY <3>2, <3>3
  <2>2. x = SourceOf(b, i, v)
    BY <1>3
  <2>3. /\ v \in Values
        /\ now.origin[v] = SourceOf(b, i, v)
        /\ SourceOf(b, i, v) # "none" => SourceOf(b, i, v) \in Names /\ s = now.vars[SourceOf(b, i, v)]
    <3>. HIDE DEF v
    <3>. QED BY <1>0, <2>1, SourceIsOrigin
  <2>4. s \in Counted
    <3>. HIDE DEF now, v
    <3>. QED BY <1>1, <2>3 DEF State
  <2>. HIDE DEF v, s, now
  <2>. QED BY <2>2, <2>3, <2>4
<1>. HIDE DEF now, inst
<1>4. next.vars = VarsAfter(now, inst)
  BY <1>1, <1>2, Transfer
<1>5. Errors(now, inst) = {} /\ MovesKnown(held, now)
  BY DEF now, inst
<1>6. inst.args = <<>> => x = "none"
  BY DEF inst
<1>. HIDE DEF v, s, next
<1>7. CASE inst.op = "assign"
  <2>1. inst.args # <<>> /\ inst.name \in Names
    BY <1>1, <1>7 DEF InstOK
  <2>2. next.vars = [now.vars EXCEPT ![inst.name] = s]
    BY <1>4, <1>7 DEF VarsAfter, v, s
  <2>3. LiveAfter(held, inst, x) = [held EXCEPT ![inst.name] = IF x = "none" THEN "live" ELSE held[x]]
    BY <1>7 DEF LiveAfter
  <2>4. x # "none" => (held[x] = "moved" => MayBeMoved(s))
    BY <1>3, <1>5, <2>1 DEF MovesKnown
  <2>5. now.vars \in [Names -> Counted]
    BY <1>1 DEF State
  <2>6. ASSUME NEW y \in Names, LiveAfter(held, inst, x)[y] = "moved" PROVE MayBeMoved(next.vars[y])
    <3>1. CASE y = inst.name
      <4>1. next.vars[y] = s
        BY <2>2, <2>5, <3>1
      <4>2. x # "none" /\ held[x] = "moved"
        BY <2>3, <2>6, <3>1
      <4>. QED BY <2>4, <4>1, <4>2
    <3>2. CASE y # inst.name
      <4>1. next.vars[y] = now.vars[y] /\ held[y] = "moved"
        BY <2>2, <2>3, <2>5, <2>6, <3>2
      <4>. QED BY <1>5, <4>1 DEF MovesKnown
    <3>. QED BY <3>1, <3>2
  <2>. QED BY <2>3, <2>6 DEF MovesKnown, inst, next
<1>8. CASE inst.op # "assign"
  <2> DEFINE gone == inst.op = "call" /\ Mode(inst.name) = "owned" /\ x # "none"
  <2>1. LiveAfter(held, inst, x) = IF gone THEN [held EXCEPT ![x] = "moved"] ELSE held
    BY <1>8 DEF LiveAfter
  <2>2. next.vars = IF Hits(now, inst) /\ now.origin[v] # "none"
                    THEN [now.vars EXCEPT ![now.origin[v]] = Given(s, inst)] ELSE now.vars
    BY <1>4, <1>8 DEF VarsAfter, Gives, v, s
  <2>3. Hits(now, inst) => inst.args # <<>>
    BY DEF Hits
  <2>4. now.vars \in [Names -> Counted]
    BY <1>1 DEF State
  <2>5. s \in Counted => Given(s, inst) = Moved \/ Given(s, inst).base = s.base
    BY GivenCounted
  <2>6. gone => Hits(now, inst) /\ Given(s, inst) = Moved /\ inst.args # <<>>
    <3>1. SUFFICES ASSUME gone PROVE Hits(now, inst) /\ Given(s, inst) = Moved /\ inst.args # <<>>
      OBVIOUS
    <3>2. inst.args # <<>> /\ s \in Counted
      BY <1>3, <1>6, <3>1
    <3>3. Passed(now, inst).error = "none"
      BY <1>5, <3>1 DEF Errors
    <3>4. Passed(now, inst) = PassArg(now, inst.name, v)
      BY <3>2 DEF Passed, v
    <3>5. s.base # "moved" /\ ~(s.borrows > 0 \/ s.muts > 0)
      BY <3>1, <3>3, <3>4 DEF PassArg, s
    <3>6. s.borrows = 0 /\ s.muts = 0
      BY <3>2, <3>5 DEF Counted, VarStates
    <3>7. Touched(s, inst)
      BY <3>1, <3>2, <3>5, <3>6 DEF Touched, Acts
    <3>8. Hits(now, inst)
      BY <3>2, <3>7 DEF Hits, s, v
    <3>9. Given(s, inst) = Moved
      BY <3>1 DEF Given, Mode
    <3>. QED BY <3>2, <3>8, <3>9
  <2>7. Moved.base = "moved"
    BY DEF Moved, Plain
  <2>8. ASSUME NEW y \in Names, LiveAfter(held, inst, x)[y] = "moved" PROVE MayBeMoved(next.vars[y])
    <3>1. CASE Hits(now, inst) /\ x # "none" /\ y = x
      <4>1. next.vars[y] = Given(s, inst)
        BY <1>3, <2>2, <2>3, <2>4, <3>1
      <4>2. CASE gone
        BY <2>6, <2>7, <4>1, <4>2 DEF MayBeMoved
      <4>3. CASE ~gone
        <5>1. held[y] = "moved"
          BY <2>1, <2>8, <4>3
        <5>2. MayBeMoved(now.vars[y])
          BY <1>5, <5>1 DEF MovesKnown
        <5>3. s = now.vars[y] /\ s \in Counted
          BY <1>3, <2>3, <3>1
        <5>. QED BY <2>5, <2>7, <4>1, <5>2, <5>3 DEF MayBeMoved
      <4>. QED BY <4>2, <4>3
    <3>2. CASE ~(Hits(now, inst) /\ x # "none" /\ y = x)
      <4>1. next.vars[y] = now.vars[y]
        BY <1>3, <2>2, <2>3, <2>4, <3>2
      <4>2. held[y] = "moved"
        BY <2>1, <2>6, <2>8, <3>2
      <4>. QED BY <1>5, <4>1, <4>2 DEF MovesKnown
    <3>. QED BY <3>1, <3>2
  <2>9. DOMAIN LiveAfter(held, inst, x) = Names
    BY <2>1
  <2>. QED BY <2>8, <2>9 DEF MovesKnown, inst, next
<1>. QED BY <1>7, <1>8

(* -------------------------------- narrowing ------------------------------ *)

\* n differs from o only where o may be moved: so n is moved only where o may be.
Closer(n, o) == n = o \/ MayBeMoved(o)
CloserState(n, o) ==
    /\ n.origin = o.origin
    /\ \A x \in Names : Closer(n.vars[x], o.vars[x])
    /\ \A v \in Values : Closer(n.vals[v], o.vals[v])

LEMMA CloserStep ==
  ASSUME func \in Functions, NEW inst, InstOK(inst), NEW n \in State, NEW o \in State, CloserState(n, o),
         \A v \in InstUses(inst) :
            o.origin[v] # "none" => o.origin[v] \in Names /\ o.vals[v] = o.vars[o.origin[v]]
  PROVE  CloserState(ApplyTransfer(n, inst), ApplyTransfer(o, inst))
<1> DEFINE v == inst.args[1]
           x == o.origin[v]
           s == n.vals[v]
           r == o.vals[v]
           nn == ApplyTransfer(n, inst)
           oo == ApplyTransfer(o, inst)
<1>1. /\ nn.origin = OriginAfter(n, inst) /\ oo.origin = OriginAfter(o, inst)
      /\ nn.vars = VarsAfter(n, inst) /\ oo.vars = VarsAfter(o, inst)
      /\ nn.vals = ValsAfter(n, inst) /\ oo.vals = ValsAfter(o, inst)
  BY Transfer
<1>2. /\ n.vars \in [Names -> Counted] /\ o.vars \in [Names -> Counted]
      /\ n.vals \in [Values -> Counted] /\ o.vals \in [Values -> Counted]
      /\ n.origin = o.origin
      /\ \A y \in Names : Closer(n.vars[y], o.vars[y])
      /\ \A w \in Values : Closer(n.vals[w], o.vals[w])
  BY DEF State, CloserState
<1>3. ASSUME inst.args # <<>>
      PROVE  /\ v \in Values /\ s \in Counted /\ r \in Counted /\ Closer(s, r)
             /\ x # "none" => x \in Names /\ r = o.vars[x]
  <2>1. v \in InstUses(inst) /\ v \in Values
    BY <1>3 DEF InstOK, Instructions, InstUses
  <2>2. x # "none" => x \in Names /\ r = o.vars[x]
    <3>. HIDE DEF v
    <3>. QED BY <2>1
  <2>. HIDE DEF v
  <2>. QED BY <1>2, <2>1, <2>2
<1>4. /\ Hits(n, inst) <=> inst.args # <<>> /\ Touched(s, inst)
      /\ Hits(o, inst) <=> inst.args # <<>> /\ Touched(r, inst)
      /\ Gives(n, inst) = Given(s, inst) /\ Gives(o, inst) = Given(r, inst)
  BY DEF Hits, Gives
<1>5. ASSUME inst.args # <<>>, MayBeMoved(r) PROVE MayBeMoved(Given(r, inst))
  <2>1. Given(r, inst) = Moved \/ Given(r, inst).base = r.base
    BY <1>3, <1>5, GivenCounted
  <2>. QED BY <1>5, <2>1 DEF MayBeMoved, Moved, Plain
<1>. HIDE DEF nn, oo, s, r, x, v
<1>6. nn.origin = oo.origin
  BY <1>1, <1>2 DEF OriginAfter
<1>7. ASSUME NEW y \in Names PROVE Closer(nn.vars[y], oo.vars[y])
  <2>0. Closer(n.vars[y], o.vars[y])
    BY <1>2
  <2>1. CASE inst.op = "assign"
    <3>1. inst.args # <<>>
      BY <2>1 DEF InstOK
    <3>2. nn.vars = [n.vars EXCEPT ![inst.name] = s] /\ oo.vars = [o.vars EXCEPT ![inst.name] = r]
      BY <1>1, <2>1 DEF VarsAfter, s, r, v
    <3>. QED BY <1>2, <1>3, <2>0, <3>1, <3>2
  <2>2. CASE inst.op # "assign"
    <3>1. nn.vars = IF Hits(n, inst) /\ x # "none" THEN [n.vars EXCEPT ![x] = Given(s, inst)] ELSE n.vars
      BY <1>1, <1>2, <1>4, <2>2 DEF VarsAfter, x, v
    <3>2. oo.vars = IF Hits(o, inst) /\ x # "none" THEN [o.vars EXCEPT ![x] = Given(r, inst)] ELSE o.vars
      BY <1>1, <1>4, <2>2 DEF VarsAfter, x, v
    <3>3. CASE inst.args # <<>> /\ x = y
      <4>1. x # "none" /\ r = o.vars[y]
        BY <1>3, <3>3, BorrowAssumption
      <4>2. CASE s = r
        <5>1. Hits(n, inst) <=> Hits(o, inst)
          BY <1>4, <4>2
        <5>2. CASE Hits(o, inst)
          BY <1>2, <3>1, <3>2, <3>3, <4>1, <4>2, <5>1, <5>2 DEF Closer
        <5>3. CASE ~Hits(o, inst)
          BY <2>0, <3>1, <3>2, <5>1, <5>3
        <5>. QED BY <5>2, <5>3
      <4>3. CASE MayBeMoved(r)
        <5>1. MayBeMoved(oo.vars[y])
          BY <1>2, <1>5, <3>2, <3>3, <4>1, <4>3
        <5>. QED BY <5>1 DEF Closer
      <4>. QED BY <1>3, <3>3, <4>2, <4>3 DEF Closer
    <3>4. CASE ~(inst.args # <<>> /\ x = y)
      <4>1. nn.vars[y] = n.vars[y] /\ oo.vars[y] = o.vars[y]
        BY <1>2, <1>4, <3>1, <3>2, <3>4
      <4>. QED BY <2>0, <4>1
    <3>. QED BY <3>3, <3>4
  <2>. QED BY <2>1, <2>2
<1>8. ASSUME NEW w \in Values PROVE Closer(nn.vals[w], oo.vals[w])
  <2>0. Closer(n.vals[w], o.vals[w])
    BY <1>2
  <2>1. CASE inst.op \in {"assign", "setfield"}
    BY <1>1, <2>0, <2>1 DEF ValsAfter
  <2>2. CASE inst.op = "load"
    <3>1. nn.vals = [n.vals EXCEPT ![inst.dest] = n.vars[inst.name]]
          /\ oo.vals = [o.vals EXCEPT ![inst.dest] = o.vars[inst.name]]
      BY <1>1, <2>2 DEF ValsAfter
    <3>2. Closer(n.vars[inst.name], o.vars[inst.name])
      BY <1>2, <2>2 DEF InstOK
    <3>. QED BY <1>2, <2>0, <3>1, <3>2
  <2>3. CASE inst.op \notin {"assign", "setfield", "load"}
    <3>1. nn.vals = [PassedVals(n, inst) EXCEPT ![inst.dest] = Owned]
          /\ oo.vals = [PassedVals(o, inst) EXCEPT ![inst.dest] = Owned]
      BY <1>1, <2>3 DEF ValsAfter
    <3>2. /\ PassedVals(n, inst) = IF Hits(n, inst) THEN [n.vals EXCEPT ![v] = Given(s, inst)] ELSE n.vals
          /\ PassedVals(o, inst) = IF Hits(o, inst) THEN [o.vals EXCEPT ![v] = Given(r, inst)] ELSE o.vals
      BY <1>4 DEF PassedVals, v
    <3>3. Closer(PassedVals(n, inst)[w], PassedVals(o, inst)[w])
      <4>1. CASE inst.args # <<>> /\ v = w
        <5>0. n.vals[w] = s /\ o.vals[w] = r
          BY <4>1 DEF s, r
        <5>1. CASE s = r
          BY <1>2, <1>4, <3>2, <4>1, <5>0, <5>1 DEF Closer
        <5>2. CASE MayBeMoved(r)
          <6>1. MayBeMoved(PassedVals(o, inst)[w])
            BY <1>2, <1>5, <3>2, <4>1, <5>0, <5>2
          <6>. QED BY <6>1 DEF Closer
        <5>. QED BY <1>3, <4>1, <5>1, <5>2 DEF Closer
      <4>2. CASE ~(inst.args # <<>> /\ v = w)
        BY <1>2, <1>4, <2>0, <3>2, <4>2
      <4>. QED BY <4>1, <4>2
    <3>4. DOMAIN PassedVals(n, inst) = Values /\ DOMAIN PassedVals(o, inst) = Values
      BY <1>2, <3>2
    <3>5. CASE w = inst.dest
      BY <3>1, <3>4, <3>5 DEF Closer
    <3>6. CASE w # inst.dest
      BY <3>1, <3>3, <3>6
    <3>. QED BY <3>5, <3>6
  <2>. QED BY <2>1, <2>2, <2>3
<1>. QED BY <1>6, <1>7, <1>8 DEF CloserState, nn, oo

LEMMA CloserAlong ==
  ASSUME func \in Functions, NEW b \in DOMAIN func,
         NEW n \in State, NEW o \in State, OriginsOf(n), OriginsOf(o), CloserState(n, o)
  PROVE  CloserState(StateAfter(n, func[b].insts), StateAfter(o, func[b].insts))
<1> DEFINE insts == func[b].insts
           size == Len(insts)
           nn(k) == StateBefore(n, insts, k + 1)
           oo(k) == StateBefore(o, insts, k + 1)
           S == {k \in 0..size : CloserState(nn(k), oo(k))}
<1>0. size \in Nat /\ DOMAIN insts = 1..size /\ Past(b) = size + 1
  BY TheFunction DEF Past
<1>1. /\ nn(0) = n /\ oo(0) = o
      /\ StateAfter(n, insts) = nn(size) /\ StateAfter(o, insts) = oo(size)
  <2>1. StateBefore(n, insts, 1) = n /\ StateAfter(n, insts) = StateBefore(n, insts, size + 1)
    BY <1>0, BlockStates
  <2>2. StateBefore(o, insts, 1) = o /\ StateAfter(o, insts) = StateBefore(o, insts, size + 1)
    BY <1>0, BlockStates
  <2>3. 0 + 1 = 1
    OBVIOUS
  <2>. QED BY <2>1, <2>2, <2>3
<1>2. 0 \in S
  <2>. HIDE DEF nn, oo
  <2>. QED BY <1>0, <1>1
<1>3. ASSUME NEW k \in 1..size, k - 1 \in S PROVE k \in S
  <2>1. k \in DOMAIN insts /\ k \in 1..Past(b) /\ k # Past(b) /\ k - 1 + 1 = k
    BY <1>0
  <2>2. nn(k) = ApplyTransfer(nn(k - 1), insts[k])
    BY <2>1, NextState
  <2>3. oo(k) = ApplyTransfer(oo(k - 1), insts[k])
    BY <2>1, NextState
  <2>4. nn(k - 1) \in State
    BY <2>1, Along
  <2>5. oo(k - 1) \in State
    BY <2>1, Along
  <2>6. InstOK(insts[k])
    BY <2>1, TheFunction
  <2>7. ASSUME NEW v \in InstUses(insts[k]), oo(k - 1).origin[v] # "none"
        PROVE  oo(k - 1).origin[v] \in Names /\ oo(k - 1).vals[v] = oo(k - 1).vars[oo(k - 1).origin[v]]
    <3>1. v \in UsesAt(b, k)
      BY <2>1 DEF UsesAt
    <3>2. LET now == StateBefore(o, func[b].insts, k)
          IN  /\ now.origin[v] = SourceOf(b, k, v)
              /\ SourceOf(b, k, v) # "none" =>
                   SourceOf(b, k, v) \in Names /\ now.vals[v] = now.vars[SourceOf(b, k, v)]
      BY <2>1, <3>1, SourceIsOrigin
    <3>. QED BY <2>1, <2>7, <3>2
  <2>8. CloserState(nn(k - 1), oo(k - 1))
    BY <1>3
  <2>9. CloserState(ApplyTransfer(nn(k - 1), insts[k]), ApplyTransfer(oo(k - 1), insts[k]))
    <3>. HIDE DEF nn, oo, insts
    <3>. QED BY <2>4, <2>5, <2>6, <2>7, <2>8, CloserStep
  <2>. HIDE DEF nn, oo
  <2>. QED BY <2>2, <2>3, <2>9
<1>4. \A k \in 0..size : k \in S
  <2>. HIDE DEF S, size
  <2>. QED BY <1>0, <1>2, <1>3, Climb
<1>5. CloserState(nn(size), oo(size))
  <2>. HIDE DEF nn, oo
  <2>. QED BY <1>0, <1>4
<1>. HIDE DEF nn, oo
<1>. QED BY <1>1, <1>5

(* ---------------------------- joins of blocks ---------------------------- *)

Covers(in, out) == \A x \in Names : MayBeMoved(out.vars[x]) => MayBeMoved(in.vars[x])

LEMMA JoinMayBeMoved ==
  ASSUME NEW s \in Counted, NEW t \in Counted
  PROVE  /\ Join(s, t) \in Counted
         /\ MayBeMoved(s) \/ MayBeMoved(t) => MayBeMoved(Join(s, t))
<1>1. IsFiniteSet(Borrowers)
  BY BorrowAssumption
<1>2. Join(s, t) \in Counted /\ Join(s, t).base = JoinBase(s.base, t.base)
  BY <1>1, JoinCounted, JoinParts
<1>3. s.base \in Bases /\ t.base \in Bases
  BY DEF Counted, VarStates
<1>. QED BY <1>2, <1>3 DEF MayBeMoved, JoinBase, Bases

LEMMA JoinStatesCovers ==
  ASSUME NEW p \in State, NEW q \in State, OriginsOf(p), OriginsOf(q)
  PROVE  /\ JoinStates(p, q) \in State /\ OriginsOf(JoinStates(p, q))
         /\ Covers(JoinStates(p, q), p) /\ Covers(JoinStates(p, q), q)
<1> DEFINE j == JoinStates(p, q)
<1>1. CASE p = q
  <2>1. j = p
    BY <1>1 DEF JoinStates
  <2>. QED BY <1>1, <2>1 DEF Covers
<1>2. CASE p # q
  <2>1. j = [vars   |-> [x \in DOMAIN p.vars |-> Join(p.vars[x], q.vars[x])],
             vals   |-> [v \in DOMAIN p.vals |-> Join(p.vals[v], q.vals[v])],
             origin |-> [v \in DOMAIN p.origin |-> IF p.origin[v] = "none" THEN q.origin[v] ELSE p.origin[v]]]
    BY <1>2 DEF JoinStates
  <2>2. /\ p.vars \in [Names -> Counted] /\ q.vars \in [Names -> Counted]
        /\ p.vals \in [Values -> Counted] /\ q.vals \in [Values -> Counted]
        /\ p.origin \in [Values -> Origins] /\ q.origin \in [Values -> Origins]
    BY DEF State
  <2>. HIDE DEF j
  <2>3. /\ j.vars = [x \in Names |-> Join(p.vars[x], q.vars[x])]
        /\ j.vals = [v \in Values |-> Join(p.vals[v], q.vals[v])]
        /\ j.origin = [v \in Values |-> IF p.origin[v] = "none" THEN q.origin[v] ELSE p.origin[v]]
    BY <2>1, <2>2
  <2>4. ASSUME NEW x \in Names
        PROVE  /\ Join(p.vars[x], q.vars[x]) \in Counted
               /\ MayBeMoved(p.vars[x]) \/ MayBeMoved(q.vars[x]) => MayBeMoved(Join(p.vars[x], q.vars[x]))
    BY <2>2, JoinMayBeMoved
  <2>5. ASSUME NEW v \in Values PROVE Join(p.vals[v], q.vals[v]) \in Counted
    BY <2>2, JoinMayBeMoved
  <2>6. j \in State
    <3>1. j.vars \in [Names -> Counted]
      BY <2>3, <2>4
    <3>2. j.vals \in [Values -> Counted]
      BY <2>3, <2>5
    <3>3. j.origin \in [Values -> Origins]
      BY <2>2, <2>3
    <3>4. j = [vars |-> j.vars, vals |-> j.vals, origin |-> j.origin]
      BY <2>1
    <3>. QED BY <3>1, <3>2, <3>3, <3>4 DEF State
  <2>7. OriginsOf(j)
    BY <2>3 DEF OriginsOf
  <2>8. Covers(j, p) /\ Covers(j, q)
    BY <2>3, <2>4 DEF Covers
  <2>. QED BY <2>6, <2>7, <2>8 DEF j
<1>. QED BY <1>1, <1>2

LEMMA NothingKnown ==
  EmptyState(Names, Values) \in State /\ OriginsOf(EmptyState(Names, Values))
BY PlainCounted DEF EmptyState, State, OriginsOf, Origins

\* A branch passes values only.
LEMMA PassedOnEdge ==
  ASSUME func \in Functions, NEW p \in DOMAIN func, NEW b \in Targets(func, p),
         NEW outs, outs[p] \in State
  PROVE  /\ Transferred(outs, p, b) \in State
         /\ Transferred(outs, p, b).vars = outs[p].vars
         /\ Transferred(outs, p, b).origin = outs[p].origin
<1> DEFINE term == func[p].term
           Is(e) == term.to[e] = b /\ \A d \in 1..(e-1) : term.to[d] # b
           e0 == CHOOSE e \in DOMAIN term.to : Is(e)
           pars == func[b].params
           Slot(v) == {k \in DOMAIN pars : pars[k] = v}
           arg(v) == term.args[e0][CHOOSE k \in Slot(v) : TRUE]
           out == outs[p]
           vals == [v \in DOMAIN out.vals |-> IF Slot(v) = {} THEN out.vals[v] ELSE out.vals[arg(v)]]
<1>1. /\ CheckEdgeArity(func, term)
      /\ DOMAIN term.args = DOMAIN term.to
      /\ TermUses(term) \subseteq Values
      /\ term.to \in Seq(Nat) /\ Len(term.to) <= 2
      /\ term.args \in Seq(Seq(Nat))
  <2>1. term \in Terminators
    BY TheFunction
  <2>. QED BY <2>1, TheFunction DEF WellFormed, Terminators
<1>2. \E e \in DOMAIN term.to : Is(e)
  <2>1. PICK e \in DOMAIN term.to : term.to[e] = b
    BY DEF Targets
  <2>2. e \in {1, 2} /\ Len(term.to) \in {1, 2} /\ DOMAIN term.to = 1..Len(term.to)
    <3> DEFINE to == term.to
    <3>1. DOMAIN to = 1..Len(to) /\ Len(to) \in Nat /\ Len(to) <= 2 /\ e \in DOMAIN to
      <4>1. to \in Seq(Nat) /\ Len(to) <= 2
        BY <1>1
      <4>. HIDE DEF to
      <4>2. DOMAIN to = 1..Len(to) /\ Len(to) \in Nat
        BY <4>1
      <4>. QED BY <4>1, <4>2 DEF to
    <3>. HIDE DEF to
    <3>2. e \in {1, 2} /\ Len(to) \in {1, 2} /\ DOMAIN to = 1..Len(to)
      BY <3>1
    <3>. QED BY <3>2 DEF to
  <2>3. CASE term.to[1] = b
    <3>1. 1 \in DOMAIN term.to /\ 1..(1 - 1) = {}
      BY <2>2
    <3>. QED BY <2>3, <3>1
  <2>4. CASE term.to[1] # b
    <3>1. e = 2 /\ 1..(2 - 1) = {1}
      BY <2>1, <2>2, <2>4
    <3>. QED BY <2>1, <2>4, <3>1
  <2>. QED BY <2>3, <2>4
<1>3. e0 \in DOMAIN term.to /\ term.to[e0] = b
  <2>. HIDE DEF Is
  <2>1. e0 \in DOMAIN term.to /\ Is(e0)
    BY <1>2
  <2>. QED BY <2>1 DEF Is
<1>4. b \in DOMAIN func /\ term.args[e0] \in Seq(Nat) /\ Len(term.args[e0]) = Len(pars) /\ pars \in Seq(Nat)
  <2>1. b \in DOMAIN func /\ Len(term.args[e0]) = Len(pars)
    <3>. HIDE DEF e0, term
    <3>. QED BY <1>1, <1>3 DEF CheckEdgeArity
  <2>2. pars \in Seq(Nat)
    BY <2>1, TheFunction
  <2>3. term.args[e0] \in Seq(Nat)
    <3>. HIDE DEF e0, term
    <3>. QED BY <1>1, <1>3
  <2>. QED BY <2>1, <2>2, <2>3
<1>5. ASSUME NEW v \in Values, Slot(v) # {} PROVE arg(v) \in Values
  <2> DEFINE k == CHOOSE k \in Slot(v) : TRUE
  <2>1. k \in DOMAIN pars
    BY <1>5
  <2>. HIDE DEF k, e0, pars
  <2>2. k \in DOMAIN term.args[e0]
    BY <1>4, <2>1
  <2>3. term.args[e0][k] \in TermUses(term)
    <3>. HIDE DEF term
    <3>. QED BY <1>1, <1>3, <2>2 DEF TermUses
  <2>. QED BY <1>1, <2>3 DEF k
<1>6. Transferred(outs, p, b) = [out EXCEPT !.vals = vals]
  BY DEF Transferred
<1>7. vals \in [Values -> Counted]
  <2>1. out.vals \in [Values -> Counted]
    BY DEF State
  <2>. HIDE DEF out, Slot, arg
  <2>. QED BY <1>5, <2>1
<1>. HIDE DEF vals
<1>8. out = [vars |-> out.vars, vals |-> out.vals, origin |-> out.origin]
  BY DEF State
<1>9. Transferred(outs, p, b) = [vars |-> out.vars, vals |-> vals, origin |-> out.origin]
  BY <1>6, <1>8
<1>. QED BY <1>7, <1>9 DEF State

\* The join up to one block, from that up to the block before.
JoinNext(outs, b, acc, p) ==
    IF p = 0 THEN EmptyState(Names, Values)
    ELSE IF p \in DOMAIN outs /\ b \in Targets(func, p)
    THEN JoinStates(acc, Transferred(outs, p, b)) ELSE acc

LEMMA JoinStep ==
  ASSUME func \in Functions, NEW b, NEW outs
  PROVE  \A p \in 0..Len(func) :
            JoinUpTo(outs, b)[p] = JoinNext(outs, b, JoinUpTo(outs, b)[p - 1], p)
<1> DEFINE size == Len(func)
           Is(g, n) == g = [p \in 0..n |-> JoinNext(outs, b, g[p - 1], p)]
           S == {n \in Nat : \E g : Is(g, n)}
<1>0. size \in Nat
  BY TheFunction
<1>1. 0 \in S
  <2> DEFINE g0 == [p \in 0..0 |-> EmptyState(Names, Values)]
  <2>1. Is(g0, 0)
    BY DEF JoinNext
  <2>. HIDE DEF Is, g0
  <2>. QED BY <2>1
<1>2. ASSUME NEW n \in 1..size, n - 1 \in S PROVE n \in S
  <2>1. PICK g : Is(g, n - 1)
    BY <1>2
  <2> DEFINE h == [p \in 0..n |-> IF p = n THEN JoinNext(outs, b, g[n - 1], n) ELSE g[p]]
  <2>2. g = [p \in 0..(n - 1) |-> JoinNext(outs, b, g[p - 1], p)]
    BY <2>1
  <2>3. ASSUME NEW p \in 0..n PROVE h[p] = JoinNext(outs, b, h[p - 1], p)
    <3>1. CASE p = n
      BY <3>1
    <3>2. CASE p = 0
      <4>1. g[0] = JoinNext(outs, b, g[0 - 1], 0) /\ h[0] = g[0]
        BY <2>2
      <4>. QED BY <3>2, <4>1 DEF JoinNext
    <3>3. CASE p # n /\ p # 0
      <4>1. h[p - 1] = g[p - 1] /\ h[p] = g[p] /\ p \in 0..(n - 1)
        BY <3>3
      <4>. QED BY <2>2, <4>1
    <3>. QED BY <3>1, <3>2, <3>3
  <2>4. Is(h, n)
    BY <2>3
  <2>. HIDE DEF Is, h
  <2>. QED BY <2>4
<1>3. PICK g : Is(g, size)
  <2>1. \A n \in 0..size : n \in S
    <3>. HIDE DEF S, size
    <3>. QED BY <1>0, <1>1, <1>2, Climb
  <2>. QED BY <1>0, <2>1
<1>4. Is(JoinUpTo(outs, b), size)
  BY <1>3 DEF JoinUpTo, JoinNext
<1> DEFINE all == JoinUpTo(outs, b)
<1>5. all = [p \in 0..size |-> JoinNext(outs, b, all[p - 1], p)]
  BY <1>4
<1>. HIDE DEF all
<1>. QED BY <1>5 DEF all

(* The in-state that a block gets from its predecessors shows, for every variable, the
   move that any one of them may have made. *)
THEOREM JoinCovers ==
  ASSUME func \in Functions, NEW b, NEW outs, DOMAIN outs \subseteq DOMAIN func,
         \A p \in DOMAIN outs : outs[p] \in State /\ OriginsOf(outs[p])
  PROVE  /\ JoinInto(outs, b) \in State /\ OriginsOf(JoinInto(outs, b))
         /\ \A p \in DOMAIN outs : b \in Targets(func, p) => Covers(JoinInto(outs, b), outs[p])
<1> DEFINE size == Len(func)
           Adds(p) == p \in DOMAIN outs /\ b \in Targets(func, p)
           J(n) == JoinUpTo(outs, b)[n]
           Good(n, st) == /\ st \in State /\ OriginsOf(st)
                          /\ \A p \in 1..n : Adds(p) => Covers(st, outs[p])
           S == {n \in 0..size : Good(n, J(n))}
<1>0. size \in Nat /\ DOMAIN func = 1..size
  BY TheFunction
<1>1. \A p \in 0..size : J(p) = JoinNext(outs, b, J(p - 1), p)
  BY JoinStep
<1>2. 0 \in S
  <2>1. J(0) = EmptyState(Names, Values)
    BY <1>0, <1>1 DEF JoinNext
  <2>2. Good(0, EmptyState(Names, Values))
    BY NothingKnown
  <2>. HIDE DEF Good, J
  <2>. QED BY <1>0, <2>1, <2>2
<1>3. ASSUME NEW n \in 1..size, n - 1 \in S PROVE n \in S
  <2> DEFINE old == J(n - 1)
             new == J(n)
  <2>1. new = JoinNext(outs, b, old, n) /\ n # 0
    BY <1>0, <1>1
  <2>2. old \in State /\ OriginsOf(old) /\ \A p \in 1..(n - 1) : Adds(p) => Covers(old, outs[p])
    <3>. HIDE DEF Adds, J
    <3>. QED BY <1>3
  <2>3. \A p \in 1..n : p = n \/ p \in 1..(n - 1)
    OBVIOUS
  <2>4. CASE Adds(n)
    <3> DEFINE edge == Transferred(outs, n, b)
    <3>1. new = JoinStates(old, edge)
      BY <2>1, <2>4 DEF JoinNext
    <3>2. n \in DOMAIN func /\ outs[n] \in State /\ OriginsOf(outs[n])
      BY <1>0, <2>4
    <3>3. edge \in State /\ edge.vars = outs[n].vars /\ edge.origin = outs[n].origin
      BY <2>4, <3>2, PassedOnEdge
    <3>4. OriginsOf(edge)
      <4>. HIDE DEF edge
      <4>. QED BY <3>2, <3>3 DEF OriginsOf
    <3>5. new \in State /\ OriginsOf(new) /\ Covers(new, old) /\ Covers(new, edge)
      <4>. HIDE DEF new, old, edge
      <4>. QED BY <2>2, <3>1, <3>3, <3>4, JoinStatesCovers
    <3>6. Covers(new, outs[n])
      <4>. HIDE DEF new, edge
      <4>. QED BY <3>3, <3>5 DEF Covers
    <3>7. \A p \in 1..(n - 1) : Adds(p) => Covers(new, outs[p])
      <4>. HIDE DEF new, old, Adds
      <4>. QED BY <2>2, <3>5 DEF Covers
    <3>. HIDE DEF new, Adds
    <3>8. Good(n, new)
      BY <2>3, <3>5, <3>6, <3>7
    <3>. HIDE DEF Good
    <3>. QED BY <3>8 DEF new
  <2>5. CASE ~Adds(n)
    <3>1. new = old
      BY <2>1, <2>5 DEF JoinNext
    <3>. HIDE DEF new, old, Adds
    <3>2. Good(n, new)
      BY <2>2, <2>3, <2>5, <3>1
    <3>. HIDE DEF Good
    <3>. QED BY <3>2 DEF new
  <2>. QED BY <2>4, <2>5
<1>4. Good(size, J(size))
  <2>1. \A n \in 0..size : n \in S
    <3>. HIDE DEF S, size
    <3>. QED BY <1>0, <1>2, <1>3, Climb
  <2>. HIDE DEF Good, J
  <2>. QED BY <1>0, <2>1
<1>5. JoinInto(outs, b) = J(size)
  BY DEF JoinInto
<1>. HIDE DEF J
<1>. QED BY <1>0, <1>4, <1>5

(* Widening a header hides no move. *)
THEOREM WidenCovers ==
  ASSUME NEW prev \in State, NEW cur \in State, OriginsOf(cur)
  PROVE  /\ Widen(prev, cur) \in State /\ OriginsOf(Widen(prev, cur))
         /\ Covers(Widen(prev, cur), cur)
<1> DEFINE Wide(p, c) == IF p # c THEN [c EXCEPT !.base = "unknown"] ELSE c
           vars == WidenMap(prev.vars, cur.vars)
           vals == WidenMap(prev.vals, cur.vals)
<1>1. /\ cur.vars \in [Names -> Counted] /\ cur.vals \in [Values -> Counted]
      /\ cur = [vars |-> cur.vars, vals |-> cur.vals, origin |-> cur.origin]
  BY DEF State
<1>2. ASSUME NEW p, NEW c \in Counted PROVE Wide(p, c) \in Counted /\ (MayBeMoved(c) => MayBeMoved(Wide(p, c)))
  <2>1. "unknown" \in Bases
    BY DEF Bases
  <2>2. c \in VarStates /\ Cardinality(c.by) <= c.borrows
    BY DEF Counted
  <2> DEFINE w == [c EXCEPT !.base = "unknown"]
  <2>3. w \in VarStates /\ w.by = c.by /\ w.borrows = c.borrows /\ w.base = "unknown"
    BY <2>1, <2>2 DEF VarStates
  <2>4. w \in Counted /\ MayBeMoved(w)
    <3>. HIDE DEF w
    <3>. QED BY <2>2, <2>3 DEF Counted, MayBeMoved
  <2>. QED BY <2>4
<1>3. /\ vars = [x \in Names |-> Wide(prev.vars[x], cur.vars[x])]
      /\ vals = [v \in Values |-> Wide(prev.vals[v], cur.vals[v])]
  BY <1>1 DEF WidenMap
<1>4. Widen(prev, cur) = [vars |-> vars, vals |-> vals, origin |-> cur.origin]
  <2>1. Widen(prev, cur) = [cur EXCEPT !.vars = vars, !.vals = vals]
    BY DEF Widen
  <2>. HIDE DEF vars, vals
  <2>. QED BY <1>1, <2>1
<1>. HIDE DEF Wide, vars, vals
<1>5. vars \in [Names -> Counted] /\ vals \in [Values -> Counted]
  BY <1>1, <1>2, <1>3
<1>6. Widen(prev, cur) \in State
  BY <1>4, <1>5 DEF State
<1>7. OriginsOf(Widen(prev, cur))
  BY <1>4 DEF OriginsOf
<1>8. ASSUME NEW x \in Names, MayBeMoved(cur.vars[x]) PROVE MayBeMoved(vars[x])
  BY <1>1, <1>2, <1>3, <1>8
<1>. QED BY <1>4, <1>6, <1>7, <1>8 DEF Covers

(* ------------------------ the states of all blocks ----------------------- *)

Blocks(ins, outs) ==
    /\ DOMAIN ins \subseteq DOMAIN func
    /\ DOMAIN ins = DOMAIN outs \cup {Entry}
    /\ \A b \in DOMAIN ins : ins[b] \in State /\ OriginsOf(ins[b])
    /\ \A b \in DOMAIN outs : outs[b] = StateAfter(ins[b], func[b].insts)

\* An edge out of a visited block: its target has seen what the block has moved, or
\* is to be visited.
Flows(ins, outs, todo) ==
    \A b \in DOMAIN outs : \A s \in Targets(func, b) :
        s \in todo \/ (s \in DOMAIN outs /\ Covers(ins[s], outs[b]))

LEMMA OutStates ==
  ASSUME func \in Functions, NEW ins, NEW outs, Blocks(ins, outs)
  PROVE  /\ DOMAIN outs \subseteq DOMAIN func
         /\ \A b \in DOMAIN outs : b \in DOMAIN ins /\ outs[b] \in State /\ OriginsOf(outs[b])
<1>1. ASSUME NEW b \in DOMAIN outs PROVE b \in DOMAIN ins /\ b \in DOMAIN func /\ outs[b] \in State /\ OriginsOf(outs[b])
  <2>1. b \in DOMAIN ins /\ b \in DOMAIN func
    BY DEF Blocks
  <2>2. ins[b] \in State /\ OriginsOf(ins[b]) /\ outs[b] = StateAfter(ins[b], func[b].insts)
    BY <2>1 DEF Blocks
  <2>3. StateAfter(ins[b], func[b].insts) \in State /\ OriginsOf(StateAfter(ins[b], func[b].insts))
    BY <2>1, <2>2, Along
  <2>. QED BY <2>1, <2>2, <2>3
<1>. QED BY <1>1

LEMMA JoinedCovers ==
  ASSUME func \in Functions, Blocks(blockIn, blockOut), NEW b \in DOMAIN func
  PROVE  /\ JoinPredecessors(b) \in State /\ OriginsOf(JoinPredecessors(b))
         /\ \A p \in DOMAIN blockOut : b \in Targets(func, p) => Covers(JoinPredecessors(b), blockOut[p])
<1>1. /\ DOMAIN blockOut \subseteq DOMAIN func
      /\ \A p \in DOMAIN blockOut : blockOut[p] \in State /\ OriginsOf(blockOut[p])
  BY OutStates
<1>2. CASE Reached(blockOut, b)
  <2>1. JoinPredecessors(b) = JoinInto(blockOut, b)
    BY <1>2 DEF JoinPredecessors
  <2>. QED BY <1>1, <2>1, JoinCovers
<1>3. CASE ~Reached(blockOut, b)
  <2>1. \A p \in DOMAIN blockOut : b \notin Targets(func, p)
    BY <1>3 DEF Reached
  <2>2. JoinPredecessors(b) = IF b \in DOMAIN blockIn THEN blockIn[b] ELSE EmptyState(Names, Values)
    BY <1>3 DEF JoinPredecessors
  <2>3. JoinPredecessors(b) \in State /\ OriginsOf(JoinPredecessors(b))
    BY <2>2, NothingKnown DEF Blocks
  <2>. QED BY <2>1, <2>3
<1>. QED BY <1>2, <1>3

\* One block gets new states: in comes from all the outs as they were.
LEMMA NewStates ==
  ASSUME func \in Functions, NEW ins, NEW outs, Blocks(ins, outs), NEW b \in DOMAIN func,
         NEW cur \in State, OriginsOf(cur)
  PROVE  Blocks(Put(ins, b, cur), Put(outs, b, StateAfter(cur, func[b].insts)))
<1> DEFINE i2 == Put(ins, b, cur)
           out == StateAfter(cur, func[b].insts)
           o2 == Put(outs, b, out)
<1>1. DOMAIN i2 = DOMAIN ins \cup {b} /\ DOMAIN o2 = DOMAIN outs \cup {b}
      /\ i2[b] = cur /\ o2[b] = out
      /\ (\A k \in DOMAIN ins : k # b => i2[k] = ins[k])
      /\ (\A k \in DOMAIN outs : k # b => o2[k] = outs[k])
  <2>. HIDE DEF out
  <2>1. DOMAIN i2 = DOMAIN ins \cup {b} /\ i2[b] = cur /\ (\A k \in DOMAIN ins : k # b => i2[k] = ins[k])
    BY DEF Put
  <2>2. DOMAIN o2 = DOMAIN outs \cup {b} /\ o2[b] = out /\ (\A k \in DOMAIN outs : k # b => o2[k] = outs[k])
    BY DEF Put
  <2>. QED BY <2>1, <2>2
<1>. HIDE DEF i2, o2
<1>. QED BY <1>1 DEF Blocks, i2, o2

LEMMA FirstStates ==
  ASSUME func \in Functions
  PROVE  /\ EntryState(func) \in State /\ OriginsOf(EntryState(func))
         /\ \A x \in Names : EntryState(func).vars[x] = IF x \in Params THEN Owned ELSE Uninit
<1> DEFINE vars == [x \in Names |-> IF x \in Params THEN Owned ELSE Uninit]
           empty == EmptyState(Names, Values)
<1>1. EntryState(func) = [empty EXCEPT !.vars = vars]
  BY DEF EntryState, Values
<1>2. empty \in State /\ OriginsOf(empty) /\ empty = [vars |-> empty.vars, vals |-> empty.vals, origin |-> empty.origin]
  BY NothingKnown DEF State
<1>3. vars \in [Names -> Counted]
  BY PlainCounted
<1>. HIDE DEF empty, vars
<1>4. EntryState(func) = [vars |-> vars, vals |-> empty.vals, origin |-> empty.origin]
  BY <1>1, <1>2
<1>5. EntryState(func) \in State
  BY <1>2, <1>3, <1>4 DEF State
<1>6. OriginsOf(EntryState(func))
  BY <1>2, <1>4 DEF OriginsOf
<1>. QED BY <1>4, <1>5, <1>6 DEF vars

(* The order of the blocks *)

OrderOk ==
    /\ Len(Rpo) \in Nat /\ DOMAIN Rpo = 1..Len(Rpo)
    /\ InRpo \subseteq DOMAIN func
    /\ Entry \in InRpo
    /\ \A b \in InRpo : Targets(func, b) \subseteq InRpo

LEMMA FirstIsDirty ==
  ASSUME OrderOk, dirty # {}, dirty \subseteq InRpo
  PROVE  FirstDirty \in dirty
<1> DEFINE T == {i \in DOMAIN Rpo : Rpo[i] \in dirty}
           First(i) == Rpo[i] \in dirty /\ \A j \in 1..(i-1) : Rpo[j] \notin dirty
<1>1. T # {} /\ T \in SUBSET Nat /\ DOMAIN Rpo = 1..Len(Rpo) /\ Len(Rpo) \in Nat
  BY DEF OrderOk, InRpo
<1>2. PICK k \in T : \A i \in T : k <= i
  <2>. HIDE DEF T
  <2>. QED BY <1>1, Smallest
<1>3. k \in DOMAIN Rpo /\ First(k)
  BY <1>1, <1>2
<1> DEFINE i0 == CHOOSE i \in DOMAIN Rpo : First(i)
<1>4. First(i0)
  <2>. HIDE DEF First
  <2>. QED BY <1>3
<1>. QED BY <1>4 DEF FirstDirty

LEMMA ProcessKeeps ==
  ASSUME func \in Functions, OrderOk, ProcessBlock,
         Blocks(blockIn, blockOut), Flows(blockIn, blockOut, dirty), dirty \subseteq InRpo,
         Entry \in dirty \cup DOMAIN blockOut
  PROVE  /\ Blocks(blockIn', blockOut') /\ Flows(blockIn', blockOut', dirty') /\ dirty' \subseteq InRpo
         /\ Entry \in dirty' \cup DOMAIN blockOut'
<1> DEFINE b      == FirstDirty
           joined == JoinPredecessors(b)
           count  == visits[b] + 1
           cur    == IF b \in Headers /\ count > WidenCap /\ b \in DOMAIN blockIn
                     THEN Widen(blockIn[b], joined) ELSE joined
           out    == StateAfter(cur, func[b].insts)
           same   == b \in DOMAIN blockOut /\ blockOut[b] = out
<1>1. /\ blockIn' = Put(blockIn, b, cur)
      /\ blockOut' = Put(blockOut, b, out)
      /\ dirty' = (dirty \ {b}) \cup (IF same THEN {} ELSE Targets(func, b) \cap InRpo)
      /\ dirty # {}
  BY DEF ProcessBlock
<1>2. b \in dirty /\ b \in InRpo /\ b \in DOMAIN func
  BY <1>1, FirstIsDirty DEF OrderOk
<1>. HIDE DEF b
<1>3. /\ joined \in State /\ OriginsOf(joined)
      /\ \A p \in DOMAIN blockOut : b \in Targets(func, p) => Covers(joined, blockOut[p])
  BY <1>2, JoinedCovers
<1>4. /\ cur \in State /\ OriginsOf(cur) /\ Covers(cur, joined)
  <2>1. CASE b \in Headers /\ count > WidenCap /\ b \in DOMAIN blockIn
    <3>1. cur = Widen(blockIn[b], joined) /\ blockIn[b] \in State
      BY <2>1 DEF Blocks
    <3>. HIDE DEF cur, joined
    <3>. QED BY <1>3, <3>1, WidenCovers
  <2>2. CASE ~(b \in Headers /\ count > WidenCap /\ b \in DOMAIN blockIn)
    <3>1. cur = joined
      BY <2>2
    <3>. HIDE DEF cur, joined
    <3>. QED BY <1>3, <3>1 DEF Covers
  <2>. QED BY <2>1, <2>2
<1>. HIDE DEF cur, joined
<1>5. \A p \in DOMAIN blockOut : b \in Targets(func, p) => Covers(cur, blockOut[p])
  BY <1>3, <1>4 DEF Covers
<1>6. Blocks(blockIn', blockOut')
  BY <1>1, <1>2, <1>4, NewStates
<1>. HIDE DEF out
<1>7. /\ DOMAIN blockIn' = DOMAIN blockIn \cup {b} /\ DOMAIN blockOut' = DOMAIN blockOut \cup {b}
      /\ blockIn'[b] = cur /\ blockOut'[b] = out
      /\ (\A k \in DOMAIN blockIn : k # b => blockIn'[k] = blockIn[k])
      /\ (\A k \in DOMAIN blockOut : k # b => blockOut'[k] = blockOut[k])
  <2>1. /\ DOMAIN blockIn' = DOMAIN blockIn \cup {b} /\ blockIn'[b] = cur
        /\ \A k \in DOMAIN blockIn : k # b => blockIn'[k] = blockIn[k]
    BY <1>1 DEF Put
  <2>2. /\ DOMAIN blockOut' = DOMAIN blockOut \cup {b} /\ blockOut'[b] = out
        /\ \A k \in DOMAIN blockOut : k # b => blockOut'[k] = blockOut[k]
    BY <1>1 DEF Put
  <2>. QED BY <2>1, <2>2
<1>8. Targets(func, b) \subseteq InRpo
  BY <1>2 DEF OrderOk
<1>9. ASSUME NEW p \in DOMAIN blockOut', NEW s \in Targets(func, p)
      PROVE  s \in dirty' \/ (s \in DOMAIN blockOut' /\ Covers(blockIn'[s], blockOut'[p]))
  <2>1. CASE p = b /\ ~same
    BY <1>1, <1>8, <2>1
  <2>2. CASE p \in DOMAIN blockOut /\ blockOut'[p] = blockOut[p]
    <3>1. CASE s = b
      BY <1>5, <1>7, <2>2, <3>1
    <3>2. CASE s # b
      <4>1. s \in dirty \/ (s \in DOMAIN blockOut /\ Covers(blockIn[s], blockOut[p]))
        BY <2>2 DEF Flows
      <4>2. s \in DOMAIN blockOut => s \in DOMAIN blockIn
        BY DEF Blocks
      <4>. QED BY <1>1, <1>7, <2>2, <3>2, <4>1, <4>2
    <3>. QED BY <3>1, <3>2
  <2>3. p = b /\ same => p \in DOMAIN blockOut /\ blockOut'[p] = blockOut[p]
    BY <1>7
  <2>4. p # b => p \in DOMAIN blockOut /\ blockOut'[p] = blockOut[p]
    BY <1>7
  <2>. HIDE DEF same
  <2>. QED BY <2>1, <2>2, <2>3, <2>4
<1>10. dirty' \subseteq InRpo
  BY <1>1
<1>. QED BY <1>1, <1>6, <1>7, <1>9, <1>10 DEF Flows

(* Narrowing *)

Calm(ins, outs) == Blocks(ins, outs) /\ Flows(ins, outs, {}) /\ Entry \in DOMAIN outs

LEMMA NarrowStates ==
  ASSUME NEW cur \in State, NEW cand \in State, OriginsOf(cur)
  PROVE  LET new == NarrowState(cur, cand)
         IN  /\ new \in State /\ OriginsOf(new) /\ CloserState(new, cur)
             /\ \A x \in Names : MayBeMoved(cur.vars[x]) /\ MayBeMoved(cand.vars[x]) => MayBeMoved(new.vars[x])
<1> DEFINE Narrowed(c, d) == IF c.base = "unknown" /\ d.base \notin {"unknown", "uninit"}
                             THEN [c EXCEPT !.base = d.base] ELSE c
           vars == NarrowMap(cur.vars, cand.vars)
           vals == NarrowMap(cur.vals, cand.vals)
           new == NarrowState(cur, cand)
<1>1. /\ cur.vars \in [Names -> Counted] /\ cur.vals \in [Values -> Counted]
      /\ cand.vars \in [Names -> Counted] /\ cand.vals \in [Values -> Counted]
      /\ cur = [vars |-> cur.vars, vals |-> cur.vals, origin |-> cur.origin]
  BY DEF State
<1>2. ASSUME NEW c \in Counted, NEW d \in Counted
      PROVE  /\ Narrowed(c, d) \in Counted /\ Closer(Narrowed(c, d), c)
             /\ MayBeMoved(c) /\ MayBeMoved(d) => MayBeMoved(Narrowed(c, d))
  <2>1. CASE c.base = "unknown" /\ d.base \notin {"unknown", "uninit"}
    <3> DEFINE w == [c EXCEPT !.base = d.base]
    <3>1. c \in VarStates /\ Cardinality(c.by) <= c.borrows /\ d.base \in Bases
      BY DEF Counted, VarStates
    <3>2. w \in VarStates /\ w.by = c.by /\ w.borrows = c.borrows /\ w.base = d.base
      BY <3>1 DEF VarStates
    <3>3. Narrowed(c, d) = w
      BY <2>1
    <3>4. w \in Counted /\ MayBeMoved(c) /\ (MayBeMoved(d) => MayBeMoved(w))
      <4>. HIDE DEF w
      <4>. QED BY <2>1, <3>1, <3>2 DEF Counted, MayBeMoved
    <3>. HIDE DEF w, Narrowed
    <3>. QED BY <3>3, <3>4 DEF Closer
  <2>2. CASE ~(c.base = "unknown" /\ d.base \notin {"unknown", "uninit"})
    <3>1. Narrowed(c, d) = c
      BY <2>2
    <3>. HIDE DEF Narrowed
    <3>. QED BY <3>1 DEF Closer
  <2>. QED BY <2>1, <2>2
<1>3. /\ vars = [x \in Names |-> Narrowed(cur.vars[x], cand.vars[x])]
      /\ vals = [v \in Values |-> Narrowed(cur.vals[v], cand.vals[v])]
  BY <1>1 DEF NarrowMap
<1>4. new = [vars |-> vars, vals |-> vals, origin |-> cur.origin]
  <2>1. new = [cur EXCEPT !.vars = vars, !.vals = vals]
    BY DEF NarrowState
  <2>. HIDE DEF vars, vals, new
  <2>. QED BY <1>1, <2>1
<1>. HIDE DEF Narrowed, vars, vals, new
<1>5. vars \in [Names -> Counted] /\ vals \in [Values -> Counted]
  BY <1>1, <1>2, <1>3
<1>6. new \in State
  BY <1>4, <1>5 DEF State
<1>7. OriginsOf(new)
  BY <1>4 DEF OriginsOf
<1>8. CloserState(new, cur)
  BY <1>1, <1>2, <1>3, <1>4 DEF CloserState
<1>9. \A x \in Names : MayBeMoved(cur.vars[x]) /\ MayBeMoved(cand.vars[x]) => MayBeMoved(new.vars[x])
  BY <1>1, <1>2, <1>3, <1>4
<1>. QED BY <1>6, <1>7, <1>8, <1>9 DEF new

LEMMA NarrowHeaderKeeps ==
  ASSUME func \in Functions, NEW ins, NEW outs, Calm(ins, outs), NEW b
  PROVE  Calm(NarrowHeader(ins, outs, b)[1], NarrowHeader(ins, outs, b)[2])
<1> DEFINE cand == JoinInto(outs, b)
           new == NarrowState(ins[b], cand)
           Same == b \notin DOMAIN ins \/ ~Reached(outs, b) \/ new = ins[b]
           i2 == Put(ins, b, new)
           out == StateAfter(new, func[b].insts)
           o2 == Put(outs, b, out)
<1>1. NarrowHeader(ins, outs, b) = IF Same THEN <<ins, outs>> ELSE <<i2, o2>>
  BY DEF NarrowHeader
<1>2. CASE Same
  <2>1. NarrowHeader(ins, outs, b) = <<ins, outs>>
    BY <1>1, <1>2
  <2>. QED BY <2>1
<1>3. CASE ~Same
  <2>1. b \in DOMAIN ins /\ b \in DOMAIN func /\ b \in DOMAIN outs
    <3>1. b \in DOMAIN ins /\ Reached(outs, b)
      BY <1>3
    <3>. QED BY <3>1 DEF Calm, Blocks, Flows, Reached
  <2>2. /\ DOMAIN outs \subseteq DOMAIN func
        /\ \A p \in DOMAIN outs : outs[p] \in State /\ OriginsOf(outs[p])
    BY OutStates DEF Calm
  <2>3. /\ cand \in State
        /\ \A p \in DOMAIN outs : b \in Targets(func, p) => Covers(cand, outs[p])
    BY <2>2, JoinCovers
  <2>4. ins[b] \in State /\ OriginsOf(ins[b]) /\ outs[b] = StateAfter(ins[b], func[b].insts)
    BY <2>1 DEF Calm, Blocks
  <2>5. /\ new \in State /\ OriginsOf(new) /\ CloserState(new, ins[b])
        /\ \A x \in Names : MayBeMoved(ins[b].vars[x]) /\ MayBeMoved(cand.vars[x]) => MayBeMoved(new.vars[x])
    <3>. HIDE DEF cand
    <3>. QED BY <2>3, <2>4, NarrowStates
  <2>. HIDE DEF new, cand
  <2>6. Blocks(i2, o2)
    BY <2>1, <2>5, NewStates DEF Calm
  <2>7. CloserState(out, outs[b])
    BY <2>1, <2>4, <2>5, CloserAlong
  <2>. HIDE DEF out
  <2>8. DOMAIN i2 = DOMAIN ins /\ i2[b] = new /\ (\A k \in DOMAIN ins : k # b => i2[k] = ins[k])
    BY <2>1 DEF Put
  <2>9. DOMAIN o2 = DOMAIN outs /\ o2[b] = out /\ (\A k \in DOMAIN outs : k # b => o2[k] = outs[k])
    BY <2>1 DEF Put
  <2>. HIDE DEF i2, o2
  <2>10. \A p \in DOMAIN outs : Covers(outs[p], o2[p])
    <3>1. Covers(outs[b], out)
      BY <2>7 DEF CloserState, Closer, Covers
    <3>. QED BY <2>9, <3>1 DEF Covers
  <2>11. ASSUME NEW p \in DOMAIN outs, NEW s \in Targets(func, p)
         PROVE  s \in DOMAIN outs /\ Covers(i2[s], o2[p])
    <3>1. s \in DOMAIN outs /\ s \in DOMAIN ins /\ Covers(ins[s], outs[p])
      BY DEF Calm, Flows, Blocks
    <3>2. Covers(i2[s], outs[p])
      <4>1. CASE s = b
        BY <2>3, <2>5, <2>8, <3>1, <4>1 DEF Covers
      <4>2. CASE s # b
        BY <2>8, <3>1, <4>2
      <4>. QED BY <4>1, <4>2
    <3>. QED BY <2>10, <3>1, <3>2 DEF Covers
  <2>12. Calm(i2, o2)
    BY <2>6, <2>9, <2>11 DEF Calm, Flows
  <2>. QED BY <1>1, <1>3, <2>12
<1>. QED BY <1>2, <1>3

\* One round of narrowing, header by header.
NarrowNext(io, acc, i) ==
    IF i = 0 THEN io
    ELSE IF Rpo[i] \in Headers THEN NarrowHeader(acc[1], acc[2], Rpo[i]) ELSE acc

LEMMA NarrowStep ==
  ASSUME OrderOk, NEW io
  PROVE  \A i \in 0..Len(Rpo) : NarrowUpTo(io)[i] = NarrowNext(io, NarrowUpTo(io)[i - 1], i)
<1> DEFINE size == Len(Rpo)
           Is(g, n) == g = [i \in 0..n |-> NarrowNext(io, g[i - 1], i)]
           S == {n \in Nat : \E g : Is(g, n)}
<1>0. size \in Nat
  BY DEF OrderOk
<1>1. 0 \in S
  <2> DEFINE g0 == [i \in 0..0 |-> io]
  <2>1. Is(g0, 0)
    BY DEF NarrowNext
  <2>. HIDE DEF Is, g0
  <2>. QED BY <2>1
<1>2. ASSUME NEW n \in 1..size, n - 1 \in S PROVE n \in S
  <2>1. PICK g : Is(g, n - 1)
    BY <1>2
  <2> DEFINE h == [i \in 0..n |-> IF i = n THEN NarrowNext(io, g[n - 1], n) ELSE g[i]]
  <2>2. g = [i \in 0..(n - 1) |-> NarrowNext(io, g[i - 1], i)]
    BY <2>1
  <2>3. ASSUME NEW i \in 0..n PROVE h[i] = NarrowNext(io, h[i - 1], i)
    <3>1. CASE i = n
      BY <3>1
    <3>2. CASE i = 0
      <4>1. g[0] = NarrowNext(io, g[0 - 1], 0) /\ h[0] = g[0]
        BY <2>2
      <4>. QED BY <3>2, <4>1 DEF NarrowNext
    <3>3. CASE i # n /\ i # 0
      <4>1. h[i - 1] = g[i - 1] /\ h[i] = g[i] /\ i \in 0..(n - 1)
        BY <3>3
      <4>. QED BY <2>2, <4>1
    <3>. QED BY <3>1, <3>2, <3>3
  <2>4. Is(h, n)
    BY <2>3
  <2>. HIDE DEF Is, h
  <2>. QED BY <2>4
<1>3. PICK g : Is(g, size)
  <2>1. \A n \in 0..size : n \in S
    <3>. HIDE DEF S, size
    <3>. QED BY <1>0, <1>1, <1>2, Climb
  <2>. QED BY <1>0, <2>1
<1>4. Is(NarrowUpTo(io), size)
  BY <1>3, Zenon DEF NarrowUpTo, NarrowNext
<1> DEFINE all == NarrowUpTo(io)
<1>5. all = [i \in 0..size |-> NarrowNext(io, all[i - 1], i)]
  BY <1>4
<1>. HIDE DEF all
<1>. QED BY <1>5 DEF all

LEMMA NarrowOnceKeeps ==
  ASSUME func \in Functions, OrderOk, NEW io, Calm(io[1], io[2])
  PROVE  Calm(NarrowOnce(io)[1], NarrowOnce(io)[2])
<1> DEFINE size == Len(Rpo)
           N(i) == NarrowUpTo(io)[i]
           S == {i \in 0..size : Calm(N(i)[1], N(i)[2])}
<1>0. size \in Nat
  BY DEF OrderOk
<1>1. \A i \in 0..size : N(i) = NarrowNext(io, N(i - 1), i)
  BY NarrowStep
<1>. HIDE DEF N
<1>2. 0 \in S
  BY <1>0, <1>1 DEF NarrowNext
<1>3. ASSUME NEW i \in 1..size, i - 1 \in S PROVE i \in S
  <2>1. Calm(N(i - 1)[1], N(i - 1)[2])
    BY <1>3
  <2>2. N(i) = IF Rpo[i] \in Headers THEN NarrowHeader(N(i - 1)[1], N(i - 1)[2], Rpo[i]) ELSE N(i - 1)
    BY <1>0, <1>1 DEF NarrowNext
  <2>3. Calm(NarrowHeader(N(i - 1)[1], N(i - 1)[2], Rpo[i])[1], NarrowHeader(N(i - 1)[1], N(i - 1)[2], Rpo[i])[2])
    BY <2>1, NarrowHeaderKeeps
  <2>. QED BY <1>0, <2>1, <2>2, <2>3
<1>4. \A i \in 0..size : i \in S
  <2>. HIDE DEF S, size
  <2>. QED BY <1>0, <1>2, <1>3, Climb
<1>5. NarrowOnce(io) = N(size)
  BY DEF NarrowOnce, N
<1>. QED BY <1>0, <1>4, <1>5

(* Both rounds of narrowing, over any number of headers, leave every in-state covering
   the moves of its predecessors: replacing an unknown base never loses one. *)
THEOREM NarrowKeeps ==
  ASSUME func \in Functions, OrderOk, Narrow, Calm(blockIn, blockOut)
  PROVE  Calm(blockIn', blockOut')
<1> DEFINE once == NarrowOnce(<<blockIn, blockOut>>)
<1>1. Calm(once[1], once[2])
  BY NarrowOnceKeeps
<1>. HIDE DEF once
<1>2. Calm(NarrowOnce(once)[1], NarrowOnce(once)[2])
  BY <1>1, NarrowOnceKeeps
<1>. QED BY <1>2 DEF Narrow, once

(* ----------------------------- the block order --------------------------- *)

Items(q) == {q[k] : k \in DOMAIN q}

LEMMA ItemsOf ==
  ASSUME NEW T, NEW q \in Seq(T), NEW r \in Seq(T), NEW e \in T
  PROVE  /\ Items(q \o r) = Items(q) \cup Items(r)
         /\ Items(Append(q, e)) = Items(q) \cup {e}
         /\ q # <<>> =>
              /\ SubSeq(q, 1, Len(q) - 1) \in Seq(T)
              /\ Len(SubSeq(q, 1, Len(q) - 1)) = Len(q) - 1
              /\ q[Len(q)] \in T
              /\ Items(q) = Items(SubSeq(q, 1, Len(q) - 1)) \cup {q[Len(q)]}
<1>1. Items(q \o r) = Items(q) \cup Items(r)
  <2> DEFINE c == q \o r
  <2>1. /\ DOMAIN c = 1..(Len(q) + Len(r)) /\ Len(q) \in Nat /\ Len(r) \in Nat
        /\ DOMAIN q = 1..Len(q) /\ DOMAIN r = 1..Len(r)
        /\ \A k \in 1..(Len(q) + Len(r)) : c[k] = IF k <= Len(q) THEN q[k] ELSE r[k - Len(q)]
    OBVIOUS
  <2>. HIDE DEF c
  <2>2. Items(c) \subseteq Items(q) \cup Items(r)
    BY <2>1 DEF Items
  <2>3. Items(q) \subseteq Items(c)
    BY <2>1 DEF Items
  <2>4. ASSUME NEW k \in DOMAIN r PROVE r[k] \in Items(c)
    <3>1. k + Len(q) \in DOMAIN c /\ c[k + Len(q)] = r[k]
      BY <2>1
    <3>. QED BY <3>1 DEF Items
  <2>. QED BY <2>2, <2>3, <2>4 DEF c, Items
<1>2. Items(Append(q, e)) = Items(q) \cup {e}
  <2> DEFINE c == Append(q, e)
  <2>1. /\ DOMAIN c = 1..(Len(q) + 1) /\ Len(q) \in Nat /\ DOMAIN q = 1..Len(q)
        /\ \A k \in 1..(Len(q) + 1) : c[k] = IF k <= Len(q) THEN q[k] ELSE e
    OBVIOUS
  <2>. HIDE DEF c
  <2>2. Items(c) \subseteq Items(q) \cup {e}
    BY <2>1 DEF Items
  <2>3. Items(q) \subseteq Items(c)
    BY <2>1 DEF Items
  <2>4. e \in Items(c)
    <3>1. Len(q) + 1 \in DOMAIN c /\ c[Len(q) + 1] = e
      BY <2>1
    <3>. QED BY <3>1 DEF Items
  <2>. QED BY <2>2, <2>3, <2>4 DEF c
<1>3. ASSUME q # <<>>
      PROVE  /\ SubSeq(q, 1, Len(q) - 1) \in Seq(T)
             /\ Len(SubSeq(q, 1, Len(q) - 1)) = Len(q) - 1
             /\ q[Len(q)] \in T
             /\ Items(q) = Items(SubSeq(q, 1, Len(q) - 1)) \cup {q[Len(q)]}
  <2> DEFINE c == SubSeq(q, 1, Len(q) - 1)
  <2>1. Len(q) \in Nat /\ Len(q) # 0 /\ DOMAIN q = 1..Len(q)
    BY <1>3
  <2>2. /\ c \in Seq(T) /\ Len(c) = Len(q) - 1 /\ DOMAIN c = 1..(Len(q) - 1)
        /\ \A k \in 1..(Len(q) - 1) : c[k] = q[k]
    BY <2>1
  <2>. HIDE DEF c
  <2>3. q[Len(q)] \in T
    BY <2>1
  <2>4. Items(q) = Items(c) \cup {q[Len(q)]}
    <3>1. \A k \in DOMAIN q : k = Len(q) \/ k \in DOMAIN c
      BY <2>1, <2>2
    <3>2. Items(q) \subseteq Items(c) \cup {q[Len(q)]}
      BY <2>2, <3>1 DEF Items
    <3>3. Items(c) \subseteq Items(q) /\ q[Len(q)] \in Items(q)
      BY <2>1, <2>2 DEF Items
    <3>. QED BY <3>2, <3>3
  <2>. QED BY <2>2, <2>3, <2>4 DEF c
<1>. QED BY <1>1, <1>2, <1>3

LEMMA SuccessorsAreTargets ==
  ASSUME func \in Functions, NEW b \in DOMAIN func
  PROVE  /\ Successors(func, b) \in Seq(DOMAIN func)
         /\ Len(Successors(func, b)) <= 2
         /\ Items(Successors(func, b)) = Targets(func, b)
<1> DEFINE to == func[b].term.to
<1>1. to \in Seq(DOMAIN func) /\ Len(to) <= 2
  <2>1. func[b].term \in Terminators /\ CheckEdgeArity(func, func[b].term) /\ Len(to) <= 2
    BY TheFunction DEF WellFormed
  <2>2. to \in Seq(Nat) /\ \A e \in DOMAIN to : to[e] \in DOMAIN func
    BY <2>1 DEF Terminators, CheckEdgeArity
  <2>. HIDE DEF to
  <2>. QED BY <2>1, <2>2
<1>2. Targets(func, b) = Items(to)
  BY DEF Targets, Items
<1>3. Successors(func, b) = IF Len(to) = 2 /\ to[1] = to[2] THEN <<to[1]>> ELSE to
  BY DEF Successors
<1>. HIDE DEF to
<1>4. CASE Len(to) = 2 /\ to[1] = to[2]
  <2>1. DOMAIN to = {1, 2}
    BY <1>1, <1>4
  <2>2. Items(to) = {to[1]}
    BY <1>4, <2>1 DEF Items
  <2>3. <<to[1]>> \in Seq(DOMAIN func) /\ Len(<<to[1]>>) = 1 /\ Items(<<to[1]>>) = {to[1]}
    BY <1>1, <2>1 DEF Items
  <2>. QED BY <1>2, <1>3, <1>4, <2>2, <2>3
<1>5. CASE ~(Len(to) = 2 /\ to[1] = to[2])
  BY <1>1, <1>2, <1>3, <1>5
<1>. QED BY <1>4, <1>5

Stacked == [node : DOMAIN func, processed : BOOLEAN]
Waiting(s) == [node |-> s, processed |-> FALSE]

\* Entering a block stacks those of its successors that the walk has not seen.
LEMMA PushesOf ==
  ASSUME func \in Functions, NEW b \in DOMAIN func, NEW seen
  PROVE  LET pushes == Pushes(func, b, seen, TRUE)
         IN  /\ pushes \in Seq(Stacked) /\ Len(pushes) <= 2
             /\ \A s \in Targets(func, b) : s \in seen \/ Waiting(s) \in Items(pushes)
             /\ \A i \in Items(pushes) : ~i.processed
<1> DEFINE to == Successors(func, b)
           push(e) == IF to[e] \in seen THEN <<>> ELSE <<[node |-> to[e], processed |-> FALSE]>>
           pushes == Pushes(func, b, seen, TRUE)
<1>1. to \in Seq(DOMAIN func) /\ Len(to) <= 2 /\ Items(to) = Targets(func, b)
  BY SuccessorsAreTargets
<1>2. pushes = IF to = <<>> THEN <<>> ELSE IF Len(to) = 1 THEN push(1) ELSE push(2) \o push(1)
  BY DEF Pushes
<1>. HIDE DEF to, pushes
<1>a. Len(to) \in {0, 1, 2} /\ DOMAIN to = 1..Len(to) /\ (Len(to) = 0 => to = <<>>) /\ (Len(to) # 0 => to # <<>>)
  <2>1. \A q \in Seq(DOMAIN func) :
           Len(q) \in Nat /\ DOMAIN q = 1..Len(q) /\ (Len(q) = 0 <=> q = <<>>)
    OBVIOUS
  <2>2. Len(to) \in Nat /\ DOMAIN to = 1..Len(to) /\ (Len(to) = 0 <=> to = <<>>)
    BY <1>1, <2>1
  <2>. QED BY <1>1, <2>2
<1>3. ASSUME NEW e \in DOMAIN to
      PROVE  /\ push(e) \in Seq(Stacked) /\ Len(push(e)) <= 1
             /\ to[e] \in seen \/ Waiting(to[e]) \in Items(push(e))
             /\ \A i \in Items(push(e)) : ~i.processed
  <2>1. to[e] \in DOMAIN func
    BY <1>1
  <2>2. CASE to[e] \in seen
    BY <2>2 DEF Items
  <2>3. CASE to[e] \notin seen
    <3>1. push(e) = <<Waiting(to[e])>> /\ Waiting(to[e]) \in Stacked
      BY <2>1, <2>3 DEF Waiting, Stacked
    <3>2. Items(<<Waiting(to[e])>>) = {Waiting(to[e])}
      BY DEF Items
    <3>3. ~Waiting(to[e]).processed
      BY DEF Waiting
    <3>. HIDE DEF push
    <3>. QED BY <3>1, <3>2, <3>3
  <2>. QED BY <2>2, <2>3
<1>. HIDE DEF push
<1>4. CASE to = <<>>
  <2>1. pushes = <<>> /\ Items(to) = {} /\ Items(<<>>) = {}
    BY <1>2, <1>4 DEF Items
  <2>2. pushes \in Seq(Stacked) /\ Len(pushes) <= 2
    BY <2>1
  <2>3. Items(pushes) = {} /\ Targets(func, b) = {}
    BY <1>1, <2>1
  <2>. QED BY <2>2, <2>3 DEF pushes
<1>5. CASE Len(to) = 1
  <2>1. pushes = push(1) /\ DOMAIN to = {1}
    BY <1>a, <1>2, <1>5
  <2>2. Targets(func, b) = {to[1]}
    BY <1>1, <2>1 DEF Items
  <2>3. /\ push(1) \in Seq(Stacked) /\ Len(push(1)) <= 1
        /\ to[1] \in seen \/ Waiting(to[1]) \in Items(push(1))
        /\ \A i \in Items(push(1)) : ~i.processed
    BY <1>3, <2>1
  <2>4. Len(push(1)) \in Nat
    BY <2>3
  <2>5. Len(pushes) <= 2
    BY <2>1, <2>3, <2>4
  <2>. QED BY <2>1, <2>2, <2>3, <2>5 DEF pushes
<1>6. CASE Len(to) = 2
  <2>1. pushes = push(2) \o push(1) /\ DOMAIN to = {1, 2}
    BY <1>a, <1>2, <1>6
  <2>2. Targets(func, b) = {to[1], to[2]}
    BY <1>1, <2>1 DEF Items
  <2>3. /\ push(1) \in Seq(Stacked) /\ Len(push(1)) <= 1
        /\ to[1] \in seen \/ Waiting(to[1]) \in Items(push(1))
        /\ \A i \in Items(push(1)) : ~i.processed
    BY <1>3, <2>1
  <2>4. /\ push(2) \in Seq(Stacked) /\ Len(push(2)) <= 1
        /\ to[2] \in seen \/ Waiting(to[2]) \in Items(push(2))
        /\ \A i \in Items(push(2)) : ~i.processed
    BY <1>3, <2>1
  <2>5. Waiting(b) \in Stacked
    BY DEF Waiting, Stacked
  <2>6. Items(pushes) = Items(push(2)) \cup Items(push(1))
    BY <2>1, <2>3, <2>4, <2>5, ItemsOf
  <2>7. pushes \in Seq(Stacked) /\ Len(pushes) <= 2
    BY <2>1, <2>3, <2>4
  <2>. QED BY <2>2, <2>3, <2>4, <2>6, <2>7 DEF pushes
<1>7. to = <<>> \/ Len(to) = 1 \/ Len(to) = 2
  BY <1>a
<1>. QED BY <1>4, <1>5, <1>6, <1>7

Walks == [stack : Seq(Stacked), visited : SUBSET DOMAIN func, post : Seq(DOMAIN func)]

\* Every block that the walk has entered is on the stack or behind it, its successors
\* are entered or on the stack.
WalkOk(w) ==
    /\ w \in Walks
    /\ \A v \in w.visited : v \in Items(w.post) \/ \E i \in Items(w.stack) : i.node = v /\ i.processed
    /\ Items(w.post) \subseteq w.visited
    /\ \A i \in Items(w.stack) : i.processed => i.node \in w.visited
    /\ \A v \in w.visited : \A s \in Targets(func, v) : s \in w.visited \/ Waiting(s) \in Items(w.stack)
    /\ Entry \in w.visited \/ Waiting(Entry) \in Items(w.stack)

\* What is left to do: every step makes it smaller.
Free(visited) == Cardinality(DOMAIN func \ visited)
WalkLeft(w) == 3 * Free(w.visited) + Len(w.stack)

LEMMA FreeBlocks ==
  ASSUME func \in Functions, NEW visited
  PROVE  /\ Free(visited) \in Nat
         /\ \A b \in DOMAIN func \ visited : Free(visited \cup {b}) = Free(visited) - 1
<1>1. IsFiniteSet(DOMAIN func)
  <2>1. DOMAIN func = 1..Len(func) /\ Len(func) \in Nat
    BY TheFunction
  <2>. QED BY <2>1, FS_Interval
<1> DEFINE F == DOMAIN func \ visited
<1>2. IsFiniteSet(F) /\ Cardinality(F) \in Nat
  BY <1>1, FS_Subset, FS_CardinalityType, F \subseteq DOMAIN func
<1>3. ASSUME NEW b \in F PROVE Cardinality(DOMAIN func \ (visited \cup {b})) = Cardinality(F) - 1
  <2>1. DOMAIN func \ (visited \cup {b}) = F \ {b}
    OBVIOUS
  <2>2. Cardinality(F \ {b}) = Cardinality(F) - 1
    <3>. HIDE DEF F
    <3>. QED BY <1>2, FS_RemoveElement
  <2>. QED BY <2>1, <2>2
<1>. QED BY <1>2, <1>3 DEF Free

LEMMA ItemsAppend ==
  ASSUME NEW T, NEW q \in Seq(T), NEW e \in T
  PROVE  Append(q, e) \in Seq(T) /\ Len(Append(q, e)) = Len(q) + 1 /\ Items(Append(q, e)) = Items(q) \cup {e}
<1>1. Items(q \o q) = Items(q) \cup Items(q) /\ Items(Append(q, e)) = Items(q) \cup {e}
  BY ItemsOf
<1>. QED BY <1>1

LEMMA Shorter ==
  ASSUME NEW f \in Nat, NEW n \in Nat, n # 0
  PROVE  3 * f + (n - 1) \in Nat /\ 3 * f + (n - 1) < 3 * f + n
OBVIOUS

LEMMA OneFewer ==
  ASSUME NEW f \in Nat, NEW g \in Nat, g = f - 1, NEW n \in Nat, NEW p \in Nat, p <= 2
  PROVE  3 * g + (n + p) \in Nat /\ 3 * g + (n + p) < 3 * f + n
OBVIOUS

LEMMA WalkStepOk ==
  ASSUME func \in Functions, NEW w, WalkOk(w)
  PROVE  /\ WalkOk(WalkStep(func, w, TRUE))
         /\ WalkLeft(WalkStep(func, w, TRUE)) \in Nat /\ WalkLeft(w) \in Nat
         /\ w.stack # <<>> => WalkLeft(WalkStep(func, w, TRUE)) < WalkLeft(w)
         /\ w.stack = <<>> => WalkStep(func, w, TRUE) = w
<1> DEFINE top  == w.stack[Len(w.stack)]
           rest == SubSeq(w.stack, 1, Len(w.stack) - 1)
           seen == w.visited \cup {top.node}
           next == WalkStep(func, w, TRUE)
<1>1. w \in Walks /\ w.stack \in Seq(Stacked) /\ Len(w.stack) \in Nat /\ w.post \in Seq(DOMAIN func)
      /\ w.visited \subseteq DOMAIN func
      /\ w = [stack |-> w.stack, visited |-> w.visited, post |-> w.post]
  BY DEF WalkOk, Walks
<1>3. Free(w.visited) \in Nat
  BY FreeBlocks
<1>0. Len(w.stack) \in Nat /\ (w.stack # <<>> => Len(w.stack) # 0)
  BY <1>1
<1>4. WalkLeft(w) = 3 * Free(w.visited) + Len(w.stack) /\ WalkLeft(w) \in Nat
  BY <1>0, <1>3 DEF WalkLeft
<1>5. CASE w.stack = <<>>
  <2>1. next = w
    BY <1>5 DEF WalkStep
  <2>. QED BY <1>4, <1>5, <2>1
<1>6. CASE w.stack # <<>>
  <2>1. /\ rest \in Seq(Stacked) /\ Len(rest) = Len(w.stack) - 1
        /\ top \in Stacked
        /\ Items(w.stack) = Items(rest) \cup {top}
    BY <1>1, <1>6, ItemsOf
  <2>2. top.node \in DOMAIN func /\ top.processed \in BOOLEAN /\ top = [node |-> top.node, processed |-> top.processed]
    BY <2>1 DEF Stacked
  <2>3. Len(w.stack) # 0
    BY <1>1, <1>6
  <2>. HIDE DEF top, rest, next
  <2>4. CASE top.processed
    <3>1. next = [stack |-> rest, visited |-> w.visited, post |-> Append(w.post, top.node)]
      <4>1. next = [w EXCEPT !.stack = rest, !.post = Append(w.post, top.node)]
        BY <1>6, <2>4 DEF WalkStep, next, top, rest
      <4>. QED BY <1>1, <4>1
    <3>2. Items(Append(w.post, top.node)) = Items(w.post) \cup {top.node}
      BY <1>1, <2>2, ItemsOf
    <3>3. next \in Walks
      BY <1>1, <2>1, <2>2, <3>1 DEF Walks
    <3>4. \A s : Waiting(s) # top
      BY <2>4 DEF Waiting
    <3>5. top.node \in w.visited
      BY <2>1, <2>4 DEF WalkOk
    <3>6. WalkOk(next)
      BY <2>1, <3>1, <3>2, <3>3, <3>4, <3>5 DEF WalkOk
    <3>7. WalkLeft(next) = 3 * Free(w.visited) + Len(rest)
      BY <3>1 DEF WalkLeft
    <3>8. WalkLeft(next) \in Nat /\ WalkLeft(next) < WalkLeft(w)
      <4>1. Len(rest) = Len(w.stack) - 1 /\ Len(w.stack) # 0
        BY <1>0, <1>6, <2>1
      <4>. QED BY <1>0, <1>3, <1>4, <3>7, <4>1, Shorter
    <3>. QED BY <1>4, <1>6, <3>6, <3>7, <3>8 DEF next
  <2>5. CASE ~top.processed /\ top.node \in w.visited
    <3>1. next = [stack |-> rest, visited |-> w.visited, post |-> w.post]
      <4>1. next = [w EXCEPT !.stack = rest]
        BY <1>6, <2>5 DEF WalkStep, next, top, rest
      <4>. QED BY <1>1, <4>1
    <3>2. next \in Walks
      BY <1>1, <2>1, <3>1 DEF Walks
    <3>3. \A s : Waiting(s) = top => s \in w.visited
      BY <2>5 DEF Waiting
    <3>4. WalkOk(next)
      BY <2>1, <2>5, <3>1, <3>2, <3>3 DEF WalkOk
    <3>5. WalkLeft(next) = 3 * Free(w.visited) + Len(rest)
      BY <3>1 DEF WalkLeft
    <3>6. WalkLeft(next) \in Nat /\ WalkLeft(next) < WalkLeft(w)
      <4>1. Len(rest) = Len(w.stack) - 1 /\ Len(w.stack) # 0
        BY <1>0, <1>6, <2>1
      <4>. QED BY <1>0, <1>3, <1>4, <3>5, <4>1, Shorter
    <3>. QED BY <1>4, <1>6, <3>4, <3>5, <3>6 DEF next
  <2>6. CASE ~top.processed /\ top.node \notin w.visited
    <3> DEFINE turned == [node |-> top.node, processed |-> TRUE]
               pushes == Pushes(func, top.node, seen, TRUE)
               back == Append(rest, turned)
               stack == back \o pushes
    <3>1. next = [stack |-> stack, visited |-> seen, post |-> w.post]
      BY <1>6, <2>6 DEF WalkStep, next, top, rest
    <3>2. /\ pushes \in Seq(Stacked) /\ Len(pushes) <= 2
          /\ \A s \in Targets(func, top.node) : s \in seen \/ Waiting(s) \in Items(pushes)
          /\ \A i \in Items(pushes) : ~i.processed
      BY <2>2, PushesOf
    <3>3. turned = [node |-> top.node, processed |-> TRUE] /\ turned \in Stacked
      BY <2>2 DEF Stacked
    <3>. HIDE DEF turned, pushes
    <3>4. /\ back \in Seq(Stacked) /\ Len(back) = Len(w.stack)
          /\ Items(back) = Items(rest) \cup {turned}
      <4>1. back \in Seq(Stacked) /\ Len(back) = Len(rest) + 1 /\ Items(back) = Items(rest) \cup {turned}
        <5>1. rest \in Seq(Stacked) /\ turned \in Stacked
          BY <2>1, <3>3
        <5>. QED BY <5>1, ItemsAppend
      <4>. QED BY <1>0, <2>1, <4>1
    <3>. HIDE DEF back
    <3>5. /\ stack \in Seq(Stacked) /\ Len(stack) = Len(w.stack) + Len(pushes)
          /\ Items(stack) = Items(rest) \cup {turned} \cup Items(pushes)
      BY <3>2, <3>3, <3>4, ItemsOf
    <3>. HIDE DEF stack
    <3>6. next \in Walks /\ next.stack = stack /\ next.visited = seen /\ next.post = w.post
      BY <1>1, <2>2, <3>1, <3>5 DEF Walks
    <3>7. \A s : Waiting(s) = top => s = top.node
      BY DEF Waiting
    <3>8. turned.node = top.node /\ turned.processed
      BY <3>3
    <3>. HIDE DEF seen
    <3>9. top.node \in seen /\ w.visited \subseteq seen /\ seen \subseteq w.visited \cup {top.node}
      BY DEF seen
    <3>10. WalkOk(next)
      <4>1. ASSUME NEW v \in seen
            PROVE  v \in Items(w.post) \/ \E i \in Items(stack) : i.node = v /\ i.processed
        <5>1. CASE v = top.node
          BY <3>5, <3>8, <5>1
        <5>2. CASE v \in w.visited
          <6>1. v \in Items(w.post) \/ \E i \in Items(w.stack) : i.node = v /\ i.processed
            BY <5>2 DEF WalkOk
          <6>. QED BY <2>1, <2>6, <3>5, <6>1
        <5>. QED BY <3>9, <5>1, <5>2
      <4>2. Items(w.post) \subseteq seen
        BY <3>9 DEF WalkOk
      <4>3. \A i \in Items(stack) : i.processed => i.node \in seen
        BY <2>1, <3>2, <3>5, <3>8, <3>9 DEF WalkOk
      <4>4. ASSUME NEW s, s \in w.visited \/ Waiting(s) \in Items(w.stack)
            PROVE  s \in seen \/ Waiting(s) \in Items(stack)
        BY <2>1, <3>5, <3>7, <3>9, <4>4
      <4>5. ASSUME NEW v \in seen, NEW s \in Targets(func, v)
            PROVE  s \in seen \/ Waiting(s) \in Items(stack)
        <5>1. CASE v = top.node
          BY <3>2, <3>5, <5>1
        <5>2. CASE v \in w.visited
          <6>1. s \in w.visited \/ Waiting(s) \in Items(w.stack)
            BY <5>2 DEF WalkOk
          <6>. QED BY <4>4, <6>1
        <5>. QED BY <3>9, <5>1, <5>2
      <4>6. Entry \in seen \/ Waiting(Entry) \in Items(stack)
        BY <4>4 DEF WalkOk
      <4>. QED BY <3>6, <4>1, <4>2, <4>3, <4>5, <4>6 DEF WalkOk
    <3>11. Free(seen) = Free(w.visited) - 1
      BY <2>2, <2>6, FreeBlocks DEF seen
    <3>12. Len(pushes) \in Nat /\ Free(seen) \in Nat
      BY <3>2, FreeBlocks
    <3>13. WalkLeft(next) = 3 * Free(seen) + Len(stack)
      BY <3>6 DEF WalkLeft
    <3>14. WalkLeft(next) \in Nat /\ WalkLeft(next) < WalkLeft(w)
      <4>1. Len(stack) = Len(w.stack) + Len(pushes) /\ Len(pushes) <= 2
        BY <3>2, <3>5
      <4>. QED BY <1>0, <1>3, <1>4, <3>11, <3>12, <3>13, <4>1, OneFewer
    <3>. QED BY <1>4, <1>6, <3>10, <3>14 DEF next
  <2>. QED BY <2>2, <2>4, <2>5, <2>6
<1>. QED BY <1>5, <1>6

Turns == WalkTurns(func)
TheWalk == Walk(func, Entry, TRUE)

LEMMA WalkSteps ==
  ASSUME func \in Functions
  PROVE  /\ Turns \in Nat
         /\ TheWalk[0] = WalkStart(Entry)
         /\ \A n \in 1..Turns : TheWalk[n] = WalkStep(func, TheWalk[n - 1], TRUE)
<1> DEFINE Turn(w, i) == IF i = 0 THEN WalkStart(Entry) ELSE WalkStep(func, w, TRUE)
           Is(g, n) == g = [i \in 0..n |-> Turn(g[i - 1], i)]
           S == {n \in Nat : \E g : Is(g, n)}
<1>0. Turns \in Nat
  <2>1. Free({}) \in Nat /\ DOMAIN func \ {} = DOMAIN func
    BY FreeBlocks
  <2>2. Cardinality(DOMAIN func) \in Nat
    BY <2>1 DEF Free
  <2>. QED BY <2>2 DEF Turns, WalkTurns
<1>1. 0 \in S
  <2> DEFINE g0 == [i \in 0..0 |-> WalkStart(Entry)]
  <2>1. Is(g0, 0)
    OBVIOUS
  <2>. HIDE DEF Is, g0
  <2>. QED BY <2>1
<1>2. ASSUME NEW n \in 1..Turns, n - 1 \in S PROVE n \in S
  <2>1. PICK g : Is(g, n - 1)
    BY <1>2
  <2>. HIDE DEF Turn
  <2> DEFINE h == [i \in 0..n |-> IF i = n THEN Turn(g[n - 1], n) ELSE g[i]]
  <2>2. g = [i \in 0..(n - 1) |-> Turn(g[i - 1], i)]
    BY <2>1
  <2>3. ASSUME NEW i \in 0..n PROVE h[i] = Turn(h[i - 1], i)
    <3>1. CASE i = n
      BY <3>1
    <3>2. CASE i = 0
      <4>1. g[0] = Turn(g[0 - 1], 0) /\ h[0] = g[0]
        BY <2>2
      <4>. QED BY <3>2, <4>1 DEF Turn
    <3>3. CASE i # n /\ i # 0
      <4>1. h[i - 1] = g[i - 1] /\ h[i] = g[i] /\ i \in 0..(n - 1)
        BY <3>3
      <4>. QED BY <2>2, <4>1
    <3>. QED BY <3>1, <3>2, <3>3
  <2>4. Is(h, n)
    BY <2>3
  <2>. HIDE DEF Is, h
  <2>. QED BY <2>4
<1>3. PICK g : Is(g, Turns)
  <2>1. \A n \in 0..Turns : n \in S
    <3>. HIDE DEF S
    <3>. QED BY <1>0, <1>1, <1>2, Climb
  <2>2. Turns \in S
    <3>. HIDE DEF S
    <3>. QED BY <1>0, <2>1
  <2>. HIDE DEF Is
  <2>. QED BY <2>2
<1>4. Is(TheWalk, Turns)
  BY <1>3, Zenon DEF TheWalk, Walk, Turns
<1>5. \A i \in 0..Turns : TheWalk[i] = Turn(TheWalk[i - 1], i)
  <2>. HIDE DEF Turn
  <2>. QED BY <1>4
<1>6. \A n \in 1..Turns : n \in 0..Turns /\ n # 0
  BY <1>0
<1>7. 0 \in 0..Turns
  BY <1>0
<1>. QED BY <1>0, <1>5, <1>6, <1>7

LEMMA WalkStarts ==
  ASSUME func \in Functions
  PROVE  WalkOk(WalkStart(Entry)) /\ WalkLeft(WalkStart(Entry)) = Turns
<1> DEFINE w == WalkStart(Entry)
<1>1. Entry \in DOMAIN func
  BY TheFunction DEF Entry
<1>2. w.stack = <<Waiting(Entry)>> /\ w.visited = {} /\ w.post = <<>> /\ Waiting(Entry) \in Stacked
  BY <1>1 DEF WalkStart, Waiting, Stacked
<1>3. w \in Walks
  <2>1. <<Waiting(Entry)>> \in Seq(Stacked)
    BY <1>2
  <2>. QED BY <1>2, <2>1 DEF WalkStart, Waiting, Walks
<1>. HIDE DEF w
<1>4. Items(w.stack) = {Waiting(Entry)} /\ Items(w.post) = {} /\ ~Waiting(Entry).processed
  <2>1. Items(<<Waiting(Entry)>>) = {Waiting(Entry)} /\ Items(<<>>) = {}
    BY DEF Items
  <2>2. ~Waiting(Entry).processed
    BY DEF Waiting
  <2>. QED BY <1>2, <2>1, <2>2
<1>5. WalkOk(w)
  BY <1>2, <1>3, <1>4 DEF WalkOk
<1>6. WalkLeft(w) = Turns
  <2>1. DOMAIN func \ {} = DOMAIN func /\ Len(w.stack) = 1
    BY <1>2
  <2>. QED BY <1>2, <2>1 DEF WalkLeft, Free, Turns, WalkTurns
<1>. QED BY <1>5, <1>6 DEF w

\* The walk ends within its turns.
LEMMA WalkEnds ==
  ASSUME func \in Functions
  PROVE  WalkOk(TheWalk[Turns]) /\ TheWalk[Turns].stack = <<>>
<1> DEFINE W(n) == TheWalk[n]
           Good(n) == WalkOk(W(n)) /\ (W(n).stack = <<>> \/ WalkLeft(W(n)) <= Turns - n)
           S == {n \in 0..Turns : Good(n)}
<1>0. Turns \in Nat /\ W(0) = WalkStart(Entry) /\ \A n \in 1..Turns : W(n) = WalkStep(func, W(n - 1), TRUE)
  BY WalkSteps
<1>. HIDE DEF W
<1>1. 0 \in S
  BY <1>0, WalkStarts
<1>2. ASSUME NEW n \in 1..Turns, n - 1 \in S PROVE n \in S
  <2> DEFINE w == W(n - 1)
             next == W(n)
  <2>1. WalkOk(w) /\ (w.stack = <<>> \/ WalkLeft(w) <= Turns - (n - 1)) /\ next = WalkStep(func, w, TRUE)
    BY <1>0, <1>2
  <2>. HIDE DEF w, next
  <2>2. /\ WalkOk(next)
        /\ WalkLeft(next) \in Nat /\ WalkLeft(w) \in Nat
        /\ w.stack # <<>> => WalkLeft(next) < WalkLeft(w)
        /\ w.stack = <<>> => next = w
    BY <2>1, WalkStepOk
  <2>3. next.stack = <<>> \/ WalkLeft(next) <= Turns - n
    <3>1. CASE w.stack = <<>>
      BY <2>2, <3>1
    <3>2. CASE w.stack # <<>>
      <4>1. WalkLeft(w) <= Turns - (n - 1) /\ WalkLeft(next) < WalkLeft(w)
        BY <2>1, <2>2, <3>2
      <4>2. WalkLeft(next) \in Nat /\ WalkLeft(w) \in Nat /\ Turns \in Nat
        BY <1>0, <2>2
      <4>. HIDE DEF S
      <4>3. WalkLeft(next) <= Turns - n
        BY <4>1, <4>2
      <4>. QED BY <4>3
    <3>. QED BY <3>1, <3>2
  <2>. QED BY <1>0, <2>2, <2>3 DEF next
<1>3. Good(Turns)
  <2>1. \A n \in 0..Turns : n \in S
    <3>. HIDE DEF S
    <3>. QED BY <1>0, <1>1, <1>2, Climb
  <2>. QED BY <1>0, <2>1
<1>4. CASE W(Turns).stack # <<>>
  <2> DEFINE w == W(Turns)
  <2>1. WalkLeft(w) <= 0 /\ WalkOk(w)
    BY <1>0, <1>3, <1>4
  <2>2. w.stack \in Seq(Stacked) /\ Free(w.visited) \in Nat
    BY <2>1, FreeBlocks DEF WalkOk, Walks
  <2>3. Len(w.stack) \in Nat /\ Len(w.stack) # 0
    BY <1>4, <2>2
  <2>4. WalkLeft(w) = 3 * Free(w.visited) + Len(w.stack)
    BY DEF WalkLeft
  <2>5. 3 * Free(w.visited) + (Len(w.stack) - 1) \in Nat /\ 3 * Free(w.visited) + (Len(w.stack) - 1) < WalkLeft(w)
    BY <2>2, <2>3, <2>4, Shorter
  <2>6. WalkLeft(w) \in Nat
    BY <1>4, <2>1, WalkStepOk
  <2>. HIDE DEF w
  <2>. QED BY <2>1, <2>5, <2>6
<1>. QED BY <1>3, <1>4 DEF W

(* The reverse post-order leaves no block out that control can reach: the walk's stack
   is empty after the turns it is given, and what a block of the order leads to is in
   the order.  A block outside it would never be analysed. *)
THEOREM OrderHolds == ASSUME func \in Functions PROVE OrderOk
<1> DEFINE w == TheWalk[Turns]
           post == w.post
<1>1. WalkOk(w) /\ w.stack = <<>>
  BY WalkEnds
<1>2. Rpo = [i \in 1..Len(post) |-> post[Len(post) + 1 - i]]
  BY DEF Rpo, ReversePostOrder, ReversePostOrderFrom, TheWalk, Turns
<1>. HIDE DEF w
<1>3. post \in Seq(DOMAIN func) /\ Len(post) \in Nat /\ DOMAIN post = 1..Len(post) /\ w.visited \subseteq DOMAIN func
  BY <1>1 DEF WalkOk, Walks
<1>. HIDE DEF post
<1>4. Rpo \in Seq(DOMAIN func) /\ Len(Rpo) = Len(post) /\ DOMAIN Rpo = 1..Len(Rpo)
  BY <1>2, <1>3
<1>5. InRpo = Items(post)
  <2>1. \A i \in 1..Len(post) : Len(post) + 1 - i \in 1..Len(post) /\ Rpo[i] = post[Len(post) + 1 - i]
                                /\ post[i] = Rpo[Len(post) + 1 - i]
    BY <1>2, <1>3
  <2>2. InRpo \subseteq Items(post)
    BY <1>3, <1>4, <2>1 DEF InRpo, Items
  <2>3. Items(post) \subseteq InRpo
    BY <1>3, <1>4, <2>1 DEF InRpo, Items
  <2>. QED BY <2>2, <2>3
<1>6. Items(w.stack) = {}
  BY <1>1 DEF Items
<1>7. Items(post) = w.visited
  BY <1>1, <1>6 DEF WalkOk, post
<1>8. Entry \in w.visited /\ \A v \in w.visited : \A s \in Targets(func, v) : s \in w.visited
  BY <1>1, <1>6 DEF WalkOk
<1>. QED BY <1>3, <1>4, <1>5, <1>7, <1>8 DEF OrderOk

(* --------------------------- the guarded function ------------------------ *)

Marks(b, i) == MarkedAt(AllGuards, b, i)

\* What is guarded is used at its place.
LEMMA GuardsAreUses ==
  ASSUME func \in Functions, DOMAIN blockIn \subseteq DOMAIN func, NEW g \in AllGuards
  PROVE  g[1] \in DOMAIN func /\ g[2] \in 1..Past(g[1]) /\ g[3] \in UsesAt(g[1], g[2]) /\ g[3] \in Values
<1>1. CASE \E p \in Sites : g \in GuardsAt(p[1], p[2])
  <2>1. PICK p \in Sites : g \in GuardsAt(p[1], p[2])
    BY <1>1
  <2>2. p[1] \in DOMAIN func /\ p[2] \in DOMAIN func[p[1]].insts
    BY DEF Sites
  <2>3. g[1] = p[1] /\ g[2] = p[2] /\ g[3] \in InstUses(func[p[1]].insts[p[2]])
    BY <2>1 DEF GuardsAt, Unproven
  <2>4. p[2] \in 1..Past(p[1]) /\ p[2] # Past(p[1])
    <3>1. Len(func[p[1]].insts) \in Nat /\ DOMAIN func[p[1]].insts = 1..Len(func[p[1]].insts)
      BY <2>2, TheFunction
    <3>. QED BY <2>2, <3>1 DEF Past
  <2>5. InstUses(func[p[1]].insts[p[2]]) \subseteq Values
    BY <2>2, TheFunction DEF InstOK
  <2>. QED BY <2>2, <2>3, <2>4, <2>5 DEF UsesAt
<1>2. CASE \E b \in DOMAIN blockIn : g \in TermGuards(b)
  <2>1. PICK b \in DOMAIN blockIn : g \in TermGuards(b)
    BY <1>2
  <2>2. g[1] = b /\ g[2] = Past(b) /\ g[3] \in TermUses(func[b].term)
    BY <2>1 DEF TermGuards, Unproven
  <2>3. b \in DOMAIN func /\ Past(b) \in 1..Past(b)
    BY TheFunction DEF Past
  <2>4. TermUses(func[b].term) \subseteq Values
    BY <2>3, TheFunction
  <2>. QED BY <2>2, <2>3, <2>4 DEF UsesAt
<1> DEFINE A == UNION {GuardsAt(p[1], p[2]) : p \in Sites}
           B == UNION {TermGuards(b) : b \in DOMAIN blockIn}
<1>3. AllGuards = A \cup B
  BY Zenon DEF AllGuards
<1>4. g \in A => \E p \in Sites : g \in GuardsAt(p[1], p[2])
  BY Zenon
<1>5. g \in B => \E b \in DOMAIN blockIn : g \in TermGuards(b)
  BY Zenon
<1>. HIDE DEF A, B
<1>. QED BY <1>1, <1>2, <1>3, <1>4, <1>5

\* Every value of a finite set has its place in the order.
LEMMA OrderedSet ==
  ASSUME NEW S, IsFiniteSet(S)
  PROVE  /\ InSomeOrder(S) \in Seq(S)
         /\ \A v \in S : \E k \in 1..Len(InSomeOrder(S)) : InSomeOrder(S)[k] = v
<1> DEFINE n == Cardinality(S)
           Onto(q) == \A v \in S : \E k \in DOMAIN q : q[k] = v
<1>1. n \in Nat /\ ExistsBijection(1..n, S)
  BY FS_CardinalityType
<1>2. PICK q : q \in Bijection(1..n, S)
  BY <1>1 DEF ExistsBijection
<1>3. q \in [1..n -> S] /\ Onto(q)
  BY <1>2 DEF Bijection, Surjection
<1>4. InSomeOrder(S) \in [1..n -> S] /\ Onto(InSomeOrder(S))
  BY <1>3 DEF InSomeOrder
<1>5. InSomeOrder(S) \in Seq(S) /\ DOMAIN InSomeOrder(S) = 1..n /\ Len(InSomeOrder(S)) = n
  <2>. HIDE DEF n
  <2>. QED BY <1>1, <1>4
<1>. QED BY <1>4, <1>5

LEMMA MarksOf ==
  ASSUME func \in Functions, DOMAIN blockIn \subseteq DOMAIN func, NEW b, NEW i
  PROVE  /\ Marks(b, i) \in Seq(Values)
         /\ \A v : <<b, i, v>> \in AllGuards => \E k \in 1..Len(Marks(b, i)) : Marks(b, i)[k] = v
<1> DEFINE S == {g[3] : g \in {g \in AllGuards : g[1] = b /\ g[2] = i}}
<1>1. S \in SUBSET Values
  BY GuardsAreUses
<1>2. IsFiniteSet(Values)
  BY TheFunction, FS_Interval DEF Values
<1>3. IsFiniteSet(S)
  BY <1>1, <1>2, FS_Subset
<1>4. Marks(b, i) = InSomeOrder(S)
  BY DEF Marks, MarkedAt
<1>5. ASSUME NEW v, <<b, i, v>> \in AllGuards PROVE v \in S
  BY <1>5
<1>. HIDE DEF S
<1>6. InSomeOrder(S) \in Seq(S) /\ \A v \in S : \E k \in 1..Len(InSomeOrder(S)) : InSomeOrder(S)[k] = v
  BY <1>3, OrderedSet
<1>7. Seq(S) \subseteq Seq(Values)
  BY <1>1
<1>. QED BY <1>4, <1>5, <1>6, <1>7

\* The block with its guards up to instruction i.
Inserted(b) == GuardedInsts(b, AllGuards)

LEMMA InsertStep ==
  ASSUME func \in Functions, NEW b \in DOMAIN func
  PROVE  /\ Inserted(b)[0] = <<>>
         /\ \A i \in 1..Len(func[b].insts) : Inserted(b)[i] = Inserted(b)[i - 1] \o Around(b, AllGuards, i)
<1> DEFINE size == Len(func[b].insts)
           More(acc, i) == IF i = 0 THEN <<>> ELSE acc \o Around(b, AllGuards, i)
           Is(g, n) == g = [i \in 0..n |-> More(g[i - 1], i)]
           S == {n \in Nat : \E g : Is(g, n)}
<1>0. size \in Nat
  BY TheFunction
<1>1. 0 \in S
  <2> DEFINE g0 == [i \in 0..0 |-> <<>>]
  <2>1. Is(g0, 0)
    OBVIOUS
  <2>. HIDE DEF Is, g0
  <2>. QED BY <2>1
<1>2. ASSUME NEW n \in 1..size, n - 1 \in S PROVE n \in S
  <2>1. PICK g : Is(g, n - 1)
    BY <1>2
  <2>0. n \in Nat /\ n # 0
    BY <1>0
  <2>. HIDE DEF More, size
  <2> DEFINE h == [i \in 0..n |-> IF i = n THEN More(g[n - 1], n) ELSE g[i]]
  <2>2. g = [i \in 0..(n - 1) |-> More(g[i - 1], i)]
    BY <2>1
  <2>3. ASSUME NEW i \in 0..n PROVE h[i] = More(h[i - 1], i)
    <3>1. CASE i = n
      BY <2>0, <3>1
    <3>2. CASE i = 0
      <4>1. g[0] = More(g[0 - 1], 0) /\ h[0] = g[0]
        BY <2>0, <2>2
      <4>. QED BY <3>2, <4>1 DEF More
    <3>3. CASE i # n /\ i # 0
      <4>1. h[i - 1] = g[i - 1] /\ h[i] = g[i] /\ i \in 0..(n - 1)
        BY <2>0, <3>3
      <4>. QED BY <2>2, <4>1
    <3>. QED BY <3>1, <3>2, <3>3
  <2>4. Is(h, n)
    BY <2>3
  <2>. HIDE DEF Is, h
  <2>. QED BY <2>0, <2>4
<1>3. PICK g : Is(g, size)
  <2>1. \A n \in 0..size : n \in S
    <3>. HIDE DEF S, size
    <3>. QED BY <1>0, <1>1, <1>2, Climb
  <2>2. size \in S
    <3>. HIDE DEF S, size
    <3>. QED BY <1>0, <2>1
  <2>. HIDE DEF Is
  <2>. QED BY <2>2
<1>4. Is(Inserted(b), size)
  BY <1>3, Zenon DEF Inserted, GuardedInsts
<1>5. \A i \in 0..size : Inserted(b)[i] = More(Inserted(b)[i - 1], i)
  <2>. HIDE DEF More, size
  <2>. QED BY <1>4
<1>6. \A n \in 1..size : n \in 0..size /\ n # 0
  BY <1>0
<1>7. 0 \in 0..size
  BY <1>0
<1>. QED BY <1>0, <1>5, <1>6, <1>7

IsGuard(inst) == inst.op = "call" /\ inst.name \in GuardCalls

CodeInsts == Instructions \cup {Inst("call", 0, <<v>>, name) : v \in Values, name \in GuardCalls}

\* q and r, one after the other.
IsConcat(s, q, r) ==
    /\ s \in Seq(CodeInsts)
    /\ Len(q) \in Nat /\ Len(r) \in Nat /\ Len(s) = Len(q) + Len(r)
    /\ \A k \in 1..Len(q) : s[k] = q[k]
    /\ \A k \in 1..Len(r) : s[Len(q) + k] = r[k]

LEMMA Concat ==
  ASSUME NEW q \in Seq(CodeInsts), NEW r \in Seq(CodeInsts)
  PROVE  IsConcat(q \o r, q, r)
BY DEF IsConcat

LEMMA GuardCallIs ==
  ASSUME NEW m \in Seq(Values), NEW name \in GuardCalls
  PROVE  /\ GuardCall(name, m) \in Seq(CodeInsts) /\ Len(GuardCall(name, m)) = Len(m)
         /\ \A k \in 1..Len(m) : /\ IsGuard(GuardCall(name, m)[k])
                                 /\ GuardCall(name, m)[k].name = name /\ GuardCall(name, m)[k].args = <<m[k]>>
<1>1. Len(m) \in Nat /\ DOMAIN m = 1..Len(m) /\ \A k \in 1..Len(m) : m[k] \in Values
  OBVIOUS
<1> DEFINE I(v) == Inst("call", 0, <<v>>, name)
<1>2. ASSUME NEW v \in Values
      PROVE  I(v) \in CodeInsts /\ IsGuard(I(v)) /\ I(v).name = name /\ I(v).args = <<v>>
  <2>1. I(v) \in CodeInsts
    BY DEF CodeInsts
  <2>2. I(v) = [op |-> "call", dest |-> 0, args |-> <<v>>, name |-> name]
    BY DEF Inst
  <2>. HIDE DEF I
  <2>3. IsGuard(I(v))
    BY <2>2 DEF IsGuard
  <2>. QED BY <2>1, <2>2, <2>3
<1>3. GuardCall(name, m) = [k \in 1..Len(m) |-> I(m[k])]
  BY <1>1 DEF GuardCall
<1>. HIDE DEF I
<1>4. GuardCall(name, m) \in Seq(CodeInsts) /\ Len(GuardCall(name, m)) = Len(m)
  BY <1>1, <1>2, <1>3
<1>. QED BY <1>1, <1>2, <1>3, <1>4

\* Guards, the instruction, guards.
LEMMA AroundIs ==
  ASSUME func \in Functions, DOMAIN blockIn \subseteq DOMAIN func, NEW b \in DOMAIN func,
         NEW i \in DOMAIN func[b].insts
  PROVE  LET a == Around(b, AllGuards, i)
             n == Len(Marks(b, i))
         IN  /\ a \in Seq(CodeInsts) /\ n \in Nat /\ Len(a) = 2 * n + 1
             /\ a[n + 1] = func[b].insts[i]
             /\ \A k \in 1..(2 * n + 1) : k # n + 1 => IsGuard(a[k])
             /\ \A k \in 1..n : a[k].name = "own_acquire" /\ a[k].args = <<Marks(b, i)[k]>>
<1> DEFINE m == Marks(b, i)
           n == Len(m)
           acq == GuardCall("own_acquire", m)
           rel == GuardCall("own_release", m)
           mid == <<func[b].insts[i]>>
           a == Around(b, AllGuards, i)
<1>1. m \in Seq(Values) /\ n \in Nat
  <2>1. m \in Seq(Values)
    BY MarksOf
  <2>. HIDE DEF m
  <2>. QED BY <2>1
<1>2. a = (acq \o mid) \o rel
  BY DEF Around, Marks
<1>3. mid \in Seq(CodeInsts) /\ Len(mid) = 1 /\ mid[1] = func[b].insts[i]
  <2>1. func[b].insts[i] \in Instructions
    BY TheFunction DEF InstOK
  <2>2. func[b].insts[i] \in CodeInsts
    BY <2>1 DEF CodeInsts
  <2>. QED BY <2>2
<1>. HIDE DEF m, mid
<1>4. /\ acq \in Seq(CodeInsts) /\ Len(acq) = n
      /\ \A k \in 1..n : IsGuard(acq[k]) /\ acq[k].name = "own_acquire" /\ acq[k].args = <<m[k]>>
  <2>1. "own_acquire" \in GuardCalls
    BY DEF GuardCalls
  <2>. QED BY <1>1, <2>1, GuardCallIs
<1>5. /\ rel \in Seq(CodeInsts) /\ Len(rel) = n
      /\ \A k \in 1..n : IsGuard(rel[k])
  <2>1. "own_release" \in GuardCalls
    BY DEF GuardCalls
  <2>. QED BY <1>1, <2>1, GuardCallIs
<1>. HIDE DEF acq, rel, a
<1>6. /\ acq \o mid \in Seq(CodeInsts) /\ Len(acq \o mid) = n + 1
      /\ \A k \in 1..n : (acq \o mid)[k] = acq[k]
      /\ (acq \o mid)[n + 1] = func[b].insts[i]
  <2>1. /\ acq \o mid \in Seq(CodeInsts) /\ Len(acq \o mid) = Len(acq) + Len(mid)
        /\ \A k \in 1..Len(acq) : (acq \o mid)[k] = acq[k]
        /\ \A k \in 1..Len(mid) : (acq \o mid)[Len(acq) + k] = mid[k]
    <3>1. IsConcat(acq \o mid, acq, mid)
      BY <1>3, <1>4, Concat
    <3>. QED BY <3>1 DEF IsConcat
  <2>2. 1 \in 1..Len(mid)
    BY <1>3
  <2>. QED BY <1>3, <1>4, <2>1, <2>2
<1>7. /\ a \in Seq(CodeInsts) /\ Len(a) = (n + 1) + n
      /\ \A k \in 1..(n + 1) : a[k] = (acq \o mid)[k]
      /\ \A k \in 1..n : a[(n + 1) + k] = rel[k]
  <2>. DEFINE half == acq \o mid
  <2>1. half \in Seq(CodeInsts) /\ Len(half) = n + 1
    BY <1>6
  <2>2. a = half \o rel
    BY <1>2
  <2>. HIDE DEF half
  <2>3. /\ a \in Seq(CodeInsts) /\ Len(a) = Len(half) + Len(rel)
        /\ \A k \in 1..Len(half) : a[k] = half[k]
        /\ \A k \in 1..Len(rel) : a[Len(half) + k] = rel[k]
    <3>1. IsConcat(half \o rel, half, rel)
      BY <1>5, <2>1, Concat
    <3>. QED BY <2>2, <3>1 DEF IsConcat
  <2>4. /\ a \in Seq(CodeInsts) /\ Len(a) = (n + 1) + n
        /\ \A k \in 1..(n + 1) : a[k] = half[k]
        /\ \A k \in 1..n : a[(n + 1) + k] = rel[k]
    BY <1>5, <2>1, <2>3
  <2>. QED BY <2>4 DEF half
<1>. HIDE DEF n
<1>8. ASSUME NEW k \in 1..(2 * n + 1), k # n + 1 PROVE IsGuard(a[k])
  <2>1. CASE k \in 1..n
    <3>1. k \in 1..(n + 1)
      BY <1>1, <2>1
    <3>. QED BY <1>4, <1>6, <1>7, <2>1, <3>1
  <2>2. CASE k \notin 1..n
    <3>1. k - (n + 1) \in 1..n /\ (n + 1) + (k - (n + 1)) = k
      BY <1>1, <1>8, <2>2
    <3>2. a[(n + 1) + (k - (n + 1))] = rel[k - (n + 1)]
      BY <1>7, <3>1
    <3>. QED BY <1>5, <3>1, <3>2
  <2>. QED BY <2>1, <2>2
<1>9. ASSUME NEW k \in 1..n PROVE a[k].name = "own_acquire" /\ a[k].args = <<m[k]>>
  <2>1. k \in 1..(n + 1)
    BY <1>1
  <2>. QED BY <1>4, <1>6, <1>7, <2>1
<1>10. a[n + 1] = func[b].insts[i]
  <2>1. n + 1 \in 1..(n + 1)
    BY <1>1
  <2>. QED BY <1>6, <1>7, <2>1
<1>11. Len(a) = 2 * n + 1
  BY <1>1, <1>7
<1>. QED BY <1>1, <1>7, <1>8, <1>9, <1>10, <1>11 DEF a, m, n

\* Where the guards of instruction i begin, less one, and where instruction i stands.
Ends(b, i) == Len(Inserted(b)[i])
Stands(b, i) == Ends(b, i - 1) + Len(Marks(b, i)) + 1

LEMMA InsertedIs ==
  ASSUME func \in Functions, DOMAIN blockIn \subseteq DOMAIN func, NEW b \in DOMAIN func
  PROVE  \A i \in 0..Len(func[b].insts) : Inserted(b)[i] \in Seq(CodeInsts)
<1> DEFINE size == Len(func[b].insts)
           S == {i \in 0..size : Inserted(b)[i] \in Seq(CodeInsts)}
<1>0. size \in Nat /\ DOMAIN func[b].insts = 1..size
  BY TheFunction
<1>1. 0 \in S
  <2>1. Inserted(b)[0] = <<>>
    BY InsertStep
  <2>2. Inserted(b)[0] \in Seq(CodeInsts)
    BY <2>1
  <2>. QED BY <1>0, <2>2
<1>2. ASSUME NEW i \in 1..size, i - 1 \in S PROVE i \in S
  <2> DEFINE s == Inserted(b)[i - 1]
             a == Around(b, AllGuards, i)
  <2>1. Inserted(b)[i] = s \o a
    BY InsertStep
  <2>2. s \in Seq(CodeInsts)
    BY <1>2
  <2>3. i \in DOMAIN func[b].insts
    BY <1>0
  <2>4. a \in Seq(CodeInsts)
    BY <2>3, AroundIs
  <2>. HIDE DEF s, a
  <2>5. IsConcat(s \o a, s, a)
    BY <2>2, <2>4, Concat
  <2>6. s \o a \in Seq(CodeInsts)
    BY <2>5 DEF IsConcat
  <2>7. i \in 0..size
    BY <1>0
  <2>. QED BY <2>1, <2>6, <2>7
<1>3. \A i \in 0..size : i \in S
  <2>. HIDE DEF S, size
  <2>. QED BY <1>0, <1>1, <1>2, Climb
<1>. QED BY <1>3

LEMMA EndsOf ==
  ASSUME func \in Functions, DOMAIN blockIn \subseteq DOMAIN func, NEW b \in DOMAIN func,
         NEW i \in DOMAIN func[b].insts
  PROVE  LET s == Inserted(b)[i - 1]
             a == Around(b, AllGuards, i)
             n == Len(Marks(b, i))
         IN  /\ IsConcat(Inserted(b)[i], s, a)
             /\ n \in Nat /\ Len(s) = Ends(b, i - 1) /\ Ends(b, i - 1) \in Nat /\ Len(a) = 2 * n + 1
             /\ Stands(b, i) = Ends(b, i - 1) + (n + 1)
             /\ Ends(b, i) = Ends(b, i - 1) + (2 * n + 1)
<1> DEFINE s == Inserted(b)[i - 1]
           a == Around(b, AllGuards, i)
           n == Len(Marks(b, i))
<1>0. Len(func[b].insts) \in Nat /\ DOMAIN func[b].insts = 1..Len(func[b].insts)
  BY TheFunction
<1>1. i \in 1..Len(func[b].insts) /\ i - 1 \in 0..Len(func[b].insts)
  BY <1>0
<1>2. Inserted(b)[i] = s \o a
  BY <1>1, InsertStep
<1>3. s \in Seq(CodeInsts)
  BY <1>1, InsertedIs
<1>4. a \in Seq(CodeInsts) /\ n \in Nat /\ Len(a) = 2 * n + 1
  BY AroundIs
<1>5. Len(s) = Ends(b, i - 1) /\ Ends(b, i) = Len(Inserted(b)[i])
  BY DEF Ends
<1>6. Stands(b, i) = Ends(b, i - 1) + n + 1
  BY DEF Stands
<1>. HIDE DEF s, a, n
<1>7. IsConcat(s \o a, s, a)
  BY <1>3, <1>4, Concat
<1>8. Len(s) \in Nat /\ Len(Inserted(b)[i]) = Len(s) + Len(a)
  BY <1>2, <1>7 DEF IsConcat
<1>9. Stands(b, i) = Ends(b, i - 1) + (n + 1)
  BY <1>4, <1>5, <1>6, <1>8
<1>10. Ends(b, i) = Ends(b, i - 1) + (2 * n + 1)
  BY <1>4, <1>5, <1>8
<1>. QED BY <1>2, <1>4, <1>5, <1>7, <1>8, <1>9, <1>10 DEF s, a, n

\* The first j instructions of b stand at their places in s, their acquires before
\* them; all else is guards, up to place m.
Fits(b, s, j, m) ==
    /\ \A i \in 1..j : Stands(b, i) \in 1..m /\ s[Stands(b, i)] = func[b].insts[i]
    /\ \A i \in 1..j : \A h \in 1..(i - 1) : Stands(b, h) < Stands(b, i)
    /\ \A i \in 1..j : Ends(b, i - 1) \in Nat /\ Len(Marks(b, i)) \in Nat
    /\ \A i \in 1..j : \A k \in 1..Len(Marks(b, i)) :
          LET guard == s[Ends(b, i - 1) + k]
          IN  IsGuard(guard) /\ guard.name = "own_acquire" /\ guard.args = <<Marks(b, i)[k]>>
    /\ \A n \in 1..m : (\E i \in 1..j : n = Stands(b, i)) \/ IsGuard(s[n])

LEMMA InFront ==
  ASSUME NEW e \in Nat, NEW n \in Nat, NEW k \in 1..n, NEW m \in Nat, e + n + 1 \in 1..m
  PROVE  e + k \in 1..m
OBVIOUS

LEMMA FitsBefore ==
  ASSUME NEW b, NEW s, NEW t, NEW r, NEW j \in Nat, IsConcat(t, s, r), Fits(b, s, j, Len(s))
  PROVE  Fits(b, t, j, Len(s))
<1>1. Len(s) \in Nat /\ \A k \in 1..Len(s) : t[k] = s[k]
  BY DEF IsConcat
<1>2. ASSUME NEW i \in 1..j PROVE Stands(b, i) \in 1..Len(s) /\ t[Stands(b, i)] = func[b].insts[i]
  BY <1>1 DEF Fits
<1>3. ASSUME NEW i \in 1..j, NEW k \in 1..Len(Marks(b, i))
      PROVE  t[Ends(b, i - 1) + k] = s[Ends(b, i - 1) + k]
  <2>1. Ends(b, i - 1) \in Nat /\ Len(Marks(b, i)) \in Nat /\ Stands(b, i) \in 1..Len(s)
    BY DEF Fits
  <2>2. Ends(b, i - 1) + k \in 1..Len(s)
    BY <1>1, <2>1, InFront DEF Stands
  <2>. QED BY <1>1, <2>2
<1>4. \A n \in 1..Len(s) : (\E i \in 1..j : n = Stands(b, i)) \/ IsGuard(t[n])
  BY <1>1 DEF Fits
<1>5. \A i \in 1..j : \A k \in 1..Len(Marks(b, i)) :
          LET guard == t[Ends(b, i - 1) + k]
          IN  IsGuard(guard) /\ guard.name = "own_acquire" /\ guard.args = <<Marks(b, i)[k]>>
  BY <1>3 DEF Fits
<1>. QED BY <1>2, <1>4, <1>5 DEF Fits

LEMMA Behind ==
  ASSUME NEW e \in Nat, NEW n \in Nat, NEW m, m = e + (2 * n + 1), NEW p \in 1..m, p \notin 1..e
  PROVE  p - e \in 1..(2 * n + 1) /\ e + (p - e) = p /\ (p - e = n + 1 => p = e + (n + 1))
OBVIOUS

LEMMA Middle ==
  ASSUME NEW e \in Nat, NEW n \in Nat
  PROVE  /\ n + 1 \in 1..(2 * n + 1) /\ e + (n + 1) \in 1..(e + (2 * n + 1))
         /\ \A k \in 1..n : k \in 1..(2 * n + 1) /\ k # n + 1
OBVIOUS

LEMMA FitsStep ==
  ASSUME func \in Functions, DOMAIN blockIn \subseteq DOMAIN func, NEW b \in DOMAIN func,
         NEW j \in DOMAIN func[b].insts, Fits(b, Inserted(b)[j - 1], j - 1, Len(Inserted(b)[j - 1]))
  PROVE  Fits(b, Inserted(b)[j], j, Len(Inserted(b)[j]))
<1> DEFINE s == Inserted(b)[j - 1]
           t == Inserted(b)[j]
           a == Around(b, AllGuards, j)
           n == Len(Marks(b, j))
           e == Ends(b, j - 1)
<1>0. j \in Nat /\ j # 0 /\ j - 1 \in Nat /\ (\A i \in 1..j : i = j \/ i \in 1..(j - 1)) /\ j \in 1..j
      /\ 1..(j - 1) \subseteq 1..j
  <2>1. j \in 1..Len(func[b].insts) /\ Len(func[b].insts) \in Nat
    BY TheFunction
  <2>. QED BY <2>1
<1>1. /\ IsConcat(t, s, a) /\ n \in Nat /\ Len(s) = e /\ e \in Nat /\ Len(a) = 2 * n + 1
      /\ Stands(b, j) = e + (n + 1) /\ Ends(b, j) = e + (2 * n + 1)
  BY EndsOf
<1>2. /\ a[n + 1] = func[b].insts[j]
      /\ \A k \in 1..(2 * n + 1) : k # n + 1 => IsGuard(a[k])
      /\ \A k \in 1..n : a[k].name = "own_acquire" /\ a[k].args = <<Marks(b, j)[k]>>
  BY AroundIs
<1>3. Len(t) = Ends(b, j)
  BY DEF Ends
<1>4. Fits(b, t, j - 1, e)
  BY <1>0, <1>1, FitsBefore
<1>. HIDE DEF s, t, a, n, e
<1>5. Len(t) = e + (2 * n + 1) /\ e <= Len(t) /\ Len(t) \in Nat
  BY <1>1, <1>3
<1>6. \A k \in 1..(2 * n + 1) : t[e + k] = a[k]
  BY <1>1 DEF IsConcat
<1>7. Stands(b, j) \in 1..Len(t) /\ t[Stands(b, j)] = func[b].insts[j]
  <2>1. n + 1 \in 1..(2 * n + 1) /\ e + (n + 1) \in 1..(e + (2 * n + 1))
    BY <1>1, Middle
  <2>2. t[e + (n + 1)] = a[n + 1]
    BY <1>6, <2>1
  <2>. QED BY <1>1, <1>2, <1>5, <2>1, <2>2
<1>8. ASSUME NEW i \in 1..j PROVE Stands(b, i) \in 1..Len(t) /\ t[Stands(b, i)] = func[b].insts[i]
  <2>1. CASE i = j
    BY <1>7, <2>1
  <2>2. CASE i \in 1..(j - 1)
    <3>1. Stands(b, i) \in 1..e /\ t[Stands(b, i)] = func[b].insts[i]
      BY <1>4, <2>2 DEF Fits
    <3>. QED BY <1>1, <1>5, <3>1
  <2>. QED BY <1>0, <2>1, <2>2
<1>9. ASSUME NEW i \in 1..j, NEW h \in 1..(i - 1) PROVE Stands(b, h) < Stands(b, i)
  <2>1. CASE i = j
    <3>1. Stands(b, h) \in 1..e
      BY <1>4, <2>1 DEF Fits
    <3>2. Stands(b, i) = e + (n + 1)
      BY <1>1, <2>1
    <3>. QED BY <1>1, <3>1, <3>2
  <2>2. CASE i \in 1..(j - 1)
    BY <1>4, <2>2 DEF Fits
  <2>. QED BY <1>0, <2>1, <2>2
<1>10. ASSUME NEW i \in 1..j PROVE Ends(b, i - 1) \in Nat /\ Len(Marks(b, i)) \in Nat
  <2>1. CASE i = j
    BY <1>1, <2>1 DEF e, n
  <2>2. CASE i \in 1..(j - 1)
    BY <1>4, <2>2 DEF Fits
  <2>. QED BY <1>0, <2>1, <2>2
<1>11. ASSUME NEW i \in 1..j, NEW k \in 1..Len(Marks(b, i))
       PROVE  LET guard == t[Ends(b, i - 1) + k]
              IN  IsGuard(guard) /\ guard.name = "own_acquire" /\ guard.args = <<Marks(b, i)[k]>>
  <2>1. CASE i = j
    <3>1. Ends(b, i - 1) = e /\ Len(Marks(b, i)) = n
      BY <2>1 DEF e, n
    <3>2. k \in 1..n /\ k \in 1..(2 * n + 1) /\ k # n + 1
      BY <1>1, <3>1, Middle
    <3>3. t[e + k] = a[k]
      BY <1>6, <3>2
    <3>. QED BY <1>2, <2>1, <3>1, <3>2, <3>3
  <2>2. CASE i \in 1..(j - 1)
    BY <1>4, <2>2 DEF Fits
  <2>. QED BY <1>0, <2>1, <2>2
<1>12. ASSUME NEW p \in 1..Len(t) PROVE (\E i \in 1..j : p = Stands(b, i)) \/ IsGuard(t[p])
  <2>1. CASE p \in 1..e
    <3>1. (\E i \in 1..(j - 1) : p = Stands(b, i)) \/ IsGuard(t[p])
      BY <1>4, <2>1 DEF Fits
    <3>. QED BY <1>0, <3>1
  <2>2. CASE p \notin 1..e
    <3>1. p - e \in 1..(2 * n + 1) /\ e + (p - e) = p /\ (p - e = n + 1 => p = e + (n + 1))
      BY <1>1, <1>5, <2>2, Behind
    <3>2. t[p] = a[p - e]
      BY <1>6, <3>1
    <3>3. CASE p - e = n + 1
      BY <1>0, <1>1, <3>1, <3>3
    <3>4. CASE p - e # n + 1
      BY <1>2, <3>1, <3>2, <3>4
    <3>. QED BY <3>3, <3>4
  <2>. QED BY <2>1, <2>2
<1>13. Fits(b, t, j, Len(t))
  BY <1>8, <1>9, <1>10, <1>11, <1>12 DEF Fits
<1>. QED BY <1>13 DEF t

LEMMA FitsAll ==
  ASSUME func \in Functions, DOMAIN blockIn \subseteq DOMAIN func, NEW b \in DOMAIN func
  PROVE  LET n == Len(func[b].insts)
         IN  Fits(b, Inserted(b)[n], n, Len(Inserted(b)[n]))
<1> DEFINE size == Len(func[b].insts)
           Fit(i) == Fits(b, Inserted(b)[i], i, Len(Inserted(b)[i]))
           S == {i \in 0..size : Fit(i)}
<1>0. size \in Nat /\ DOMAIN func[b].insts = 1..size
  BY TheFunction
<1>1. 0 \in S
  <2>1. Inserted(b)[0] = <<>>
    BY InsertStep
  <2>2. Fit(0)
    BY <2>1 DEF Fits
  <2>. HIDE DEF Fit
  <2>. QED BY <1>0, <2>2
<1>2. ASSUME NEW i \in 1..size, i - 1 \in S PROVE i \in S
  <2>1. i \in DOMAIN func[b].insts /\ i \in 0..size
    BY <1>0
  <2>2. Fit(i - 1)
    BY <1>2
  <2>3. Fit(i)
    BY <2>1, <2>2, FitsStep
  <2>. HIDE DEF Fit
  <2>. QED BY <2>1, <2>3
<1>3. \A i \in 0..size : i \in S
  <2>. HIDE DEF S, size
  <2>. QED BY <1>0, <1>1, <1>2, Climb
<1>4. size \in S
  <2>. HIDE DEF S, size
  <2>. QED BY <1>0, <1>3
<1>. QED BY <1>4

\* The code of b, and the place of instruction i in it; the terminator comes after it.
CodeOf(b) == GuardedBlock(b, AllGuards)
Place(b, i) == IF i = Past(b) THEN Len(CodeOf(b)) + 1 ELSE Stands(b, i)

\* The guards of the terminator.
Closing(b) ==
    LET term == Marks(b, Past(b))
    IN  [k \in 1..(2 * Len(term)) |->
            Inst("call", 0, <<term[(k + 1) \div 2]>>, IF k % 2 = 1 THEN "own_acquire" ELSE "own_release")]

LEMMA Pairs ==
  ASSUME NEW n \in Nat
  PROVE  /\ \A k \in 1..(2 * n) : (k + 1) \div 2 \in 1..n
         /\ \A k \in 1..n : 2 * k - 1 \in 1..(2 * n) /\ ((2 * k - 1) + 1) \div 2 = k /\ (2 * k - 1) % 2 = 1
OBVIOUS

LEMMA ClosingIs ==
  ASSUME func \in Functions, DOMAIN blockIn \subseteq DOMAIN func, NEW b \in DOMAIN func
  PROVE  /\ Closing(b) \in Seq(CodeInsts)
         /\ \A k \in 1..Len(Closing(b)) : IsGuard(Closing(b)[k])
         /\ \A v : <<b, Past(b), v>> \in AllGuards =>
               \E k \in 1..Len(Closing(b)) : Closing(b)[k].name = "own_acquire" /\ Closing(b)[k].args = <<v>>
<1> DEFINE m == Marks(b, Past(b))
           n == Len(m)
           name(k) == IF k % 2 = 1 THEN "own_acquire" ELSE "own_release"
           I(k) == Inst("call", 0, <<m[(k + 1) \div 2]>>, name(k))
<1>1. m \in Seq(Values) /\ \A v : <<b, Past(b), v>> \in AllGuards => \E k \in 1..Len(m) : m[k] = v
  BY MarksOf
<1>2. Closing(b) = [k \in 1..(2 * n) |-> I(k)]
  BY DEF Closing
<1>. HIDE DEF m
<1>3. n \in Nat /\ \A k \in 1..n : m[k] \in Values
  BY <1>1
<1>. HIDE DEF n
<1>4. ASSUME NEW k \in 1..(2 * n) PROVE I(k) \in CodeInsts /\ IsGuard(I(k))
  <2>1. name(k) \in GuardCalls
    BY DEF GuardCalls
  <2>2. m[(k + 1) \div 2] \in Values
    BY <1>3, Pairs
  <2>. HIDE DEF name
  <2>3. I(k) \in CodeInsts
    BY <2>1, <2>2 DEF CodeInsts
  <2>4. IsGuard(I(k))
    BY <2>1 DEF IsGuard, Inst
  <2>. QED BY <2>3, <2>4
<1>5. ASSUME NEW k \in 1..n PROVE I(2 * k - 1).name = "own_acquire" /\ I(2 * k - 1).args = <<m[k]>>
  <2>1. ((2 * k - 1) + 1) \div 2 = k /\ (2 * k - 1) % 2 = 1
    BY <1>3, Pairs
  <2>. QED BY <2>1 DEF Inst
<1>. HIDE DEF I
<1>6. Closing(b) \in Seq(CodeInsts) /\ Len(Closing(b)) = 2 * n
  BY <1>2, <1>3, <1>4
<1>7. \A k \in 1..Len(Closing(b)) : IsGuard(Closing(b)[k])
  BY <1>2, <1>4, <1>6
<1>8. ASSUME NEW v, <<b, Past(b), v>> \in AllGuards
      PROVE  \E k \in 1..Len(Closing(b)) : Closing(b)[k].name = "own_acquire" /\ Closing(b)[k].args = <<v>>
  <2>1. PICK k \in 1..n : m[k] = v
    BY <1>1, <1>8 DEF n
  <2>2. 2 * k - 1 \in 1..(2 * n)
    BY <1>3, Pairs
  <2>3. Closing(b)[2 * k - 1] = I(2 * k - 1)
    BY <1>2, <2>2
  <2>. QED BY <1>5, <1>6, <2>1, <2>2, <2>3
<1>. QED BY <1>6, <1>7, <1>8

\* How the code of a block is laid out.
LaidOut(b) ==
    LET code_b == CodeOf(b)
    IN  /\ Len(code_b) \in Nat
        /\ \A i \in DOMAIN func[b].insts :
              Place(b, i) \in 1..Len(code_b) /\ code_b[Place(b, i)] = func[b].insts[i]
        /\ \A i \in 1..Past(b) : Place(b, i) \in 1..(Len(code_b) + 1)
        /\ Place(b, Past(b)) = Len(code_b) + 1
        /\ \A i \in 1..Past(b) : \A h \in 1..(i - 1) : Place(b, h) < Place(b, i)
        /\ \A n \in 1..Len(code_b) : (\E i \in DOMAIN func[b].insts : n = Place(b, i)) \/ IsGuard(code_b[n])
        /\ \A i \in 1..Past(b) : \A v : <<b, i, v>> \in AllGuards =>
              \E j \in 1..(Place(b, i) - 1) :
                 /\ code_b[j].name = "own_acquire" /\ code_b[j].args = <<v>>
                 /\ \A k \in j..(Place(b, i) - 1) : IsGuard(code_b[k])

LEMMA Layout ==
  ASSUME func \in Functions, DOMAIN blockIn \subseteq DOMAIN func, NEW b \in DOMAIN func
  PROVE  LaidOut(b)
<1> DEFINE size == Len(func[b].insts)
           s == Inserted(b)[size]
           r == Closing(b)
           c == CodeOf(b)
<1>0. size \in Nat /\ DOMAIN func[b].insts = 1..size /\ Past(b) = size + 1
  BY TheFunction DEF Past
<1>1. c = s \o r
  BY DEF CodeOf, GuardedBlock, Inserted, Closing, Marks
<1>2. s \in Seq(CodeInsts) /\ size \in 0..size
  BY <1>0, InsertedIs
<1>3. /\ r \in Seq(CodeInsts)
      /\ \A k \in 1..Len(r) : IsGuard(r[k])
      /\ \A v : <<b, Past(b), v>> \in AllGuards =>
             \E k \in 1..Len(r) : r[k].name = "own_acquire" /\ r[k].args = <<v>>
  BY ClosingIs
<1>4. Fits(b, s, size, Len(s))
  BY FitsAll
<1>5. \A i \in 1..size : Place(b, i) = Stands(b, i)
  BY <1>0 DEF Place
<1>6. Place(b, Past(b)) = Len(c) + 1
  BY DEF Place
<1>. HIDE DEF size, s, r, c
<1>7. IsConcat(c, s, r)
  BY <1>1, <1>2, <1>3, Concat
<1>8. Fits(b, c, size, Len(s))
  BY <1>0, <1>4, <1>7, FitsBefore
<1>9. /\ Len(s) \in Nat /\ Len(r) \in Nat /\ Len(c) \in Nat /\ Len(c) = Len(s) + Len(r)
      /\ \A k \in 1..Len(r) : c[Len(s) + k] = r[k]
  BY <1>7 DEF IsConcat
<1>10. ASSUME NEW n \in 1..Len(c), n \notin 1..Len(s) PROVE IsGuard(c[n])
  <2>1. n - Len(s) \in 1..Len(r) /\ Len(s) + (n - Len(s)) = n
    BY <1>9, <1>10
  <2>2. c[n] = r[n - Len(s)]
    BY <1>9, <2>1
  <2>. QED BY <1>3, <2>1, <2>2
<1>11. \A i \in 1..size : Place(b, i) \in 1..Len(s) /\ c[Place(b, i)] = func[b].insts[i]
  BY <1>5, <1>8 DEF Fits
<1>12. 1..Len(s) \subseteq 1..Len(c) /\ Len(s) <= Len(c)
  BY <1>9
<1>13. \A i \in DOMAIN func[b].insts : Place(b, i) \in 1..Len(c) /\ c[Place(b, i)] = func[b].insts[i]
  BY <1>0, <1>11, <1>12
<1>14. ASSUME NEW i \in 1..Past(b) PROVE Place(b, i) \in 1..(Len(c) + 1)
  <2>1. CASE i = Past(b)
    BY <1>6, <1>9, <2>1
  <2>2. CASE i \in DOMAIN func[b].insts
    BY <1>9, <1>13, <2>2
  <2>. QED BY <1>0, <2>1, <2>2
<1>15. ASSUME NEW i \in 1..Past(b), NEW h \in 1..(i - 1) PROVE Place(b, h) < Place(b, i)
  <2>1. h \in 1..size
    BY <1>0
  <2>2. CASE i = Past(b)
    <3>1. Place(b, h) \in 1..Len(c)
      BY <1>0, <1>13, <2>1
    <3>. QED BY <1>6, <1>9, <2>2, <3>1
  <2>3. CASE i \in 1..size
    <3>1. Stands(b, h) < Stands(b, i)
      BY <1>8, <2>3 DEF Fits
    <3>. QED BY <1>5, <2>1, <2>3, <3>1
  <2>. QED BY <1>0, <2>2, <2>3
<1>16. ASSUME NEW n \in 1..Len(c)
       PROVE  (\E i \in DOMAIN func[b].insts : n = Place(b, i)) \/ IsGuard(c[n])
  <2>1. CASE n \in 1..Len(s)
    <3>1. (\E i \in 1..size : n = Stands(b, i)) \/ IsGuard(c[n])
      BY <1>8, <2>1 DEF Fits
    <3>. QED BY <1>0, <1>5, <3>1
  <2>. QED BY <1>10, <2>1
<1>17. ASSUME NEW i \in 1..Past(b), NEW v, <<b, i, v>> \in AllGuards
       PROVE  \E j \in 1..(Place(b, i) - 1) :
                 /\ c[j].name = "own_acquire" /\ c[j].args = <<v>>
                 /\ \A k \in j..(Place(b, i) - 1) : IsGuard(c[k])
  <2>1. CASE i = Past(b)
    <3>1. PICK k \in 1..Len(r) : r[k].name = "own_acquire" /\ r[k].args = <<v>>
      BY <1>3, <1>17, <2>1
    <3>2. Len(s) + k \in 1..(Place(b, i) - 1) /\ Place(b, i) - 1 = Len(c)
      BY <1>6, <1>9, <2>1
    <3>3. c[Len(s) + k] = r[k]
      BY <1>9
    <3>4. \A n \in (Len(s) + k)..Len(c) : n \in 1..Len(c) /\ n \notin 1..Len(s)
      BY <1>9
    <3>5. \A n \in (Len(s) + k)..Len(c) : IsGuard(c[n])
      BY <1>10, <3>4
    <3>. QED BY <3>1, <3>2, <3>3, <3>5
  <2>2. CASE i \in 1..size
    <3> DEFINE m == Marks(b, i)
               e == Ends(b, i - 1)
    <3>1. PICK k \in 1..Len(m) : m[k] = v
      BY <1>17, MarksOf
    <3>2. e \in Nat /\ Len(m) \in Nat
      BY <1>8, <2>2 DEF Fits
    <3>3. \A q \in 1..Len(m) : /\ IsGuard(c[e + q]) /\ c[e + q].name = "own_acquire"
                               /\ c[e + q].args = <<m[q]>>
      BY <1>8, <2>2 DEF Fits
    <3>4. Place(b, i) = e + Len(m) + 1
      BY <1>5, <2>2 DEF Stands
    <3>. HIDE DEF m, e
    <3>5. e + k \in 1..(Place(b, i) - 1)
      BY <3>2, <3>4
    <3>6. \A n \in (e + k)..(Place(b, i) - 1) : n - e \in 1..Len(m) /\ e + (n - e) = n
      BY <3>2, <3>4
    <3>7. \A n \in (e + k)..(Place(b, i) - 1) : IsGuard(c[n])
      BY <3>3, <3>6
    <3>. QED BY <3>1, <3>3, <3>5, <3>7
  <2>. QED BY <1>0, <2>1, <2>2
<1>. QED BY <1>6, <1>9, <1>13, <1>14, <1>15, <1>16, <1>17 DEF LaidOut, c

(* ------------------------------- execution ------------------------------- *)

LEMMA CodeIs ==
  ASSUME code = Guarded, NEW b \in DOMAIN func
  PROVE  /\ code[b].insts = CodeOf(b)
         /\ code[b].term = func[b].term
         /\ Targets(code, b) = Targets(func, b)
<1> DEFINE new == [func[b] EXCEPT !.insts = CodeOf(b)]
<1>1. code[b] = new
  BY DEF Guarded, CodeOf
<1>2. func \in Functions => func[b] \in [params : Seq(Nat), insts : Seq(Instructions), term : Terminators]
  BY TheFunction
<1>. QED BY <1>1, <1>2 DEF Targets

\* The value holds in the guarded code what it holds in the function.
LEMMA SameOrigin ==
  ASSUME func \in Functions, DOMAIN blockIn \subseteq DOMAIN func, code = Guarded,
         NEW b \in DOMAIN func, NEW i \in 1..Past(b), NEW v
  PROVE  OriginOf(b, Place(b, i), v) = SourceOf(b, i, v)
<1> DEFINE c == CodeOf(b)
           old == {m \in 1..(i - 1) : func[b].insts[m].op = "load" /\ func[b].insts[m].dest = v}
           new == {j \in 1..(Place(b, i) - 1) : c[j].op = "load" /\ c[j].dest = v}
<1>0. /\ Len(func[b].insts) \in Nat /\ DOMAIN func[b].insts = 1..Len(func[b].insts)
      /\ Past(b) = Len(func[b].insts) + 1 /\ LoadsAreFresh(func)
  BY TheFunction DEF Past
<1>1. LaidOut(b)
  BY Layout
<1>2. SourceOf(b, i, v) = IF old = {} THEN "none" ELSE func[b].insts[CHOOSE m \in old : TRUE].name
  BY DEF SourceOf
<1>3. OriginOf(b, Place(b, i), v) = IF new = {} THEN "none" ELSE c[CHOOSE j \in new : TRUE].name
  <2>1. code[b].insts = c
    BY CodeIs
  <2>. HIDE DEF c
  <2>. QED BY <2>1 DEF OriginOf
<1>. HIDE DEF c
<1>4. ASSUME NEW m \in old PROVE m \in DOMAIN func[b].insts /\ Place(b, m) \in new /\ c[Place(b, m)] = func[b].insts[m]
  <2>1. m \in DOMAIN func[b].insts /\ m \in 1..(i - 1)
    BY <1>0
  <2>2. Place(b, m) \in 1..Len(c) /\ c[Place(b, m)] = func[b].insts[m] /\ Place(b, m) < Place(b, i)
        /\ Place(b, i) \in 1..(Len(c) + 1) /\ Len(c) \in Nat
    BY <1>1, <2>1 DEF LaidOut, c
  <2>3. Place(b, m) \in 1..(Place(b, i) - 1)
    BY <2>2
  <2>. QED BY <2>1, <2>2, <2>3
<1>5. ASSUME NEW j \in new PROVE \E m \in old : c[j] = func[b].insts[m]
  <2>1. Place(b, i) \in 1..(Len(c) + 1) /\ Len(c) \in Nat
    BY <1>1 DEF LaidOut, c
  <2>2. j \in 1..Len(c) /\ j < Place(b, i)
    BY <2>1
  <2>3. ~IsGuard(c[j])
    BY DEF IsGuard
  <2>4. PICK m \in DOMAIN func[b].insts : j = Place(b, m)
    BY <1>1, <2>2, <2>3 DEF LaidOut, c
  <2>5. c[j] = func[b].insts[m]
    BY <1>1, <2>4 DEF LaidOut, c
  <2>6. m \in 1..(i - 1)
    <3>1. m # i
      BY <2>1, <2>2, <2>4
    <3>2. m \in 1..Past(b) /\ (i \in 1..(m - 1) => Place(b, i) < Place(b, m))
      BY <1>0, <1>1 DEF LaidOut
    <3>3. i \notin 1..(m - 1)
      BY <2>1, <2>2, <2>4, <3>2
    <3>. QED BY <1>0, <3>1, <3>2, <3>3
  <2>. QED BY <2>5, <2>6
<1>6. ASSUME NEW m \in old, NEW k \in old PROVE m = k
  <2>1. m \in DOMAIN func[b].insts /\ k \in DOMAIN func[b].insts
    BY <1>4
  <2>2. Loads(func, v) = {<<b, m>>}
    BY <1>0, <2>1 DEF LoadsAreFresh
  <2>3. Loads(func, v) = {<<b, k>>}
    BY <1>0, <2>1 DEF LoadsAreFresh
  <2>4. <<b, m>> \in {<<b, k>>}
    BY <2>2, <2>3, Zenon
  <2>5. <<b, m>> = <<b, k>>
    BY <2>4, Zenon
  <2>. QED BY <2>5
<1>7. new = {} <=> old = {}
  <2>. HIDE DEF new, old
  <2>. QED BY <1>4, <1>5
<1>8. ASSUME new # {}, old # {} PROVE c[CHOOSE j \in new : TRUE].name = func[b].insts[CHOOSE m \in old : TRUE].name
  <2>. HIDE DEF new, old
  <2>1. (CHOOSE j \in new : TRUE) \in new /\ (CHOOSE m \in old : TRUE) \in old
    BY <1>8
  <2> DEFINE n == CHOOSE j \in new : TRUE
             o == CHOOSE m \in old : TRUE
  <2>2. n \in new /\ o \in old
    BY <2>1
  <2>. HIDE DEF n, o
  <2>3. PICK m \in old : c[n] = func[b].insts[m]
    BY <1>5, <2>2
  <2>4. m = o
    BY <1>6, <2>2, <2>3
  <2>5. c[n].name = func[b].insts[o].name
    BY <2>3, <2>4
  <2>. QED BY <2>5 DEF n, o
<1>. HIDE DEF new, old
<1>. QED BY <1>2, <1>3, <1>7, <1>8

\* Before the pass that reports, an instruction without an error.
LEMMA ErrorFree ==
  ASSUME AllErrors = {}, NEW b \in DOMAIN blockIn
  PROVE  \A m \in DOMAIN func[b].insts : Errors(StateAt(b, m), func[b].insts[m]) = {}
<1> SUFFICES ASSUME NEW m \in DOMAIN func[b].insts PROVE Errors(StateAt(b, m), func[b].insts[m]) = {}
  OBVIOUS
<1> DEFINE A == UNION {ErrorsAt(p[1], p[2]) : p \in Sites}
           B == UNION {TermErrors(c) : c \in DOMAIN blockIn}
<1>1. AllErrors = A \cup B
  BY Zenon DEF AllErrors
<1>2. A = {}
  <2>. HIDE DEF A, B
  <2>. QED BY <1>1
<1>3. <<b, m>> \in Sites
  BY DEF Sites
<1>4. ErrorsAt(<<b, m>>[1], <<b, m>>[2]) \subseteq A
  BY <1>3, Zenon
<1>5. ErrorsAt(b, m) = {}
  <2>. HIDE DEF A
  <2>. QED BY <1>2, <1>4
<1>6. \A e \in Errors(StateAt(b, m), func[b].insts[m]) : <<b, m, e[1], e[2]>> \in ErrorsAt(b, m)
  BY Zenon DEF ErrorsAt
<1>. QED BY <1>5, <1>6, Zenon

(* --------------------------- what does not change ------------------------ *)

LEMMA SameFunction ==
  ASSUME func' = func
  PROVE  /\ Values' = Values /\ State' = State /\ InRpo' = InRpo
         /\ \A b : Past(b)' = Past(b)
<1>1. Values' = Values
  BY DEF Values
<1>2. State' = State
  BY <1>1 DEF State
<1>3. Rpo' = Rpo
  BY DEF Rpo
<1>4. InRpo' = InRpo
  BY <1>3 DEF InRpo
<1>. QED BY <1>1, <1>2, <1>4 DEF Past

LEMMA SameBlocks ==
  ASSUME func' = func
  PROVE  /\ (Blocks(blockIn, blockOut))' <=> Blocks(blockIn', blockOut')
         /\ (Flows(blockIn, blockOut, dirty))' <=> Flows(blockIn', blockOut', dirty')
         /\ (Calm(blockIn, blockOut))' <=> Calm(blockIn', blockOut')
<1>1. (Blocks(blockIn, blockOut))' <=> Blocks(blockIn', blockOut')
  BY SameFunction DEF Blocks, OriginsOf
<1>2. (Flows(blockIn, blockOut, dirty))' <=> Flows(blockIn', blockOut', dirty')
  BY DEF Flows
<1>3. (Flows(blockIn, blockOut, {}))' <=> Flows(blockIn', blockOut', {})
  BY DEF Flows
<1>. QED BY <1>1, <1>2, <1>3 DEF Calm

LEMMA SameReport ==
  ASSUME UNCHANGED <<func, blockIn>>
  PROVE  /\ AllErrors' = AllErrors /\ AllGuards' = AllGuards
         /\ \A b, i : StateAt(b, i)' = StateAt(b, i)
<1>0. func' = func /\ blockIn' = blockIn
  OBVIOUS
<1>1. \A b, i : StateAt(b, i)' = StateAt(b, i)
  BY <1>0 DEF StateAt
<1>2. AllErrors' = AllErrors
  BY <1>0 DEF AllErrors, Sites, ErrorsAt, TermErrors, StateAt, Past
<1>3. AllGuards' = AllGuards
  BY <1>0 DEF AllGuards, Sites, GuardsAt, TermGuards, StateAt, Past
<1>. QED BY <1>1, <1>2, <1>3

LEMMA SameCode ==
  ASSUME UNCHANGED <<func, blockIn>>
  PROVE  /\ Guarded' = Guarded
         /\ \A b, i : Place(b, i)' = Place(b, i)
<1>0. func' = func /\ AllGuards' = AllGuards
  BY SameReport
<1>1. \A b : CodeOf(b)' = CodeOf(b)
  BY <1>0 DEF CodeOf, GuardedBlock, GuardedInsts, Around, Past
<1>2. \A b, i : Stands(b, i)' = Stands(b, i)
  BY <1>0 DEF Stands, Ends, Inserted, Marks, GuardedInsts, Around
<1>3. \A b, i : Place(b, i)' = Place(b, i)
  BY <1>0, <1>1, <1>2 DEF Place, Past
<1>4. Guarded' = Guarded
  BY <1>0, <1>1 DEF Guarded, CodeOf
<1>. QED BY <1>3, <1>4

(* The path has come to place n of block b, its next own instruction is i. *)
Stage(b, n, i) ==
    /\ i \in 1..Past(b)
    /\ n \in 1..Place(b, i)
    /\ \A h \in 1..(i - 1) : Place(b, h) < n

(* Of everything that the path has moved the analysis knows that it may be moved. *)
OnWay(b, n, held) ==
    /\ b \in DOMAIN blockOut
    /\ DOMAIN held = Names
    /\ \E i \in 1..Past(b) : Stage(b, n, i) /\ MovesKnown(held, StateAt(b, i))

Accepted == func \in Functions /\ Calm(blockIn, blockOut) /\ AllErrors = {} /\ code = Guarded

LEMMA AcceptedFacts ==
  ASSUME Accepted, NEW b \in DOMAIN blockOut
  PROVE  /\ func \in Functions /\ DOMAIN blockIn \subseteq DOMAIN func
         /\ b \in DOMAIN blockIn /\ b \in DOMAIN func
         /\ blockIn[b] \in State /\ OriginsOf(blockIn[b])
         /\ LaidOut(b) /\ code[b].insts = CodeOf(b)
         /\ \A m \in DOMAIN func[b].insts : Errors(StateAt(b, m), func[b].insts[m]) = {}
         /\ Len(func[b].insts) \in Nat /\ DOMAIN func[b].insts = 1..Len(func[b].insts)
         /\ Past(b) = Len(func[b].insts) + 1
<1>1. func \in Functions /\ Blocks(blockIn, blockOut) /\ AllErrors = {} /\ code = Guarded
  BY DEF Accepted, Calm
<1>2. /\ DOMAIN blockIn \subseteq DOMAIN func /\ b \in DOMAIN blockIn /\ b \in DOMAIN func
      /\ blockIn[b] \in State /\ OriginsOf(blockIn[b])
  BY <1>1 DEF Blocks
<1>3. LaidOut(b)
  BY <1>1, <1>2, Layout
<1>4. code[b].insts = CodeOf(b)
  BY <1>1, <1>2, CodeIs
<1>5. \A m \in DOMAIN func[b].insts : Errors(StateAt(b, m), func[b].insts[m]) = {}
  BY <1>1, <1>2, ErrorFree
<1>6. /\ Len(func[b].insts) \in Nat /\ DOMAIN func[b].insts = 1..Len(func[b].insts)
      /\ Past(b) = Len(func[b].insts) + 1
  BY <1>1, <1>2, TheFunction DEF Past
<1>. QED BY <1>1, <1>2, <1>3, <1>4, <1>5, <1>6

LEMMA PlainGuards ==
  ASSUME NEW inst, IsGuard(inst), NEW held, NEW x
  PROVE  LiveAfter(held, inst, x) = held
BY DEF IsGuard, LiveAfter, GuardCalls, Mode

LEMMA NotLast ==
  ASSUME NEW n \in Nat, NEW i \in 1..(n + 1), i # n + 1
  PROVE  i \in 1..n /\ i + 1 \in 1..(n + 1)
OBVIOUS

\* One instruction of the code, the function's own or a guard.
LEMMA ExecuteKeeps ==
  ASSUME Accepted, NEW b, NEW n, NEW held, OnWay(b, n, held), n <= Len(code[b].insts),
         NEW x, x = IF code[b].insts[n].args = <<>> THEN "none"
                    ELSE OriginOf(b, n, code[b].insts[n].args[1])
  PROVE  OnWay(b, n + 1, LiveAfter(held, code[b].insts[n], x))
<1>1. b \in DOMAIN blockOut /\ DOMAIN held = Names
  BY DEF OnWay
<1> DEFINE c == CodeOf(b)
<1>2. /\ func \in Functions /\ DOMAIN blockIn \subseteq DOMAIN func /\ b \in DOMAIN func
      /\ blockIn[b] \in State /\ OriginsOf(blockIn[b])
      /\ code[b].insts = c /\ code = Guarded
      /\ \A m \in DOMAIN func[b].insts : Errors(StateAt(b, m), func[b].insts[m]) = {}
      /\ Len(func[b].insts) \in Nat /\ DOMAIN func[b].insts = 1..Len(func[b].insts)
      /\ Past(b) = Len(func[b].insts) + 1
  BY <1>1, AcceptedFacts DEF Accepted
<1>3. LaidOut(b)
  BY <1>1, AcceptedFacts
<1>4. /\ Len(c) \in Nat
      /\ \A i \in DOMAIN func[b].insts : c[Place(b, i)] = func[b].insts[i]
      /\ \A i \in 1..Past(b) : Place(b, i) \in 1..(Len(c) + 1)
      /\ Place(b, Past(b)) = Len(c) + 1
      /\ \A i \in 1..Past(b) : \A h \in 1..(i - 1) : Place(b, h) < Place(b, i)
      /\ \A m \in 1..Len(c) : (\E i \in DOMAIN func[b].insts : m = Place(b, i)) \/ IsGuard(c[m])
  BY <1>3 DEF LaidOut
<1>. HIDE DEF c
<1>5. PICK i \in 1..Past(b) : Stage(b, n, i) /\ MovesKnown(held, StateAt(b, i))
  BY DEF OnWay
<1>6. n \in 1..Place(b, i) /\ \A h \in 1..(i - 1) : Place(b, h) < n
  BY <1>5 DEF Stage
<1>7. n \in 1..Len(c)
  BY <1>2, <1>4, <1>6
<1>8. CASE n = Place(b, i)
  <2>1. i \in DOMAIN func[b].insts /\ i + 1 \in 1..Past(b)
    <3>1. i # Past(b)
      BY <1>4, <1>7, <1>8
    <3>2. i \in 1..(Len(func[b].insts) + 1) /\ i # Len(func[b].insts) + 1
      BY <1>2, <3>1
    <3>3. i \in 1..Len(func[b].insts) /\ i + 1 \in 1..(Len(func[b].insts) + 1)
      BY <1>2, <3>2, NotLast
    <3>. QED BY <1>2, <3>3
  <2>2. c[n] = func[b].insts[i]
    BY <1>4, <1>8, <2>1
  <2>3. x = IF func[b].insts[i].args = <<>> THEN "none" ELSE SourceOf(b, i, func[b].insts[i].args[1])
    BY <1>2, <1>8, <2>2, SameOrigin
  <2>4. Errors(StateBefore(blockIn[b], func[b].insts, i), func[b].insts[i]) = {}
    BY <1>2, <2>1 DEF StateAt
  <2>5. MovesKnown(held, StateBefore(blockIn[b], func[b].insts, i))
    BY <1>5 DEF StateAt
  <2> DEFINE next == LiveAfter(held, func[b].insts[i], x)
  <2>6. /\ MovesKnown(next, StateBefore(blockIn[b], func[b].insts, i + 1))
        /\ DOMAIN next = Names
    BY <1>1, <1>2, <2>1, <2>3, <2>4, <2>5, MoveIsSeen
  <2>7. MovesKnown(next, StateAt(b, i + 1))
    BY <2>6 DEF StateAt
  <2>8. Stage(b, n + 1, i + 1)
    <3>1. i \in 1..((i + 1) - 1) /\ Place(b, i) < Place(b, i + 1)
      BY <1>4, <2>1
    <3>2. Place(b, i + 1) \in 1..(Len(c) + 1) /\ Place(b, i) \in 1..(Len(c) + 1)
      BY <1>4, <2>1
    <3>3. n + 1 \in 1..Place(b, i + 1)
      BY <1>4, <1>8, <3>1, <3>2
    <3>4. \A h \in 1..((i + 1) - 1) : h = i \/ h \in 1..(i - 1)
      BY <1>2
    <3>5. ASSUME NEW h \in 1..((i + 1) - 1) PROVE Place(b, h) < n + 1
      <4>1. CASE h = i
        BY <1>7, <1>8, <4>1
      <4>2. CASE h \in 1..(i - 1)
        <5>1. Place(b, h) < n /\ h \in 1..Past(b)
          BY <1>2, <1>6, <4>2
        <5>2. Place(b, h) \in 1..(Len(c) + 1)
          BY <1>4, <5>1
        <5>. QED BY <1>7, <5>1, <5>2
      <4>. QED BY <3>4, <4>1, <4>2
    <3>. QED BY <2>1, <3>3, <3>5 DEF Stage
  <2>. HIDE DEF next
  <2>9. OnWay(b, n + 1, next)
    BY <1>1, <2>1, <2>6, <2>7, <2>8 DEF OnWay
  <2>10. next = LiveAfter(held, code[b].insts[n], x)
    BY <1>2, <2>2 DEF next
  <2>. QED BY <2>9, <2>10
<1>9. CASE n # Place(b, i)
  <2>1. n < Place(b, i) /\ n + 1 \in 1..Place(b, i)
    BY <1>4, <1>6, <1>9
  <2>2. ASSUME NEW m \in DOMAIN func[b].insts, n = Place(b, m) PROVE FALSE
    <3>1. m \in 1..Past(b)
      BY <1>2
    <3>2. CASE m = i
      BY <1>9, <2>2, <3>2
    <3>3. CASE m \in 1..(i - 1)
      BY <1>6, <1>7, <2>2, <3>3
    <3>4. CASE i \in 1..(m - 1)
      <4>1. Place(b, i) < Place(b, m)
        BY <1>4, <3>1, <3>4
      <4>2. Place(b, i) \in 1..(Len(c) + 1)
        BY <1>4
      <4>. QED BY <1>7, <2>1, <2>2, <4>1, <4>2
    <3>. QED BY <1>2, <3>1, <3>2, <3>3, <3>4
  <2>3. IsGuard(c[n])
    BY <1>4, <1>7, <2>2
  <2>4. LiveAfter(held, code[b].insts[n], x) = held
    BY <1>2, <2>3, PlainGuards
  <2>5. Stage(b, n + 1, i)
    <3>1. ASSUME NEW h \in 1..(i - 1) PROVE Place(b, h) < n + 1
      <4>1. Place(b, h) < n /\ h \in 1..Past(b)
        BY <1>2, <1>6
      <4>2. Place(b, h) \in 1..(Len(c) + 1)
        BY <1>4, <4>1
      <4>. QED BY <1>7, <4>1, <4>2
    <3>. QED BY <2>1, <3>1 DEF Stage
  <2>. QED BY <1>1, <1>5, <2>4, <2>5 DEF OnWay
<1>. QED BY <1>8, <1>9

\* A branch of the code: the next block has seen what this one has moved.
LEMMA BranchesKeep ==
  ASSUME Accepted, NEW b, NEW n, NEW held, OnWay(b, n, held), n > Len(code[b].insts),
         NEW s \in Targets(code, b)
  PROVE  OnWay(s, 1, held)
<1>1. b \in DOMAIN blockOut /\ DOMAIN held = Names
  BY DEF OnWay
<1>2. /\ func \in Functions /\ b \in DOMAIN func /\ code = Guarded /\ code[b].insts = CodeOf(b)
      /\ Len(func[b].insts) \in Nat /\ DOMAIN func[b].insts = 1..Len(func[b].insts)
      /\ Past(b) = Len(func[b].insts) + 1
  BY <1>1, AcceptedFacts DEF Accepted
<1>3. LaidOut(b)
  BY <1>1, AcceptedFacts
<1>4. PICK i \in 1..Past(b) : Stage(b, n, i) /\ MovesKnown(held, StateAt(b, i))
  BY DEF OnWay
<1>5. i = Past(b)
  <2>1. n \in 1..Place(b, i)
    BY <1>4 DEF Stage
  <2>2. i \in DOMAIN func[b].insts => Place(b, i) \in 1..Len(CodeOf(b))
    BY <1>3 DEF LaidOut
  <2>3. Len(CodeOf(b)) \in Nat /\ Place(b, i) \in 1..(Len(CodeOf(b)) + 1)
    BY <1>3 DEF LaidOut
  <2>4. i \notin DOMAIN func[b].insts
    BY <1>2, <2>1, <2>2, <2>3
  <2>. QED BY <1>2, <1>4, <2>4
<1>6. s \in Targets(func, b)
  BY <1>2, CodeIs
<1>7. s \in DOMAIN blockOut /\ Covers(blockIn[s], blockOut[b])
  BY <1>1, <1>6 DEF Accepted, Calm, Flows
<1>8. blockOut[b] = StateAt(b, Past(b))
  <2>1. blockOut[b] = StateAfter(blockIn[b], func[b].insts)
    BY <1>1 DEF Accepted, Calm, Blocks
  <2>. QED BY <1>2, <2>1, BlockStates DEF StateAt
<1>9. s \in DOMAIN func /\ LaidOut(s) /\ Past(s) = Len(func[s].insts) + 1 /\ Len(func[s].insts) \in Nat
  BY <1>7, AcceptedFacts
<1>10. StateAt(s, 1) = blockIn[s]
  BY <1>2, <1>9, BlockStates DEF StateAt
<1>11. MovesKnown(held, StateAt(s, 1))
  BY <1>4, <1>5, <1>7, <1>8, <1>10 DEF MovesKnown, Covers
<1>12. 1 \in 1..Past(s)
  BY <1>9
<1>13. Place(s, 1) \in 1..(Len(CodeOf(s)) + 1) /\ Len(CodeOf(s)) \in Nat
  BY <1>9, <1>12 DEF LaidOut
<1>14. Stage(s, 1, 1)
  BY <1>12, <1>13 DEF Stage
<1>. QED BY <1>1, <1>7, <1>11, <1>12, <1>14 DEF OnWay

\* An accepted function on its way uses no moved variable without a guard.
LEMMA UseIsGuarded ==
  ASSUME Accepted, OnWay(at[1], at[2], live)
  PROVE  \A v \in UsedHere :
            LET x == OriginOf(at[1], at[2], v)
            IN  x # "none" /\ live[x] = "moved" => Acquired(v)
<1> DEFINE b == at[1]
           n == at[2]
           c == code[b].insts
<1>1. b \in DOMAIN blockOut
  BY DEF OnWay
<1>2. /\ func \in Functions /\ DOMAIN blockIn \subseteq DOMAIN func
      /\ b \in DOMAIN blockIn /\ b \in DOMAIN func /\ code = Guarded /\ c = CodeOf(b)
      /\ blockIn[b] \in State /\ OriginsOf(blockIn[b])
      /\ \A m \in DOMAIN func[b].insts : Errors(StateAt(b, m), func[b].insts[m]) = {}
      /\ Len(func[b].insts) \in Nat /\ DOMAIN func[b].insts = 1..Len(func[b].insts)
      /\ Past(b) = Len(func[b].insts) + 1
  BY <1>1, AcceptedFacts DEF Accepted
<1>3. code[b].term = func[b].term
  BY <1>2, CodeIs
<1>4. LaidOut(b)
  BY <1>1, AcceptedFacts
<1>5. /\ Len(c) \in Nat
      /\ \A i \in DOMAIN func[b].insts : Place(b, i) \in 1..Len(c) /\ c[Place(b, i)] = func[b].insts[i]
      /\ \A i \in 1..Past(b) : Place(b, i) \in 1..(Len(c) + 1)
      /\ Place(b, Past(b)) = Len(c) + 1
      /\ \A i \in 1..Past(b) : \A h \in 1..(i - 1) : Place(b, h) < Place(b, i)
      /\ \A m \in 1..Len(c) : (\E i \in DOMAIN func[b].insts : m = Place(b, i)) \/ IsGuard(c[m])
      /\ \A i \in 1..Past(b) : \A v : <<b, i, v>> \in AllGuards =>
              \E j \in 1..(Place(b, i) - 1) :
                 /\ c[j].name = "own_acquire" /\ c[j].args = <<v>>
                 /\ \A k \in j..(Place(b, i) - 1) : IsGuard(c[k])
  <2>1. c = CodeOf(b)
    BY <1>2
  <2>. HIDE DEF c, b
  <2>. QED BY <1>4, <2>1 DEF LaidOut
<1>6. PICK i \in 1..Past(b) : Stage(b, n, i) /\ MovesKnown(live, StateAt(b, i))
  BY DEF OnWay
<1>7. n \in 1..Place(b, i) /\ \A h \in 1..(i - 1) : Place(b, h) < n
  BY <1>6 DEF Stage
<1>8. UsedHere = IF n > Len(c) THEN TermUses(code[b].term)
                 ELSE IF c[n].name \in GuardCalls THEN {} ELSE InstUses(c[n])
  <2>1. n \in Int /\ (n > Len(c) \/ n <= Len(c)) /\ ~(n > Len(c) /\ n <= Len(c))
    BY <1>5, <1>7
  <2>. QED BY <2>1 DEF UsedHere
<1>9. ASSUME NEW v, \E j \in 1..(n - 1) :
                       /\ c[j].name = "own_acquire" /\ c[j].args = <<v>>
                       /\ \A k \in j..(n - 1) : c[k].name \in GuardCalls
      PROVE  Acquired(v)
  BY <1>9 DEF Acquired
<1>10. ASSUME NEW v \in UsedHere PROVE n = Place(b, i) /\ v \in UsesAt(b, i)
  <2>1. CASE n > Len(c)
    <3>1. Place(b, i) = Len(c) + 1 /\ n = Len(c) + 1
      BY <1>5, <1>7, <2>1
    <3>2. i \notin DOMAIN func[b].insts
      BY <1>5, <3>1
    <3>3. i = Past(b)
      BY <1>2, <3>2
    <3>4. v \in TermUses(func[b].term)
      BY <1>3, <1>8, <2>1
    <3>. QED BY <3>1, <3>3, <3>4 DEF UsesAt
  <2>2. CASE n <= Len(c)
    <3>0. n \in 1..Len(c) /\ ~(n > Len(c))
      BY <1>5, <1>7, <2>2
    <3>1. v \in InstUses(c[n]) /\ c[n].name \notin GuardCalls
      BY <1>8, <3>0
    <3>2. ~IsGuard(c[n])
      BY <3>1 DEF IsGuard
    <3>3. PICK m \in DOMAIN func[b].insts : n = Place(b, m)
      BY <1>5, <3>0, <3>2
    <3>4. c[n] = func[b].insts[m]
      BY <1>5, <3>3
    <3>5. m \in 1..Past(b) /\ m # Past(b)
      BY <1>2
    <3>6. m = i
      <4>1. m \notin 1..(i - 1)
        BY <1>5, <1>7, <3>0, <3>3
      <4>2. i \notin 1..(m - 1)
        <5>1. i \in 1..(m - 1) => Place(b, i) < Place(b, m)
          BY <1>5, <3>5
        <5>2. Place(b, i) \in 1..(Len(c) + 1)
          BY <1>5
        <5>. QED BY <1>5, <1>7, <3>0, <3>3, <5>1, <5>2
      <4>. QED BY <1>2, <4>1, <4>2
    <3>. QED BY <3>1, <3>3, <3>4, <3>5, <3>6 DEF UsesAt
  <2>3. n > Len(c) \/ n <= Len(c)
    BY <1>5, <1>7
  <2>. QED BY <2>1, <2>2, <2>3
<1>11. ASSUME NEW v \in UsedHere, OriginOf(b, n, v) # "none", live[OriginOf(b, n, v)] = "moved"
       PROVE  Acquired(v)
  <2> DEFINE x == OriginOf(b, n, v)
             now == StateBefore(blockIn[b], func[b].insts, i)
  <2>1. n = Place(b, i) /\ v \in UsesAt(b, i)
    BY <1>10
  <2>2. x = SourceOf(b, i, v)
    BY <1>2, <2>1, SameOrigin
  <2>3. SourceOf(b, i, v) # "none" /\ live[SourceOf(b, i, v)] = "moved"
    BY <1>11, <2>2
  <2>4. v \in Values /\ SourceOf(b, i, v) \in Names /\ now.vals[v] = now.vars[SourceOf(b, i, v)]
    BY <1>2, <2>1, <2>3, SourceIsOrigin
  <2>5. MayBeMoved(now.vars[SourceOf(b, i, v)])
    BY <1>6, <2>3, <2>4 DEF MovesKnown, StateAt
  <2>6. now.vals[v].base # "moved"
    <3>1. \A m \in DOMAIN func[b].insts :
             Errors(StateBefore(blockIn[b], func[b].insts, m), func[b].insts[m]) = {}
      BY <1>2 DEF StateAt
    <3>. QED BY <1>2, <2>1, <2>3, <3>1, LoadedIsNotMoved
  <2>7. now.vals[v].base = "unknown"
    BY <2>4, <2>5, <2>6 DEF MayBeMoved
  <2>8. StateAt(b, i).vals[v].base = "unknown"
    BY <2>7 DEF StateAt
  <2>9. <<b, i, v>> \in AllGuards
    <3>1. CASE i = Past(b)
      <4>1. v \in TermUses(func[b].term)
        BY <2>1, <3>1 DEF UsesAt
      <4>2. <<b, Past(b), v>> \in Unproven(StateAt(b, Past(b)), b, Past(b), TermUses(func[b].term))
        BY <2>8, <3>1, <4>1 DEF Unproven
      <4>3. <<b, Past(b), v>> \in TermGuards(b)
        BY <4>2 DEF TermGuards
      <4>4. <<b, Past(b), v>> \in UNION {TermGuards(d) : d \in DOMAIN blockIn}
        BY <1>2, <4>3, Zenon
      <4>5. <<b, Past(b), v>> \in AllGuards
        BY <4>4, Zenon DEF AllGuards
      <4>. QED BY <3>1, <4>5
    <3>2. CASE i # Past(b)
      <4>1. i \in DOMAIN func[b].insts /\ v \in InstUses(func[b].insts[i])
        BY <1>2, <2>1, <3>2 DEF UsesAt
      <4>2. <<b, i, v>> \in GuardsAt(b, i)
        BY <2>8, <4>1 DEF GuardsAt, Unproven
      <4>3. <<b, i>> \in Sites
        BY <1>2, <4>1 DEF Sites
      <4>4. <<b, i, v>> \in GuardsAt(<<b, i>>[1], <<b, i>>[2])
        BY <4>2
      <4>5. <<b, i, v>> \in UNION {GuardsAt(p[1], p[2]) : p \in Sites}
        BY <4>3, <4>4, Zenon
      <4>. QED BY <4>5, Zenon DEF AllGuards
    <3>. QED BY <3>1, <3>2
  <2>10. PICK j \in 1..(Place(b, i) - 1) :
             /\ c[j].name = "own_acquire" /\ c[j].args = <<v>>
             /\ \A k \in j..(Place(b, i) - 1) : IsGuard(c[k])
    BY <1>5, <2>9
  <2>11. \A k \in j..(n - 1) : c[k].name \in GuardCalls
    BY <2>1, <2>10 DEF IsGuard
  <2>12. j \in 1..(n - 1)
    BY <2>1, <2>10
  <2>. QED BY <1>9, <2>10, <2>11, <2>12
<1>. QED BY <1>11

(* ----------------------------- the invariant ----------------------------- *)

\* The worklist: whatever a visited block has moved its successors have seen, or are
\* going to see.
Working ==
    /\ Blocks(blockIn, blockOut) /\ Flows(blockIn, blockOut, dirty)
    /\ dirty \subseteq InRpo
    /\ Entry \in dirty \cup DOMAIN blockOut

Started == at = <<Entry, 1>> /\ DOMAIN live = Names /\ \A x \in Names : live[x] # "moved"

OnTrack == Accepted /\ \E b, n, held : at = <<b, n>> /\ live = held /\ OnWay(b, n, held)

GuardInv ==
    /\ func \in Functions
    /\ phase = "fixpoint" => Working
    /\ phase \in {"narrow", "report"} /\ dirty = {} => Calm(blockIn, blockOut)
    /\ phase \in {"fixpoint", "narrow", "report"} => Started
    /\ phase = "run" /\ dirty = {} /\ errors = {} => OnTrack

LEMMA SameWay ==
  ASSUME UNCHANGED <<func, blockIn, blockOut>>
  PROVE  /\ \A b, n, held : (OnWay(b, n, held))' <=> OnWay(b, n, held)
         /\ code' = code => (Accepted' <=> Accepted)
         /\ (Calm(blockIn, blockOut))' <=> Calm(blockIn, blockOut)
<1>1. func' = func /\ blockIn' = blockIn /\ blockOut' = blockOut
  OBVIOUS
<1>2. \A b, i : Past(b)' = Past(b) /\ Place(b, i)' = Place(b, i) /\ StateAt(b, i)' = StateAt(b, i)
  BY <1>1, SameFunction, SameCode, SameReport
<1>3. \A b, n, i : (Stage(b, n, i))' <=> Stage(b, n, i)
  BY <1>2 DEF Stage
<1>4. \A b, n, held : (OnWay(b, n, held))' <=> OnWay(b, n, held)
  BY <1>1, <1>2, <1>3 DEF OnWay
<1>5. (Calm(blockIn, blockOut))' <=> Calm(blockIn, blockOut)
  BY <1>1, SameBlocks
<1>6. AllErrors' = AllErrors /\ Guarded' = Guarded
  BY <1>1, SameReport, SameCode
<1>7. ASSUME code' = code PROVE Accepted' <=> Accepted
  BY <1>1, <1>5, <1>6, <1>7 DEF Accepted
<1>. QED BY <1>4, <1>5, <1>7

LEMMA GuardInit == ASSUME BorrowInit PROVE GuardInv
<1>1. /\ func \in Functions /\ phase = "fixpoint" /\ blockIn = FuncMap(Entry, EntryState(func))
      /\ blockOut = [b \in {} |-> 0] /\ dirty = {Entry} /\ at = <<Entry, 1>>
      /\ live = [x \in Names |-> IF x \in Params THEN "live" ELSE "none"]
  BY DEF BorrowInit
<1>2. Started
  BY <1>1 DEF Started
<1>3. EntryState(func) \in State /\ OriginsOf(EntryState(func))
  BY <1>1, FirstStates
<1>4. DOMAIN blockIn = {Entry} /\ blockIn[Entry] = EntryState(func) /\ DOMAIN blockOut = {}
  BY <1>1 DEF FuncMap
<1>5. Entry \in DOMAIN func
  BY <1>1, TheFunction DEF Entry
<1>6. Blocks(blockIn, blockOut) /\ Flows(blockIn, blockOut, dirty)
  BY <1>3, <1>4, <1>5 DEF Blocks, Flows
<1>7. dirty \subseteq InRpo
  BY <1>1, OrderHolds DEF OrderOk
<1>. QED BY <1>1, <1>2, <1>6, <1>7 DEF GuardInv, Working

LEMMA ProcessGuards == ASSUME GuardInv, ProcessBlock PROVE GuardInv'
<1>1. func \in Functions /\ phase = "fixpoint" /\ Working /\ Started
  BY DEF GuardInv, ProcessBlock
<1>2. func' = func /\ phase' = phase /\ at' = at /\ live' = live
  BY DEF ProcessBlock
<1>3. OrderOk
  BY <1>1, OrderHolds
<1>4. /\ Blocks(blockIn', blockOut') /\ Flows(blockIn', blockOut', dirty') /\ dirty' \subseteq InRpo
      /\ Entry \in dirty' \cup DOMAIN blockOut'
  BY <1>1, <1>3, ProcessKeeps DEF Working
<1>5. (Blocks(blockIn, blockOut))' /\ (Flows(blockIn, blockOut, dirty))' /\ InRpo' = InRpo
  BY <1>2, <1>4, SameBlocks, SameFunction
<1>6. Working'
  BY <1>4, <1>5 DEF Working
<1>7. Started'
  BY <1>1, <1>2 DEF Started
<1>. QED BY <1>1, <1>2, <1>6, <1>7 DEF GuardInv

LEMMA FixpointEndsGuards == ASSUME GuardInv, FixpointEnds PROVE GuardInv'
<1>1. func \in Functions /\ phase = "fixpoint" /\ Working /\ Started
  BY DEF GuardInv, FixpointEnds
<1>2. UNCHANGED <<func, blockIn, blockOut, dirty, at, live>> /\ phase' \in {"narrow", "report"}
  BY DEF FixpointEnds
<1>3. Started'
  BY <1>1, <1>2 DEF Started
<1>4. ASSUME dirty = {} PROVE (Calm(blockIn, blockOut))'
  <2>1. Calm(blockIn, blockOut)
    BY <1>1, <1>4 DEF Working, Calm
  <2>. QED BY <1>2, <2>1, SameWay
<1>. QED BY <1>1, <1>2, <1>3, <1>4 DEF GuardInv

LEMMA NarrowGuards == ASSUME GuardInv, Narrow PROVE GuardInv'
<1>1. func \in Functions /\ phase = "narrow" /\ (dirty = {} => Calm(blockIn, blockOut)) /\ Started
  BY DEF GuardInv, Narrow
<1>2. UNCHANGED <<func, dirty, at, live>> /\ phase' = "report"
  BY DEF Narrow
<1>3. Started'
  BY <1>1, <1>2 DEF Started
<1>4. ASSUME dirty = {} PROVE (Calm(blockIn, blockOut))'
  <2>1. Calm(blockIn', blockOut')
    BY <1>1, <1>4, OrderHolds, NarrowKeeps
  <2>. QED BY <1>2, <2>1, SameBlocks
<1>. QED BY <1>1, <1>2, <1>3, <1>4 DEF GuardInv

LEMMA ReportGuards == ASSUME GuardInv, Report PROVE GuardInv'
<1>1. func \in Functions /\ (dirty = {} => Calm(blockIn, blockOut)) /\ Started
  BY DEF GuardInv, Report
<1>2. /\ UNCHANGED <<func, blockIn, blockOut, dirty, at, live>> /\ phase' = "run"
      /\ errors' = AllErrors /\ code' = IF AllErrors = {} THEN Guarded ELSE func
  BY DEF Report
<1>3. ASSUME dirty = {}, AllErrors = {} PROVE OnTrack'
  <2>1. Calm(blockIn, blockOut)
    BY <1>1, <1>3
  <2>2. (Calm(blockIn, blockOut))'
    BY <1>2, <2>1, SameWay
  <2>3. Accepted'
    <3>1. AllErrors' = AllErrors /\ Guarded' = Guarded
      BY <1>2, SameReport, SameCode
    <3>. QED BY <1>1, <1>2, <1>3, <2>2, <3>1 DEF Accepted
  <2>4. Entry \in DOMAIN blockOut /\ DOMAIN blockIn \subseteq DOMAIN func /\ Entry \in DOMAIN func
    BY <2>1 DEF Calm, Blocks
  <2>5. LaidOut(Entry) /\ 1 \in 1..Past(Entry)
    <3>1. LaidOut(Entry)
      BY <1>1, <2>4, Layout
    <3>2. Len(func[Entry].insts) \in Nat
      BY <1>1, <2>4, TheFunction
    <3>. QED BY <3>1, <3>2 DEF Past
  <2>6. Stage(Entry, 1, 1)
    <3>1. Place(Entry, 1) \in 1..(Len(CodeOf(Entry)) + 1) /\ Len(CodeOf(Entry)) \in Nat
      BY <2>5 DEF LaidOut
    <3>. QED BY <2>5, <3>1 DEF Stage
  <2>7. OnWay(Entry, 1, live)
    BY <1>1, <2>4, <2>5, <2>6 DEF OnWay, Started, MovesKnown
  <2>8. \A h : OnWay(Entry, 1, h) => (OnWay(Entry, 1, h))'
    BY <1>2, SameWay
  <2>9. PICK h : h = live /\ OnWay(Entry, 1, h)
    BY <2>7
  <2>10. (OnWay(Entry, 1, h))'
    BY <2>8, <2>9
  <2>11. at' = <<Entry, 1>> /\ live' = h
    BY <1>1, <1>2, <2>9 DEF Started
  <2>. QED BY <2>3, <2>10, <2>11 DEF OnTrack
<1>. QED BY <1>1, <1>2, <1>3 DEF GuardInv

LEMMA ExecuteGuards == ASSUME GuardInv, Execute PROVE GuardInv'
<1>1. func \in Functions /\ phase = "run" /\ (dirty = {} /\ errors = {} => OnTrack)
  <2>1. phase = "run"
    BY Zenon DEF Execute
  <2>. QED BY <2>1 DEF GuardInv
<1>2. UNCHANGED <<func, code, phase, blockIn, blockOut, dirty, errors>>
  <2>1. UNCHANGED <<func, code, phase, blockIn, blockOut, dirty, visits, iters, errors>>
    BY Zenon DEF Execute
  <2>. QED BY <2>1
<1>3. ASSUME dirty = {}, errors = {} PROVE OnTrack'
  <2>1. Accepted
    BY <1>1, <1>3 DEF OnTrack
  <2>2. PICK b, n, held : at = <<b, n>> /\ live = held /\ OnWay(b, n, held)
    BY <1>1, <1>3 DEF OnTrack
  <2> DEFINE inst == code[b].insts[n]
             x == IF inst.args = <<>> THEN "none" ELSE OriginOf(b, n, inst.args[1])
  <2>3. at[1] = b /\ at[2] = n
    BY <2>2
  <2>4. n <= Len(code[b].insts) /\ at' = <<b, n + 1>>
    BY <2>3 DEF Execute
  <2>5. live' = LiveAfter(held, inst, x)
    BY <2>2, <2>3 DEF Execute, LiveAfter
  <2>6. OnWay(b, n + 1, LiveAfter(held, inst, x))
    BY <2>1, <2>2, <2>4, ExecuteKeeps
  <2>. HIDE DEF inst, x
  <2>7. PICK next : next = LiveAfter(held, inst, x)
    OBVIOUS
  <2>8. OnWay(b, n + 1, next)
    BY <2>6, <2>7
  <2>9. (OnWay(b, n + 1, next))'
    BY <1>2, <2>8, SameWay
  <2>10. Accepted'
    BY <1>2, <2>1, SameWay
  <2>11. at' = <<b, n + 1>> /\ live' = next
    BY <2>4, <2>5, <2>7
  <2>. QED BY <2>9, <2>10, <2>11 DEF OnTrack
<1>. QED BY <1>1, <1>2, <1>3 DEF GuardInv

LEMMA TakeBranchGuards == ASSUME GuardInv, TakeBranch PROVE GuardInv'
<1>1. func \in Functions /\ phase = "run" /\ (dirty = {} /\ errors = {} => OnTrack)
  BY DEF GuardInv, TakeBranch
<1>2. UNCHANGED <<func, code, blockIn, blockOut, dirty, errors, live>>
  BY DEF TakeBranch
<1>3. CASE code[at[1]].term.to = <<>>
  <2>1. phase' = "done"
    BY <1>3 DEF TakeBranch
  <2>. QED BY <1>1, <1>2, <2>1 DEF GuardInv
<1>4. CASE code[at[1]].term.to # <<>>
  <2>1. PICK s \in Targets(code, at[1]) : at' = <<s, 1>> /\ phase' = phase
    BY <1>4 DEF TakeBranch
  <2>2. ASSUME dirty = {}, errors = {} PROVE OnTrack'
    <3>1. Accepted
      BY <1>1, <2>2 DEF OnTrack
    <3>2. PICK b, n, held : at = <<b, n>> /\ live = held /\ OnWay(b, n, held)
      BY <1>1, <2>2 DEF OnTrack
    <3>3. at[1] = b /\ at[2] = n
      BY <3>2
    <3>4. n > Len(code[b].insts) /\ s \in Targets(code, b)
      BY <2>1, <3>3 DEF TakeBranch
    <3>5. OnWay(s, 1, held)
      BY <3>1, <3>2, <3>4, BranchesKeep
    <3>6. PICK t : t = s
      OBVIOUS
    <3>7. (OnWay(t, 1, held))'
      BY <1>2, <3>5, <3>6, SameWay
    <3>8. Accepted'
      BY <1>2, <3>1, SameWay
    <3>9. at' = <<t, 1>> /\ live' = held
      BY <1>2, <2>1, <3>2, <3>6
    <3>. QED BY <3>7, <3>8, <3>9 DEF OnTrack
  <2>. QED BY <1>1, <1>2, <2>1, <2>2 DEF GuardInv
<1>. QED BY <1>3, <1>4

LEMMA GuardStutter == ASSUME GuardInv, UNCHANGED bcVars PROVE GuardInv'
<1>1. UNCHANGED <<func, code, phase, blockIn, blockOut, dirty, errors, at, live>>
  BY DEF bcVars
<1>2. func' = func /\ Working' <=> Working
  BY <1>1, SameBlocks, SameFunction DEF Working
<1>3. Started' <=> Started
  BY <1>1 DEF Started
<1>4. OnTrack => OnTrack'
  <2>. SUFFICES ASSUME OnTrack PROVE OnTrack'
    OBVIOUS
  <2>1. Accepted
    BY DEF OnTrack
  <2>2. PICK b, n, held : at = <<b, n>> /\ live = held /\ OnWay(b, n, held)
    BY DEF OnTrack
  <2>3. (OnWay(b, n, held))' /\ Accepted'
    BY <1>1, <2>1, <2>2, SameWay
  <2>. QED BY <1>1, <2>2, <2>3 DEF OnTrack
<1>5. (Calm(blockIn, blockOut))' <=> Calm(blockIn, blockOut)
  BY <1>1, SameWay
<1>. QED BY <1>1, <1>2, <1>3, <1>4, <1>5 DEF GuardInv

(* The inductive invariant of the analysis and of the execution: no move is ahead of
   the worklist, none is lost by widening, narrowing or the report, and an accepted
   function that runs has moved nothing that its state does not show. *)
THEOREM GuardInvHolds == BorrowSpec => []GuardInv
<1>1. BorrowInit => GuardInv
  BY GuardInit
<1>2. GuardInv /\ [BorrowNext]_bcVars => GuardInv'
  BY ProcessGuards, FixpointEndsGuards, NarrowGuards, ReportGuards, ExecuteGuards, TakeBranchGuards,
     GuardStutter DEF BorrowNext
<1>. QED BY <1>1, <1>2, PTL DEF BorrowSpec

(* When the analysis has come to rest before its turns are used up, the functions
   that it accepts use no variable that their path has moved, unless the use stands
   behind a run-time guard: whatever the function, the number of its blocks and the
   path, and whatever the headers that were widened and narrowed. *)
THEOREM UsesAreGuarded == BorrowSpec => [](dirty = {} => NoSilentUseAfterMove)
<1>1. GuardInv => (dirty = {} => NoSilentUseAfterMove)
  <2> SUFFICES ASSUME GuardInv, dirty = {}, Running, errors = {}
               PROVE  \A v \in UsedHere :
                         LET x == OriginOf(at[1], at[2], v)
                         IN  x # "none" /\ live[x] = "moved" => Acquired(v)
    BY DEF NoSilentUseAfterMove
  <2>1. OnTrack
    BY DEF GuardInv, Running
  <2>2. PICK b, n, held : at = <<b, n>> /\ live = held /\ OnWay(b, n, held)
    BY <2>1 DEF OnTrack
  <2>3. OnWay(at[1], at[2], live)
    BY <2>2
  <2>4. Accepted
    BY <2>1 DEF OnTrack
  <2>. QED BY <2>3, <2>4, UseIsGuarded
<1>. QED BY <1>1, GuardInvHolds, PTL
=============================================================================
