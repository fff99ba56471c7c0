---------------------------- MODULE BorrowCheck ----------------------------
(***************************************************************************)
(* The ownership analysis of one DMIR function (src/src/ownership/:        *)
(* domain.rs, abstract.rs, transfer.rs): a forward fixpoint over           *)
(* the blocks in reverse post-order, widening at loop headers, a bounded   *)
(* narrowing, then the pass that reports errors and collects the uses to   *)
(* guard at run time.  The function is then executed on every path, so     *)
(* that the verdict can be compared with what the program does.            *)
(*                                                                         *)
(* Functions come from the set Functions; Init chooses one.                *)
(***************************************************************************)
EXTENDS Dmir, Integers, FiniteSets

CONSTANTS Functions,     \* the functions to analyse
          Names,         \* variables
          Params,        \* those that are parameters of the function
          Borrowers,     \* names of the functions that borrow
          WidenCap,      \* 32 in the code
          IterFactor     \* 512 in the code

VARIABLES
    func,        \* the function that is analysed
    code,        \* the function that is executed, with its guards
    phase,       \* "fixpoint", "narrow", "report", "run", "done"
    blockIn,     \* in_states
    blockOut,    \* out_states
    dirty,       \* blocks to process
    visits,      \* loop_iterations
    iters,       \* total_iters
    errors,      \* <<block, index, code, variable>>
    at,          \* execution: block and index
    live         \* execution: what each variable holds

bcVars == <<func, code, phase, blockIn, blockOut, dirty, visits, iters, errors, at, live>>

-----------------------------------------------------------------------------
(* The abstract states and their join (domain.rs).  The state of a variable or value
   is its base, how often it is borrowed, how often mutably, and the set of borrowers.
   The interner of borrower sets is left out, a set is itself, and so are the place
   and reason a move carries for messages. *)

Bases == {"uninit", "owned", "moved", "unknown"}

VarStates == [base : Bases, borrows : Nat, muts : Nat, by : SUBSET Borrowers]

Plain(base) == [base |-> base, borrows |-> 0, muts |-> 0, by |-> {}]
Uninit == Plain("uninit")
Owned == Plain("owned")
Moved == Plain("moved")

(* Variant: a value moved on one path only counts as moved. *)
JoinBase_MayMove(a, b) ==
    CASE a = "uninit" -> b
      [] b = "uninit" -> a
      [] "unknown" \in {a, b} -> "unknown"
      [] "moved" \in {a, b} -> "moved"
      [] OTHER -> "owned"

(* Uninit is neutral, Unknown absorbs, and a value is moved only when both
   sides have moved it. *)
JoinBase(a, b) ==
    CASE a = "uninit" -> b
      [] b = "uninit" -> a
      [] a = b -> a
      [] OTHER -> "unknown"

Larger(m, n) == IF m >= n THEN m ELSE n

Join(s, t) ==
    IF s = t THEN s
    ELSE [base    |-> JoinBase(s.base, t.base),
          borrows |-> Larger(Cardinality(s.by \cup t.by), Larger(s.borrows, t.borrows)),
          muts    |-> Larger(s.muts, t.muts),
          by      |-> s.by \cup t.by]

(* One more borrow of s, by the function f. *)
Borrow(s, f) == [s EXCEPT !.borrows = @ + 1, !.by = @ \cup {f}]
BorrowMut(s, f) == [Borrow(s, f) EXCEPT !.muts = @ + 1]

(* States of a whole function: per variable, per value, and the variable a
   value was loaded from. *)
EmptyState(names, values) ==
    [vars |-> [x \in names |-> Uninit], vals |-> [v \in values |-> Uninit],
     origin |-> [v \in values |-> "none"]]

JoinStates(p, q) ==
    IF p = q THEN p
    ELSE [vars   |-> [x \in DOMAIN p.vars |-> Join(p.vars[x], q.vars[x])],
          vals   |-> [v \in DOMAIN p.vals |-> Join(p.vals[v], q.vals[v])],
          origin |-> [v \in DOMAIN p.origin |->
                        IF p.origin[v] = "none" THEN q.origin[v] ELSE p.origin[v]]]

-----------------------------------------------------------------------------
Values == 1..MaxValue(func)
Targets(f, b) == {f[b].term.to[e] : e \in DOMAIN f[b].term.to}
FuncMap(key, val) == [k \in {key} |-> val]
Put(map, key, val) == [k \in DOMAIN map \cup {key} |-> IF k = key THEN val ELSE map[k]]

-----------------------------------------------------------------------------
(* What is taken for granted of the functions *)

Instructions == [op : STRING, dest : Nat, args : Seq(Nat), name : STRING]
Terminators == [kind : STRING, uses : Seq(Nat), to : Seq(Nat), args : Seq(Seq(Nat))]

(* Every edge leads to a block and passes its parameters, and every instruction has
   the operands and the variable that its operation needs. *)
WellFormed(f) ==
    /\ f \in Seq([params : Seq(Nat), insts : Seq(Instructions), term : Terminators])
    /\ f # <<>>
    /\ MaxValue(f) \in Nat
    /\ \A b \in DOMAIN f :
          /\ CheckEdgeArity(f, f[b].term)
          /\ Len(f[b].term.to) <= 2
          /\ DOMAIN f[b].term.args = DOMAIN f[b].term.to
          /\ TermUses(f[b].term) \subseteq 1..MaxValue(f)
          /\ \A i \in DOMAIN f[b].insts :
                LET inst == f[b].insts[i]
                IN  /\ InstUses(inst) \subseteq 1..MaxValue(f)
                    /\ inst.op \in {"load", "assign"} => inst.name \in Names
                    /\ inst.op \in {"assign", "method", "setfield"} => inst.args # <<>>

Loads(f, v) ==
    {p \in UNION {{b} \X (DOMAIN f[b].insts) : b \in DOMAIN f} :
        f[p[1]].insts[p[2]].op = "load" /\ f[p[1]].insts[p[2]].dest = v}
Named(f, p) == f[p[1]].insts[p[2]].name

(* Instruction l neither binds the variable x again nor passes a value of x, and does
   not define v. *)
LeavesAlone(f, b, l, x, v) ==
    LET inst == f[b].insts[l]
    IN  /\ inst.op = "assign" => inst.name # x
        /\ inst.dest # v
        /\ inst.op \in {"call", "method"} /\ inst.args # <<>> =>
              \A p \in Loads(f, inst.args[1]) : Named(f, p) # x

(* Every read of a variable is a load of its own: the value is defined once and used
   later in the same block, while the variable still is what was loaded. *)
LoadsAreFresh(f) ==
    \A b \in DOMAIN f : \A m \in DOMAIN f[b].insts :
        LET v == f[b].insts[m].dest
            x == f[b].insts[m].name
            Fresh(c, n) == c = b /\ m < n /\ \A l \in (m+1)..(n-1) : LeavesAlone(f, b, l, x, v)
        IN  f[b].insts[m].op = "load" =>
              /\ Loads(f, v) = {<<b, m>>}
              /\ \A c \in DOMAIN f :
                    /\ \A n \in DOMAIN f[c].insts : v \in InstUses(f[c].insts[n]) => Fresh(c, n)
                    /\ v \in TermUses(f[c].term) => Fresh(c, Len(f[c].insts) + 1)

ASSUME BorrowAssumption ==
    /\ IsFiniteSet(Borrowers) /\ {"view", "mut_view", "method_view"} \subseteq Borrowers
    /\ "none" \notin Names
    /\ \A f \in Functions : WellFormed(f) /\ LoadsAreFresh(f)

-----------------------------------------------------------------------------
(* Transfer functions *)

(* How a callee takes an argument.  destroy and drop consume, mut_view borrows
   and keeps the borrow; functions of the program take an argument as owned
   (of a class), as a view or as a mutable view for the time of the call. *)
Mode(callee) ==
    CASE callee \in {"destroy", "drop", "consume"} -> "owned"
      [] callee \in {"mut_view", "edit"} -> "mut"
      [] callee \in {"view", "look"} -> "view"
      [] OTHER -> "plain"

SetBoth(st, v, s) ==
    [st EXCEPT !.vals[v] = s,
               !.vars = IF st.origin[v] = "none" THEN @ ELSE [@ EXCEPT ![st.origin[v]] = s]]

Consume(st, v) == SetBoth(st, v, Moved)

(* One argument of a call: the new state and the error, if any. *)
PassArg(st, callee, v) ==
    LET s == st.vals[v]
        mode == Mode(callee)
        borrowed == s.borrows > 0 \/ s.muts > 0
        fail(err) == [st |-> st, error |-> err]
        ok(new) == [st |-> new, error |-> "none"]
    IN  CASE mode = "plain" -> ok(st)
          [] mode # "plain" /\ s.base = "moved" -> fail("UseAfterMove")
          [] mode = "owned" /\ s.base # "moved" ->
                IF borrowed THEN fail("ActiveView") ELSE ok(Consume(st, v))
          [] mode = "mut" /\ s.base # "moved" ->
                IF borrowed THEN fail("MultipleMutableViews")
                ELSE ok(IF callee = "mut_view" THEN SetBoth(st, v, BorrowMut(s, callee)) ELSE st)
          [] OTHER ->
                IF s.muts > 0 THEN fail("ActiveView")
                ELSE ok(IF callee = "view" THEN SetBoth(st, v, Borrow(s, callee)) ELSE st)

(* The effect of a call and its error.  The mode is that of the first argument,
   the others are read only. *)
Passed(st, inst) ==
    IF inst.args = <<>> THEN [st |-> st, error |-> "none"]
    ELSE PassArg(st, inst.name, inst.args[1])

(* The errors of an instruction, each with the variable it is about, before it
   takes effect.  The operations that only compute with their operands are "use";
   "pick" (select and decide) and "const" look at no operand. *)
Errors(st, inst) ==
    LET is(cond, err, x) == IF cond THEN {<<err, x>>} ELSE {}
        moved(vs) == {<<"UseAfterMove", st.origin[v]>> : v \in {v \in vs : st.vals[v].base = "moved"}}
        x == st.vars[inst.name]
        v == inst.args[1]
    IN  CASE inst.op = "assign" -> is(x.borrows > 0, "ActiveView", inst.name)
          [] inst.op = "load" ->
                is(x.base = "moved", "UseAfterMove", inst.name)
                  \cup is(x.base # "moved" /\ x.muts > 0, "Conflict", inst.name)
          [] inst.op = "use" -> moved(InstUses(inst))
          [] inst.op = "method" -> moved({v})
          [] inst.op = "setfield" ->
                is(st.vals[v].borrows > 0, "ActiveView", st.origin[v]) \cup moved({v})
          [] inst.op = "call" ->
                is(Passed(st, inst).error # "none", Passed(st, inst).error, st.origin[v])
          [] OTHER -> {}

(* A result is an owned temporary; loads copy the state of the variable. *)
ApplyTransfer(st, inst) ==
    CASE inst.op = "assign" -> [st EXCEPT !.vars[inst.name] = st.vals[inst.args[1]]]
      [] inst.op = "load" ->
            [st EXCEPT !.vals[inst.dest] = st.vars[inst.name], !.origin[inst.dest] = inst.name]
      [] inst.op = "call" ->
            [Passed(st, inst).st EXCEPT !.vals[inst.dest] = Owned]
      [] inst.op = "method" /\ inst.name = "view" ->
            [SetBoth(st, inst.args[1], Borrow(st.vals[inst.args[1]], "method_view"))
               EXCEPT !.vals[inst.dest] = Owned]
      [] inst.op = "setfield" -> st
      [] OTHER -> [st EXCEPT !.vals[inst.dest] = Owned]

(* The states before each instruction and, last, after all of them. *)
States(st, insts) ==
    LET before[i \in 1..(Len(insts) + 1)] ==
            IF i = 1 THEN st ELSE ApplyTransfer(before[i - 1], insts[i - 1])
    IN  before
StateBefore(st, insts, i) == States(st, insts)[i]
StateAfter(st, insts) == States(st, insts)[Len(insts) + 1]

(* The edge p -> b: block parameters take the states of the arguments. *)
Transferred(outs, p, b) ==
    LET term == func[p].term
        e    == CHOOSE e \in DOMAIN term.to : term.to[e] = b /\ \A d \in 1..(e-1) : term.to[d] # b
        pars == func[b].params
        Slot(v) == {k \in DOMAIN pars : pars[k] = v}
        arg(v)  == term.args[e][CHOOSE k \in Slot(v) : TRUE]
        out  == outs[p]
    IN  [out EXCEPT !.vals =
            [v \in DOMAIN out.vals |-> IF Slot(v) = {} THEN out.vals[v] ELSE out.vals[arg(v)]]]

(* The join over the predecessors that have an out-state, in the order of the
   blocks.  It starts with nothing known, which is neutral. *)
JoinUpTo(outs, b) ==
    LET upTo[p \in 0..Len(func)] ==
            IF p = 0 THEN EmptyState(Names, Values)
            ELSE IF p \in DOMAIN outs /\ b \in Targets(func, p)
                 THEN JoinStates(upTo[p - 1], Transferred(outs, p, b))
                 ELSE upTo[p - 1]
    IN  upTo
JoinInto(outs, b) == JoinUpTo(outs, b)[Len(func)]
Reached(outs, b) == \E p \in DOMAIN outs : b \in Targets(func, p)

JoinPredecessors(b) ==
    CASE Reached(blockOut, b) -> JoinInto(blockOut, b)
      [] ~Reached(blockOut, b) /\ b \in DOMAIN blockIn -> blockIn[b]
      [] OTHER -> EmptyState(Names, Values)

(* What changed since the last visit of a header becomes unknown; the counts of
   borrows are kept. *)
WidenMap(prev, cur) ==
    [k \in DOMAIN cur |-> IF prev[k] # cur[k] THEN [cur[k] EXCEPT !.base = "unknown"] ELSE cur[k]]
Widen(prev, cur) ==
    [cur EXCEPT !.vars = WidenMap(prev.vars, @), !.vals = WidenMap(prev.vals, @)]

-----------------------------------------------------------------------------
EntryState(f) ==
    LET empty == EmptyState(Names, 1..MaxValue(f))
    IN  [empty EXCEPT !.vars = [x \in Names |-> IF x \in Params THEN Owned ELSE Uninit]]

BorrowInit ==
    /\ func \in Functions
    /\ code = func
    /\ phase = "fixpoint"
    /\ blockIn = FuncMap(Entry, EntryState(func))
    /\ blockOut = [b \in {} |-> 0]
    /\ dirty = {Entry}
    /\ visits = [b \in DOMAIN func |-> 0]
    /\ iters = 0
    /\ errors = {}
    /\ at = <<Entry, 1>>
    /\ live = [x \in Names |-> IF x \in Params THEN "live" ELSE "none"]

Rpo == ReversePostOrder(func, TRUE)
Headers == LoopHeaders(func, ImmediateDominators(func))

MaxIters == IterFactor * Len(Rpo)

(* The dirty block that is first in the order. *)
FirstDirty ==
    Rpo[CHOOSE i \in DOMAIN Rpo : Rpo[i] \in dirty /\ \A j \in 1..(i-1) : Rpo[j] \notin dirty]
InRpo == {Rpo[i] : i \in DOMAIN Rpo}

(* One turn of the worklist. *)
ProcessBlock ==
    /\ phase = "fixpoint"
    /\ dirty # {}
    /\ iters < MaxIters
    /\ LET b      == FirstDirty
           joined == JoinPredecessors(b)
           count  == visits[b] + 1
           cur    == IF b \in Headers /\ count > WidenCap /\ b \in DOMAIN blockIn
                     THEN Widen(blockIn[b], joined) ELSE joined
           out    == StateAfter(cur, func[b].insts)
           same   == b \in DOMAIN blockOut /\ blockOut[b] = out
       IN  /\ blockIn' = Put(blockIn, b, cur)
           /\ blockOut' = Put(blockOut, b, out)
           /\ dirty' = (dirty \ {b}) \cup (IF same THEN {} ELSE Targets(func, b) \cap InRpo)
           /\ visits' = IF b \in Headers THEN [visits EXCEPT ![b] = count] ELSE visits
    /\ iters' = iters + 1
    /\ UNCHANGED <<func, code, phase, errors, at, live>>

(* The fixpoint is reached, or the turns are used up. *)
FixpointEnds ==
    /\ phase = "fixpoint"
    /\ dirty = {} \/ iters = MaxIters
    /\ phase' = IF \E b \in Headers : visits[b] > WidenCap THEN "narrow" ELSE "report"
    /\ UNCHANGED <<func, code, blockIn, blockOut, dirty, visits, iters, errors, at, live>>

(* Narrowing of one header: an unknown base is replaced by what the predecessors
   give, if they know better. *)
NarrowMap(cur, cand) ==
    [k \in DOMAIN cur |->
        IF cur[k].base = "unknown" /\ cand[k].base \notin {"unknown", "uninit"}
        THEN [cur[k] EXCEPT !.base = cand[k].base] ELSE cur[k]]

NarrowState(cur, cand) ==
    [cur EXCEPT !.vars = NarrowMap(@, cand.vars), !.vals = NarrowMap(@, cand.vals)]

NarrowHeader(ins, outs, b) ==
    LET new == NarrowState(ins[b], JoinInto(outs, b))
    IN  IF b \notin DOMAIN ins \/ ~Reached(outs, b) \/ new = ins[b] THEN <<ins, outs>>
        ELSE <<Put(ins, b, new), Put(outs, b, StateAfter(new, func[b].insts))>>

NarrowUpTo(io) ==
    LET after[i \in 0..Len(Rpo)] ==
            IF i = 0 THEN io
            ELSE IF Rpo[i] \in Headers THEN NarrowHeader(after[i - 1][1], after[i - 1][2], Rpo[i])
            ELSE after[i - 1]
    IN  after
NarrowOnce(io) == NarrowUpTo(io)[Len(Rpo)]

Narrow ==
    /\ phase = "narrow"
    /\ LET twice == NarrowOnce(NarrowOnce(<<blockIn, blockOut>>))
       IN  blockIn' = twice[1] /\ blockOut' = twice[2]
    /\ phase' = "report"
    /\ UNCHANGED <<func, code, dirty, visits, iters, errors, at, live>>

(* The errors and the unproven uses of the instruction at <<b, i>>.  A load is not
   recorded as a use. *)
StateAt(b, i) == StateBefore(blockIn[b], func[b].insts, i)
ErrorsAt(b, i) == {<<b, i, e[1], e[2]>> : e \in Errors(StateAt(b, i), func[b].insts[i])}
Unproven(st, b, i, vs) == {<<b, i, v>> : v \in {v \in vs : st.vals[v].base = "unknown"}}
GuardsAt(b, i) == Unproven(StateAt(b, i), b, i, InstUses(func[b].insts[i]))

(* check_terminator; the index of a terminator is past the instructions. *)
Past(b) == Len(func[b].insts) + 1
TermErrors(b) ==
    {<<b, Past(b), "UseAfterMove", StateAt(b, Past(b)).origin[v]>> :
        v \in {v \in TermUses(func[b].term) : StateAt(b, Past(b)).vals[v].base = "moved"}}
TermGuards(b) == Unproven(StateAt(b, Past(b)), b, Past(b), TermUses(func[b].term))

(* insert_runtime_guards: an unproven use stands between an acquire and a release
   of its value; for a terminator both come before it.  The values of one use are
   taken in some order, the results of the calls are not used. *)
InSomeOrder(S) ==
    CHOOSE q \in [1..Cardinality(S) -> S] : \A v \in S : \E k \in DOMAIN q : q[k] = v
MarkedAt(marked, b, i) == InSomeOrder({g[3] : g \in {g \in marked : g[1] = b /\ g[2] = i}})
GuardCall(name, vs) == [k \in DOMAIN vs |-> Inst("call", 0, <<vs[k]>>, name)]
Around(b, marked, i) ==
    GuardCall("own_acquire", MarkedAt(marked, b, i)) \o <<func[b].insts[i]>>
      \o GuardCall("own_release", MarkedAt(marked, b, i))

GuardedInsts(b, marked) ==
    LET upTo[i \in 0..Len(func[b].insts)] ==
            IF i = 0 THEN <<>> ELSE upTo[i - 1] \o Around(b, marked, i)
    IN  upTo

(* Variant: the terminators are not guarded. *)
GuardedBlock_NotTerm(b, marked) == GuardedInsts(b, marked)[Len(func[b].insts)]

GuardedBlock(b, marked) ==
    LET term == MarkedAt(marked, b, Past(b))
    IN  GuardedInsts(b, marked)[Len(func[b].insts)]
          \o [k \in 1..(2 * Len(term)) |->
                 Inst("call", 0, <<term[(k + 1) \div 2]>>,
                      IF k % 2 = 1 THEN "own_acquire" ELSE "own_release")]

(* The pass over the blocks that have an in-state: errors, then guards.  A function
   with errors is rejected; it is executed here all the same, to judge them. *)
Sites == UNION {{b} \X (DOMAIN func[b].insts) : b \in DOMAIN blockIn}
AllErrors ==
    (UNION {ErrorsAt(p[1], p[2]) : p \in Sites}) \cup (UNION {TermErrors(b) : b \in DOMAIN blockIn})
AllGuards ==
    (UNION {GuardsAt(p[1], p[2]) : p \in Sites}) \cup (UNION {TermGuards(b) : b \in DOMAIN blockIn})
Guarded == [b \in DOMAIN func |-> [func[b] EXCEPT !.insts = GuardedBlock(b, AllGuards)]]

Report ==
    /\ phase = "report"
    /\ errors' = AllErrors
    /\ code' = IF AllErrors = {} THEN Guarded ELSE func
    /\ phase' = "run"
    /\ UNCHANGED <<func, blockIn, blockOut, dirty, visits, iters, at, live>>

-----------------------------------------------------------------------------
(* Execution.  A value stands for the variable it was loaded from; a load is
   immediately before its use, as lowering emits it. *)
OriginOf(b, i, v) ==
    LET loads == {j \in 1..(i-1) : code[b].insts[j].op = "load" /\ code[b].insts[j].dest = v}
    IN  IF loads = {} THEN "none" ELSE code[b].insts[CHOOSE j \in loads : TRUE].name

Execute ==
    /\ phase = "run"
    /\ at[2] <= Len(code[at[1]].insts)
    /\ LET inst == code[at[1]].insts[at[2]]
           x    == IF inst.args = <<>> THEN "none" ELSE OriginOf(at[1], at[2], inst.args[1])
       IN  live' = CASE inst.op = "assign" ->
                           [live EXCEPT ![inst.name] = IF x = "none" THEN "live" ELSE live[x]]
                     [] inst.op = "call" /\ Mode(inst.name) = "owned" /\ x # "none" ->
                           [live EXCEPT ![x] = "moved"]
                     [] OTHER -> live
    /\ at' = <<at[1], at[2] + 1>>
    /\ UNCHANGED <<func, code, phase, blockIn, blockOut, dirty, visits, iters, errors>>

TakeBranch ==
    /\ phase = "run"
    /\ at[2] > Len(code[at[1]].insts)
    /\ IF code[at[1]].term.to = <<>>
       THEN phase' = "done" /\ UNCHANGED at
       ELSE \E s \in Targets(code, at[1]) : at' = <<s, 1>> /\ UNCHANGED phase
    /\ UNCHANGED <<func, code, blockIn, blockOut, dirty, visits, iters, errors, live>>

BorrowNext == ProcessBlock \/ FixpointEnds \/ Narrow \/ Report \/ Execute \/ TakeBranch

BorrowSpec == BorrowInit /\ [][BorrowNext]_bcVars

-----------------------------------------------------------------------------
Running == phase = "run"
GuardCalls == {"own_acquire", "own_release"}
UsedHere ==
    LET body == code[at[1]].insts
    IN  CASE at[2] > Len(body) -> TermUses(code[at[1]].term)
          [] at[2] <= Len(body) /\ body[at[2]].name \in GuardCalls -> {}
          [] OTHER -> InstUses(body[at[2]])

(* Only acquires and releases stand between the acquire of v and this place. *)
Acquired(v) ==
    \E j \in 1..(at[2] - 1) :
        /\ code[at[1]].insts[j].name = "own_acquire" /\ code[at[1]].insts[j].args = <<v>>
        /\ \A k \in j..(at[2] - 1) : code[at[1]].insts[k].name \in GuardCalls

(* A use of a variable that this path has moved is behind an error, which stops
   the compilation, or behind a run-time guard: transfer.rs and the guards of
   abstract.rs leave no third way. *)
NoSilentUseAfterMove ==
    Running /\ errors = {} =>
        \A v \in UsedHere :
            LET x == OriginOf(at[1], at[2], v)
            IN  x # "none" /\ live[x] = "moved" => Acquired(v)

(* "compile error only for definite use-after-move proven by the fixpoint"
   (abstract.rs:556): no path reaches a reported use with the variable alive. *)
MoveErrorIsDefinite ==
    Running =>
        \A e \in errors :
            e[1] = at[1] /\ e[2] = at[2] /\ e[3] = "UseAfterMove" /\ e[4] # "none"
               => live[e[4]] # "live"
=============================================================================
