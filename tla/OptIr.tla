------------------------------- MODULE OptIr -------------------------------
(***************************************************************************)
(* What the optimizer passes share: functions with parameters over the     *)
(* blocks of Dmir, the helpers that rename values, and the meaning of a    *)
(* module as an interpreter.                                               *)
(*                                                                         *)
(* A function is [params, blocks]: a parameter is [n, v], the name and the *)
(* value it arrives in; the blocks are a function from block ids.  Names   *)
(* of variables are numbers, those in Globals are variables of the module. *)
(* The function 0 is main.                                                 *)
(*                                                                         *)
(* op      name         args            op      name          args         *)
(* const   the integer  --              copy    --            operand      *)
(* cbool   0 or 1       --              not     --            operand      *)
(* load    variable     --              select  --            cond, a, b   *)
(* assign  variable     value           call    function      arguments    *)
(* bin     operator     left, right     out     --            value        *)
(* decide  --           cond, value, ... and the other value, if any       *)
(* list    length, get, append or make  field   position      object       *)
(***************************************************************************)
EXTENDS Dmir, Words

CONSTANTS
  Globals,    \* the module's mutable variables (each starts at 0)
  ReadFn      \* an external function that consumes one input

Main == 0

\* the members of a finite set of numbers in ascending order
Ascending(S) == [i \in 1..Cardinality(S) |-> CHOOSE x \in S : Cardinality({y \in S : y < x}) = i - 1]
Position(seq, x) == CHOOSE i \in DOMAIN seq : seq[i] = x
ParamNames(fn) == {fn.params[i].n : i \in DOMAIN fn.params}
ParamValues(fn) == [i \in DOMAIN fn.params |-> fn.params[i].v]
ParamValue(fn, n) == LET i == CHOOSE i \in DOMAIN fn.params : fn.params[i].n = n IN fn.params[i].v

(* The function as the verifier sees it: its parameters are defined before the
   first instruction of the entry. *)
Verifiable(fn) == [fn.blocks EXCEPT ![Entry].params = ParamValues(fn) \o @]
Verified(fn) == Entry \in DOMAIN fn.blocks /\ VerifyFunction(Verifiable(fn))
FnMaxValue(fn) == MaxValue(Verifiable(fn))
ModuleMaxValue(m) == LET all == {FnMaxValue(m[g]) : g \in DOMAIN m} IN CHOOSE v \in all : \A w \in all : w <= v

RECURSIVE ReachableFrom(_, _, _)
ReachableFrom(f, seen, work) ==
  IF work = {} THEN seen
  ELSE LET more == UNION {ToSet(Successors(f, b)) : b \in work} \ seen IN ReachableFrom(f, seen \cup more, more)
Reachable(f) == ReachableFrom(f, {Entry}, {Entry})
Only(f, S) == [b \in DOMAIN f \cap S |-> f[b]]

(* The instructions of a function, and the number of edges into a block. *)
AllInsts(f) == UNION {ToSet(f[b].insts) : b \in DOMAIN f}
EdgesInto(f, b) ==
  Cardinality({e \in UNION {{p} \X DOMAIN f[p].term.to : p \in DOMAIN f} : f[e[1]].term.to[e[2]] = b})

(* Operands replaced through a map, followed to the end of its chains. *)
RECURSIVE Resolve(_, _)
Resolve(subst, v) == IF v \in DOMAIN subst /\ subst[v] # v THEN Resolve(subst, subst[v]) ELSE v
SubstArgs(subst, args) == [i \in DOMAIN args |-> Resolve(subst, args[i])]
substitute_inst(subst, inst) == [inst EXCEPT !.args = SubstArgs(subst, @)]
substitute_terminator(subst, term) ==
  [term EXCEPT !.uses = SubstArgs(subst, @), !.args = [e \in DOMAIN @ |-> SubstArgs(subst, @[e])]]
SubstBlock(subst, block) ==
  [block EXCEPT !.insts = [i \in DOMAIN @ |-> substitute_inst(subst, @[i])], !.term = substitute_terminator(subst, @)]

Compare == {"<", "<=", ">", ">=", "==", "!="}
(* An integer division faults on a zero divisor and on the smallest number by -1; the
   other operators count as safe, though + - * fault on overflow. *)
may_trap(inst) == inst.op = "bin" /\ inst.name \in {"/", "%"}

-----------------------------------------------------------------------------
(* The meaning of a module.  A run is bounded by fuel, one unit per block. *)

Speculated == {"+", "-", "*"}   \* the operators with a fault that may_trap does not count

Binary(op, x, y) ==
  CASE op = "+" -> Checked(x + y) [] op = "-" -> Checked(x - y) [] op = "*" -> Checked(x * y)
    [] op \in {"/", "%"} -> IF y = 0 \/ (x = MinW /\ y = -1) THEN Trap
                           ELSE Ok(IF op = "/" THEN Sdiv(x, y) ELSE Srem(x, y))
    [] op = "&" -> Ok(BAnd(x, y)) [] op = "wrapping_+" -> Ok(SWrap(W, x + y))
    [] op = "wrapping_-" -> Ok(SWrap(W, x - y)) [] op = "wrapping_*" -> Ok(SWrap(W, x * y))
    [] op = "<" -> Ok(Flag(x < y)) [] op = "<=" -> Ok(Flag(x <= y)) [] op = ">" -> Ok(Flag(x > y))
    [] op = ">=" -> Ok(Flag(x >= y)) [] op = "==" -> Ok(Flag(x = y)) [] op = "!=" -> Ok(Flag(x # y))

\* the machine: globals, inputs left, output, fuel, how the run stands, the returned value;
\* in a run that is not checked, the speculated operators wrap
NewRun(inputs, fuel) ==
  [glob |-> [g \in Globals |-> 0], in |-> inputs, log |-> <<>>, fuel |-> fuel, st |-> "ok", ret |-> 0, checked |-> TRUE]
Compute(s, op, x, y) == Binary(IF s.checked \/ op \notin Speculated THEN op ELSE "wrapping_" \o op, x, y)
Set(f, x, y) == [z \in DOMAIN f \cup {x} |-> IF z = x THEN y ELSE f[z]]
At(f, x) == IF x \in DOMAIN f THEN f[x] ELSE 0
SetAll(f, xs, ys) == FoldLeft(LAMBDA acc, i : Set(acc, xs[i], ys[i]), f, [i \in DOMAIN xs |-> i])

(* Lists and objects are sequences; a read outside a list gives 0. *)
ListOp(name, xs) ==
  CASE name = "make" -> xs [] name = "len" -> Len(xs[1]) [] name = "append" -> Append(xs[1], xs[2])
    [] name = "get" -> IF xs[2] + 1 \in DOMAIN xs[1] THEN xs[1][xs[2] + 1] ELSE 0

RECURSIVE RunFn(_, _, _, _), RunBlock(_, _, _, _, _), RunInsts(_, _, _, _, _), RunTerm(_, _, _, _)
RunFn(m, fn, args, s) ==
  LET names == [i \in DOMAIN fn.params |-> fn.params[i].n]
      frame == [val |-> SetAll(<<>>, ParamValues(fn), args), var |-> SetAll(<<>>, names, args)]
  IN RunBlock(m, fn, Entry, frame, s)
RunBlock(m, fn, b, frame, s) ==
  IF s.fuel = 0 \/ s.st # "ok" THEN [s EXCEPT !.st = IF @ = "ok" THEN "fuel" ELSE @]
  ELSE RunTerm(m, fn, fn.blocks[b].term, RunInsts(m, fn.blocks[b].insts, 1, frame, [s EXCEPT !.fuel = @ - 1]))
Values(frame, as) == [i \in DOMAIN as |-> At(frame.val, as[i])]
EdgeTaken(term, frame) == IF term.kind = "cond" /\ At(frame.val, term.uses[1]) = 0 THEN 2 ELSE 1
Jump(m, fn, frame, to, vals, s) ==
  RunBlock(m, fn, to, [frame EXCEPT !.val = SetAll(@, fn.blocks[to].params, vals)], s)
Follow(m, fn, term, frame, e, s) == Jump(m, fn, frame, term.to[e], Values(frame, term.args[e]), s)
RunTerm(m, fn, term, done) ==
  IF done.s.st # "ok" THEN done.s
  ELSE CASE term.kind = "unreachable" -> [done.s EXCEPT !.st = "trap"]
         [] term.kind = "return" -> [done.s EXCEPT !.ret = IF term.uses = <<>> THEN 0 ELSE At(done.frame.val, term.uses[1])]
         [] OTHER -> Follow(m, fn, term, done.frame, EdgeTaken(term, done.frame), done.s)
RunInsts(m, insts, i, frame, s) ==
  IF i > Len(insts) \/ s.st # "ok" THEN [frame |-> frame, s |-> s]
  ELSE LET inst == insts[i]
           arg(k) == At(frame.val, inst.args[k])
           define(x) == [frame EXCEPT !.val = Set(@, inst.dest, x)]
           next(fr, t) == RunInsts(m, insts, i + 1, fr, t)
       IN CASE inst.op \in {"const", "cbool"} -> next(define(inst.name), s)
            [] inst.op = "load" ->
                 next(define(IF inst.name \in Globals THEN s.glob[inst.name] ELSE At(frame.var, inst.name)), s)
            [] inst.op = "assign" ->
                 IF inst.name \in Globals THEN next(frame, [s EXCEPT !.glob[inst.name] = arg(1)])
                 ELSE next([frame EXCEPT !.var = Set(@, inst.name, arg(1))], s)
            [] inst.op = "bin" ->
                 LET r == Compute(s, inst.name, arg(1), arg(2))
                 IN next(define(r.v), IF r.st = "trap" THEN [s EXCEPT !.st = "trap"] ELSE s)
            [] inst.op = "copy" -> next(define(arg(1)), s)
            [] inst.op = "not" -> next(define(1 - arg(1)), s)
            [] inst.op = "select" -> next(define(IF arg(1) # 0 THEN arg(2) ELSE arg(3)), s)
            [] inst.op = "decide" ->
                 LET taken == {k \in 1..(Len(inst.args) \div 2) : arg(2 * k - 1) # 0}
                 IN next(define(IF taken # {} THEN arg(2 * (CHOOSE k \in taken : \A j \in taken : k <= j))
                                ELSE IF Len(inst.args) % 2 = 1 THEN arg(Len(inst.args)) ELSE 0), s)
            [] inst.op = "list" -> next(define(ListOp(inst.name, [k \in DOMAIN inst.args |-> arg(k)])), s)
            [] inst.op = "field" -> next(define(arg(1)[inst.name]), s)
            [] inst.op = "out" -> next(frame, [s EXCEPT !.log = Append(@, arg(1))])
            [] inst.op = "call" /\ inst.name = ReadFn ->
                 next(define(IF s.in = <<>> THEN 0 ELSE Head(s.in)), [s EXCEPT !.in = IF @ = <<>> THEN @ ELSE Tail(@)])
            [] inst.op = "call" /\ inst.name # ReadFn ->
                 LET r == RunFn(m, m[inst.name], [k \in DOMAIN inst.args |-> arg(k)], s)
                 IN next(define(r.ret), r)

(* What a run of main shows: its output, its result and whether it faulted. *)
Shown(s) == [log |-> s.log, ret |-> s.ret, st |-> s.st]
Outcome(m, inputs, fuel) == Shown(RunFn(m, m[Main], <<>>, NewRun(inputs, fuel)))
UncheckedOutcome(m, inputs, fuel) ==
  Shown(RunFn(m, m[Main], <<>>, [NewRun(inputs, fuel) EXCEPT !.checked = FALSE]))
=============================================================================
