-------------------------------- MODULE Gates --------------------------------
(***************************************************************************)
(* The gates a function passes before it is lowered: divisors are proven   *)
(* not to be zero, contracts are not broken by what is known of a call,    *)
(* unsafe functions are called where that is justified, recursion in pure  *)
(* functions shrinks its metric, and the statements of a parallel block do *)
(* not race.  At the end, the inference of what a function may do          *)
(* (src/src/effects/mod.rs).                                               *)
(*                                                                         *)
(* A context is [proven, symbols, outer, requires, just, types, nopanic,   *)
(* noalloc]: the variables known not to be zero, those in scope, those a   *)
(* parallel block shares, the contracts of the function, the justification *)
(* of the unsafe code around ("none", "empty" or "given") and the types of *)
(* the parameters.  A result g is [ctx, errs].                             *)
(***************************************************************************)
EXTENDS Syntax, FiniteSets

CONSTANTS
  Panic,          \* the function that stops the program
  Asserts,        \* require and assert
  Allocators,     \* the library functions that allocate
  Send,           \* the method of a channel
  ValName,        \* "val", what a predicate may call the value it is about
  NonZeroGlobals, \* the globals of the class NonZeroInt
  ArenaClasses    \* classes whose objects are not on the heap

Complain(g, code) == [g EXCEPT !.errs = @ \cup {code}]
IsInt(e, test(_)) == e.k = "int" /\ test(e.n)
IsVar(e, n) == e.k = "var" /\ e.n = n
IsZero(e) == IsInt(e, LAMBDA x : x = 0)
is_non_zero_literal(e) == IsInt(e, LAMBDA x : x # 0)

(* What a condition that holds says about a variable. *)
RECURSIVE is_proven_non_zero_cond(_, _)
is_proven_non_zero_cond(c, n) ==
  \/ /\ c.k = "bin"
     /\ \/ c.op = "!=" /\ ((IsVar(c.l, n) /\ IsZero(c.r)) \/ (IsVar(c.r, n) /\ IsZero(c.l)))
        \/ c.op = ">" /\ IsVar(c.l, n) /\ IsInt(c.r, LAMBDA x : x >= 0)
        \/ c.op = ">=" /\ IsVar(c.l, n) /\ IsInt(c.r, LAMBDA x : x >= 1)
        \/ c.op = "<" /\ IsVar(c.l, n) /\ IsInt(c.r, LAMBDA x : x <= 0)
        \/ c.op = "<=" /\ IsVar(c.l, n) /\ IsInt(c.r, LAMBDA x : x <= -1)
  \/ c.k = "logic" /\ c.op = "&&" /\ (is_proven_non_zero_cond(c.l, n) \/ is_proven_non_zero_cond(c.r, n))
is_equality_zero_cond(c, n) == c.k = "bin" /\ c.op = "==" /\ ((IsVar(c.l, n) /\ IsZero(c.r)) \/ (IsVar(c.r, n) /\ IsZero(c.l)))
RECURSIVE stmt_always_returns(_)
stmt_always_returns(s) == s.k = "return" \/ (s.k = "block" /\ \E i \in DOMAIN s.ss : stmt_always_returns(s.ss[i]))

(* A type is none, NonZeroInt, an alias of a type with a refinement of its own,
   or has a predicate e about v or a range.  A predicate may name its value v,
   "val" or as the variable asked about. *)
RECURSIVE refinement_proves_non_zero(_, _)
refinement_proves_non_zero(ty, n) ==
  \/ ty.k = "nonzero"
  \/ ty.k = "alias" /\ (refinement_proves_non_zero(ty.base, n) \/ refinement_proves_non_zero(ty.ref, n))
  \/ ty.k = "pred" /\ \E m \in {ty.v, ValName, n} : is_proven_non_zero_cond(ty.e, m)
  \/ ty.k = "range" /\ IsInt(ty.lo, LAMBDA x : x > 0)

Proves(ctx, c, test(_, _)) == [ctx EXCEPT !.proven = @ \cup {n \in ctx.symbols : test(c, n)}]
Assuming(ctx, c) == Proves(ctx, c, is_proven_non_zero_cond)
Denying(ctx, c) == Proves(ctx, c, is_equality_zero_cond)
Known(ctx, ns) == [ctx EXCEPT !.symbols = @ \cup ns, !.outer = @ \cup ns]
Required(ctx, n) == \E i \in DOMAIN ctx.requires : is_proven_non_zero_cond(ctx.requires[i], n)

(* The divisor: a parameter whose type excludes zero vouches for every variable
   of the function, a global of the class NonZeroInt for whatever has its name;
   a product is looked at only where one side is a literal.  The checker's
   var_refinements hold nothing by now: each function puts them back as they
   were (types/check/decl.rs). *)
Unproven(g) == Complain(IF g.ctx.nopanic THEN Complain(g, "panic") ELSE g, "divisor")
AnyParameter(ctx, n) == \E i \in DOMAIN ctx.types : refinement_proves_non_zero(ctx.types[i], n)
VariableProven(ctx, n) == n \in ctx.proven \/ Required(ctx, n) \/ AnyParameter(ctx, n) \/ n \in NonZeroGlobals
RECURSIVE verify_division_gate(_, _)
verify_division_gate(g, d) ==
  CASE d.k = "bin" /\ d.op = "*" ->
         IF is_non_zero_literal(d.r) THEN verify_division_gate(g, d.l)
         ELSE IF is_non_zero_literal(d.l) THEN verify_division_gate(g, d.r) ELSE g
    [] d.k = "int" -> IF d.n = 0 THEN Unproven(g) ELSE g
    [] d.k = "var" -> IF VariableProven(g.ctx, d.n) THEN g ELSE Unproven(g)
    [] OTHER -> Unproven(g)

(* The contracts of the function called, with the arguments that are known. *)
Arguments(params, args) ==
  LET i == {j \in DOMAIN args : Static(args[j]) # Unknown} IN [n \in {params[j] : j \in i} |-> Static(args[CHOOSE j \in i : params[j] = n])]
ContractGate(p, g, e) ==
  IF /\ e.n \in DOMAIN p
     /\ Len(e.args) = Len(p[e.n].params)
     /\ \E i \in DOMAIN p[e.n].requires : eval_static_expr(p[e.n].requires[i], Arguments(p[e.n].params, e.args)) = BoolVal(FALSE)
  THEN Complain(g, "contract") ELSE g
UnsafeGate(p, g, e) == IF e.n \in DOMAIN p /\ p[e.n].unsafe /\ g.ctx.just # "given" THEN Complain(g, "unsafe call") ELSE g
PanicGate(g, e) == IF e.n = Panic /\ g.ctx.nopanic THEN Complain(g, "panic") ELSE g
AllocGate(g, allocates) == IF g.ctx.noalloc /\ allocates THEN Complain(g, "allocation") ELSE g
CallGates(p, g, e) == ContractGate(p, UnsafeGate(p, AllocGate(PanicGate(g, e), e.n \in Allocators), e), e)

\* under a condition: what is proven there is not known after it
Under(g, ctx, check(_)) == [ctx |-> g.ctx, errs |-> check([ctx |-> ctx, errs |-> g.errs]).errs]

Simple(s) == s.k \in {"do", "out", "let", "assign", "store", "return"}
RECURSIVE verify_expr(_, _, _), VerifyEach(_, _, _), VerifyDecide(_, _, _), VerifyBlock(_, _, _)
VerifyEach(p, g, es) == IF es = <<>> THEN g ELSE VerifyEach(p, verify_expr(p, g, Head(es)), Tail(es))
VerifyDecide(p, g, arms) ==
  IF arms = <<>> THEN g
  ELSE LET a  == Head(arms)
           g1 == verify_expr(p, g, a.cond)
       IN VerifyDecide(p, Under(g1, Assuming(g1.ctx, a.cond), LAMBDA h : verify_expr(p, h, a.body)), Tail(arms))
(* Of the statements of a block in expression position only the expressions of
   the simple ones are looked at. *)
VerifyBlock(p, g, ss) ==
  IF ss = <<>> THEN g
  ELSE VerifyBlock(p, IF Simple(Head(ss)) THEN VerifyEach(p, g, Parts(Head(ss))) ELSE g, Tail(ss))
RightOperand(p, g, e) ==
  Under(g, IF e.k = "logic" /\ e.op = "&&" THEN Assuming(g.ctx, e.l) ELSE g.ctx, LAMBDA h : verify_expr(p, h, e.r))
verify_expr(p, g, e) ==
  CASE e.k \in {"bin", "logic"} ->
         LET g1 == RightOperand(p, verify_expr(p, g, e.l), e) IN IF e.op \in {"/", "%"} THEN verify_division_gate(g1, e.r) ELSE g1
    [] e.k = "call" -> CallGates(p, VerifyEach(p, g, e.args), e)
    [] e.k = "mcall" -> ContractGate(p, VerifyEach(p, g, Sub(e)), e)
    [] e.k = "index" -> LET g1 == VerifyEach(p, g, Sub(e)) IN IF g.ctx.nopanic THEN Complain(g1, "panic") ELSE g1
    [] e.k = "list" -> VerifyEach(p, AllocGate(g, TRUE), e.args)
    [] e.k = "object" -> VerifyEach(p, AllocGate(g, e.n \notin ArenaClasses), e.args)
    [] e.k = "decide" -> VerifyEach(p, VerifyDecide(p, g, e.arms), e.els)
    [] e.k = "blockexpr" -> VerifyEach(p, VerifyBlock(p, g, e.ss), e.tail)
    [] OTHER -> VerifyEach(p, g, Sub(e))

-----------------------------------------------------------------------------
(* Two statements of a parallel block race when one writes what the other
   reads or writes.  b is [own, reads, writes]. *)
RECURSIVE VarsRead(_)
VarsRead(e) ==
  (IF e.k = "var" THEN {e.n} ELSE {})
  \cup (IF e.k \in {"or", "wrapping", "cast", "comptime", "is"} THEN {} ELSE UNION {VarsRead(x) : x \in ToSet(Sub(e))})
  \cup (IF e.k = "blockexpr" THEN UNION {VarsRead(x) : x \in UNION {ToSet(Parts(s)) : s \in {t \in ToSet(e.ss) : Simple(t)}}} ELSE {})
collect_expr_reads(e, outer, own) == VarsRead(e) \cap (outer \ own)
Values(s) == IF s.k = "store" THEN {s.e} ELSE ToSet(Parts(s))
RECURSIVE collect_branch_reads_writes(_, _, _), CollectEach(_, _, _)
CollectEach(ss, outer, b) == IF ss = <<>> THEN b ELSE CollectEach(Tail(ss), outer, collect_branch_reads_writes(Head(ss), outer, b))
\* a variable a body declares is its own in that body only
InBody(b, inner) == [b EXCEPT !.reads = @ \cup inner.reads, !.writes = @ \cup inner.writes]
collect_branch_reads_writes(s, outer, b) ==
  LET own == IF s.k = "let" THEN [b EXCEPT !.own = @ \cup {s.n}] ELSE b
      b1  == [own EXCEPT !.reads = @ \cup UNION {collect_expr_reads(e, outer, own.own) : e \in Values(s)}]
  IN CASE s.k = "let" -> IF s.mut /\ s.n \in outer \ b.own THEN [b1 EXCEPT !.writes = @ \cup {s.n}] ELSE b1
       [] s.k = "assign" -> IF s.n \in outer \ b.own THEN [b1 EXCEPT !.writes = @ \cup {s.n}] ELSE b1
       [] s.k = "if" ->
            LET then == collect_branch_reads_writes(s.then, outer, b1)
                els  == collect_branch_reads_writes(s.els, outer, b1)
            IN InBody(InBody(b1, then), els)
       [] BindsInBody(s) -> InBody(b1, collect_branch_reads_writes(s.body, outer, [b1 EXCEPT !.own = @ \cup {s.n}]))
       [] s.k = "unsafe" -> IF s.just = "given" THEN b1 ELSE CollectEach(Bodies(s), outer, b1)
       [] OTHER -> CollectEach(Bodies(s), outer, b1)
Branch(s, outer) == collect_branch_reads_writes(s, outer, [own |-> {}, reads |-> {}, writes |-> {}])
Conflict_WritesOnly(a, b) == a.writes \cap b.writes # {}
Conflict(a, b) == \/ a.writes \cap (b.writes \cup b.reads) # {}
                  \/ b.writes \cap a.reads # {}
BlockRaces(body, outer) ==
  /\ body.k = "block"
  /\ \E i, j \in DOMAIN body.ss : i < j /\ Conflict(Branch(body.ss[i], outer), Branch(body.ss[j], outer))

(* In a parallel loop every body writes what it assigns of the outside; and a
   variable sent into a channel is not used again in the same block.  c is
   [own, errs]. *)
SentIn(s) == IF s.k = "do" /\ s.e.k = "mcall" /\ s.e.n = Send /\ s.e.args # <<>> /\ s.e.args[1].k = "var" THEN {s.e.args[1].n} ELSE {}
UsedWhole(s) == IF s.k \in {"let", "do", "assign"} /\ s.e.k = "var" THEN {s.e.n} ELSE {}
check_channel_send_linearity(ss) == \A i, j \in DOMAIN ss : i < j => SentIn(ss[i]) \cap UsedWhole(ss[j]) = {}
RECURSIVE collect_and_check_data_race(_, _, _), CheckEach(_, _, _)
CheckEach(ss, outer, c) == IF ss = <<>> THEN c ELSE CheckEach(Tail(ss), outer, collect_and_check_data_race(Head(ss), outer, c))
CheckBody(s, outer, c) == [c EXCEPT !.errs = @ \cup collect_and_check_data_race(s, outer, c).errs]
WrittenOutside(c, s, outer) == IF s.n \in outer \ c.own THEN Complain(c, "race") ELSE c
collect_and_check_data_race(s, outer, c) ==
  CASE s.k = "assign" -> WrittenOutside(c, s, outer)
    [] s.k = "let" -> [(IF s.mut THEN WrittenOutside(c, s, outer) ELSE c) EXCEPT !.own = @ \cup {s.n}]
    [] s.k = "unsafe" -> IF s.just = "given" THEN c ELSE CheckEach(Bodies(s), outer, c)
    [] BindsInBody(s) -> [CheckBody(s.body, outer, [c EXCEPT !.own = @ \cup {s.n}]) EXCEPT !.own = c.own]
    [] s.k = "if" -> CheckBody(s.els, outer, CheckBody(s.then, outer, c))
    [] s.k = "block" -> CheckEach(s.ss, outer, IF check_channel_send_linearity(s.ss) THEN c ELSE Complain(c, "moved"))
    [] OTHER -> CheckEach(Bodies(s), outer, c)

-----------------------------------------------------------------------------
RECURSIVE verify_stmt(_, _, _), VerifyStmts(_, _, _)
VerifyStmts(p, g, ss) == IF ss = <<>> THEN g ELSE VerifyStmts(p, verify_stmt(p, g, Head(ss)), Tail(ss))
ValueProven(ctx, e) == is_non_zero_literal(e) \/ (e.k = "var" /\ e.n \in ctx.proven)
Learned(ctx, n, holds) == [ctx EXCEPT !.proven = IF holds THEN @ \cup {n} ELSE @ \ {n}]
AfterLet(g, s) ==
  [g EXCEPT !.ctx = Learned(Known(@, {s.n}), s.n, refinement_proves_non_zero(s.ty, s.n) \/ ValueProven(@, s.e))]
AfterAssign_KeepsProof(g, s) == IF ValueProven(g.ctx, s.e) THEN [g EXCEPT !.ctx = Learned(@, s.n, TRUE)] ELSE g
AfterAssign(g, s) ==
  IF ~ValueProven(g.ctx, s.e) /\ Required(g.ctx, s.n) THEN g ELSE [g EXCEPT !.ctx = Learned(@, s.n, ValueProven(@, s.e))]
(* A branch and a body work on a copy of the context: what they prove, and what
   they make unknown, ends with them. *)
UnderBody(p, g, ctx, s) == Under(g, ctx, LAMBDA h : verify_stmt(p, h, s))
VerifyThen(p, g, s) == UnderBody(p, g, Assuming(g.ctx, s.e), s.then)
VerifyElse(p, g, s) ==
  IF s.els.ss # <<>> THEN UnderBody(p, g, Denying(g.ctx, s.e), s.els)
  ELSE IF stmt_always_returns(s.then) THEN [g EXCEPT !.ctx = Denying(@, s.e)] ELSE g
VerifyIf(p, g, s) == VerifyElse(p, VerifyThen(p, verify_expr(p, g, s.e), s), s)
ParallelGate(g, s) ==
  IF g.ctx.just = "none" /\ BlockRaces(s.body, g.ctx.outer) THEN Complain(g, "race") ELSE g
ParallelForGate(g, s) ==
  IF g.ctx.just = "none" THEN [g EXCEPT !.errs = @ \cup collect_and_check_data_race(s.body, g.ctx.outer, [own |-> {s.n}, errs |-> {}]).errs] ELSE g
Asserted(g, s) == IF s.e.k = "call" /\ s.e.n \in Asserts /\ s.e.args # <<>> THEN [g EXCEPT !.ctx = Assuming(@, s.e.args[1])] ELSE g
verify_stmt(p, g, s) ==
  CASE s.k = "block" -> Under(g, g.ctx, LAMBDA h : VerifyStmts(p, h, s.ss))
    [] s.k = "let" -> AfterLet(verify_expr(p, g, s.e), s)
    [] s.k = "assign" -> AfterAssign(verify_expr(p, g, s.e), s)
    [] s.k = "do" -> verify_expr(p, Asserted(g, s), s.e)
    [] s.k = "if" -> VerifyIf(p, g, s)
    [] s.k = "while" -> LET g1 == verify_expr(p, g, s.e) IN UnderBody(p, g1, Assuming(g1.ctx, s.e), s.body)
    [] s.k \in {"for", "with"} -> LET g1 == VerifyEach(p, g, Parts(s)) IN UnderBody(p, g1, Known(g1.ctx, {s.n}), s.body)
    [] s.k = "loop" -> UnderBody(p, g, g.ctx, s.body)
    [] s.k = "parallel" -> verify_stmt(p, ParallelGate(g, s), s.body)
    [] s.k = "pfor" -> LET g1 == ParallelForGate(VerifyEach(p, g, Parts(s)), s) IN UnderBody(p, g1, Known(g1.ctx, {s.n}), s.body)
    [] s.k = "unsafe" -> [verify_stmt(p, [g EXCEPT !.ctx.just = s.just], s.body) EXCEPT !.ctx.just = g.ctx.just]
    [] s.k = "asm" -> IF g.ctx.just = "given" THEN g ELSE Complain(g, "asm")
    [] OTHER -> VerifyEach(p, g, Parts(s))

-----------------------------------------------------------------------------
(* Termination: the calls of a function to itself, which decide about a pure
   function or one with a metric. *)
RECURSIVE collect_expr_calls(_, _), collect_recursive_calls(_, _)
Searched(e) == IF e.k \in {"cast", "or", "comptime", "wrapping", "is"} THEN <<>> ELSE IF e.k = "mcall" THEN e.args ELSE Sub(e)
collect_expr_calls(e, f) ==
  (IF e.k \in {"call", "mcall"} /\ e.n = f THEN {e.args} ELSE {})
  \cup UNION {collect_expr_calls(x, f) : x \in ToSet(Searched(e))}
  \cup (IF e.k = "blockexpr" THEN UNION {collect_recursive_calls(s, f) : s \in ToSet(e.ss)} ELSE {})
collect_recursive_calls(s, f) ==
  UNION {collect_expr_calls(e, f) : e \in ToSet(Parts(s))} \cup UNION {collect_recursive_calls(b, f) : b \in ToSet(Bodies(s))}
RECURSIVE Endless(_)
Endless(s) == \/ s.k = "loop"
              \/ s.k = "while" /\ s.e.k = "bool" /\ s.e.n = 1
              \/ \E i \in DOMAIN Bodies(s) : Endless(Bodies(s)[i])
check_loops_termination(fn) == IF fn.pure /\ Endless(fn.body) THEN {"endless"} ELSE {}
Shrinks_AnyDifference(e, metric) == e.k = "bin" /\ e.op = "-"
Shrinks(e, metric) == e.k = "bin" /\ e.op = "-" /\ IsVar(e.l, metric) /\ (e.r.k = "int" => e.r.n > 0)
Unbounded(fn, calls) ==
  IF fn.metric = <<>> THEN calls # {}
  ELSE \E args \in calls, i \in DOMAIN fn.params : i \in DOMAIN args /\ fn.params[i] = fn.metric[1] /\ ~Shrinks(args[i], fn.params[i])
verify_totality_and_termination(p, f) ==
  LET fn == p[f]
  IN IF ~fn.pure /\ fn.metric = <<>> THEN {}
     ELSE check_loops_termination(fn) \cup (IF Unbounded(fn, collect_recursive_calls(fn.body, f)) THEN {"termination"} ELSE {})

(* An assignment of a method keeps the invariant of its class: [n, op, limit] on
   a field, limit <<>> where it is no literal; looked at for constants and for
   differences.  A require that reads the field would allow a difference, but the
   reads are collected with no variable in scope (mod.rs:465-470): none is ever
   found, and every difference is refused. *)
Breaks(inv, x) ==
  LET limit == IF inv.limit = <<>> THEN 0 ELSE inv.limit[1]
  IN \/ inv.op = ">=" /\ x < limit
     \/ inv.op = ">" /\ x <= limit
     \/ inv.limit # <<>> /\ ((inv.op = "<=" /\ x > limit) \/ (inv.op = "<" /\ x >= limit))
Constant(e) == IF e.k = "int" THEN <<e.n>> ELSE IF e.k = "un" /\ e.op = "-" /\ e.e.k = "int" THEN <<-e.e.n>> ELSE <<>>
RECURSIVE collect_assignments(_)
collect_assignments(s) ==
  IF s.k \in {"assign", "store"} THEN {s} ELSE UNION {collect_assignments(b) : b \in ToSet(Bodies(s))}
Target(s) == IF s.k = "assign" THEN {s.n} ELSE IF s.t.k = "member" THEN {s.t.n} ELSE {}
verify_class_invariants(fn, inv) ==
  \E s \in collect_assignments(fn.body) :
    /\ inv.n \in Target(s)
    /\ \/ Constant(s.e) # <<>> /\ Breaks(inv, Constant(s.e)[1])
       \/ inv.op \in {">=", ">"} /\ s.e.k = "bin" /\ s.e.op = "-"

InitialProof(fn) ==
  {fn.params[i] : i \in {j \in DOMAIN fn.params : refinement_proves_non_zero(fn.types[j], fn.params[j])}}
  \cup {n \in ToSet(fn.params) : \E i \in DOMAIN fn.requires : is_proven_non_zero_cond(fn.requires[i], n)}
(* A function, and a method, which also sees the fields of its class; the types
   of parameters are kept for functions only (types/check/decl.rs:115). *)
VerifyWith(p, f, types) ==
  LET fn  == p[f]
      all == ToSet(fn.params) \cup fn.fields
      ctx == [proven |-> InitialProof(fn), symbols |-> all, outer |-> all, requires |-> fn.requires, types |-> types,
              just |-> IF fn.unsafe THEN "given" ELSE "none", nopanic |-> fn.nopanic, noalloc |-> fn.noalloc]
  IN verify_totality_and_termination(p, f) \cup verify_stmt(p, [ctx |-> ctx, errs |-> {}], fn.body).errs
verify_fn_decl(p, f) == VerifyWith(p, f, p[f].types)
verify_method_decl(p, f) ==
  VerifyWith(p, f, <<>>) \cup (IF \E i \in DOMAIN p[f].invs : verify_class_invariants(p[f], p[f].invs[i]) THEN {"invariant"} ELSE {})
verify_program(p) == UNION {IF p[f].method THEN verify_method_decl(p, f) ELSE verify_fn_decl(p, f) : f \in DOMAIN p}

-----------------------------------------------------------------------------
(***************************************************************************)
(* Effect inference: what running a function may do, as the least fixpoint *)
(* over the calls it makes, and the two rules that need it: methods of a   *)
(* behavior are pure and comptime functions have no forbidden effect.      *)
(*                                                                         *)
(* Functions are numbers.  A method is known under Method(class, name); a  *)
(* call of one is looked up under the name written before the dot, which   *)
(* is a class only in a static call.                                       *)
(***************************************************************************)

CONSTANTS
  MaxRounds,        \* passes over the program (32 in the code)
  BuiltinEffects,   \* the effects of the prelude functions, by number
  ForeignMethods,   \* method names that mean the network, a database or a foreign runtime, with their effects
  Method(_, _)      \* the key of a method

Forbidden == {"IO", "Network", "Database", "Foreign", "Unsafe"}

RECURSIVE analyze_expr(_, _), AnalyzeEach(_, _)
AnalyzeEach(es, known) == UNION {analyze_expr(e, known) : e \in ToSet(es)}
EffectOf(n, known) == IF n \in DOMAIN known THEN known[n] ELSE {}
Callees(e) ==
  CASE e.k = "call" -> {e.n} [] e.k = "mcall" /\ e.e.k = "var" -> {Method(e.e.n, e.n)}
    [] e.k = "pipe" -> {e.stages[i].n : i \in {j \in DOMAIN e.stages : e.stages[j].args # <<>>}} [] OTHER -> {}
(* Blocks, recoveries, object literals, casts, comptime, wrapping arithmetic
   and type tests are not looked into. *)
analyze_expr(e, known) ==
  IF e.k \in {"blockexpr", "or", "object", "cast", "comptime", "wrapping", "is"} THEN {}
  ELSE AnalyzeEach(Sub(e), known) \cup UNION {EffectOf(n, known) : n \in Callees(e)}
       \cup (IF e.k = "mcall" /\ e.n \in DOMAIN ForeignMethods THEN ForeignMethods[e.n] ELSE {})
       \cup (IF e.k \in {"member", "index", "mcall"} THEN {"Read"} ELSE {})

(* A statement: a is [effects, locals].  What a block or a body declares is
   local to it. *)
RECURSIVE analyze_stmt(_, _, _), AnalyzeStmts(_, _, _)
AnalyzeStmts(ss, known, a) == IF ss = <<>> THEN a ELSE AnalyzeStmts(Tail(ss), known, analyze_stmt(Head(ss), known, a))
OwnEffects(s, locals) ==
  CASE s.k = "out" -> {"IO"}
    [] s.k = "store" \/ (s.k = "assign" /\ s.n \notin locals) -> {"Write"}
    [] s.k \in {"parallel", "pfor"} -> {"Parallel"}
    [] s.k = "unsafe" -> {"Unsafe"}
    [] s.k = "asm" -> IF s.pure THEN {"Unsafe"} ELSE {"Unsafe", "IO"}
    [] OTHER -> {}
EffectsInside(s, known, locals) ==
  UNION {analyze_stmt(b, known, [effects |-> {}, locals |-> locals \cup (IF BindsInBody(s) THEN {s.n} ELSE {})]).effects : b \in ToSet(Bodies(s))}
analyze_stmt(s, known, a) ==
  LET own  == a.effects \cup OwnEffects(s, a.locals) \cup AnalyzeEach(Parts(s), known)
      body == IF s.k = "block" THEN AnalyzeStmts(s.ss, known, [effects |-> {}, locals |-> a.locals]).effects
              ELSE EffectsInside(s, known, a.locals)
  IN [effects |-> own \cup body, locals |-> a.locals \cup (IF s.k = "let" THEN {s.n} ELSE {})]

(* The bodies of a declaration with their keys, and one pass over the program,
   in which a function sees what this pass has found of those before it. *)
BodiesOf(d) ==
  CASE d.k = "function" -> <<[key |-> d.n, params |-> d.params, body |-> d.body]>>
    [] d.k \in {"class", "behavior", "impl"} ->
         [i \in DOMAIN d.methods |-> [key |-> Method(d.n, d.methods[i].n), params |-> d.methods[i].params, body |-> d.methods[i].body]]
    [] OTHER -> <<>>
BodyEffects(b, known) == analyze_stmt(b.body, known, [effects |-> {}, locals |-> ToSet(b.params)]).effects
RECURSIVE AnalyzeBodies(_, _), AnalyzeDecls(_, _), Rounds(_, _, _)
AnalyzeBodies(bs, known) == IF bs = <<>> THEN known ELSE AnalyzeBodies(Tail(bs), [b \in {Head(bs).key} |-> BodyEffects(Head(bs), known)] @@ known)
AnalyzeDecls(p, known) ==
  IF p = <<>> THEN known
  ELSE LET d == Head(p)
       IN AnalyzeDecls(Tail(p),
            IF d.k = "extern" THEN known @@ [n \in {d.n} |-> {"Foreign", "Nondeterministic"}] ELSE AnalyzeBodies(BodiesOf(d), known))
Rounds_Once(p, known, left) == AnalyzeDecls(p, known)
Rounds(p, known, left) ==
  LET next == AnalyzeDecls(p, known) IN IF left = 0 \/ next = known THEN known ELSE Rounds(p, next, left - 1)
analyze_program(p) == Rounds(p, BuiltinEffects, MaxRounds)

(* The methods of behaviors that do what a pure method may not, and the
   comptime functions that do. *)
verify_behavior_purity(p, known) ==
  {m \in UNION {{Method(p[i].n, p[i].methods[j].n) : j \in {k \in DOMAIN p[i].methods : ~p[i].methods[k].declared}} :
                i \in {k \in DOMAIN p : p[k].k = "behavior"}} :
     EffectOf(m, known) \cap Forbidden # {}}
verify_comptime_purity(p, known) ==
  {p[i].n : i \in {k \in DOMAIN p : p[k].k = "function" /\ p[k].comptime /\ EffectOf(p[k].n, known) \cap Forbidden # {}}}
=============================================================================
