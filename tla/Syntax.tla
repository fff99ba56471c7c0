------------------------------- MODULE Syntax -------------------------------
(***************************************************************************)
(* The syntax tree the analyses walk, and what they ask of it without any  *)
(* context: the variables a lambda captures, what an expression is known   *)
(* to be before the program runs, and the contracts known to hold.         *)
(*                                                                         *)
(* Expressions and statements are records, k tells the kind; names are     *)
(* numbers.  The fields are those of SourceMeaning, which runs the trees;  *)
(* the kinds only the analyses see are                                     *)
(*   expressions  un [op, e]     cast, comptime, is [e]    member [e, n]   *)
(*                index [e, i]   object [n, args]          fn [params, body]*)
(*                mcall [e, n, args]: a call of a method                   *)
(*   statements   parallel, unsafe [just, body]  pfor [n, a, b, body]      *)
(*                with [n, e, body]    asm [pure]     store [t, e]: an     *)
(*                assignment to a member or an element                     *)
(***************************************************************************)
EXTENDS Words, Sequences, SequencesExt

(* The expressions directly below an expression, in the order every pass
   visits them.  Statements occur only below a block expression. *)
Sub(e) ==
  CASE e.k \in {"int", "bool", "var"} -> <<>>
    [] e.k \in {"bin", "logic"} -> <<e.l, e.r>>
    [] e.k \in {"un", "cast", "comptime", "is", "wrapping", "try", "member"} -> <<e.e>>
    [] e.k \in {"call", "list", "object"} -> e.args
    [] e.k = "mcall" -> <<e.e>> \o e.args
    [] e.k = "index" -> <<e.e, e.i>>
    [] e.k = "pipe" -> <<e.e>> \o FlattenSeq([i \in DOMAIN e.stages |-> e.stages[i].args])
    [] e.k = "decide" -> FlattenSeq([i \in DOMAIN e.arms |-> <<e.arms[i].cond, e.arms[i].body>>]) \o e.els
    [] e.k \in {"match", "or"} -> <<e.e>> \o FlattenSeq([i \in DOMAIN e.arms |-> Append(e.arms[i].guard, e.arms[i].body)])
    [] e.k = "fn" -> <<e.body>>
    [] e.k = "blockexpr" -> e.tail

(* The expressions and the statements directly below a statement, and the
   variable it declares, if any: for what follows it in the same block, or for
   its own body. *)
Parts(s) ==
  CASE s.k \in {"let", "assign", "do", "out", "return", "if", "while", "with"} -> <<s.e>>
    [] s.k = "store" -> <<s.t, s.e>>
    [] s.k \in {"for", "pfor"} -> <<s.a, s.b>>
    [] OTHER -> <<>>
Bodies(s) ==
  CASE s.k = "block" -> s.ss
    [] s.k = "if" -> <<s.then>> \o (IF s.els.ss = <<>> THEN <<>> ELSE <<s.els>>)
    [] s.k \in {"while", "loop", "for", "pfor", "parallel", "unsafe", "with"} -> <<s.body>>
    [] OTHER -> <<>>
BindsInBody(s) == s.k \in {"for", "pfor", "with"}

(* The kinds a pass goes into: every statement and expression below, those of
   a block expression included. *)
RECURSIVE Within(_), WithinStmt(_)
Within(e) ==
  {e} \cup UNION {Within(x) : x \in ToSet(Sub(e))} \cup (IF e.k = "blockexpr" THEN UNION {WithinStmt(s) : s \in ToSet(e.ss)} ELSE {})
WithinStmt(s) == {s} \cup UNION {Within(x) : x \in ToSet(Parts(s))} \cup UNION {WithinStmt(b) : b \in ToSet(Bodies(s))}
HasAsm(s) == \E x \in WithinStmt(s) : x.k = "asm"

-----------------------------------------------------------------------------
(* The captures of a lambda: c is [own, got], its own variables and what it
   captured so far.  A variable declared in a block stays its own to the end of
   the lambda; the bodies of parallel loops and the names an arm of a match
   binds are not looked at. *)
RECURSIVE WalkExpr(_, _, _), WalkStmt(_, _, _), WalkExprs(_, _, _), WalkStmts(_, _, _)
WalkExprs(es, around, c) == IF es = <<>> THEN c ELSE WalkExprs(Tail(es), around, WalkExpr(Head(es), around, c))
WalkStmts(ss, around, c) == IF ss = <<>> THEN c ELSE WalkStmts(Tail(ss), around, WalkStmt(Head(ss), around, c))
WalkExpr(e, around, c) ==
  CASE e.k = "var" -> IF e.n \in around \ c.own THEN [c EXCEPT !.got = @ \cup {e.n}] ELSE c
    [] e.k = "fn" -> [WalkExpr(e.body, around, [c EXCEPT !.own = @ \cup ToSet(e.params)]) EXCEPT !.own = @ \ (ToSet(e.params) \ c.own)]
    [] e.k = "blockexpr" -> WalkExprs(e.tail, around, WalkStmts(e.ss, around, c))
    [] OTHER -> WalkExprs(Sub(e), around, c)
WalkStmt_ForgetsBody(s, around, c) == WalkExprs(Parts(s), around, c)
WalkStmt(s, around, c) ==
  LET c1 == WalkExprs(Parts(s), around, c)
  IN CASE s.k = "pfor" -> c
       [] s.k = "let" -> [c1 EXCEPT !.own = @ \cup {s.n}]
       [] s.k = "assign" -> WalkExpr([k |-> "var", n |-> s.n], around, c1)
       [] BindsInBody(s) -> [WalkStmt(s.body, around, [c1 EXCEPT !.own = @ \cup {s.n}]) EXCEPT !.own = @ \ ({s.n} \ c1.own)]
       [] OTHER -> WalkStmts(Bodies(s), around, c1)
infer_captures(params, body, around) == WalkExpr(body, around, [own |-> ToSet(params), got |-> {}]).got

-----------------------------------------------------------------------------
(* What is known of an expression, [t, v] with t "int", "bool" or "unknown",
   when known gives the values of some variables. *)
Unknown == [t |-> "unknown", v |-> 0]
IntVal(x) == [t |-> "int", v |-> x]
BoolVal(b) == [t |-> "bool", v |-> Flag(b)]
Relations == {"==", "!=", "<", "<=", ">", ">="}
Related(op, x, y) ==
  CASE op = "==" -> x = y [] op = "!=" -> x # y [] op = "<" -> x < y [] op = "<=" -> x <= y [] op = ">" -> x > y [] op = ">=" -> x >= y
StaticInt(op, x, y) ==
  CASE op \in Relations -> BoolVal(Related(op, x, y))
    [] op = "+" -> IntVal(SWrap(W, x + y))
    [] op = "-" -> IntVal(SWrap(W, x - y))
    [] op = "*" -> IntVal(SWrap(W, x * y))
    [] op = "/" /\ y # 0 -> IntVal(Sdiv(x, y))
    [] op = "%" /\ y # 0 -> IntVal(Srem(x, y))
    [] OTHER -> Unknown
\* one operand that decides is enough
StaticBool(op, x, y) ==
  LET decides == BoolVal(op = "||")
  IN CASE op \in {"&&", "||"} /\ decides \in {x, y} -> decides
       [] op \in {"&&", "||"} /\ x.t = "bool" /\ y.t = "bool" -> BoolVal(op = "&&")
       [] op \in {"==", "!="} /\ x.t = "bool" /\ y.t = "bool" -> BoolVal((x = y) = (op = "=="))
       [] OTHER -> Unknown
StaticUnary(op, x) ==
  CASE op = "!" /\ x.t = "bool" -> BoolVal(x.v = 0)
    [] op = "-" /\ x.t = "int" -> IntVal(SWrap(W, -x.v))
    [] op = "+" /\ x.t = "int" -> x
    [] OTHER -> Unknown
RECURSIVE eval_static_expr(_, _)
eval_static_expr(e, known) ==
  CASE e.k = "int" -> IntVal(e.n)
    [] e.k = "bool" -> BoolVal(e.n = 1)
    [] e.k = "var" -> IF e.n \in DOMAIN known THEN known[e.n] ELSE Unknown
    [] e.k = "un" -> StaticUnary(e.op, eval_static_expr(e.e, known))
    [] e.k \in {"bin", "logic"} ->
         LET x == eval_static_expr(e.l, known)
             y == eval_static_expr(e.r, known)
         IN IF x.t = "int" /\ y.t = "int" THEN StaticInt(e.op, x.v, y.v) ELSE StaticBool(e.op, x, y)
    [] e.k = "comptime" -> eval_static_expr(e.e, known)
    [] OTHER -> Unknown
Static(e) == eval_static_expr(e, <<>>)

(* A contract is known to hold when its value is known, or when the range its
   variable was declared with decides it; then the test is not compiled.  A
   parameter is [n, ref], ref its refinement: none, a range [lo, hi, incl] or a
   predicate. *)
RangeDecides_HiIncluded(op, ref, c) ==
  LET lo == Static(ref.lo)
      hi == Static(ref.hi)
  IN \/ /\ lo.t = "int"
        /\ \/ op = ">=" /\ lo.v >= c
           \/ op = ">" /\ lo.v > c
           \/ op = "!=" /\ lo.v > c
     \/ hi.t = "int" /\ op \in {"<=", "<"} /\ hi.v <= c
RangeDecides(op, ref, c) ==
  LET lo == Static(ref.lo)
      hi == Static(ref.hi)
  IN \/ /\ lo.t = "int"
        /\ \/ op = ">=" /\ lo.v >= c
           \/ op = ">" /\ lo.v > c
           \/ op = "!=" /\ (lo.v > c \/ (hi.t = "int" /\ hi.v < c))
     \/ /\ hi.t = "int"
        /\ \/ op = "<=" /\ hi.v <= c
           \/ op = "<" /\ (IF ref.incl THEN hi.v < c ELSE hi.v <= c)
RECURSIVE is_contract_statically_true(_, _)
is_contract_statically_true(cond, params) ==
  \/ Static(cond) = BoolVal(TRUE)
  \/ /\ cond.k = "logic"
     /\ LET l == is_contract_statically_true(cond.l, params)
            r == is_contract_statically_true(cond.r, params)
        IN IF cond.op = "&&" THEN l /\ r ELSE l \/ r
  \/ /\ cond.k = "bin" /\ cond.l.k = "var"
     /\ \E i \in DOMAIN params :
          /\ params[i].n = cond.l.n
          /\ \/ params[i].ref.k = "range" /\ Static(cond.r).t = "int" /\ RangeDecides(cond.op, params[i].ref, Static(cond.r).v)
             \/ params[i].ref.k = "pred" /\ params[i].ref.e = cond
=============================================================================
