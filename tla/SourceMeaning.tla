--------------------------- MODULE SourceMeaning ---------------------------
(***************************************************************************)
(* What a program in source form means: the reference the lowering is      *)
(* checked against.  Operands run from left to right, one arm of a match   *)
(* runs, a lambda keeps the values its free variables had when it was made *)
(* and has its own variables, a return in it leaves the lambda.            *)
(*                                                                         *)
(* A run is [env, lams, log, in, fuel, st, ret, mode]; st is "ok", the way *)
(* a statement left ("return", "break", "continue"), "trap" or "fuel"; fuel *)
(* bounds the iterations of a loop and the depth of calls.                 *)
(***************************************************************************)
EXTENDS OptIr

Running(s) == s.st = "ok"
Halt(s, how) == [s EXCEPT !.st = how]
Got(v, s) == [v |-> v, s |-> s]
\* go on with the value and the run of r, unless the run has left or stopped
Then(r, next(_, _)) == IF Running(r.s) THEN next(r.v, r.s) ELSE r

RECURSIVE Eval(_, _, _), EvalAll(_, _, _, _), Exec(_, _, _), ExecAll(_, _, _), Iterate(_, _, _, _), Elements(_, _, _, _),
          EvalArms(_, _, _, _, _), EvalStages(_, _, _, _), EvalList(_, _, _, _, _)

\* the arguments in order; v is the sequence of values
EvalAll(p, es, s, vals) ==
  IF es = <<>> THEN Got(vals, s)
  ELSE Then(Eval(p, Head(es), s), LAMBDA v, t : EvalAll(p, Tail(es), t, Append(vals, v)))

Apply(p, s, op, x, y) ==
  LET r == Binary(IF s.mode = "wrapping" /\ op \in {"+", "-", "*"} THEN "wrapping_" \o op ELSE op, x, y)
  IN Got(r.v, IF r.st = "trap" THEN Halt(s, "trap") ELSE s)

\* a body run in an environment of its own; what it printed and read stays
Returned(r) == IF r.s.st = "return" THEN Got(r.s.ret, Halt(r.s, "ok")) ELSE r
BackIn(r, s) == [r EXCEPT !.s.env = s.env, !.s.lams = s.lams, !.s.mode = s.mode, !.s.fuel = s.fuel]
InOwnScope(s, body(_), env, lams) ==
  BackIn(Returned(body([s EXCEPT !.env = env, !.lams = lams, !.mode = "checked"])), s)
CallLambda(p, lam, vals, s) ==
  IF ~Running(s) THEN Got(0, s)
  ELSE InOwnScope(s, LAMBDA t : Eval(p, lam.body, t), SetAll(lam.env, lam.params, vals), lam.lams)
CallFunction(p, f, vals, s) ==
  IF ~Running(s) THEN Got(0, s)
  ELSE IF f = ReadFn THEN Got(IF s.in = <<>> THEN 0 ELSE Head(s.in), [s EXCEPT !.in = IF @ = <<>> THEN @ ELSE Tail(@)])
  ELSE IF s.fuel = 0 THEN Got(0, Halt(s, "fuel"))
  ELSE InOwnScope(s, LAMBDA t : Exec(p, p[f].body, [t EXCEPT !.fuel = @ - 1]), SetAll(<<>>, p[f].params, vals), <<>>)
(* A lambda written in place sees the variables around it. *)
Callback(p, f, vals, s) ==
  IF f.k = "var" THEN IF f.n \in DOMAIN s.lams THEN CallLambda(p, s.lams[f.n], vals, s) ELSE CallFunction(p, f.n, vals, s)
  ELSE CallLambda(p, [params |-> f.params, body |-> f.body, env |-> s.env, lams |-> s.lams], vals, s)

Matches(pat, x) == pat.k = "lit" => pat.n = x
Bound(pat, x, s) == IF pat.k = "bind" THEN [s EXCEPT !.env = Set(@, pat.n, x)] ELSE s
Guard(p, guard, s) == IF guard = <<>> THEN Got(1, s) ELSE Eval(p, Head(guard), s)
ArmTest(p, arm, x, s) ==
  IF "cond" \in DOMAIN arm THEN Eval(p, arm.cond, s)
  ELSE IF Matches(arm.pat, x) THEN Guard(p, arm.guard, Bound(arm.pat, x, s)) ELSE Got(0, s)
EvalArms(p, arms, els, x, s) ==
  IF ~Running(s) THEN Got(0, s)
  ELSE IF arms = <<>> THEN IF els = <<>> THEN Got(0, s) ELSE Eval(p, Head(els), s)
  ELSE Then(ArmTest(p, Head(arms), x, s),
            LAMBDA v, t : IF v # 0 THEN Eval(p, Head(arms).body, t) ELSE EvalArms(p, Tail(arms), els, x, t))

EvalStages(p, stages, x, s) ==
  IF stages = <<>> THEN Got(x, s)
  ELSE Then(Then(EvalAll(p, Head(stages).args, s, <<x>>), LAMBDA vals, t : CallFunction(p, Head(stages).n, vals, t)),
            LAMBDA v, t : EvalStages(p, Tail(stages), v, t))

\* a list method from the element on; acc is what it has so far
CallbackArgs(e, acc, x) == IF e.m = "fold" THEN <<acc, x>> ELSE <<x>>
Decides(m, v) == (m \in {"find", "any"} /\ v # 0) \/ (m = "all" /\ v = 0)
Decided(m, x) == CASE m = "find" -> x [] m = "any" -> 1 [] m = "all" -> 0
Accumulated(m, acc, x, v) ==
  CASE m = "map" -> Append(acc, v) [] m = "filter" /\ v # 0 -> Append(acc, x) [] m = "fold" -> v [] OTHER -> acc
EvalList(p, e, xs, acc, s) ==
  IF xs = <<>> \/ ~Running(s) THEN Got(acc, s)
  ELSE Then(Callback(p, e.f, CallbackArgs(e, acc, Head(xs)), s),
            LAMBDA v, t : IF Decides(e.m, v) THEN Got(Decided(e.m, Head(xs)), t)
                          ELSE EvalList(p, e, Tail(xs), Accumulated(e.m, acc, Head(xs), v), t))
Start(e, p, s) ==
  CASE e.m \in {"map", "filter"} -> Got(<<>>, s) [] e.m = "fold" -> Eval(p, e.init, s)
    [] e.m = "find" -> Got(-1, s) [] e.m = "any" -> Got(0, s) [] e.m = "all" -> Got(1, s)

Eval(p, e, s) ==
  IF ~Running(s) THEN Got(0, s)
  ELSE CASE e.k \in {"int", "bool"} -> Got(e.n, s)
    [] e.k = "un" ->
         Then(Eval(p, e.e, s), LAMBDA v, t : IF e.op = "!" THEN Got(Flag(v = 0), t) ELSE Apply(p, t, "-", 0, v))
    [] e.k = "var" -> Got(At(s.env, e.n), s)
    [] e.k = "bin" -> Then(EvalAll(p, <<e.l, e.r>>, s, <<>>), LAMBDA vals, t : Apply(p, t, e.op, vals[1], vals[2]))
    [] e.k = "logic" ->
         Then(Eval(p, e.l, s), LAMBDA l, t :
           IF (l # 0) = (e.op = "||") THEN Got(Flag(l # 0), t)
           ELSE Then(Eval(p, e.r, t), LAMBDA r, u : Got(Flag(r # 0), u)))
    [] e.k = "wrapping" -> [Eval(p, e.e, [s EXCEPT !.mode = "wrapping"]) EXCEPT !.s.mode = s.mode]
    [] e.k = "blockexpr" ->
         Then(ExecAll(p, e.ss, s), LAMBDA v, t : IF e.tail = <<>> THEN Got(0, t) ELSE Eval(p, Head(e.tail), t))
    [] e.k = "call" ->
         Then(EvalAll(p, e.args, s, <<>>), LAMBDA vals, t :
           IF e.n \in DOMAIN s.lams THEN CallLambda(p, s.lams[e.n], vals, t) ELSE CallFunction(p, e.n, vals, t))
    [] e.k \in {"list", "outcome"} -> EvalAll(p, e.args, s, <<>>)
    [] e.k = "match" -> Then(Eval(p, e.e, s), LAMBDA x, t : EvalArms(p, e.arms, <<>>, x, t))
    [] e.k = "decide" -> EvalArms(p, e.arms, e.els, 0, s)
    [] e.k = "try" ->
         Then(Eval(p, e.e, s), LAMBDA x, t : IF x[1] # 0 THEN Got(x[2], t) ELSE Got(0, [Halt(t, "return") EXCEPT !.ret = x]))
    [] e.k = "or" -> Then(Eval(p, e.e, s), LAMBDA x, t : IF x[1] # 0 THEN Got(x[2], t) ELSE Eval(p, e.other, t))
    [] e.k = "pipe" -> Then(Eval(p, e.e, s), LAMBDA x, t : EvalStages(p, e.stages, x, t))
    [] e.k = "method" ->
         Then(Eval(p, e.e, s), LAMBDA xs, t : Then(Start(e, p, t), LAMBDA acc, u : EvalList(p, e, xs, acc, u)))

ExecAll(p, ss, s) ==
  IF ss = <<>> \/ ~Running(s) THEN Got(0, s)
  ELSE IF Len(ss) = 1 THEN Exec(p, Head(ss), s)
  ELSE Then(Exec(p, Head(ss), s), LAMBDA v, t : ExecAll(p, Tail(ss), t))

\* after an iteration: leave, or go on with the loop
After(s) == IF s.st = "continue" THEN Halt(s, "ok") ELSE s
Left(s) == Got(0, IF s.st = "break" THEN Halt(s, "ok") ELSE s)
Iterate(p, st, n, s) ==
  IF ~Running(s) THEN Left(s)
  ELSE IF n = 0 THEN Got(0, Halt(s, "fuel"))
  ELSE Then(IF st.k = "loop" THEN Got(1, s) ELSE Eval(p, st.e, s),
            LAMBDA c, t : IF c = 0 THEN Got(0, t) ELSE Iterate(p, st, n - 1, After(Exec(p, st.body, t).s)))
Elements(p, st, xs, s) ==
  IF ~Running(s) THEN Left(s)
  ELSE IF xs = <<>> THEN Got(0, s)
  ELSE Elements(p, st, Tail(xs), After(Exec(p, st.body, [s EXCEPT !.env = Set(@, st.n, Head(xs))]).s))

UpTo(a, b) == [i \in 1..(IF b > a THEN b - a ELSE 0) |-> a + i - 1]
Exec(p, st, s) ==
  IF ~Running(s) THEN Got(0, s)
  ELSE CASE st.k = "block" -> ExecAll(p, st.ss, s)
    [] st.k \in {"let", "assign"} ->
         Then(Eval(p, st.e, s), LAMBDA v, t : Got(v, [t EXCEPT !.env = Set(@, st.n, v)]))
    [] st.k = "lambda" ->
         Got(0, [s EXCEPT !.lams = Set(@, st.n, [params |-> st.params, body |-> st.body, env |-> s.env, lams |-> s.lams])])
    [] st.k = "do" -> Eval(p, st.e, s)
    [] st.k = "out" -> Then(Eval(p, st.e, s), LAMBDA v, t : Got(0, [t EXCEPT !.log = Append(@, v)]))
    [] st.k = "return" ->
         Then(Eval(p, st.e, s), LAMBDA v, t : Got(0, [Halt(t, "return") EXCEPT !.ret = IF st.e.k = "try" THEN <<1, v>> ELSE v]))
    [] st.k = "if" -> Then(Eval(p, st.e, s), LAMBDA c, t : Exec(p, IF c # 0 THEN st.then ELSE st.els, t))
    [] st.k \in {"while", "loop"} -> Iterate(p, st, s.fuel, s)
    [] st.k = "for" -> Then(EvalAll(p, <<st.a, st.b>>, s, <<>>), LAMBDA ab, t : Elements(p, st, UpTo(ab[1], ab[2]), t))
    [] st.k = "each" -> Then(Eval(p, st.e, s), LAMBDA xs, t : Elements(p, st, xs, t))
    [] st.k \in {"break", "continue"} -> Got(0, Halt(s, st.k))

Outcome1(r) == [log |-> r.s.log, ret |-> r.v, st |-> r.s.st]
Meaning(p, inputs, fuel) ==
  Outcome1(Returned(Exec(p, p[Main].body, [env |-> <<>>, lams |-> <<>>, log |-> <<>>, in |-> inputs, fuel |-> fuel, st |-> "ok",
                                           ret |-> 0, mode |-> "checked"])))
=============================================================================
