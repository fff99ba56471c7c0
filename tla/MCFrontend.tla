----------------------------- MODULE MCFrontend -----------------------------
(***************************************************************************)
(* Inputs for the front end.  The parser reads programs that use every     *)
(* construct, each of them also with one token lost, doubled or replaced   *)
(* and cut off at every point; every short sequence of tokens as a         *)
(* statement; and every small expression, written out with the parentheses *)
(* that README.md's table of precedences asks for.                         *)
(*   The analyses judge syntax trees in one step; those with a parallel    *)
(* block then run, branch against branch.  Variables of the gated          *)
(* functions: 1 d, 2 n, 3 t; functions: 0 main, 1 the function judged, 7   *)
(* assert.                                                                 *)
(***************************************************************************)
EXTENDS Parser, Gates, Resolver

CONSTANTS
    StatementLength,   \* length of the sequences tried as a statement
    AnFuel, Globals, ReadFn
Source == INSTANCE SourceMeaning

VARIABLE part          \* "parser" or "analysis"
VARIABLES
    input,    \* the tokens and their lines, or the expression written out
    parsed    \* the state in which the parser stopped

parserVars == <<input, parsed>>

OneLine(toks) == [toks |-> toks, lines |-> [i \in DOMAIN toks |-> 1], tree |-> <<>>]
InFn(body) == <<"fn", "f", "(", ")", "{">> \o body \o <<"}">>

Programs ==
  { <<"module", "x", ".", "y", ";", "use", "x", ".", "{", "x", ",", "y", "}",
      "import", "c", "'s'", "with", "link", "(", "'s'", ")", ";">>,
    <<"@", "x", "(", "1", ",", "y", ":", "2", ")", "pub", "fn", "f", "<", "T", ":", "N", "+", "x",
      ">", "(", "self", ",", "x", ":", "T", ")", "->", "T", "?", "require", "x", ",", "'s'", ";",
      "decreases", "x", "{", "return", "x", "}">>,
    <<"struct", "T", "<", "N", ">", "with", "x", "{", "@", "f", "x", ":", "N", "in", "bits",
      "1", "..=", "2", "at", "1", "=", "2", ",", "using", "N", "invariant", "x", ";", "}">>,
    <<"behavior", "T", "{", "fn", "f", "(", "&", "mut", "self", ")", "=>", "x", "async", "fn",
      "x", ".", "y", "(", ")", "{", "}", "}">>,
    <<"enum", "T", "{", "N", "(", "T", "<", "T", "<", "N", ">>", ")", ",", "x", "}",
      "role", "T", "{", "f", "(", ")", "}">>,
    <<"trait", "T", ":", "N", "+", "x", "{", "fn", "f", "(", ")", "->", "T", ";", "fn", "y",
      "(", ")", "=>", "1", "}">>,
    <<"impl", "T", "for", "N", "{", "async", "fn", "f", "(", ")", "{", "}", "}",
      "component", "T", "{", "x", ":", "T", "}">>,
    <<"register", "T", "at", "1", "{", "x", ":", "N", "at", "2", ",", "}", "packet", "N", "{",
      "x", ":", "1", "y", "2", "}", "extern", "'s'", "fn", "f", "(", ")", "->", "T">>,
    <<"bridge", "x", "::", "y", "{", "fn", "f", "(", "x", ":", "T", ")", ";", "}", "type", "T",
      "=", "N", "where", "x", "<", "1", ";", "const", "x", ":", "T", "=", "1">>,
    InFn(<<"let", "mut", "x", ":", "T", "<", "1", "..", "2", ">", "=", "1", ";", "x", "=",
           "[", "1", ";", "2", "]", "out", "[", "x", ":", "1", ",", "y", ":", "2", "]">>),
    InFn(<<"if", "N", "{", "out", "1", "}", "else", "if", "x", "{", "break", "}", "else", "{",
           "err", "2", "}", "while", "x", "<", "y", "{", "continue", "}">>),
    InFn(<<"for", "x", "in", "1", "..", "2", "{", "}", "loop", "{", "}", "parallel", "for", "y",
           "in", "x", "{", "}", "with", "x", "=", "y", "{", "}">>),
    InFn(<<"unsafe", "(", "justification", ":", "'s'", ")", "{", "asm", "{", "x", ",", "1", "}",
           "asm!", "{", "'s'", ",", "options", ":", "[", "x", "]", "}", "}", "simd", "{", "}">>),
    InFn(<<"val", "x", "=", "match", "y", "{", "-", "1", "=>", "2", ",", "T", ".", "N", "(", "x",
           ")", "if", "x", "=>", "{", "let", "y", "=", "1", ";", "y", "}", "_", "=>", "x", "}">>),
    InFn(<<"out", "decide", "{", "x", "=>", "{", "1", "}", "else", "=>", "2", "}", "|>", "flow",
           "f", "or", "{", "_", "=>", "y", "}">>),
    InFn(<<"out", "(", "x", ",", "y", ")", "=>", "{", "x", ";", "return", "y", "}", "out",
           "x", "=>", "x", "+", "1">>),
    InFn(<<"out", "if", "x", "{", "1", "}", "else", "{", "T", "<", "N", ">", "{", "x", ":", "1",
           "}", "}", "out", "comptime", "{", "1", "}">>),
    InFn(<<"out", "f", "(", "x", ")", "[", "1", "]", ".", "y", "?", "as", "T", "is", "N",
           "out", "wrapping", "(", "x", ")", "out", "await", "-", "x">>),
    InFn(<<"require", "x", "==", "1", ",", "'s'", ";", "out", "x", "as", "?", "T", "<", "N", ">",
           "?", "out", "y", "is", "N", "in", "1", "..", "2">>) }

\* The tokens an edit may put in the place of another.
Fresh == {"x", "1", "}", "{", ")", "(", ";", ",", ":", "=", "=>", "fn", "if", "else"}

Edits(toks) ==
    {toks}
    \cup {SubSeq(toks, 1, i) : i \in 0..Len(toks)}
    \cup {SubSeq(toks, 1, i - 1) \o SubSeq(toks, i + 1, Len(toks)) : i \in DOMAIN toks}
    \cup {SubSeq(toks, 1, i) \o SubSeq(toks, i, Len(toks)) : i \in DOMAIN toks}
    \cup {[toks EXCEPT ![i] = t] : i \in DOMAIN toks, t \in Fresh}

StatementTokens ==
    {"x", "1", "+", "-", "..", "(", ")", "{", "}", "[", "]", ",", ".", ";", ":", "=", "if",
     "else", "return", "out", "match"}

-----------------------------------------------------------------------------
(* Expressions, written with the parentheses that the precedences need *)

LeafTree(t) == Leaf(IF t \in Ints THEN "lit" ELSE "id", t)
SmallOps == {"||", "==", "<", "|", "<<", "+", "-", "*"}
Binary(ops, ls, rs) == {Node("binary", op, <<l, r>>) : op \in ops, l \in ls, r \in rs}

Leaves0 == {LeafTree("x"), LeafTree("1")}
Trees1 ==
    Leaves0 \cup Binary(SmallOps, {LeafTree("x")}, {LeafTree("y")})
    \cup {Node("unary", "", <<Leaf("op", "-"), LeafTree("x")>>),
          Node("call", "", <<LeafTree("f"), LeafTree("x")>>),
          Node("index", "", <<LeafTree("x"), LeafTree("1")>>),
          Node("range", "..", <<LeafTree("1"), LeafTree("x")>>)}
Trees ==
    Trees1 \cup Binary(SmallOps, Trees1, Trees1)
    \cup {Node("unary", "", <<Leaf("op", "-"), t>>) : t \in Trees1}
    \cup {Node("call", "", <<LeafTree("f"), t>>) : t \in Trees1}
    \cup {Node("index", "", <<l, r>>) : l, r \in Trees1}
    \cup {Node("range", "..", <<l, r>>) : l, r \in Trees1}

\* README.md's order, from the loosest: || && equality and relations | ^ & << + *.
\* A range binds its left operand as PREC_RANGE says, but the climbing loop ends behind
\* its right one: that is written as a unary would be, and so is a range wherever an
\* operator follows or precedes it (`0..(n+1)`, `(1..x) == y`).
Rank(t) ==
    CASE t.k = "binary" -> Precedence(t.v) [] t.k = "range" -> 0 [] t.k = "unary" -> 12 [] OTHER -> 13

RECURSIVE Spelled(_)
Paren(t, least) == IF Rank(t) < least THEN <<"(">> \o Spelled(t) \o <<")">> ELSE Spelled(t)
Spelled(t) ==
    CASE t.k \in {"lit", "id"} -> <<t.v>>
      [] t.k = "unary" -> <<t.xs[1].v>> \o Paren(t.xs[2], 12)
      [] t.k = "call" -> Paren(t.xs[1], 13) \o <<"(">> \o Spelled(t.xs[2]) \o <<")">>
      [] t.k = "index" -> Paren(t.xs[1], 13) \o <<"[">> \o Spelled(t.xs[2]) \o <<"]">>
      [] t.k = "range" -> Paren(t.xs[1], Precedence(t.v)) \o <<t.v>> \o Paren(t.xs[2], 12)
      [] OTHER -> Paren(t.xs[1], Rank(t)) \o <<t.v>> \o Paren(t.xs[2], Rank(t) + 1)

TreeInput(t) == [OneLine(InFn(<<"out">> \o Spelled(t))) EXCEPT !.tree = <<t>>]

-----------------------------------------------------------------------------
(* Runs *)

MCInputs ==
    {OneLine(toks) : toks \in UNION {Edits(p) : p \in Programs}}
    \cup {OneLine(InFn(body)) : body \in UNION {[1..n -> StatementTokens] : n \in 0..StatementLength}}
    \cup {TreeInput(t) : t \in Trees}

Parse(in) == parse_program(in.toks, in.lines)
ParserInit(inputs) == input \in inputs /\ parsed = Parser_new(input.toks, input.lines)
ParserNext == parsed.kids = <<>> /\ parsed' = Parse(input) /\ UNCHANGED input

-----------------------------------------------------------------------------
(* Cases for the analyses *)

VARIABLES anCase, anVerdict, anRun   \* what is judged, what was found, the parallel block running
anVars == <<anCase, anVerdict, anRun>>
NoRun == [pc |-> <<>>, env |-> <<>>, reg |-> <<>>]

I(n) == [k |-> "int", n |-> n]
T == [k |-> "bool", n |-> 1]
V(n) == [k |-> "var", n |-> n]
B(op, l, r) == [k |-> "bin", op |-> op, l |-> l, r |-> r]
L(op, l, r) == [k |-> "logic", op |-> op, l |-> l, r |-> r]
U(op, e) == [k |-> "un", op |-> op, e |-> e]
C(n, args) == [k |-> "call", n |-> n, args |-> args]
BX(ss, tail) == [k |-> "blockexpr", ss |-> ss, tail |-> tail]
Lam(params, body) == [k |-> "fn", params |-> params, body |-> body]
Match(e, n, body) == [k |-> "match", e |-> e, arms |-> <<[pat |-> [k |-> "bind", n |-> n], guard |-> <<>>, body |-> body]>>]
Decide(cond, body, els) == [k |-> "decide", arms |-> <<[cond |-> cond, body |-> body]>>, els |-> <<els>>]
NoType == [k |-> "none"]
DoStmt(e) == [k |-> "do", e |-> e]
Print1(e) == [k |-> "out", e |-> e]
Let(n, e) == [k |-> "let", n |-> n, e |-> e, mut |-> TRUE, ty |-> NoType]
Assign(n, e) == [k |-> "assign", n |-> n, e |-> e]
Seqs(ss) == [k |-> "block", ss |-> ss]
If(e, then, els) == [k |-> "if", e |-> e, then |-> Seqs(then), els |-> Seqs(els)]
WhileStmt(e, body) == [k |-> "while", e |-> e, body |-> Seqs(body)]
For(n, a, b, body) == [k |-> "for", n |-> n, a |-> a, b |-> b, body |-> Seqs(body)]
Ret(e) == [k |-> "return", e |-> e]

d1 == V(1)
n2 == V(2)
t3 == V(3)
Div(x, y) == B("/", x, y)
NonZero(x) == B("!=", x, I(0))
Fn(params, ss) ==
  [params |-> params, types |-> [i \in DOMAIN params |-> NoType], requires |-> <<>>, body |-> Seqs(ss), unsafe |-> FALSE, nopanic |-> FALSE,
   noalloc |-> FALSE, pure |-> FALSE, metric |-> <<>>, method |-> FALSE, fields |-> {}, invs |-> <<>>]

-----------------------------------------------------------------------------
(* Divisions by what a test, a contract, a type or an assertion is about.  One
   global is of the class NonZeroInt; a variable may have its name. *)
MCGlobal == 4
MCNonZeroGlobals == {MCGlobal}
MCVal == 92
MCPanic == 90
MCAssert == 7
MCAsserts == {MCAssert}
AssertFn == Fn(<<8>>, <<WhileStmt(B("==", V(8), I(0)), <<>>)>>)   \* it does not come back
Proofs ==
  {If(B("==", d1, I(0)), <<Ret(I(7))>>, <<>>), If(B("==", I(0), n2), <<Print1(I(1)), Ret(I(8))>>, <<>>),
   If(NonZero(n2), <<Print1(Div(I(9), n2))>>, <<Assign(2, I(2))>>), If(B(">", d1, I(1)), <<Print1(Div(n2, d1))>>, <<>>),
   If(B("==", d1, I(0)), <<Print1(n2)>>, <<Print1(B("%", n2, d1))>>),
   Assign(1, n2), Assign(1, I(3)), Assign(2, B("-", n2, I(1))), Let(3, d1),
   DoStmt(C(MCAssert, <<L("&&", B("<", n2, I(0)), T)>>)),
   Print1(Decide(NonZero(d1), Div(n2, d1), I(5))),
   Let(MCGlobal, d1),
   WhileStmt(L("&&", B(">", n2, I(0)), B("<", d1, I(0))), <<Print1(Div(n2, d1)), Assign(2, B("-", n2, I(1)))>>)}
Uses ==
  {Ret(Div(n2, d1)), Ret(Div(n2, B("*", d1, I(2)))), Ret(Div(d1, n2)), Ret(Div(n2, t3)),
   Ret(L("&&", B(">=", n2, I(1)), B("<", B("%", d1, n2), I(1)))), Ret(Div(I(8), B("*", I(4), B("*", I(3), d1)))),
   Ret(Div(n2, B("*", d1, d1))), Ret(Div(n2, V(MCGlobal)))}
Where(v, e) == [k |-> "pred", v |-> v, e |-> e]
Alias(base, ref) == [k |-> "alias", base |-> base, ref |-> ref]
Promises ==
  {[ty |-> NoType, req |-> <<>>], [ty |-> NoType, req |-> <<L("&&", B("<", I(0), n2), B(">", d1, I(0)))>>], [ty |-> NoType, req |-> <<NonZero(n2)>>],
   [ty |-> [k |-> "nonzero"], req |-> <<>>], [ty |-> Alias(Where(1, B(">=", d1, I(1))), NoType), req |-> <<>>],
   [ty |-> Alias(NoType, Where(1, B("<", V(MCVal), I(0)))), req |-> <<>>],
   [ty |-> [k |-> "range", lo |-> I(1), hi |-> I(9)], req |-> <<>>]}
Tracked(s) == {x.n : x \in {y \in WithinStmt(s) : y.k = "assign"}}
Divisions ==
  \E i, j \in Proofs, use \in Uses, pr \in Promises :
    /\ use.e = Div(n2, t3) => Let(3, d1) \in {i, j}
    /\ use.e = Div(n2, V(MCGlobal)) => Let(MCGlobal, d1) \in {i, j}
    /\ anCase = [fam |-> "division",
                 fn |-> [Fn(<<1, 2>>, <<i, j, use>>) EXCEPT !.types = <<pr.ty, NoType>>, !.requires = pr.req]]
(* What the gate of divisors takes on trust: a product of two factors that are
   no literals (verify_expr.rs:538-548), what has the name of a global of the
   class NonZeroInt (:615), every variable of a function one of whose parameters
   excludes zero (:600-614), what a type or a contract says of a parameter that
   is assigned (:588-593), and a variable that a body assigns, as a body works on a copy of
   what is known (verify_stmt.rs). *)
DivisorTrusted(fn) ==
  LET divisors == {x.r : x \in {y \in WithinStmt(fn.body) : y.k = "bin" /\ y.op \in {"/", "%"}}}
      names    == UNION {VarsRead(d) : d \in divisors}
  IN \/ \E d \in divisors : \E m \in Within(d) : m.k = "bin" /\ m.op = "*" /\ m.l.k # "int" /\ m.r.k # "int"
     \/ names \cap NonZeroGlobals # {}
     \/ \E i \in DOMAIN fn.types :
          refinement_proves_non_zero(fn.types[i], fn.params[i]) /\ (names # {fn.params[i]} \/ fn.params[i] \in Tracked(fn.body))
     \/ \E i \in DOMAIN fn.requires : Tracked(fn.body) \cap VarsRead(fn.requires[i]) # {}
     \/ \E s \in ToSet(fn.body.ss) : \E b \in ToSet(Bodies(s)) : Tracked(b) \cap names # {}

(* Functions that call themselves with less of what their metric names. *)
LessArgs == {<<B("-", d1, I(1)), n2>>, <<B("-", d1, I(2)), B("+", n2, d1)>>, <<B("-", I(3), d1), n2>>, <<B("+", d1, I(1)), n2>>, <<d1, B("-", n2, I(1))>>,
             <<Div(d1, I(2)), n2>>, <<B("-", d1, n2), n2>>}
Stops == {If(B("<=", d1, I(0)), <<Ret(n2)>>, <<>>), If(B("<", d1, I(2)), <<Ret(d1)>>, <<>>), If(L("||", B("<", d1, I(1)), B(">", n2, I(5))), <<Ret(n2)>>, <<>>)}
StopsAtZero == If(B("==", d1, I(0)), <<Ret(n2)>>, <<>>)
BounceFn == Fn(<<1, 2>>, <<Ret(C(1, <<d1, n2>>))>>)   \* function 2 calls function 1 back
Recursions ==
  \E stop \in Stops \cup {StopsAtZero}, a, b \in LessArgs, how \in {"once", "nested", "sum", "let", "guarded", "bounced", "wrapped"}, metric \in {<<>>, <<1>>} :
    LET self(args) == C(1, args)
        body == CASE how = "once" -> <<Ret(self(a))>>
                  [] how = "nested" -> <<Ret(self(<<a[1], self(b)>>))>>
                  [] how = "sum" -> <<Ret(B("-", self(a), self(b)))>>
                  [] how = "bounced" -> <<Ret(B("-", self(a), C(2, b)))>>
                  [] how = "wrapped" -> <<Ret(B("-", self(a), [k |-> "wrapping", e |-> self(b)]))>>
                  [] how = "let" -> <<Let(3, BX(<<Let(3, self(a))>>, <<B("-", t3, n2)>>)), Ret(B("-", t3, self(b)))>>
                  [] how = "guarded" -> <<If(B("<", n2, I(0)), <<Ret(self(a))>>, <<Print1(d1)>>), Ret(Decide(B("<", n2, I(2)), self(b), I(0)))>>
    IN anCase = [fam |-> "recursion", fn |-> [Fn(<<1, 2>>, <<stop>> \o body) EXCEPT !.pure = TRUE, !.metric = metric]]
(* What the gate of metrics takes on trust: a difference by what is no literal
   (security/mod.rs:586), a metric without a lower bound, the calls through another
   function and those below an arithmetic mode, a cast, a recovery, a comptime or a
   type test, which collect_expr_calls does not look into. *)
MetricTrusted(fn) ==
  LET all == WithinStmt(fn.body)
      calls == {x \in all : x.k = "call"}
  IN \/ fn.body.ss[1] = StopsAtZero
     \/ \E c \in calls : c.n # 1 \/ (c.args[1].k = "bin" /\ c.args[1].op = "-" /\ c.args[1].l = d1 /\ c.args[1].r.k # "int")
     \/ \E x \in all : x.k = "wrapping"

Gated == {"division", "recursion"}
Called(x, y) == [Fn(<<>>, <<Ret(C(1, <<I(x), I(y)>>))>>) EXCEPT !.pure = FALSE]
Whole(fn) == (0 :> Fn(<<>>, <<>>)) @@ (1 :> fn) @@ (2 :> BounceFn) @@ (MCAssert :> AssertFn)
Meant1(x, y) == Source!Meaning((0 :> Called(x, y)) @@ Whole(anCase.fn), <<>>, AnFuel)
ValueOf(e, x, y) == Source!Meaning(0 :> Fn(<<>>, <<Let(1, I(x)), Let(2, I(y)), Ret(e)>>), <<>>, 1).ret
RECURSIVE TypeAllows(_, _)
TypeAllows(ty, x) ==
  CASE ty.k = "nonzero" -> x # 0 [] ty.k = "alias" -> TypeAllows(ty.base, x) /\ TypeAllows(ty.ref, x)
    [] ty.k = "range" -> x >= 1
    [] ty.k = "pred" -> Source!Meaning(0 :> Fn(<<>>, <<Let(ty.v, I(x)), Let(MCVal, I(x)), Ret(ty.e)>>), <<>>, 1).ret # 0
    [] OTHER -> TRUE
Admitted(x, y) ==
  TypeAllows(anCase.fn.types[1], x) /\ \A i \in DOMAIN anCase.fn.requires : ValueOf(anCase.fn.requires[i], x, y) # 0

-----------------------------------------------------------------------------
(* Contracts of a parameter with a refinement, and calls with what is known of
   the arguments. *)
Num(c) == IF c < 0 THEN U("-", I(-c)) ELSE I(c)
Atoms == {B(op, d1, Num(c)) : op \in Relations, c \in -1..2} \cup {T, U("!", T), B("<", U("-", I(2)), Num(1)), B("==", d1, n2)}
Refinements ==
  {NoType} \cup {[k |-> "range", lo |-> Num(lo), hi |-> I(hi), incl |-> i] : lo \in {-1, 0, 1}, hi \in {1, 2}, i \in BOOLEAN}
  \cup {[k |-> "range", lo |-> I(0), hi |-> n2, incl |-> TRUE], [k |-> "pred", e |-> B(">=", d1, I(1))]}
Contracts ==
  \E a \in Atoms, b \in {B(">=", d1, I(1)), B("<", d1, I(2)), B("!=", d1, I(2)), U("!", T)}, op \in {"&&", "||", "=="}, ref \in Refinements, known \in -1..1 :
    anCase = [fam |-> "contract", cond |-> IF op = "==" THEN a ELSE L(op, a, b), ref |-> ref, arg |-> known]
Allowed(ref, x, y) ==
  CASE ref.k = "range" -> /\ x >= Static(ref.lo).v
                          /\ LET hi == IF ref.hi = n2 THEN y ELSE ref.hi.n IN IF ref.incl THEN x <= hi ELSE x < hi
    [] ref.k = "pred" -> x >= 1
    [] OTHER -> TRUE

(* Bodies of lambdas. *)
LeafBodies == {<<Print1(V(11))>>, <<Let(12, V(11)), Print1(V(12))>>, <<Assign(13, V(14))>>, <<DoStmt(Lam(<<11>>, B("+", V(11), V(12))))>>,
         <<For(11, V(12), I(2), <<Print1(V(11))>>), Print1(V(13))>>, <<If(V(13), <<Print1(V(12))>>, <<Assign(11, I(1))>>)>>,
         <<DoStmt(Match(V(12), 15, B("+", V(15), V(14))))>>}
Shapes == {"plain", "while", "if", "for", "block", "lambda", "with", "list"}
Shaped(shape, ss) ==
  CASE shape = "plain" -> ss [] shape = "while" -> <<WhileStmt(V(14), ss)>> [] shape = "if" -> <<If(T, <<>>, ss)>>
    [] shape = "for" -> <<For(14, I(0), V(14), ss)>> [] shape = "block" -> <<Seqs(ss)>>
    [] shape = "lambda" -> <<DoStmt(Lam(<<13>>, BX(ss, <<V(13)>>)))>> [] shape = "with" -> <<[k |-> "with", n |-> 12, e |-> V(12), body |-> Seqs(ss)]>>
    [] shape = "list" -> <<DoStmt([k |-> "list", args |-> <<BX(ss, <<>>), V(11)>>])>>
Captures ==
  \E a, b \in LeafBodies, sh \in Shapes, around \in {{11, 12}, {13, 14}, {11, 12, 13, 14}} :
    anCase = [fam |-> "capture", params |-> <<11>>, body |-> BX(Shaped(sh, a) \o b, <<V(14)>>), around |-> around]
(* The free variables, from below: what an expression or the rest of a block
   uses and does not bind. *)
RECURSIVE Free(_), FreeIn(_)
Free(e) ==
  CASE e.k = "var" -> {e.n}
    [] e.k = "call" -> {e.n} \cup UNION {Free(x) : x \in ToSet(e.args)}
    [] e.k = "fn" -> Free(e.body) \ ToSet(e.params)
    [] e.k = "match" -> Free(e.e) \cup UNION {UNION {Free(x) : x \in ToSet(a.guard) \cup {a.body}} \ ToSet(PatternNames(a.pat)) : a \in ToSet(e.arms)}
    [] e.k = "blockexpr" -> FreeIn(e.ss \o [i \in DOMAIN e.tail |-> DoStmt(e.tail[i])])
    [] OTHER -> UNION {Free(x) : x \in ToSet(Sub(e))}
FreeIn(ss) ==
  IF ss = <<>> THEN {}
  ELSE LET s == Head(ss)
           below == IF s.k = "block" THEN FreeIn(s.ss) ELSE UNION {FreeIn(b.ss) : b \in ToSet(Bodies(s))}
       IN UNION {Free(x) : x \in ToSet(Parts(s))} \cup (below \ IF BindsInBody(s) THEN {s.n} ELSE {}) \cup (IF s.k = "assign" THEN {s.n} ELSE {})
          \cup (FreeIn(Tail(ss)) \ IF s.k = "let" THEN {s.n} ELSE {})
Declared(ss) == {x.n : x \in {y \in UNION {WithinStmt(s) : s \in ToSet(ss)} : y.k = "let"}}

-----------------------------------------------------------------------------
(* Parallel blocks, which run once they are accepted.  A branch becomes steps
   that load a variable, store one or jump when its register is 0; x 1, y 2
   and the list zs 6 (one place here) are shared, the rest belongs to the branch.  A value is a register: 0, the
   sum so far, to which a load adds. *)
Shared == {1, 2, 6}
Op(op, n) == [op |-> op, n |-> n]
Place(n, own, b) == IF n \in Shared \ own THEN n ELSE 10 * b + n
Sum(e, own, b) ==
  LET bare(x) == IF x.k \in {"cast", "index"} THEN x.e ELSE x
      term(x) == IF x.k = "int" THEN Op("const", x.n) ELSE Op("load", Place(bare(x).n, own, b))
  IN <<Op("zero", 0)>> \o (IF e.k = "bin" THEN <<term(e.l), term(e.r)>> ELSE <<term(e)>>)
RECURSIVE Micro(_, _, _)
Micro(ss, own, b) ==
  IF ss = <<>> THEN <<>>
  ELSE LET s == Head(ss)
           store(n, in) == Op("store", Place(n, in, b))
           bound == own \cup (IF s.k \in {"let", "for"} THEN {s.n} ELSE {})
           code ==
             CASE s.k = "let" -> Append(Sum(s.e, own, b), store(s.n, bound))
               [] s.k = "assign" -> Append(Sum(s.e, own, b), store(s.n, own))
               [] s.k = "store" -> Append(Sum(s.e, own, b), store(s.t.e.n, own))
               [] s.k = "do" -> Sum(s.e, own, b)
               [] s.k = "if" -> LET then == Micro(s.then.ss, own, b) IN Append(Sum(s.e, own, b), Op("skip", Len(then))) \o then
               [] s.k = "for" -> FlattenSeq([i \in 1..2 |-> <<Op("zero", 0), Op("const", i - 1), store(s.n, bound)>> \o Micro(s.body.ss, bound, b)])
               [] s.k = "block" -> Micro(s.ss, own, b)
       IN code \o Micro(Tail(ss), IF s.k = "let" THEN bound ELSE own, b)
MicroStep(r, b, code) ==
  LET i == code[r.pc[b] + 1]
      r1 == [r EXCEPT !.pc[b] = @ + 1]
  IN CASE i.op = "zero" -> [r1 EXCEPT !.reg[b] = 0]
       [] i.op = "const" -> [r1 EXCEPT !.reg[b] = @ + i.n]
       [] i.op = "load" -> [r1 EXCEPT !.reg[b] = @ + Source!At(r.env, i.n)]
       [] i.op = "store" -> [r1 EXCEPT !.env = Source!Set(@, i.n, r.reg[b])]
       [] i.op = "skip" -> IF r.reg[b] = 0 THEN [r1 EXCEPT !.pc[b] = @ + i.n] ELSE r1
Codes == [b \in DOMAIN anCase.body.ss |-> Micro(<<anCase.body.ss[b]>>, {}, b)]
FirstRun == [pc |-> [b \in DOMAIN Codes |-> 0], reg |-> [b \in DOMAIN Codes |-> 0], env |-> (1 :> 1) @@ (2 :> 0) @@ (6 :> 0)]
RECURSIVE Finish(_, _, _)
Finish(r, b, code) == IF r.pc[b] = Len(code) THEN r ELSE Finish(MicroStep(r, b, code), b, code)
InOrder == FoldLeft(LAMBDA r, b : Finish(r, b, Codes[b]), FirstRun, [b \in DOMAIN Codes |-> b]).env
Ran == \A b \in DOMAIN anRun.pc : anRun.pc[b] = Len(Codes[b])

x1 == V(1)
y2 == V(2)
Zs0 == [k |-> "index", e |-> V(6), i |-> I(0)]
Branches ==
  {Assign(1, B("+", x1, I(1))), Assign(2, x1), Seqs(<<Let(4, y2), Assign(1, B("+", V(4), I(2)))>>), If(x1, <<Assign(2, I(3))>>, <<>>),
   For(5, I(0), I(2), <<Assign(2, B("+", y2, I(2)))>>), For(2, I(0), I(2), <<Assign(4, B("+", y2, x1))>>), DoStmt(B("+", y2, I(1))),
   Let(4, x1), Seqs(<<Let(2, I(5)), Assign(4, y2)>>),
   Assign(2, [k |-> "cast", e |-> x1]), [k |-> "store", t |-> Zs0, e |-> x1], Assign(2, Zs0),
   [Let(2, y2) EXCEPT !.mut = FALSE]}
(* What the check of races overlooks: an element that is stored (concurrency.rs:120),
   what an immutable variable reads of the variable it hides (:99-105) and the reads
   below a cast, a recovery, an arithmetic mode, a comptime or a type test
   (capabilities.rs:377). *)
RaceOverlooked(body) ==
  \E x \in WithinStmt(body) :
    \/ x.k = "store"
    \/ x.k = "let" /\ x.n \in VarsRead(x.e)
    \/ x.k \in {"cast", "or", "wrapping", "comptime", "is"}
Parallels == \E a, b \in Branches, c \in {DoStmt(I(1)), DoStmt(x1), Assign(1, I(9))} : anCase = [fam |-> "parallel", body |-> Seqs(<<a, b, c>>)]

-----------------------------------------------------------------------------
(* Hierarchies: three classes, each with a base and a component, a component
   40 and a behavior. *)
Places == {1, 2, 3}
NoFields == {}
Meth(n) == [n |-> n, params |-> <<>>, body |-> Seqs(<<>>), replaces |-> FALSE, declared |-> FALSE]
Decl(k, n) == [k |-> k, n |-> n, file |-> 1, export |-> TRUE, base |-> <<>>, comps |-> <<>>, fields |-> NoFields, methods |-> <<>>]
Hierarchies ==
  \E base \in [Places -> {<<>>} \cup {<<c>> : c \in Places}], comp \in [Places -> {<<>>, <<40>>} \cup {<<c>> : c \in Places}],
    own \in {{}, {1}, {3}, {1, 2}}, backwards \in BOOLEAN :
    /\ comp[1] = <<>>
    /\ LET class(c) == [Decl("class", c) EXCEPT !.base = base[c], !.comps = comp[c], !.fields = {30 + c} \cup (IF c \in own THEN {20} ELSE {}),
                                             !.methods = IF c \in own THEN <<Meth(25)>> ELSE <<>>]
        decls == <<class(1), class(2), class(3), [Decl("component", 40) EXCEPT !.fields = {20, 39}, !.methods = <<Meth(25), Meth(26)>>],
                   [Decl("behavior", 2) EXCEPT !.methods = <<Meth(26), [Meth(25) EXCEPT !.replaces = TRUE]>>]>>
       IN anCase = [fam |-> "hierarchy", decls |-> IF backwards THEN Reverse(decls) ELSE decls]

(* Where a member of a class comes from: its own declaration or a behavior of
   it, or the base, or the first component that has it. *)
Decls == anCase.decls
PlacesOf(kinds, n, m) == {i \in DOMAIN Decls : Decls[i].k \in kinds /\ Decls[i].n = n /\ m \in Decls[i].fields \cup MethodNames(Decls[i])}
Above(c) == LET i == CHOOSE i \in DOMAIN Decls : Decls[i].k \in {"class", "component"} /\ Decls[i].n = c IN Decls[i].base \o Decls[i].comps
RECURSIVE Origin(_, _), FirstOrigin(_, _)
FirstOrigin(cs, m) ==
  IF cs = <<>> THEN 0 ELSE IF Origin(Head(cs), m) # 0 THEN Origin(Head(cs), m) ELSE FirstOrigin(Tail(cs), m)
Origin(c, m) ==
  IF PlacesOf({"behavior"}, c, m) # {} THEN Max(PlacesOf({"behavior"}, c, m))
  ELSE IF PlacesOf({"class", "component"}, c, m) # {} THEN Max(PlacesOf({"class", "component"}, c, m))
  ELSE FirstOrigin(SelectSeq(Above(c), LAMBDA a : a # c), m)
RECURSIVE Reaches(_, _, _)
Reaches(c, goal, left) == \E a \in ToSet(Above(c)) \ {c} : a = goal \/ (left > 0 /\ Reaches(a, goal, left - 1))
Cyclic == \E c \in Places : Reaches(c, c, 3)

(* Bodies with names that are bound, or not, where they stand.  Globals: 51, and
   52 of another file, not exported. *)
MCPrelude == {60}
Names(n) == {<<Print1(V(n))>>, <<Let(n, V(51))>>, <<Assign(n, I(1))>>, <<For(n, V(n), V(60), <<Print1(V(n))>>)>>, <<DoStmt(Lam(<<n>>, V(n))), Print1(V(n))>>,
             <<DoStmt(Match(V(n), n + 1, V(n + 1)))>>, <<If(T, <<Let(n, V(52)), Print1(V(n))>>, <<Print1(V(n + 1))>>)>>}
Bindings ==
  \E a, b \in Names(11) \cup Names(12), sh \in Shapes \ {"lambda", "list"}, inMethod \in BOOLEAN :
    LET body == Seqs(Shaped(sh, a) \o b)
    IN anCase = [fam |-> "names",
                 decls |-> <<IF inMethod THEN [Decl("class", 1) EXCEPT !.fields = {14}, !.methods = <<[Meth(25) EXCEPT !.params = <<11>>, !.body = body]>>]
                             ELSE Decl("function", 1) @@ [params |-> <<11>>, body |-> body],
                             Decl("global", 51) @@ [e |-> I(1)], [Decl("global", 52) EXCEPT !.file = 2, !.export = FALSE] @@ [e |-> I(1)]>>,
                 free |-> FreeIn(body.ss), field |-> inMethod, body |-> body]

(* Calls among four functions, one of which prints or stores. *)
CallShape(how, f) ==
  CASE how = "plain" -> <<DoStmt(C(f, <<>>))>> [] how = "loop" -> <<WhileStmt(T, <<Let(11, B("+", C(f, <<>>), I(1)))>>)>>
    [] how = "match" -> <<Ret(Match(C(f, <<>>), 12, Lam(<<13>>, C(f, <<>>))))>>
Own1(e) == CASE e = "IO" -> <<Print1(I(1))>> [] e = "Write" -> <<If(T, <<>>, <<Assign(70, I(1))>>)>> [] e = "Parallel" -> <<[k |-> "parallel", body |-> Seqs(<<>>)]>>
CallGraphs ==
  \E calls \in [1..4 -> SUBSET (1..4)], how \in {"plain", "loop", "match"}, e \in {"IO", "Write", "Parallel"}, who \in {2, 4} :
    /\ \A f \in 1..4 : Cardinality(calls[f]) <= 1 \/ (f = 1 /\ Cardinality(calls[f]) = 2)
    /\ anCase = [fam |-> "effects", calls |-> calls, who |-> who, e |-> e,
                 decls |-> [f \in 1..4 |-> Decl("function", f) @@
                            [params |-> <<11>>, comptime |-> FALSE,
                             body |-> Seqs((IF f = who THEN Own1(e) ELSE <<>>) \o FlattenSeq(SetToSeq({CallShape(how, g) : g \in calls[f]})))]]]
RECURSIVE Called1(_, _)
Called1(calls, seen) == LET wider == seen \cup UNION {calls[f] : f \in seen} IN IF wider = seen THEN seen ELSE Called1(calls, wider)
MCMethod(c, m) == 1000 * c + m
NoEffects == <<>>

-----------------------------------------------------------------------------
anInit == anVerdict = <<>> /\ anRun = NoRun
Outer == [proven |-> {}, symbols |-> Shared, outer |-> Shared, requires |-> <<>>, types |-> <<>>, just |-> "none", nopanic |-> FALSE, noalloc |-> FALSE]
Verdict ==
  CASE anCase.fam \in Gated -> verify_program(Whole(anCase.fn))
    [] anCase.fam = "contract" -> is_contract_statically_true(anCase.cond, <<[n |-> 1, ref |-> anCase.ref]>>)
    [] anCase.fam = "capture" -> infer_captures(anCase.params, anCase.body, anCase.around)
    [] anCase.fam = "parallel" -> verify_stmt(<<>>, [ctx |-> Outer, errs |-> {}], [k |-> "parallel", body |-> anCase.body]).errs
    [] anCase.fam \in {"hierarchy", "names"} -> resolve_program(Decls, {})
    [] anCase.fam = "effects" -> analyze_program(Decls)
Judge ==
  /\ anVerdict = <<>>
  /\ \E v \in {Verdict} :
        anVerdict' = <<v>> /\ anRun' = IF anCase.fam = "parallel" /\ v = {} THEN FirstRun ELSE anRun
  /\ UNCHANGED anCase
RunBranch ==
  /\ \E b \in DOMAIN anRun.pc : anRun.pc[b] < Len(Codes[b]) /\ anRun' = MicroStep(anRun, b, Codes[b])
  /\ UNCHANGED <<anCase, anVerdict>>
-----------------------------------------------------------------------------
(* The run: a behaviour is an input of the parser or a case of the analyses. *)
NoCase == [fam |-> "none"]
MCInit ==
    /\ anInit
    /\ \/ part = "parser" /\ ParserInit(MCInputs) /\ anCase = NoCase
       \/ /\ part = "analysis" /\ ParserInit({OneLine(<<>>)})
          /\ Divisions \/ Recursions \/ Contracts \/ Captures \/ Parallels \/ Hierarchies \/ Bindings \/ CallGraphs
MCNext ==
    \/ part = "parser" /\ ParserNext /\ UNCHANGED <<part, anVars>>
    \/ part = "analysis" /\ (Judge \/ RunBranch) /\ UNCHANGED <<part, parserVars>>
MCSpec == MCInit /\ [][MCNext]_<<part, parserVars, anVars>>

Finished == parsed.kids # <<>> \/ parsed.fuel <= 0
Accepted == Finished /\ parsed.errs = 0

\* The names, literals and operators of a tree, in the order of the source.
RECURSIVE Yield(_)
Yields(ts) == FoldLeft(LAMBDA acc, t : acc \o Yield(t), <<>>, ts)
Yield(t) ==
    IF t.k \in {"lit", "id", "op"} THEN <<t.v>>
    ELSE IF t.k \in {"binary", "range"} THEN Yield(t.xs[1]) \o <<t.v>> \o Yield(t.xs[2])
    ELSE Yields(t.xs)
Substance == Literals \cup Identifiers \cup {"-", "*", "..", "<", "<<", "|", "||", "=="}
Substantial(ts) ==
    SelectSeq(ts, LAMBDA t : t \in Substance \ ContextualNames)

\* The parser reads any sequence of tokens to its end: no loop waits for a
\* token that recovery does not consume, and the depth and the condition
\* flag are back where they were (parse_program, synchronize and the loops
\* over blocks, members and fields).
ParseEnds ==
    Finished =>
        /\ parsed.fuel > 0
        /\ parsed.ok
        /\ is_at_end(parsed)
        /\ parsed.depth = 0
        /\ ~parsed.noStruct

\* Where the parser skips in silence: the bodies of impl, trait and role,
\* where synchronize passes over what is no method, the type arguments of a
\* call or of a name that no fields follow, a second else arm, what follows the
\* name of the type of a cast or a test, and the message of a require statement.
Lower == Identifiers \ Capitals
SkipsInSilence(toks) ==
    \E i \in DOMAIN toks :
        \/ toks[i] \in {"impl", "trait", "role"}
        \/ i > 1 /\ i < Len(toks) /\ toks[i] = "<" /\ toks[i - 1] \in Lower
           /\ toks[i + 1] \in Capitals
        \/ i < Len(toks) /\ toks[i] = ">" /\ toks[i + 1] # "{"
           /\ \E j \in 2..(i - 1) : toks[j] = "<" /\ toks[j - 1] \in Capitals
        \/ i < Len(toks) /\ toks[i] = "else" /\ toks[i + 1] = "=>"
           /\ \E j \in 1..(i - 1) : toks[j] = "else" /\ toks[j + 1] = "=>"
        \/ toks[i] \in {"as", "is"}
           /\ \E j \in DOMAIN toks : j \in {i + 2, i + 3} /\ toks[j] \in {"<", "?", "!", "in", "where"}
        \/ toks[i] = "require"
           /\ \E j \in 1..(i - 1) : toks[j] = "{"
           /\ \E k \in (i + 1)..(Len(toks) - 1) : toks[k] = "," /\ toks[k + 1] = "'s'"

\* A program accepted without an error is in the tree with every name,
\* literal and operator of its text, in their order: what recovery and the
\* lookaheads skip, they report.
NothingDropped ==
    Accepted /\ ~SkipsInSilence(input.toks) =>
        Substantial(Yield(parsed.kids[1])) = Substantial(parsed.toks)

\* An expression written with the parentheses the table of precedences asks
\* for, and those a range needs besides (see Rank), is read back as the
\* expression it was written from (parse_binary_climbing, parse_unary,
\* parse_postfix).
ReadsAsWritten ==
    Finished /\ input.tree # <<>> =>
        /\ parsed.errs = 0
        /\ LET fn == parsed.kids[1].xs[1].xs[1]
           IN  Last(Last(fn.xs).xs).xs = input.tree

Judged(fam) == anCase.fam = fam /\ anVerdict # <<>>
Found == anVerdict[1]

(* No division by zero: a function the gates accept, whose divisors they do not
   take on trust, faults on no argument its types and contracts admit. *)
VerifiedDivides ==
  Judged("division") /\ Found = {} /\ ~DivisorTrusted(anCase.fn) =>
    \A x, y \in -2..2 : Admitted(x, y) => Meant1(x, y).st # "trap"

ComesBack == \A x \in 0..2, y \in {-1, 1} : Meant1(x, y).st = "ok"

(* A function accepted with a metric comes back, where the gate looked at its calls
   and the metric is bounded below. *)
VerifiedReturns ==
  Judged("recursion") /\ Found = {} /\ ~MetricTrusted(anCase.fn) => ComesBack

(* The gates keep their promise to a function they accept: no division by zero, and a
   result when it has a metric. *)
VerifiedRunsEnd == VerifiedDivides /\ VerifiedReturns

OneResult == Ran => \A n \in Shared : anRun.env[n] = InOrder[n]

(* The branches of an accepted parallel block, of which the check overlooks
   nothing, give one result in any order of their loads and stores: that of running
   one after the other. *)
RaceFree == Judged("parallel") /\ Found = {} /\ ~RaceOverlooked(anCase.body) => OneResult

SkippedHolds == Found => \A x \in -2..3, y \in -1..2 : Allowed(anCase.ref, x, y) => ValueOf(anCase.cond, x, y) # 0
KnownEarly(known) == known # Unknown => \A y \in -1..2 : ValueOf(anCase.cond, anCase.arg, y) = known.v

(* A test that is not compiled would hold on every value the refinement allows,
   and what is computed before the run is what the run computes. *)
SkippedContractHolds ==
  Judged("contract") => SkippedHolds /\ KnownEarly(eval_static_expr(anCase.cond, 1 :> IntVal(anCase.arg)))

(* A lambda captures every variable of the surroundings its body uses and
   nowhere declares, and no other. *)
CapturesAreFree ==
  Judged("capture") =>
    LET used == Free(Lam(anCase.params, anCase.body)) \cap anCase.around
    IN Found \subseteq used /\ used \ Found \subseteq Declared(anCase.body.ss)

(* The members of a class do not depend on the order of the declarations or of
   the merge, and a hierarchy is circular when its declarations are. *)
MembersInherited ==
  Judged("hierarchy") =>
    IF Cyclic THEN \E e \in Found.errs : e[1] = "circular"
    ELSE /\ \A e \in Found.errs : e[1] # "circular"
         /\ \A c \in Places, m \in {20, 31, 32, 33, 39, 25, 26} :
              LET have == Found.classes[c].fields @@ Found.classes[c].methods
              IN Origin(c, m) = IF m \in DOMAIN have THEN have[m] ELSE 0

(* Undefined are the free names of the body that nothing around it declares. *)
NamesBound ==
  Judged("names") =>
    /\ {e[2] : e \in {x \in Found.errs : x[1] = "undefined"}} =
         anCase.free \ ({11, 51, 52, 60} \cup IF anCase.field THEN {14} ELSE {})
    /\ (<<"private", 52>> \in Found.errs) = (52 \in anCase.free)

(* A name, of a variable or a member, means one declaration, whatever order the files
   and the classes come in. *)
NamesResolved == MembersInherited /\ NamesBound

(* What a function may do includes what the functions it reaches do. *)
EffectsCovered ==
  Judged("effects") => \A f \in 1..4 : anCase.who \in Called1(anCase.calls, {f}) => anCase.e \in Found[f]
=============================================================================
