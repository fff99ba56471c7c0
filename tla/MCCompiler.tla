----------------------------- MODULE MCCompiler -----------------------------
(***************************************************************************)
(* Programs for the compiler.  The lowering takes source programs          *)
(* (variables: 1 x, 2 y, 3 i, 4 s, 5 b, 6 f; functions: 0 main, 1 noisy,   *)
(* which prints its argument, 2 half, which returns an Outcome, 3 one of   *)
(* the program's own).  The optimizer takes the lowered programs, and      *)
(* programs of the shapes its passes look for (variables: 1 x, 2 y, 3 z,   *)
(* 4 i, 5 s; functions: 1 a callee, 2 one that writes the module's         *)
(* variable 9, 4 one whose name has a pure prefix).                        *)
(***************************************************************************)
EXTENDS Lowering, Optimizer

CONSTANTS
  SrcInputs,    \* what the external function delivers to a source program
  SrcFuel,      \* turns of a loop in the meaning of a source program
  MaxBlocks     \* the optimizer takes a lowered program when no function of it has more blocks
Source == INSTANCE SourceMeaning

VARIABLES lowSource, lowCode, lowStage   \* a program, its DMIR; "source", "lowered", "handed on" or "none"
lowVars == <<lowSource, lowCode, lowStage>>
vars == <<lowSource, lowCode, lowStage, optSource, optMod, optPhase, optFns, optRound, optBefore, optStatus>>

MCRead == 50
Callee == 1
Impure == 2
Pure == 4
MCPure == {Pure}
MCGlobals == {9}
MCInputs == {<<5, 2>>, <<0, 0>>, <<-3, 3>>}
MCWide == {<<-128, 1>>, <<127, 2>>, <<-128, -1>>}
MCSrcInputs == {<<5, 2>>, <<0, 3>>, <<4, -1>>}

-----------------------------------------------------------------------------
(* Source programs *)

I(n) == [k |-> "int", n |-> n]
V(n) == [k |-> "var", n |-> n]
B(op, l, r) == [k |-> "bin", op |-> op, l |-> l, r |-> r]
L(op, l, r) == [k |-> "logic", op |-> op, l |-> l, r |-> r]
C(n, args) == [k |-> "call", n |-> n, args |-> args]
Wrap(e) == [k |-> "wrapping", e |-> e]
BX(ss, tail) == [k |-> "blockexpr", ss |-> ss, tail |-> tail]
Lits(args) == [k |-> "list", args |-> args]
Oc(ok, v) == [k |-> "outcome", args |-> <<ok, v>>]
Try(e) == [k |-> "try", e |-> e]
Or(e, other) == [k |-> "or", e |-> e, other |-> other]
Lam(params, body) == [k |-> "fn", params |-> params, body |-> body]
Method(m, e, f, init) == [k |-> "method", m |-> m, e |-> e, f |-> f, init |-> init]
Match(e, arms) == [k |-> "match", e |-> e, arms |-> arms]
ArmOf(pat, guard, body) == [pat |-> pat, guard |-> guard, body |-> body]
Lit(n) == [k |-> "lit", n |-> n]
As(n) == [k |-> "bind", n |-> n]
AnyPat == [k |-> "any"]
Decide(arms, els) == [k |-> "decide", arms |-> arms, els |-> els]
When(cond, body) == [cond |-> cond, body |-> body]
Pipe(e, stages) == [k |-> "pipe", e |-> e, stages |-> stages]

Do(e) == [k |-> "do", e |-> e]
Print1(e) == [k |-> "out", e |-> e]
Let1(n, e) == [k |-> "let", n |-> n, e |-> e]
Seqs(ss) == [k |-> "block", ss |-> ss]
If1(e, then, els) == [k |-> "if", e |-> e, then |-> Seqs(then), els |-> Seqs(els)]
While1(e, body) == [k |-> "while", e |-> e, body |-> Seqs(body)]
Loop1(body) == [k |-> "loop", body |-> Seqs(body)]
For1(n, a, b, body) == [k |-> "for", n |-> n, a |-> a, b |-> b, body |-> Seqs(body)]
Each1(n, e, body) == [k |-> "each", n |-> n, e |-> e, body |-> Seqs(body)]
Break1 == [k |-> "break"]
Next1 == [k |-> "continue"]
Ret(e) == [k |-> "return", e |-> e]
LetLam(n, params, free, body) == [k |-> "lambda", n |-> n, params |-> params, free |-> free, body |-> body]

vx == V(1)
vy == V(2)
vi == V(3)
vs == V(4)
Noisy == 1
Half == 2
User == 3
ReadXY == <<Let1(1, C(MCRead, <<>>)), Let1(2, C(MCRead, <<>>))>>
Func(params, ss) == [params |-> params, body |-> Seqs(ss)]
NoisyFn == Func(<<11>>, <<Print1(V(11)), Ret(V(11))>>)
HalfFn == Func(<<11>>, <<If1(B("==", B("%", V(11), I(2)), I(0)), <<Ret(Oc(I(1), B("/", V(11), I(2))))>>, <<Ret(Oc(I(0), I(9)))>>)>>)
Program(user, main) == (Main :> Func(<<>>, ReadXY \o main)) @@ (Noisy :> NoisyFn) @@ (Half :> HalfFn) @@ (User :> user)
OnlyMain(main) == Program(Func(<<>>, <<>>), main)
Add(n, e) == Let1(n, B("+", V(n), e))
Say(e) == C(Noisy, <<e>>)

\* a loop that leaves, skips or returns under a condition with effects, and code after it
Leaves == {<<Break1>>, <<Next1>>, <<Ret(vs)>>, <<Add(4, I(10))>>, <<Print1(vi), Break1>>}
Tests == {B("<", I(2), vs), L("&&", B("==", vs, I(1)), B("<", Say(vx), I(5))), L("||", B("<", vx, I(1)), B("==", Say(vi), I(1)))}
InLoop(kind, body) ==
  CASE kind = "while" -> While1(L("&&", B("<", vi, I(3)), L("||", B("<", I(0), Say(vy)), B("==", vi, I(0)))), <<Add(3, I(1))>> \o body)
    [] kind = "loop" -> Loop1(<<If1(B("<", I(2), vi), <<Break1>>, <<>>), Add(3, I(1))>> \o body)
    [] kind = "for" -> For1(3, I(0), B("-", vx, I(1)), body)
    [] kind = "each" -> Each1(3, Lits(<<vx, I(1), vy>>), body)
SourceLoops ==
  \E outer, inner \in {"while", "loop", "for", "each", "none"}, t \in Tests, leave \in Leaves, early \in BOOLEAN :
    /\ outer # "none"
    /\ LET step == (IF early THEN <<Add(4, I(1))>> ELSE <<>>) \o <<If1(t, leave, <<Print1(vs)>>)>> \o (IF early THEN <<>> ELSE <<Add(4, I(1))>>)
           body == IF inner = "none" THEN step
                   ELSE <<For1(5, I(0), I(2), <<If1(B("==", V(5), I(1)), leave, <<Print1(V(5))>>)>>)>> \o step
       IN lowSource = OnlyMain((IF outer \in {"while", "loop"} THEN <<Let1(3, I(0))>> ELSE <<>>)
                               \o <<Let1(4, I(0)), InLoop(outer, body), Print1(vs), Ret(vs)>>)

\* a lambda with an early return and a capture, called directly and by a list method
Bodies1 == {B("+", V(21), vs), BX(<<If1(B("<", V(21), I(2)), <<Ret(I(7))>>, <<>>)>>, <<B("-", V(21), vs)>>),
            BX(<<If1(B("<", V(21), I(2)), <<Ret(vs)>>, <<Let1(4, I(6)), Ret(Say(vs))>>)>>, <<>>),
            BX(<<Let1(25, V(21)), While1(B("<", V(25), I(3)), <<Let1(25, B("+", V(25), I(1))), If1(B("==", V(25), I(2)), <<Ret(V(25))>>, <<>>)>>)>>, <<vs>>)}
Lambdas ==
  \E body \in Bodies1, m \in {"map", "filter", "find", "any", "all"}, write \in BOOLEAN, named \in BOOLEAN :
    lowSource = OnlyMain(
      <<Let1(4, vx), LetLam(6, <<21>>, <<4>>, body)>> \o (IF write THEN <<Let1(4, I(1))>> ELSE <<>>)
      \o <<Print1(C(6, <<vy>>)), Print1(B("+", C(6, <<I(1)>>), vs)),
           Let1(5, Method(m, Lits(<<vx, I(2), vy>>), IF named THEN V(6) ELSE Lam(<<22>>, B("<", V(22), vx)), 0)),
           Print1(vs), Print1(V(5))>>)
Folds1 ==
  \E op \in {"+", "-", "*"}, m \in {"map", "filter"}, wrap \in BOOLEAN :
    lowSource = OnlyMain(
      <<Let1(5, Method("fold", Method(m, Lits(<<vx, vy, I(3), I(5)>>), Lam(<<22>>, B("-", V(22), vy)), 0),
                       Lam(<<23, 24>>, IF wrap THEN Wrap(B(op, V(23), V(24))) ELSE B(op, V(23), V(24))), B("*", vx, I(20)))),
        Print1(V(5)), Print1(B(op, V(5), I(100))), Print1(Pipe(V(5), <<[n |-> Noisy, args |-> <<>>], [n |-> Noisy, args |-> <<>>]>>))>>)

\* arms with blocks and effects; without a block the arms have no effects
Arms1(blk, g) ==
  LET out(e) == IF blk THEN BX(<<Print1(e), Add(4, I(1))>>, <<e>>) ELSE B("+", e, I(1))
  IN <<ArmOf(Lit(0), <<>>, out(I(10))), ArmOf(As(5), IF g THEN <<B("<", V(5), vy)>> ELSE <<B("<", I(4), V(5))>>, out(V(5))),
       ArmOf(Lit(4), IF g THEN <<B("<", vy, I(0))>> ELSE <<>>, out(vy))>>
Matches ==
  \E blk, g, wild, inLoop \in BOOLEAN, how \in {"match", "decide"}, leave \in {"no", "return", "break"} :
    LET last == IF wild THEN <<ArmOf(AnyPat, <<>>, IF blk THEN BX(IF leave = "return" THEN <<Ret(vs)>> ELSE <<Print1(vs)>>, <<vs>>) ELSE vs)>> ELSE <<>>
        pick == IF how = "match" THEN Match(vx, Arms1(blk, g) \o last)
                ELSE Decide(<<When(L("&&", B("<", vx, I(3)), B("<", vy, vx)), vy), When(IF g THEN B("<", vy, I(3)) ELSE B("==", vx, vy), BX(<<Print1(vx)>>, <<vs>>))>>,
                            IF wild THEN <<IF blk THEN BX(<<Print1(I(33))>>, <<I(3)>>) ELSE B("+", vx, vy)>> ELSE <<>>)
        code == <<Let1(5, I(0)), Let1(5, pick), Print1(V(5)), Print1(vs)>>
    IN /\ leave = "break" => inLoop
       /\ lowSource = OnlyMain(<<Let1(4, I(0))>> \o (IF inLoop THEN <<For1(3, I(0), I(2), code \o (IF leave = "break" THEN <<Break1>> ELSE <<>>))>> ELSE code)
                               \o <<Ret(vs)>>)

\* an Outcome taken apart by ?, by or, and returned
Outcomes ==
  \E direct, inLoop, nested \in BOOLEAN, k \in {0, 1, 2} :
    LET half(e) == C(Half, <<e>>)
        body == <<Let1(12, Try(half(V(11)))), Print1(V(12))>>
        all  == IF nested THEN body \o <<Let1(12, B("+", V(12), Or(half(V(12)), Say(I(k)))))>> ELSE body
    IN lowSource = Program(
         Func(<<11>>, (IF inLoop THEN <<For1(13, I(0), I(2), all)>> ELSE all)
                    \o <<Ret(IF direct THEN Try(half(B("+", V(12), I(k)))) ELSE Oc(I(1), V(12)))>>),
         <<Print1(Or(C(User, <<vx>>), Say(I(40)))), Print1(Or(C(User, <<vy>>), I(41))), Ret(Or(half(vx), vy))>>)

-----------------------------------------------------------------------------
(* Programs in DMIR, as the lowering writes them: every variable is loaded and
   assigned by name. *)

Call(d, g, args) == Inst("call", d, args, g)
Out(v) == Inst("out", 0, <<v>>, 0)
Fn(params, blocks) == [params |-> params, blocks |-> blocks]
MainOnly(blocks) == (Main :> Fn(<<>>, blocks))

\* x and y are read; z is computed by one of two arms
Reads == <<Call(1, MCRead, <<>>), Assign(1, 1), Call(2, MCRead, <<>>), Assign(2, 2)>>
ArmCode(base, op, a, b) == <<Load(base, a), Load(base + 1, b), Bin(base + 2, op, base, base + 1), Assign(3, base + 2)>>
ArmsOf(op1, op2, a, dead, last, k) ==
    MainOnly(<<
      Block(<<>>, Reads \o <<Load(3, 1), Const(4, 0), Bin(5, IF a = 1 THEN "<" ELSE "==", 3, 4)>> \o (IF dead THEN <<Bin(25, "/", 3, 2)>> ELSE <<>>),
            CondBranch(5, 2, <<>>, 3, <<>>)),
      Block(<<>>, ArmCode(6, op1, a, 2), Branch(4, <<>>)),
      Block(<<>>, ArmCode(10, op2, 2, a), Branch(4, <<>>)),
      Block(<<>>, <<Load(14, 3), Load(15, 1), Bin(16, op1, 15, 2), Const(17, k), Bin(18, last, 14, 17), Out(18), Out(16)>>, Return(0))>>)
Diamonds ==
  \E op1 \in {"-", "/", "%", "&"}, op2 \in {"-", "/"}, a \in {1, 2}, dead \in BOOLEAN, last \in {"%", "+", "*"}, k \in {0, 1, 2} :
    optSource = ArmsOf(op1, op2, a, dead, last, k)

\* s := sum of a term over i < x, the term invariant or not, under a condition or not
LoopBodyCode(op, who) == <<Load(10, who), Load(11, 2), Bin(12, op, 10, 11), Load(13, 5), Bin(14, "+", 13, 12), Assign(5, 14)>>
Loops ==
  \E op \in {"-", "*", "/", "&"}, who \in {1, 4}, test \in {"<", "!="}, guarded \in BOOLEAN, shadow \in BOOLEAN :
    optSource = MainOnly(<<
      Block(<<>>, Reads \o <<Const(3, 0), Assign(4, 3), Assign(5, 3), Load(28, 1), Load(29, 2), Bin(30, "*", 28, 29), Assign(3, 30)>>,
            Branch(2, <<>>)),
      Block(<<>>, <<Load(4, 4), Load(5, 1), Bin(6, "<", 4, 5)>>, CondBranch(6, 3, <<>>, 7, <<>>)),
      Block(<<>>, <<Load(7, 4), Const(8, 2), Bin(9, test, 7, 8)>>, CondBranch(9, 4, <<>>, IF guarded THEN 6 ELSE 5, <<>>)),
      Block(<<>>, LoopBodyCode(op, who), Branch(6, <<>>)),
      Block(<<>>, <<Load(20, 5), Load(21, 3), Bin(22, "-", 20, 21), Assign(5, 22)>>, Branch(6, <<>>)),
      Block(<<>>, (IF shadow THEN <<Load(26, 3), Const(27, 1), Bin(31, "-", 26, 27), Assign(3, 31)>> ELSE <<>>)
                  \o <<Load(15, 4), Const(16, 1), Bin(17, "+", 15, 16), Assign(4, 17)>>, Branch(2, <<>>)),
      Block(<<>>, <<Load(18, 5), Out(18), Load(19, 3), Out(19)>>, Return(18))>>)

\* a small callee: it may assign its parameter and a local of the caller's name; called twice
Calls ==
  \E op1 \in {"+", "-", "*"}, op2 \in {"+", "-"}, keep \in BOOLEAN, twice \in BOOLEAN, inLoop \in BOOLEAN :
    optSource =
      (Main :> Fn(<<>>, <<
        Block(<<>>, Reads \o <<Const(3, 0), Assign(3, 3), Assign(4, 3)>>, Branch(2, <<>>)),
        Block(<<>>, <<Load(4, 1), Load(5, 2), Call(6, Callee, <<4, 5>>), Call(7, Callee, IF twice THEN <<6, 4>> ELSE <<4, 5>>),
                      Bin(8, op2, 6, 7), Load(9, 3), Out(9), Assign(3, 8), Load(10, 4), Const(11, 1), Bin(12, "+", 10, 11),
                      Assign(4, 12), Const(13, 2), Bin(14, "<", 12, 13)>>,
              CondBranch(14, IF inLoop THEN 2 ELSE 3, <<>>, 3, <<>>)),
        Block(<<>>, <<Load(15, 3), Out(15)>>, Return(15))>>))
      @@ (Callee :> Fn(<<[n |-> 1, v |-> 40], [n |-> 6, v |-> 41]>>, <<
        Block(<<>>, <<Load(42, 1), Load(43, 6), Bin(44, op1, 42, 43), Assign(IF keep THEN 3 ELSE 1, 44),
                      Load(45, 1), Load(46, IF keep THEN 3 ELSE 1), Bin(47, "-", 45, 46)>>, Return(47))>>))

\* f(n, q): a test n <= K or n < K, a base case, and one or two calls to itself
Recursions ==
  \E cmp \in {"<=", "<"}, k \in {1, 2}, constBase \in BOOLEAN, ks \in {<<1, 1>>, <<1, 2>>, <<2, 1>>, <<2, 2>>} :
    optSource =
      (Main :> Fn(<<>>, <<Block(<<>>, Reads \o <<Load(3, 1), Call(4, Callee, <<3, 2>>), Out(4), Call(5, Callee, <<2, 3>>), Out(5)>>, Return(5))>>))
      @@ (Callee :> Fn(<<[n |-> 7, v |-> 40], [n |-> 8, v |-> 41]>>, <<
        Block(<<>>, <<Load(42, 7), Const(43, k), Bin(44, cmp, 42, 43)>>, CondBranch(44, 2, <<>>, 3, <<>>)),
        Block(<<>>, IF constBase THEN <<Const(45, 3)>> ELSE <<Load(45, 7)>>, Return(45)),
        Block(<<>>, <<Load(46, 7), Const(47, ks[1]), Bin(48, "-", 46, 47), Load(49, 8), Call(50, Callee, <<48, 49>>),
                      Const(51, ks[2]), Bin(52, "-", 46, 51), Call(53, Callee, <<52, 49>>),
                      Bin(54, "+", IF constBase THEN 53 ELSE 50, IF constBase THEN 50 ELSE 53)>>, Return(54))>>))
TailCalls ==
  \E op \in {"+", "-"}, swap \in BOOLEAN, copy \in BOOLEAN, tail \in BOOLEAN, out \in BOOLEAN :
    optSource =
      (Main :> Fn(<<>>, <<Block(<<>>, Reads \o <<Load(3, 1), Call(4, Callee, <<3, 2>>), Out(4)>>, Return(4))>>))
      @@ (Callee :> Fn(<<[n |-> 7, v |-> 40], [n |-> 8, v |-> 41]>>, <<
        Block(<<>>, <<Load(42, 7), Const(43, 0), Bin(44, "<=", 42, 43)>> \o (IF out THEN <<Out(42)>> ELSE <<>>),
              CondBranch(44, 2, <<>>, 3, <<>>)),
        Block(<<>>, <<Load(45, 8)>>, Return(45)),
        Block(<<>>, <<Load(46, 7), Const(47, 1), Bin(48, "-", 46, 47), Load(49, 8), Bin(50, op, 49, 46), Assign(IF swap THEN 7 ELSE 3, 50),
                      Call(51, Callee, <<48, 50>>), Assign(3, 51), Load(52, 3), Inst("copy", 53, <<51>>, 0)>>
                    \o (IF tail THEN <<>> ELSE <<Bin(54, "+", 51, 46)>>),
              Return(IF tail THEN (IF copy THEN 53 ELSE 51) ELSE 54))>>))

\* calls that are pure and share a name, and choices
PureCalls ==
  \E two \in BOOLEAN, used \in BOOLEAN :
    optSource =
      (Main :> Fn(<<>>, <<
        Block(<<>>, Reads \o <<Load(3, 1), Call(4, Pure, <<3>>), Load(5, 1), Call(6, Pure, IF two THEN <<3>> ELSE <<2>>), Out(6)>>
                    \o (IF used THEN <<Bin(7, "+", 4, 6), Out(7)>> ELSE <<>>), Return(6))>>))
      @@ (Pure :> Fn(<<[n |-> 7, v |-> 40]>>, <<
        Block(<<>>, <<Load(41, 7), Const(42, 1), Bin(43, "<", 41, 42)>>, CondBranch(43, 2, <<>>, 3, <<>>)),
        Block(<<>>, <<Load(44, 7)>>, Return(44)), Block(<<>>, <<Const(45, 9)>>, Return(45))>>))

\* the module's variable, written by a function of several blocks and by main
GlobalUses ==
  \E after \in BOOLEAN :
    optSource =
      (Main :> Fn(<<>>, <<
        Block(<<>>, Reads \o <<Load(3, 1), Assign(9, 3), Call(4, Impure, <<>>), Load(5, 9), Out(5)>>
                    \o (IF after THEN <<Assign(9, 2)>> ELSE <<>>), Return(5))>>))
      @@ (Impure :> Fn(<<>>, <<
        Block(<<>>, <<Load(41, 9), Const(42, 1), Bin(43, "<", 41, 42)>>, CondBranch(43, 2, <<>>, 3, <<>>)),
        Block(<<>>, <<Const(44, 7), Assign(9, 44)>>, Return(0)), Block(<<>>, <<>>, Return(0))>>))

-----------------------------------------------------------------------------
NoModule == MainOnly(<<Block(<<>>, <<>>, Return(0))>>)

StartLowering ==
  /\ SourceLoops \/ Lambdas \/ Folds1 \/ Matches \/ Outcomes
  /\ lowStage = "source" /\ lowCode = <<>>
  /\ optSource = NoModule /\ optPhase = "done"
StartOptimizer ==
  /\ Diamonds \/ Loops \/ Calls \/ Recursions \/ TailCalls \/ PureCalls \/ GlobalUses
  /\ lowStage = "none" /\ lowSource = <<>> /\ lowCode = <<>>
  /\ optPhase = "inline"
MCInit ==
  /\ StartLowering \/ StartOptimizer
  /\ optMod = optSource /\ optFns = <<>>
  /\ optRound = [mod |-> 1, fn |-> 1]
  /\ optBefore = [mod |-> optSource, fn |-> optSource[Main]]
  /\ optStatus = "ok"

(* The lowering, and the optimizer on what it wrote. *)
Lower1 ==
  /\ lowStage = "source"
  /\ lowStage' = "lowered" /\ lowCode' = lower_program(lowSource)
  /\ UNCHANGED <<lowSource, optSource, optMod, optPhase, optFns, optRound, optBefore, optStatus>>
HandOn ==
  /\ lowStage = "lowered"
  /\ \A g \in DOMAIN lowCode : Cardinality(DOMAIN lowCode[g].blocks) <= MaxBlocks
  /\ lowStage' = "handed on"
  /\ optSource' = lowCode /\ optMod' = lowCode /\ optPhase' = "inline"
  /\ optBefore' = [mod |-> lowCode, fn |-> lowCode[Main]]
  /\ UNCHANGED <<lowSource, lowCode, optFns, optRound, optStatus>>
MCNext == Lower1 \/ HandOn \/ (optNext /\ UNCHANGED lowVars)
MCSpec == MCInit /\ [][MCNext]_vars

Does(want, in) == want.st # "fuel" => Outcome(lowCode, in, Fuel) = want

(* The lowered program does what the source means: the same output in the same
   order, the same result, the same faults. *)
MeaningKept ==
  lowStage = "lowered" => \A in \in SrcInputs : Does(Source!Meaning(lowSource, in, SrcFuel), in)

(* The verifier accepts what the lowering wrote: no value is used where its
   definition does not reach. *)
LoweredVerifies == lowStage = "lowered" => \A g \in DOMAIN lowCode : Verified(lowCode[g])

(***************************************************************************)
(* Programs outside the families above on which the passes go wrong.       *)
(***************************************************************************)
\* a function of one block that reads or writes the module's variable
InlinedGlobals ==
  {(Main :> Fn(<<>>, <<
      Block(<<>>, <<Const(1, 5), Assign(9, 1), Call(2, Callee, <<>>), Out(2), Load(3, 9), Out(3)>>, Return(3))>>))
   @@ (Callee :> Fn(<<>>, <<Block(<<>>, <<Load(41, 9), Const(42, 1), Bin(43, "+", 41, 42), Assign(9, 43)>>, Return(43))>>))}

NotLowered == lowStage = "none" /\ lowSource = <<>> /\ lowCode = <<>>
OptimizerSteps == [][optNext /\ UNCHANGED lowVars]_vars
InlineSpec == optInit(InlinedGlobals) /\ NotLowered /\ OptimizerSteps
=============================================================================
