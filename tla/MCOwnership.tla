---------------------------- MODULE MCOwnership ----------------------------
(***************************************************************************)
(* Instances of the ownership analyses and of the counters that stand      *)
(* behind them at run time.  A behaviour belongs to one of them, named by  *)
(* `part`; the variables of the others keep idle values.                   *)
(***************************************************************************)
EXTENDS BorrowCheck, MoveCheck, Lifetime, Arc

VARIABLE part

-----------------------------------------------------------------------------
(* borrow: a straight line, a diamond and a loop over one parameter x, with one
   statement per block. *)
Kinds == {"none", "fresh", "destroy", "consume", "use", "look", "edit", "mut_view", "setfield"}
LastKinds == Kinds \cup {"return", "pick", "view"}

(* Statement k as lowering emits it; its values are 10n+1 and 10n+2. *)
Stmt(k, n) ==
    LET v == 10 * n + 1
        w == 10 * n + 2
    IN  CASE k = "none" -> <<>>
          [] k = "fresh" -> <<Inst("const", v, <<>>, "0"), Inst("assign", 0, <<v>>, "x")>>
          [] k = "use" -> <<Inst("load", v, <<>>, "x"), Inst("use", w, <<v>>, "")>>
          [] k = "setfield" -> <<Inst("load", v, <<>>, "x"), Inst("setfield", 0, <<v>>, "f")>>
          [] k = "return" -> <<Inst("load", v, <<>>, "x")>>
          [] k = "pick" -> <<Inst("load", v, <<>>, "x"), Inst("pick", w, <<v>>, "")>>
          [] k = "view" -> <<Inst("load", v, <<>>, "x"), Inst("method", w, <<v>>, "view")>>
          [] OTHER -> <<Inst("load", v, <<>>, "x"), Inst("call", w, <<v>>, k)>>
Exit(k, n) == Return(IF k = "return" THEN 10 * n + 1 ELSE 0)

Cond(n) == Inst("const", 10 * n + 3, <<>>, "c")
Fork(n, a, b) == CondBranch(10 * n + 3, a, <<>>, b, <<>>)

MCFunctions ==
    LET bodies == {<<a, b, c>> : a \in Kinds, b \in Kinds, c \in LastKinds}
    IN  {<<Block(<<>>, Stmt(s[1], 1) \o Stmt(s[2], 2) \o Stmt(s[3], 3), Exit(s[3], 3))>> : s \in bodies}
        \cup {<<Block(<<>>, Append(Stmt(s[1], 1), Cond(1)), Fork(1, 2, 3)),
                Block(<<>>, Stmt(s[2], 2), Branch(4, <<>>)),
                Block(<<>>, <<>>, Branch(4, <<>>)),
                Block(<<>>, Stmt(s[3], 3), Exit(s[3], 3))>> : s \in bodies}
        \cup {<<Block(<<>>, Stmt(s[1], 1), Branch(2, <<>>)),
                Block(<<>>, <<Cond(2)>>, Fork(2, 3, 4)),
                Block(<<>>, Stmt(s[2], 3), Branch(2, <<>>)),
                Block(<<>>, Stmt(s[3], 4), Exit(s[3], 4))>> : s \in bodies}

(* A loop that takes a view of x in every turn and is left from its middle; past it
   one path consumes a new x, then x is used. *)
MCDiverge ==
    {<<Block(<<>>, <<>>, Branch(2, <<>>)),
       Block(<<>>, <<Cond(2)>>, Fork(2, 4, 3)),
       Block(<<>>, Stmt("view", 3), Branch(2, <<>>)),
       Block(<<>>, <<Cond(4)>>, Fork(4, 5, 6)),
       Block(<<>>, Stmt("fresh", 5) \o Stmt("consume", 7), Branch(6, <<>>)),
       Block(<<>>, Stmt("use", 6), Return(0))>>}

-----------------------------------------------------------------------------
(* move: lines, branches and loops over a local x, a view v of it and calls. *)
Use(k, x, n) == [k |-> k, x |-> x, at |-> n]
Lit == [k |-> "lit"]
NoElse == [s |-> "none"]
Do(e) == [s |-> "expr", e |-> e]
Let(x, mut, e) == [s |-> "let", x |-> x, mut |-> mut, e |-> e]
Blk(body) == [s |-> "block", body |-> body]
If(a, b) == [s |-> "if", e |-> Lit, then |-> a, else |-> b]
While(c, b) == [s |-> "while", e |-> c, body |-> b]
Fn(body) == Blk(<<Let("x", TRUE, Lit)>> \o body)

Menu(n) ==
    {Do(Use("id", "x", n)), Do(Use("destroy", "x", n)), Do(Use("consume", "x", n)),
     Do(Use("consume", "v", n)),
     Do([k |-> "call", args |-> <<Use("mut_view", "x", n), Use("view", "x", n + 1)>>]),
     [s |-> "assign", x |-> "x", e |-> Lit],
     Let("v", FALSE, Use("view", "x", n)), Let("v", TRUE, Use("mut_view", "x", n))}

(* Only the last arm of a match moves anything: what an earlier one moves counts as
   moved in those after it (ownership/mod.rs:917-925, see README.md). *)
Match(v, g, a, b) ==
    Do([k |-> "match", value |-> v,
        arms |-> <<[guard |-> g, body |-> a], [guard |-> Lit, body |-> b]>>])
ArmUse(n) == {Use("id", "x", n), Use("destroy", "x", n), Use("consume", "x", n)}
Reads(n) == {Lit, Use("id", "x", n)}

MCTrees ==
    {Fn(<<q, Match(v, g, a, b), c>>) :
            q \in Menu(1), v \in Reads(3), g \in Reads(4), a \in Reads(5), b \in {Lit} \cup ArmUse(6),
            c \in Menu(7)}
    \cup {Fn(<<While(Lit, Blk(<<Match(v, Lit, Lit, b), c>>)), q>>) :
            v \in Reads(3), b \in ArmUse(6), c \in Menu(7), q \in Menu(1)}
    \cup {Fn(<<a, b, c>>) : a \in Menu(1), b \in Menu(3), c \in Menu(5)}
    \cup {Fn(<<If(Blk(<<a>>), b), c>>) :
            a \in Menu(1), b \in {NoElse} \cup {Blk(<<q>>) : q \in Menu(3)}, c \in Menu(5)}
    \cup {Fn(<<a, While(k, Blk(<<b, c>>)), [s |-> "return", e |-> d]>>) :
            k \in {Lit, Use("id", "x", 20)}, a \in {Do(Lit)} \cup Menu(1), b \in Menu(3),
            c \in Menu(5), d \in {Lit, Use("id", "x", 7), Use("view", "x", 7)}}
    \cup {Fn(<<a, [s |-> "loop", body |-> Blk(<<b, If(Blk(<<c>>), NoElse)>>)]>>) :
            a \in Menu(1), b \in Menu(3), c \in Menu(5)}

-----------------------------------------------------------------------------
(* lifetime: an object created in one of several ways, two uses of it, and reads
   of the globals at the end. *)
New(v, c) == Inst("new", v, <<>>, c)
Assign(x, v) == Inst("assign", 0, <<v>>, x)
Load(v, x) == Inst("load", v, <<>>, x)

Creation(k, n) ==
    LET v == 10 * n + 1
        w == 10 * n + 2
    IN  CASE k = "A" -> <<New(v, "A"), Assign("a", v)>>
          [] k = "C" -> <<New(v, "C"), Assign("a", v)>>
          [] k = "nest" -> <<New(v, "A"), Inst("new", w, <<v>>, "A"), Assign("a", w)>>
          [] k = "mk" -> <<Inst("call", v, <<>>, "mk"), Assign("a", v)>>
          [] k = "global" -> <<New(v, "A"), Assign("g", v)>>
          [] k = "inC" -> <<New(v, "A"), Inst("new", w, <<v>>, "C"), Assign("a", w)>>
Usage(k, n) ==
    LET v == 10 * n + 1
        w == 10 * n + 2
    IN  CASE k = "none" -> <<>>
          [] k = "new" -> <<New(v, "A"), Assign("a", v)>>
          [] k = "newb" -> <<New(v, "C"), Assign("b", v)>>
          [] k = "copy" -> <<Load(v, "a"), Assign("b", v)>>
          [] k = "read" -> <<Load(v, "a"), Inst("getfield", w, <<v>>, "f")>>
          [] k = "readb" -> <<Load(v, "b"), Inst("getfield", w, <<v>>, "f")>>
          [] k = "view" -> <<Load(v, "a"), Inst("getfield", w, <<v>>, "f"), Assign("b", w)>>
          [] k = "method" -> <<Load(v, "a"), Inst("method", w, <<v>>, "m")>>
          [] k = "keep" -> <<Load(v, "a"), Inst("call", w, <<v>>, "keep")>>
          [] k = "global" -> <<Load(v, "a"), Assign("g", v)>>
          [] k = "link" -> <<Load(v, "a"), Load(w, "b"), Inst("setfield", 0, <<w, v>>, "f")>>
          [] k = "linkback" -> <<Load(v, "b"), Load(w, "a"), Inst("setfield", 0, <<w, v>>, "f")>>
          [] k = "destroy" -> <<Load(v, "a"), Inst("call", w, <<v>>, "destroy")>>
End(n) == <<Load(10*n+1, "g"), Inst("getfield", 10*n+2, <<10*n+1>>, "f"),
            Inst("getfield", 10*n+5, <<10*n+2>>, "f"),
            Load(10*n+3, "h"), Inst("getfield", 10*n+4, <<10*n+3>>, "f")>>

Creations == {"A", "C", "nest", "mk", "global", "inC"}
Usages == {"none", "new", "newb", "copy", "read", "readb", "view", "method", "keep", "global",
           "link", "linkback", "destroy"}
(* Rebinding under a condition has a run of its own, release_rebind. *)
Branching == Usages \ {"new"}

MkA == [ret |-> "A", blocks |-> <<Block(<<>>, <<New(1, "A"), Assign("t", 1), Load(2, "t")>>, Return(2))>>]
MkC == [ret |-> "C", blocks |-> <<Block(<<>>, <<New(1, "C"), Assign("p", 1), New(2, "C"), Assign("q", 2),
          Load(3, "p"), Load(4, "q"), Inst("setfield", 0, <<3, 4>>, "f"),
          Load(5, "q"), Load(6, "p"), Inst("setfield", 0, <<5, 6>>, "f"), Load(7, "p")>>, Return(7))>>]
MkN == [ret |-> "C", blocks |-> <<Block(<<>>, <<New(1, "A"), Inst("new", 2, <<1>>, "C"), Assign("t", 2),
          Load(3, "t")>>, Return(3))>>]
Main(blocks) == [ret |-> "Int", blocks |-> blocks]
Line(c, u1, u2) == <<Block(<<>>, Creation(c, 1) \o Usage(u1, 2) \o Usage(u2, 3) \o End(4), Return(0))>>
Diamond(c, u1, u2) ==
    <<Block(<<>>, Creation(c, 1), CondBranch(9, 2, <<>>, 3, <<>>)),
      Block(<<>>, Usage(u1, 2), Branch(3, <<>>)),
      Block(<<>>, Usage(u2, 3) \o End(4), Return(0))>>
Loop(c, u1, u2) ==
    <<Block(<<>>, Creation(c, 1), Branch(2, <<>>)),
      Block(<<>>, <<>>, CondBranch(9, 3, <<>>, 4, <<>>)),
      Block(<<>>, Usage(u1, 2) \o Usage(u2, 3), Branch(2, <<>>)),
      Block(<<>>, End(4), Return(0))>>

MCModules ==
    {[main |-> Main(b), mk |-> m] : m \in {MkA, MkC}, b \in
        {Line(c, u1, u2) : c \in Creations, u1 \in Usages, u2 \in Usages}
        \cup {Diamond(c, u1, u2) : c \in Creations, u1 \in Branching, u2 \in Usages}
        \cup {Loop(c, u1, u2) : c \in Creations, u1 \in Branching, u2 \in Branching}}
    \cup {[main |-> Main(Line("mk", u1, u2)), mk |-> MkN] : u1 \in Usages, u2 \in Usages}
MCRebind == {[main |-> Main(Diamond("A", "new", "read")), mk |-> MkA]}

-----------------------------------------------------------------------------
(* classes: all field graphs over three classes. *)
MCClasses == <<"P", "Q", "R">>

-----------------------------------------------------------------------------
BorrowIdle ==
    /\ func = <<>> /\ code = <<>> /\ phase = "idle" /\ blockIn = <<>> /\ blockOut = <<>> /\ dirty = {}
    /\ visits = <<>> /\ iters = 0 /\ errors = {} /\ at = <<0, 0>> /\ live = <<>>
MoveIdle == tree = NoElse /\ treeErrors = {} /\ treeChecked = FALSE
LifetimeIdle ==
    lfMod = <<>> /\ lfPhase = "idle" /\ lfStack = <<>> /\ lfHeap = <<>> /\ lfGlobals = <<>> /\ lfSteps = 0
ArcIdle ==
    /\ strong = 0 /\ weak = 0 /\ sref = <<>> /\ wref = <<>>
    /\ pc = [t \in Threads |-> "idle"] /\ prev = <<>> /\ frees = 1 /\ uaf = FALSE
TmmIdle == tmmLayer = <<>> /\ tmmFields = <<>> /\ tmmCyclic = {} /\ tmmReported = {} /\ tmmDone = FALSE

MCInit ==
    \/ part = "borrow" /\ BorrowInit /\ MoveIdle /\ LifetimeIdle /\ TmmIdle /\ ArcIdle
    \/ part = "move" /\ BorrowIdle /\ MoveInit /\ LifetimeIdle /\ TmmIdle /\ ArcIdle
    \/ part = "lifetime" /\ BorrowIdle /\ MoveIdle /\ LifetimeInit /\ TmmIdle /\ ArcIdle
    \/ part = "classes" /\ BorrowIdle /\ MoveIdle /\ LifetimeIdle /\ TmmInit /\ ArcIdle
    \/ part = "arc" /\ BorrowIdle /\ MoveIdle /\ LifetimeIdle /\ TmmIdle /\ Init

MCNext ==
    /\ UNCHANGED part
    /\ \/ part = "borrow" /\ BorrowNext /\ UNCHANGED <<mvVars, lfVars, tmmVars, vars>>
       \/ part = "move" /\ CheckTree /\ UNCHANGED <<bcVars, lfVars, tmmVars, vars>>
       \/ part = "lifetime" /\ LifetimeNext /\ UNCHANGED <<bcVars, mvVars, tmmVars, vars>>
       \/ part = "classes" /\ PlanClasses /\ UNCHANGED <<bcVars, mvVars, lfVars, vars>>
       \/ part = "arc" /\ Next /\ UNCHANGED <<bcVars, mvVars, lfVars, tmmVars>>

mcVars == <<part, bcVars, mvVars, lfVars, tmmVars, vars>>
MCSpec == MCInit /\ [][MCNext]_mcVars
RebindSpec ==
    /\ part = "lifetime" /\ BorrowIdle /\ MoveIdle /\ LifetimeInit /\ TmmIdle /\ ArcIdle
    /\ [][MCNext]_mcVars
DivergeSpec ==
    /\ part = "borrow" /\ BorrowInit /\ MoveIdle /\ LifetimeIdle /\ TmmIdle /\ ArcIdle
    /\ [][MCNext]_mcVars

(* Neither checker reports a use of a moved value that no execution makes: what the
   worklist reports is moved on every path to it, what the walk of the tree reports
   is moved on some path ("false positives are not" acceptable, mod.rs:415-416).  In
   this instance only the last arm of a match moves anything: a use in an arm behind one
   that moves is reported although no execution takes both (mod.rs:917-925). *)
NoFalseMoveErrors == MoveErrorIsDefinite /\ MoveErrorHasPath
=============================================================================
