----------------------------- MODULE MoveCheck -----------------------------
(***************************************************************************)
(* The ownership tracker on the syntax tree (src/src/ownership/mod.rs): it *)
(* walks a function once, statement by statement, and reports uses of      *)
(* moved values and conflicts between views.  An `if` joins its branches,  *)
(* the body of a `while` or `for` is walked twice.                         *)
(*                                                                         *)
(* Expressions are records with a kind k; an identifier carries the label  *)
(* `at` of its occurrence.  Statements are records with a kind s.          *)
(***************************************************************************)
EXTENDS Integers, Sequences, FiniteSets
LOCAL INSTANCE SequencesExt

CONSTANTS Trees,        \* function bodies to check
          TreeParams    \* names of the parameters

VARIABLES tree, treeErrors, treeChecked
mvVars == <<tree, treeErrors, treeChecked>>

-----------------------------------------------------------------------------
(* The tracker: states, active_borrows as records, the bindings with their
   scope, immutable_bindings, current_scope and the diagnostics. *)
NewTracker ==
    [states |-> [x \in TreeParams |-> "active"], borrows |-> {}, locals |-> {},
     immutable |-> {}, bound |-> {}, scope |-> 0, errs |-> {}]

SetState(t, x, s) ==
    [t EXCEPT !.states = [y \in DOMAIN @ \cup {x} |-> IF y = x THEN s ELSE @[y]]]
IsMoved(t, x) == x \in DOMAIN t.states /\ t.states[x] = "moved"
BorrowsOf(t, x) == {b \in t.borrows : b.source = x}
Err(t, code, x, at, read) ==
    [t EXCEPT !.errs = @ \cup {[code |-> code, x |-> x, at |-> at, read |-> read]}]

EnterScope(t) ==
    [t EXCEPT !.scope = @ + 1, !.bound = {b \in @ : b.scope # t.scope + 1}]

(* The borrows of the scope end; its bindings are forgotten, and with them
   everything that is known of their names. *)
ExitScope(t) ==
    LET names == {b.x : b \in {b \in t.bound : b.scope = t.scope}}
    IN  [t EXCEPT !.borrows = {b \in @ : b.scope < t.scope},
                  !.locals = @ \ names,
                  !.immutable = @ \ names,
                  !.states = [y \in DOMAIN @ \ names |-> @[y]],
                  !.bound = {b \in @ : b.scope # t.scope},
                  !.scope = @ - 1]

-----------------------------------------------------------------------------
(* Expressions *)

ReadVar(t, x, at) ==
    CASE IsMoved(t, x) -> Err(t, "UseAfterMove", x, at, TRUE)
      [] ~IsMoved(t, x) /\ \E b \in BorrowsOf(t, x) : b.mut -> Err(t, "Conflict", x, at, TRUE)
      [] OTHER -> t

(* destroy(x), and an argument passed by value to a parameter that owns a class
   object.  A view may be passed that way: it is not moved, and then read. *)
MoveVar(t, x, at, byCall) ==
    CASE IsMoved(t, x) -> Err(t, "UseAfterMove", x, at, FALSE)
      [] ~IsMoved(t, x) /\ BorrowsOf(t, x) # {} -> Err(t, "ActiveView", x, at, FALSE)
      [] ~IsMoved(t, x) /\ BorrowsOf(t, x) = {} /\ byCall /\ \E b \in t.borrows : b.borrower = x ->
            ReadVar(t, x, at)
      [] OTHER -> SetState(t, x, "moved")

(* view(x) and mut_view(x) among the arguments of one call. *)
AliasErrors(t, args) ==
    LET earlier(i, kind) == \E j \in 1..(i-1) : args[j].k = kind /\ args[j].x = args[i].x
        bad == {i \in DOMAIN args :
                  \/ args[i].k = "mut_view" /\ (earlier(i, "mut_view") \/ earlier(i, "view"))
                  \/ args[i].k = "view" /\ earlier(i, "mut_view")}
    IN  FoldLeft(LAMBDA acc, i :
                    IF i \notin bad THEN acc
                    ELSE Err(acc, IF args[i].k = "view" THEN "ActiveView" ELSE "MultipleMutableViews",
                             args[i].x, args[i].at, FALSE),
                 t, [i \in DOMAIN args |-> i])

(* All other expressions are walked part by part, and so are the arms of a match (of
   decide and select too), guard and body: an arm is walked with what the arms before
   it have done. *)
RECURSIVE CheckExpr(_, _)
CheckExpr(t, e) ==
    CASE e.k = "lit" -> t
      [] e.k \in {"id", "view", "mut_view"} -> ReadVar(t, e.x, e.at)
      [] e.k = "destroy" -> MoveVar(t, e.x, e.at, FALSE)
      [] e.k = "consume" -> MoveVar(t, e.x, e.at, TRUE)
      [] e.k = "call" -> FoldLeft(CheckExpr, AliasErrors(t, e.args), e.args)
      [] e.k = "match" ->
            FoldLeft(LAMBDA acc, arm : CheckExpr(CheckExpr(acc, arm.guard), arm.body),
                     CheckExpr(t, e.value), e.arms)

-----------------------------------------------------------------------------
(* Statements *)

RegisterBorrow(t, x, borrower, mut, at) ==
    CASE IsMoved(t, x) -> Err(t, "UseAfterMove", x, at, FALSE)
      [] ~IsMoved(t, x) /\ mut /\ BorrowsOf(t, x) # {} ->
            Err(t, "MultipleMutableViews", x, at, FALSE)
      [] ~IsMoved(t, x) /\ ~mut /\ (\E b \in BorrowsOf(t, x) : b.mut) ->
            Err(t, "ActiveView", x, at, FALSE)
      [] OTHER -> [t EXCEPT !.borrows = @ \cup
                     {[source |-> x, borrower |-> borrower, mut |-> mut, scope |-> t.scope]}]

HandleBinding(t, x, init, mut) ==
    LET clear == IF BorrowsOf(t, x) = {} THEN t
                 ELSE [Err(t, "ActiveView", x, 0, FALSE) EXCEPT !.borrows = @ \ BorrowsOf(t, x)]
        bound == [SetState(clear, x, "active") EXCEPT
                    !.locals = @ \cup {x},
                    !.bound = @ \cup {[x |-> x, scope |-> t.scope]},
                    !.immutable = IF mut THEN @ ELSE @ \cup {x}]
    IN  IF init.k \in {"view", "mut_view"}
        THEN RegisterBorrow(bound, init.x, x, init.k = "mut_view", init.at)
        ELSE bound

(* Variant: what was moved stays so when it is assigned. *)
AssignVar_StaysMoved(t, x, value) ==
    IF x \notin t.locals THEN HandleBinding(t, x, value, TRUE)
    ELSE [t EXCEPT !.borrows = @ \ BorrowsOf(t, x)]

(* Assignment to a local; to any other name it binds the name mutably. *)
AssignVar(t, x, value) ==
    IF x \notin t.locals THEN HandleBinding(t, x, value, TRUE)
    ELSE LET active == IF BorrowsOf(t, x) = {} THEN t ELSE Err(t, "ActiveView", x, 0, FALSE)
             const  == IF x \in t.immutable THEN Err(active, "Immutable", x, 0, FALSE) ELSE active
         IN  [SetState(const, x, "active") EXCEPT !.borrows = @ \ BorrowsOf(t, x)]

(* A view of a local variable may not be returned. *)
CheckReturn(t, e) ==
    LET x == IF e.k = "id" THEN e.x ELSE "none"
        escapes == \/ e.k = "view" /\ e.x \in t.locals
                   \/ \E b \in t.borrows : b.source \in t.locals /\ b.borrower = x
    IN  IF escapes THEN Err(t, "EscapingView", e.x, e.at, FALSE) ELSE t

(* After an if: moved is what both branches moved; without an else branch the
   states are those before it.  The borrows are those before it. *)
JoinBranches(before, thenT, elseT) ==
    LET after(t, x) == IF x \in DOMAIN t.states THEN t.states[x] ELSE before.states[x]
    IN  [before EXCEPT !.errs = thenT.errs \cup elseT.errs,
                       !.states = [x \in DOMAIN before.states |->
                          IF after(thenT, x) = "moved" /\ after(elseT, x) = "moved"
                          THEN "moved" ELSE "active"]]

(* Variant: the body of a loop is walked once. *)
LoopCarried_Once(t, first, second) == first

(* What the second walk of a loop body adds: reads of a moved value, unless the
   first walk has reported the same code for the same variable.  The state is
   that of the first walk. *)
LoopCarried(t, first, second) ==
    LET reported(d) == \E e \in first.errs \ t.errs : e.x = d.x /\ e.code = d.code
        carried == {d \in second.errs \ first.errs : d.code = "UseAfterMove" /\ d.read}
    IN  [first EXCEPT !.errs = @ \cup {d \in carried : ~reported(d)}]

RECURSIVE CheckStmt(_, _)
CheckStmt(t, s) ==
    CASE s.s = "block" -> ExitScope(FoldLeft(CheckStmt, EnterScope(t), s.body))
      [] s.s = "let" -> HandleBinding(CheckExpr(t, s.e), s.x, s.e, s.mut)
      [] s.s = "assign" -> AssignVar(CheckExpr(t, s.e), s.x, s.e)
      [] s.s = "expr" -> CheckExpr(t, s.e)
      [] s.s = "return" -> CheckReturn(CheckExpr(t, s.e), s.e)
      [] s.s = "break" -> t
      [] s.s = "if" ->
            LET before == CheckExpr(t, s.e)
                thenT  == CheckStmt(before, s.then)
            IN  IF s.else.s = "none" THEN [before EXCEPT !.errs = thenT.errs]
                ELSE JoinBranches(before, thenT, CheckStmt(before, s.else))
      [] s.s = "while" ->
            LET walk(u) == CheckStmt(CheckExpr(u, s.e), s.body)
                first == walk(t)
            IN  LoopCarried(t, first, walk(first))
      [] s.s = "loop" -> CheckStmt(t, s.body)

-----------------------------------------------------------------------------
(* What the program does: its paths, as sequences of reads, moves and
   initialisations; a loop runs at most twice. *)

Joined(left, right) == {p \o q : p \in left, q \in right}

(* One arm of a match is taken, after the guards up to its own, or none is. *)
RECURSIVE ExprEvents(_)
ExprEvents(e) ==
    CASE e.k = "lit" -> {<<>>}
      [] e.k \in {"id", "view", "mut_view"} -> {<<<<"read", e.x, e.at>>>>}
      [] e.k \in {"destroy", "consume"} -> {<<<<"move", e.x, e.at>>>>}
      [] e.k = "call" -> {FlattenSeq(p) : p \in
                            {p \in [DOMAIN e.args -> UNION {ExprEvents(a) : a \in ToSet(e.args)}] :
                               \A i \in DOMAIN e.args : p[i] \in ExprEvents(e.args[i])}}
      [] e.k = "match" ->
            LET guards(n) == FoldLeft(LAMBDA acc, arm : Joined(acc, ExprEvents(arm.guard)),
                                      ExprEvents(e.value), SubSeq(e.arms, 1, n))
            IN  UNION {Joined(guards(n), ExprEvents(e.arms[n].body)) : n \in DOMAIN e.arms}
                \cup guards(Len(e.arms))

Then(paths, more) ==
    {p \in paths : p.exit # "next"}
      \cup {[ev |-> p.ev \o q.ev, exit |-> q.exit] : p \in {p \in paths : p.exit = "next"}, q \in more}
Paths(events) == {[ev |-> ev, exit |-> "next"] : ev \in events}
Stop(paths, exit) == {[p EXCEPT !.exit = exit] : p \in paths}
LeaveLoop(paths) == {IF p.exit = "break" THEN [p EXCEPT !.exit = "next"] ELSE p : p \in paths}

RECURSIVE StmtPaths(_)
StmtPaths(s) ==
    CASE s.s = "block" -> FoldLeft(LAMBDA acc, q : Then(acc, StmtPaths(q)), Paths({<<>>}), s.body)
      [] s.s \in {"let", "assign"} ->
            Then(Paths(ExprEvents(s.e)), Paths({<<<<"init", s.x, 0>>>>}))
      [] s.s = "expr" -> Paths(ExprEvents(s.e))
      [] s.s = "return" -> Stop(Paths(ExprEvents(s.e)), "return")
      [] s.s = "break" -> Stop(Paths({<<>>}), "break")
      [] s.s = "if" ->
            Then(Paths(ExprEvents(s.e)),
                 StmtPaths(s.then) \cup (IF s.else.s = "none" THEN Paths({<<>>}) ELSE StmtPaths(s.else)))
      [] s.s = "while" ->
            LET test == Paths(ExprEvents(s.e))
                once == Then(test, StmtPaths(s.body))
                none == Then(test, Paths({<<<<"skip", "none", 0>>>>}))
            IN  LeaveLoop(none \cup Then(once, test) \cup Then(once, Then(once, test)))
      [] s.s = "loop" ->
            LET once == StmtPaths(s.body) IN LeaveLoop(once \cup Then(once, once))

MovedAt(ev, i) ==
    \E j \in 1..(i-1) : /\ ev[j][1] = "move" /\ ev[j][2] = ev[i][2]
                        /\ \A k \in j..(i-1) : ev[k][1] = "init" => ev[k][2] # ev[i][2]

-----------------------------------------------------------------------------
MoveInit == tree \in Trees /\ treeErrors = {} /\ treeChecked = FALSE

CheckTree ==
    /\ ~treeChecked
    /\ treeErrors' = CheckStmt(NewTracker, tree).errs
    /\ treeChecked' = TRUE
    /\ UNCHANGED tree

MoveSpec == MoveInit /\ [][CheckTree]_mvVars

(* "False negatives are acceptable; false positives are not" (mod.rs:415-416): every
   reported use or move of a moved value happens on some path of the function.  It is
   not so where one arm of a match follows another that moves what it uses: the arms
   are checked one after the other on one state (:917-925). *)
MoveErrorHasPath ==
    \A e \in treeErrors : e.code = "UseAfterMove" =>
        \E p \in StmtPaths(tree) : \E i \in DOMAIN p.ev :
            p.ev[i][1] \in {"read", "move"} /\ p.ev[i][3] = e.at /\ MovedAt(p.ev, i)

RECURSIVE HasKind(_, _)
HasKind(s, kinds) ==
    \/ s.s \in kinds
    \/ s.s = "block" /\ \E q \in ToSet(s.body) : HasKind(q, kinds)
    \/ s.s \in {"while", "loop"} /\ HasKind(s.body, kinds)

(* The two walks are enough for the loops that check_loop_body_twice is for: in a
   function without branches that was accepted, no path that enters its loops
   reads a moved value, from one iteration to the next either. *)
MovedReadsCaught ==
    treeChecked /\ treeErrors = {} /\ ~HasKind(tree, {"if", "loop", "break"}) =>
        \A p \in StmtPaths(tree) :
            (\A i \in DOMAIN p.ev : p.ev[i][1] # "skip")
               => \A i \in DOMAIN p.ev : p.ev[i][1] = "read" => ~MovedAt(p.ev, i)
=============================================================================
