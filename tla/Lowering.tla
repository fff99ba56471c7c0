------------------------------ MODULE Lowering ------------------------------
(***************************************************************************)
(* The lowering of the syntax tree to DMIR (src/src/dmir/lowering/).       *)
(*                                                                         *)
(* A node is a record with its kind in k.  Variables are numbers; a        *)
(* temporary of the lowering is Temp(kind, number).  The lowering state is *)
(*   blocks   the blocks made so far       nv     the last value id        *)
(*   sym      symbol_values: the value a name was last bound to            *)
(*   loops    loop_stack: [next, exit]     lams   local_lambdas            *)
(*   caps     lambda_captures              frames inline_ret_frames        *)
(*   rets     inline_ret_counter           mode   "checked" or "wrapping"  *)
(* Every operator returns [st, cur, v]: the state, the block that goes on  *)
(* and the value (0 when there is none); Then hands the three to what      *)
(* comes next.                                                             *)
(***************************************************************************)
EXTENDS OptIr, TLC

Unreachable == [kind |-> "unreachable", uses |-> <<>>, to |-> <<>>, args |-> <<>>]
Temp(kind, n) == 1000 * kind + n

\* the builders of the state
create_block(st) == [st EXCEPT !.blocks = Append(@, Block(<<>>, <<>>, Unreachable))]
LastBlock(st) == Len(st.blocks)
NewBlocks(st, n) == [st EXCEPT !.blocks = @ \o [i \in 1..n |-> Block(<<>>, <<>>, Unreachable)]]
Push(st, b, inst) == [st EXCEPT !.blocks[b].insts = Append(@, inst)]
Emit(st, b, op, args, name) == [Push(st, b, Inst(op, st.nv + 1, args, name)) EXCEPT !.nv = @ + 1]
Store(st, b, n, v) == Push(st, b, Inst("assign", 0, <<v>>, n))
Bind(st, b, n, v) == [Store(st, b, n, v) EXCEPT !.sym = Set(@, n, v)]
End(st, b, term) == [st EXCEPT !.blocks[b].term = term]
Goto(st, b, to) == End(st, b, Branch(to, <<>>))
Split(st, b, cond, yes, no) == End(st, b, CondBranch(cond, yes, <<>>, no, <<>>))
Done(st, cur, v) == [st |-> st, cur |-> cur, v |-> v]
Value(st, cur) == Done(st, cur, st.nv)
Then(r, next(_, _, _)) == next(r.st, r.cur, r.v)

\* instructions, and several of them written at once, their values numbered on from st.nv
Const(d, c) == Inst("const", d, <<>>, c)
Load(d, n) == Inst("load", d, <<>>, n)
Assign(n, v) == Inst("assign", 0, <<v>>, n)
Bin(d, op, l, r) == Inst("bin", d, <<l, r>>, op)
OnList(d, name, args) == Inst("list", d, args, name)
Emits(st, b, insts) ==
  [st EXCEPT !.blocks[b].insts = @ \o insts, !.nv = @ + Len(SelectSeq(insts, LAMBDA inst : inst.dest # 0))]

\* the value of what two or more blocks stored to a temporary; v is what the last of them stored
Merged_LastStored(st, b, tmp, v) == Done(st, b, v)
Merged(st, b, tmp, v) == Value(Emit(st, b, "load", <<>>, tmp), b)

block_falls_through(st, b) == st.blocks[b].term.kind = "unreachable"
(* A block that already returned or left its loop keeps its own edge. *)
set_back_edge_Always(st, from, to) == Goto(st, from, to)
set_back_edge(st, from, to) == IF block_falls_through(st, from) THEN Goto(st, from, to) ELSE st

RECURSIVE lower_expr(_, _, _), lower_stmt_cfg(_, _, _)

RECURSIVE LowerArgsFrom(_, _), LowerStmtsFrom(_, _)
\* operands from left to right; v is the sequence of their values
Appended(vals, r) == [r EXCEPT !.v = Append(vals, @)]
LowerArgsFrom(done, args) ==
  IF args = <<>> \/ done.cur = 0 THEN done   \* no block is 0: the test makes TLC compute done before it goes on
  ELSE LowerArgsFrom(Appended(done.v, lower_expr(done.st, Head(args), done.cur)), Tail(args))
LowerArgs(st, args, cur, vals) == LowerArgsFrom(Done(st, cur, vals), args)
LowerStmtsFrom(done, ss) ==
  IF ss = <<>> \/ done.cur = 0 THEN done ELSE LowerStmtsFrom(lower_stmt_cfg(done.st, Head(ss), done.cur), Tail(ss))
LowerStmts(st, ss, cur) == LowerStmtsFrom(Done(st, cur, 0), ss)

-----------------------------------------------------------------------------
(* Lambdas are lowered in place *)

(* A return in the body stores to the slot of the frame and goes to its join
   block; the block that falls through does the same, and the slot is loaded. *)
EnterFrame(st) ==
  [st EXCEPT !.rets = @ + 1, !.frames = Append(@, [slot |-> Temp(7, st.rets + 1), join |-> 0])]
FallIntoJoin(st, cur, v, frame) ==
  IF block_falls_through(st, cur) THEN Goto(Store(st, cur, frame.slot, v), cur, frame.join) ELSE st
LeaveFrame(st, cur, v, frame) ==
  IF frame.join = 0 THEN Done(st, cur, v)
  ELSE Value(Emit(FallIntoJoin(st, cur, v, frame), frame.join, "load", <<>>, frame.slot), frame.join)
lower_inline_body_with_returns(st, body, cur) ==
  Then(lower_expr(EnterFrame(st), body, cur),
       LAMBDA s, b, v : LeaveFrame([s EXCEPT !.frames = Front(@)], b, v, Last(s.frames)))

(* Names put back to the values they were bound to, the last saved first. *)
RestoreOne(st, b, n, old) ==
  IF n \in DOMAIN old THEN Bind(st, b, n, old[n]) ELSE [st EXCEPT !.sym = [m \in DOMAIN @ \ {n} |-> @[m]]]
RestoreAll(st, b, names, old) == FoldLeft(LAMBDA acc, n : RestoreOne(acc, b, n, old), st, Reverse(names))
BindAll(st, b, names, vals) == FoldLeft(LAMBDA acc, i : Bind(acc, b, names[i], vals[i]), st, [i \in DOMAIN names |-> i])
CapturesOf(st, f) == IF f \in DOMAIN st.caps THEN st.caps[f] ELSE <<>>
CaptureNames(caps) == [i \in DOMAIN caps |-> caps[i].n]
CaptureValues(caps) == [i \in DOMAIN caps |-> caps[i].v]
BindCall(st, b, caps, params, vals) ==
  BindAll(BindAll(st, b, CaptureNames(caps), CaptureValues(caps)), b, params, vals)
Restored(r, names, old) == [r EXCEPT !.st = RestoreAll(@, r.cur, names, old)]
\* the body of lam with its captures and parameters bound; kept are the names put back afterwards
InPlace(st, cur, lam, caps, vals, kept) ==
  Restored(lower_inline_body_with_returns(BindCall(st, cur, caps, lam.params, vals), lam.body, cur), kept, st.sym)

(* f(args) on a named lambda: the snapshot of the captures and the parameters
   are bound, and afterwards only the captures are put back. *)
LowerLambdaCall(st, f, args, cur) ==
  Then(LowerArgs(st, args, cur, <<>>),
       LAMBDA s, b, vals : InPlace(s, b, st.lams[f], CapturesOf(st, f), vals, CaptureNames(CapturesOf(st, f))))

(* The callback of a list method: parameters and captures are put back. *)
lower_inline_closure_call(st, callee, vals, cur) ==
  IF callee.k # "var" THEN InPlace(st, cur, callee, <<>>, vals, callee.params)
  ELSE IF callee.n \notin DOMAIN st.lams THEN Value(Emit(st, cur, "call", vals, callee.n), cur)
  ELSE InPlace(st, cur, st.lams[callee.n], CapturesOf(st, callee.n), vals,
               CaptureNames(CapturesOf(st, callee.n)) \o st.lams[callee.n].params)

-----------------------------------------------------------------------------
(* Operators, arms and error propagation *)

(* The right operand runs only when the left one does not decide: rhs is its
   block, rhs + 1 the one of a decided result, rhs + 2 where both meet. *)
SplitDecided(st, cur, v, op, rhs) ==
  IF op = "||" THEN Split(st, cur, v, rhs + 1, rhs) ELSE Split(st, cur, v, rhs, rhs + 1)
BothWays(st, cur, v, decided, rhs) ==
  LET n == st.nv
  IN Merged([Goto(Emits(Goto(Emits(st, cur, <<Const(n + 1, 0), Bin(n + 2, "!=", v, n + 1), Assign(Temp(1, n + 3), n + 2)>>),
                               cur, rhs + 2),
                          rhs + 1, <<Inst("cbool", n + 3, <<>>, decided), Assign(Temp(1, n + 3), n + 3)>>),
                  rhs + 1, rhs + 2) EXCEPT !.nv = @ + 1],
            rhs + 2, Temp(1, n + 3), n + 2)
RightOperand(st, e, rhs) ==
  Then(lower_expr(st, e.r, rhs), LAMBDA s, b, v : BothWays(s, b, v, IF e.op = "||" THEN 1 ELSE 0, rhs))
LowerShortCircuit(st, e, cur) ==
  Then(lower_expr(st, e.l, cur),
       LAMBDA s, b, v : RightOperand(SplitDecided(NewBlocks(s, 3), b, v, e.op, LastBlock(s) + 1), e, LastBlock(s) + 1))

Wrapped(op) == CASE op = "+" -> "wrapping_+" [] op = "-" -> "wrapping_-" [] op = "*" -> "wrapping_*" [] OTHER -> op
LowerBinary(st, e, cur) ==
  Then(LowerArgs(st, <<e.l, e.r>>, cur, <<>>),
       LAMBDA s, b, vals : Value(Emit(s, b, "bin", vals, IF s.mode = "wrapping" THEN Wrapped(e.op) ELSE e.op), b))
LowerWrapping(st, e, cur) ==
  [lower_expr([st EXCEPT !.mode = "wrapping"], e.e, cur) EXCEPT !.st.mode = st.mode]

(* The condition of an arm: the test of the pattern, with the guard and-ed to it;
   the guard is computed also where the pattern fails (match_arm.rs:190-203). *)
PatternTest(st, val, pat, cur) ==
  CASE pat.k = "lit" -> Emits(st, cur, <<Const(st.nv + 1, pat.n), Bin(st.nv + 2, "==", val, st.nv + 1)>>)
    [] pat.k = "bind" -> Emit(Bind(st, cur, pat.n, val), cur, "cbool", <<>>, 1)
    [] pat.k = "any" -> Emit(st, cur, "cbool", <<>>, 1)
AndGuard(st, guard, cur) ==
  IF guard = <<>> THEN Value(st, cur)
  ELSE Then(lower_expr(st, Head(guard), cur), LAMBDA s, b, v : Value(Emit(s, b, "bin", <<st.nv, v>>, "&"), b))
lower_match_arm_cond(st, val, arm, cur) == AndGuard(PatternTest(st, val, arm.pat, cur), arm.guard, cur)

ArmCond(st, val, arm, cur) ==
  IF "pat" \in DOMAIN arm THEN lower_match_arm_cond(st, val, arm, cur) ELSE lower_expr(st, arm.cond, cur)

\* the chain of conditions; v collects the arms that fall through
RECURSIVE LowerArmChain(_, _, _, _)
ArmTail(st, b, at, ends) == Done(st, at, IF block_falls_through(st, b) THEN Append(ends, b) ELSE ends)
ArmBody(st, arm, tmp, at, ends) ==
  Then(lower_expr(st, arm.body, at), LAMBDA s, b, v : ArmTail(Bind(s, b, tmp, v), b, at + 1, ends))
LowerArm(st, val, arm, tmp, cur, ends) ==
  Then(ArmCond(st, val, arm, cur),
       LAMBDA s, b, v : ArmBody(Split(NewBlocks(s, 2), b, v, LastBlock(s) + 1, LastBlock(s) + 2), arm, tmp, LastBlock(s) + 1, ends))
LowerArmChain(done, val, arms, tmp) ==
  IF arms = <<>> THEN done
  ELSE LowerArmChain(LowerArm(done.st, val, Head(arms), tmp, done.cur, done.v), val, Tail(arms), tmp)

(* Arms as control flow: each body in its own block, its value in a temporary
   that is 0 when no arm is taken; the other body runs in the last block. *)
MeetAfter(st, cur, last) == Done(set_back_edge(create_block(st), cur, last), last, 0)
OtherArm(st, els, tmp, cur) ==
  IF els = <<>> THEN Done(st, cur, 0)
  ELSE Then(lower_expr(st, Head(els), cur), LAMBDA s, b, v : MeetAfter(Bind(s, b, tmp, v), b, LastBlock(s) + 1))
JoinArms(r, ends, tmp) ==
  Value(Emit(FoldLeft(LAMBDA acc, b : Goto(acc, b, r.cur), r.st, ends), r.cur, "load", <<>>, tmp), r.cur)
ArmZero(st, tmp, cur) == Bind(Emit(st, cur, "const", <<>>, 0), cur, tmp, st.nv + 1)
lower_arm_conds_cfg(st, val, arms, els, cur) ==
  Then(LowerArmChain(Done(ArmZero(st, Temp(2, st.nv), cur), cur, <<>>), val, arms, Temp(2, st.nv)),
       LAMBDA s, b, ends : JoinArms(OtherArm(s, els, Temp(2, st.nv), b), ends, Temp(2, st.nv)))

(* Without a block body every condition and every value is computed, and one
   instruction picks. *)
HasBlockBody(bodies, els) == \E i \in DOMAIN (bodies \o els) : (bodies \o els)[i].k = "blockexpr"
Bodies(arms) == [i \in DOMAIN arms |-> arms[i].body]
RECURSIVE EagerArms(_, _, _)
EagerBody(r, arm, vals) == [Appended(<<r.v>>, lower_expr(r.st, arm.body, r.cur)) EXCEPT !.v = vals \o @]
EagerArms(done, val, arms) ==
  IF arms = <<>> THEN done
  ELSE EagerArms(EagerBody(ArmCond(done.st, val, Head(arms), done.cur), Head(arms), done.v), val, Tail(arms))
LowerPicked(st, val, arms, els, cur) ==
  Then(EagerArms(Done(st, cur, <<>>), val, arms),
       LAMBDA s, b, vals : Then(LowerArgs(s, els, b, vals), LAMBDA t, c, all : Value(Emit(t, c, "decide", all, 0), c)))
LowerArms(st, val, arms, els, cur) ==
  IF HasBlockBody(Bodies(arms), els) THEN lower_arm_conds_cfg(st, val, arms, els, cur) ELSE LowerPicked(st, val, arms, els, cur)
LowerDecide(st, e, cur) == LowerArms(st, 0, e.arms, e.els, cur)
LowerMatch(st, e, cur) == Then(lower_expr(st, e.e, cur), LAMBDA s, b, v : LowerArms(s, v, e.arms, <<>>, b))

Succeeded == 1
Payload == 2
(* The flag of the Outcome v picks between the block ok, which takes the
   payload, and ok + 1; ok + 2 comes after both. *)
SplitOutcome(st, cur, v, ok) ==
  Emit(Split(NewBlocks(Emit(st, cur, "field", <<v>>, Succeeded), 3), cur, st.nv + 1, ok, ok + 1), ok, "field", <<v>>, Payload)
(* e? returns the failed object of the operand from the function. *)
Propagated(st, v, ok) == Done(Goto(End(st, ok + 1, Return(v)), ok, ok + 2), ok + 2, st.nv)
LowerPropagate(st, e, cur) ==
  Then(lower_expr(st, e.e, cur),
       LAMBDA s, b, v : Propagated(SplitOutcome(s, b, v, LastBlock(s) + 1), v, LastBlock(s) + 1))

StoreAndGo(st, b, tmp, v, to) == Goto(Store(st, b, tmp, v), b, to)
OtherValue(st, e, tmp, ok) ==
  Then(lower_expr(StoreAndGo(st, ok, tmp, st.nv, ok + 2), e.other, ok + 1),
       LAMBDA s, b, v : Merged(StoreAndGo(s, b, tmp, v, ok + 2), ok + 2, tmp, v))
LowerOr(st, e, cur) ==
  Then(lower_expr(st, e.e, cur),
       LAMBDA s, b, v : OtherValue(SplitOutcome([s EXCEPT !.nv = @ + 1], b, v, LastBlock(s) + 1), e, Temp(3, s.nv + 1), LastBlock(s) + 1))

\* x |> f |> g(a): the value is the first argument of the next stage
RECURSIVE LowerStages(_, _)
LowerStage(st, stage, cur, piped) ==
  Then(LowerArgs(st, stage.args, cur, <<piped>>), LAMBDA s, b, vals : Value(Emit(s, b, "call", vals, stage.n), b))
LowerStages(done, stages) ==
  IF stages = <<>> THEN done ELSE LowerStages(LowerStage(done.st, Head(stages), done.cur, done.v), Tail(stages))
LowerPipeline(st, e, cur) == LowerStages(lower_expr(st, e.e, cur), e.stages)

-----------------------------------------------------------------------------
(* List methods: a counted loop over the list with the callback in its body *)

(* head is the header, head + 1 the body and head + 2 the exit. *)
LoopHead(st, idx, len, head) ==
  Split(Emits(st, head, <<Load(st.nv + 1, idx), Bin(st.nv + 2, "<", st.nv + 1, len)>>), head, st.nv + 2, head + 1, head + 2)
LoopElement(st, idx, list, head) ==
  Emits(st, head + 1, <<Load(st.nv + 1, idx), OnList(st.nv + 2, "get", <<list, st.nv + 1>>)>>)
ElementLoop(st, cur, list, idx, len, head) ==
  LoopElement(LoopHead(Goto(NewBlocks(st, 3), cur, head), idx, len, head), idx, list, head)

(* The loop up to the element: idx and acc are set, the header tests, the body
   reads the element into the last value. *)
LoopAt(st, acc) == [idx |-> Temp(4, st.nv + 1), head |-> LastBlock(st) + 1, acc |-> acc]
HigherOrderLoop(st, list, init, loop, cur) ==
  LET n == st.nv
  IN ElementLoop(Emits([st EXCEPT !.nv = @ + 2], cur, <<OnList(n + 3, "len", <<list>>), Const(n + 4, 0), Assign(loop.idx, n + 4),
                                                          Assign(loop.acc, init)>>),
                 cur, list, loop.idx, n + 3, loop.head)

\* idx := idx + 1, and back to the header; after the loop acc is the result
CountUp(st, b, idx) ==
  LET n == st.nv IN Emits(st, b, <<Const(n + 1, 1), Load(n + 2, idx), Bin(n + 3, "+", n + 2, n + 1), Assign(idx, n + 3)>>)
Advance(st, loop, b) == set_back_edge(CountUp(st, b, loop.idx), b, loop.head)
Result(st, loop, b) == Value(Emit(Advance(st, loop, b), loop.head + 2, "load", <<>>, loop.acc), loop.head + 2)
AppendTo(st, b, acc, v) ==
  LET n == st.nv IN Emits(st, b, <<Load(n + 1, acc), OnList(n + 2, "append", <<n + 1, v>>), Assign(acc, n + 2)>>)
OnElement(st, e, loop) == lower_inline_closure_call(st, e.f, <<st.nv>>, loop.head + 1)

MapBody(st, e, loop) ==
  Then(OnElement(st, e, loop), LAMBDA s, b, v : Result(AppendTo(s, b, loop.acc, v), loop, b))
MapInto(st, list, e, loop, cur) == MapBody(HigherOrderLoop(st, list, st.nv, loop, cur), e, loop)
EmptyList(st, cur) == Emit(st, cur, "list", <<>>, "make")
LowerMap(st, list, e, cur) == MapInto(EmptyList(st, cur), list, e, LoopAt(EmptyList(st, cur), Temp(5, st.nv + 1)), cur)

KeepElement(st, loop, elem, keep) == Result(Goto(AppendTo(st, keep, loop.acc, elem), keep, keep + 1), loop, keep + 1)
FilterBody(st, e, loop) ==
  Then(OnElement(st, e, loop),
       LAMBDA s, b, v : KeepElement(Split(NewBlocks(s, 2), b, v, LastBlock(s) + 1, LastBlock(s) + 2), loop, st.nv, LastBlock(s) + 1))
FilterInto(st, list, e, loop, cur) == FilterBody(HigherOrderLoop(st, list, st.nv, loop, cur), e, loop)
LowerFilter(st, list, e, cur) == FilterInto(EmptyList(st, cur), list, e, LoopAt(EmptyList(st, cur), Temp(5, st.nv + 1)), cur)

\* reduce and fold: the accumulator is loaded before the callback
FoldBody(st, e, loop) ==
  Then(lower_inline_closure_call(Emit(st, loop.head + 1, "load", <<>>, loop.acc), e.f, <<st.nv + 1, st.nv>>, loop.head + 1),
       LAMBDA s, b, v : Result(Store(s, b, loop.acc, v), loop, b))
FoldInto(st, list, e, init, loop, cur) == FoldBody(HigherOrderLoop(st, list, init, loop, cur), e, loop)
LowerFold(st, list, e, cur) ==
  Then(lower_expr(st, e.init, cur), LAMBDA s, b, v : FoldInto(s, list, e, v, LoopAt(s, Temp(5, s.nv + 1)), b))

(* find, any and all leave at the first element that decides. *)
Leave(st, loop, hit, v) == Result(Goto(Store(st, hit, loop.acc, v), hit, loop.head + 2), loop, hit + 1)
LowerFind(st, loop, hit, elem) == Leave(st, loop, hit, elem)
LowerAny(st, loop, hit) == Leave(Emit(st, hit, "cbool", <<>>, 1), loop, hit, st.nv + 1)
LowerAll(st, loop, hit) == Leave(Emit(st, hit, "cbool", <<>>, 0), loop, hit, st.nv + 1)
Found(st, e, loop, hit, elem) ==
  CASE e.m = "find" -> LowerFind(st, loop, hit, elem)
    [] e.m = "any" -> LowerAny(st, loop, hit)
    [] e.m = "all" -> LowerAll(st, loop, hit)
SplitFound(st, e, cur, v, hit) ==
  IF e.m = "all" THEN Split(NewBlocks(st, 2), cur, v, hit + 1, hit) ELSE Split(NewBlocks(st, 2), cur, v, hit, hit + 1)
SearchBody(st, e, loop) ==
  Then(OnElement(st, e, loop),
       LAMBDA s, b, v : Found(SplitFound(s, e, b, v, LastBlock(s) + 1), e, loop, LastBlock(s) + 1, st.nv))
SearchFrom(st, list, e, loop, cur) == SearchBody(HigherOrderLoop(st, list, st.nv, loop, cur), e, loop)
NotFound(st, e, cur) == Emit(st, cur, "const", <<>>, CASE e.m = "find" -> -1 [] e.m = "any" -> 0 [] e.m = "all" -> 1)
Search(st, list, e, cur) ==
  SearchFrom(NotFound(st, e, cur), list, e, LoopAt(NotFound(st, e, cur), Temp(5, st.nv + 2)), cur)

ListMethod(st, list, e, cur) ==
  CASE e.m = "map" -> LowerMap(st, list, e, cur)
    [] e.m = "filter" -> LowerFilter(st, list, e, cur)
    [] e.m = "fold" -> LowerFold(st, list, e, cur)
    [] e.m \in {"find", "any", "all"} -> Search(st, list, e, cur)
lower_list_higher_order(st, e, cur) == Then(lower_expr(st, e.e, cur), LAMBDA s, b, v : ListMethod(s, v, e, b))

-----------------------------------------------------------------------------
LowerBlockExpr(st, e, cur) ==
  Then(LowerStmts(st, e.ss, cur),
       LAMBDA s, b, v : IF e.tail = <<>> THEN Value(Emit(s, b, "const", <<>>, 0), b) ELSE lower_expr(s, Head(e.tail), b))
LowerCall(st, e, cur) ==
  IF e.n \in DOMAIN st.lams THEN LowerLambdaCall(st, e.n, e.args, cur)
  ELSE Then(LowerArgs(st, e.args, cur, <<>>), LAMBDA s, b, vals : Value(Emit(s, b, "call", vals, e.n), b))
LowerMake(st, e, cur) ==
  Then(LowerArgs(st, e.args, cur, <<>>), LAMBDA s, b, vals : Value(Emit(s, b, "list", vals, "make"), b))

lower_expr(st, e, cur) ==
  CASE e.k = "int" -> Value(Emit(st, cur, "const", <<>>, e.n), cur)
    [] e.k = "var" -> Value(Emit(st, cur, "load", <<>>, e.n), cur)
    [] e.k = "bin" -> LowerBinary(st, e, cur)
    [] e.k = "logic" -> LowerShortCircuit(st, e, cur)
    [] e.k = "wrapping" -> LowerWrapping(st, e, cur)
    [] e.k = "blockexpr" -> LowerBlockExpr(st, e, cur)
    [] e.k = "call" -> LowerCall(st, e, cur)
    [] e.k \in {"list", "outcome"} -> LowerMake(st, e, cur)
    [] e.k = "match" -> LowerMatch(st, e, cur)
    [] e.k = "decide" -> LowerDecide(st, e, cur)
    [] e.k = "try" -> LowerPropagate(st, e, cur)
    [] e.k = "or" -> LowerOr(st, e, cur)
    [] e.k = "pipe" -> LowerPipeline(st, e, cur)
    [] e.k = "method" -> lower_list_higher_order(st, e, cur)

-----------------------------------------------------------------------------
(* Statements *)

(* A lambda keeps its parameters and body, and the values its free variables
   have now; the binding itself holds a placeholder. *)
Captured(st, s) ==
  SelectSeq([i \in DOMAIN s.free |-> [n |-> s.free[i], v |-> At(st.sym, s.free[i])]], LAMBDA c : c.n \in DOMAIN st.sym)
LowerLambda(st, s, cur) ==
  LET made == [st EXCEPT !.lams = Set(@, s.n, [params |-> s.params, body |-> s.body]),
                         !.caps = IF Captured(st, s) = <<>> THEN @ ELSE Set(@, s.n, Captured(st, s))]
  IN Value(Bind(Emit(made, cur, "const", <<>>, 0), cur, s.n, st.nv + 1), cur)

LowerBind(st, s, cur) == Then(lower_expr(st, s.e, cur), LAMBDA t, b, v : Done(Bind(t, b, s.n, v), b, v))
LowerOut(st, s, cur) == Then(lower_expr(st, s.e, cur), LAMBDA t, b, v : Done(Push(t, b, Inst("out", 0, <<v>>, 0)), b, 0))

(* In a body lowered in place a return goes to the join block of the frame.
   `return e?` wraps the payload again. *)
RewrapPropagated(r) ==
  LET n == r.st.nv
  IN Value(Emits(r.st, r.cur, <<Inst("cbool", n + 1, <<>>, 1), OnList(n + 2, "make", <<n + 1, r.v>>)>>), r.cur)
ToJoin(st, frame, v, cur) == Done(StoreAndGo(st, cur, frame.slot, v, frame.join), cur, 0)
WithJoin(st) ==
  IF Last(st.frames).join # 0 THEN st ELSE [create_block(st) EXCEPT !.frames[Len(st.frames)].join = LastBlock(st) + 1]
InlineReturn(st, v, cur) == ToJoin(st, Last(st.frames), v, cur)
\* (the legacy Inst::Return in front of either terminator, which no backend executes, is left out)
ReturnValue(st, v, cur) ==
  IF st.frames # <<>> THEN InlineReturn(WithJoin(st), v, cur) ELSE Done(End(st, cur, Return(v)), cur, v)
Rewrapped(s, r) == IF s.e.k = "try" THEN RewrapPropagated(r) ELSE r
LowerReturn(st, s, cur) ==
  Then(Rewrapped(s, lower_expr(st, s.e, cur)), LAMBDA t, b, v : ReturnValue(t, v, b))

(* then is the block of the first branch, then + 1 of the other, then + 2 of
   what follows. *)
Meet(r, at) == Done(set_back_edge(r.st, r.cur, at), at, 0)
ElseBranch(st, s, then) == Meet(lower_stmt_cfg(st, s.els, then + 1), then + 2)
Branches(st, s, then) == ElseBranch(Meet(lower_stmt_cfg(st, s.then, then), then + 2).st, s, then)
LowerIf(st, s, cur) ==
  Then(lower_expr(st, s.e, cur),
       LAMBDA t, b, v : Branches(Split(NewBlocks(t, 3), b, v, LastBlock(t) + 1, LastBlock(t) + 2), s, LastBlock(t) + 1))

(* The body of a loop: next is where continue goes, exit where break goes. *)
LoopEnd(r, next) == [r EXCEPT !.st = set_back_edge([@ EXCEPT !.loops = Front(@)], r.cur, next)]
LowerBody(st, body, at, next, exit) ==
  LoopEnd(lower_stmt_cfg([st EXCEPT !.loops = Append(@, [next |-> next, exit |-> exit])], body, at), next)
LoopOn(st, body, head) == Done(LowerBody(st, body, head + 1, head, head + 2).st, head + 2, 0)

(* The back edge goes to the first block of the condition. *)
WhileAt(st, s, head) ==
  Then(lower_expr(st, s.e, head), LAMBDA t, b, v : LoopOn(Split(t, b, v, head + 1, head + 2), s.body, head))
LowerWhile(st, s, cur) == WhileAt(Goto(NewBlocks(st, 3), cur, LastBlock(st) + 1), s, LastBlock(st) + 1)

LoopForever(st, head) == Split(Emit(st, head, "const", <<>>, 1), head, st.nv + 1, head + 1, head + 2)
LowerLoop(st, s, cur) ==
  LoopOn(LoopForever(Goto(NewBlocks(st, 3), cur, LastBlock(st) + 1), LastBlock(st) + 1), s.body, LastBlock(st) + 1)

(* Counted loops: continue goes to the increment, which goes to the header. *)
ForContinue_Header(head, incr) == head
ForContinue(head, incr) == incr
Increment(st, b, n, head) == Goto(CountUp(st, b, n), b, head)
CountedBody(st, body, counter, head) ==
  Done(Increment(LowerBody(create_block(st), body, head + 1, ForContinue(head, LastBlock(st) + 1), head + 2).st,
                 LastBlock(st) + 1, counter, head), head + 2, 0)

(* for v in a..b: both bounds are evaluated once. *)
RangeLoop(st, cur, n, bounds, head) ==
  LoopHead(Goto(Bind(NewBlocks(st, 3), cur, n, bounds[1]), cur, head), n, bounds[2], head)
LowerForRange(st, s, cur) ==
  Then(LowerArgs(st, <<s.a, s.b>>, cur, <<>>),
       LAMBDA t, b, bounds : CountedBody(RangeLoop(t, b, s.n, bounds, LastBlock(t) + 1), s.body, s.n, LastBlock(t) + 1))

(* for v in list: the length is read once, before the first iteration. *)
BindElement(st, s, idx, head) == CountedBody(Bind(st, head + 1, s.n, st.nv), s.body, idx, head)
ListLoop(st, cur, list, idx) ==
  LET n == st.nv
  IN ElementLoop(Emits([st EXCEPT !.nv = @ + 1], cur, <<Const(n + 2, 0), Assign(idx, n + 2), OnList(n + 3, "len", <<list>>)>>),
                 cur, list, idx, n + 3, LastBlock(st) + 1)
LowerForList(st, s, cur) ==
  Then(lower_expr(st, s.e, cur),
       LAMBDA t, b, v : BindElement(ListLoop(t, b, v, Temp(6, t.nv + 1)), s, Temp(6, t.nv + 1), LastBlock(t) + 1))

(* What follows a break or a continue goes to a block no edge reaches. *)
LowerLeave(st, cur, to) == Done(create_block(Goto(st, cur, to)), LastBlock(st) + 1, 0)

lower_stmt_cfg(st, s, cur) ==
  CASE s.k = "block" -> LowerStmts(st, s.ss, cur)
    [] s.k \in {"let", "assign"} -> LowerBind(st, s, cur)
    [] s.k = "lambda" -> LowerLambda(st, s, cur)
    [] s.k = "do" -> lower_expr(st, s.e, cur)
    [] s.k = "out" -> LowerOut(st, s, cur)
    [] s.k = "return" -> LowerReturn(st, s, cur)
    [] s.k = "if" -> LowerIf(st, s, cur)
    [] s.k = "while" -> LowerWhile(st, s, cur)
    [] s.k = "loop" -> LowerLoop(st, s, cur)
    [] s.k = "for" -> LowerForRange(st, s, cur)
    [] s.k = "each" -> LowerForList(st, s, cur)
    [] s.k = "break" -> IF st.loops = <<>> THEN Done(st, cur, 0) ELSE LowerLeave(st, cur, Last(st.loops).exit)
    [] s.k = "continue" -> IF st.loops = <<>> THEN Done(st, cur, 0) ELSE LowerLeave(st, cur, Last(st.loops).next)

-----------------------------------------------------------------------------
(* Functions: the last block returns the value of the last statement. *)
NewFunction(f) ==
  [blocks |-> <<Block(<<>>, <<>>, Unreachable)>>, nv |-> Len(f.params), loops |-> <<>>, caps |-> <<>>,
   sym |-> SetAll(<<>>, f.params, [i \in DOMAIN f.params |-> i]), lams |-> <<>>, frames |-> <<>>, rets |-> 0, mode |-> "checked"]
Closed(r) == IF block_falls_through(r.st, r.cur) THEN End(r.st, r.cur, Return(r.v)) ELSE r.st
lower_function(f) ==
  [params |-> [i \in DOMAIN f.params |-> [n |-> f.params[i], v |-> i]],
   blocks |-> Closed(lower_stmt_cfg(NewFunction(f), f.body, Entry)).blocks]
lower_program(p) == [g \in DOMAIN p |-> lower_function(p[g])]
=============================================================================
