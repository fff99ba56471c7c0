----------------------------- MODULE FlowPasses -----------------------------
(***************************************************************************)
(* The passes that move instructions between blocks and functions:         *)
(* inlining (src/src/optimizer/inline.rs), merging of blocks and           *)
(* conversion of branches to choices (src/src/optimizer/mod.rs), and calls *)
(* of a function to itself (src/src/optimizer/recursion.rs).               *)
(***************************************************************************)
EXTENDS OptIr

CONSTANTS
  InlineBudget,     \* instructions a function may have to be inlined
  SelectBudget      \* instructions an arm of a branch may have (4 in the code)

(***************************************************************************)
(* Inlining.  A candidate is a function of one block of plain instructions *)
(* and no input or output; writing a variable of the module is no reason   *)
(* to refuse.                                                              *)
(***************************************************************************)
PlainInst(inst) == inst.op \in {"const", "cbool", "load", "assign", "bin", "copy", "not", "select"}
InlineCandidate(m, g) ==
  /\ g # Main
  /\ DOMAIN m[g].blocks = {Entry}
  /\ \A inst \in ToSet(m[g].blocks[Entry].insts) : PlainInst(inst)
  /\ Len(m[g].blocks[Entry].insts) <= InlineBudget

\* the callee's variables get a prefix of their own, whatever they are
LocalName(base, n) == 100 * base + n
AssignedParams(callee) ==
  ParamNames(callee) \cap {inst.name : inst \in {x \in ToSet(callee.blocks[Entry].insts) : x.op = "assign"}}
ArgOf(callee, n, args) == args[CHOOSE i \in DOMAIN callee.params : callee.params[i].n = n]

(* The spliced instructions and the map from the callee's values to the caller's. *)
splice_callee_inst(callee, base, args, acc, inst) ==
  LET lookup(v) == IF v \in DOMAIN acc.map THEN acc.map[v] ELSE base + v
      bound == inst.op = "load" /\ inst.name \in ParamNames(callee) \ AssignedParams(callee)
      name == IF inst.op \in {"load", "assign"} THEN LocalName(base, inst.name) ELSE inst.name
  IN IF bound THEN [acc EXCEPT !.map = Set(@, inst.dest, ArgOf(callee, inst.name, args))]
     ELSE [acc EXCEPT !.out = Append(@, Inst(inst.op, IF inst.dest = 0 THEN 0 ELSE lookup(inst.dest),
                                              [i \in DOMAIN inst.args |-> lookup(inst.args[i])], name))]
Seeds(callee, base, args, assigned) ==
  [k \in DOMAIN assigned |-> Inst("assign", 0, <<args[assigned[k]]>>, LocalName(base, callee.params[assigned[k]].n))]
SplicedResult(body, base, uses) ==
  [insts |-> body.out,
   ret |-> IF uses = <<>> THEN 0 ELSE IF uses[1] \in DOMAIN body.map THEN body.map[uses[1]] ELSE base + uses[1]]
Splice(callee, base, args) ==
  LET assigned == SelectSeq([i \in DOMAIN callee.params |-> i], LAMBDA i : callee.params[i].n \in AssignedParams(callee))
  IN SplicedResult(
       FoldLeft(LAMBDA acc, inst : splice_callee_inst(callee, base, args, acc, inst),
                [out |-> Seeds(callee, base, args, assigned), map |-> SetAll(<<>>, ParamValues(callee), args)],
                callee.blocks[Entry].insts),
       base, callee.blocks[Entry].term.uses)

\* the values of one splice stay apart from those of the next
FreshBase_Same(base, callee) == base
FreshBase(base, callee) == base + FnMaxValue(callee) + 1

\* one instruction of the caller: a call of a candidate is replaced, its result renamed afterwards
Spliced(acc, inst, callee, sp) ==
  [out |-> acc.out \o sp.insts \o (IF sp.ret = 0 THEN <<Inst("const", inst.dest, <<>>, 0)>> ELSE <<>>),
   subst |-> IF sp.ret = 0 THEN acc.subst ELSE Set(acc.subst, inst.dest, Resolve(acc.subst, sp.ret)),
   base |-> FreshBase(acc.base, callee)]
InlineSite(m, cands, inst) ==
  inst.op = "call" /\ inst.name \in cands /\ Len(m[inst.name].params) = Len(inst.args)
InlineInst(m, cands, acc, inst) ==
  IF InlineSite(m, cands, inst) THEN Spliced(acc, inst, m[inst.name], Splice(m[inst.name], acc.base, inst.args))
  ELSE [acc EXCEPT !.out = Append(@, inst)]
Rewritten(acc, b, r) ==
  [f |-> [acc.f EXCEPT ![b].insts = r.out, ![b].term = substitute_terminator(r.subst, @)], subst |-> r.subst, base |-> r.base]
InlineBlock(m, cands, acc, b) ==
  Rewritten(acc, b, FoldLeft(LAMBDA a, raw : InlineInst(m, cands, a, substitute_inst(a.subst, raw)),
                             [out |-> <<>>, subst |-> acc.subst, base |-> acc.base], acc.f[b].insts))
SubstBlocks(r) == [b \in DOMAIN r.f |-> SubstBlock(r.subst, r.f[b])]
inline_candidates_into_callers(m, cands) ==
  [g \in DOMAIN m |->
     IF g \in cands THEN m[g]
     ELSE [m[g] EXCEPT !.blocks = SubstBlocks(
             FoldLeft(LAMBDA acc, b : InlineBlock(m, cands, acc, b),
                      [f |-> @, subst |-> <<>>, base |-> FnMaxValue(m[g]) + 1], Ascending(DOMAIN @)))]]
inline_pure_functions(m) == inline_candidates_into_callers(m, {g \in DOMAIN m : InlineCandidate(m, g)})

(***************************************************************************)
(* A block that only branches to a block nothing else branches to takes it *)
(* in.  One pair per call.                                                 *)
(***************************************************************************)
MergeCandidate(f, b) ==
  /\ f[b].term.kind = "branch"
  /\ f[b].term.to[1] \notin {b, Entry}
  /\ EdgesInto(f, f[b].term.to[1]) = 1
  /\ Len(f[f[b].term.to[1]].params) = Len(f[b].term.args[1])
merge_blocks(fn) ==
  LET f == fn.blocks
      cands == {b \in DOMAIN f : MergeCandidate(f, b)}
      a == Ascending(cands)[1]
      t == f[a].term.to[1]
      subst == SetAll(<<>>, f[t].params, f[a].term.args[1])
      merged == Block(f[a].params, f[a].insts \o f[t].insts, f[t].term)
  IN IF cands = {} THEN fn
     ELSE [fn EXCEPT !.blocks = [b \in DOMAIN f \ {t} |-> SubstBlock(subst, IF b = a THEN merged ELSE f[b])]]

(***************************************************************************)
(* A branch over two short arms of pure instructions that meet again       *)
(* becomes both arms in a row and a choice per differing argument.         *)
(***************************************************************************)
SelectableInst(inst) == inst.op \in {"const", "cbool", "bin", "copy", "not", "select"} /\ ~may_trap(inst)
Arm(f, b) ==
  /\ EdgesInto(f, b) = 1
  /\ f[b].params = <<>>
  /\ Len(f[b].insts) <= SelectBudget
  /\ f[b].term.kind = "branch"
  /\ \A inst \in ToSet(f[b].insts) : SelectableInst(inst)
Diamond(f, h) ==
  LET t == f[h].term.to[1]
      e == f[h].term.to[2]
  IN /\ f[h].term.kind = "cond"
     /\ f[h].term.args = <<<<>>, <<>>>>
     /\ t # e
     /\ Arm(f, t) /\ Arm(f, e)
     /\ f[t].term.to = f[e].term.to
ChooseArg(acc, cond, thenV, elseV) ==
  IF thenV = elseV THEN [acc EXCEPT !.args = Append(@, thenV)]
  ELSE [insts |-> Append(acc.insts, Inst("select", acc.max + 1, <<cond, thenV, elseV>>, 0)),
        args |-> Append(acc.args, acc.max + 1), max |-> acc.max + 1]
convert_branches_to_select(fn) ==
  LET f == fn.blocks
      heads == {h \in DOMAIN f : Diamond(f, h)}
      h == Ascending(heads)[1]
      t == f[h].term.to[1]
      e == f[h].term.to[2]
      join == f[t].term.to[1]
      start == [insts |-> f[h].insts \o f[t].insts \o f[e].insts, args |-> <<>>, max |-> FnMaxValue(fn)]
      done == FoldLeft(LAMBDA acc, i : ChooseArg(acc, f[h].term.uses[1], f[t].term.args[1][i], f[e].term.args[1][i]),
                       start, [i \in DOMAIN f[t].term.args[1] |-> i])
  IN IF heads = {} THEN fn
     ELSE IF join \in {h, t, e} THEN fn
     ELSE [fn EXCEPT !.blocks = [b \in DOMAIN f \ {t, e} |->
                                   IF b = h THEN Block(f[h].params, done.insts, Branch(join, done.args)) ELSE f[b]]]

-----------------------------------------------------------------------------
(***************************************************************************)
(* src/src/optimizer/recursion.rs: calls of a function to itself become    *)
(* loops.  Every rewrite is kept only if the verifier accepts it.          *)
(***************************************************************************)

SelfCalls(g, block) == {i \in DOMAIN block.insts : block.insts[i].op = "call" /\ block.insts[i].name = g}

(***************************************************************************)
(* Tail calls.  What follows the call may only be loads, assignments and   *)
(* copies; it is cut off with the call.                                    *)
(***************************************************************************)
Harmless(inst) == inst.op \in {"assign", "load", "copy"}
\* the returned value, followed once through the copies behind the call; functions that
\* return Unit, where any call behind which nothing happens is one, are left out
ReturnsCall(block, at) ==
  LET dest == block.insts[at].dest
      after == SubSeq(block.insts, at + 1, Len(block.insts))
      chase == FoldLeft(LAMBDA cur, inst : IF cur # dest /\ inst.op = "copy" /\ inst.dest = cur THEN inst.args[1] ELSE cur,
                        block.term.uses[1], after)
  IN block.term.uses # <<>> /\ chase = dest
TailCallIn(fn, g, b) ==
  LET block == fn.blocks[b]
      calls == SelfCalls(g, block)
      at == CHOOSE i \in calls : TRUE
  IN /\ Cardinality(calls) = 1
     /\ Len(block.insts[at].args) = Len(fn.params)
     /\ \A i \in (at + 1)..Len(block.insts) : Harmless(block.insts[i])
     /\ block.term.kind = "return"
     /\ ReturnsCall(block, at)

Shifted(term) == [term EXCEPT !.to = [e \in DOMAIN @ |-> @[e] + 1]]
LoopHeader == Entry + 1
CutAt(block, at) == [block EXCEPT !.insts = SubSeq(@, 1, at - 1), !.term = Branch(LoopHeader, block.insts[at].args)]
CallPlace(g, block) == CHOOSE i \in SelfCalls(g, block) : TRUE
TailBlock(block, g, subst, isTail) ==
  IF isTail THEN CutAt(SubstBlock(subst, block), CallPlace(g, block)) ELSE SubstBlock(subst, [block EXCEPT !.term = Shifted(@)])
TailStores(fn, fresh) == [i \in DOMAIN fn.params |-> Inst("assign", 0, <<fresh[i]>>, fn.params[i].n)]
AtHeader(fn, fresh, block, isEntry) == IF isEntry THEN [block EXCEPT !.params = fresh, !.insts = TailStores(fn, fresh) \o @] ELSE block
TailLoopOver(fn, g, tails, fresh) ==
  LET subst == SetAll(<<>>, ParamValues(fn), fresh)
  IN [fn EXCEPT !.blocks = [b \in {Entry} \cup {c + 1 : c \in DOMAIN @} |->
        IF b = Entry THEN Block(<<>>, <<>>, Branch(LoopHeader, ParamValues(fn)))
        ELSE AtHeader(fn, fresh, TailBlock(@[b - 1], g, subst, b - 1 \in tails), b - 1 = Entry)]]
TailLoop(fn, g, tails) == TailLoopOver(fn, g, tails, [i \in DOMAIN fn.params |-> FnMaxValue(fn) + i])
IfVerified(new, otherwise) == IF Verified(new) THEN new ELSE otherwise
TailCallers(fn, g) == {b \in DOMAIN fn.blocks : SelfCalls(g, fn.blocks[b]) # {}}
LoopTails(fn, g, callers) ==
  IF callers = {} \/ \E b \in callers : ~TailCallIn(fn, g, b) THEN fn ELSE IfVerified(TailLoop(fn, g, callers), fn)
eliminate_tail_recursion(fn, g) == LoopTails(fn, g, TailCallers(fn, g))

(***************************************************************************)
(* Two recursive calls whose sum is returned.  The shape: a block that     *)
(* returns the first parameter or a constant, a block that returns         *)
(* f(n - k1) + f(n - k2) with the other arguments passed on, and a test    *)
(* n <= K or n < K that decides between them.                              *)
(***************************************************************************)
IntConst(f, v) == {x.name : x \in {x \in AllInsts(f) : x.op = "const" /\ x.dest = v}}
AliasOf(fn, v) ==
  LET loads == {x \in AllInsts(fn.blocks) : x.op = "load" /\ x.dest = v /\ x.name \in ParamNames(fn)}
  IN IF loads = {} THEN v ELSE ParamValue(fn, (CHOOSE x \in loads : TRUE).name)
NParam(fn) == fn.params[1].v

\* "n" or the constant a block returns; empty when it is neither
ReturnKind(fn, v) ==
  IF AliasOf(fn, v) = NParam(fn) THEN {[param |-> TRUE, c |-> 0]}
  ELSE {[param |-> FALSE, c |-> c] : c \in IntConst(fn.blocks, v)}
BaseBlock(fn, b) ==
  LET block == fn.blocks[b]
  IN /\ \A inst \in ToSet(block.insts) : inst.op \in {"load", "const", "copy"}
     /\ block.term.kind = "return" /\ block.term.uses # <<>>
     /\ ReturnKind(fn, block.term.uses[1]) # {}
RecBlock(fn, g, b) ==
  LET block == fn.blocks[b]
      calls == {i \in DOMAIN block.insts : block.insts[i].op = "call"}
      dests == {block.insts[i].dest : i \in calls}
  IN /\ Cardinality(calls) = 2
     /\ \A i \in calls :
          /\ block.insts[i].name = g
          /\ Len(block.insts[i].args) = Len(fn.params)
          /\ \A j \in DOMAIN fn.params \ {1} : AliasOf(fn, block.insts[i].args[j]) = fn.params[j].v
     /\ \A inst \in ToSet(block.insts) : inst.op # "out"
     /\ \E inst \in ToSet(block.insts) :
          /\ inst.op = "bin" /\ inst.name = "+" /\ ToSet(inst.args) = dests
          /\ block.term.kind = "return" /\ block.term.uses = <<inst.dest>>

RECURSIVE Trampoline(_, _, _)
Trampoline(f, b, hops) ==
  IF hops > 0 /\ f[b].insts = <<>> /\ f[b].term.kind = "branch" /\ f[b].term.args[1] = <<>>
  THEN Trampoline(f, f[b].term.to[1], hops - 1) ELSE b
\* the largest n of the base case, from the test that branches to both blocks
GuardBounds(fn, base, rec) ==
  LET f == fn.blocks
      tests == {x \in AllInsts(f) :
                  /\ x.op = "bin" /\ x.name \in {"<=", "<"} /\ AliasOf(fn, x.args[1]) = NParam(fn)
                  /\ \E b \in DOMAIN f :
                       /\ x \in ToSet(f[b].insts) /\ f[b].term.kind = "cond" /\ f[b].term.uses = <<x.dest>>
                       /\ Trampoline(f, f[b].term.to[1], 8) = base /\ Trampoline(f, f[b].term.to[2], 8) = rec}
  IN UNION {{IF x.name = "<=" THEN k ELSE k - 1 : k \in IntConst(f, x.args[2])} : x \in tests}
Steps(fn, v) ==
  UNION {IntConst(fn.blocks, x.args[2]) :
           x \in {x \in AllInsts(fn.blocks) :
                    x.op = "bin" /\ x.name = "-" /\ x.dest = v /\ AliasOf(fn, x.args[1]) = NParam(fn)}}

\* n <= K: the base value; otherwise a loop from K + 1 to n
UpLoop(fn, kind, bound, inits, nextOf(_)) ==
  LET n == NParam(fn)
      m == FnMaxValue(fn)
      k == m + 1
      c == m + 2
      base == m + 3
      i0 == m + 4
      w == Len(inits)
      init == [j \in 1..w |-> m + 4 + j]
      par == [j \in 1..w |-> m + 4 + w + j]
      i == m + 5 + 2 * w
      go == i + 1
      next == i + 2
      one == i + 3
      i1 == i + 4
      res == i + 5
  IN [fn EXCEPT !.blocks = <<
       Block(<<>>, <<Inst("const", k, <<>>, bound), Inst("bin", c, <<n, k>>, "<=")>>, CondBranch(c, 2, <<>>, 3, <<>>)),
       Block(<<>>, IF kind.param THEN <<>> ELSE <<Inst("const", base, <<>>, kind.c)>>, Return(IF kind.param THEN n ELSE base)),
       Block(<<>>, [j \in 1..w |-> Inst("const", init[j], <<>>, inits[j])] \o <<Inst("const", i0, <<>>, bound + 1)>>,
             Branch(4, Append(init, i0))),
       Block(Append(par, i), <<Inst("bin", go, <<i, n>>, "<=")>>, CondBranch(go, 5, <<>>, 6, <<par[w]>>)),
       Block(<<>>, <<Inst("bin", next, nextOf(par), "+"), Inst("const", one, <<>>, 1), Inst("bin", i1, <<i, one>>, "wrapping_+")>>,
             Branch(4, Append(Append(Tail(par), next), i1))),
       Block(<<res>>, <<>>, Return(res))>>]
FibLoop(fn, kind, bound) ==
  UpLoop(fn, kind, bound, IF kind.param THEN <<bound - 1, bound>> ELSE <<kind.c, kind.c>>, LAMBDA par : par)
DoublingLoop(fn, kind, bound) ==
  UpLoop(fn, kind, bound, IF kind.param THEN <<bound>> ELSE <<kind.c>>, LAMBDA par : <<par[1], par[1]>>)
\* one call stays, the other becomes a loop over an accumulator
AccumulatorLoop(fn, g, kind, bound, small, large) ==
  LET n == NParam(fn)
      v(j) == FnMaxValue(fn) + j
      rest == Tail(ParamValues(fn))
  IN [fn EXCEPT !.blocks = <<
       Block(<<>>, <<Inst("const", v(1), <<>>, 0)>>, Branch(2, <<n, v(1)>>)),
       Block(<<v(2), v(3)>>, <<Inst("const", v(4), <<>>, bound), Inst("bin", v(5), <<v(2), v(4)>>, "<=")>>,
             CondBranch(v(5), 3, <<>>, 4, <<>>)),
       Block(<<>>, (IF kind.param THEN <<>> ELSE <<Inst("const", v(13), <<>>, kind.c)>>)
                     \o <<Inst("bin", v(6), <<v(3), IF kind.param THEN v(2) ELSE v(13)>>, "+")>>, Return(v(6))),
       Block(<<>>, <<Inst("const", v(7), <<>>, small), Inst("bin", v(8), <<v(2), v(7)>>, "-"),
                     Inst("call", v(9), <<v(8)>> \o rest, g), Inst("bin", v(10), <<v(3), v(9)>>, "+"),
                     Inst("const", v(11), <<>>, large), Inst("bin", v(12), <<v(2), v(11)>>, "-")>>,
             Branch(2, <<v(12), v(10)>>))>>]

SiblingLoop(fn, kind, bound, small, large) ==
  IF small = 1 /\ large = 2 /\ bound >= 1 THEN FibLoop(fn, kind, bound)
  ELSE IF small = 1 /\ large = 1 /\ bound >= 0 THEN DoublingLoop(fn, kind, bound)
  ELSE fn
DirectOr(fn, direct, other) == IF direct # fn /\ Verified(direct) THEN direct ELSE IfVerified(other, fn)
SiblingsAs(fn, g, kind, bound, small, large) ==
  DirectOr(fn, SiblingLoop(fn, kind, bound, small, large), AccumulatorLoop(fn, g, kind, bound, small, large))
AnyOf(S) == CHOOSE x \in S : TRUE
InOrder(fn, g, kind, bound, a, b) ==
  IF a <= b THEN SiblingsAs(fn, g, kind, bound, a, b) ELSE SiblingsAs(fn, g, kind, bound, b, a)
SiblingCalls(fn, g, base, kind, bounds, k1, k2) ==
  IF bounds # {} /\ \E a \in k1, b \in k2 : a > 0 /\ b > 0 THEN InOrder(fn, g, kind, AnyOf(bounds), AnyOf(k1), AnyOf(k2)) ELSE fn
StepOfCall(fn, block, calls, i) == Steps(fn, block.insts[calls[i]].args[1])
Siblings(fn, g, base, rec, calls) ==
  IF {b \in DOMAIN fn.blocks : fn.blocks[b].term.kind = "return"} # {base, rec} THEN fn
  ELSE SiblingCalls(fn, g, base, AnyOf(ReturnKind(fn, fn.blocks[base].term.uses[1])), GuardBounds(fn, base, rec),
                    StepOfCall(fn, fn.blocks[rec], calls, 1), StepOfCall(fn, fn.blocks[rec], calls, 2))
SiblingsIn(fn, g, base, recs) ==
  IF recs = {} THEN fn
  ELSE Siblings(fn, g, base, Ascending(recs)[1], Ascending(SelfCalls(g, fn.blocks[Ascending(recs)[1]])))
SiblingsAfter(fn, g, bases) ==
  IF bases = {} THEN fn
  ELSE SiblingsIn(fn, g, Ascending(bases)[1], {b \in DOMAIN fn.blocks \ {Ascending(bases)[1]} : RecBlock(fn, g, b)})
eliminate_sibling_recursion(fn, g) ==
  IF fn.params = <<>> THEN fn ELSE SiblingsAfter(fn, g, {b \in DOMAIN fn.blocks : BaseBlock(fn, b)})
=============================================================================
