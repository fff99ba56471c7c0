---------------------------- MODULE ScalarPasses ----------------------------
(***************************************************************************)
(* The passes on values and loops: promotion of named variables to values  *)
(* (src/src/optimizer/mem2reg.rs), common subexpressions, repeated calls   *)
(* and algebraic simplification (scalar.rs), dead instructions and dead    *)
(* functions (dce.rs), motion of invariant code and forwarding of          *)
(* invariant values through a loop header (loops/mod.rs).                  *)
(* Each takes a function and returns it rewritten.                         *)
(***************************************************************************)
EXTENDS OptIr

CONSTANTS
  PureNames,        \* the functions whose name has one of the pure prefixes
  LicmRounds,       \* rounds of one call of licm_pass (8 in the code)
  ForwardCap        \* values forwarded through one header (3 in the code)

-----------------------------------------------------------------------------
(* Promotion (mem2reg.rs): variables that are read and written by name become
   values, with block parameters where definitions meet. *)
PROMOTABLE_TYPES == {"Int", "Bool"}

(***************************************************************************)
(* Types.  A value assigned from an instruction without a recorded type    *)
(* (a choice) gives its variable none; a parameter is an Int.              *)
(***************************************************************************)
SeedType(inst) ==
  CASE inst.op = "const" -> "Int" [] inst.op = "cbool" -> "Bool"
    [] inst.op = "bin" -> (IF inst.name \in Compare THEN "Bool" ELSE "Int")
    [] inst.op = "not" -> "Bool" [] inst.op \in {"copy", "call"} -> "Int" [] OTHER -> "none"

(* One sweep over the blocks in order: ty.v types values, ty.n types names, ty.bad are
   the names with two types. *)
TypeInst(ty, inst) ==
  LET known == IF inst.op = "assign" /\ inst.args[1] \in DOMAIN ty.v THEN ty.v[inst.args[1]] ELSE "none"
  IN CASE inst.op = "assign" /\ known # "none" ->
            IF inst.name \notin DOMAIN ty.n THEN [ty EXCEPT !.n = Set(@, inst.name, known)]
            ELSE IF ty.n[inst.name] # known THEN [ty EXCEPT !.bad = @ \cup {inst.name}] ELSE ty
       [] inst.op = "load" /\ inst.name \in DOMAIN ty.n /\ inst.dest \notin DOMAIN ty.v ->
            [ty EXCEPT !.v = Set(@, inst.dest, ty.n[inst.name])]
       [] inst.op \notin {"assign", "load", "out"} /\ SeedType(inst) # "none" ->
            [ty EXCEPT !.v = Set(@, inst.dest, SeedType(inst))]
       [] OTHER -> ty
TypeSweep(f, order, ty) == FoldLeft(LAMBDA t, b : FoldLeft(LAMBDA u, inst : TypeInst(u, inst), t, f[b].insts), ty, order)
RECURSIVE TypeFixpoint(_, _, _, _)
TypeFixpoint(f, order, last, ty) ==
  IF ty = last THEN ty ELSE TypeFixpoint(f, order, ty, TypeSweep(f, order, ty))
VarTypes(fn, f) ==
  TypeFixpoint(f, Ascending(DOMAIN f), <<>>, [v |-> <<>>, n |-> [p \in ParamNames(fn) |-> "Int"], bad |-> Globals])

(***************************************************************************)
(* Which names may be promoted: every load must have a definition on every *)
(* path from the entry.                                                    *)
(***************************************************************************)
AssignsIn(block, n, upTo) == {i \in 1..upTo : block.insts[i].op = "assign" /\ block.insts[i].name = n}
LoadsIn(block, n) == {i \in DOMAIN block.insts : block.insts[i].op = "load" /\ block.insts[i].name = n}
DefBlocks(fn, f, n) ==
  {b \in DOMAIN f : AssignsIn(f[b], n, Len(f[b].insts)) # {}} \cup (IF n \in ParamNames(fn) THEN {Entry} ELSE {})

RECURSIVE AvoidingFrom(_, _, _, _)
AvoidingFrom(f, defs, seen, work) ==
  IF work = {} THEN seen
  ELSE LET more == UNION {ToSet(Successors(f, b)) : b \in work \ defs} \ seen
       IN AvoidingFrom(f, defs, seen \cup more, more)
ReachedWithoutDef(f, defs, b) == b \in AvoidingFrom(f, defs, {Entry}, {Entry})

LoadIsDominated(fn, f, idom, defs, n, b, i) ==
  \/ b = Entry /\ n \in ParamNames(fn)
  \/ AssignsIn(f[b], n, i - 1) # {}
  \/ \E d \in defs \ {b} : Dominates(idom, d, b)
  \/ b \notin defs /\ ~ReachedWithoutDef(f, defs, b)
LoadsDominated(fn, f, idom, defs, n) ==
  defs # {} /\ \A b \in DOMAIN f : \A i \in LoadsIn(f[b], n) : LoadIsDominated(fn, f, idom, defs, n, b, i)

Touched(f) == {inst.name : inst \in {x \in AllInsts(f) : x.op \in {"load", "assign"}}}
HasType(ty, n) == n \in DOMAIN ty.n \ ty.bad /\ ty.n[n] \in PROMOTABLE_TYPES
TypedNames(ty, names) == {n \in names : HasType(ty, n)}
Promotable(fn, f, idom) ==
  {n \in TypedNames(VarTypes(fn, f), Touched(f)) : LoadsDominated(fn, f, idom, DefBlocks(fn, f, n), n)}

(***************************************************************************)
(* Block parameters, only where the name is live.                          *)
(***************************************************************************)
BlockUse(f, names, b, seeded) ==
  {n \in names : (~(b = Entry /\ n \in seeded)) /\ \E i \in LoadsIn(f[b], n) : AssignsIn(f[b], n, i - 1) = {}}
BlockDef(f, names, b, seeded) ==
  {n \in names : AssignsIn(f[b], n, Len(f[b].insts)) # {}} \cup (IF b = Entry THEN seeded ELSE {})
LiveSweep(f, names, seeded, live) ==
  [b \in DOMAIN f |-> BlockUse(f, names, b, seeded)
                      \cup (UNION {live[s] : s \in ToSet(Successors(f, b))} \ BlockDef(f, names, b, seeded))]
RECURSIVE LiveIn(_, _, _, _, _)
LiveIn(f, names, seeded, last, live) ==
  IF live = last THEN live ELSE LiveIn(f, names, seeded, live, LiveSweep(f, names, seeded, live))

RECURSIVE PhiBlocks(_, _, _, _, _)
PhiBlocks(f, idom, liveBlocks, placed, work) ==
  IF work = {} THEN placed
  ELSE LET more == UNION {DominanceFrontier(f, idom, d) : d \in work} \cap (liveBlocks \ placed)
       IN PhiBlocks(f, idom, liveBlocks, placed \cup more, more)
(* A name defined once gets none. *)
TotalDefs(fn, f, n) ==
  Cardinality({d \in UNION {{b} \X DOMAIN f[b].insts : b \in DOMAIN f} :
                 f[d[1]].insts[d[2]].op = "assign" /\ f[d[1]].insts[d[2]].name = n})
  + (IF n \in ParamNames(fn) THEN 2 ELSE 0)
PhisOf(fn, f, idom, live, n) ==
  IF TotalDefs(fn, f, n) <= 1 THEN {} ELSE PhiBlocks(f, idom, {b \in DOMAIN f : n \in live[b]}, {}, DefBlocks(fn, f, n))
NamesAt(f, phis) == [b \in DOMAIN f |-> Ascending({n \in DOMAIN phis : b \in phis[n]})]
PhisOver(fn, f, idom, names, live) == NamesAt(f, [n \in names |-> PhisOf(fn, f, idom, live, n)])
PhiNames(fn, f, idom, names) ==
  PhisOver(fn, f, idom, names, LiveIn(f, names, ParamNames(fn), <<>>, [b \in DOMAIN f |-> {}]))

(* Fresh values, block by block in ascending order. *)
PhiParams(phi, next) ==
  LET order == Ascending(DOMAIN phi)
      before(b) == FoldLeft(LAMBDA acc, c : IF c < b THEN acc + Len(phi[c]) ELSE acc, 0, order)
  IN [b \in DOMAIN phi |-> [i \in DOMAIN phi[b] |-> next + before(b) + i - 1]]

(***************************************************************************)
(* Renaming.  The walk of the dominator tree carries a stack per name; its *)
(* top at a place is the last definition on the way down.                  *)
(***************************************************************************)
LastOf(S) == CHOOSE i \in S : \A j \in S : j <= i
RECURSIVE ReachingDef(_, _, _, _), EarlierDef(_, _, _, _, _)
\* k is [fn, f, idom, phi, params]
ReachingDef(k, b, i, n) == EarlierDef(k, AssignsIn(k.f[b], n, i - 1), b, i, n)
EarlierDef(k, earlier, b, i, n) ==
  IF earlier # {} THEN k.f[b].insts[LastOf(earlier)].args[1]
  ELSE IF n \in ToSet(k.phi[b]) THEN k.params[b][Position(k.phi[b], n)]
  ELSE IF b = Entry THEN (IF n \in ParamNames(k.fn) THEN ParamValue(k.fn, n) ELSE 0)
  ELSE ReachingDef(k, k.idom[b], Len(k.f[k.idom[b]].insts) + 1, n)

DefsAtEnd(k, b, ns) == [j \in DOMAIN ns |-> ReachingDef(k, b, Len(k.f[b].insts) + 1, ns[j])]
Gone(names, inst) == inst.op \in {"load", "assign"} /\ inst.name \in names
GoneLoads(f, names) ==
  {p \in UNION {{b} \X DOMAIN f[b].insts : b \in DOMAIN f} : f[p[1]].insts[p[2]].op = "load" /\ f[p[1]].insts[p[2]].name \in names}
DefOfLoad(k, p) == ReachingDef(k, p[1], p[2], k.f[p[1]].insts[p[2]].name)
LoadedValue(k, loads, v) == DefOfLoad(k, CHOOSE p \in loads : k.f[p[1]].insts[p[2]].dest = v)
LoadSubst(k, loads) == [v \in {k.f[p[1]].insts[p[2]].dest : p \in loads} |-> LoadedValue(k, loads, v)]
Forwarded(k, b) == [k.f[b].term EXCEPT !.args = [e \in DOMAIN @ |-> @[e] \o DefsAtEnd(k, b, k.phi[k.f[b].term.to[e]])]]
Renamed(k, names, subst) ==
  [b \in DOMAIN k.f |->
     SubstBlock(subst, Block(k.params[b], SelectSeq(k.f[b].insts, LAMBDA inst : ~Gone(names, inst)), Forwarded(k, b)))]
Undefined(blocks) ==
  \E b \in DOMAIN blocks : 0 \in TermUses(blocks[b].term) \cup UNION {InstUses(x) : x \in ToSet(blocks[b].insts)}

Fresh(phi) == FoldLeft(LAMBDA acc, b : acc + Len(phi[b]), 0, Ascending(DOMAIN phi))
PhiContext(fn, f, idom, phi, next) == [fn |-> fn, f |-> f, idom |-> idom, phi |-> phi, params |-> PhiParams(phi, next)]
RenameIn(k, names) == [blocks |-> Renamed(k, names, LoadSubst(k, GoneLoads(k.f, names))), fresh |-> Fresh(k.phi)]
PromoteNames(fn, f, idom, names, next) ==
  RenameIn(PhiContext(fn, f, idom, PhiNames(fn, f, idom, names), next), names)
(* A function that has no candidate or that a definition does not reach is left as
   it was, and so is one the verifier refuses. *)
Unpromoted(fn, next) == [fn |-> fn, next |-> next]
Accepted(fn, next, r) ==
  IF ~Undefined(r.blocks) /\ Verified([fn EXCEPT !.blocks = r.blocks])
  THEN [fn |-> [fn EXCEPT !.blocks = r.blocks], next |-> next + r.fresh] ELSE Unpromoted(fn, next)
PromoteWith(fn, f, idom, names, next) ==
  IF names = {} THEN Unpromoted(fn, next) ELSE Accepted(fn, next, PromoteNames(fn, f, idom, names, next))
PromoteOver(fn, f, idom, next) == PromoteWith(fn, f, idom, Promotable(fn, f, idom), next)
promote_inner(fn, f, next) == PromoteOver(fn, f, ImmediateDominators(f), next)

(* A function whose blocks have parameters is left alone. *)
promote_function(fn, next) ==
  IF \E b \in DOMAIN fn.blocks : fn.blocks[b].params # <<>> THEN Unpromoted(fn, next)
  ELSE promote_inner(fn, Only(fn.blocks, Reachable(fn.blocks)), next)

Replace(acc, g, r) == [m |-> [acc.m EXCEPT ![g] = r.fn], next |-> r.next]
promote_module(m) ==
  FoldLeft(LAMBDA acc, g : Replace(acc, g, promote_function(acc.m[g], acc.next)),
           [m |-> m, next |-> ModuleMaxValue(m) + 1], Ascending(DOMAIN m)).m

-----------------------------------------------------------------------------
(* Single instructions (scalar.rs, dce.rs) *)
is_pure_call(func) == func \in PureNames
Places(f) == UNION {{b} \X DOMAIN f[b].insts : b \in DOMAIN f}
InstAt(f, p) == f[p[1]].insts[p[2]]
CopyOf(inst, v) == Inst("copy", inst.dest, <<v>>, 0)

(***************************************************************************)
(* Common subexpressions.  The first place with a key in the preorder of   *)
(* the dominator tree keeps it; a later place that it dominates becomes a  *)
(* copy.  A place that it does not dominate is left and does not replace   *)
(* it.                                                                     *)
(***************************************************************************)
canonical_key(inst) ==
  IF inst.name \in {"+", "*", "==", "!=", "&"} /\ inst.args[1] > inst.args[2]
  THEN <<inst.name, inst.args[2], inst.args[1]>> ELSE <<inst.name, inst.args[1], inst.args[2]>>

\* the dominator tree from b, children in ascending order
RECURSIVE DomPreorder(_, _)
DomPreorder(idom, b) ==
  LET children == Ascending({c \in DOMAIN idom \ {b} : idom[c] = b})
  IN FoldLeft(LAMBDA acc, c : acc \o DomPreorder(idom, c), <<b>>, children)

\* the place that keeps the key of p: the first of them on the walk
EarlierOn(order, q, r) ==
  \/ Position(order, q[1]) < Position(order, r[1])
  \/ q[1] = r[1] /\ q[2] <= r[2]
FirstOn(order, same) == CHOOSE q \in same : \A r \in same : EarlierOn(order, q, r)
KeyOwner(f, order, places, p, key(_)) == FirstOn(order, {q \in places : key(InstAt(f, q)) = key(InstAt(f, p))})
ShareHit(idom, q, p) == q # p /\ (q[1] = p[1] \/ Dominates(idom, q[1], p[1]))
SharedWith(f, idom, q, p) == IF ShareHit(idom, q, p) THEN CopyOf(InstAt(f, p), InstAt(f, q).dest) ELSE InstAt(f, p)
ShareOver(f, idom, order, places, key(_)) ==
  [b \in DOMAIN f |-> [f[b] EXCEPT !.insts = [i \in DOMAIN @ |->
     IF <<b, i>> \in places THEN SharedWith(f, idom, KeyOwner(f, order, places, <<b, i>>, key), <<b, i>>) ELSE @[i]]]]
ShareIn(f, idom, eligible(_), key(_)) ==
  ShareOver(f, idom, DomPreorder(idom, Entry), {p \in Places(f) : p[1] \in DOMAIN idom /\ eligible(InstAt(f, p))}, key)
Share(f, eligible(_), key(_)) == ShareIn(f, ImmediateDominators(f), eligible, key)

eliminate_common_subexpressions(fn) ==
  [fn EXCEPT !.blocks = Share(@, LAMBDA inst : inst.op = "bin", canonical_key)]
eliminate_redundant_calls(fn) ==
  [fn EXCEPT !.blocks = Share(@, LAMBDA inst : inst.op = "call" /\ is_pure_call(inst.name),
                                 LAMBDA inst : <<inst.name>> \o inst.args)]

(***************************************************************************)
(* Algebraic simplification.  st carries what is known so far: constants   *)
(* of integer and of boolean values, values that are never negative, and   *)
(* the highest value in use.                                               *)
(***************************************************************************)
ConstMap(f, op) ==
  LET defs == {p \in Places(f) : InstAt(f, p).op = op}
  IN [v \in {InstAt(f, p).dest : p \in defs} |-> InstAt(f, CHOOSE p \in defs : InstAt(f, p).dest = v).name]
NonNegativeStep(f, S) ==
  S \cup {InstAt(f, p).dest : p \in {p \in Places(f) :
     \/ InstAt(f, p).op = "bin" /\ InstAt(f, p).name \in {"+", "*"} /\ ToSet(InstAt(f, p).args) \subseteq S
     \/ InstAt(f, p).op = "copy" /\ ToSet(InstAt(f, p).args) \subseteq S}}
RECURSIVE NonNegatives(_, _)
NonNegatives(f, S) == LET next == NonNegativeStep(f, S) IN IF next = S THEN S ELSE NonNegatives(f, next)

Known(st, v, c) == v \in DOMAIN st.ints /\ st.ints[v] = c
EmitAll(st, insts) == [st EXCEPT !.out = @ \o insts]
EmitZero(st, inst) ==
  [EmitAll(st, <<Inst("const", inst.dest, <<>>, 0)>>) EXCEPT !.ints = Set(@, inst.dest, 0), !.nonneg = @ \cup {inst.dest}]
MaskRemainder(st, inst, c) ==
  LET mask == st.max + 1
  IN [EmitAll(st, <<Inst("const", mask, <<>>, c - 1), Inst("bin", inst.dest, <<inst.args[1], mask>>, "&")>>)
        EXCEPT !.max = mask, !.ints = Set(@, mask, c - 1)]
SimplifyBin(st, inst) ==
  LET l == inst.args[1]
      r == inst.args[2]
      op == inst.name
      copy(v) == EmitAll(st, <<CopyOf(inst, v)>>)
  IN CASE op \in {"+", "-"} /\ Known(st, r, 0) -> copy(l)
       [] op = "+" /\ ~Known(st, r, 0) /\ Known(st, l, 0) -> copy(r)
       [] op = "*" /\ (Known(st, l, 0) \/ Known(st, r, 0)) -> EmitZero(st, inst)
       [] op = "*" /\ Known(st, r, 1) /\ ~Known(st, l, 0) -> copy(l)
       [] op = "*" /\ Known(st, l, 1) /\ ~Known(st, r, 0) /\ ~Known(st, r, 1) -> copy(r)
       [] op = "/" /\ Known(st, r, 1) -> copy(l)
       [] op = "%" /\ Known(st, r, 1) -> EmitZero(st, inst)
       [] op = "%" /\ r \in DOMAIN st.ints /\ PowerOfTwo(At(st.ints, r)) /\ l \in st.nonneg ->
            MaskRemainder(st, inst, st.ints[r])
       [] OTHER -> EmitAll(st, <<inst>>)
SimplifySelect(st, inst) ==
  LET c == inst.args[1]
  IN IF inst.args[2] = inst.args[3] THEN EmitAll(st, <<CopyOf(inst, inst.args[2])>>)
     ELSE IF c \in DOMAIN st.bools THEN EmitAll(st, <<CopyOf(inst, IF st.bools[c] = 1 THEN inst.args[2] ELSE inst.args[3])>>)
     ELSE EmitAll(st, <<inst>>)
SimplifyBlock(acc, b) ==
  LET st == FoldLeft(LAMBDA s, inst : IF inst.op = "bin" THEN SimplifyBin(s, inst)
                                      ELSE IF inst.op = "select" THEN SimplifySelect(s, inst) ELSE EmitAll(s, <<inst>>),
                     [acc.st EXCEPT !.out = <<>>], acc.f[b].insts)
  IN [f |-> [acc.f EXCEPT ![b].insts = st.out], st |-> st]
apply_strength_reduction(fn) ==
  LET f == fn.blocks
      ints == ConstMap(f, "const")
      st == [ints |-> ints, bools |-> ConstMap(f, "cbool"), max |-> FnMaxValue(fn), out |-> <<>>,
             nonneg |-> NonNegatives(f, {v \in DOMAIN ints : ints[v] >= 0})]
  IN [fn EXCEPT !.blocks = FoldLeft(SimplifyBlock, [f |-> f, st |-> st], Ascending(DOMAIN f)).f]

(***************************************************************************)
(* Dead instructions, one pass.  An assignment counts as a use of its      *)
(* value only when its variable is read somewhere or belongs to the        *)
(* module.                                                                 *)
(***************************************************************************)
LoadedVars(f) == {inst.name : inst \in {x \in AllInsts(f) : x.op = "load"}}
KeptVars(f) == LoadedVars(f) \cup Globals
collect_used_values(f) ==
  UNION {IF inst.op = "assign" /\ inst.name \notin KeptVars(f) THEN {} ELSE InstUses(inst) : inst \in AllInsts(f)}
  \cup UNION {TermUses(f[b].term) : b \in DOMAIN f}
PureInst(inst) == inst.op \in {"const", "cbool", "bin", "copy", "not", "load", "select"}
                  \/ (inst.op = "call" /\ is_pure_call(inst.name))
DeadInst_DropsTraps(f, used, inst) ==
  \/ inst.op = "assign" /\ inst.name \notin KeptVars(f)
  \/ PureInst(inst) /\ inst.dest \notin used
DeadInst(f, used, inst) ==
  \/ inst.op = "assign" /\ inst.name \notin KeptVars(f)
  \/ PureInst(inst) /\ ~may_trap(inst) /\ inst.dest \notin used
dead_code_elimination(fn) ==
  LET f == fn.blocks
      used == collect_used_values(f)
  IN [fn EXCEPT !.blocks = [b \in DOMAIN f |-> [f[b] EXCEPT !.insts = SelectSeq(@, LAMBDA x : ~DeadInst(f, used, x))]]]

(***************************************************************************)
(* Dead functions: what main does not reach through calls.                 *)
(***************************************************************************)
collect_calls(m, g) == {inst.name : inst \in {x \in AllInsts(m[g].blocks) : x.op = "call"}} \cap DOMAIN m
RECURSIVE CalledFrom(_, _, _)
CalledFrom(m, seen, work) ==
  IF work = {} THEN seen
  ELSE LET more == UNION {collect_calls(m, g) : g \in work} \ seen IN CalledFrom(m, seen \cup more, more)
dead_symbol_elimination(m) == [g \in CalledFrom(m, {Main}, {Main}) |-> m[g]]

-----------------------------------------------------------------------------
(* Loops (loops/mod.rs) *)
LoopDefs(f, body) == UNION {ToSet(f[b].params) \cup {inst.dest : inst \in ToSet(f[b].insts)} : b \in body}
\* the headers in the order of their first latch
FirstLatch(f, idom, h) == Ascending({e[1] : e \in {e \in BackEdges(f, idom) : e[2] = h}})[1]
LoopOrder(f, idom, heads) ==
  LET before(h, k) == \/ FirstLatch(f, idom, h) < FirstLatch(f, idom, k)
                      \/ FirstLatch(f, idom, h) = FirstLatch(f, idom, k) /\ h < k
  IN [i \in 1..Cardinality(heads) |-> CHOOSE h \in heads : Cardinality({k \in heads : before(k, h)}) = i - 1]
LoopAssigned(f, body) == {inst.name : inst \in {x \in UNION {ToSet(f[b].insts) : b \in body} : x.op = "assign"}}

(***************************************************************************)
(* Invariant code.  A load is invariant when the loop itself does not      *)
(* assign its variable; whether the loop calls something that might        *)
(* (may_alias) is computed and not asked.                                  *)
(***************************************************************************)
is_hoistable_Division(inst, assigned) ==
  \/ inst.op = "load" /\ inst.name \notin assigned
  \/ inst.op \in {"const", "cbool", "copy", "bin"}
  \/ inst.op = "call" /\ is_pure_call(inst.name)
is_hoistable(inst, assigned) ==
  \/ inst.op = "load" /\ inst.name \notin assigned
  \/ inst.op \in {"const", "cbool", "copy"}
  \/ inst.op = "bin" /\ inst.name \notin {"/", "%"}
  \/ inst.op = "call" /\ is_pure_call(inst.name)

InvariantStep(f, body, defs, S) ==
  S \cup {inst.dest : inst \in {x \in UNION {ToSet(f[b].insts) : b \in body} :
            is_hoistable(x, LoopAssigned(f, body)) /\ InstUses(x) \cap defs \subseteq S}}
RECURSIVE Invariants(_, _, _, _)
Invariants(f, body, defs, S) ==
  LET next == InvariantStep(f, body, defs, S) IN IF next = S THEN S ELSE Invariants(f, body, defs, next)

\* the body in an order in which definitions come before their uses
ordered_loop_blocks(f, header, body) ==
  LET inside == [b \in body |-> [f[b] EXCEPT !.term = [@ EXCEPT
                   !.to = SelectSeq(@, LAMBDA s : s # header /\ s \in body)]]]
  IN ReversePostOrderFrom(inside, header, FALSE)

(* The block that enters the loop, when there is one and it only branches there,
   or a new one that takes over the header's parameters. *)
Entering(f, header, body) == {b \in DOMAIN f \ body : header \in ToSet(f[b].term.to)}
Redirect(block, from, to) == [block EXCEPT !.term.to = [e \in DOMAIN @ |-> IF @[e] = from THEN to ELSE @[e]]]
NewPreheader(fn, header, body, new, fresh) ==
  [fn EXCEPT !.blocks = [b \in DOMAIN @ \cup {new} |->
     IF b = new THEN Block(fresh, <<>>, Branch(header, fresh))
     ELSE IF b \in body THEN fn.blocks[b] ELSE Redirect(fn.blocks[b], header, new)]]
OnlyBranches(f, entering) == Cardinality(entering) = 1 /\ \A b \in entering : f[b].term.kind = "branch"
PreheaderAmong(fn, header, body, entering, new) ==
  IF entering = {} THEN [fn |-> fn, at |-> 0]
  ELSE IF OnlyBranches(fn.blocks, entering) THEN [fn |-> fn, at |-> CHOOSE b \in entering : TRUE]
  ELSE [fn |-> NewPreheader(fn, header, body, new, [i \in DOMAIN fn.blocks[header].params |-> FnMaxValue(fn) + i]), at |-> new]
ensure_preheader(fn, header, body) ==
  PreheaderAmong(fn, header, body, Entering(fn.blocks, header, body), Max(DOMAIN fn.blocks) + 1)

\* the loops with something to hoist, and one round on the first of them
InstsDefining(f, blocks, dests) ==
  FoldLeft(LAMBDA acc, b : acc \o SelectSeq(f[b].insts, LAMBDA x : x.dest \in dests), <<>>, blocks)
HoistOver(f, h, body) ==
  InstsDefining(f, ordered_loop_blocks(f, h, body), Invariants(f, body, LoopDefs(f, body), {}) \ {0})
HoistPlan(f, idom, h) == HoistOver(f, h, NaturalLoop(f, idom, h))
Hoistable(f, idom) == {h \in LoopHeaders(f, idom) \ {Entry} : HoistPlan(f, idom, h) # <<>>}
Placed(block, inLoop, isPre, hoisted, gone) ==
  IF inLoop THEN [block EXCEPT !.insts = SelectSeq(@, LAMBDA x : x.dest \notin gone)]
  ELSE IF isPre THEN [block EXCEPT !.insts = @ \o hoisted] ELSE block
Dests(insts) == {insts[i].dest : i \in DOMAIN insts}
Moved(fn, pre, body, hoisted, gone) ==
  IF pre.at = 0 THEN fn
  ELSE [fn EXCEPT !.blocks = [b \in DOMAIN pre.fn.blocks |-> Placed(pre.fn.blocks[b], b \in body, b = pre.at, hoisted, gone)]]
MovePlan(fn, h, body, hoisted) == Moved(fn, ensure_preheader(fn, h, body), body, hoisted, Dests(hoisted))
HoistLoop(fn, h, body) == MovePlan(fn, h, body, HoistOver(fn.blocks, h, body))
HoistHeader(fn, idom, h) == HoistLoop(fn, h, NaturalLoop(fn.blocks, idom, h))
HoistFirst(fn, idom, heads) == IF heads = {} THEN fn ELSE HoistHeader(fn, idom, LoopOrder(fn.blocks, idom, heads)[1])
LicmOver(fn, idom) == HoistFirst(fn, idom, Hoistable(fn.blocks, idom))
LicmRound(fn) == LicmOver(fn, ImmediateDominators(fn.blocks))
RECURSIVE LicmRepeat(_, _, _)
LicmRepeat(fn, next, rounds) ==
  IF rounds = 0 \/ next = fn THEN fn ELSE LicmRepeat(next, LicmRound(next), rounds - 1)
licm_pass(fn) == LicmRepeat(fn, LicmRound(fn), LicmRounds)

(***************************************************************************)
(* Products and quotients computed before a loop reach its body through    *)
(* parameters of the header; a latch sends them round through a choice     *)
(* that cannot be folded into the value.                                   *)
(***************************************************************************)
Costly(f) == {inst.dest : inst \in {x \in AllInsts(f) : x.op = "bin" /\ x.name \in {"*", "/"}}}
DefCost(f, v) == LET d == CHOOSE x \in AllInsts(f) : x.dest = v IN IF d.name = "/" THEN 30 ELSE 10
SourceOperands(inst) == IF inst.op = "out" THEN {} ELSE InstUses(inst)
ForwardedUses(f, body, latches) ==
  UNION {UNION {SourceOperands(inst) : inst \in ToSet(f[b].insts)} \cup (IF b \in latches THEN {} ELSE TermUses(f[b].term)) :
         b \in body}
\* the dearest first, at most ForwardCap of them
FirstOf(seq, n) == SubSeq(seq, 1, IF Len(seq) > n THEN n ELSE Len(seq))
Dearest(f, all) == Ascending({v \in all : DefCost(f, v) = 30}) \o Ascending({v \in all : DefCost(f, v) = 10})
ForwardList(f, body, latches) ==
  FirstOf(Dearest(f, (ForwardedUses(f, body, latches) \cap Costly(f)) \ LoopDefs(f, body)), ForwardCap)
ForwardLatch(block, h, params, next) ==
  LET picks == [i \in DOMAIN params |-> Inst("select", next + i, <<next, params[i], params[i]>>, 0)]
  IN [block EXCEPT !.insts = @ \o <<Inst("cbool", next, <<>>, 1)>> \o picks,
                   !.term.args = [e \in DOMAIN @ |-> IF block.term.to[e] = h
                                                     THEN @[e] \o [i \in DOMAIN params |-> next + i] ELSE @[e]]]
EnterWith(block, h, inv) ==
  [block EXCEPT !.term.args = [e \in DOMAIN @ |-> IF block.term.to[e] = h THEN @[e] \o inv ELSE @[e]]]
Outside(block, h, inv) == IF h \in ToSet(block.term.to) THEN EnterWith(block, h, inv) ELSE block
WithParams(block, isHeader, params) == IF isHeader THEN [block EXCEPT !.params = @ \o params] ELSE block
LatchBase(latches, b, first, n) == first + n + Cardinality({c \in latches : c < b}) * (n + 1)
ForwardBlock(f, b, h, latches, params, subst, first) ==
  IF b \in latches THEN ForwardLatch(SubstBlock(subst, f[b]), h, params, LatchBase(latches, b, first, Len(params)))
  ELSE SubstBlock(subst, f[b])
ForwardInto(fn, h, body, latches, inv, params, first) ==
  LET subst == SetAll(<<>>, inv, params)
  IN [fn EXCEPT !.blocks = [b \in DOMAIN @ |->
        IF b \in body THEN WithParams(ForwardBlock(@, b, h, latches, params, subst, first), b = h, params)
        ELSE Outside(@[b], h, inv)]]
ForwardThese(fn, h, body, latches, inv, first) ==
  IF inv = <<>> THEN fn ELSE ForwardInto(fn, h, body, latches, inv, [i \in DOMAIN inv |-> first + i - 1], first)
ForwardOver(fn, h, body, latches) ==
  ForwardThese(fn, h, body, latches, ForwardList(fn.blocks, body, latches), FnMaxValue(fn) + 1)
Latches(f, idom, h) == {e[1] : e \in {e \in BackEdges(f, idom) : e[2] = h}}
ForwardLoop(fn, idom, h) == ForwardOver(fn, h, NaturalLoop(fn.blocks, idom, h), Latches(fn.blocks, idom, h))
ForwardAll(fn, idom) ==
  FoldLeft(LAMBDA acc, h : ForwardLoop(acc, idom, h), fn, LoopOrder(fn.blocks, idom, LoopHeaders(fn.blocks, idom) \ {Entry}))
forward_invariants_pass(fn) == ForwardAll(fn, ImmediateDominators(fn.blocks))
=============================================================================
