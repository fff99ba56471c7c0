------------------------------ MODULE Lifetime ------------------------------
(***************************************************************************)
(* Memory without a collector: the release of an object after its last use *)
(* (src/src/ownership/dataflow.rs, fresh.rs) and the choice between the    *)
(* stack and the heap (region.rs).  Both are decided on the DMIR of a      *)
(* module; the module is then executed with the releases in place.  At the *)
(* end, the plan that leaves cyclic classes to a region (tmm.rs).          *)
(*                                                                         *)
(* A module maps names to functions [ret, blocks].  Operations: "new"      *)
(* creates an object of class `name` with the fields `args`; "load" and    *)
(* "assign" read and bind variables; "getfield", "setfield" (object,       *)
(* value), "method" (receiver, arguments...), "call".                      *)
(***************************************************************************)
EXTENDS Dmir

CONSTANTS Modules, Globals, CyclicClasses, ArcClasses, MaxSteps

VARIABLES lfMod, lfPhase, lfStack, lfHeap, lfGlobals, lfSteps
lfVars == <<lfMod, lfPhase, lfStack, lfHeap, lfGlobals, lfSteps>>

ReleaseCalls == {"destroy", "drop"}            \* by the user
InsertedCalls == {"datara_rt_free", "datara_rt_arc_release"}
IdentityCalls == {"datara_rt_arc_acquire"}
TermIndex == 99

-----------------------------------------------------------------------------
(* Facts of one function *)

Places(f) == UNION {{b} \X DOMAIN f[b].insts : b \in DOMAIN f}
InstAt(f, p) == f[p[1]].insts[p[2]]
Before(p, q) == p[1] < q[1] \/ (p[1] = q[1] /\ p[2] < q[2])
LastOf(places) == CHOOSE p \in places : \A q \in places : p = q \/ Before(q, p)

(* How an instruction uses v. *)
KindsOf(inst, v) ==
    CASE inst.op = "new" -> IF v \in ToSet(inst.args) THEN {"stored"} ELSE {}
      [] inst.op = "call" /\ inst.name \in InsertedCalls -> {}
      [] inst.op = "call" /\ inst.name \in ReleaseCalls ->
            IF inst.args[1] = v THEN {"manual"} ELSE {}
      [] inst.op = "call" /\ inst.name \notin InsertedCalls \cup ReleaseCalls ->
            IF v \in ToSet(inst.args) THEN {"arg"} ELSE {}
      [] inst.op = "method" ->
            (IF inst.args[1] = v THEN {IF inst.name \in ReleaseCalls THEN "manual" ELSE "read"} ELSE {})
              \cup (IF v \in ToSet(Tail(inst.args)) THEN {"arg"} ELSE {})
      [] inst.op = "assign" -> IF inst.args[1] = v THEN {"alias"} ELSE {}
      [] inst.op = "setfield" -> (IF inst.args[1] = v THEN {"read"} ELSE {})
                                   \cup (IF inst.args[2] = v THEN {"stored"} ELSE {})
      [] OTHER -> IF v \in ToSet(inst.args) THEN {"read"} ELSE {}

ReturnUses(f, v) ==
    {[at |-> <<b, TermIndex>>, kind |-> "returned"] :
        b \in {b \in DOMAIN f : f[b].term.kind = "return" /\ v \in ToSet(f[b].term.uses)}}
TerminatorUses(f, v) == {b \in DOMAIN f : f[b].term.kind # "return" /\ v \in TermUses(f[b].term)}

(* Uses of v, and of what was read out of its fields (8 rounds). *)
RECURSIVE ValueUses(_, _, _)
ValueUses(f, v, rounds) ==
    LET own == UNION {{[at |-> p, kind |-> k] : k \in KindsOf(InstAt(f, p), v)} : p \in Places(f)}
        views == {InstAt(f, p).dest : p \in {p \in Places(f) :
                     InstAt(f, p).op = "getfield" /\ InstAt(f, p).args[1] = v}}
    IN  own \cup ReturnUses(f, v)
          \cup (IF rounds = 0 THEN {} ELSE UNION {ValueUses(f, w, rounds - 1) : w \in views})

Bindings(f) == {p \in Places(f) : InstAt(f, p).op = "assign"}
BoundValue(f, p) == InstAt(f, p).args[1]
DefsOf(f, x) == {p \in Bindings(f) : InstAt(f, p).name = x}
(* The variable v is a copy of, by a load. *)
CopyOf(f, v) ==
    LET loads == {p \in Places(f) : InstAt(f, p).op = "load" /\ InstAt(f, p).dest = v}
    IN  IF loads = {} THEN "none" ELSE InstAt(f, CHOOSE p \in loads : TRUE).name

(* The object a value stands for: created here, or returned by a function that
   hands over a fresh object; 0 for a copy or anything else. *)
RECURSIVE ResolveCreation(_, _, _)
ResolveCreation(f, fresh, v) ==
    LET def == {InstAt(f, p) : p \in {p \in Places(f) : InstAt(f, p).dest = v}}
    IN  IF v = 0 \/ def = {} THEN [value |-> 0, class |-> "none"]
        ELSE LET inst == CHOOSE i \in def : TRUE
             IN  CASE inst.op = "new" -> [value |-> v, class |-> inst.name]
                   [] inst.op = "call" /\ inst.name \in DOMAIN fresh ->
                         [value |-> v, class |-> fresh[inst.name]]
                   [] inst.op = "call" /\ inst.name \in IdentityCalls ->
                         ResolveCreation(f, fresh, inst.args[1])
                   [] OTHER -> [value |-> 0, class |-> "none"]

-----------------------------------------------------------------------------
(* The functions that return a fresh object (fresh.rs) *)

RECURSIVE ReturnClass(_, _, _, _)
ReturnClass(f, fresh, v, depth) ==
    LET here == ResolveCreation(f, fresh, v).class
        x == CopyOf(f, v)
        classes == {ReturnClass(f, fresh, BoundValue(f, p), depth + 1) : p \in DefsOf(f, x)}
    IN  CASE depth > 4 -> "none"
          [] depth <= 4 /\ here # "none" -> here
          [] OTHER -> IF x # "none" /\ Cardinality(classes) = 1
                      THEN CHOOSE c \in classes : TRUE ELSE "none"

ReturnsFresh(fn, fresh) ==
    LET f == fn.blocks
        returned == UNION {ToSet(f[b].term.uses) : b \in {b \in DOMAIN f : f[b].term.kind = "return"}}
    IN  /\ fn.ret \notin {"", "Int"} \cup ArcClasses \cup CyclicClasses
        /\ returned # {}
        /\ \A v \in returned : ReturnClass(f, fresh, v, 0) = fn.ret

RECURSIVE FreshSet(_, _)
FreshSet(m, fresh) ==
    LET all == {n \in DOMAIN m : n \in DOMAIN fresh \/ ReturnsFresh(m[n], fresh)}
    IN  IF all = DOMAIN fresh THEN fresh ELSE FreshSet(m, [n \in all |-> m[n].ret])

-----------------------------------------------------------------------------
(* Release decisions (analyze_function_inner) *)

RECURSIVE Reach(_, _, _)
Reach(f, seen, work) ==
    IF work = {} THEN seen
    ELSE LET more == UNION {ToSet(f[b].term.to) : b \in work} \ seen
         IN  Reach(f, seen \cup more, more)
CycleBlocks(f) == {b \in DOMAIN f : b \in Reach(f, ToSet(f[b].term.to), ToSet(f[b].term.to))}

WindowEnd(f, x, p) ==
    LET later == {q \in DefsOf(f, x) : Before(p, q)}
    IN  IF later = {} THEN <<TermIndex, TermIndex>>
        ELSE CHOOSE q \in later : \A r \in later : q = r \/ Before(q, r)
InWindow(f, x, p, q) == Before(p, q) /\ Before(q, WindowEnd(f, x, p))

(* The definition at p was copied into another variable. *)
CopiedAway(f, x, p) ==
    \E q \in Bindings(f) : CopyOf(f, BoundValue(f, q)) = x /\ (q = p \/ InWindow(f, x, p, q))

(* Uses of the object bound at p, direct or through loads of the variable. *)
WindowUses(f, x, p) ==
    {u \in ValueUses(f, BoundValue(f, p), 8) : InWindow(f, x, p, u.at)}
      \cup UNION {{u \in ValueUses(f, InstAt(f, q).dest, 8) : Before(u.at, WindowEnd(f, x, p))} :
                    q \in {q \in Places(f) : /\ InstAt(f, q).op = "load" /\ InstAt(f, q).name = x
                                             /\ InWindow(f, x, p, q)}}

(* Variant: an object that is passed to a call is not kept. *)
EscapesByUse_IgnoresCalls(f, x, p, u) ==
    \/ u.at[1] # p[1]
    \/ u.kind \in {"returned", "stored", "manual"}
    \/ u.kind = "alias" /\ \E q \in Bindings(f) :
          BoundValue(f, q) = BoundValue(f, p) /\ InstAt(f, q).name # x

EscapesByUse(f, x, p, u) ==
    \/ u.at[1] # p[1]
    \/ u.kind \in {"returned", "stored", "arg", "manual"}
    \/ u.kind = "alias" /\ \E q \in Bindings(f) :
          BoundValue(f, q) = BoundValue(f, p) /\ InstAt(f, q).name # x

WindowEscapes(f, p) ==
    LET x == InstAt(f, p).name
    IN  \/ x \in Globals
        \/ CopiedAway(f, x, p)
        \/ p[1] \in CycleBlocks(f)
        \/ \E u \in WindowUses(f, x, p) : EscapesByUse(f, x, p, u)
        \/ TerminatorUses(f, BoundValue(f, p)) # {}

(* After the last use of the last window; every window must be sound and all be
   in one block.  Objects of cyclic classes belong to their region. *)
Releases(f, fresh) ==
    LET canon(p) == ResolveCreation(f, fresh, BoundValue(f, p))
        objects == {canon(p) : p \in Bindings(f)} \ {[value |-> 0, class |-> "none"]}
        windows(o) == {p \in Bindings(f) : canon(p) = o}
        sound(o) == /\ o.class \notin CyclicClasses
                    /\ \A p \in windows(o) : ~WindowEscapes(f, p)
                    /\ \A p, q \in windows(o) : p[1] = q[1]
        lastUse(p) == LastOf({p} \cup {u.at : u \in WindowUses(f, InstAt(f, p).name, p)})
    IN  {[value |-> o.value, after |-> lastUse(LastOf(windows(o))),
          call |-> IF o.class \in ArcClasses THEN "datara_rt_arc_release" ELSE "datara_rt_free"] :
            o \in {o \in objects : sound(o)}}

(* Splices the releases from the end of each block to its beginning. *)
InsertAfter(insts, rels, b) ==
    LET at(i) == SetToSeq({r \in rels : r.after = <<b, i>>})
        calls(i, fresh) == [k \in DOMAIN at(i) |-> Inst("call", fresh + k, <<at(i)[k].value>>, at(i)[k].call)]
    IN  FlattenSeq([i \in DOMAIN insts |-> <<insts[i]>> \o calls(i, 1000 * b + 10 * i)])

InsertReleases(fn, fresh) ==
    LET rels == Releases(fn.blocks, fresh)
    IN  [fn EXCEPT !.blocks = [b \in DOMAIN @ |-> [@[b] EXCEPT !.insts = InsertAfter(@, rels, b)]]]

-----------------------------------------------------------------------------
(* Stack or heap (compute_escape_set, with the seeds both backends ask for) *)

(* Values that may be the same object: a load joins what was ever bound to the
   variable, unless it is a global. *)
RECURSIVE AliasClass(_, _)
AliasClass(f, vs) ==
    LET values(x) == {BoundValue(f, p) : p \in DefsOf(f, x)}
        loads(x) == {InstAt(f, p).dest : p \in {p \in Places(f) :
                        InstAt(f, p).op = "load" /\ InstAt(f, p).name = x}}
        names == {InstAt(f, p).name : p \in Bindings(f)} \ Globals
        more == vs \cup UNION {values(x) \cup loads(x) : x \in {x \in names :
                                 loads(x) # {} /\ (values(x) \cup loads(x)) \cap vs # {}}}
    IN  IF more = vs THEN vs ELSE AliasClass(f, more)

IsCyclic(f, v) ==
    \E p \in Places(f) : /\ InstAt(f, p).op = "new" /\ InstAt(f, p).name \in CyclicClasses
                         /\ InstAt(f, p).dest \in AliasClass(f, {v})

(* Variant: what is stored in a cyclic object is no seed. *)
EscapeSeed_StoresFree(f, inst) ==
    CASE inst.op \in {"call", "method"} -> ToSet(inst.args)
      [] inst.op = "assign" ->
            IF IsCyclic(f, inst.args[1]) /\ inst.name \notin Globals THEN {} ELSE {inst.args[1]}
      [] OTHER -> {}

EscapeSeed(f, inst) ==
    CASE inst.op \in {"call", "method"} -> ToSet(inst.args)
      [] inst.op = "assign" ->
            IF IsCyclic(f, inst.args[1]) /\ inst.name \notin Globals THEN {} ELSE {inst.args[1]}
      [] inst.op = "setfield" ->
            IF IsCyclic(f, inst.args[1]) /\ IsCyclic(f, inst.args[2]) THEN {} ELSE {inst.args[2]}
      [] inst.op = "new" -> {v \in ToSet(inst.args) : ~(IsCyclic(f, inst.dest) /\ IsCyclic(f, v))}
      [] OTHER -> {}

(* Cyclic objects stored in an escaping object escape with it. *)
RECURSIVE Propagate(_, _)
Propagate(f, escaped) ==
    LET stored(inst) == IF inst.op = "setfield" THEN {inst.args[2]} ELSE ToSet(inst.args)
        parent(inst) == IF inst.op = "setfield" THEN inst.args[1] ELSE inst.dest
        children == UNION {stored(InstAt(f, p)) : p \in {p \in Places(f) :
                       InstAt(f, p).op \in {"setfield", "new"} /\ parent(InstAt(f, p)) \in escaped}}
        more == escaped \cup UNION {AliasClass(f, {v}) : v \in {v \in children : IsCyclic(f, v)}}
    IN  IF more = escaped THEN escaped ELSE Propagate(f, more)

EscapeSet(f) ==
    LET seeds == UNION {EscapeSeed(f, InstAt(f, p)) : p \in Places(f)}
                   \cup UNION {ToSet(f[b].term.uses) : b \in {b \in DOMAIN f : f[b].term.kind = "return"}}
    IN  Propagate(f, UNION {AliasClass(f, {v}) : v \in seeds})

(* A function that returns a class creates the objects of that class on the heap. *)
OnHeap(fn, inst) == inst.dest \in EscapeSet(fn.blocks) \/ fn.ret = inst.name

-----------------------------------------------------------------------------
(* Execution.  A value or variable holds the number of an object, 0 if none. *)

Frame(fn, dest) ==
    [fn |-> fn, b |-> Entry, i |-> 1, vals |-> [v \in {} |-> 0], vars |-> [x \in {} |-> 0], dest |-> dest]
Top == lfStack[Len(lfStack)]
TopInst == lfMod[Top.fn].blocks[Top.b].insts[Top.i]
AtInst == lfStack # <<>> /\ Top.i <= Len(lfMod[Top.fn].blocks[Top.b].insts)
ObjectOf(v) == IF v \in DOMAIN Top.vals THEN Top.vals[v] ELSE 0
Bind(map, k, o) == [j \in DOMAIN map \cup {k} |-> IF j = k THEN o ELSE map[j]]
Advance(vals, vars) == [lfStack EXCEPT ![Len(lfStack)] = [@ EXCEPT !.vals = vals, !.vars = vars, !.i = @ + 1]]

LifetimeInit ==
    /\ lfMod \in Modules
    /\ lfPhase = "analyse"
    /\ lfStack = <<>>
    /\ lfHeap = <<>>
    /\ lfGlobals = [g \in Globals |-> 0]
    /\ lfSteps = 0

(* insert_releases over the whole module, with one context for all functions. *)
Analyse ==
    /\ lfPhase = "analyse"
    /\ lfMod' = [n \in DOMAIN lfMod |-> InsertReleases(lfMod[n], FreshSet(lfMod, [x \in {} |-> ""]))]
    /\ lfPhase' = "run"
    /\ lfStack' = <<Frame("main", 0)>>
    /\ UNCHANGED <<lfHeap, lfGlobals, lfSteps>>

Tick == lfPhase = "run" /\ lfSteps < MaxSteps /\ lfSteps' = lfSteps + 1 /\ UNCHANGED lfPhase

Create ==
    /\ AtInst /\ TopInst.op = "new"
    /\ lfHeap' = Append(lfHeap, [state |-> "live", heap |-> OnHeap(lfMod[Top.fn], TopInst),
                                 frame |-> Len(lfStack),
                                 fields |-> {ObjectOf(v) : v \in ToSet(TopInst.args)} \ {0}])
    /\ lfStack' = Advance(Bind(Top.vals, TopInst.dest, Len(lfHeap) + 1), Top.vars)
    /\ UNCHANGED <<lfMod, lfGlobals>>

ReadWrite ==
    /\ AtInst /\ TopInst.op \in {"load", "assign", "getfield", "setfield", "method", "use"}
    /\ LET inst == TopInst
           o    == IF inst.args = <<>> THEN 0 ELSE ObjectOf(inst.args[1])
           new  == CASE inst.op = "load" ->
                          IF inst.name \in Globals THEN lfGlobals[inst.name]
                          ELSE IF inst.name \in DOMAIN Top.vars THEN Top.vars[inst.name] ELSE 0
                     [] inst.op = "getfield" ->
                          IF o = 0 \/ lfHeap[o].fields = {} THEN 0
                          ELSE CHOOSE c \in lfHeap[o].fields : TRUE
                     [] OTHER -> 0
           local == inst.op = "assign" /\ inst.name \notin Globals
       IN  /\ lfStack' = Advance(IF inst.dest = 0 THEN Top.vals ELSE Bind(Top.vals, inst.dest, new),
                                 IF local THEN Bind(Top.vars, inst.name, o) ELSE Top.vars)
           /\ lfGlobals' = IF inst.op = "assign" /\ ~local
                           THEN [lfGlobals EXCEPT ![inst.name] = o] ELSE lfGlobals
           /\ lfHeap' = IF inst.op = "setfield" /\ o # 0
                        THEN [lfHeap EXCEPT ![o].fields = {ObjectOf(inst.args[2])} \ {0}] ELSE lfHeap
    /\ UNCHANGED lfMod

(* The releases, the user's own, a callee outside the module that keeps its
   argument in a global, and functions of the module. *)
Call ==
    /\ AtInst /\ TopInst.op = "call"
    /\ LET inst == TopInst
           o    == IF inst.args = <<>> THEN 0 ELSE ObjectOf(inst.args[1])
       IN  CASE inst.name \in InsertedCalls \cup ReleaseCalls ->
                  /\ lfHeap' = IF o = 0 THEN lfHeap ELSE [lfHeap EXCEPT ![o].state =
                                  IF inst.name \in ReleaseCalls THEN "manual" ELSE "freed"]
                  /\ lfStack' = Advance(Bind(Top.vals, inst.dest, 0), Top.vars)
                  /\ UNCHANGED lfGlobals
             [] inst.name = "keep" ->
                  /\ lfGlobals' = [lfGlobals EXCEPT !["h"] = o]
                  /\ lfStack' = Advance(Bind(Top.vals, inst.dest, 0), Top.vars)
                  /\ UNCHANGED lfHeap
             [] inst.name \in IdentityCalls ->
                  /\ lfStack' = Advance(Bind(Top.vals, inst.dest, o), Top.vars)
                  /\ UNCHANGED <<lfHeap, lfGlobals>>
             [] OTHER ->
                  /\ lfStack' = Append(lfStack, Frame(inst.name, inst.dest))
                  /\ UNCHANGED <<lfHeap, lfGlobals>>
    /\ UNCHANGED lfMod

Jump ==
    /\ lfStack # <<>> /\ ~AtInst
    /\ \E t \in ToSet(lfMod[Top.fn].blocks[Top.b].term.to) :
          lfStack' = [lfStack EXCEPT ![Len(lfStack)] = [@ EXCEPT !.b = t, !.i = 1]]
    /\ UNCHANGED <<lfMod, lfHeap, lfGlobals>>

(* The frame goes, and with it what was created on the stack. *)
ReturnFrom ==
    /\ lfStack # <<>> /\ ~AtInst
    /\ lfMod[Top.fn].blocks[Top.b].term.to = <<>>
    /\ LET uses   == lfMod[Top.fn].blocks[Top.b].term.uses
           result == IF uses = <<>> THEN 0 ELSE ObjectOf(uses[1])
           below  == Front(lfStack)
           n      == Len(below)
       IN  lfStack' = IF below = <<>> THEN <<>>
                      ELSE [below EXCEPT ![n] = [@ EXCEPT !.vals = Bind(@, Top.dest, result), !.i = @ + 1]]
    /\ lfHeap' = [o \in DOMAIN lfHeap |->
                    IF lfHeap[o].frame = Len(lfStack) /\ ~lfHeap[o].heap /\ lfHeap[o].state = "live"
                    THEN [lfHeap[o] EXCEPT !.state = "gone"] ELSE lfHeap[o]]
    /\ UNCHANGED <<lfMod, lfGlobals>>

LifetimeNext == Analyse \/ (Tick /\ (Create \/ ReadWrite \/ Call \/ Jump \/ ReturnFrom))
LifetimeSpec == LifetimeInit /\ [][LifetimeNext]_lfVars

-----------------------------------------------------------------------------
(* The objects the next instruction touches. *)
Touched ==
    IF ~AtInst THEN {}
    ELSE LET inst == TopInst
         IN  CASE inst.op \in {"getfield", "method", "setfield"} -> {ObjectOf(v) : v \in ToSet(inst.args)} \ {0}
               [] inst.op = "call" /\ inst.name \notin InsertedCalls ->
                     {ObjectOf(v) : v \in ToSet(inst.args)} \ {0}
               [] OTHER -> {}
Released ==
    IF AtInst /\ TopInst.op = "call" /\ TopInst.name \in InsertedCalls
    THEN {ObjectOf(TopInst.args[1])} ELSE {}

(* "a missed use is a use-after-free" (dataflow.rs): no instruction touches an
   object that an inserted release has freed, and an inserted release frees a
   live object of the heap, once. *)
ReleasesAreSound ==
    /\ \A o \in Touched : lfHeap[o].state # "freed"
    /\ \A o \in Released : o # 0 => lfHeap[o].state = "live" /\ lfHeap[o].heap

(* "a heap object must never hold a pointer into a dead frame" (region.rs): no
   instruction touches an object whose frame has returned. *)
NoDeadFrame == \A o \in Touched : lfHeap[o].state # "gone"

-----------------------------------------------------------------------------
(***************************************************************************)
(* The memory plan of a program's classes (src/src/ownership/tmm.rs): the  *)
(* layer of a class, its strong and weak fields, the classes left to a     *)
(* region because they own each other in a cycle, and the error for cycles *)
(* of counted classes.  A type synonym stands for the class it names.      *)
(***************************************************************************)

CONSTANTS Classes       \* names of the classes, as a sequence in their order

VARIABLES tmmLayer,     \* class -> "arc", "autofree" or "dataflow"
          tmmFields,    \* class -> sequence of [to, weak]
          tmmCyclic,    \* cyclic_dataflow_classes
          tmmReported,  \* member sets of the cycles reported by detect_arc_cycles
          tmmDone
tmmVars == <<tmmLayer, tmmFields, tmmCyclic, tmmReported, tmmDone>>

ClassSet == ToSet(Classes)
Strong(c) == SelectSeq(tmmFields[c], LAMBDA e : ~e.weak)

(* Strong edges between classes of the dataflow layer. *)
Neighbors(c) == {e.to : e \in ToSet(Strong(c))} \cap {d \in ClassSet : tmmLayer[d] = "dataflow"}

(* Variant: only direct fields are followed. *)
LeadsBack_OneHop(start, stack, visited) ==
    \E cur \in stack : start \in Neighbors(cur)

(* The walk from the neighbours of start: does one of the classes on it have
   start as a neighbour? *)
RECURSIVE LeadsBack(_, _, _)
LeadsBack(start, stack, visited) ==
    /\ stack # {}
    /\ \/ \E cur \in stack : start \in Neighbors(cur)
       \/ LET more == UNION {Neighbors(cur) : cur \in stack} \ visited
          IN  LeadsBack(start, more, visited \cup more)

CyclicDataflowClasses ==
    {c \in ClassSet : tmmLayer[c] = "dataflow" /\ LeadsBack(c, Neighbors(c), {})}

(* Depth-first walk along strong fields, each edge once; an edge into the path
   closes a cycle, which is reported unless its members already were.  The
   result is [visited, reported]. *)
RECURSIVE DfsCycle(_, _, _)
DfsEdge(class, path, acc, edge) ==
    LET pos == {i \in DOMAIN path : path[i] = edge.to}
        now == [acc EXCEPT !.visited = @ \cup {<<class, edge.to>>}]
    IN  CASE <<class, edge.to>> \in acc.visited -> acc
          [] <<class, edge.to>> \notin acc.visited /\ pos # {} ->
                LET first == CHOOSE i \in pos : \A j \in pos : i <= j
                IN  [now EXCEPT !.reported = @ \cup {ToSet(SubSeq(path, first, Len(path)))}]
          [] OTHER -> IF edge.to \in ClassSet
                      THEN DfsCycle(edge.to, Append(path, edge.to), now) ELSE now

DfsCycle(class, path, acc) ==
    FoldLeft(LAMBDA a, e : DfsEdge(class, path, a, e), acc, Strong(class))

(* From every counted class, with the edges unvisited again. *)
DetectArcCycles ==
    FoldLeft(LAMBDA reported, c :
                IF tmmLayer[c] # "arc" THEN reported
                ELSE DfsCycle(c, <<c>>, [visited |-> {}, reported |-> reported]).reported,
             {}, Classes)

FieldLists == {<<>>} \cup {<<e>> : e \in [to : ClassSet, weak : BOOLEAN]}
                \cup {<<[to |-> c, weak |-> FALSE], [to |-> d, weak |-> FALSE]>> :
                        <<c, d>> \in {p \in ClassSet \X ClassSet : p[1] # p[2]}}

TmmInit ==
    /\ tmmLayer \in [ClassSet -> {"arc", "autofree", "dataflow"}]
    /\ tmmFields \in [ClassSet -> FieldLists]
    /\ tmmCyclic = {} /\ tmmReported = {} /\ tmmDone = FALSE

PlanClasses ==
    /\ ~tmmDone
    /\ tmmCyclic' = CyclicDataflowClasses
    /\ tmmReported' = DetectArcCycles
    /\ tmmDone' = TRUE
    /\ UNCHANGED <<tmmLayer, tmmFields>>

-----------------------------------------------------------------------------
(* Owning paths, by definition: the transitive closure of the strong fields of a
   set of classes. *)
Owns(inside) ==
    LET edge == {<<c, d>> \in ClassSet \X ClassSet :
                   c \in inside /\ d \in inside /\ \E e \in ToSet(Strong(c)) : e.to = d}
        join(r) == r \cup {<<p[1], q[2]>> : <<p, q>> \in {<<p, q>> \in r \X r : p[2] = q[1]}}
    IN  join(join(edge))

(* An object of a class that owns itself along dataflow fields is never released
   (no release order exists), every other one may be; and a strong cycle that a
   counted class reaches is always an error, whatever walked over its edges
   before ("leaks deterministically", tmm.rs). *)
CyclesFound ==
    tmmDone =>
        /\ tmmCyclic = {c \in ClassSet : <<c, c>> \in Owns({d \in ClassSet : tmmLayer[d] = "dataflow"})}
        /\ (tmmReported # {}) <=>
              \E a, c \in ClassSet : /\ tmmLayer[a] = "arc"
                                     /\ a = c \/ <<a, c>> \in Owns(ClassSet)
                                     /\ <<c, c>> \in Owns(ClassSet)
        /\ \A members \in tmmReported : \A c \in members : <<c, c>> \in Owns(ClassSet)
=============================================================================
