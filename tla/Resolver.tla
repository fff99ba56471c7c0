------------------------------ MODULE Resolver ------------------------------
(***************************************************************************)
(* Name resolution: the declarations of a program are registered in order, *)
(* behaviors and hierarchies are merged into the classes, and the bodies   *)
(* are walked with a stack of scopes.                                      *)
(*                                                                         *)
(* A declaration is a record with its kind k, its name n, the file it is   *)
(* in and whether it is exported; a type also has base (<<>> or <<name>>), *)
(* comps (what it is composed of), fields and methods, each method         *)
(* [n, params, body, replaces].  A member is remembered with the place of  *)
(* the declaration it comes from.  A symbol is [file, export]; file 0 is   *)
(* the prelude.  Classes have numbers so that their order is that of the   *)
(* sorted names.                                                           *)
(***************************************************************************)
EXTENDS Syntax, FiniteSets

CONSTANTS
  Prelude,      \* the names of the global scope before any declaration
  ThisName, SelfName, SizeOfName,
  SelfVar,      \* self; SelfName is Self, the type
  StaticCtors   \* the pairs of a prelude class and its constructor

Symbol(d) == [file |-> d.file, export |-> d.export]
Put(f, n, v) == (n :> v) @@ f
NoDecl == [base |-> <<>>, comps |-> <<>>, fields |-> <<>>, methods |-> <<>>, file |-> 0, export |-> TRUE]
Initially ==
  [classes |-> <<>>, components |-> <<>>, roles |-> <<>>, functions |-> {}, enums |-> {}, aliases |-> {}, modules |-> {},
   scopes |-> <<[n \in Prelude |-> [file |-> 0, export |-> TRUE]]>>, target |-> 0, errs |-> {}]

Err(r, code, n) == [r EXCEPT !.errs = @ \cup {<<code, n>>}]
DefineGlobal(r, n, sym) == [r EXCEPT !.scopes[1] = Put(@, n, sym)]
define_local(r, n, file) == [r EXCEPT !.scopes[Len(r.scopes)] = Put(@, n, [file |-> file, export |-> FALSE])]
DefineAll(r, ns, file) == FoldLeft(LAMBDA q, n : define_local(q, n, file), r, ns)
enter_scope(r) == [r EXCEPT !.scopes = Append(@, <<>>)]
exit_scope_Never(r) == r
exit_scope(r) == IF Len(r.scopes) > 1 THEN [r EXCEPT !.scopes = Front(@)] ELSE r
Meant(r, n) == IF n = SelfName /\ r.target # 0 THEN r.target ELSE n
Holding(r, n) == {i \in DOMAIN r.scopes : Meant(r, n) \in DOMAIN r.scopes[i]}
resolve_symbol(r, n) == IF Holding(r, n) = {} THEN <<>> ELSE <<r.scopes[Max(Holding(r, n))][Meant(r, n)]>>

-----------------------------------------------------------------------------
(* Pass 1: the declarations in order. *)
From(i, names) == [n \in names |-> i]
MethodNames(d) == {d.methods[j].n : j \in DOMAIN d.methods}
Type(d, i, fields, methods) ==
  [base |-> d.base, comps |-> d.comps, fields |-> From(i, fields), methods |-> From(i, methods), file |-> d.file, export |-> d.export]
AddClass(r, d, c) == DefineGlobal([r EXCEPT !.classes = Put(@, d.n, c)], d.n, Symbol(d))
Duplicate(r, d) == Err(r, "duplicate", d.n)

RegisterClass(r, d, i) == IF d.n \in DOMAIN r.classes THEN Duplicate(r, d) ELSE AddClass(r, d, Type(d, i, d.fields, MethodNames(d)))
(* The variants are names of the global scope as well as members. *)
RegisterEnum(r, d, i) ==
  IF d.n \in r.enums \cup DOMAIN r.classes THEN Duplicate(r, d)
  ELSE LET r1 == [r EXCEPT !.enums = @ \cup {d.n}, !.scopes[1] = [n \in d.variants |-> Symbol(d)] @@ @]
       IN AddClass(r1, d, Type([base |-> <<>>, comps |-> <<>>] @@ d, i, d.variants, d.variants))
\* a component or a role of the same name is replaced without a word
RegisterComponent(r, d, i) == DefineGlobal([r EXCEPT !.components = Put(@, d.n, Type(d, i, d.fields, MethodNames(d)))], d.n, Symbol(d))
RegisterRole(r, d) == DefineGlobal([r EXCEPT !.roles = Put(@, d.n, MethodNames(d))], d.n, Symbol(d))
RegisterTrait(r, d) == DefineGlobal(r, d.n, Symbol(d))
(* The methods of an impl reach a class declared before it, and no other. *)
RegisterImpl(r, d, i) ==
  IF d.n \in DOMAIN r.classes THEN [r EXCEPT !.classes[d.n].methods = From(i, MethodNames(d)) @@ @] ELSE r
RegisterFunction(r, d) == IF d.n \in r.functions THEN Duplicate(r, d) ELSE DefineGlobal([r EXCEPT !.functions = @ \cup {d.n}], d.n, Symbol(d))
RegisterPacket(r, d, i) == AddClass(r, [d EXCEPT !.export = TRUE], Type([base |-> <<>>, comps |-> <<>>] @@ d, i, d.fields, {}))
RegisterAlias(r, d, i) ==
  IF d.n \in r.aliases \cup DOMAIN r.classes THEN Duplicate(r, d)
  ELSE AddClass([r EXCEPT !.aliases = @ \cup {d.n}], d, Type(d, i, {}, {}))
\* an alias of a foreign module is a variable, unless the name is taken
RegisterUse(r, d) == IF d.n \in DOMAIN r.scopes[1] THEN r ELSE DefineGlobal(r, d.n, [file |-> d.file, export |-> TRUE])
RegisterGlobal(r, d) == DefineGlobal(r, d.n, Symbol(d))
Register(r, d, i) ==
  CASE d.k = "class" -> RegisterClass(r, d, i) [] d.k = "enum" -> RegisterEnum(r, d, i)
    [] d.k = "component" -> RegisterComponent(r, d, i) [] d.k = "role" -> RegisterRole(r, d)
    [] d.k = "trait" -> RegisterTrait(r, d) [] d.k = "impl" -> RegisterImpl(r, d, i)
    [] d.k \in {"function", "extern"} -> RegisterFunction(r, d)
    [] d.k \in {"packet", "register"} -> RegisterPacket(r, d, i) [] d.k = "alias" -> RegisterAlias(r, d, i)
    [] d.k = "use" -> RegisterUse(r, d) [] d.k = "global" -> RegisterGlobal(r, d)
    [] OTHER -> r

(* Pass 2a: a method of a behavior replaces one of the same name, but only
   'replaces' makes that legal. *)
MergeBehavior(r, d, i) ==
  IF d.n \notin DOMAIN r.classes THEN Err(r, "unknown class", d.n)
  ELSE LET clash == {d.methods[j].n : j \in {k \in DOMAIN d.methods : ~d.methods[k].replaces}} \cap DOMAIN r.classes[d.n].methods
       IN [r EXCEPT !.classes[d.n].methods = From(i, MethodNames(d)) @@ @, !.errs = @ \cup {<<"ambiguous override", n>> : n \in clash}]

(* Pass 2b: h is [r, visiting, done].  What a class inherits and is composed of
   is merged first, then its base and its components fill what it lacks. *)
Fill(have, from) == have @@ from
FillFrom(h, c, types, n) ==
  IF n \notin DOMAIN types THEN h
  ELSE [h EXCEPT !.r.classes[c].fields = Fill(@, types[n].fields), !.r.classes[c].methods = Fill(@, types[n].methods)]
RECURSIVE merge_class_hierarchy(_, _), MergeEach(_, _, _)
MergeEach(h, c, ns) ==
  IF ns = <<>> THEN h
  ELSE MergeEach(IF Head(ns) # c /\ Head(ns) \in DOMAIN h.r.classes THEN merge_class_hierarchy(h, Head(ns)) ELSE h, c, Tail(ns))
ParentsFirst_Never(h, c) == h
ParentsFirst(h, c) == MergeEach(MergeEach(h, c, h.r.classes[c].base), c, h.r.classes[c].comps)
merge_class_hierarchy(h, c) ==
  IF c \in h.done THEN h
  ELSE IF c \in h.visiting THEN [h EXCEPT !.r = Err(@, "circular", c)]
  ELSE LET h1 == ParentsFirst([h EXCEPT !.visiting = @ \cup {c}], c)
           based == FoldLeft(LAMBDA q, n : FillFrom(q, c, q.r.classes, n), h1, h.r.classes[c].base)
           full  == FoldLeft(LAMBDA q, n : FillFrom(q, c, IF n \in DOMAIN q.r.components THEN q.r.components ELSE q.r.classes, n),
                             based, h.r.classes[c].comps)
       IN [full EXCEPT !.visiting = @ \ {c}, !.done = @ \cup {c}]
RECURSIVE MergeAll(_, _)
MergeAll(h, left) == IF left = {} THEN h.r ELSE MergeAll(merge_class_hierarchy(h, Min(left)), left \ {Min(left)})

(* Pass 2c: a class has every method of the roles it is composed of. *)
Demanded(r, c) == UNION {r.roles[n] : n \in DOMAIN r.roles \cap ToSet(r.classes[c].comps)}
RolesChecked(r) ==
  LET missing == UNION {Demanded(r, c) \ DOMAIN r.classes[c].methods : c \in DOMAIN r.classes}
  IN [r EXCEPT !.errs = @ \cup {<<"role unsatisfied", m>> : m \in missing}]

-----------------------------------------------------------------------------
(* Pass 3: the bodies.  An item of another file must be exported. *)
Hidden(sym, file) == ~sym.export /\ sym.file # 0 /\ sym.file # file
InMethod(r) == \E i \in DOMAIN r.scopes : ThisName \in DOMAIN r.scopes[i]
IsField(r, n) == \E c \in DOMAIN r.classes : n \in DOMAIN r.classes[c].fields
resolve_name(r, n, file) ==
  LET sym == resolve_symbol(r, n)
  IN IF n \in r.modules THEN r
     ELSE IF sym # <<>> THEN IF Hidden(sym[1], file) THEN Err(r, "private", n) ELSE r
     ELSE IF InMethod(r) /\ IsField(r, n) THEN r ELSE Err(r, "undefined", n)
resolve_class(r, n, file) ==
  LET c == Meant(r, n)
  IN IF c \notin DOMAIN r.classes THEN Err(r, "undefined", n) ELSE IF Hidden(r.classes[c], file) THEN Err(r, "private", c) ELSE r
\* the name an assignment writes must exist; whose it is is not asked
resolve_target(r, n) == IF resolve_symbol(r, n) = <<>> THEN Err(r, "undefined", n) ELSE r

PatternNames(p) == CASE p.k = "bind" -> <<p.n>> [] p.k = "variant" -> p.binds [] OTHER -> <<>>
RECURSIVE resolve_expr(_, _, _), ResolveEach(_, _, _), ResolveArms(_, _, _), ResolveStages(_, _, _)
ResolveEach(r, es, file) == IF es = <<>> THEN r ELSE ResolveEach(resolve_expr(r, Head(es), file), Tail(es), file)
ResolveArms(r, arms, file) ==
  IF arms = <<>> THEN r
  ELSE LET in == DefineAll(enter_scope(r), PatternNames(Head(arms).pat), file)
       IN ResolveArms(exit_scope(ResolveEach(in, Append(Head(arms).guard, Head(arms).body), file)), Tail(arms), file)
ResolveStages(r, stages, file) ==
  IF stages = <<>> THEN r ELSE ResolveStages(ResolveEach(resolve_name(r, Head(stages).n, file), Head(stages).args, file), Tail(stages), file)
(* A block in expression position and a type test are not looked into; of the
   arms of a recovery only the bodies are. *)
resolve_expr(r, e, file) ==
  CASE e.k = "var" -> resolve_name(r, e.n, file)
    [] e.k = "call" -> LET q == resolve_name(r, e.n, file) IN IF e.n = SizeOfName THEN q ELSE ResolveEach(q, e.args, file)
    [] e.k = "mcall" -> ResolveEach(IF e.e.k = "var" /\ <<e.e.n, e.n>> \in StaticCtors THEN r ELSE resolve_expr(r, e.e, file), e.args, file)
    [] e.k = "object" -> ResolveEach(resolve_class(r, e.n, file), e.args, file)
    [] e.k = "match" -> ResolveArms(resolve_expr(r, e.e, file), e.arms, file)
    [] e.k = "or" -> ResolveEach(resolve_expr(r, e.e, file), [i \in DOMAIN e.arms |-> e.arms[i].body], file)
    [] e.k = "pipe" -> ResolveStages(resolve_expr(r, e.e, file), e.stages, file)
    [] e.k = "fn" -> exit_scope(resolve_expr(DefineAll(enter_scope(r), e.params, file), e.body, file))
    [] e.k \in {"blockexpr", "is"} -> r
    [] OTHER -> ResolveEach(r, Sub(e), file)

RECURSIVE resolve_stmt(_, _, _), ResolveStmts(_, _, _)
ResolveStmts(r, ss, file) == IF ss = <<>> THEN r ELSE ResolveStmts(resolve_stmt(r, Head(ss), file), Tail(ss), file)
resolve_stmt(r, s, file) ==
  CASE s.k = "block" -> exit_scope(ResolveStmts(enter_scope(r), s.ss, file))
    [] s.k = "let" -> define_local(resolve_expr(r, s.e, file), s.n, file)
    [] s.k = "assign" -> resolve_expr(resolve_target(r, s.n), s.e, file)
    [] BindsInBody(s) -> exit_scope(resolve_stmt(define_local(enter_scope(ResolveEach(r, Parts(s), file)), s.n, file), s.body, file))
    [] OTHER -> ResolveStmts(ResolveEach(r, Parts(s), file), Bodies(s), file)

ResolveBody(r, params, body, file) == exit_scope(resolve_stmt(DefineAll(enter_scope(r), params, file), body, file))
RECURSIVE ResolveMethods(_, _, _, _)
ResolveMethods(r, ms, own, file) ==
  IF ms = <<>> THEN r ELSE ResolveMethods(ResolveBody(r, own \o Head(ms).params, Head(ms).body, file), Tail(ms), own, file)
resolve_decl(r, d) ==
  CASE d.k = "function" -> ResolveBody(r, d.params, d.body, d.file)
    [] d.k \in {"class", "behavior", "impl"} ->
         [ResolveMethods([r EXCEPT !.target = d.n], d.methods, IF d.k = "impl" THEN <<ThisName, SelfVar>> ELSE <<ThisName>>, d.file)
            EXCEPT !.target = 0]
    [] d.k = "global" -> resolve_expr(r, d.e, d.file)
    [] OTHER -> r

RECURSIVE RegisterAll(_, _, _), MergeBehaviors(_, _, _), ResolveDecls(_, _)
RegisterAll(r, p, i) == IF i > Len(p) THEN r ELSE RegisterAll(Register(r, p[i], i), p, i + 1)
MergeBehaviors(r, p, i) ==
  IF i > Len(p) THEN r ELSE MergeBehaviors(IF p[i].k = "behavior" THEN MergeBehavior(r, p[i], i) ELSE r, p, i + 1)
ResolveDecls(r, p) == IF p = <<>> THEN r ELSE ResolveDecls(resolve_decl(r, Head(p)), Tail(p))
resolve_program(p, modules) ==
  LET r1 == MergeBehaviors(RegisterAll([Initially EXCEPT !.modules = modules], p, 1), p, 1)
      r2 == RolesChecked(MergeAll([r |-> r1, visiting |-> {}, done |-> {}], DOMAIN r1.classes))
  IN ResolveDecls(r2, p)
=============================================================================
