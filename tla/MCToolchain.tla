---------------------------- MODULE MCToolchain ----------------------------
(***************************************************************************)
(* The tools around the compiler, in one run: the package manager with its *)
(* directories, manifest and lock file; the driver with its check cache;   *)
(* the tables by which a call of a built-in function reaches the C         *)
(* runtime; the instructions of the IR on the three back ends.  A          *)
(* behaviour exercises the one that `part` names, the others stay as they  *)
(* begin.  Words have 8 bits and narrow integers 4; programs are a few     *)
(* instructions around every instruction of the IR.                        *)
(***************************************************************************)
EXTENDS Packages, Driver, Abi, Backends

VARIABLE part

(* ------------------------------- packages ------------------------------- *)

\* A curated package u that the workspace republishes as version 2 without its
\* file a.dtr, a package my_u whose name contains u, an archive as `dpm publish` writes
\* them, its package.json in the middle, with a data file.
MCCurated == {[name |-> "u", version |-> 1, files |-> [f \in {"a.dtr"} |-> "one"]]}
MCReleases == {[name |-> "u", version |-> 2, files |-> [f \in {"b.dtr"} |-> "two"]],
               [name |-> "my_u", version |-> 1, files |-> [f \in {"a.dtr", "b.dtr"} |-> "one"]]}
MCArchive == [name |-> "lib",
              entries |-> <<[file |-> "a.dtr", text |-> "one"], [file |-> "b.dtr", text |-> "two"],
                            [file |-> "package.json", text |-> "meta"], [file |-> "x.json", text |-> "two"]>>,
              meta |-> [version |-> 1, files |-> [f \in {"a.dtr", "b.dtr"} |-> IF f = "a.dtr" THEN "one" ELSE "two"],
                        digest |-> [scheme |-> "merkle", of |-> [f \in {"a.dtr", "b.dtr"} |-> IF f = "a.dtr" THEN "one" ELSE "two"]]]]
MCGitFiles == [f \in {"a.dtr"} |-> "two"]
MCUnix(t) == IF t = "one_crlf" THEN "one" ELSE t
MCMentions(k, n) == k = n \/ <<k, n>> = <<"my_u", "u">>

(* -------------------------------- driver -------------------------------- *)

\* Every import graph on three files, and a small project with a group import
\* that the editor works on.
M == <<"main">>
A == <<"a">>
B == <<"b">>
AS == <<"a", "s">>
Use(p) == [path |-> p, group |-> {}, alias |-> FALSE]
UseIn(p, symbols) == [path |-> p, group |-> symbols, alias |-> FALSE]
UseAs(p) == [path |-> p, group |-> {}, alias |-> TRUE]
MCSources == {M, A, B, AS}
GraphFiles == {M, A, B}
Always(uses) == [n \in 0..1 |-> uses]
MCGraphs ==
  {[f \in GraphFiles |-> Always({Use(t) : t \in g[f]})] : g \in [GraphFiles -> SUBSET GraphFiles]}
    \cup {[f \in {M, A} |-> Always({Use(B)})]}
MCDecls == {[f \in MCSources |-> IF f \in same THEN {[name |-> "x", kind |-> k]} ELSE {}] :
              same \in {{}, {A, B}}, k \in {"function", "packet"}}
MCDefects == {{}, {"parse"}} \cup {{s} : s \in Range(CheckStages) \cup Range(BuildStages)}
\* The project the editor works on: main uses symbols of a and, edited, nothing; a uses b and,
\* edited, a.s; b may be missing, and a.s is.
EditGraph(files, use) ==
  [f \in files |->
     CASE f = M -> [n \in 0..1 |-> IF n = 0 THEN {use} ELSE {}]
       [] f = A -> [n \in 0..1 |-> {Use(IF n = 0 THEN B ELSE AS)}]
       [] OTHER -> Always({})]
MCEditGraphs ==
  {EditGraph({M, A, B}, UseIn(A, {"t"})), EditGraph({M, A}, UseIn(A, {"t"})),
   EditGraph({M, A, B}, UseIn(A, {"t", "w"})), EditGraph({M, A, B}, UseAs(A))}
MCAllGraphs == MCGraphs \cup MCEditGraphs
MCNoDecls == [f \in MCSources |-> {}]
MCJobInit ==
  /\ drvInit /\ drvEdits = 0 /\ drvJobs = 1
  /\ (drvDefects # {} => drvUses = EditGraph(GraphFiles, UseIn(A, {"t"})))
MCEditInit ==
  /\ drvInit /\ drvUses \in MCEditGraphs /\ drvEdits = 3 /\ drvJobs = 3
  /\ drvDecls = MCNoDecls /\ drvDefects = {}

(* ---------------------------- built-in calls ---------------------------- *)

\* A name of its own, a name the runtime uses for another shape, and a name that
\* is an imported symbol.
MCUserFns == {<<"twice", <<RI>>, RI>>, <<"repeat", <<RI>>, RI>>, <<"sin", <<RI>>, RI>>}

MCClassFields == (1 :> <<"x", "y">>) @@ (2 :> <<"y", "x", "b">>)

Lit(ty, v) == [k |-> "const", ty |-> ty, v |-> v]
Arg(ty, v) == [k |-> "param", ty |-> ty, v |-> v]
Operand(ty, v) == {Lit(ty, v), Arg(ty, v)}
Bin(op, l, r, ty) == [k |-> "bin", op |-> op, l |-> l, r |-> r, ty |-> ty]
Un(op, a, ty) == [k |-> "un", op |-> op, a |-> a, ty |-> ty]
Out(a) == [k |-> "out", a |-> a]
Text(s) == <<[how |-> "lit", v |-> s]>>

IntOps == {"+", "-", "*", "wrapping_+", "wrapping_-", "wrapping_*", "saturating_+", "saturating_-", "saturating_*",
           "/", "%", "&", "|", "^", "<<", ">>"} \cup Compares
\* the boundary values of a word, and the constants with code of their own
Edges == {MinW, MinW + 1, -9, -1, 0, 1, 2, 3, 9, 64, MaxW}

\* every integer operation on every pair of boundary values, known or not
WideArithmetic ==
  \E x, y \in Edges, op \in IntOps, k1, k2 \in {"const", "param"} :
    bkSource = <<[k |-> k1, ty |-> "Int", v |-> x], [k |-> k2, ty |-> "Int", v |-> y], Bin(op, 1, 2, "Int"), Out(3)>>
NarrowArithmetic ==
  \E x, y \in {-8, -1, 0, 1, 2, 7}, op \in IntOps, ty \in {"Int8", "UInt8", "UInt"}, k1, k2 \in {"const", "param"} :
    /\ ty = "Int8" \/ (x >= 0 /\ y >= 0)
    /\ bkSource = <<[k |-> k1, ty |-> "Int", v |-> x], [k |-> k2, ty |-> "Int", v |-> y], Bin(op, 1, 2, ty), Out(3)>>
FloatArithmetic ==
  UNION {{<<a, b, Bin(op, 1, 2, "Float"), Out(3)>> : a \in Operand("Float", x), b \in Operand("Float", y)} :
         x \in {-3, 0, 1, 2}, y \in {-3, 0, 1, 2}, op \in {"+", "-", "*"} \cup Compares}
Unary ==
  UNION {{<<a, Un(op, 1, "Int"), Out(2)>> : a \in Operand("Int", x)} : x \in Edges, op \in {"-", "copy"}}
  \cup UNION {{<<a, Un(op, 1, "Bool"), Out(2)>> : a \in Operand("Bool", x)} : x \in {0, 1}, op \in {"!", "copy"}}
  \cup UNION {{<<a, Un("-", 1, "Float"), Out(2)>> : a \in Operand("Float", x)} : x \in {-3, 0, 2}}
Casts ==
  UNION {{<<a, [k |-> "cast", a |-> 1, from |-> "Float", to |-> t], Out(2)>> : a \in Operand("Float", x)} :
         x \in {-200, MinW, -1, 0, 3, MaxW, 200}, t \in {"Int", "Float"}}
  \cup UNION {{<<a, [k |-> "cast", a |-> 1, from |-> "Int", to |-> t], Out(2)>> : a \in Operand("Int", x)} :
         x \in Edges, t \in {"Float", "Int8", "UInt8", "Int"}}
Conversions ==
  UNION {{<<a, [k |-> "conv", a |-> 1, m |-> mth], Out(2)>> : a \in Operand("Float", x)} :
         x \in {-200, MinW, -1, 0, 3, MaxW, 200}, mth \in {"to_int", "to_float"}}
  \cup UNION {{<<a, [k |-> "conv", a |-> 1, m |-> "to_float"], Out(2)>> : a \in Operand("Int", x)} : x \in Edges}
\* a variable assigned twice, with a known and an unknown value
Variables ==
  {<<Lit("Int", 1), Arg("Int", 2), [k |-> "assign", n |-> "v", a |-> p], [k |-> "assign", n |-> "v", a |-> q],
     [k |-> "load", n |-> "v"], Bin("+", 5, 1, "Int"), Out(6)>> : p \in {1, 2}, q \in {1, 2}}
  \cup {<<Lit("Bool", 1), Arg("Bool", 0), [k |-> "assign", n |-> "v", a |-> p], [k |-> "load", n |-> "v"], Out(4)>> : p \in {1, 2}}
Objects ==
  {<<Lit("Int", 1), Arg("Int", 2), [k |-> "struct", cls |-> 1, fs |-> <<1, 2>>], [k |-> "set", a |-> 3, f |-> g, b |-> 1],
     [k |-> "get", a |-> 3, f |-> h, ty |-> "Int"], Out(5)>> : g \in {"x", "y"}, h \in {"x", "y"}}
IntChoices ==
  UNION {{<<c, Lit("Int", 3), a, [k |-> "select", c |-> 1, a |-> 2, b |-> 3, ty |-> "Int"], Out(4)>> :
          c \in Operand("Bool", x), a \in Operand("Int", 5)} : x \in {0, 1}}
  \cup UNION {{<<c, d, Lit("Int", 3), Lit("Int", 4), Arg("Int", 5),
            [k |-> "decide", arms |-> <<[c |-> 1, a |-> 3], [c |-> 2, a |-> 4]>>, els |-> 5, ty |-> "Int"], Out(6)>> :
          c \in Operand("Bool", x), d \in Operand("Bool", y)} : x \in {0, 1}, y \in {0, 1}}
Texts ==
  UNION {{<<a, b, Bin("+", 1, 2, "Str"), Out(3)>> : a \in Operand("Str", Text("a")),
          b \in Operand("Str", Text("b")) \cup Operand("Int", 4) \cup Operand("Bool", 1) \cup Operand("Float", 2)}}
  \cup UNION {{<<a, b, Bin(op, 1, 2, "Str"), Out(3)>> : a \in Operand("Str", Text("a")), b \in Operand("Str", Text(s))} :
         s \in {"a", "b"}, op \in {"==", "!="}}
  \cup {<<a, b, [k |-> "fmt", vals |-> <<1, 2>>], Out(3)>> : a \in Operand("Str", Text("a")),
          b \in Operand("Int", 4) \cup Operand("Bool", 1) \cup Operand("Float", 2)}

MCPrograms ==
  FloatArithmetic \cup Unary \cup Casts \cup Conversions
    \cup Variables \cup Objects \cup IntChoices \cup Texts

(* ----------------------------- specification ---------------------------- *)

IdleDriver == /\ drvInit /\ drvUses = EditGraph({M, A}, UseIn(A, {"t"})) /\ drvDecls = MCNoDecls
              /\ drvDefects = {} /\ drvEdits = 0 /\ drvJobs = 1

MCInit == /\ part \in {"packages", "driver", "abi", "backends"}
          /\ pmInit /\ AbiInit /\ bkStart
          /\ IF part = "driver" THEN MCJobInit \/ MCEditInit ELSE IdleDriver
          /\ IF part = "backends" THEN bkInit \/ WideArithmetic \/ NarrowArithmetic ELSE bkSource = <<>>

MCNext == \/ part = "packages" /\ pmNext /\ UNCHANGED <<part, drvVars, abiVars, bkVars>>
          \/ part = "driver" /\ drvNext /\ UNCHANGED <<part, pmVars, abiVars, bkVars>>
          \/ part = "abi" /\ AbiNext /\ UNCHANGED <<part, pmVars, drvVars, bkVars>>
          \/ part = "backends" /\ bkNext /\ UNCHANGED <<part, pmVars, drvVars, abiVars>>

MCSpec == MCInit /\ [][MCNext]_<<part, pmVars, drvVars, abiVars, bkVars>>
=============================================================================
