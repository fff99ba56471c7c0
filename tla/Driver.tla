------------------------------- MODULE Driver -------------------------------
(***************************************************************************)
(* The compilation driver (src/src/driver): finding and loading the        *)
(* modules a source imports, the cache of `check` results keyed by a       *)
(* fingerprint of those modules, and the stages of `check` and of a build. *)
(* An editor changes files while the project is being worked on.           *)
(*                                                                         *)
(* A file is the path of its module, a sequence of segments; its content   *)
(* is a version number, on which its imports depend.  An import is         *)
(* [path, group, alias]: use a.b has the path <<a, b>>, use a.{s} the path *)
(* <<a>> and the group {s}, and use a as x an alias.                       *)
(***************************************************************************)
EXTENDS Integers, Sequences, FiniteSets, SequencesExt

CONSTANTS
  Root,          \* the file being checked or built
  SourceSet,     \* every module file that may exist
  ImportGraphs,  \* the import graphs: file -> version -> set of imports
  DeclTables,    \* the declaration tables: file -> set of [name, kind]
  ForeignFiles,  \* the files that import a C header
  ExplicitFiles, \* the other files given on the command line (a project's sources)
  DefectSets,    \* the sets of stages at which the program has an error
  EditBudgets,   \* the bounds on the edits
  JobBudgets     \* the bounds on the checks and builds

Versions == 0..1
Imports == [path : Seq(STRING), group : SUBSET STRING, alias : BOOLEAN]
ASSUME DriverAssumption ==
  /\ SourceSet \subseteq Seq(STRING) \ {<<>>}
  /\ \A g \in ImportGraphs :
       /\ DOMAIN g \subseteq SourceSet /\ {Root} \cup ExplicitFiles \subseteq DOMAIN g
       /\ \A f \in DOMAIN g, n \in Versions : \A u \in g[f][n] : u \in Imports

VARIABLES
  drvUses,     \* the import graph
  drvDecls,    \* the declarations of each file
  drvFiles,    \* the version of each existing file
  drvHeader,   \* the version of the C header
  drvDefects,  \* the stages at which this program has an error
  drvCache,    \* .forgen_cache/check: key -> result
  drvJob,      \* the running check or build
  drvServed,   \* the last answer of a check, and what a fresh check would have said
  drvEdits,
  drvJobs

drvVars == <<drvUses, drvDecls, drvFiles, drvHeader, drvDefects, drvCache, drvJob, drvServed,
             drvEdits, drvJobs>>

(***************************************************************************)
(* Resolution: the longest prefix of the import path that names a file.    *)
(***************************************************************************)
local_module_path(path) ==
  LET found == {n \in 1..Len(path) : SubSeq(path, 1, n) \in DOMAIN drvFiles}
      longest == CHOOSE n \in found : \A m \in found : m <= n
  IN IF found = {} THEN <<>> ELSE SubSeq(path, 1, longest)

\* the imports of a file, in the version it has now
UsesOf(f) == IF f \in DOMAIN drvUses THEN drvUses[f][drvFiles[f]] ELSE {}
\* The fingerprint scans the lines of the text.  It cuts a line at its commas before it
\* looks for a group: of a group of one symbol it appends the symbol to the path, of a
\* longer one the piece that ends with the brace is left, which names no file.  A path
\* with a space in it, as an alias leaves one, is passed over.
nested_use_paths(u) ==
  CASE u.group = {} -> IF u.alias THEN {} ELSE {u.path}
    [] \E s \in u.group : u.group = {s} -> {Append(u.path, s) : s \in u.group}
    [] OTHER -> {<<>>}
\* What the loader and the scan make of the imports of each file; <<>> is an import that
\* finds no file.  The loader resolves the path of the declaration itself.
LoaderTargets == [f \in DOMAIN drvFiles |-> {local_module_path(u.path) : u \in UsesOf(f)}]
FingerprintTargets ==
  [f \in DOMAIN drvFiles |->
     {local_module_path(p) : p \in UNION {nested_use_paths(u) : u \in UsesOf(f)}}]

\* the files reached from S, those of S among them: the least set that holds S and is
\* closed under the imports
Closed(C, targets) == \A f \in C : targets[f] \ {<<>>} \subseteq C
Reached(S, targets) ==
  {f \in DOMAIN targets :
     \A C \in SUBSET DOMAIN targets : S \subseteq C /\ Closed(C, targets) => f \in C}

\* module_dependency_fingerprint_quick: none when the scan finds no import in the root or
\* some import cannot be resolved; otherwise the root's imports and every reached file
FingerprintOf(all) ==
  IF \/ FingerprintTargets[Root] = {} \/ <<>> \in FingerprintTargets[Root]
     \/ \E f \in all : <<>> \in FingerprintTargets[f]
  THEN [st |-> "none"]
  ELSE [st |-> "some", imports |-> UNION {nested_use_paths(u) : u \in UsesOf(Root)},
        files |-> [f \in all |-> drvFiles[f]]]
Fingerprint_Direct == FingerprintOf(FingerprintTargets[Root] \ {<<>>})
Fingerprint == FingerprintOf(Reached(FingerprintTargets[Root] \ {<<>>}, FingerprintTargets))

(***************************************************************************)
(* The cache key and the gates: an import-free root or one with a          *)
(* fingerprint, without foreign imports, checked on its own (a check of    *)
(* several files uses no cache).  Import-free roots share a key between    *)
(* the tiers.                                                              *)
(***************************************************************************)
compute_key(fp, tier) ==
  [root |-> drvFiles[Root], fp |-> fp, tier |-> IF fp.st = "none" THEN 0 ELSE tier]
is_cacheable(fp) ==
  /\ ExplicitFiles = {} /\ Root \notin ForeignFiles
  /\ fp.st = "some" \/ UsesOf(Root) = {}

(***************************************************************************)
(* The stages after loading, in order: "modules" are the errors inside the *)
(* modules loaded.  A job leaves at a barrier once an error has been       *)
(* reported, those of the loader included.                                 *)
(***************************************************************************)
CheckFront ==
  <<"modules", "expand", "attributes", "resolve", "types", "effects", "comptime", "ownership",
    "security">>
CheckBack == <<"link", "dmir_ownership", "optimize", "backend">>
CheckStages == CheckFront \o CheckBack
\* a build does not verify comptime purity; it fails on the optimizer's own errors
BuildFront ==
  <<"modules", "expand", "attributes", "resolve", "types", "effects", "ownership", "security">>
BuildBack ==
  <<"link", "dmir_ownership", "optimize", "optimizer_hard", "wasm_asm", "backend">>
BuildStages == BuildFront \o BuildBack
CheckBarriers == {"expand", "attributes", "resolve", "types", "security", "link",
                  "dmir_ownership", "optimize"}
BuildBarriers == {"expand", "attributes", "resolve", "types", "ownership", "security",
                  "link", "dmir_ownership", "optimize", "optimizer_hard", "wasm_asm"}
StagesOf(route) == IF route = "check" THEN CheckStages ELSE BuildStages
Barriers_NoSecurity(route) == IF route = "check" THEN CheckBarriers \ {"security"} ELSE BuildBarriers
Barriers(route) == IF route = "check" THEN CheckBarriers ELSE BuildBarriers

(***************************************************************************)
(* Jobs.                                                                   *)
(***************************************************************************)
NoJob == [pc |-> "idle", route |-> "none", tier |-> 0, fp |-> [st |-> "none"], deps |-> <<>>,
          read |-> <<>>, names |-> {}, errs |-> {}, at |-> 1, ran |-> {}, header |-> 0,
          mark |-> <<>>, work |-> <<>>]
Inputs == <<drvUses, drvDecls, drvFiles, drvHeader, drvDefects, drvEdits>>

\* what a check reports: the files it read, in their versions, and its errors
ResultOf(job) == [read |-> job.read, header |-> job.header, errs |-> job.errs]
\* the same for a check that would run now, without a cache
FreshFiles == Reached({Root} \cup ExplicitFiles, LoaderTargets)
FreshRead == [f \in FreshFiles |-> drvFiles[f]]
FreshHeader == IF FreshFiles \cap ForeignFiles # {} THEN drvHeader ELSE 0

\* the uses of every file on the command line are attributed to the first one
StartDeps ==
  LET cmd == {Root} \cup ExplicitFiles
  IN [f \in {Root} |-> (UNION {LoaderTargets[g] : g \in cmd}) \ {<<>>}]
StartJob(route, tier) ==
  /\ drvJob.pc = "idle" /\ drvJobs > 0 /\ drvJobs' = drvJobs - 1
  /\ drvJob' = [NoJob EXCEPT !.pc = IF route = "check" THEN "lookup" ELSE "parse",
                  !.route = route, !.tier = tier, !.fp = Fingerprint, !.deps = StartDeps,
                  !.read = [f \in {Root} \cup ExplicitFiles |-> drvFiles[f]],
                  !.names = UNION {drvDecls[f] : f \in {Root} \cup ExplicitFiles}]
  /\ UNCHANGED <<Inputs, drvCache, drvServed>>

Lookup ==
  /\ drvJob.pc = "lookup"
  /\ LET k == compute_key(drvJob.fp, drvJob.tier)
     IN IF is_cacheable(drvJob.fp) /\ k \in DOMAIN drvCache
        THEN /\ drvServed' = [hit |-> TRUE, read |-> drvCache[k].read, header |-> drvCache[k].header,
                              freshRead |-> FreshRead, freshHeader |-> FreshHeader]
             /\ drvJob' = NoJob
        ELSE drvJob' = [drvJob EXCEPT !.pc = "parse"] /\ UNCHANGED drvServed
  /\ UNCHANGED <<Inputs, drvCache, drvJobs>>

\* the answer of a check that ran
Answer(job) == [hit |-> FALSE, read |-> job.read, header |-> job.header,
                freshRead |-> job.read, freshHeader |-> job.header]
\* the files of the command line are parsed before any module is loaded; an error
\* there ends the job, and a check that ends so stores nothing
ParseRoot ==
  /\ drvJob.pc = "parse"
  /\ IF "parse" \in drvDefects
     THEN /\ drvJob' = NoJob
          /\ IF drvJob.route = "check" THEN drvServed' = Answer(drvJob) ELSE UNCHANGED drvServed
     ELSE drvJob' = [drvJob EXCEPT !.pc = "load", !.ran = {"parse"}] /\ UNCHANGED drvServed
  /\ UNCHANGED <<Inputs, drvCache, drvJobs>>

\* one iteration of the loader: a file some loaded file imports and that was not
\* visited yet; a name it declares again is an ambiguous import
Frontier ==
  (UNION {LoaderTargets[f] : f \in DOMAIN drvJob.read}) \ (DOMAIN drvJob.read \cup {<<>>})
Ambiguous_Never(f) == FALSE
Ambiguous(f) ==
  \E d \in drvDecls[f] : d \in drvJob.names /\ d.kind \notin {"packet", "behavior", "impl"}
LoadModule(f) ==
  /\ drvJob.pc = "load" /\ f \in Frontier
  /\ drvJob' = [drvJob EXCEPT
       !.read = [g \in DOMAIN @ \cup {f} |-> IF g = f THEN drvFiles[f] ELSE @[g]],
       !.deps = [g \in DOMAIN @ \cup {f} |-> IF g = f THEN LoaderTargets[f] \ {<<>>} ELSE @[g]],
       !.names = @ \cup drvDecls[f],
       !.errs = @ \cup (IF Ambiguous(f) THEN {"ambiguous"} ELSE {})]
  /\ UNCHANGED <<Inputs, drvCache, drvServed, drvJobs>>

Missing == \E f \in DOMAIN drvJob.read : <<>> \in LoaderTargets[f]
LoadsDone ==
  /\ drvJob.pc = "load" /\ Frontier = {}
  /\ drvJob' = [drvJob EXCEPT !.pc = "cycles", !.mark = [f \in DOMAIN drvJob.deps |-> 0],
       !.errs = @ \cup (IF Missing THEN {"missing"} ELSE {})]
  /\ UNCHANGED <<Inputs, drvCache, drvServed, drvJobs>>

(***************************************************************************)
(* check_import_cycles: a depth-first search over the files loaded, with   *)
(* an explicit stack of frames [node, kids], kids the targets not yet      *)
(* looked at.  A mark is 0 for unvisited, 1 for on the stack, 2 for done.  *)
(***************************************************************************)
Push(work, f) == Append(work, [node |-> f, kids |-> drvJob.deps[f] \cap DOMAIN drvJob.deps])
Top == drvJob.work[Len(drvJob.work)]
Searching == drvJob.pc = "cycles" /\ UNCHANGED <<Inputs, drvCache, drvServed, drvJobs>>

\* the next start
VisitStart(f) ==
  /\ Searching /\ drvJob.work = <<>> /\ f \in DOMAIN drvJob.deps /\ drvJob.mark[f] = 0
  /\ drvJob' = [drvJob EXCEPT !.mark[f] = 1, !.work = Push(@, f)]
\* one target of the node on top: entered, a cycle if it is on the stack, skipped if done
VisitKid(k) ==
  /\ Searching /\ drvJob.work # <<>> /\ k \in Top.kids
  /\ LET rest == [drvJob.work EXCEPT ![Len(drvJob.work)].kids = @ \ {k}]
     IN \/ /\ drvJob.mark[k] = 0
           /\ drvJob' = [drvJob EXCEPT !.mark[k] = 1, !.work = Push(rest, k)]
        \/ /\ drvJob.mark[k] = 1
           /\ drvJob' = [drvJob EXCEPT !.errs = @ \cup {"cycle"}, !.work = rest]
        \/ /\ drvJob.mark[k] = 2
           /\ drvJob' = [drvJob EXCEPT !.work = rest]
\* the node on top has no target left
VisitDone_NoDone ==
  /\ Searching /\ drvJob.work # <<>> /\ Top.kids = {}
  /\ drvJob' = [drvJob EXCEPT !.work = Front(@)]
VisitDone ==
  /\ Searching /\ drvJob.work # <<>> /\ Top.kids = {}
  /\ drvJob' = [drvJob EXCEPT !.mark[Top.node] = 2, !.work = Front(@)]
SearchDone ==
  /\ Searching /\ drvJob.work = <<>> /\ \A f \in DOMAIN drvJob.deps : drvJob.mark[f] # 0
  /\ drvJob' = [drvJob EXCEPT !.pc = "stages"]

(***************************************************************************)
(* Stages.                                                                 *)
(***************************************************************************)
\* one stage: it reports its error; a barrier with an error ends the job
RunStage ==
  /\ drvJob.pc = "stages" /\ drvJob.at <= Len(StagesOf(drvJob.route))
  /\ LET s == StagesOf(drvJob.route)[drvJob.at]
         errs == drvJob.errs \cup ({s} \cap drvDefects)
     IN drvJob' = [drvJob EXCEPT !.errs = errs, !.ran = @ \cup {s},
                     !.header = IF s = "expand" /\ DOMAIN drvJob.read \cap ForeignFiles # {}
                                THEN drvHeader ELSE @,
                     !.at = IF s \in Barriers(drvJob.route) /\ errs # {}
                            THEN Len(StagesOf(drvJob.route)) + 1 ELSE @ + 1]
  /\ UNCHANGED <<Inputs, drvCache, drvServed, drvJobs>>

\* a check stores its result, whatever its errors, under the key it looked up
FinishJob ==
  /\ drvJob.pc = "stages" /\ drvJob.at > Len(StagesOf(drvJob.route))
  /\ IF drvJob.route = "check"
     THEN /\ drvServed' = Answer(drvJob)
          /\ drvCache' = IF is_cacheable(drvJob.fp)
                         THEN LET k == compute_key(drvJob.fp, drvJob.tier)
                              IN [x \in DOMAIN drvCache \cup {k} |->
                                    IF x = k THEN ResultOf(drvJob) ELSE drvCache[x]]
                         ELSE drvCache
     ELSE UNCHANGED <<drvServed, drvCache>>
  /\ drvJob' = NoJob
  /\ UNCHANGED <<Inputs, drvJobs>>

(***************************************************************************)
(* The editor.                                                             *)
(***************************************************************************)
EditFile(f) ==
  /\ drvEdits > 0 /\ drvJob.pc = "idle" /\ f \in DOMAIN drvFiles
  /\ drvFiles' = [drvFiles EXCEPT ![f] = 1 - @]
  /\ drvEdits' = drvEdits - 1
  /\ UNCHANGED <<drvUses, drvDecls, drvHeader, drvDefects, drvCache, drvJob, drvServed, drvJobs>>
EditHeader ==
  /\ drvEdits > 0 /\ drvJob.pc = "idle"
  /\ drvHeader' = 1 - drvHeader
  /\ drvEdits' = drvEdits - 1
  /\ UNCHANGED <<drvUses, drvDecls, drvFiles, drvDefects, drvCache, drvJob, drvServed, drvJobs>>
CreateFile(f) ==
  /\ drvEdits > 0 /\ drvJob.pc = "idle" /\ f \notin DOMAIN drvFiles
  /\ drvFiles' = [g \in DOMAIN drvFiles \cup {f} |-> IF g = f THEN 0 ELSE drvFiles[g]]
  /\ drvEdits' = drvEdits - 1
  /\ UNCHANGED <<drvUses, drvDecls, drvHeader, drvDefects, drvCache, drvJob, drvServed, drvJobs>>

drvInit ==
  /\ drvUses \in ImportGraphs /\ drvDecls \in DeclTables /\ drvDefects \in DefectSets
  /\ drvFiles = [f \in DOMAIN drvUses |-> 0] /\ drvHeader = 0
  /\ drvCache = <<>> /\ drvJob = NoJob
  /\ drvServed = [hit |-> FALSE, read |-> <<>>, header |-> 0, freshRead |-> <<>>, freshHeader |-> 0]
  /\ drvEdits \in EditBudgets /\ drvJobs \in JobBudgets

drvNext ==
  \/ \E r \in {"check", "build"}, t \in 1..2 : StartJob(r, t)
  \/ Lookup \/ ParseRoot \/ LoadsDone \/ VisitDone \/ SearchDone \/ RunStage \/ FinishJob \/ EditHeader
  \/ \E f \in SourceSet :
       LoadModule(f) \/ VisitStart(f) \/ VisitKid(f) \/ EditFile(f) \/ CreateFile(f)

drvSpec == drvInit /\ [][drvNext]_drvVars

(***************************************************************************)
(* Properties.                                                             *)
(***************************************************************************)
\* A check answered from the cache says what a check of the files as they are now
\* would say: "any dependency edit remaps the cache key, so stale diagnostics
\* cannot be served".
NoStaleCheck ==
  drvServed.hit => drvServed.read = drvServed.freshRead /\ drvServed.header = drvServed.freshHeader

\* When the loader is done, a circular import is reported exactly when the files
\* on the command line reach one ("import cycles are hard errors").
RealCycle ==
  \E f \in FreshFiles : f \in Reached(LoaderTargets[f] \ {<<>>}, LoaderTargets)
CyclesAreErrors ==
  drvJob.pc = "stages" => ("cycle" \in drvJob.errs <=> RealCycle)

\* Every file the program reaches is loaded before the stages run, and no other; a name
\* two of them declare never goes unreported.
NameClash ==
  \E f, g \in DOMAIN drvJob.read :
    /\ f # g /\ g \notin {Root} \cup ExplicitFiles
    /\ \E d \in drvDecls[f] \cap drvDecls[g] : d.kind = "function"
LoadedIsComplete ==
  drvJob.pc = "stages" =>
    DOMAIN drvJob.read = FreshFiles /\ (NameClash => "ambiguous" \in drvJob.errs)

\* Nothing after the front end runs on a program an earlier stage rejected, on
\* either route, and an error anywhere makes the job fail.
Backend == {"link", "dmir_ownership", "optimize", "optimizer_hard", "wasm_asm", "backend"}
RejectedIsNotLowered ==
  \A s \in drvJob.ran \cap Backend : drvJob.errs \subseteq Backend

\* What the back end is given is the program the imports mean, accepted by every stage
\* before it; anything else ends in an error.
BuildIsSound == CyclesAreErrors /\ LoadedIsComplete /\ RejectedIsNotLowered
=============================================================================
