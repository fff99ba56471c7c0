----------------------------- MODULE Optimizer -----------------------------
(***************************************************************************)
(* The optimizer pipeline of src/src/optimizer/mod.rs over the passes of   *)
(* ScalarPasses and FlowPasses.  A round inlines, promotes variables,      *)
(* rewrites each function until its passes change nothing (or FnRounds     *)
(* times), and removes recursion; rounds repeat while the module changes,  *)
(* at most ModuleRounds times; dead functions go last.  The verifier runs  *)
(* after every module pass and stops the build when it refuses the result. *)
(***************************************************************************)
EXTENDS ScalarPasses, FlowPasses

CONSTANTS
  ModuleRounds, FnRounds,   \* 3 and 3 (10 for the functions in domain mode)
  Inputs,                   \* what the external function may deliver: sequences of small
                            \* numbers, on which the programs do not overflow
  WideInputs,               \* and sequences of numbers near the limits
  Fuel                      \* blocks a run of the source may take

VARIABLES
  optSource,   \* the module as lowered
  optMod,      \* the module now
  optPhase,    \* the next pass of the pipeline
  optFns,      \* the functions optimize_function has still to visit
  optRound,    \* the round of the module and of the current function
  optBefore,   \* the module at the start of the round, the function at the start of its round
  optStatus    \* "ok", or "E0901" when the verifier refused a pass

optVars == <<optSource, optMod, optPhase, optFns, optRound, optBefore, optStatus>>

ModulePhases == <<"inline", "mem2reg", "intraproc", "tail_recursion", "round", "dead_symbols", "done">>
FnPhases == <<"cse", "calls", "strength", "licm", "forward", "dce", "select", "merge", "fn_round">>
PhaseAfter(phases, p) == phases[Position(phases, p) + 1]
VerifyModule(m) == \A g \in DOMAIN m : Verified(m[g])

(* Of optimize_function (mod.rs:511): the passes on scalars, blocks and invariant code.
   Left out are those on objects, strings and arrays (scalarize_structures,
   fuse_pipelines, polyhedral, tile_loops, vectorize, bce_pass), the folding of whole
   loops and of constants (fold_loops, constant_fold), unswitch_loops and the loop
   engine (engine_v2), and of the module's pipeline interchange_nested_loops and the
   interprocedural pass (ipo). *)
FnPass(pass, fn) ==
  CASE pass = "cse" -> eliminate_common_subexpressions(fn)
    [] pass = "calls" -> eliminate_redundant_calls(fn)
    [] pass = "strength" -> apply_strength_reduction(fn)
    [] pass = "licm" -> licm_pass(fn)
    [] pass = "forward" -> forward_invariants_pass(fn)
    [] pass = "dce" -> dead_code_elimination(fn)
    [] pass = "select" -> convert_branches_to_select(fn)
    [] pass = "merge" -> merge_blocks(fn)

\* what the effect analysis calls pure: no output, no input, no variable of the module written
RECURSIVE EffectPure(_, _, _)
EffectPure(m, g, seen) ==
  \A inst \in AllInsts(m[g].blocks) :
    /\ inst.op # "out"
    /\ ~(inst.op = "assign" /\ inst.name \in Globals)
    /\ inst.op = "call" => inst.name # ReadFn /\ (inst.name \in seen \/ EffectPure(m, inst.name, seen \cup {g}))
WithoutSiblings(m, g, tail) ==
  IF tail # m[g] THEN tail
  ELSE IF EffectPure(optSource, g, {g}) THEN eliminate_sibling_recursion(m[g], g) ELSE m[g]
RemoveRecursion(m) == [g \in DOMAIN m |-> WithoutSiblings(m, g, eliminate_tail_recursion(m[g], g))]

(***************************************************************************)
(* The actions.                                                            *)
(***************************************************************************)
optInit(Modules) ==
  /\ optSource \in Modules
  /\ optMod = optSource
  /\ optPhase = "inline" /\ optFns = <<>>
  /\ optRound = [mod |-> 1, fn |-> 1]
  /\ optBefore = [mod |-> optSource, fn |-> optSource[Main]]
  /\ optStatus = "ok"

(* A pass over the module, the verifier and the next phase. *)
run_mutating_pass(new, next) ==
  IF VerifyModule(new) THEN optMod' = new /\ optPhase' = next /\ optStatus' = optStatus
  ELSE optMod' = new /\ optPhase' = "done" /\ optStatus' = "E0901"

InlinePass ==
  /\ optPhase = "inline" /\ run_mutating_pass(inline_pure_functions(optMod), "mem2reg")
  /\ UNCHANGED <<optSource, optFns, optRound, optBefore>>
Mem2RegPass ==
  /\ optPhase = "mem2reg" /\ run_mutating_pass(promote_module(optMod), "intraproc")
  /\ UNCHANGED <<optSource, optFns, optRound, optBefore>>

StartFunctions ==
  /\ optPhase = "intraproc"
  /\ optFns' = Ascending(DOMAIN optMod) /\ optPhase' = "cse"
  /\ optRound' = [optRound EXCEPT !.fn = 1]
  /\ optBefore' = [optBefore EXCEPT !.fn = optMod[Main]]
  /\ UNCHANGED <<optSource, optMod, optStatus>>
FunctionPass ==
  /\ optPhase \in ToSet(FnPhases) \ {"fn_round"}
  /\ optMod' = [optMod EXCEPT ![Head(optFns)] = FnPass(optPhase, @)]
  /\ optPhase' = PhaseAfter(FnPhases, optPhase)
  /\ UNCHANGED <<optSource, optFns, optRound, optBefore, optStatus>>
(* Again while the function changes; then the next function; after the last one
   the verifier. *)
FunctionRound ==
  /\ optPhase = "fn_round"
  /\ LET g == Head(optFns)
         again == optMod[g] # optBefore.fn /\ optRound.fn < FnRounds
         rest == IF again THEN optFns ELSE Tail(optFns)
     IN /\ optFns' = rest
        /\ optRound' = [optRound EXCEPT !.fn = IF again THEN @ + 1 ELSE 1]
        /\ optBefore' = [optBefore EXCEPT !.fn = IF rest = <<>> THEN optMod[Main] ELSE optMod[Head(rest)]]
        /\ IF rest # <<>> THEN optPhase' = "cse" /\ UNCHANGED <<optMod, optStatus>>
           ELSE run_mutating_pass(optMod, "tail_recursion")
  /\ UNCHANGED optSource

RecursionPass ==
  /\ optPhase = "tail_recursion" /\ run_mutating_pass(RemoveRecursion(optMod), "round")
  /\ UNCHANGED <<optSource, optFns, optRound, optBefore>>
ModuleRound ==
  /\ optPhase = "round"
  /\ LET again == optMod # optBefore.mod /\ optRound.mod < ModuleRounds
     IN /\ optPhase' = IF again THEN "inline" ELSE "dead_symbols"
        /\ optRound' = [optRound EXCEPT !.mod = IF again THEN @ + 1 ELSE @]
  /\ optBefore' = [optBefore EXCEPT !.mod = optMod]
  /\ UNCHANGED <<optSource, optMod, optFns, optStatus>>
DeadSymbolPass ==
  /\ optPhase = "dead_symbols" /\ run_mutating_pass(dead_symbol_elimination(optMod), "done")
  /\ UNCHANGED <<optSource, optFns, optRound, optBefore>>

optNext == InlinePass \/ Mem2RegPass \/ StartFunctions \/ FunctionPass \/ FunctionRound \/ RecursionPass
           \/ ModuleRound \/ DeadSymbolPass

-----------------------------------------------------------------------------
(***************************************************************************)
(* Properties.                                                             *)
(***************************************************************************)

(* A rewritten run may take more blocks than the source (a preheader, a loop for a call). *)
SlackFuel == 4 * Fuel

KeepsOutcome(was, in) == was.st = "ok" => Outcome(optMod, in, SlackFuel) = was
KeepsResult(was, in) == was.st = "ok" => UncheckedOutcome(optMod, in, SlackFuel) = was

(* At every point of the pipeline the module computes what the source computes, for
   every input on which the source ends without a fault.  On small numbers the
   output and the result are the same and the optimized run does not fault.  Near
   the limits the output and the result are the same where the optimized run does
   not overflow, and no division faults that did not: convert_branches_to_select
   (mod.rs:879) and LICM (loops/mod.rs:264) run + - * on paths of the source that do
   not, so an overflow may be added, against mod.rs:876-878. *)
BehaviourPreserved ==
  /\ \A in \in Inputs : KeepsOutcome(Outcome(optSource, in, Fuel), in)
  /\ \A in \in WideInputs : KeepsResult(Outcome(optSource, in, Fuel), in)

FaultAndLog(o) == <<o.st, o.log>>
KeepsFault(was, in) == was.st = "trap" => FaultAndLog(Outcome(optMod, in, SlackFuel)) = FaultAndLog(was)

(* A division by zero that the source runs into is not optimized away: may_trap
   keeps dead divisions (src/src/optimizer/dce.rs), and what was printed before the
   fault is printed still. *)
FaultsKept ==
  \A in \in Inputs : KeepsFault(Outcome(optSource, in, Fuel), in)

(* The verifier never stops a build: every pass hands on well-formed blocks for every
   program (run_mutating_pass reports E0901, an internal error). *)
NeverE0901 == optStatus = "ok"
=============================================================================
