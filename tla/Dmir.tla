-------------------------------- MODULE Dmir --------------------------------
(***************************************************************************)
(* DMIR, the intermediate representation of the compiler (src/src/dmir/):  *)
(* functions of basic blocks in which a branch passes values to the        *)
(* parameters of its target, the control flow graph with dominators,       *)
(* dominance frontiers and natural loops, and the verifier.                *)
(*                                                                         *)
(* A value is a positive number, 0 is "no value".  A function is a         *)
(* sequence of blocks; a block's id is its position and the entry is the   *)
(* first.  An instruction keeps what the passes look at: its operation,    *)
(* the value it defines, the values it uses and one name (a variable, a    *)
(* function, an operator or a constant).                                   *)
(***************************************************************************)
EXTENDS Integers, Sequences, FiniteSets, SequencesExt

-----------------------------------------------------------------------------
(* Instructions, terminators, blocks *)

Inst(op, dest, args, name) == [op |-> op, dest |-> dest, args |-> args, name |-> name]

Branch(to, args) == [kind |-> "branch", uses |-> <<>>, to |-> <<to>>, args |-> <<args>>]

CondBranch(cond, thenTo, thenArgs, elseTo, elseArgs) ==
    [kind |-> "cond", uses |-> <<cond>>, to |-> <<thenTo, elseTo>>,
     args |-> <<thenArgs, elseArgs>>]

Return(value) == [kind |-> "return", uses |-> IF value = 0 THEN <<>> ELSE <<value>>,
                  to |-> <<>>, args |-> <<>>]

Block(params, insts, term) == [params |-> params, insts |-> insts, term |-> term]

Entry == 1

(* Every value an instruction or a terminator mentions as an operand. *)
InstUses(inst) == {inst.args[k] : k \in DOMAIN inst.args}
TermUses(term) ==
    {term.uses[k] : k \in DOMAIN term.uses}
      \cup UNION {{term.args[e][k] : k \in DOMAIN term.args[e]} : e \in DOMAIN term.args}

(* All values of a function, definitions and uses (visit_vids over the blocks). *)
BlockValues(block) ==
    ToSet(block.params) \cup TermUses(block.term)
      \cup UNION {{block.insts[i].dest} \cup InstUses(block.insts[i]) : i \in DOMAIN block.insts}
MaxValue(f) ==
    LET all == {0} \cup UNION {BlockValues(f[b]) : b \in DOMAIN f}
    IN  CHOOSE v \in all : \A w \in all : w <= v

-----------------------------------------------------------------------------
(* The control flow graph *)

(* A conditional branch with equal targets has one successor. *)
Successors(f, b) ==
    LET to == f[b].term.to
    IN  IF Len(to) = 2 /\ to[1] = to[2] THEN <<to[1]>> ELSE to

Predecessors(f, b) ==
    SelectSeq([i \in 1..Max(DOMAIN f) |-> i],
              LAMBDA p : p \in DOMAIN f /\ b \in ToSet(Successors(f, p)))

(* A depth-first walk.  The stack holds blocks, marked when their successors have
   been pushed: in reverse order for the ownership analysis, in order for the
   dominators. *)
Pushes(f, b, visited, reversed) ==
    LET to      == Successors(f, b)
        push(e) == IF to[e] \in visited THEN <<>> ELSE <<[node |-> to[e], processed |-> FALSE]>>
    IN  IF to = <<>> THEN <<>>
        ELSE IF Len(to) = 1 THEN push(1)
        ELSE IF reversed THEN push(2) \o push(1) ELSE push(1) \o push(2)

WalkStep(f, walk, reversed) ==
    LET top  == walk.stack[Len(walk.stack)]
        rest == SubSeq(walk.stack, 1, Len(walk.stack) - 1)
        seen == walk.visited \cup {top.node}
    IN  IF walk.stack = <<>> THEN walk
        ELSE IF top.processed THEN [walk EXCEPT !.stack = rest, !.post = Append(@, top.node)]
        ELSE IF top.node \in walk.visited THEN [walk EXCEPT !.stack = rest]
        ELSE [stack   |-> Append(rest, [node |-> top.node, processed |-> TRUE])
                            \o Pushes(f, top.node, seen, reversed),
              visited |-> seen,
              post    |-> walk.post]

(* Entering a block, once, pushes it and at most two others: after this many turns
   the stack is empty. *)
WalkTurns(f) == 3 * Cardinality(DOMAIN f) + 1

WalkStart(b) == [stack |-> <<[node |-> b, processed |-> FALSE]>>, visited |-> {}, post |-> <<>>]
Walk(f, start, reversed) ==
    LET after[n \in 0..WalkTurns(f)] ==
            IF n = 0 THEN WalkStart(start) ELSE WalkStep(f, after[n - 1], reversed)
    IN  after

(* The blocks against the order in which the walk leaves them. *)
ReversePostOrderFrom(f, start, reversed) ==
    LET post == Walk(f, start, reversed)[WalkTurns(f)].post
    IN  [i \in 1..Len(post) |-> post[Len(post) + 1 - i]]
ReversePostOrder(f, reversed) == ReversePostOrderFrom(f, Entry, reversed)

(* Immediate dominators: sweeps over the reverse post-order until nothing
   changes; idom maps the blocks seen so far, the entry to itself. *)
Intersect(b1, b2, idom, index) ==
    LET meet[p \in (DOMAIN idom) \X (DOMAIN idom)] ==
            IF p[1] = p[2] THEN p[1]
            ELSE IF index[p[1]] > index[p[2]]
                 THEN IF idom[p[1]] = p[1] THEN p[1] ELSE meet[<<idom[p[1]], p[2]>>]
                 ELSE IF idom[p[2]] = p[2] THEN p[1] ELSE meet[<<p[1], idom[p[2]]>>]
    IN  meet[<<b1, b2>>]

CommonDominator(seen, idom, index) ==
    FoldLeft(LAMBDA acc, p : Intersect(p, acc, idom, index), Head(seen), Tail(seen))
SweepFrom(seen, idom, index, b) ==
    IF b = Entry \/ seen = <<>> THEN idom
    ELSE [c \in DOMAIN idom \cup {b} |-> IF c = b THEN CommonDominator(seen, idom, index) ELSE idom[c]]
SweepBlock(f, idom, index, b) ==
    SweepFrom(SelectSeq(Predecessors(f, b), LAMBDA p : p \in DOMAIN idom), idom, index, b)

(* At most one sweep per block on the longest way up and one that changes nothing;
   two more for the first. *)
SweepUntilStable(f, idom, index, rpo) ==
    LET after[n \in 0..(Len(rpo) + 2)] ==
            IF n = 0 THEN [idom |-> idom, stable |-> FALSE]
            ELSE LET last == after[n - 1]
                     next == FoldLeft(LAMBDA acc, b : SweepBlock(f, acc, index, b), last.idom, rpo)
                 IN  IF last.stable THEN last ELSE [idom |-> next, stable |-> next = last.idom]
    IN  after[Len(rpo) + 2].idom

Index(rpo) == [b \in ToSet(rpo) |-> CHOOSE i \in DOMAIN rpo : rpo[i] = b]
DominatorsOver(f, rpo) == SweepUntilStable(f, [b \in {Entry} |-> Entry], Index(rpo), rpo)
ImmediateDominators(f) == DominatorsOver(f, ReversePostOrder(f, FALSE))

(* Walks up the tree from b. *)
Dominates(idom, a, b) ==
    LET above[c \in DOMAIN idom \cup {b}] ==
            \/ a = c
            \/ c \in DOMAIN idom /\ idom[c] # c /\ above[idom[c]]
    IN  above[b]

(* The frontier of r contains b when the walk from a predecessor of b to b's
   immediate dominator passes r.  The walk stops at the entry and at a block
   that has no dominator. *)
FrontierWalk(idom, runner, stop) ==
    LET passed[r \in DOMAIN idom \cup {runner}] ==
            IF r \in {stop, Entry} \/ r \notin DOMAIN idom \/ idom[r] = r
            THEN {} ELSE {r} \cup passed[idom[r]]
    IN  passed[runner]

DominanceFrontier(f, idom, r) ==
    {b \in DOMAIN f :
        /\ Len(Predecessors(f, b)) >= 2
        /\ \E p \in ToSet(Predecessors(f, b)) :
              r \in FrontierWalk(idom, p, IF b \in DOMAIN idom THEN idom[b] ELSE b)}

(* The body of the loop of a back edge: what reaches its source against the
   edges without passing the header. *)
LoopBody(f, source, header) ==
    LET grown[body \in SUBSET DOMAIN f] ==
            LET more == UNION {ToSet(Predecessors(f, m)) : m \in body \ {header}}
            IN  IF more \subseteq body THEN body ELSE grown[body \cup more]
    IN  grown[{source, header}]

BackEdges(f, idom) ==
    {e \in (DOMAIN f) \X (DOMAIN f) :
        e[2] \in ToSet(Successors(f, e[1])) /\ Dominates(idom, e[2], e[1])}

LoopHeaders(f, idom) == {e[2] : e \in BackEdges(f, idom)}

NaturalLoop(f, idom, header) ==
    UNION {LoopBody(f, e[1], header) : e \in {e \in BackEdges(f, idom) : e[2] = header}}

-----------------------------------------------------------------------------
(* The verifier *)

(* The places that define v: index 0 stands for the block's parameters. *)
Definitions(f, v) ==
    {d \in UNION {{b} \X (0..Len(f[b].insts)) : b \in DOMAIN f} :
        IF d[2] = 0 THEN v \in ToSet(f[d[1]].params) ELSE f[d[1]].insts[d[2]].dest = v}

(* A use at index i of block b (past the end for the terminator). *)
CheckUse(f, idom, v, b, i) ==
    \E d \in Definitions(f, v) :
        IF d[1] = b THEN d[2] < i ELSE Dominates(idom, d[1], b)

CheckEdgeArity(f, term) ==
    \A e \in DOMAIN term.to :
        term.to[e] \in DOMAIN f /\ Len(term.args[e]) = Len(f[term.to[e]].params)

VerifyBlock(f, idom, b) ==
    /\ CheckEdgeArity(f, f[b].term)
    /\ \A i \in DOMAIN f[b].insts : \A v \in InstUses(f[b].insts[i]) : CheckUse(f, idom, v, b, i)
    /\ \A v \in TermUses(f[b].term) : CheckUse(f, idom, v, b, Len(f[b].insts) + 1)
VerifyBlocks(f, idom) == \A b \in DOMAIN f : VerifyBlock(f, idom, b)
VerifyFunction(f) ==
    /\ \A v \in 1..MaxValue(f) : Cardinality(Definitions(f, v)) <= 1
    /\ VerifyBlocks(f, ImmediateDominators(f))
=============================================================================
