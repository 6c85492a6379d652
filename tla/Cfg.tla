-------------------------------- MODULE Cfg --------------------------------
(***************************************************************************)
(* Control flow graphs of a function, and the textbook notions bamf's      *)
(* analyses are compared with.                                             *)
(*                                                                         *)
(* Blocks are numbered in layout order, so the entry is block 1.  A graph  *)
(* t gives the destinations of each block's terminator in the order        *)
(* ControlFlowAnalyser connects them: none for a return, one for a branch, *)
(* the false and then the true destination for a conditional branch.       *)
(***************************************************************************)
EXTENDS Integers, FiniteSets, Sequences, SequencesExt

CONSTANT N          \* number of blocks

ASSUME NAssumption == N \in Nat \ {0}

Block == 1..N
Entry == 1
Nil == 0            \* no block

Terminators == {<<>>} \cup {<<b>> : b \in Block} \cup (Block \X Block)
DistinctTerminators == {d \in Terminators : Len(d) = 2 => d[1] # d[2]}
CfgGraph == [Block -> Terminators]

-----------------------------------------------------------------------------
(* Graph::succs and Graph::preds: one element per edge, in the order the   *)
(* edges were connected, which is the layout order of their sources.       *)
Succs(t, b) == t[b]

Preds(t, b) ==
  LET upTo[a \in 0..N] ==
        IF a = 0 THEN <<>>
        ELSE upTo[a-1] \o [k \in 1..Cardinality({e \in DOMAIN t[a] : t[a][e] = b}) |-> a]
  IN  upTo[N]

IsEdge(t, a, b) == b \in ToSet(t[a])

-----------------------------------------------------------------------------
(* The successors of each block as a set.                                  *)
Edges(t) == [a \in Block |-> ToSet(t[a])]

(* The blocks that the edges E lead to from the set S without entering a   *)
(* block of Avoid.                                                         *)
ReachableAvoiding(E, S, Avoid) ==
  LET reach[k \in 0..N] ==
        IF k = 0 THEN S \ Avoid
        ELSE LET R == reach[k-1] IN R \cup ((UNION {E[a] : a \in R}) \ Avoid)
  IN  reach[N]

Reachable(t) == ReachableAvoiding(Edges(t), {Entry}, {})

(* A path of at least one edge. *)
Reaches(E, a, b) == b \in ReachableAvoiding(E, E[a], {})

(* What each block dominates: the reachable blocks every path to which     *)
(* passes through it.                                                      *)
Dominated(t) ==
  LET R == Reachable(t)
  IN  [a \in Block |-> R \ (ReachableAvoiding(Edges(t), {Entry}, {a}))]

(* In the notions below, D is Dominated(t).  (It is bound by a quantifier   *)
(* where it is used often, so that TLC computes it once.)                  *)
StrictlyDominates(D, a, b) == a # b /\ b \in D[a]

(* The strict dominator every other strict dominator dominates.            *)
ImmediateDominator(D, b) ==
  CHOOSE a \in Block :
    /\ StrictlyDominates(D, a, b)
    /\ \A c \in Block : StrictlyDominates(D, c, b) => a \in D[c]

(* Where a's dominance ends: the blocks a does not strictly dominate but   *)
(* with a predecessor it dominates.                                        *)
DominanceFrontier(t, D, a) ==
  {b \in UNION {ToSet(t[p]) : p \in D[a]} : ~StrictlyDominates(D, a, b)}

(* Without its back edges, the edges to a dominator of their source, a     *)
(* reducible graph has no cycle among its reachable blocks.                *)
ForwardEdges(t, D) == [a \in Block |-> {b \in ToSet(t[a]) : a \notin D[b]}]

Reducible(t, D) ==
  \A E \in {ForwardEdges(t, D)} : \A b \in Block : b \in D[b] => ~Reaches(E, b, b)
=============================================================================
