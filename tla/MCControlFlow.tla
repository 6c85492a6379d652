--------------------------- MODULE MCControlFlow ---------------------------
EXTENDS ControlFlowAnalyser

(* Every graph of the blocks but the last, which stands by itself:         *)
(* unreachable blocks and conditional branches to one block twice          *)
(* included.                                                               *)
SmallGraphs ==
  {t \in CfgGraph : t[N] = <<>> /\ \A b \in Block : N \notin ToSet(t[b])}

(* Every graph without unreachable blocks and doubled edges in which the   *)
(* last block does not branch conditionally.                               *)
ReachableGraphs ==
  {t \in [Block -> DistinctTerminators] : Len(t[N]) < 2 /\ Reachable(t) = Block}

AllGraphs == SmallGraphs \cup ReachableGraphs
=============================================================================
