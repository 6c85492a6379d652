------------------------ MODULE ControlFlowAnalyser ------------------------
(***************************************************************************)
(* src/analyses/ControlFlowAnalyser.cc: the dominator tree of a function   *)
(* and, from the leaves of that tree up, the dominance frontiers.          *)
(* An operator named X_Y is X with the bug Y.                              *)
(***************************************************************************)
EXTENDS DominanceComputer

VARIABLES
  frontiers,    \* m_frontiers
  walked        \* the blocks the post-order walk of the tree has passed

vars == <<dfsVars, domVars, frontiers, walked>>

Init ==
  /\ DfsInit
  /\ DomInit
  /\ frontiers = [b \in Block |-> {}]
  /\ walked = {}

(* The successors b does not immediately dominate, and what its children   *)
(* in the tree pass up.                                                    *)
LocalFrontier_Preds(b) == {s \in ToSet(Preds(graph, b)) : TreeIdom(s) # b}
LocalFrontier(b) == {s \in ToSet(Succs(graph, b)) : TreeIdom(s) # b}

PassedUp_All(b) == UNION {frontiers[c] : c \in TreeSuccs(b)}
PassedUp(b) == {s \in UNION {frontiers[c] : c \in TreeSuccs(b)} : TreeIdom(s) # b}

(* The children of a block are walked before it, in an order that depends  *)
(* on the iteration order of an unordered map.                             *)
AddFrontier(b) ==
  /\ TreeBuilt
  /\ b \notin walked
  /\ TreeSuccs(b) \subseteq walked
  /\ frontiers' = [frontiers EXCEPT ![b] = LocalFrontier(b) \cup PassedUp(b)]
  /\ walked' = walked \cup {b}
  /\ UNCHANGED <<dfsVars, domVars>>

InTree == {b \in Block : doms[b] # Nil}

Analysed == TreeBuilt /\ walked = InTree

Ended == Analysed \/ phase = "threw"

Next ==
  \/ DomNext /\ UNCHANGED <<frontiers, walked>>
  \/ \E b \in InTree : AddFrontier(b)
  \/ Ended /\ UNCHANGED vars

Spec == Init /\ [][Next]_vars

(* The analysis runs in one thread, to its end.                            *)
FairSpec == Spec /\ WF_vars(Next)

-----------------------------------------------------------------------------
(* The sets hold blocks only, and only blocks of the dominator tree are    *)
(* walked.                                                                 *)
TypeOK ==
  /\ DomTypeOK
  /\ frontiers \in [Block -> SUBSET Block]
  /\ walked \subseteq InTree

(* On a reducible graph the frontiers are the dominance frontiers.         *)
FrontiersCorrect ==
  Analysed =>
    \A D \in {Dominated(graph)} :
      Reducible(graph, D) =>
        \A b \in Block : b \in D[b] => frontiers[b] = DominanceFrontier(graph, D, b)

(* The analysis of any graph comes to an end: the depth-first search, the  *)
(* sweeps and the walks of intersect all stop.                             *)
AnalysisEnds == <>Ended
=============================================================================
