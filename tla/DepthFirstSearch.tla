-------------------------- MODULE DepthFirstSearch --------------------------
(***************************************************************************)
(* The depth-first search of include/bamf/graph/DepthFirstSearch.hh over   *)
(* the control flow graph, one step per recursive call and per return.     *)
(* An operator named X_Y is X with the bug Y.                              *)
(***************************************************************************)
EXTENDS Cfg

CONSTANT Graphs     \* the graphs to search

ASSUME GraphsAssumption == Graphs \subseteq CfgGraph

VARIABLES
  graph,    \* the graph, constant
  state,    \* m_state
  stack,    \* the active calls of dfs, outermost first
  pre,      \* m_pre_order
  post      \* m_post_order

dfsVars == <<graph, state, stack, pre, post>>

DfsInit ==
  /\ graph \in Graphs
  /\ state = [b \in Block |-> IF b = Entry THEN "Exploring" ELSE "Unexplored"]
  /\ stack = <<Entry>>
  /\ pre = <<Entry>>
  /\ post = <<>>

IsUnexplored_OrExploring(b) == state[b] # "Explored"
IsUnexplored(b) == state[b] = "Unexplored"

(* The loop over the successors passes over those already seen: the place  *)
(* of the first unseen one, and 0 when every one has been seen.            *)
NextSucc(b) == SelectInSeq(Succs(graph, b), IsUnexplored)

Descend ==
  /\ stack # <<>>
  /\ NextSucc(Last(stack)) # 0
  /\ LET succ == Succs(graph, Last(stack))[NextSucc(Last(stack))]
     IN  /\ state' = [state EXCEPT ![succ] = "Exploring"]
         /\ stack' = Append(stack, succ)
         /\ pre' = Append(pre, succ)
  /\ UNCHANGED <<graph, post>>

(* Every successor has been seen: the call lists the vertex and returns.   *)
Listed_AtFront(b) == <<b>> \o post
Listed(b) == Append(post, b)

Finish ==
  /\ stack # <<>>
  /\ NextSucc(Last(stack)) = 0
  /\ state' = [state EXCEPT ![Last(stack)] = "Explored"]
  /\ post' = Listed(Last(stack))
  /\ stack' = Front(stack)
  /\ UNCHANGED <<graph, pre>>

DfsNext == Descend \/ Finish

DfsDone == stack = <<>>

-----------------------------------------------------------------------------
(* The post order index of a block, and 0 for a block the search missed.   *)
PostIndex(b) == IF b \in ToSet(post) THEN CHOOSE k \in DOMAIN post : post[k] = b ELSE 0

DfsTypeOK ==
  /\ graph \in CfgGraph
  /\ state \in [Block -> {"Unexplored", "Exploring", "Explored"}]
  /\ stack \in Seq(Block) /\ IsInjective(stack)
  /\ pre \in Seq(Block) /\ IsInjective(pre)
  /\ post \in Seq(Block) /\ IsInjective(post)
  /\ \A b \in Block : state[b] = "Exploring" <=> b \in ToSet(stack)
  /\ \A b \in Block : state[b] = "Explored" <=> b \in ToSet(post)
  /\ ToSet(pre) = ToSet(stack) \cup ToSet(post)

(* The search lists every reachable block and no other, and the order is   *)
(* topological but for cycles: a block comes after a successor of it in    *)
(* the post order unless that edge closes a cycle.  DominanceComputer      *)
(* relies on it to have seen a block's predecessors.                       *)
PostOrderCorrect ==
  DfsDone =>
    /\ ToSet(post) = Reachable(graph)
    /\ \A a, b \in ToSet(post) :
         IsEdge(graph, a, b) /\ PostIndex(a) <= PostIndex(b) => Reaches(Edges(graph), b, a)
=============================================================================
