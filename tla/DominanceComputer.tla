------------------------- MODULE DominanceComputer -------------------------
(***************************************************************************)
(* include/bamf/graph/DominanceComputer.hh: immediate dominators by        *)
(* intersecting the dominators of the predecessors in reverse post order.  *)
(* An operator named X_Y is X with the bug Y.                              *)
(***************************************************************************)
EXTENDS DepthFirstSearch

VARIABLES
  todo,     \* the blocks of the current sweep still to visit
  doms,     \* the map doms, Nil where it has no key
  changed,  \* the loop condition
  phase     \* "search", "sweep", "threw" or "tree"

domVars == <<todo, doms, changed, phase>>

DomInit ==
  /\ todo = <<>>
  /\ doms = [b \in Block |-> Nil]
  /\ changed = FALSE
  /\ phase = "search"

(* Reverse post order without the entry. *)
SweepOrder == Tail(Reverse(post))

BeginSweep ==
  /\ phase = "search"
  /\ DfsDone
  /\ todo' = SweepOrder
  /\ doms' = [doms EXCEPT ![Entry] = Entry]
  /\ changed' = FALSE
  /\ phase' = "sweep"
  /\ UNCHANGED dfsVars

-----------------------------------------------------------------------------
Throws == -1        \* index_map.at or doms.at did not find its key

(* The two inner loops of intersect walk whichever finger has the smaller  *)
(* index up the map; the walk stops where the fingers meet.                *)
Up(b) == IF doms[b] = Nil THEN Throws ELSE doms[b]

Intersect(f1, f2) ==
  LET meet[f \in (Block \cup {Throws}) \X (Block \cup {Throws})] ==
        LET a == f[1]
            b == f[2]
        IN  IF a = Throws \/ b = Throws THEN Throws
            ELSE IF PostIndex(a) = 0 \/ PostIndex(b) = 0 THEN Throws
            ELSE IF PostIndex(a) = PostIndex(b) THEN a
            ELSE IF PostIndex(a) < PostIndex(b) THEN meet[<<Up(a), b>>]
            ELSE meet[<<a, Up(b)>>]
  IN  meet[<<f1, f2>>]

(* The first predecessor that itself has predecessors or is the entry.     *)
MayStart(p) == Preds(graph, p) # <<>> \/ p = Entry

FirstPred(b) ==
  LET k == SelectInSeq(Preds(graph, b), MayStart)
  IN  IF k = 0 THEN Nil ELSE Preds(graph, b)[k]

HasDom_Always(p) == TRUE
HasDom(p) == doms[p] # Nil

NewIdom_FirstPredOnly(b) == FirstPred(b)
NewIdom(b) ==
  LET preds == Preds(graph, b)
      met[x \in (Block \cup {Nil, Throws}) \X Block] ==
        LET idom == x[1]
            p == x[2]
        IN  IF idom # Throws /\ p # idom /\ HasDom(p) THEN Intersect(p, idom) ELSE idom
      after[k \in 0..Len(preds)] ==
        IF k = 0 THEN FirstPred(b) ELSE met[<<after[k-1], preds[k]>>]
  IN  after[Len(preds)]

(* The loop runs again if the last block's dominator was already the one   *)
(* computed, so a first sweep is never repeated.                           *)
Again_Assigned(b, idom) == idom # Nil
Again(b, idom) == doms[b] = idom

Visit ==
  /\ phase = "sweep"
  /\ todo # <<>>
  /\ LET b == Head(todo)
         idom == NewIdom(b)
     IN  IF idom = Throws
         THEN /\ phase' = "threw"
              /\ UNCHANGED <<todo, doms, changed>>
         ELSE /\ changed' = Again(b, idom)
              /\ doms' = [doms EXCEPT ![b] = idom]
              /\ todo' = Tail(todo)
              /\ UNCHANGED phase
  /\ UNCHANGED dfsVars

EndSweep ==
  /\ phase = "sweep"
  /\ todo = <<>>
  /\ IF changed
     THEN todo' = SweepOrder /\ changed' = FALSE /\ UNCHANGED phase
     ELSE phase' = "tree" /\ UNCHANGED <<todo, changed>>
  /\ UNCHANGED <<doms, dfsVars>>

DomNext ==
  \/ phase = "search" /\ DfsNext /\ UNCHANGED domVars
  \/ BeginSweep
  \/ Visit
  \/ EndSweep

-----------------------------------------------------------------------------
TreeBuilt == phase = "tree"

(* The tree built from doms has an edge to each vertex but the entry.      *)
TreeIdom(b) == IF b = Entry THEN Nil ELSE doms[b]
TreeSuccs(b) == {c \in Block : doms[c] = b /\ c # b}

(* DominatorTree::dominates climbs from the dominatee to the entry, and    *)
(* fails an assertion at a block that has no place in the tree.            *)
Climbed(b) ==
  LET up[k \in 0..N] ==
        IF k = 0 THEN {b}
        ELSE LET U == up[k-1] IN U \cup ({TreeIdom(c) : c \in U} \ {Nil})
  IN  up[N]

tree_dominates(a, b) == a = b \/ a \in Climbed(b)

(* ControlFlowAnalysis::dominates of instructions, each a block and its    *)
(* position there.                                                         *)
dominates(i, j) == IF i[1] = j[1] THEN i[2] < j[2] ELSE tree_dominates(i[1], j[1])

DomTypeOK ==
  /\ DfsTypeOK
  /\ todo \in Seq(Block)
  /\ doms \in [Block -> Block \cup {Nil}]
  /\ changed \in BOOLEAN
  /\ phase \in {"search", "sweep", "threw", "tree"}

(* On any graph that is analysed at all, an instruction is said to         *)
(* dominate those it does dominate, and on a reducible graph no other.     *)
(* The Verifier, which asks this of every use, logs no error in vain, and  *)
(* one sweep has found the immediate dominators.                           *)
DominatesCorrect ==
  TreeBuilt =>
    \A D \in {Dominated(graph)} :
    LET said == [b \in ToSet(post) |-> {a \in Block : dominates(<<a, 1>>, <<b, 2>>)}]
        dominators == [b \in ToSet(post) |-> {a \in Block : b \in D[a]}]
    IN  /\ \A b \in ToSet(post) : dominators[b] \subseteq said[b] /\ ~dominates(<<b, 2>>, <<b, 1>>)
        /\ Reducible(graph, D) => said = dominators

(* The computation throws exactly when the predecessor it starts from at   *)
(* some reachable block is unreachable or comes later in reverse post      *)
(* order, as the latch of a loop laid out before the block that enters it. *)
StartsLate(b) == FirstPred(b) # Nil /\ PostIndex(FirstPred(b)) <= PostIndex(b)

ThrowsOnLateStart ==
  /\ TreeBuilt => \A b \in ToSet(post) \ {Entry} : ~StartsLate(b)
  /\ phase = "threw" => \E b \in ToSet(post) \ {Entry} : StartsLate(b)

(* "Build idom tree." (DominanceComputer.hh:79): the tree has the          *)
(* immediate dominators, whatever the graph.                               *)
BuildsIdomTree ==
  TreeBuilt =>
    \A D \in {Dominated(graph)} :
      \A b \in ToSet(post) \ {Entry} : doms[b] = ImmediateDominator(D, b)
=============================================================================
