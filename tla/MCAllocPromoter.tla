-------------------------- MODULE MCAllocPromoter --------------------------
EXTENDS AllocPromoter

OneAccess == {<<>>, <<"load">>, <<"store">>}

FirstThree == {b \in Block : b <= 3}
OnFirstThree(f) == [b \in Block |-> IF b \in FirstThree THEN f[b] ELSE <<>>]

(* Every reducible graph of three reachable blocks, the others standing by *)
(* themselves, with no, one or two accesses a block (at most one in the    *)
(* entry), or one of them the escape.                                      *)
SmallGraphs ==
  {OnFirstThree(f) :
     f \in {g \in [FirstThree -> {d \in DistinctTerminators : ToSet(d) \subseteq FirstThree}] :
            LET t == OnFirstThree(g)
                D == Dominated(t)
            IN  D[Entry] = FirstThree /\ Reducible(t, D)}}

SmallBodies ==
  {OnFirstThree(f) :
     f \in {g \in [FirstThree -> OneAccess \cup {<<"load", "store">>, <<"store", "load">>}] : Len(g[Entry]) < 2}
          \cup [FirstThree -> {<<"load">>, <<"store">>, <<"escape">>}]}

(* A block that branches to the next twice, around which one may go.       *)
Doubled == {OnFirstThree(<< <<2, 3>>, <<3, 3>>, <<>>, <<>>, <<>> >>)}

-----------------------------------------------------------------------------
(* Shapes of five blocks: a conditional with two arms, a conditional with  *)
(* one arm in a loop, and two nested loops.                                *)
TwoArms == <<<<2, 3>>, <<4>>, <<4>>, <<5>>, <<>>>>
ArmInLoop == <<<<2>>, <<4, 3>>, <<4>>, <<2, 5>>, <<>>>>
NestedLoops == <<<<2>>, <<3>>, <<3, 4>>, <<2, 5>>, <<>>>>

Shapes == [graph : {TwoArms, ArmInLoop, NestedLoops}, body : [Block -> OneAccess]]

(* One arm loads, the other one stores, and nothing is stored behind them.  *)
Siblings ==
  [graph : {TwoArms},
   body : {b \in [Block -> OneAccess] : b[1] = <<"store">> /\ b[2] = <<"load">> /\ b[3] = <<"store">>
                                        /\ <<"store">> \notin {b[4], b[5]}}]

All == Shapes \cup [graph : SmallGraphs \cup Doubled, body : SmallBodies]
=============================================================================
