-------------------------- MODULE MCCfgSimplifier ---------------------------
EXTENDS CfgSimplifier

(* Five blocks, the last of which returns and the one before it goes       *)
(* there: a conditional entry, and two blocks in its arms that may go to   *)
(* each other, to themselves, on or back to the entry's arms.              *)
Graphs ==
  {<<a, b, c, <<5>>, <<>>>> :
     a \in {<<2, 3>>, <<3, 2>>, <<2, 5>>},
     b \in {<<2>>, <<3>>, <<5>>, <<3, 5>>, <<4, 5>>, <<5, 5>>},
     c \in {<<2>>, <<5>>, <<2, 5>>, <<3, 5>>, <<4, 5>>}}

Conditions ==
  {<<x, y, z, "variable", "variable">> :
     x \in {"one", "other", "variable"}, y \in {"one", "variable"}, z \in {"one", "variable"}}

Phis == {<<0, m, n, 0, l>> : m \in 0..1, n \in 0..1, l \in {0, 1, 3}} \ {<<0, 1, 1, 0, l>> : l \in {0, 1, 3}}

Functions5 ==
  {f \in [dst : Graphs, cond : Conditions, plain : SUBSET {2, 3, 4}, phis : Phis] :
     \A b \in 2..3 : Len(f.dst[b]) = 1 => f.cond[b] = "variable"}
=============================================================================
