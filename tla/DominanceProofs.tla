-------------------------- MODULE DominanceProofs --------------------------
(***************************************************************************)
(* The depth-first search lists the reachable blocks in an order that is   *)
(* topological but for cycles, whatever the graph.  The dominator tree:    *)
(* when its computation throws, that it says every dominance there is, and *)
(* on reducible graphs no other; and the frontiers made of it.             *)
(***************************************************************************)
EXTENDS ControlFlowAnalyser, Integers, FiniteSetTheorems, SequencesExt, SequenceTheorems,
        WellFoundedInduction, TLAPS

(* Induction over an interval of numbers and the existence of functions    *)
(* that are defined by recursion, stated with sets and functions instead   *)
(* of operators, and facts about sequences.                                *)

(* A set of natural numbers has a least element.                           *)
LEMMA LeastElement ==
  ASSUME NEW T, T \subseteq Nat, T # {}
  PROVE  \E m \in T : \A k \in T : m <= k
<1> DEFINE R == OpToRel(<, Nat)
<1>1. IsWellFoundedOn(R, Nat)
  BY NatLessThanWellFounded
<1>2. PICK m \in T : \A k \in T : ~(<<k, m>> \in R)
  <2> HIDE DEF R
  <2> QED
    BY <1>1, WFMin
<1>3. ASSUME NEW k \in T PROVE m <= k
  <2>1. k \in Nat /\ m \in Nat
    OBVIOUS
  <2>2. ~(<<k, m>> \in R)
    BY <1>2
  <2>3. k < m => <<k, m>> \in R
    BY <2>1, Zenon DEF OpToRel
  <2> HIDE DEF R
  <2> QED
    BY <2>1, <2>2, <2>3
<1> QED
  BY <1>3

(* Induction up to n, for the set G of the numbers a fact is good for.     *)
LEMMA IntervalInduction ==
  ASSUME NEW n \in Nat, NEW G, 0 \in G,
         \A k \in 0..(n-1) : k \in G => k + 1 \in G
  PROVE  0..n \subseteq G
<1> SUFFICES ASSUME (0..n) \ G # {} PROVE FALSE
  OBVIOUS
<1>1. PICK m \in (0..n) \ G : \A k \in (0..n) \ G : m <= k
  <2>1. (0..n) \ G \subseteq Nat
    OBVIOUS
  <2> QED
    BY <2>1, LeastElement
<1>2. m # 0 /\ m - 1 \in 0..(n-1) /\ (m - 1) + 1 = m
  BY <1>1
<1>3. m - 1 \in G
  BY <1>1, <1>2
<1> QED
  BY <1>1, <1>2, <1>3

(* A function that gives each number but the first from the one before.    *)
IsIteration(f, n, T, base, step) ==
  /\ f \in [0..n -> T]
  /\ f[0] = base
  /\ \A k \in 1..n : f[k] = step[<<k, f[k-1]>>]

LEMMA IterationExists ==
  ASSUME NEW n \in Nat, NEW T, NEW base \in T,
         NEW step, \A k \in 1..n, x \in T : step[<<k, x>>] \in T
  PROVE  \E f : IsIteration(f, n, T, base, step)
<1> DEFINE G == {m \in 0..n : \E f : IsIteration(f, m, T, base, step)}
<1>1. 0 \in G
  <2>1. IsIteration([k \in 0..0 |-> base], 0, T, base, step)
    BY DEF IsIteration
  <2> QED
    BY <2>1
<1>2. ASSUME NEW m \in 0..(n-1), m \in G PROVE m + 1 \in G
  <2>1. PICK f : IsIteration(f, m, T, base, step)
    BY <1>2
  <2> DEFINE g == [k \in 0..(m+1) |-> IF k = m + 1 THEN step[<<m+1, f[m]>>] ELSE f[k]]
  <2>2. g \in [0..(m+1) -> T]
    <3>1. step[<<m+1, f[m]>>] \in T
      BY <2>1 DEF IsIteration
    <3>2. \A k \in 0..(m+1) : k # m + 1 => k \in 0..m
      OBVIOUS
    <3> QED
      BY <2>1, <3>1, <3>2 DEF IsIteration
  <2>3. g[0] = base
    BY <2>1 DEF IsIteration
  <2>4. ASSUME NEW k \in 1..(m+1) PROVE g[k] = step[<<k, g[k-1]>>]
    <3>1. k - 1 \in 0..m /\ g[k-1] = f[k-1]
      OBVIOUS
    <3>2. CASE k = m + 1
      <4>1. k - 1 = m /\ g[k] = step[<<k, f[m]>>]
        BY <3>2
      <4> HIDE DEF g
      <4> QED
        BY <3>1, <4>1
    <3>3. CASE k # m + 1
      <4>1. k \in 1..m /\ g[k] = f[k]
        BY <3>3
      <4> HIDE DEF g
      <4> QED
        BY <2>1, <3>1, <4>1 DEF IsIteration
    <3> QED
      BY <3>2, <3>3
  <2>5. IsIteration(g, m + 1, T, base, step)
    <3> HIDE DEF g
    <3> QED
      BY <2>2, <2>3, <2>4 DEF IsIteration
  <2> QED
    BY <2>5
<1>3. 0..n \subseteq G
  <2> HIDE DEF G
  <2> QED
    BY <1>1, <1>2, IntervalInduction
<1> QED
  BY <1>3

(* A function on D that is defined by its values on what has a smaller     *)
(* measure: one that gives itself when F is applied to it.                 *)
IsRecursion(F, Maps, D, M, mu) ==
  /\ M \in Nat
  /\ mu \in [D -> 0..M]
  /\ F \in [Maps -> Maps]
  /\ \A g, h \in Maps, x \in D :
       (\A y \in D : mu[y] < mu[x] => g[y] = h[y]) => F[g][x] = F[h][x]

LEMMA RecursionExists ==
  ASSUME NEW D, NEW T, NEW any \in T, NEW Maps, Maps = [D -> T],
         NEW M, NEW mu, NEW F, IsRecursion(F, Maps, D, M, mu)
  PROVE  \E f \in Maps : F[f] = f
<1> USE DEF IsRecursion
<1> DEFINE base == [x \in D |-> any]
           step == [x \in (1..(M+1)) \X [D -> T] |-> F[x[2]]]
<1>1. \A k \in 1..(M+1), g \in [D -> T] : step[<<k, g>>] = F[g]
  OBVIOUS
<1>2. base \in [D -> T] /\ \A k \in 1..(M+1), g \in [D -> T] : step[<<k, g>>] \in [D -> T]
  OBVIOUS
<1> HIDE DEF base, step
<1>3. PICK it : IsIteration(it, M + 1, [D -> T], base, step)
  <2>1. M + 1 \in Nat
    OBVIOUS
  <2>2. base \in Maps /\ \A k \in 1..(M+1), g \in Maps : step[<<k, g>>] \in Maps
    BY <1>2, Zenon
  <2>3. \E it : IsIteration(it, M + 1, Maps, base, step)
    BY <2>1, <2>2, IterationExists
  <2> QED
    BY <2>3, Zenon
<1>4. \A k \in 0..(M+1) : it[k] \in [D -> T]
  BY <1>3 DEF IsIteration
<1>5. \A k \in 0..M : it[k+1] = F[it[k]]
  <2> SUFFICES ASSUME NEW k \in 0..M PROVE it[k+1] = F[it[k]]
    OBVIOUS
  <2>1. k + 1 \in 1..(M+1) /\ (k + 1) - 1 = k /\ k \in 0..(M+1)
    OBVIOUS
  <2>2. it[k+1] = step[<<k+1, it[k]>>]
    BY <1>3, <2>1 DEF IsIteration
  <2> QED
    BY <1>1, <1>4, <2>1, <2>2
<1> DEFINE G == {k \in 0..(M+1) : \A x \in D : mu[x] < k => F[it[k]][x] = it[k][x]}
<1>6. 0 \in G
  OBVIOUS
<1>7. ASSUME NEW k \in 0..M, k \in G PROVE k + 1 \in G
  <2> SUFFICES ASSUME NEW x \in D, mu[x] < k + 1
               PROVE  F[it[k+1]][x] = it[k+1][x]
    OBVIOUS
  <2>1. k \in 0..(M+1) /\ k + 1 \in 0..(M+1)
    OBVIOUS
  <2>2. \A y \in D : mu[y] < mu[x] => it[k+1][y] = it[k][y]
    <3> SUFFICES ASSUME NEW y \in D, mu[y] < mu[x] PROVE it[k+1][y] = it[k][y]
      OBVIOUS
    <3>1. mu[y] < k
      <4>1. mu[x] \in 0..M /\ mu[y] \in 0..M
        OBVIOUS
      <4> QED
        BY <4>1
    <3> QED
      BY <1>5, <1>7, <3>1
  <2>3. F[it[k+1]][x] = F[it[k]][x]
    BY <1>4, <2>1, <2>2
  <2> QED
    BY <1>5, <2>3
<1>8. 0..(M+1) \subseteq G
  <2>1. M + 1 \in Nat /\ \A k \in 0..((M + 1) - 1) : k \in 0..M
    OBVIOUS
  <2> HIDE DEF G
  <2> QED
    BY <1>6, <1>7, <2>1, IntervalInduction
<1>9. it[M+1] \in [D -> T] /\ F[it[M+1]] \in [D -> T]
  BY <1>4
<1>10. \A x \in D : F[it[M+1]][x] = it[M+1][x]
  BY <1>8
<1>11. F[it[M+1]] = it[M+1]
  BY <1>9, <1>10
<1> QED
  BY <1>9, <1>11

(* A non-empty sequence is its front and its last element.                 *)
LEMMA FrontAndLast ==
  ASSUME NEW S, NEW s \in Seq(S), s # <<>>
  PROVE  /\ Len(s) \in Nat \ {0}
         /\ Front(s) \in Seq(S)
         /\ Len(Front(s)) = Len(s) - 1
         /\ DOMAIN Front(s) = 1..(Len(s) - 1)
         /\ \A k \in 1..(Len(s) - 1) : Front(s)[k] = s[k]
         /\ Last(s) = s[Len(s)]
         /\ Last(s) \in S
         /\ ToSet(s) = ToSet(Front(s)) \cup {Last(s)}
<1>1. Len(s) \in Nat \ {0} /\ DOMAIN s = 1..Len(s)
  BY EmptySeq, LenProperties
<1>2. \A k \in 1..(Len(s) - 1) : s[k] \in S
  BY <1>1, ElementOfSeq
<1>3. /\ Front(s) \in Seq(S)
      /\ Len(Front(s)) = Len(s) - 1
      /\ \A k \in 1..(Len(s) - 1) : Front(s)[k] = s[k]
  BY <1>1, <1>2, SubSeqProperties DEF Front
<1>4. DOMAIN Front(s) = 1..(Len(s) - 1)
  BY <1>3, LenProperties
<1>5. Last(s) \in S /\ Last(s) = s[Len(s)]
  BY <1>1, ElementOfSeq DEF Last
<1>6. ASSUME NEW k \in DOMAIN s PROVE s[k] \in ToSet(Front(s)) \cup {Last(s)}
  <2>1. k = Len(s) \/ k \in 1..(Len(s) - 1)
    BY <1>1
  <2> QED
    BY <2>1, <1>3, <1>4 DEF ToSet, Last
<1>7. ASSUME NEW k \in DOMAIN Front(s) PROVE Front(s)[k] \in ToSet(s)
  <2>1. k \in DOMAIN s /\ Front(s)[k] = s[k]
    BY <1>1, <1>3, <1>4
  <2> QED
    BY <2>1 DEF ToSet
<1>8. Last(s) \in ToSet(s)
  BY <1>1, <1>5 DEF ToSet
<1>9. ToSet(s) = ToSet(Front(s)) \cup {Last(s)}
  BY <1>6, <1>7, <1>8 DEF ToSet
<1> QED
  BY <1>1, <1>3, <1>4, <1>5, <1>9

LEMMA AppendOne ==
  ASSUME NEW S, NEW s \in Seq(S), NEW x \in S
  PROVE  /\ Append(s, x) \in Seq(S)
         /\ Len(s) \in Nat
         /\ Len(Append(s, x)) = Len(s) + 1
         /\ DOMAIN s = 1..Len(s)
         /\ DOMAIN Append(s, x) = 1..(Len(s) + 1)
         /\ \A k \in 1..Len(s) : Append(s, x)[k] = s[k]
         /\ Append(s, x)[Len(s) + 1] = x
         /\ Append(s, x) # <<>>
         /\ Last(Append(s, x)) = x
         /\ ToSet(Append(s, x)) = ToSet(s) \cup {x}
<1>1. /\ Append(s, x) \in Seq(S)
      /\ Append(s, x) # <<>>
      /\ Len(Append(s, x)) = Len(s) + 1
      /\ \A i \in 1..Len(s) : Append(s, x)[i] = s[i]
      /\ Append(s, x)[Len(s) + 1] = x
  BY AppendProperties
<1>2. /\ Len(s) \in Nat /\ DOMAIN s = 1..Len(s)
      /\ DOMAIN Append(s, x) = 1..(Len(s) + 1)
  BY <1>1, LenProperties
<1>3. \A k \in DOMAIN Append(s, x) : k \in DOMAIN s \/ k = Len(s) + 1
  BY <1>2
<1>4. Len(s) + 1 \in DOMAIN Append(s, x) /\ DOMAIN s \subseteq DOMAIN Append(s, x)
  BY <1>2
<1>5. ToSet(Append(s, x)) = ToSet(s) \cup {x}
  BY <1>1, <1>2, <1>3, <1>4 DEF ToSet
<1> QED
  BY <1>1, <1>2, <1>5 DEF Last

(* A sequence without repetitions keeps none when its last element goes,   *)
(* or a new one comes.                                                     *)
LEMMA FrontInjective ==
  ASSUME NEW S, NEW s \in Seq(S), s # <<>>, IsInjective(s)
  PROVE  /\ IsInjective(Front(s))
         /\ Last(s) \notin ToSet(Front(s))
<1>1. /\ Len(s) \in Nat \ {0}
      /\ DOMAIN s = 1..Len(s)
      /\ DOMAIN Front(s) = 1..(Len(s) - 1)
      /\ \A k \in 1..(Len(s) - 1) : Front(s)[k] = s[k]
      /\ Last(s) = s[Len(s)]
  BY FrontAndLast, LenProperties
<1> QED
  BY <1>1 DEF IsInjective, ToSet

LEMMA AppendNewInjective ==
  ASSUME NEW S, NEW s \in Seq(S), NEW x \in S, IsInjective(s), x \notin ToSet(s)
  PROVE  IsInjective(Append(s, x))
<1>1. /\ Len(s) \in Nat
      /\ DOMAIN s = 1..Len(s)
      /\ DOMAIN Append(s, x) = 1..(Len(s) + 1)
      /\ \A k \in 1..Len(s) : Append(s, x)[k] = s[k]
      /\ Append(s, x)[Len(s) + 1] = x
  BY AppendOne
<1>2. \A k \in 1..Len(s) : s[k] # x
  BY <1>1 DEF ToSet
<1> QED
  BY <1>1, <1>2 DEF IsInjective

(* SelectInSeq finds the first place among those that pass, if any does.   *)
LEMMA SelectedPlace ==
  ASSUME NEW n \in Nat, NEW I \in SUBSET (1..n)
  PROVE  /\ I = {} => (IF I # {} THEN Min(I) ELSE 0) = 0
         /\ I # {} => /\ (IF I # {} THEN Min(I) ELSE 0) \in I
                      /\ \A i \in I : (IF I # {} THEN Min(I) ELSE 0) <= i
<1>1. SUFFICES ASSUME I # {} PROVE Min(I) \in I /\ \A i \in I : Min(I) <= i
  OBVIOUS
<1>2. \E m \in I : \A i \in I : m <= i
  <2>1. I \subseteq Nat
    OBVIOUS
  <2> QED
    BY <1>1, <2>1, LeastElement
<1> QED
  BY <1>2 DEF Min

LEMMA ConcatenateTwo ==
  ASSUME NEW S, NEW s \in Seq(S), NEW t \in Seq(S)
  PROVE  s \o t \in Seq(S) /\ ToSet(s \o t) = ToSet(s) \cup ToSet(t)
<1>1. /\ s \o t \in Seq(S)
      /\ Len(s \o t) = Len(s) + Len(t)
      /\ \A i \in 1..(Len(s) + Len(t)) : (s \o t)[i] = IF i <= Len(s) THEN s[i] ELSE t[i - Len(s)]
  BY ConcatProperties
<1>2. /\ Len(s) \in Nat /\ Len(t) \in Nat
      /\ DOMAIN s = 1..Len(s) /\ DOMAIN t = 1..Len(t)
      /\ DOMAIN (s \o t) = 1..(Len(s) + Len(t))
  BY <1>1, LenProperties
<1>3. ASSUME NEW k \in DOMAIN s PROVE s[k] \in ToSet(s \o t)
  <2>1. k \in DOMAIN (s \o t) /\ (s \o t)[k] = s[k]
    BY <1>1, <1>2
  <2> QED
    BY <2>1 DEF ToSet
<1>4. ASSUME NEW k \in DOMAIN t PROVE t[k] \in ToSet(s \o t)
  <2>1. Len(s) + k \in DOMAIN (s \o t) /\ (s \o t)[Len(s) + k] = t[k]
    BY <1>1, <1>2
  <2> QED
    BY <2>1 DEF ToSet
<1>5. ASSUME NEW k \in DOMAIN (s \o t) PROVE (s \o t)[k] \in ToSet(s) \cup ToSet(t)
  <2>1. CASE k <= Len(s)
    <3>1. k \in DOMAIN s /\ (s \o t)[k] = s[k]
      BY <1>1, <1>2, <2>1
    <3> QED
      BY <3>1 DEF ToSet
  <2>2. CASE k > Len(s)
    <3>1. k - Len(s) \in DOMAIN t /\ (s \o t)[k] = t[k - Len(s)]
      BY <1>1, <1>2, <2>2
    <3> QED
      BY <3>1 DEF ToSet
  <2> QED
    BY <1>2, <2>1, <2>2
<1> QED
  BY <1>1, <1>3, <1>4, <1>5 DEF ToSet

-----------------------------------------------------------------------------
(* What ReachableAvoiding computes: the least set that holds the blocks    *)
(* the search starts from and the successors of its blocks.                *)

(* C has the successors of its blocks, but for those to avoid.             *)
ClosedAvoiding(E, C, Avoid) == \A a \in C : E[a] \subseteq C \cup Avoid

(* Destinations are blocks, in a list of at most two.                      *)
LEMMA DestinationsAreBlocks ==
  ASSUME NEW t \in CfgGraph, NEW a \in Block
  PROVE  /\ t[a] \in Seq(Block)
         /\ Len(t[a]) \in 0..2
         /\ DOMAIN t[a] = 1..Len(t[a])
         /\ ToSet(t[a]) \subseteq Block
<1>1. t[a] \in Terminators
  BY DEF CfgGraph
<1>2. CASE t[a] = <<>>
  BY <1>2 DEF ToSet
<1>3. CASE \E b \in Block : t[a] = <<b>>
  BY <1>3 DEF ToSet
<1>4. CASE \E b, c \in Block : t[a] = <<b, c>>
  BY <1>4 DEF ToSet
<1> QED
  BY <1>1, <1>2, <1>3, <1>4 DEF Terminators

(* One more round of the search.                                           *)
Round(E, Avoid, R) == R \cup ((UNION {E[a] : a \in R}) \ Avoid)

IsSearch(reach, E, S, Avoid) ==
  /\ reach \in [0..N -> SUBSET Block]
  /\ reach[0] = S \ Avoid
  /\ \A k \in 1..N : reach[k] = Round(E, Avoid, reach[k-1])

LEMMA RoundOfBlocks ==
  ASSUME NEW E \in [Block -> SUBSET Block], NEW Avoid, NEW R \in SUBSET Block
  PROVE  Round(E, Avoid, R) \in SUBSET Block
BY DEF Round

(* The recursive function exists, so it is what its equation says.         *)
LEMMA SearchExists ==
  ASSUME NEW E \in [Block -> SUBSET Block], NEW S \in SUBSET Block, NEW Avoid
  PROVE  \E reach : /\ IsSearch(reach, E, S, Avoid)
                    /\ ReachableAvoiding(E, S, Avoid) = reach[N]
<1> DEFINE Rounds == SUBSET Block
           step == [x \in (1..N) \X Rounds |-> Round(E, Avoid, x[2])]
           IsReach(f) ==
             f = [k \in 0..N |->
               IF k = 0 THEN S \ Avoid
               ELSE LET R == f[k-1] IN R \cup ((UNION {E[a] : a \in R}) \ Avoid)]
<1>1. \A k \in 1..N, x \in Rounds : step[<<k, x>>] = Round(E, Avoid, x)
  OBVIOUS
<1>2. \A k \in 1..N, x \in Rounds : step[<<k, x>>] \in Rounds
  BY <1>1, RoundOfBlocks
<1>3. PICK f : IsIteration(f, N, Rounds, S \ Avoid, step)
  <2>1. N \in Nat /\ S \ Avoid \in Rounds
    BY NAssumption
  <2> HIDE DEF step, Rounds
  <2> QED
    BY <1>2, <2>1, IterationExists
<1>4. IsReach(f)
  <2>1. ASSUME NEW k \in 0..N, k # 0
        PROVE  f[k] = f[k-1] \cup ((UNION {E[a] : a \in f[k-1]}) \ Avoid)
    <3>1. k \in 1..N /\ k - 1 \in 0..N
      BY <2>1, NAssumption
    <3>2. f[k-1] \in Rounds /\ f[k] = step[<<k, f[k-1]>>]
      BY <1>3, <3>1 DEF IsIteration
    <3> HIDE DEF step
    <3> QED
      BY <1>1, <3>1, <3>2 DEF Round
  <2>2. f[0] = S \ Avoid /\ f \in [0..N -> Rounds]
    BY <1>3 DEF IsIteration
  <2> HIDE DEF step
  <2> QED
    BY <2>1, <2>2
<1> DEFINE reach == CHOOSE g : IsReach(g)
<1>5. IsReach(reach)
  <2> HIDE DEF IsReach
  <2> QED
    BY <1>4
<1>6. ReachableAvoiding(E, S, Avoid) = reach[N]
  BY DEF ReachableAvoiding
<1> HIDE DEF reach
<1>7. reach[0] = S \ Avoid /\ \A k \in 1..N : reach[k] = Round(E, Avoid, reach[k-1])
  BY <1>5, NAssumption DEF Round
<1>8. 0..N \subseteq {k \in 0..N : reach[k] \in SUBSET Block}
  <2> DEFINE G == {k \in 0..N : reach[k] \in SUBSET Block}
  <2>1. 0 \in G
    BY <1>7, NAssumption
  <2>2. ASSUME NEW k \in 0..(N-1), k \in G PROVE k + 1 \in G
    <3>1. k + 1 \in 1..N /\ (k + 1) - 1 = k
      BY NAssumption
    <3> QED
      BY <1>7, <2>2, <3>1, RoundOfBlocks
  <2> HIDE DEF G
  <2>3. 0..N \subseteq G
    BY <2>1, <2>2, NAssumption, IntervalInduction
  <2> QED
    BY <2>3 DEF G
<1>9. IsSearch(reach, E, S, Avoid)
  BY <1>5, <1>7, <1>8 DEF IsSearch
<1> QED
  BY <1>6, <1>9

(* It lies in every set that has the start and the successors of its       *)
(* blocks: nothing is reached but by an edge.                              *)
LEMMA ReachableIsLeast ==
  ASSUME NEW E \in [Block -> SUBSET Block], NEW S \in SUBSET Block, NEW Avoid,
         NEW C, S \ Avoid \subseteq C, ClosedAvoiding(E, C, Avoid)
  PROVE  ReachableAvoiding(E, S, Avoid) \subseteq C
<1>1. PICK reach : /\ IsSearch(reach, E, S, Avoid)
                   /\ ReachableAvoiding(E, S, Avoid) = reach[N]
  BY SearchExists
<1> DEFINE G == {k \in 0..N : reach[k] \subseteq C}
<1>2. 0 \in G
  BY <1>1, NAssumption DEF IsSearch
<1>3. ASSUME NEW k \in 0..(N-1), k \in G PROVE k + 1 \in G
  <2>1. k + 1 \in 1..N /\ (k + 1) - 1 = k
    BY NAssumption
  <2>2. reach[k+1] = Round(E, Avoid, reach[k])
    BY <1>1, <2>1 DEF IsSearch
  <2>3. Round(E, Avoid, reach[k]) \subseteq C
    BY <1>3 DEF Round, ClosedAvoiding
  <2> QED
    BY <2>1, <2>2, <2>3
<1>4. 0..N \subseteq G
  <2> HIDE DEF G
  <2> QED
    BY <1>2, <1>3, NAssumption, IntervalInduction
<1> QED
  BY <1>1, <1>4, NAssumption

(* It starts where it is told to.                                          *)
LEMMA ReachableHasStart ==
  ASSUME NEW E \in [Block -> SUBSET Block], NEW S \in SUBSET Block, NEW Avoid
  PROVE  /\ S \ Avoid \subseteq ReachableAvoiding(E, S, Avoid)
         /\ ReachableAvoiding(E, S, Avoid) \subseteq Block
<1>1. PICK reach : /\ IsSearch(reach, E, S, Avoid)
                   /\ ReachableAvoiding(E, S, Avoid) = reach[N]
  BY SearchExists
<1> DEFINE G == {k \in 0..N : S \ Avoid \subseteq reach[k]}
<1>2. 0 \in G
  BY <1>1, NAssumption DEF IsSearch
<1>3. ASSUME NEW k \in 0..(N-1), k \in G PROVE k + 1 \in G
  <2>1. k + 1 \in 1..N /\ (k + 1) - 1 = k
    BY NAssumption
  <2> QED
    BY <1>1, <1>3, <2>1 DEF IsSearch, Round
<1>4. 0..N \subseteq G
  <2> HIDE DEF G
  <2> QED
    BY <1>2, <1>3, NAssumption, IntervalInduction
<1> QED
  BY <1>1, <1>4, NAssumption DEF IsSearch

(* Blocks are finitely many.                                               *)
LEMMA BlocksAreFinite ==
  ASSUME NEW R \in SUBSET Block
  PROVE  IsFiniteSet(R) /\ Cardinality(R) \in 0..N
<1>1. IsFiniteSet(Block) /\ Cardinality(Block) = N
  BY FS_Interval, NAssumption DEF Block
<1>2. IsFiniteSet(R) /\ Cardinality(R) <= Cardinality(Block)
  BY <1>1, FS_Subset
<1>3. Cardinality(R) \in Nat
  BY <1>2, FS_CardinalityType
<1> QED
  BY <1>1, <1>2, <1>3, NAssumption

LEMMA LargerHasMore ==
  ASSUME NEW R \in SUBSET Block, NEW Q \in SUBSET R, Q # R
  PROVE  Cardinality(R) >= Cardinality(Q) + 1
<1>1. IsFiniteSet(R) /\ Cardinality(R) \in Nat /\ Cardinality(Q) \in Nat
  BY BlocksAreFinite
<1>2. Cardinality(Q) <= Cardinality(R) /\ Cardinality(Q) # Cardinality(R)
  BY <1>1, FS_Subset
<1> QED
  BY <1>1, <1>2

(* N rounds are enough: a round that adds nothing is the last that could,  *)
(* and N + 1 blocks cannot be added.                                       *)
LEMMA ReachableIsClosed ==
  ASSUME NEW E \in [Block -> SUBSET Block], NEW S \in SUBSET Block, NEW Avoid
  PROVE  ClosedAvoiding(E, ReachableAvoiding(E, S, Avoid), Avoid)
<1>1. PICK reach : /\ IsSearch(reach, E, S, Avoid)
                   /\ ReachableAvoiding(E, S, Avoid) = reach[N]
  BY SearchExists
<1> DEFINE G == {k \in 0..N : ClosedAvoiding(E, reach[k], Avoid) \/ Cardinality(reach[k]) >= k + 1}
<1>2. \A k \in 0..N : reach[k] \in SUBSET Block
  BY <1>1 DEF IsSearch
<1>3. 0 \in G
  <2>1. CASE reach[0] = {}
    BY <2>1, NAssumption DEF ClosedAvoiding
  <2>2. CASE reach[0] # {}
    <3>1. Cardinality({}) = 0
      BY FS_EmptySet
    <3>2. Cardinality(reach[0]) >= Cardinality({}) + 1
      BY <1>2, <2>2, LargerHasMore, NAssumption
    <3> QED
      BY <3>1, <3>2, NAssumption
  <2> QED
    BY <2>1, <2>2
<1>4. ASSUME NEW k \in 0..(N-1), k \in G PROVE k + 1 \in G
  <2>1. k \in 0..N /\ k + 1 \in 1..N /\ (k + 1) - 1 = k
    BY NAssumption
  <2>2. reach[k+1] = Round(E, Avoid, reach[k])
    BY <1>1, <2>1 DEF IsSearch
  <2>3. CASE reach[k+1] = reach[k]
    <3>1. ClosedAvoiding(E, reach[k], Avoid)
      BY <2>2, <2>3 DEF Round, ClosedAvoiding
    <3> QED
      BY <2>1, <2>3, <3>1
  <2>4. CASE reach[k+1] # reach[k]
    <3>1. reach[k] \subseteq reach[k+1]
      BY <2>2 DEF Round
    <3>2. ~ClosedAvoiding(E, reach[k], Avoid)
      BY <2>2, <2>4 DEF Round, ClosedAvoiding
    <3>3. Cardinality(reach[k]) >= k + 1
      BY <1>4, <3>2
    <3>4. Cardinality(reach[k+1]) >= Cardinality(reach[k]) + 1
      BY <1>2, <2>1, <2>4, <3>1, LargerHasMore
    <3>5. Cardinality(reach[k]) \in Nat /\ Cardinality(reach[k+1]) \in Nat
      BY <1>2, <2>1, BlocksAreFinite
    <3> QED
      BY <2>1, <3>3, <3>4, <3>5
  <2> QED
    BY <2>3, <2>4
<1>5. 0..N \subseteq G
  <2> HIDE DEF G
  <2> QED
    BY <1>3, <1>4, NAssumption, IntervalInduction
<1>6. Cardinality(reach[N]) \in 0..N
  BY <1>2, BlocksAreFinite, NAssumption
<1>7. ClosedAvoiding(E, reach[N], Avoid)
  BY <1>5, <1>6, NAssumption
<1> QED
  BY <1>1, <1>7

-----------------------------------------------------------------------------
(* The edges of a graph go from blocks to blocks.                          *)
LEMMA EdgesAreOfBlocks ==
  ASSUME NEW t \in CfgGraph
  PROVE  /\ Edges(t) \in [Block -> SUBSET Block]
         /\ \A a \in Block : Edges(t)[a] = ToSet(t[a])
BY DestinationsAreBlocks DEF Edges

LEMMA ForwardEdgesAreEdges ==
  ASSUME NEW t \in CfgGraph, NEW D
  PROVE  /\ ForwardEdges(t, D) \in [Block -> SUBSET Block]
         /\ \A a \in Block : ForwardEdges(t, D)[a] = {b \in ToSet(t[a]) : a \notin D[b]}
BY DestinationsAreBlocks DEF ForwardEdges

(* Reachable(t): the entry, and the successors of what is reachable.       *)
LEMMA ReachableProperties ==
  ASSUME NEW t \in CfgGraph
  PROVE  /\ Entry \in Reachable(t)
         /\ Reachable(t) \subseteq Block
         /\ \A a \in Reachable(t) : ToSet(t[a]) \subseteq Reachable(t)
<1>1. {Entry} \in SUBSET Block
  BY NAssumption DEF Entry, Block
<1>2. Entry \in Reachable(t) /\ Reachable(t) \subseteq Block
  BY <1>1, EdgesAreOfBlocks, ReachableHasStart DEF Reachable
<1>3. ClosedAvoiding(Edges(t), Reachable(t), {})
  BY <1>1, EdgesAreOfBlocks, ReachableIsClosed DEF Reachable
<1> QED
  BY <1>2, <1>3, EdgesAreOfBlocks DEF ClosedAvoiding

LEMMA ReachableLeast ==
  ASSUME NEW t \in CfgGraph, NEW C \in SUBSET Block, Entry \in C,
         \A a \in C : ToSet(t[a]) \subseteq C
  PROVE  Reachable(t) \subseteq C
<1>1. {Entry} \in SUBSET Block
  BY NAssumption DEF Entry, Block
<1>2. ClosedAvoiding(Edges(t), C, {})
  BY EdgesAreOfBlocks DEF ClosedAvoiding
<1> QED
  BY <1>1, <1>2, EdgesAreOfBlocks, ReachableIsLeast DEF Reachable

(* Reaches(E, a, b): b is a successor of a or of what a reaches.           *)
LEMMA ReachesProperties ==
  ASSUME NEW E \in [Block -> SUBSET Block], NEW a \in Block
  PROVE  /\ \A b \in E[a] : Reaches(E, a, b)
         /\ \A b \in Block : Reaches(E, a, b) => \A c \in E[b] : Reaches(E, a, c)
<1>1. E[a] \in SUBSET Block
  OBVIOUS
<1>2. E[a] \subseteq ReachableAvoiding(E, E[a], {})
  BY <1>1, ReachableHasStart
<1>3. ClosedAvoiding(E, ReachableAvoiding(E, E[a], {}), {})
  BY <1>1, ReachableIsClosed
<1> QED
  BY <1>2, <1>3 DEF Reaches, ClosedAvoiding

(* What fewer edges reach is reached.                                      *)
LEMMA ReachesMonotonic ==
  ASSUME NEW E \in [Block -> SUBSET Block], NEW F \in [Block -> SUBSET Block],
         \A a \in Block : F[a] \subseteq E[a],
         NEW a \in Block, NEW b, Reaches(F, a, b)
  PROVE  Reaches(E, a, b)
<1> DEFINE C == ReachableAvoiding(E, E[a], {})
<1>1. E[a] \in SUBSET Block /\ F[a] \in SUBSET Block
  OBVIOUS
<1>2. E[a] \subseteq C /\ C \subseteq Block /\ ClosedAvoiding(E, C, {})
  BY <1>1, ReachableHasStart, ReachableIsClosed
<1> HIDE DEF C
<1>3. F[a] \ {} \subseteq C /\ ClosedAvoiding(F, C, {})
  BY <1>2 DEF ClosedAvoiding
<1>4. ReachableAvoiding(F, F[a], {}) \subseteq C
  BY <1>1, <1>3, ReachableIsLeast
<1> QED
  BY <1>4 DEF Reaches, C

-----------------------------------------------------------------------------
(* The predecessors of a block are the sources of the edges to it.         *)
Copies(t, a, b) == [k \in 1..Cardinality({e \in DOMAIN t[a] : t[a][e] = b}) |-> a]

LEMMA CopiesOfSource ==
  ASSUME NEW t \in CfgGraph, NEW a \in Block, NEW b
  PROVE  /\ Copies(t, a, b) \in Seq(Block)
         /\ ToSet(Copies(t, a, b)) = IF b \in ToSet(t[a]) THEN {a} ELSE {}
<1> DEFINE I == {e \in DOMAIN t[a] : t[a][e] = b}
           n == Cardinality(I)
<1>1. IsFiniteSet(DOMAIN t[a])
  <2>1. DOMAIN t[a] = 1..Len(t[a]) /\ Len(t[a]) \in Nat
    BY DestinationsAreBlocks
  <2> QED
    BY <2>1, FS_Interval
<1>2. IsFiniteSet(I) /\ n \in Nat
  BY <1>1, FS_Subset, FS_CardinalityType
<1>3. n = 0 <=> I = {}
  BY <1>2, FS_EmptySet
<1>4. I = {} <=> b \notin ToSet(t[a])
  BY DEF ToSet
<1>5. Copies(t, a, b) = [k \in 1..n |-> a]
  BY DEF Copies
<1> HIDE DEF n, I
<1>6. Copies(t, a, b) \in Seq(Block)
  BY <1>2, <1>5
<1>7. DOMAIN Copies(t, a, b) = 1..n /\ \A k \in 1..n : Copies(t, a, b)[k] = a
  BY <1>5
<1>8. 1..n = {} <=> n = 0
  BY <1>2
<1> QED
  BY <1>3, <1>4, <1>6, <1>7, <1>8 DEF ToSet

LEMMA PredsAreSources ==
  ASSUME NEW t \in CfgGraph, NEW b \in Block
  PROVE  /\ Preds(t, b) \in Seq(Block)
         /\ ToSet(Preds(t, b)) = {a \in Block : b \in ToSet(t[a])}
<1> DEFINE Lists == Seq(Block)
           step == [x \in (1..N) \X Lists |-> x[2] \o Copies(t, x[1], b)]
           IsUpTo(f) ==
             f = [a \in 0..N |-> IF a = 0 THEN <<>> ELSE f[a-1] \o Copies(t, a, b)]
           upTo == CHOOSE f : IsUpTo(f)
<1>1. \A a \in 1..N, x \in Lists : step[<<a, x>>] = x \o Copies(t, a, b)
  OBVIOUS
<1>2. \A a \in 1..N, x \in Lists : step[<<a, x>>] \in Lists
  BY <1>1, CopiesOfSource, ConcatenateTwo DEF Block
<1>3. PICK f : IsIteration(f, N, Lists, <<>>, step)
  <2>1. N \in Nat /\ <<>> \in Lists
    BY NAssumption
  <2> HIDE DEF step, Lists
  <2> QED
    BY <1>2, <2>1, IterationExists
<1>4. IsUpTo(f)
  <2>1. ASSUME NEW a \in 0..N, a # 0 PROVE f[a] = f[a-1] \o Copies(t, a, b)
    <3>1. a \in 1..N /\ a - 1 \in 0..N
      BY <2>1, NAssumption
    <3>2. f[a-1] \in Lists /\ f[a] = step[<<a, f[a-1]>>]
      BY <1>3, <3>1 DEF IsIteration
    <3> HIDE DEF step
    <3> QED
      BY <1>1, <3>1, <3>2
  <2>2. f[0] = <<>> /\ f \in [0..N -> Lists]
    BY <1>3 DEF IsIteration
  <2> HIDE DEF step, Lists
  <2> QED
    BY <2>1, <2>2
<1>5. IsUpTo(upTo)
  <2> HIDE DEF IsUpTo
  <2> QED
    BY <1>4
<1>6. Preds(t, b) = upTo[N]
  BY DEF Preds, Copies
<1> HIDE DEF upTo
<1>7. upTo[0] = <<>> /\ \A a \in 1..N : upTo[a] = upTo[a-1] \o Copies(t, a, b)
  <2>1. \A a \in 0..N : upTo[a] = IF a = 0 THEN <<>> ELSE upTo[a-1] \o Copies(t, a, b)
    BY <1>5, Zenon
  <2> HIDE DEF IsUpTo
  <2>2. 0 \in 0..N /\ \A a \in 1..N : a \in 0..N /\ a # 0
    BY NAssumption
  <2> QED
    BY <2>1, <2>2, Zenon
<1> HIDE DEF IsUpTo
<1> DEFINE G == {k \in 0..N : upTo[k] \in Seq(Block) /\ ToSet(upTo[k]) = {a \in 1..k : b \in ToSet(t[a])}}
<1>8. 0 \in G
  <2>1. ToSet(<<>>) = {} /\ 1..0 = {} /\ <<>> \in Seq(Block)
    BY DEF ToSet
  <2>2. upTo[0] \in Seq(Block) /\ ToSet(upTo[0]) = {a \in 1..0 : b \in ToSet(t[a])}
    <3>1. upTo[0] = <<>> /\ {a \in 1..0 : b \in ToSet(t[a])} = {}
      BY <1>7, <2>1
    <3> QED
      BY <2>1, <3>1
  <2> QED
    BY <2>2, NAssumption
<1>9. ASSUME NEW k \in 0..(N-1), k \in G PROVE k + 1 \in G
  <2>1. k + 1 \in Block /\ (k + 1) - 1 = k /\ k + 1 \in 1..N
    BY NAssumption DEF Block
  <2>2. upTo[k+1] = upTo[k] \o Copies(t, k + 1, b)
    BY <1>7, <2>1
  <2>3. /\ upTo[k+1] \in Seq(Block)
        /\ ToSet(upTo[k+1]) = ToSet(upTo[k]) \cup (IF b \in ToSet(t[k+1]) THEN {k+1} ELSE {})
    BY <1>9, <2>1, <2>2, CopiesOfSource, ConcatenateTwo
  <2>4. 1..(k+1) = (1..k) \cup {k+1}
    OBVIOUS
  <2> QED
    BY <1>9, <2>1, <2>3, <2>4
<1>10. 0..N \subseteq G
  <2> HIDE DEF G
  <2> QED
    BY <1>8, <1>9, NAssumption, IntervalInduction
<1>11. N \in G
  BY <1>10, NAssumption
<1> QED
  BY <1>6, <1>11 DEF Block

-----------------------------------------------------------------------------
(* Dominance: what is left of the reachable blocks without a.              *)
Without(t, a) == ReachableAvoiding(Edges(t), {Entry}, {a})

LEMMA WithoutLeast ==
  ASSUME NEW t \in CfgGraph, NEW a \in Block, NEW C, Entry # a => Entry \in C,
         \A x \in C \cap Block : ToSet(t[x]) \subseteq C \cup {a}
  PROVE  Without(t, a) \subseteq C
<1> DEFINE B == C \cap Block
<1>1. {Entry} \in SUBSET Block
  BY NAssumption DEF Entry, Block
<1>2. {Entry} \ {a} \subseteq B
  BY <1>1
<1>3. ClosedAvoiding(Edges(t), B, {a})
  BY EdgesAreOfBlocks, DestinationsAreBlocks DEF ClosedAvoiding
<1> HIDE DEF B
<1>4. Without(t, a) \subseteq B
  BY <1>1, <1>2, <1>3, EdgesAreOfBlocks, ReachableIsLeast DEF Without
<1> QED
  BY <1>4 DEF B

LEMMA WithoutProperties ==
  ASSUME NEW t \in CfgGraph, NEW a \in Block
  PROVE  /\ Entry # a => Entry \in Without(t, a)
         /\ a \notin Without(t, a)
         /\ Without(t, a) \subseteq Reachable(t)
         /\ \A x \in Without(t, a) : ToSet(t[x]) \subseteq Without(t, a) \cup {a}
<1>1. {Entry} \in SUBSET Block
  BY NAssumption DEF Entry, Block
<1>2. Entry # a => Entry \in Without(t, a)
  BY <1>1, EdgesAreOfBlocks, ReachableHasStart DEF Without
<1>3. Without(t, a) \subseteq Block
  BY <1>1, EdgesAreOfBlocks, ReachableHasStart DEF Without
<1>4. ClosedAvoiding(Edges(t), Without(t, a), {a})
  BY <1>1, EdgesAreOfBlocks, ReachableIsClosed DEF Without
<1>5. \A x \in Without(t, a) : ToSet(t[x]) \subseteq Without(t, a) \cup {a}
  BY <1>3, <1>4, EdgesAreOfBlocks DEF ClosedAvoiding
<1>6. Without(t, a) \subseteq Block \ {a}
  <2>1. \A x \in Block : ToSet(t[x]) \subseteq (Block \ {a}) \cup {a}
    BY DestinationsAreBlocks
  <2>2. Entry \in Block
    BY <1>1
  <2> QED
    BY <2>1, <2>2, WithoutLeast
<1>7. Without(t, a) \subseteq Reachable(t)
  BY ReachableProperties, WithoutLeast
<1> QED
  BY <1>2, <1>5, <1>6, <1>7

LEMMA DominatedIs ==
  ASSUME NEW t, NEW a \in Block
  PROVE  Dominated(t)[a] = Reachable(t) \ Without(t, a)
BY DEF Dominated, Without

(* A block dominates itself, and the entry dominates every block.          *)
LEMMA DominatesItself ==
  ASSUME NEW t \in CfgGraph, NEW b \in Reachable(t)
  PROVE  b \in Dominated(t)[b] /\ b \in Dominated(t)[Entry]
<1>1. b \in Block /\ Entry \in Block
  BY ReachableProperties
<1>2. Without(t, Entry) \subseteq {}
  <2>1. \A x \in {} \cap Block : ToSet(t[x]) \subseteq {} \cup {Entry}
    OBVIOUS
  <2> QED
    BY <1>1, <2>1, WithoutLeast, ZenonT(30)
<1> QED
  BY <1>1, <1>2, DominatedIs, WithoutProperties

(* Dominance is transitive.                                                *)
LEMMA DominatesTransitively ==
  ASSUME NEW t \in CfgGraph, NEW a \in Block, NEW x \in Dominated(t)[a], NEW b \in Dominated(t)[x]
  PROVE  b \in Dominated(t)[a]
<1>1. x \in Reachable(t) /\ x \notin Without(t, a) /\ x \in Block
  BY DominatedIs, ReachableProperties
<1>2. b \in Reachable(t) /\ b \notin Without(t, x)
  BY <1>1, DominatedIs
<1> DEFINE Y == Without(t, x) \cap Without(t, a)
<1>3. Entry # a => Entry \in Y
  BY <1>1, WithoutProperties
<1>4. \A y \in Y \cap Block : ToSet(t[y]) \subseteq Y \cup {a}
  BY <1>1, WithoutProperties
<1>5. Without(t, a) \subseteq Y
  <2> HIDE DEF Y
  <2> QED
    BY <1>3, <1>4, WithoutLeast
<1> QED
  BY <1>2, <1>5, DominatedIs

(* What strictly dominates a block dominates its predecessors, and what    *)
(* dominates those the block does not dominate itself dominates the block. *)
LEMMA DominatesPreds ==
  ASSUME NEW t \in CfgGraph, NEW a \in Block, NEW b \in Dominated(t)[a], a # b,
         NEW p \in Reachable(t), b \in ToSet(t[p])
  PROVE  p \in Dominated(t)[a]
BY DominatedIs, WithoutProperties

LEMMA DominatesAfterPreds ==
  ASSUME NEW t \in CfgGraph, NEW i \in Block, NEW b \in Reachable(t), b # Entry, b # i,
         \A p \in Reachable(t) : b \in ToSet(t[p]) => p \in Dominated(t)[i] \/ p \in Dominated(t)[b]
  PROVE  b \in Dominated(t)[i]
<1>1. b \in Block
  BY ReachableProperties
<1> DEFINE C == Without(t, i) \cap Without(t, b)
<1>2. Entry # i => Entry \in C
  BY <1>1, WithoutProperties
<1>3. \A x \in C \cap Block : ToSet(t[x]) \subseteq C \cup {i}
  <2> SUFFICES ASSUME NEW x \in C, NEW s \in ToSet(t[x]), s # i PROVE s \in C
    OBVIOUS
  <2>1. x \in Reachable(t) /\ x \notin Dominated(t)[i] /\ x \notin Dominated(t)[b]
    BY <1>1, DominatedIs, WithoutProperties
  <2>2. s # b
    BY <2>1
  <2> QED
    BY <1>1, <2>2, WithoutProperties
<1>4. Without(t, i) \subseteq C
  <2> HIDE DEF C
  <2> QED
    BY <1>2, <1>3, WithoutLeast
<1> QED
  BY <1>1, <1>4, DominatedIs, WithoutProperties

-----------------------------------------------------------------------------

(* Edges that do not lead to a dominator of their source.                  *)
Forward == ForwardEdges(graph, Dominated(graph))

(* A block that is done has its successors listed before it, but for       *)
(* itself and those from which it was reached, forward.                    *)
ListedBefore ==
  \A k \in DOMAIN post : \A s \in ToSet(graph[post[k]]) :
    \/ \E j \in DOMAIN post : j < k /\ post[j] = s
    \/ s = post[k]
    \/ Reaches(Forward, s, post[k])

(* The calls in progress are a path of forward edges from the entry.       *)
StackIsPath ==
  /\ stack # <<>> => stack[1] = Entry
  /\ \A i \in DOMAIN stack : i + 1 \in DOMAIN stack => stack[i+1] \in ToSet(graph[stack[i]])
  /\ \A i, j \in DOMAIN stack : i < j => Reaches(Forward, stack[i], stack[j])

(* A block is called from a predecessor that is listed after it.           *)
ParentsLater ==
  /\ \A k \in DOMAIN post : post[k] # Entry =>
       \E p \in Block : /\ post[k] \in ToSet(graph[p])
                        /\ p \in ToSet(stack) \/ \E j \in DOMAIN post : j > k /\ post[j] = p
  /\ stack = <<>> => post # <<>> /\ Last(post) = Entry

(* What the search has met can be reached, and no successor of a block     *)
(* that is done is left out.                                               *)
MetIsReachable ==
  /\ state[Entry] # "Unexplored"
  /\ \A b \in Block : state[b] # "Unexplored" => b \in Reachable(graph)
  /\ \A b \in Block : state[b] = "Explored" =>
       \A s \in ToSet(graph[b]) : state[s] # "Unexplored"

DfsInv ==
  /\ DfsTypeOK
  /\ MetIsReachable
  /\ StackIsPath
  /\ ListedBefore
  /\ ParentsLater

-----------------------------------------------------------------------------
LEMMA ForwardIsEdges ==
  ASSUME graph \in CfgGraph
  PROVE  /\ Forward \in [Block -> SUBSET Block]
         /\ \A a \in Block : Forward[a] = {b \in ToSet(graph[a]) : a \notin Dominated(graph)[b]}
BY ForwardEdgesAreEdges DEF Forward

LEMMA EntryIsBlock == Entry \in Block
BY NAssumption DEF Entry, Block

(* The search passes over successors it has met.                           *)
LEMMA NextSuccFound ==
  ASSUME DfsTypeOK, NEW b \in Block
  PROVE  /\ NextSucc(b) = 0 => \A s \in ToSet(graph[b]) : state[s] # "Unexplored"
         /\ NextSucc(b) # 0 => /\ graph[b][NextSucc(b)] \in ToSet(graph[b])
                               /\ graph[b][NextSucc(b)] \in Block
                               /\ state[graph[b][NextSucc(b)]] = "Unexplored"
<1> DEFINE I == {i \in 1..Len(graph[b]) : state[graph[b][i]] = "Unexplored"}
<1>1. /\ graph[b] \in Seq(Block)
      /\ Len(graph[b]) \in Nat
      /\ DOMAIN graph[b] = 1..Len(graph[b])
      /\ ToSet(graph[b]) \subseteq Block
  BY DestinationsAreBlocks DEF DfsTypeOK
<1>2. NextSucc(b) = IF I # {} THEN Min(I) ELSE 0
  BY DEF NextSucc, SelectInSeq, Succs, IsUnexplored
<1>3. I \in SUBSET (1..Len(graph[b]))
  OBVIOUS
<1>4. /\ I = {} => NextSucc(b) = 0
      /\ I # {} => NextSucc(b) \in I
  <2> HIDE DEF I
  <2> QED
    BY <1>1, <1>2, <1>3, SelectedPlace
<1>5. CASE I = {}
  <2>1. \A s \in ToSet(graph[b]) : state[s] # "Unexplored"
    BY <1>1, <1>5 DEF ToSet
  <2> QED
    BY <1>4, <1>5, <2>1
<1>6. CASE I # {}
  <2>1. NextSucc(b) \in I
    BY <1>4, <1>6
  <2> QED
    BY <1>1, <2>1 DEF ToSet
<1> QED
  BY <1>5, <1>6

LEMMA DfsInitInv == Init => DfsInv
<1> SUFFICES ASSUME Init PROVE DfsInv
  OBVIOUS
<1> USE EntryIsBlock
<1>1. /\ graph \in CfgGraph
      /\ state = [b \in Block |-> IF b = Entry THEN "Exploring" ELSE "Unexplored"]
      /\ stack = <<Entry>> /\ pre = <<Entry>> /\ post = <<>>
  BY GraphsAssumption DEF Init, DfsInit
<1>2. /\ <<Entry>> \in Seq(Block) /\ <<>> \in Seq(Block)
      /\ DOMAIN <<Entry>> = {1} /\ <<Entry>>[1] = Entry
      /\ ToSet(<<Entry>>) = {Entry} /\ ToSet(<<>>) = {}
  BY DEF ToSet
<1>3. IsInjective(<<Entry>>) /\ IsInjective(<<>>)
  BY <1>2 DEF IsInjective
<1>4. DfsTypeOK
  BY <1>1, <1>2, <1>3 DEF DfsTypeOK
<1>5. MetIsReachable
  BY <1>1, ReachableProperties DEF MetIsReachable
<1>6. StackIsPath /\ ListedBefore /\ ParentsLater
  BY <1>1, <1>2 DEF StackIsPath, ListedBefore, ParentsLater
<1> QED
  BY <1>4, <1>5, <1>6 DEF DfsInv

-----------------------------------------------------------------------------
(* A call on an unseen successor.                                          *)
LEMMA DescendInv == DfsInv /\ Descend => DfsInv'
<1> SUFFICES ASSUME DfsInv, Descend PROVE DfsInv'
  OBVIOUS
<1> DEFINE top == Last(stack)
           succ == graph[top][NextSucc(top)]
<1>1. /\ graph \in CfgGraph
      /\ state \in [Block -> {"Unexplored", "Exploring", "Explored"}]
      /\ stack \in Seq(Block) /\ IsInjective(stack)
      /\ pre \in Seq(Block) /\ IsInjective(pre)
      /\ post \in Seq(Block) /\ IsInjective(post)
      /\ \A b \in Block : state[b] = "Exploring" <=> b \in ToSet(stack)
      /\ \A b \in Block : state[b] = "Explored" <=> b \in ToSet(post)
      /\ ToSet(pre) = ToSet(stack) \cup ToSet(post)
      /\ DfsTypeOK
  BY DEF DfsInv, DfsTypeOK
<1>2. stack # <<>> /\ NextSucc(top) # 0
  BY DEF Descend
<1>3. /\ state' = [state EXCEPT ![succ] = "Exploring"]
      /\ stack' = Append(stack, succ)
      /\ pre' = Append(pre, succ)
      /\ UNCHANGED <<graph, post>>
  BY DEF Descend, Succs
<1>4. top \in Block /\ top = stack[Len(stack)] /\ Len(stack) \in DOMAIN stack
      /\ DOMAIN stack = 1..Len(stack) /\ Len(stack) \in Nat \ {0}
  BY <1>1, <1>2, FrontAndLast, LenProperties
<1>5. /\ succ \in ToSet(graph[top])
      /\ succ \in Block
      /\ state[succ] = "Unexplored"
  BY <1>1, <1>2, <1>4, NextSuccFound
<1>6. succ \notin ToSet(stack) /\ succ \notin ToSet(post) /\ succ \notin ToSet(pre)
  BY <1>1, <1>5
<1> HIDE DEF top, succ
<1>7. /\ stack' \in Seq(Block) /\ IsInjective(stack')
      /\ ToSet(stack') = ToSet(stack) \cup {succ}
      /\ pre' \in Seq(Block) /\ IsInjective(pre')
      /\ ToSet(pre') = ToSet(pre) \cup {succ}
  BY <1>1, <1>3, <1>5, <1>6, AppendOne, AppendNewInjective
<1>8. DfsTypeOK'
  BY <1>1, <1>3, <1>5, <1>6, <1>7 DEF DfsTypeOK
<1>9. MetIsReachable'
  <2>1. top \in Reachable(graph)
    <3>1. top \in ToSet(stack)
      BY <1>4 DEF ToSet
    <3> QED
      BY <1>1, <1>4, <3>1 DEF DfsInv, MetIsReachable
  <2>2. succ \in Reachable(graph)
    BY <1>1, <1>5, <2>1, ReachableProperties
  <2> QED
    BY <1>1, <1>3, <1>5, <2>2, EntryIsBlock DEF DfsInv, MetIsReachable
<1>10. /\ DOMAIN stack' = 1..(Len(stack) + 1)
       /\ \A k \in 1..Len(stack) : stack'[k] = stack[k]
       /\ stack'[Len(stack) + 1] = succ
  BY <1>1, <1>3, <1>5, AppendOne
<1>11. \A i \in DOMAIN stack : stack[i] \in Block
  BY <1>1, <1>4, ElementOfSeq
<1>12. succ \in Forward[top]
  <2> DEFINE Q == ReachableAvoiding(Edges(graph), {Entry}, {succ})
             G == {k \in 0..(Len(stack) - 1) : stack[k+1] \in Q}
  <2>1. {Entry} \in SUBSET Block /\ Edges(graph) \in [Block -> SUBSET Block]
    BY <1>1, EntryIsBlock, EdgesAreOfBlocks
  <2>2. {Entry} \ {succ} \subseteq Q /\ Q \subseteq Block /\ ClosedAvoiding(Edges(graph), Q, {succ})
    BY <2>1, ReachableHasStart, ReachableIsClosed
  <2> HIDE DEF Q
  <2>3. \A i \in DOMAIN stack : stack[i] # succ
    BY <1>6 DEF ToSet
  <2>4. 0 \in G
    BY <1>2, <1>4, <2>2, <2>3 DEF DfsInv, StackIsPath
  <2>5. ASSUME NEW k \in 0..((Len(stack) - 1) - 1), k \in G PROVE k + 1 \in G
    <3>1. k + 1 \in DOMAIN stack /\ (k + 1) + 1 \in DOMAIN stack
      BY <1>4
    <3>2. stack[(k+1)+1] \in ToSet(graph[stack[k+1]])
      BY <3>1 DEF DfsInv, StackIsPath
    <3>3. stack[k+1] \in Block /\ stack[k+1] \in Q
      BY <1>11, <2>5, <3>1
    <3>4. stack[(k+1)+1] \in Q
      BY <1>1, <2>2, <2>3, <3>1, <3>2, <3>3, EdgesAreOfBlocks DEF ClosedAvoiding
    <3> QED
      BY <1>4, <3>4
  <2>6. 0..(Len(stack) - 1) \subseteq G
    <3>1. Len(stack) - 1 \in Nat
      BY <1>4
    <3> HIDE DEF G
    <3> QED
      BY <2>4, <2>5, <3>1, IntervalInduction
  <2>7. top \in Q
    <3>1. Len(stack) - 1 \in 0..(Len(stack) - 1) /\ (Len(stack) - 1) + 1 = Len(stack)
      BY <1>4
    <3> QED
      BY <1>4, <2>6, <3>1
  <2>8. top \notin Dominated(graph)[succ]
    BY <1>5, <2>7 DEF Dominated, Q
  <2> QED
    BY <1>1, <1>4, <1>5, <2>8, ForwardIsEdges
<1>13. StackIsPath'
  <2>1. ASSUME NEW i \in DOMAIN stack PROVE Reaches(Forward, stack[i], succ)
    <3>1. CASE i = Len(stack)
      BY <1>1, <1>4, <1>12, <3>1, ForwardIsEdges, ReachesProperties
    <3>2. CASE i # Len(stack)
      <4>1. i < Len(stack)
        BY <1>4, <3>2
      <4>2. Reaches(Forward, stack[i], top)
        BY <1>4, <4>1 DEF DfsInv, StackIsPath
      <4> QED
        BY <1>1, <1>4, <1>11, <1>12, <4>2, ForwardIsEdges, ReachesProperties
    <3> QED
      BY <3>1, <3>2
  <2>2. ASSUME NEW i \in DOMAIN stack', NEW j \in DOMAIN stack', i < j
        PROVE  Reaches(Forward, stack'[i], stack'[j])
    <3>1. i \in DOMAIN stack /\ stack'[i] = stack[i]
      BY <1>4, <1>10, <2>2
    <3>2. CASE j = Len(stack) + 1
      BY <1>10, <2>1, <3>1, <3>2
    <3>3. CASE j # Len(stack) + 1
      <4>1. j \in DOMAIN stack /\ stack'[j] = stack[j]
        BY <1>4, <1>10, <3>3
      <4> QED
        BY <2>2, <3>1, <4>1 DEF DfsInv, StackIsPath
    <3> QED
      BY <3>2, <3>3
  <2>3. stack'[1] = Entry
    BY <1>2, <1>4, <1>10 DEF DfsInv, StackIsPath
  <2>4. ASSUME NEW i \in DOMAIN stack', i + 1 \in DOMAIN stack'
        PROVE  stack'[i+1] \in ToSet(graph[stack'[i]])
    <3>1. CASE i = Len(stack)
      BY <1>4, <1>5, <1>10, <3>1
    <3>2. CASE i # Len(stack)
      <4>1. /\ i \in DOMAIN stack /\ stack'[i] = stack[i]
            /\ i + 1 \in DOMAIN stack /\ stack'[i+1] = stack[i+1]
        BY <1>4, <1>10, <2>4, <3>2
      <4> QED
        BY <4>1 DEF DfsInv, StackIsPath
    <3> QED
      BY <3>1, <3>2
  <2>5. Forward' = Forward
    BY <1>3 DEF Forward
  <2> QED
    BY <1>3, <2>2, <2>3, <2>4, <2>5 DEF StackIsPath
<1>14. ListedBefore'
  BY <1>3 DEF DfsInv, ListedBefore, Forward
<1>15. ParentsLater'
  <2>1. stack' # <<>>
    BY <1>1, <1>3, <1>5, AppendOne
  <2> QED
    BY <1>3, <1>7, <2>1 DEF DfsInv, ParentsLater
<1> QED
  BY <1>8, <1>9, <1>13, <1>14, <1>15 DEF DfsInv

(* A call returns: its successors are done, or calls in progress from      *)
(* which it was reached.                                                   *)
LEMMA FinishInv == DfsInv /\ Finish => DfsInv'
<1> SUFFICES ASSUME DfsInv, Finish PROVE DfsInv'
  OBVIOUS
<1> DEFINE top == Last(stack)
<1>1. /\ graph \in CfgGraph
      /\ state \in [Block -> {"Unexplored", "Exploring", "Explored"}]
      /\ stack \in Seq(Block) /\ IsInjective(stack)
      /\ pre \in Seq(Block) /\ IsInjective(pre)
      /\ post \in Seq(Block) /\ IsInjective(post)
      /\ \A b \in Block : state[b] = "Exploring" <=> b \in ToSet(stack)
      /\ \A b \in Block : state[b] = "Explored" <=> b \in ToSet(post)
      /\ ToSet(pre) = ToSet(stack) \cup ToSet(post)
      /\ DfsTypeOK
  BY DEF DfsInv, DfsTypeOK
<1>2. stack # <<>> /\ NextSucc(top) = 0
  BY DEF Finish
<1>3. /\ state' = [state EXCEPT ![top] = "Explored"]
      /\ post' = Append(post, top)
      /\ stack' = Front(stack)
      /\ UNCHANGED <<graph, pre>>
  BY DEF Finish, Listed
<1>4. /\ top \in Block /\ top = stack[Len(stack)]
      /\ Len(stack) \in DOMAIN stack
      /\ DOMAIN stack = 1..Len(stack) /\ Len(stack) \in Nat \ {0}
  BY <1>1, <1>2, FrontAndLast, LenProperties
<1>5. \A s \in ToSet(graph[top]) : state[s] # "Unexplored"
  BY <1>1, <1>2, <1>4, NextSuccFound
<1> HIDE DEF top
<1>6. top \in ToSet(stack) /\ state[top] = "Exploring" /\ top \notin ToSet(post)
  <2>1. top \in ToSet(stack)
    BY <1>4 DEF ToSet
  <2> QED
    BY <1>1, <1>4, <2>1
<1>7. /\ stack' \in Seq(Block) /\ IsInjective(stack')
      /\ ToSet(stack) = ToSet(stack') \cup {top}
      /\ top \notin ToSet(stack')
      /\ DOMAIN stack' = 1..(Len(stack) - 1)
      /\ \A k \in 1..(Len(stack) - 1) : stack'[k] = stack[k]
  BY <1>1, <1>2, <1>3, FrontAndLast, FrontInjective, SMTT(20) DEF top
<1>8. /\ post' \in Seq(Block) /\ IsInjective(post')
      /\ ToSet(post') = ToSet(post) \cup {top}
      /\ Len(post) \in Nat
      /\ DOMAIN post = 1..Len(post)
      /\ DOMAIN post' = 1..(Len(post) + 1)
      /\ \A k \in 1..Len(post) : post'[k] = post[k]
      /\ post'[Len(post) + 1] = top
  BY <1>1, <1>3, <1>4, <1>6, AppendOne, AppendNewInjective
<1>9. DfsTypeOK'
  BY <1>1, <1>3, <1>4, <1>6, <1>7, <1>8 DEF DfsTypeOK
<1>10. MetIsReachable'
  BY <1>1, <1>3, <1>4, <1>5, <1>6 DEF DfsInv, MetIsReachable
<1>11. StackIsPath'
  <2>1. Forward' = Forward
    BY <1>3 DEF Forward
  <2>2. \A k \in DOMAIN stack' : k \in DOMAIN stack /\ stack'[k] = stack[k]
    BY <1>4, <1>7
  <2>3. ASSUME stack' # <<>> PROVE stack'[1] = Entry
    <3>1. Len(stack') \in Nat \ {0} /\ DOMAIN stack' = 1..Len(stack')
      BY <1>7, <2>3, EmptySeq, LenProperties
    <3>2. 1 \in DOMAIN stack'
      BY <3>1
    <3> QED
      BY <1>2, <2>2, <3>2 DEF DfsInv, StackIsPath
  <2>4. \A i \in DOMAIN stack' : i + 1 \in DOMAIN stack' => stack'[i+1] \in ToSet(graph[stack'[i]])
    BY <2>2 DEF DfsInv, StackIsPath
  <2>5. \A i, j \in DOMAIN stack' : i < j => Reaches(Forward, stack'[i], stack'[j])
    BY <2>2 DEF DfsInv, StackIsPath
  <2> QED
    BY <1>3, <2>1, <2>3, <2>4, <2>5 DEF StackIsPath
<1>12. ListedBefore'
  <2> SUFFICES ASSUME NEW k \in DOMAIN post', NEW s \in ToSet(graph[post'[k]])
               PROVE  \/ \E j \in DOMAIN post' : j < k /\ post'[j] = s
                      \/ s = post'[k]
                      \/ Reaches(Forward, s, post'[k])
    BY <1>3 DEF ListedBefore, Forward
  <2>1. CASE k # Len(post) + 1
    <3>1. k \in DOMAIN post /\ post'[k] = post[k] /\ k <= Len(post)
      BY <1>8, <2>1
    <3>2. \A j \in DOMAIN post : j \in DOMAIN post' /\ post'[j] = post[j]
      BY <1>8
    <3> QED
      BY <3>1, <3>2 DEF DfsInv, ListedBefore
  <2>2. CASE k = Len(post) + 1
    <3>1. post'[k] = top /\ s \in ToSet(graph[top]) /\ s \in Block
      BY <1>1, <1>4, <1>8, <2>2, DestinationsAreBlocks
    <3>2. CASE state[s] = "Explored"
      <4>1. s \in ToSet(post)
        BY <1>1, <3>1, <3>2
      <4>2. PICK j \in DOMAIN post : post[j] = s
        BY <4>1 DEF ToSet
      <4>3. j \in DOMAIN post' /\ j < k /\ post'[j] = s
        BY <1>8, <2>2, <4>2
      <4> QED
        BY <4>3
    <3>3. CASE state[s] = "Exploring"
      <4>1. s \in ToSet(stack)
        BY <1>1, <3>1, <3>3
      <4>2. PICK i \in DOMAIN stack : stack[i] = s
        BY <4>1 DEF ToSet
      <4>3. CASE i = Len(stack)
        BY <1>4, <3>1, <4>2, <4>3
      <4>4. CASE i < Len(stack)
        BY <1>4, <3>1, <4>2, <4>4 DEF DfsInv, StackIsPath
      <4> QED
        BY <1>4, <4>3, <4>4
    <3> QED
      BY <1>1, <1>5, <3>1, <3>2, <3>3
  <2> QED
    BY <2>1, <2>2
<1>13. ParentsLater'
  <2>1. ASSUME NEW k \in DOMAIN post', post'[k] # Entry
        PROVE  \E p \in Block : /\ post'[k] \in ToSet(graph[p])
                                /\ p \in ToSet(stack') \/ \E j \in DOMAIN post' : j > k /\ post'[j] = p
    <3>1. CASE k # Len(post) + 1
      <4>1. k \in DOMAIN post /\ post'[k] = post[k]
        BY <1>8, <3>1
      <4>2. PICK p \in Block : /\ post[k] \in ToSet(graph[p])
                               /\ p \in ToSet(stack) \/ \E j \in DOMAIN post : j > k /\ post[j] = p
        BY <2>1, <4>1 DEF DfsInv, ParentsLater
      <4>3. \A j \in DOMAIN post : j \in DOMAIN post' /\ post'[j] = post[j]
        BY <1>8
      <4>4. CASE p = top
        <5>1. Len(post) + 1 \in DOMAIN post' /\ Len(post) + 1 > k /\ post'[Len(post) + 1] = p
          BY <1>8, <4>1, <4>4
        <5> QED
          BY <4>1, <4>2, <5>1
      <4>5. CASE p # top
        BY <1>7, <4>1, <4>2, <4>3, <4>5
      <4> QED
        BY <4>4, <4>5
    <3>2. CASE k = Len(post) + 1
      <4>1. post'[k] = top /\ top # Entry
        BY <1>8, <2>1, <3>2
      <4>2. Len(stack) # 1
        BY <1>2, <1>4, <4>1 DEF DfsInv, StackIsPath
      <4> DEFINE below == Len(stack) - 1
      <4>3. /\ below \in DOMAIN stack /\ below + 1 = Len(stack)
            /\ below \in DOMAIN stack' /\ stack'[below] = stack[below]
        BY <1>4, <1>7, <4>2
      <4> HIDE DEF below
      <4>4. stack[below] \in Block /\ top \in ToSet(graph[stack[below]])
        <5>1. stack[below] \in Block
          BY <1>1, <4>3, ElementOfSeq
        <5>2. stack[below + 1] \in ToSet(graph[stack[below]])
          BY <1>4, <4>3 DEF DfsInv, StackIsPath
        <5> QED
          BY <1>4, <4>3, <5>1, <5>2
      <4>5. stack[below] \in ToSet(stack')
        BY <4>3 DEF ToSet
      <4> QED
        BY <4>1, <4>4, <4>5
    <3> QED
      BY <3>1, <3>2
  <2>2. ASSUME stack' = <<>> PROVE post' # <<>> /\ Last(post') = Entry
    <3>1. Len(stack) = 1
      <4>1. Len(Front(stack)) = Len(stack) - 1
        BY <1>1, <1>2, FrontAndLast
      <4>2. Len(Front(stack)) = 0
        BY <1>3, <2>2
      <4>3. Len(stack) \in Nat
        BY <1>4
      <4> QED
        BY <4>1, <4>2, <4>3
    <3>2. top = Entry
      BY <1>2, <1>4, <3>1 DEF DfsInv, StackIsPath
    <3> QED
      BY <1>1, <1>3, <1>4, <3>2, AppendOne
  <2> QED
    BY <1>3, <2>1, <2>2 DEF ParentsLater
<1> QED
  BY <1>9, <1>10, <1>11, <1>12, <1>13 DEF DfsInv

LEMMA DfsUnchangedInv == DfsInv /\ UNCHANGED dfsVars => DfsInv'
<1> SUFFICES ASSUME DfsInv, UNCHANGED dfsVars PROVE DfsInv'
  OBVIOUS
<1>1. UNCHANGED graph /\ UNCHANGED state /\ UNCHANGED stack /\ UNCHANGED pre /\ UNCHANGED post
  BY DEF dfsVars
<1>2. DfsTypeOK'
  BY <1>1 DEF DfsInv, DfsTypeOK
<1>3. MetIsReachable' /\ StackIsPath' /\ ListedBefore' /\ ParentsLater'
  BY <1>1 DEF DfsInv, MetIsReachable, StackIsPath, ListedBefore, ParentsLater, Forward
<1> QED
  BY <1>2, <1>3 DEF DfsInv

(* The search stays as it should be to the end of the analysis.            *)
LEMMA DfsInvariant == Spec => []DfsInv
<1>1. Init => DfsInv
  BY DfsInitInv
<1>2. DfsInv /\ [Next]_vars => DfsInv'
  <2> SUFFICES ASSUME DfsInv, [Next]_vars PROVE DfsInv'
    OBVIOUS
  <2>1. CASE DfsNext
    BY <2>1, DescendInv, FinishInv DEF DfsNext
  <2>2. CASE UNCHANGED dfsVars
    BY <2>2, DfsUnchangedInv
  <2>3. DfsNext \/ UNCHANGED dfsVars
    BY DEF Next, DomNext, BeginSweep, Visit, EndSweep, AddFrontier, vars
  <2> QED
    BY <2>1, <2>2, <2>3
<1> QED
  BY <1>1, <1>2, PTL DEF Spec

-----------------------------------------------------------------------------
(* The post order index is the place in the order.                         *)
LEMMA PostIndexIsPlace ==
  ASSUME DfsTypeOK
  PROVE  /\ Len(post) \in Nat
         /\ DOMAIN post = 1..Len(post)
         /\ \A k \in DOMAIN post : post[k] \in Block /\ PostIndex(post[k]) = k
         /\ \A b : b \in ToSet(post) => PostIndex(b) \in DOMAIN post /\ post[PostIndex(b)] = b
         /\ \A b : b \notin ToSet(post) => PostIndex(b) = 0
<1>1. /\ Len(post) \in Nat
      /\ DOMAIN post = 1..Len(post)
      /\ \A k \in DOMAIN post : post[k] \in Block
      /\ IsInjective(post)
  BY LenProperties, ElementOfSeq DEF DfsTypeOK
<1>2. ASSUME NEW b, b \in ToSet(post)
      PROVE  PostIndex(b) \in DOMAIN post /\ post[PostIndex(b)] = b
  <2>1. \E k \in DOMAIN post : post[k] = b
    BY <1>2 DEF ToSet
  <2> QED
    BY <1>2, <2>1 DEF PostIndex
<1>3. ASSUME NEW k \in DOMAIN post PROVE PostIndex(post[k]) = k
  <2>1. post[k] \in ToSet(post)
    BY DEF ToSet
  <2> QED
    BY <1>1, <1>2, <2>1 DEF IsInjective
<1>4. \A b : b \notin ToSet(post) => PostIndex(b) = 0
  BY DEF PostIndex
<1> QED
  BY <1>1, <1>2, <1>3, <1>4

(* At the end of the search every reachable block is listed.               *)
LEMMA ListedIsReachable ==
  ASSUME DfsInv, DfsDone
  PROVE  ToSet(post) = Reachable(graph)
<1>1. /\ graph \in CfgGraph
      /\ state \in [Block -> {"Unexplored", "Exploring", "Explored"}]
      /\ post \in Seq(Block)
      /\ \A b \in Block : state[b] = "Exploring" <=> b \in ToSet(stack)
      /\ \A b \in Block : state[b] = "Explored" <=> b \in ToSet(post)
  BY DEF DfsInv, DfsTypeOK
<1>2. ToSet(stack) = {}
  BY DEF DfsDone, ToSet
<1>3. \A b \in Block : state[b] # "Unexplored" <=> b \in ToSet(post)
  BY <1>1, <1>2
<1>4. ToSet(post) \subseteq Block
  BY <1>1, LenProperties, ElementOfSeq DEF ToSet
<1>5. ToSet(post) \subseteq Reachable(graph)
  BY <1>3, <1>4 DEF DfsInv, MetIsReachable
<1>6. \A a \in ToSet(post) : ToSet(graph[a]) \subseteq ToSet(post)
  BY <1>1, <1>3, <1>4, DestinationsAreBlocks DEF DfsInv, MetIsReachable
<1>7. Entry \in ToSet(post)
  BY <1>3, EntryIsBlock DEF DfsInv, MetIsReachable
<1>8. Reachable(graph) \subseteq ToSet(post)
  BY <1>1, <1>4, <1>6, <1>7, ReachableLeast
<1> QED
  BY <1>5, <1>8

(* An edge to a block that does not come before its source in post order   *)
(* is a self loop, or leads to a block from which it was reached, forward. *)
LEMMA RetreatingEdge ==
  ASSUME DfsInv, DfsDone, NEW a \in ToSet(post), NEW b \in ToSet(post),
         b \in ToSet(graph[a]), PostIndex(a) <= PostIndex(b)
  PROVE  a = b \/ Reaches(Forward, b, a)
<1>1. /\ DOMAIN post = 1..Len(post) /\ Len(post) \in Nat
      /\ PostIndex(a) \in DOMAIN post /\ post[PostIndex(a)] = a
      /\ PostIndex(b) \in DOMAIN post /\ post[PostIndex(b)] = b
      /\ \A k \in DOMAIN post : PostIndex(post[k]) = k
  BY PostIndexIsPlace DEF DfsInv
<1>2. CASE \E j \in DOMAIN post : j < PostIndex(a) /\ post[j] = b
  BY <1>1, <1>2
<1> QED
  BY <1>1, <1>2 DEF DfsInv, ListedBefore

(* DepthFirstSearch::post_order holds the reachable blocks and no other,   *)
(* and a block comes after a successor of it unless the edge closes a      *)
(* cycle, for every graph of any size.                                     *)
THEOREM PostOrderIsCorrect == Spec => []PostOrderCorrect
<1>1. DfsInv => PostOrderCorrect
  <2> SUFFICES ASSUME DfsInv, DfsDone
               PROVE  /\ ToSet(post) = Reachable(graph)
                      /\ \A a, b \in ToSet(post) :
                           IsEdge(graph, a, b) /\ PostIndex(a) <= PostIndex(b) =>
                             Reaches(Edges(graph), b, a)
    BY DEF PostOrderCorrect
  <2>1. ToSet(post) = Reachable(graph)
    BY ListedIsReachable
  <2>2. ASSUME NEW a \in ToSet(post), NEW b \in ToSet(post),
               IsEdge(graph, a, b), PostIndex(a) <= PostIndex(b)
        PROVE  Reaches(Edges(graph), b, a)
    <3>1. graph \in CfgGraph /\ a \in Block /\ b \in Block
      BY <2>1, ReachableProperties DEF DfsInv, DfsTypeOK
    <3>2. a = b \/ Reaches(Forward, b, a)
      BY <2>2, RetreatingEdge DEF IsEdge
    <3>3. CASE a = b
      BY <2>2, <3>1, <3>3, EdgesAreOfBlocks, ReachesProperties DEF IsEdge
    <3>4. CASE Reaches(Forward, b, a)
      <4>1. /\ Edges(graph) \in [Block -> SUBSET Block]
            /\ Forward \in [Block -> SUBSET Block]
            /\ \A c \in Block : Forward[c] \subseteq Edges(graph)[c]
        BY <3>1, EdgesAreOfBlocks, ForwardIsEdges
      <4> QED
        BY <3>1, <3>4, <4>1, ReachesMonotonic
    <3> QED
      BY <3>2, <3>3, <3>4
  <2> QED
    BY <2>1, <2>2
<1> QED
  BY <1>1, DfsInvariant, PTL

-----------------------------------------------------------------------------
(* The map d leads upwards: to blocks that are in it and come later in     *)
(* post order, up to the entry, which comes last.                          *)
Placed(d) == {b \in Block : d[b] # Nil}

Climbs(d) ==
  /\ d \in [Block -> Block \cup {Nil}]
  /\ d[Entry] \in {Nil, Entry}
  /\ \A b \in Placed(d) : /\ PostIndex(b) # 0
                          /\ d[b] \in Placed(d)
                          /\ b # Entry => PostIndex(b) < PostIndex(d[b])

DomsClimb == Climbs(doms)

EntryLast == post # <<>> /\ Last(post) = Entry

Finger == Block \cup {Throws}

(* One step of intersect, in terms of what the rest of the walk gives.     *)
Walked(meet, a, b) ==
  IF a = Throws \/ b = Throws THEN Throws
  ELSE IF PostIndex(a) = 0 \/ PostIndex(b) = 0 THEN Throws
  ELSE IF PostIndex(a) = PostIndex(b) THEN a
  ELSE IF PostIndex(a) < PostIndex(b) THEN meet[<<Up(a), b>>]
  ELSE meet[<<a, Up(b)>>]

(* How far the fingers are from the end of the order.                      *)
Distance(a, b) ==
  IF a = Throws \/ b = Throws THEN 0
  ELSE 1 + (Len(post) - PostIndex(a)) + (Len(post) - PostIndex(b))

LEMMA PostIndexRange ==
  ASSUME DfsTypeOK
  PROVE  Len(post) \in Nat /\ \A b : PostIndex(b) \in 0..Len(post)
<1>1. /\ Len(post) \in Nat
      /\ DOMAIN post = 1..Len(post)
      /\ \A b : b \in ToSet(post) => PostIndex(b) \in DOMAIN post
      /\ \A b : b \notin ToSet(post) => PostIndex(b) = 0
  BY PostIndexIsPlace
<1> QED
  BY <1>1

LEMMA EntryHasLastIndex ==
  ASSUME DfsTypeOK, EntryLast
  PROVE  /\ Len(post) \in Nat \ {0}
         /\ PostIndex(Entry) = Len(post)
         /\ \A b : PostIndex(b) # 0 /\ b # Entry => PostIndex(b) < Len(post)
<1>1. /\ Len(post) \in Nat \ {0}
      /\ post[Len(post)] = Entry
  BY FrontAndLast DEF EntryLast, DfsTypeOK
<1>2. Len(post) \in DOMAIN post /\ PostIndex(Entry) = Len(post)
  BY <1>1, PostIndexIsPlace
<1>3. ASSUME NEW b, PostIndex(b) # 0, b # Entry PROVE PostIndex(b) < Len(post)
  <2>1. PostIndex(b) \in DOMAIN post /\ post[PostIndex(b)] = b
    BY <1>3, PostIndexIsPlace
  <2> QED
    BY <1>1, <1>3, <2>1, PostIndexIsPlace
<1> QED
  BY <1>1, <1>2, <1>3

(* The finger that is behind moves up the map, away from the end no more.  *)
LEMMA DistanceFalls ==
  ASSUME DfsTypeOK, EntryLast, DomsClimb, NEW a \in Block, NEW b \in Finger,
         b # Throws, PostIndex(a) # 0, PostIndex(b) # 0, PostIndex(a) < PostIndex(b)
  PROVE  /\ Up(a) \in Finger
         /\ Distance(Up(a), b) < Distance(a, b)
         /\ Distance(b, Up(a)) < Distance(b, a)
<1>1. /\ Len(post) \in Nat
      /\ \A c : PostIndex(c) \in 0..Len(post)
      /\ a # Throws
  BY PostIndexRange DEF Block, Throws
<1>2. a # Entry
  BY <1>1, EntryHasLastIndex
<1>3. CASE doms[a] = Nil
  BY <1>1, <1>3 DEF Up, Finger, Distance
<1>4. CASE doms[a] # Nil
  <2>1. Up(a) = doms[a] /\ doms[a] \in Block /\ PostIndex(a) < PostIndex(doms[a])
    BY <1>2, <1>4 DEF DomsClimb, Climbs, Placed, Up
  <2>2. Up(a) # Throws
    BY <2>1 DEF Block, Throws
  <2> QED
    BY <1>1, <2>1, <2>2 DEF Distance, Finger
<1> QED
  BY <1>3, <1>4

(* The walk ends, so intersect gives what its loops describe.              *)
LEMMA IntersectSteps ==
  ASSUME DfsTypeOK, EntryLast, DomsClimb
  PROVE  \A a, b \in Finger :
           Intersect(a, b) =
             IF a = Throws \/ b = Throws THEN Throws
             ELSE IF PostIndex(a) = 0 \/ PostIndex(b) = 0 THEN Throws
             ELSE IF PostIndex(a) = PostIndex(b) THEN a
             ELSE IF PostIndex(a) < PostIndex(b) THEN Intersect(Up(a), b)
             ELSE Intersect(a, Up(b))
<1> DEFINE D == Finger \X Finger
           Maps == [D -> Finger]
           F == [g \in Maps |-> [f \in D |-> Walked(g, f[1], f[2])]]
           mu == [f \in D |-> Distance(f[1], f[2])]
           IsMeet(g) == g = [f \in D |->
             IF f[1] = Throws \/ f[2] = Throws THEN Throws
             ELSE IF PostIndex(f[1]) = 0 \/ PostIndex(f[2]) = 0 THEN Throws
             ELSE IF PostIndex(f[1]) = PostIndex(f[2]) THEN f[1]
             ELSE IF PostIndex(f[1]) < PostIndex(f[2]) THEN g[<<Up(f[1]), f[2]>>]
             ELSE g[<<f[1], Up(f[2])>>]]
<1>1. /\ Len(post) \in Nat
      /\ \A c : PostIndex(c) \in 0..Len(post)
  BY PostIndexRange
<1>2. \A c \in Block : c \in Finger /\ Up(c) \in Finger
  BY DEF Up, Finger, DomsClimb, Climbs
<1>3. Throws \in Finger /\ \A c \in Finger : c # Throws => c \in Block
  BY DEF Finger
<1>4. ASSUME NEW g \in Maps, NEW a \in Finger, NEW b \in Finger PROVE Walked(g, a, b) \in Finger
  <2>1. \A c, d \in Finger : g[<<c, d>>] \in Finger
    OBVIOUS
  <2> HIDE DEF Maps
  <2> QED
    BY <1>2, <1>3, <2>1 DEF Walked
<1>5. F \in [Maps -> Maps]
  <2>1. ASSUME NEW g \in Maps PROVE [f \in D |-> Walked(g, f[1], f[2])] \in Maps
    BY <1>4
  <2> QED
    BY <2>1
<1>6. mu \in [D -> 0..(2 * Len(post) + 1)]
  <2>1. \A a, b \in Finger : Distance(a, b) \in 0..(2 * Len(post) + 1)
    BY <1>1 DEF Distance
  <2> QED
    BY <2>1
<1>7. ASSUME NEW g \in Maps, NEW h \in Maps, NEW x \in D,
             \A y \in D : mu[y] < mu[x] => g[y] = h[y]
      PROVE  F[g][x] = F[h][x]
  <2> DEFINE a == x[1]
             b == x[2]
  <2>1. a \in Finger /\ b \in Finger /\ x = <<a, b>> /\ mu[x] = Distance(a, b)
    OBVIOUS
  <2>2. F[g][x] = Walked(g, a, b) /\ F[h][x] = Walked(h, a, b)
    OBVIOUS
  <2>3. \A c, d \in Finger : Distance(c, d) < Distance(a, b) => g[<<c, d>>] = h[<<c, d>>]
    <3> SUFFICES ASSUME NEW c \in Finger, NEW d \in Finger, Distance(c, d) < Distance(a, b)
                 PROVE  g[<<c, d>>] = h[<<c, d>>]
      OBVIOUS
    <3>1. <<c, d>> \in D /\ mu[<<c, d>>] = Distance(c, d)
      OBVIOUS
    <3> HIDE DEF mu, D
    <3> QED
      BY <1>7, <2>1, <3>1
  <2> HIDE DEF a, b, F, mu, Maps
  <2>4. CASE a = Throws \/ b = Throws \/ PostIndex(a) = 0 \/ PostIndex(b) = 0
    BY <2>2, <2>4 DEF Walked
  <2>5. CASE a \in Block /\ b \in Block /\ PostIndex(a) # 0 /\ PostIndex(b) # 0
    <3>1. a # Throws /\ b # Throws
      BY <2>5 DEF Block, Throws
    <3>2. PostIndex(a) < PostIndex(b) => Up(a) \in Finger /\ Distance(Up(a), b) < Distance(a, b)
      BY <2>1, <2>5, <3>1, DistanceFalls
    <3>3. PostIndex(b) < PostIndex(a) => Up(b) \in Finger /\ Distance(a, Up(b)) < Distance(a, b)
      BY <2>1, <2>5, <3>1, DistanceFalls
    <3>4. PostIndex(a) < PostIndex(b) \/ PostIndex(a) = PostIndex(b) \/ PostIndex(b) < PostIndex(a)
      BY <1>1
    <3> QED
      BY <2>1, <2>2, <2>3, <3>1, <3>2, <3>3, <3>4 DEF Walked
  <2> QED
    BY <1>3, <2>1, <2>4, <2>5
<1>8. \E g \in Maps : F[g] = g
  <2>1. 2 * Len(post) + 1 \in Nat
    BY <1>1
  <2>2. \A g, h \in Maps, x \in D :
          (\A y \in D : mu[y] < mu[x] => g[y] = h[y]) => F[g][x] = F[h][x]
    <3> HIDE DEF D, F, mu, Maps
    <3> QED
      BY <1>7, Zenon
  <2>3. Maps = [D -> Finger] /\ Throws \in Finger
    BY <1>3
  <2> DEFINE M == 2 * Len(post) + 1
  <2>4. M \in Nat /\ mu \in [D -> 0..M]
    BY <1>6, <2>1
  <2> HIDE DEF D, F, mu, Maps, M
  <2>5. IsRecursion(F, Maps, D, M, mu)
    BY <1>5, <2>2, <2>4, Zenon DEF IsRecursion
  <2> QED
    BY <2>3, <2>5, RecursionExists, SMT
<1>9. PICK g \in Maps : F[g] = g
  BY <1>8
<1>10. IsMeet(g)
  <2>1. g = [f \in D |-> Walked(g, f[1], f[2])]
    BY <1>9
  <2> HIDE DEF D, Maps
  <2> QED
    BY <2>1 DEF Walked
<1> DEFINE meet == CHOOSE h : IsMeet(h)
<1>11. IsMeet(meet)
  <2> HIDE DEF IsMeet
  <2> QED
    BY <1>10
<1>12. \A a, b : Intersect(a, b) = meet[<<a, b>>]
  BY DEF Intersect, Finger
<1> HIDE DEF meet
<1> SUFFICES ASSUME NEW a \in Finger, NEW b \in Finger
             PROVE  meet[<<a, b>>] = Walked(meet, a, b)
  BY <1>12, Zenon DEF Walked
<1>13. <<a, b>> \in D /\ <<a, b>>[1] = a /\ <<a, b>>[2] = b
  OBVIOUS
<1> QED
  BY <1>11, <1>13 DEF Walked

-----------------------------------------------------------------------------
(* The blocks from b up: b, d[b], and so on.                               *)
ClimbEdges(d) == [c \in Block |-> {d[c]} \ {Nil}]
Above(d, b) == ReachableAvoiding(ClimbEdges(d), {b}, {})

LEMMA AboveProperties ==
  ASSUME NEW d \in [Block -> Block \cup {Nil}], NEW b \in Block
  PROVE  /\ b \in Above(d, b)
         /\ Above(d, b) \subseteq Block
         /\ \A c \in Above(d, b) : d[c] # Nil => d[c] \in Above(d, b)
<1>1. ClimbEdges(d) \in [Block -> SUBSET Block] /\ {b} \in SUBSET Block
  BY DEF ClimbEdges
<1>2. b \in Above(d, b) /\ Above(d, b) \subseteq Block
  BY <1>1, ReachableHasStart DEF Above
<1>3. ClosedAvoiding(ClimbEdges(d), Above(d, b), {})
  BY <1>1, ReachableIsClosed DEF Above
<1> QED
  BY <1>2, <1>3 DEF ClosedAvoiding, ClimbEdges

LEMMA AboveLeast ==
  ASSUME NEW d \in [Block -> Block \cup {Nil}], NEW b \in Block, NEW C, b \in C,
         \A c \in C \cap Block : d[c] # Nil => d[c] \in C
  PROVE  Above(d, b) \subseteq C
<1> DEFINE B == C \cap Block
<1>1. ClimbEdges(d) \in [Block -> SUBSET Block] /\ {b} \in SUBSET Block
  BY DEF ClimbEdges
<1>2. {b} \ {} \subseteq B /\ ClosedAvoiding(ClimbEdges(d), B, {})
  BY DEF ClosedAvoiding, ClimbEdges
<1> HIDE DEF B
<1>3. Above(d, b) \subseteq B
  BY <1>1, <1>2, ReachableIsLeast DEF Above
<1> QED
  BY <1>3 DEF B

(* From a block the climb goes on with the one it leads to.                *)
LEMMA AboveSteps ==
  ASSUME NEW d, Climbs(d), NEW b \in Placed(d)
  PROVE  /\ Above(d, b) = {b} \cup Above(d, d[b])
         /\ Above(d, b) \subseteq Placed(d)
<1>1. /\ d \in [Block -> Block \cup {Nil}]
      /\ b \in Block /\ d[b] # Nil /\ d[b] \in Block
      /\ \A c \in Placed(d) : d[c] \in Placed(d)
  BY DEF Climbs, Placed
<1>2. Above(d, d[b]) \subseteq Above(d, b) /\ b \in Above(d, b)
  BY <1>1, AboveProperties, AboveLeast
<1>3. Above(d, b) \subseteq {b} \cup Above(d, d[b])
  <2> DEFINE C == {b} \cup Above(d, d[b])
  <2>1. b \in C /\ \A c \in C \cap Block : d[c] # Nil => d[c] \in C
    BY <1>1, AboveProperties
  <2> HIDE DEF C
  <2>2. Above(d, b) \subseteq C
    BY <1>1, <2>1, AboveLeast
  <2> QED
    BY <2>2 DEF C
<1>4. Above(d, b) \subseteq Placed(d)
  BY <1>1, AboveLeast
<1> QED
  BY <1>2, <1>3, <1>4

(* What is above comes later in post order.                                *)
LEMMA AboveIsLater ==
  ASSUME DfsTypeOK, NEW d, Climbs(d), NEW b \in Placed(d), NEW a \in Above(d, b)
  PROVE  a = b \/ PostIndex(b) < PostIndex(a)
<1> DEFINE C == {b} \cup {c \in Placed(d) : PostIndex(b) < PostIndex(c)}
<1>1. /\ d \in [Block -> Block \cup {Nil}] /\ b \in Block
      /\ \A c : PostIndex(c) \in Nat
  BY PostIndexRange DEF Climbs, Placed
<1>2. ASSUME NEW c \in C PROVE d[c] \in C
  <2>1. c \in Placed(d) /\ d[c] \in Placed(d)
    BY <1>2 DEF Climbs
  <2>2. CASE c = Entry
    BY <1>2, <2>1, <2>2 DEF Climbs, Placed
  <2>3. CASE c # Entry
    <3>1. PostIndex(c) < PostIndex(d[c])
      BY <2>1, <2>3 DEF Climbs
    <3>2. PostIndex(b) < PostIndex(d[c])
      BY <1>1, <1>2, <3>1
    <3> QED
      BY <2>1, <3>2
  <2> QED
    BY <2>2, <2>3
<1>3. Above(d, b) \subseteq C
  <2>1. b \in C
    OBVIOUS
  <2> HIDE DEF C
  <2> QED
    BY <1>1, <1>2, <2>1, AboveLeast
<1> QED
  BY <1>3

LEMMA AboveTransitive ==
  ASSUME NEW d, Climbs(d), NEW c \in Placed(d), NEW b \in Above(d, c), NEW a \in Above(d, b)
  PROVE  a \in Above(d, c)
<1>1. d \in [Block -> Block \cup {Nil}] /\ c \in Block
  BY DEF Climbs, Placed
<1>2. b \in Block /\ Above(d, b) \subseteq Above(d, c)
  BY <1>1, AboveProperties, AboveLeast
<1> QED
  BY <1>2

(* Of two blocks above a third, one is above the other.                    *)
LEMMA AboveIsChain ==
  ASSUME NEW d, Climbs(d), NEW c \in Placed(d), NEW a \in Above(d, c), NEW b \in Above(d, c)
  PROVE  a \in Above(d, b) \/ b \in Above(d, a)
<1> DEFINE C == {x \in Placed(d) : a \in Above(d, x) \/ x \in Above(d, a)}
<1>1. d \in [Block -> Block \cup {Nil}] /\ c \in Block /\ a \in Placed(d) /\ a \in Block
  BY AboveSteps DEF Climbs, Placed
<1>2. ASSUME NEW x \in C PROVE d[x] \in C
  <2>1. d[x] \in Placed(d) /\ d[x] # Nil /\ Above(d, x) = {x} \cup Above(d, d[x])
    BY AboveSteps DEF Climbs, Placed
  <2>2. x \in Above(d, a) => d[x] \in Above(d, a)
    BY <1>1, <2>1, AboveProperties
  <2>3. a = x => d[x] \in Above(d, a)
    BY <1>1, <2>1, AboveProperties
  <2> QED
    BY <2>1, <2>2, <2>3
<1>3. Above(d, c) \subseteq C
  <2>1. c \in C
    OBVIOUS
  <2> HIDE DEF C
  <2> QED
    BY <1>1, <1>2, <2>1, AboveLeast
<1> QED
  BY <1>3

(* On the way up to another block there is one that leads to it.           *)
LEMMA AboveHasChild ==
  ASSUME NEW d, Climbs(d), NEW b \in Placed(d), NEW a \in Above(d, b), a # b
  PROVE  \E c \in Above(d, b) : c # a /\ d[c] = a
<1> DEFINE C == {b} \cup {x \in Above(d, b) : \E c \in Above(d, b) : c # x /\ d[c] = x}
<1>1. /\ d \in [Block -> Block \cup {Nil}] /\ b \in Block /\ b \in C
      /\ C \subseteq Above(d, b)
  BY AboveProperties DEF Climbs, Placed
<1>2. ASSUME NEW c \in C, d[c] # Nil PROVE d[c] \in C
  <2>1. c \in Above(d, b) /\ d[c] \in Above(d, b)
    BY <1>1, <1>2, AboveProperties
  <2> QED
    BY <1>2, <2>1
<1>3. Above(d, b) \subseteq C
  <2> HIDE DEF C
  <2> QED
    BY <1>1, <1>2, AboveLeast
<1> QED
  BY <1>3

(* A block placed below another one adds itself to what is above that one. *)
LEMMA AboveOfPlaced ==
  ASSUME NEW d, Climbs(d), NEW b \in Block \ Placed(d), NEW i \in Placed(d),
         NEW e, Climbs(e), e[b] = i, \A c \in Block \ {b} : e[c] = d[c]
  PROVE  /\ Placed(e) = Placed(d) \cup {b}
         /\ \A c \in Placed(d) : Above(e, c) = Above(d, c)
         /\ Above(e, b) = {b} \cup Above(d, i)
<1>1. /\ d \in [Block -> Block \cup {Nil}] /\ e \in [Block -> Block \cup {Nil}]
      /\ i \in Block /\ i # Nil
      /\ d[b] = Nil /\ e[b] = i /\ \A c \in Block \ {b} : e[c] = d[c]
  BY DEF Climbs, Placed, Block, Nil
<1>2. Placed(e) = Placed(d) \cup {b}
  BY <1>1 DEF Placed
<1>3. ASSUME NEW c \in Placed(d) PROVE Above(e, c) = Above(d, c)
  <2>1. c \in Block /\ Above(d, c) \subseteq Placed(d)
    BY AboveSteps DEF Placed
  <2>2. \A x \in Above(d, c) \cap Block : e[x] # Nil => e[x] \in Above(d, c)
    BY <1>1, <2>1, AboveProperties
  <2>3. Above(e, c) \subseteq Above(d, c)
    BY <1>1, <2>1, <2>2, AboveLeast, AboveProperties
  <2>4. \A x \in Above(e, c) \cap Block : d[x] # Nil => d[x] \in Above(e, c)
    BY <1>1, <2>1, AboveProperties
  <2>5. Above(d, c) \subseteq Above(e, c)
    BY <1>1, <2>1, <2>4, AboveLeast, AboveProperties
  <2> QED
    BY <2>3, <2>5
<1>4. Above(e, b) = {b} \cup Above(d, i)
  BY <1>1, <1>2, <1>3, AboveSteps
<1> QED
  BY <1>2, <1>3, <1>4

-----------------------------------------------------------------------------
(* The fingers meet above both, and below whatever else is above both.     *)
MeetsAt(a, b, m) ==
  /\ m \in Above(doms, a) \cap Above(doms, b)
  /\ Above(doms, a) \cap Above(doms, b) \subseteq Above(doms, m)

LEMMA IntersectMeets ==
  ASSUME DfsTypeOK, EntryLast, DomsClimb, NEW a \in Placed(doms), NEW b \in Placed(doms)
  PROVE  MeetsAt(a, b, Intersect(a, b))
<1> DEFINE M == 2 * Len(post) + 1
           P == Placed(doms)
           G == {n \in 0..M : \A x, y \in P : Distance(x, y) <= n => MeetsAt(x, y, Intersect(x, y))}
<1>1. /\ Len(post) \in Nat
      /\ \A c : PostIndex(c) \in 0..Len(post)
  BY PostIndexRange
<1>2. \A x \in P : /\ x \in Block /\ x \in Finger /\ x # Throws
                    /\ PostIndex(x) # 0
                    /\ Up(x) = doms[x] /\ doms[x] \in P
                    /\ Above(doms, x) = {x} \cup Above(doms, doms[x])
                    /\ x \in Above(doms, x)
  <2> SUFFICES ASSUME NEW x \in P
               PROVE  /\ x \in Block /\ x \in Finger /\ x # Throws
                      /\ PostIndex(x) # 0
                      /\ Up(x) = doms[x] /\ doms[x] \in P
                      /\ Above(doms, x) = {x} \cup Above(doms, doms[x])
                      /\ x \in Above(doms, x)
    OBVIOUS
  <2>1. /\ x \in Block /\ doms[x] # Nil /\ PostIndex(x) # 0 /\ doms[x] \in Placed(doms)
    BY DEF DomsClimb, Climbs, Placed
  <2>2. x \in Finger /\ x # Throws
    BY <2>1 DEF Finger, Throws, Block
  <2>3. Above(doms, x) = {x} \cup Above(doms, doms[x])
    BY AboveSteps DEF DomsClimb
  <2> QED
    BY <2>1, <2>2, <2>3 DEF Up
<1>3. \A x, y \in P : Distance(x, y) \in 1..M
  BY <1>1, <1>2 DEF Distance
<1>4. \A x, y \in P : PostIndex(x) < PostIndex(y) =>
        /\ Distance(doms[x], y) < Distance(x, y)
        /\ Distance(y, doms[x]) < Distance(y, x)
  BY <1>2, DistanceFalls
<1>5. \A x, y \in P : PostIndex(x) < PostIndex(y) => x \notin Above(doms, y)
  BY <1>1, AboveIsLater DEF DomsClimb
<1>6. ASSUME NEW x \in P, NEW y \in P, PostIndex(x) = PostIndex(y) PROVE x = y
  BY <1>2, <1>6, PostIndexIsPlace
<1>7. 0 \in G
  <2>1. M \in Nat /\ 0 \in 0..M
    BY <1>1
  <2>2. \A x, y \in P : ~(Distance(x, y) <= 0)
    <3> SUFFICES ASSUME NEW x \in P, NEW y \in P PROVE ~(Distance(x, y) <= 0)
      OBVIOUS
    <3>1. Distance(x, y) \in 1..M
      BY <1>3
    <3> QED
      BY <2>1, <3>1
  <2> QED
    BY <2>1, <2>2
<1>8. ASSUME NEW n \in 0..(M-1), n \in G PROVE n + 1 \in G
  <2> SUFFICES ASSUME NEW x \in P, NEW y \in P, Distance(x, y) <= n + 1
               PROVE  MeetsAt(x, y, Intersect(x, y))
    BY <1>1
  <2>1. \A v, w \in P : Distance(v, w) <= n => MeetsAt(v, w, Intersect(v, w))
    BY <1>8
  <2> HIDE DEF P, M, G
  <2>2. CASE PostIndex(x) = PostIndex(y)
    <3>1. Intersect(x, y) = x /\ x = y
      BY <1>2, <1>6, <2>2, IntersectSteps
    <3> QED
      BY <1>2, <3>1 DEF MeetsAt
  <2>3. CASE PostIndex(x) < PostIndex(y)
    <3>1. Intersect(x, y) = Intersect(doms[x], y)
      BY <1>1, <1>2, <2>3, IntersectSteps
    <3>2. Distance(doms[x], y) <= n
      BY <1>1, <1>2, <1>3, <1>4, <2>3
    <3>3. MeetsAt(doms[x], y, Intersect(doms[x], y))
      BY <1>2, <2>1, <3>2
    <3> QED
      BY <1>2, <1>5, <2>3, <3>1, <3>3 DEF MeetsAt
  <2>4. CASE PostIndex(y) < PostIndex(x)
    <3>1. Intersect(x, y) = Intersect(x, doms[y])
      BY <1>1, <1>2, <2>4, IntersectSteps
    <3>2. Distance(x, doms[y]) <= n
      BY <1>1, <1>2, <1>3, <1>4, <2>4
    <3>3. MeetsAt(x, doms[y], Intersect(x, doms[y]))
      BY <1>2, <2>1, <3>2
    <3> QED
      BY <1>2, <1>5, <2>4, <3>1, <3>3 DEF MeetsAt
  <2> QED
    BY <1>1, <2>2, <2>3, <2>4
<1>9. 0..M \subseteq G
  <2>1. M \in Nat
    BY <1>1
  <2> HIDE DEF G, M
  <2> QED
    BY <1>7, <1>8, <2>1, IntervalInduction
<1> QED
  BY <1>1, <1>3, <1>9

-----------------------------------------------------------------------------
(* The predecessor that a block's dominator is computed from.              *)
LEMMA FirstPredFound ==
  ASSUME graph \in CfgGraph, NEW b \in Block
  PROVE  /\ FirstPred(b) # Nil => FirstPred(b) \in ToSet(Preds(graph, b)) /\ FirstPred(b) \in Block
         /\ \A p \in ToSet(Preds(graph, b)) : MayStart(p) => FirstPred(b) # Nil
<1> DEFINE s == Preds(graph, b)
           I == {i \in 1..Len(s) : MayStart(s[i])}
           k == SelectInSeq(s, MayStart)
<1>1. s \in Seq(Block) /\ Len(s) \in Nat /\ DOMAIN s = 1..Len(s)
  BY PredsAreSources
<1>2. k = IF I # {} THEN Min(I) ELSE 0
  BY DEF SelectInSeq
<1>3. FirstPred(b) = IF k = 0 THEN Nil ELSE s[k]
  BY DEF FirstPred
<1>4. /\ I = {} => k = 0
      /\ I # {} => k \in I
  <2>1. I \in SUBSET (1..Len(s))
    OBVIOUS
  <2> HIDE DEF I, k, s
  <2> QED
    BY <1>1, <1>2, <2>1, SelectedPlace
<1>5. ASSUME NEW p \in ToSet(s), MayStart(p) PROVE I # {}
  BY <1>1, <1>5 DEF ToSet
<1>6. k \in I => s[k] \in ToSet(s) /\ s[k] \in Block /\ k # 0
  BY <1>1 DEF ToSet
<1>7. \A x \in Block : x # Nil
  BY DEF Block, Nil
<1> HIDE DEF k, s, I
<1>8. /\ FirstPred(b) # Nil => FirstPred(b) \in ToSet(s) /\ FirstPred(b) \in Block
      /\ \A p \in ToSet(s) : MayStart(p) => FirstPred(b) # Nil
  BY <1>3, <1>4, <1>5, <1>6, <1>7
<1> QED
  BY <1>8 DEF s

(* A reachable block but the entry has a predecessor that comes later in   *)
(* post order and is the entry or has one itself.                          *)
LEMMA HasLaterPred ==
  ASSUME DfsInv, DfsDone, NEW b \in ToSet(post), b # Entry
  PROVE  \E p \in ToSet(Preds(graph, b)) :
           p \in ToSet(post) /\ PostIndex(b) < PostIndex(p) /\ MayStart(p)
<1>1. /\ graph \in CfgGraph
      /\ DOMAIN post = 1..Len(post) /\ Len(post) \in Nat
      /\ \A k \in DOMAIN post : post[k] \in Block /\ PostIndex(post[k]) = k
      /\ \A c \in ToSet(post) : PostIndex(c) \in DOMAIN post /\ post[PostIndex(c)] = c
      /\ stack = <<>>
  BY PostIndexIsPlace DEF DfsInv, DfsTypeOK, DfsDone
<1>2. ASSUME NEW c \in ToSet(post), c # Entry
      PROVE  \E p \in ToSet(post) : p \in ToSet(Preds(graph, c)) /\ PostIndex(c) < PostIndex(p)
  <2>1. c \in Block
    BY <1>1
  <2>2. PICK p \in Block :
          /\ c \in ToSet(graph[p])
          /\ p \in ToSet(stack) \/ \E j \in DOMAIN post : j > PostIndex(c) /\ post[j] = p
    BY <1>1, <1>2 DEF DfsInv, ParentsLater
  <2>3. ToSet(stack) = {}
    BY <1>1 DEF ToSet
  <2>4. PICK j \in DOMAIN post : j > PostIndex(c) /\ post[j] = p
    BY <2>2, <2>3
  <2>5. p \in ToSet(post)
    BY <2>4 DEF ToSet
  <2>6. p \in ToSet(Preds(graph, c))
    BY <1>1, <2>1, <2>2, PredsAreSources
  <2>7. PostIndex(c) < PostIndex(p)
    BY <1>1, <2>4
  <2> QED
    BY <2>5, <2>6, <2>7
<1>3. PICK p \in ToSet(post) : p \in ToSet(Preds(graph, b)) /\ PostIndex(b) < PostIndex(p)
  BY <1>2
<1>4. p # Entry => Preds(graph, p) # <<>>
  <2>1. p # Entry => ToSet(Preds(graph, p)) # {}
    BY <1>2
  <2>2. ToSet(<<>>) = {}
    BY DEF ToSet
  <2> QED
    BY <2>1, <2>2
<1> QED
  BY <1>3, <1>4 DEF MayStart

(* In a sweep, the blocks still to place come before those placed.         *)
PlacedLater ==
  \A p \in Placed(doms), q \in Block \ Placed(doms) : PostIndex(q) < PostIndex(p)

LEMMA IntersectUnplaced ==
  ASSUME DfsTypeOK, EntryLast, DomsClimb, PlacedLater,
         NEW p \in Placed(doms), NEW q \in Block \ Placed(doms)
  PROVE  Intersect(p, q) = Throws
<1>1. /\ p \in Block /\ p \in Finger /\ q \in Finger /\ p # Throws /\ q # Throws
      /\ Throws \in Finger /\ doms[q] = Nil
  BY DEF Placed, Finger, Block, Throws
<1>2. PostIndex(q) < PostIndex(p) /\ PostIndex(q) \in Nat /\ PostIndex(p) \in Nat
  BY PostIndexRange DEF PlacedLater
<1>3. Up(q) = Throws
  BY <1>1 DEF Up
<1>4. Intersect(p, Throws) = Throws
  BY <1>1, IntersectSteps
<1>5. CASE PostIndex(q) = 0
  BY <1>1, <1>5, IntersectSteps
<1>6. CASE PostIndex(q) # 0
  BY <1>1, <1>2, <1>3, <1>4, <1>6, IntersectSteps
<1> QED
  BY <1>5, <1>6

(* The fold over the predecessors.                                         *)
IsFold(after, b) ==
  /\ after \in [0..Len(Preds(graph, b)) -> Finger]
  /\ after[0] = FirstPred(b)
  /\ \A k \in 1..Len(Preds(graph, b)) :
       after[k] = IF after[k-1] # Throws /\ Preds(graph, b)[k] # after[k-1] /\ HasDom(Preds(graph, b)[k])
                  THEN Intersect(Preds(graph, b)[k], after[k-1])
                  ELSE after[k-1]

LEMMA NewIdomFolds ==
  ASSUME DfsTypeOK, EntryLast, DomsClimb, PlacedLater, NEW b \in Block, FirstPred(b) \in Block
  PROVE  \E after : IsFold(after, b) /\ NewIdom(b) = after[Len(Preds(graph, b))]
<1> DEFINE preds == Preds(graph, b)
           n == Len(preds)
           T == Finger
           met == [x \in (Block \cup {Nil, Throws}) \X Block |->
             IF x[1] # Throws /\ x[2] # x[1] /\ HasDom(x[2]) THEN Intersect(x[2], x[1]) ELSE x[1]]
           step == [y \in (1..n) \X T |-> met[<<y[2], preds[y[1]]>>]]
           IsAfter(f) == f = [k \in 0..n |-> IF k = 0 THEN FirstPred(b) ELSE met[<<f[k-1], preds[k]>>]]
<1>1. preds \in Seq(Block) /\ n \in Nat /\ \A k \in 1..n : preds[k] \in Block
  BY PredsAreSources DEF DfsTypeOK
<1>2. \A idom \in T, p \in Block :
        met[<<idom, p>>] = IF idom # Throws /\ p # idom /\ HasDom(p) THEN Intersect(p, idom) ELSE idom
  BY DEF Finger
<1>3. ASSUME NEW idom \in T, NEW p \in Block PROVE met[<<idom, p>>] \in T
  <2>1. idom # Throws => idom \in Block
    BY DEF Finger
  <2>2. HasDom(p) <=> p \in Placed(doms)
    BY DEF HasDom, Placed
  <2>3. idom \in Placed(doms) /\ p \in Placed(doms) => Intersect(p, idom) \in Block
    <3>1. idom \in Placed(doms) /\ p \in Placed(doms) => Intersect(p, idom) \in Above(doms, p)
      BY IntersectMeets DEF MeetsAt
    <3>2. Above(doms, p) \subseteq Block
      BY AboveProperties DEF DomsClimb, Climbs
    <3> QED
      BY <3>1, <3>2
  <2>4. idom \in Block \ Placed(doms) /\ p \in Placed(doms) => Intersect(p, idom) = Throws
    BY IntersectUnplaced
  <2>5. met[<<idom, p>>] = IF idom # Throws /\ p # idom /\ HasDom(p) THEN Intersect(p, idom) ELSE idom
    BY <1>2
  <2>6. idom # Throws /\ HasDom(p) => Intersect(p, idom) \in Block \/ Intersect(p, idom) = Throws
    BY <2>1, <2>2, <2>3, <2>4
  <2> HIDE DEF met
  <2> QED
    BY <2>5, <2>6 DEF Finger
<1>4. \A k \in 1..n, x \in T : step[<<k, x>>] = met[<<x, preds[k]>>]
  <2> HIDE DEF met, preds
  <2> QED
    OBVIOUS
<1>5. \A k \in 1..n, x \in T : step[<<k, x>>] \in T
  <2> HIDE DEF met, step, preds, n, T
  <2> QED
    BY <1>1, <1>3, <1>4
<1>6. PICK f : IsIteration(f, n, T, FirstPred(b), step)
  <2>1. FirstPred(b) \in T
    BY DEF Finger
  <2> HIDE DEF step, T, n
  <2> QED
    BY <1>1, <1>5, <2>1, IterationExists
<1>7. IsAfter(f)
  <2>1. \A k \in 0..n : k # 0 => f[k] = met[<<f[k-1], preds[k]>>]
    <3> SUFFICES ASSUME NEW k \in 0..n, k # 0 PROVE f[k] = met[<<f[k-1], preds[k]>>]
      OBVIOUS
    <3> HIDE DEF met, step, preds, n
    <3>1. k \in 1..n /\ k - 1 \in 0..n
      BY <1>1
    <3>2. f[k-1] \in T /\ f[k] = step[<<k, f[k-1]>>]
      BY <1>6, <3>1 DEF IsIteration
    <3> QED
      BY <1>4, <3>1, <3>2
  <2>2. f[0] = FirstPred(b) /\ f \in [0..n -> T]
    BY <1>6 DEF IsIteration
  <2> HIDE DEF step, met, n, preds
  <2> QED
    BY <2>1, <2>2
<1> DEFINE after == CHOOSE g : IsAfter(g)
<1>8. IsAfter(after)
  <2> HIDE DEF IsAfter
  <2> QED
    BY <1>7
<1>9. NewIdom(b) = after[n]
  BY DEF NewIdom
<1> HIDE DEF after
<1>10. after[0] = FirstPred(b) /\ \A k \in 1..n : after[k] = met[<<after[k-1], preds[k]>>]
  <2> HIDE DEF met, preds, n
  <2> QED
    BY <1>1, <1>8
<1>11. DOMAIN after = 0..n
  <2> HIDE DEF met, preds, n
  <2> QED
    BY <1>8
<1>12. \A k \in 0..n : after[k] \in T
  <2> DEFINE G == {k \in 0..n : after[k] \in T}
  <2> HIDE DEF met, preds, n, IsAfter
  <2>1. 0 \in G
    BY <1>1, <1>10 DEF Finger
  <2>2. ASSUME NEW k \in 0..(n-1), k \in G PROVE k + 1 \in G
    <3>1. k + 1 \in 1..n /\ (k + 1) - 1 = k /\ k + 1 \in 0..n
      BY <1>1
    <3> QED
      BY <1>1, <1>3, <1>10, <2>2, <3>1
  <2> HIDE DEF G
  <2>3. 0..n \subseteq G
    BY <1>1, <2>1, <2>2, IntervalInduction
  <2> QED
    BY <2>3 DEF G
<1>13. after \in [0..n -> T]
  <2>1. after = [k \in 0..n |-> after[k]]
    <3> HIDE DEF met, preds, n
    <3> QED
      BY <1>8
  <2> HIDE DEF IsAfter, met, preds, n
  <2> QED
    BY <1>12, <2>1
<1>14. \A k \in 1..n : after[k] = IF after[k-1] # Throws /\ preds[k] # after[k-1] /\ HasDom(preds[k])
                                   THEN Intersect(preds[k], after[k-1])
                                   ELSE after[k-1]
  <2> HIDE DEF met, preds, n, IsAfter
  <2>1. \A k \in 1..n : k - 1 \in 0..n
    BY <1>1
  <2> QED
    BY <1>1, <1>2, <1>10, <1>12, <2>1
<1> HIDE DEF met, step, IsAfter
<1>15. IsFold(after, b)
  BY <1>10, <1>13, <1>14 DEF IsFold
<1> QED
  BY <1>9, <1>15

(* From a predecessor that is not placed yet the computation throws.       *)
LEMMA NewIdomThrows ==
  ASSUME DfsTypeOK, EntryLast, DomsClimb, PlacedLater, NEW b \in Block,
         FirstPred(b) \in Block \ Placed(doms),
         NEW p \in ToSet(Preds(graph, b)), p \in Placed(doms)
  PROVE  NewIdom(b) = Throws
<1> DEFINE preds == Preds(graph, b)
           n == Len(preds)
<1>1. preds \in Seq(Block) /\ n \in Nat /\ (\A k \in 1..n : preds[k] \in Block) /\ DOMAIN preds = 1..n
  BY PredsAreSources DEF DfsTypeOK
<1>2. PICK after : IsFold(after, b) /\ NewIdom(b) = after[n]
  BY NewIdomFolds
<1>3. PICK j \in 1..n : preds[j] = p
  BY <1>1 DEF ToSet
<1> DEFINE G == {k \in 0..n : after[k] = Throws \/ (after[k] = FirstPred(b) /\ k < j)}
<1>4. 0 \in G
  BY <1>1, <1>2, <1>3 DEF IsFold
<1>5. ASSUME NEW k \in 0..(n-1), k \in G PROVE k + 1 \in G
  <2>1. k + 1 \in 1..n /\ (k + 1) - 1 = k /\ k + 1 \in 0..n
    BY <1>1
  <2>2. after[k+1] = IF after[k] # Throws /\ preds[k+1] # after[k] /\ HasDom(preds[k+1])
                     THEN Intersect(preds[k+1], after[k])
                     ELSE after[k]
    BY <1>2, <2>1 DEF IsFold
  <2>3. HasDom(preds[k+1]) <=> preds[k+1] \in Placed(doms)
    BY <1>1, <2>1 DEF HasDom, Placed
  <2>4. preds[k+1] \in Placed(doms) => Intersect(preds[k+1], FirstPred(b)) = Throws
    BY IntersectUnplaced
  <2>5. CASE after[k] = Throws
    BY <2>1, <2>2, <2>5
  <2>6. CASE after[k] = FirstPred(b) /\ k < j
    <3>1. k + 1 = j => preds[k+1] = p
      BY <1>3
    <3>2. k + 1 = j \/ k + 1 < j
      BY <1>3, <2>1, <2>6
    <3>3. after[k+1] = Throws \/ (after[k+1] = FirstPred(b) /\ k + 1 < j)
      <4> HIDE DEF preds, n, G
      <4> QED
        BY <2>2, <2>3, <2>4, <2>6, <3>1, <3>2
    <3> QED
      BY <2>1, <3>3
  <2> QED
    BY <1>5, <2>5, <2>6
<1>6. 0..n \subseteq G
  <2> HIDE DEF G, n
  <2> QED
    BY <1>1, <1>4, <1>5, IntervalInduction
<1> QED
  BY <1>1, <1>2, <1>3, <1>6

(* Otherwise it meets above every predecessor that is placed, and below    *)
(* whatever is above them all.                                             *)
LEMMA NewIdomMeets ==
  ASSUME DfsTypeOK, EntryLast, DomsClimb, PlacedLater, NEW b \in Block,
         FirstPred(b) \in Placed(doms)
  PROVE  /\ NewIdom(b) \in Placed(doms)
         /\ \A p \in ToSet(Preds(graph, b)) \cap Placed(doms) : NewIdom(b) \in Above(doms, p)
         /\ \A a : (\A p \in ToSet(Preds(graph, b)) \cap Placed(doms) : a \in Above(doms, p)) =>
                   a \in Above(doms, NewIdom(b))
<1> DEFINE preds == Preds(graph, b)
           n == Len(preds)
           P == Placed(doms)
<1>1. /\ preds \in Seq(Block) /\ n \in Nat /\ (\A k \in 1..n : preds[k] \in Block) /\ DOMAIN preds = 1..n
      /\ ToSet(preds) = {preds[k] : k \in 1..n}
  BY PredsAreSources DEF DfsTypeOK, ToSet
<1>2. FirstPred(b) \in Block /\ FirstPred(b) # Nil /\ FirstPred(b) \in ToSet(preds)
  BY FirstPredFound DEF Placed, Block, Nil, DfsTypeOK
<1>3. PICK after : IsFold(after, b) /\ NewIdom(b) = after[n]
  BY <1>2, NewIdomFolds
<1> DEFINE AboveAll(a, k) == /\ a \in Above(doms, FirstPred(b))
                             /\ \A j \in 1..k : preds[j] \in P => a \in Above(doms, preds[j])
           Below(x, k) == \A a : AboveAll(a, k) => a \in Above(doms, x)
           Meets(x, k) == /\ x \in P
                          /\ \A j \in 1..k : preds[j] \in P => x \in Above(doms, preds[j])
                          /\ Below(x, k)
           G == {k \in 0..n : Meets(after[k], k)}
<1>4. 0 \in G
  BY <1>1, <1>3 DEF IsFold
<1>5. ASSUME NEW k \in 0..(n-1), k \in G PROVE k + 1 \in G
  <2> DEFINE x == after[k]
             q == preds[k+1]
             y == after[k+1]
  <2>1. k + 1 \in 1..n /\ (k + 1) - 1 = k /\ k + 1 \in 0..n /\ k \in 0..n
    BY <1>1
  <2>2. Meets(x, k) /\ x \in Block /\ x # Throws /\ q \in Block
    BY <1>1, <1>5, <2>1 DEF Placed, Block, Throws
  <2>3. HasDom(q) <=> q \in P
    BY <2>2 DEF HasDom, Placed
  <2>4. y = IF q # x /\ q \in P THEN Intersect(q, x) ELSE x
    <3>1. y = IF x # Throws /\ q # x /\ HasDom(q) THEN Intersect(q, x) ELSE x
      BY <1>3, <2>1 DEF IsFold
    <3> HIDE DEF x, q, y
    <3> QED
      BY <2>2, <2>3, <3>1
  <2>5. \A j \in 1..(k+1) : j \in 1..k \/ j = k + 1
    BY <2>1
  <2>6. 1..k \subseteq 1..(k+1) /\ k + 1 \in 1..(k+1)
    BY <2>1
  <2> SUFFICES Meets(y, k + 1)
    BY <2>1
  <2> HIDE DEF x, y, preds, n, G
  <2>7. CASE q \notin P
    <3>1. y = x
      BY <2>4, <2>7
    <3>2. \A j \in 1..(k+1) : preds[j] \in P => j \in 1..k
      BY <2>5, <2>7
    <3> QED
      BY <2>2, <2>6, <3>1, <3>2
  <2>8. CASE q \in P /\ q = x
    <3>1. y = x /\ x \in Above(doms, q)
      BY <2>2, <2>4, <2>8, AboveProperties DEF DomsClimb, Climbs
    <3> QED
      BY <2>2, <2>5, <2>6, <2>8, <3>1
  <2>9. CASE q \in P /\ q # x
    <3>1. y = Intersect(q, x) /\ MeetsAt(q, x, y)
      BY <2>2, <2>4, <2>9, IntersectMeets
    <3>2. y \in Above(doms, q) /\ y \in Above(doms, x) /\ y \in P
      BY <2>2, <2>9, <3>1, AboveSteps DEF MeetsAt, DomsClimb
    <3>3. \A j \in 1..k : preds[j] \in P => y \in Above(doms, preds[j])
      BY <2>2, <3>2, AboveTransitive DEF DomsClimb
    <3>4. \A j \in 1..(k+1) : preds[j] \in P => y \in Above(doms, preds[j])
      BY <2>5, <3>2, <3>3
    <3>5. Below(y, k + 1)
      <4> SUFFICES ASSUME NEW a, AboveAll(a, k + 1)
                   PROVE  a \in Above(doms, y)
        OBVIOUS
      <4>1. a \in Above(doms, x)
        <5>1. AboveAll(a, k)
          BY <2>6
        <5>2. Below(x, k)
          BY <2>2
        <5> HIDE DEF AboveAll
        <5> QED
          BY <5>1, <5>2
      <4>2. a \in Above(doms, q)
        BY <2>6, <2>9
      <4> QED
        BY <3>1, <4>1, <4>2 DEF MeetsAt
    <3> QED
      BY <3>2, <3>4, <3>5
  <2> QED
    BY <2>7, <2>8, <2>9
<1>6. 0..n \subseteq G
  <2> HIDE DEF G, n
  <2> QED
    BY <1>1, <1>4, <1>5, IntervalInduction
<1>7. Meets(after[n], n)
  BY <1>1, <1>6
<1>8. \A p \in ToSet(preds) \cap P : \E j \in 1..n : p = preds[j]
  BY <1>1
<1>9. \A j \in 1..n : preds[j] \in ToSet(preds)
  BY <1>1
<1> HIDE DEF preds, n, P
<1> QED
  BY <1>2, <1>3, <1>7, <1>8, <1>9 DEF preds, n, P

-----------------------------------------------------------------------------
(* The sweep has placed the blocks from the end of the post order down to  *)
(* those in todo, none of them with a late start.  What it says of them    *)
(* includes all their dominators, and no more if the graph is reducible.   *)
SweptSoFar ==
  /\ Len(todo) < Len(post)
  /\ \A k \in 1..Len(todo) : todo[k] = post[Len(todo) + 1 - k]
  /\ Placed(doms) = {post[k] : k \in (Len(todo) + 1)..Len(post)}

NoneLate == \A b \in Placed(doms) \ {Entry} : ~StartsLate(b)

SaysAll ==
  \A b \in Placed(doms), a \in Block : b \in Dominated(graph)[a] => a \in Above(doms, b)

SaysOnly ==
  Reducible(graph, Dominated(graph)) =>
    \A b \in Placed(doms) : \A a \in Above(doms, b) : b \in Dominated(graph)[a]

InSweep == DfsDone /\ SweptSoFar /\ DomsClimb /\ NoneLate /\ SaysAll /\ SaysOnly

DomInv ==
  /\ todo \in Seq(Block)
  /\ doms \in [Block -> Block \cup {Nil}]
  /\ changed = FALSE
  /\ phase \in {"search", "sweep", "threw", "tree"}
  /\ phase = "search" => todo = <<>> /\ Placed(doms) = {}
  /\ phase # "search" => InSweep
  /\ phase = "threw" => todo # <<>> /\ StartsLate(Head(todo))
  /\ phase = "tree" => todo = <<>>

(* What the sweep reads stays as it is when post and graph do.             *)
LEMMA StartsLateUnchanged ==
  ASSUME UNCHANGED <<graph, post>>
  PROVE  /\ \A b : PostIndex(b)' = PostIndex(b)
         /\ \A b : StartsLate(b)' = StartsLate(b)
<1>1. \A b : PostIndex(b)' = PostIndex(b)
  BY DEF PostIndex
<1>2. \A b : FirstPred(b)' = FirstPred(b)
  BY DEF FirstPred, SelectInSeq, MayStart
<1>3. ASSUME NEW b PROVE PostIndex(FirstPred(b))' = PostIndex(FirstPred(b))
  BY <1>1, <1>2 DEF PostIndex
<1> QED
  BY <1>1, <1>2, <1>3 DEF StartsLate

LEMMA SweptUnchanged ==
  ASSUME InSweep, UNCHANGED <<dfsVars, todo, doms>>
  PROVE  InSweep'
<1>1. UNCHANGED graph /\ UNCHANGED stack /\ UNCHANGED post /\ UNCHANGED todo /\ UNCHANGED doms
  BY DEF dfsVars
<1>2. DfsDone' /\ SweptSoFar'
  BY <1>1 DEF InSweep, DfsDone, SweptSoFar, Placed
<1>3. DomsClimb'
  BY <1>1, StartsLateUnchanged DEF InSweep, DomsClimb, Climbs, Placed
<1>4. NoneLate'
  BY <1>1, StartsLateUnchanged DEF InSweep, NoneLate, Placed
<1>5. SaysAll'
  BY <1>1 DEF InSweep, SaysAll, Placed
<1>6. SaysOnly'
  BY <1>1 DEF InSweep, SaysOnly, Placed
<1> QED
  BY <1>2, <1>3, <1>4, <1>5, <1>6 DEF InSweep

-----------------------------------------------------------------------------
(* The entry is placed first.                                              *)
LEMMA BeginSweepInv == DfsInv /\ DomInv /\ BeginSweep => DomInv'
<1> SUFFICES ASSUME DfsInv, DomInv, BeginSweep PROVE DomInv'
  OBVIOUS
<1>1. /\ DfsDone /\ stack = <<>> /\ UNCHANGED graph /\ UNCHANGED stack /\ UNCHANGED post
      /\ todo' = SweepOrder /\ doms' = [doms EXCEPT ![Entry] = Entry]
      /\ changed' = FALSE /\ phase' = "sweep"
  BY DEF BeginSweep, dfsVars, DfsDone
<1>2. /\ graph \in CfgGraph /\ post \in Seq(Block) /\ DfsTypeOK /\ EntryLast
  BY <1>1 DEF DfsInv, DfsTypeOK, ParentsLater, EntryLast
<1>3. /\ Len(post) \in Nat \ {0} /\ DOMAIN post = 1..Len(post)
      /\ \A k \in 1..Len(post) : post[k] \in Block
      /\ post[Len(post)] = Entry /\ PostIndex(Entry) = Len(post)
  <2>1. DOMAIN post = 1..Len(post) /\ \A k \in 1..Len(post) : post[k] \in Block
    BY <1>2, PostIndexIsPlace
  <2>2. Len(post) \in Nat \ {0} /\ PostIndex(Entry) = Len(post)
    BY <1>2, EntryHasLastIndex
  <2>3. post[Len(post)] = Entry
    BY <1>2, <2>2, PostIndexIsPlace
  <2> QED
    BY <2>1, <2>2, <2>3
<1>4. /\ todo' \in Seq(Block)
      /\ Len(todo') = Len(post) - 1
      /\ \A k \in 1..Len(todo') : todo'[k] = post[Len(todo') + 1 - k]
  <2> DEFINE r == Reverse(post)
  <2>1. r = [j \in 1..Len(post) |-> post[Len(post) - j + 1]]
    BY DEF Reverse
  <2>2. /\ r \in Seq(Block) /\ Len(r) = Len(post)
        /\ \A j \in 1..Len(post) : r[j] = post[Len(post) - j + 1]
    <3>1. \A j \in 1..Len(post) : post[Len(post) - j + 1] \in Block
      BY <1>3
    <3> QED
      BY <1>3, <2>1, <3>1
  <2> HIDE DEF r
  <2>3. r # <<>>
    BY <1>3, <2>2
  <2>4. /\ Tail(r) \in Seq(Block) /\ Len(Tail(r)) = Len(r) - 1
        /\ \A k \in 1..(Len(r) - 1) : Tail(r)[k] = r[k+1]
    BY <2>2, <2>3, HeadTailProperties
  <2>5. todo' = Tail(r)
    BY <1>1 DEF SweepOrder, r
  <2>6. \A k \in 1..(Len(post) - 1) : r[k+1] = post[Len(post) - k]
    <3> SUFFICES ASSUME NEW k \in 1..(Len(post) - 1) PROVE r[k+1] = post[Len(post) - k]
      OBVIOUS
    <3>1. k + 1 \in 1..Len(post) /\ Len(post) - (k + 1) + 1 = Len(post) - k
      BY <1>3
    <3> QED
      BY <2>2, <3>1
  <2>7. \A k \in 1..(Len(post) - 1) : (Len(post) - 1) + 1 - k = Len(post) - k
    BY <1>3
  <2> QED
    BY <1>3, <2>2, <2>4, <2>5, <2>6, <2>7
<1>5. /\ Entry \in Block /\ Entry # Nil
      /\ doms' \in [Block -> Block \cup {Nil}]
      /\ doms'[Entry] = Entry
      /\ Placed(doms') = {Entry}
  BY <1>1, EntryIsBlock DEF DomInv, BeginSweep, Placed, Entry, Nil
<1>6. SweptSoFar'
  <2>1. (Len(todo') + 1)..Len(post) = {Len(post)}
    BY <1>3, <1>4
  <2>2. Placed(doms') = {post[k] : k \in (Len(todo') + 1)..Len(post)}
    BY <1>3, <1>5, <2>1
  <2>3. Len(todo') < Len(post)
    BY <1>3, <1>4
  <2>4. SweptSoFar' <=> /\ Len(todo') < Len(post')
                        /\ \A k \in 1..Len(todo') : todo'[k] = post'[Len(todo') + 1 - k]
                        /\ Placed(doms') = {post'[k] : k \in (Len(todo') + 1)..Len(post')}
    BY DEF SweptSoFar, Placed
  <2> QED
    BY <1>1, <1>4, <2>2, <2>3, <2>4
<1>7. Climbs(doms') /\ DomsClimb'
  <2>1. Climbs(doms')
    BY <1>3, <1>5 DEF Climbs
  <2> QED
    BY <1>1, <2>1, StartsLateUnchanged DEF DomsClimb, Climbs, Placed
<1>8. Above(doms', Entry) = {Entry}
  <2>1. \A c \in {Entry} \cap Block : doms'[c] # Nil => doms'[c] \in {Entry}
    BY <1>5
  <2> QED
    BY <1>5, <2>1, AboveLeast, AboveProperties
<1>9. Entry \in Reachable(graph) /\ \A a \in Block : Entry \in Dominated(graph)[a] => a = Entry
  BY <1>2, DominatedIs, WithoutProperties, ReachableProperties
<1>10. SaysAll' /\ SaysOnly' /\ NoneLate'
  <2>1. Entry \in Dominated(graph)[Entry]
    BY <1>2, <1>9, DominatesItself
  <2>2. \A b \in Placed(doms'), a \in Block : b \in Dominated(graph)[a] => a \in Above(doms', b)
    BY <1>5, <1>8, <1>9
  <2>3. \A b \in Placed(doms') : \A a \in Above(doms', b) : b \in Dominated(graph)[a]
    BY <1>5, <1>8, <2>1
  <2>4. SaysAll'
    BY <1>1, <2>2 DEF SaysAll, Placed
  <2>5. SaysOnly'
    BY <1>1, <2>3 DEF SaysOnly, Placed
  <2>6. NoneLate'
    BY <1>5 DEF NoneLate, Placed
  <2> QED
    BY <2>4, <2>5, <2>6
<1>11. DfsDone'
  BY <1>1 DEF DfsDone
<1> QED
  BY <1>1, <1>4, <1>5, <1>6, <1>7, <1>10, <1>11 DEF DomInv, InSweep

(* What the visit of the next block finds.                                 *)
LEMMA VisitFacts ==
  ASSUME DfsInv, DomInv, InSweep, todo # <<>>
  PROVE  /\ DfsTypeOK /\ EntryLast /\ PlacedLater
         /\ Len(todo) \in Nat \ {0} /\ Len(post) \in Nat
         /\ Head(todo) = post[Len(todo)] /\ Head(todo) \in Block \ Placed(doms)
         /\ Head(todo) \in ToSet(post) /\ Head(todo) # Entry
         /\ PostIndex(Head(todo)) = Len(todo)
         /\ \A c \in Block : c \in Placed(doms) <=> PostIndex(c) > Len(todo)
         /\ \A c \in Placed(doms) : c \in ToSet(post)
<1> DEFINE b == Head(todo)
           n == Len(todo)
<1>1. DfsTypeOK /\ EntryLast
  BY DEF DfsInv, ParentsLater, EntryLast, InSweep, DfsDone
<1>2. n \in Nat \ {0} /\ b = todo[1]
  BY EmptySeq, LenProperties DEF DomInv
<1>3. /\ Len(post) \in Nat /\ DOMAIN post = 1..Len(post)
      /\ \A k \in 1..Len(post) : post[k] \in Block /\ PostIndex(post[k]) = k
      /\ \A c : PostIndex(c) # 0 => /\ PostIndex(c) \in 1..Len(post)
                                     /\ post[PostIndex(c)] = c
                                     /\ c \in ToSet(post)
      /\ \A k \in 1..Len(post) : post[k] \in ToSet(post)
  <2>1. \A k \in DOMAIN post : post[k] \in ToSet(post)
    BY DEF ToSet
  <2> QED
    BY <1>1, <2>1, PostIndexIsPlace
<1>4. n < Len(post) /\ todo[1] = post[n] /\ Placed(doms) = {post[k] : k \in (n + 1)..Len(post)}
  <2>1. 1 \in 1..n /\ n + 1 - 1 = n
    BY <1>2
  <2> QED
    BY <2>1 DEF InSweep, SweptSoFar
<1> HIDE DEF b, n
<1>5. PostIndex(b) = n /\ b \in Block /\ b \in ToSet(post) /\ b = post[n]
  BY <1>2, <1>3, <1>4
<1>6. \A c \in Block : c \in Placed(doms) <=> PostIndex(c) > n
  <2> SUFFICES ASSUME NEW c \in Block PROVE c \in Placed(doms) <=> PostIndex(c) > n
    OBVIOUS
  <2>1. c \in Placed(doms) => PostIndex(c) > n
    <3> SUFFICES ASSUME c \in Placed(doms) PROVE PostIndex(c) > n
      OBVIOUS
    <3>1. PICK k \in (n + 1)..Len(post) : c = post[k]
      BY <1>4
    <3> QED
      BY <1>2, <1>3, <3>1
  <2>2. PostIndex(c) > n => c \in Placed(doms)
    BY <1>2, <1>3, <1>4
  <2> QED
    BY <2>1, <2>2
<1>7. b \notin Placed(doms) /\ b # Entry
  <2>1. PostIndex(Entry) = Len(post)
    BY <1>1, EntryHasLastIndex
  <2> QED
    BY <1>2, <1>4, <1>5, <1>6, <2>1
<1>8. PlacedLater
  <2>1. Placed(doms) \subseteq Block
    BY DEF Placed
  <2>2. \A c : PostIndex(c) \in Nat
    BY <1>1, PostIndexRange
  <2> QED
    BY <1>2, <1>6, <2>1, <2>2 DEF PlacedLater
<1>9. \A c \in Placed(doms) : c \in ToSet(post)
  BY <1>2, <1>3, <1>4
<1> QED
  BY <1>1, <1>2, <1>3, <1>5, <1>6, <1>7, <1>8, <1>9 DEF b, n

(* The block is placed below i: doms becomes e.                            *)
LEMMA PlacedStillClimbs ==
  ASSUME DfsTypeOK, DomsClimb, NEW b \in Block \ Placed(doms), b # Entry,
         NEW i \in Placed(doms), PostIndex(b) # 0, PostIndex(b) < PostIndex(i),
         NEW e, e = [doms EXCEPT ![b] = i]
  PROVE  Climbs(e) /\ Placed(e) = Placed(doms) \cup {b}
<1>1. /\ doms \in [Block -> Block \cup {Nil}]
      /\ i \in Block /\ i # Nil /\ b \in Block
      /\ e \in [Block -> Block \cup {Nil}]
      /\ e[b] = i /\ \A c \in Block \ {b} : e[c] = doms[c]
  <2>1. doms \in [Block -> Block \cup {Nil}] /\ i \in Block /\ i # Nil /\ b \in Block
    BY DEF DomsClimb, Climbs, Placed, Block, Nil
  <2> QED
    BY <2>1
<1>2. Placed(e) = Placed(doms) \cup {b}
  BY <1>1 DEF Placed
<1>3. e[Entry] \in {Nil, Entry}
  BY <1>1, EntryIsBlock DEF DomsClimb, Climbs
<1>4. ASSUME NEW c \in Placed(e)
      PROVE  /\ PostIndex(c) # 0 /\ e[c] \in Placed(e)
             /\ c # Entry => PostIndex(c) < PostIndex(e[c])
  <2>1. CASE c = b
    BY <1>1, <1>2, <2>1
  <2>2. CASE c # b
    <3>1. c \in Placed(doms) /\ e[c] = doms[c]
      BY <1>1, <1>2, <2>2 DEF Placed
    <3> QED
      BY <1>2, <3>1 DEF DomsClimb, Climbs
  <2> QED
    BY <2>1, <2>2
<1> QED
  BY <1>1, <1>2, <1>3, <1>4 DEF Climbs

(* A predecessor that comes no later than b is dominated by it, if the     *)
(* graph is reducible.                                                     *)
LEMMA LatePredIsDominated ==
  ASSUME DfsInv, DfsDone, Reducible(graph, Dominated(graph)),
         NEW b \in ToSet(post), NEW p \in ToSet(post), b \in ToSet(graph[p]),
         PostIndex(p) <= PostIndex(b)
  PROVE  p \in Dominated(graph)[b]
<1>1. graph \in CfgGraph /\ b \in Block /\ p \in Block /\ b \in Reachable(graph)
  BY ListedIsReachable, ReachableProperties DEF DfsInv, DfsTypeOK
<1>2. b \in Dominated(graph)[b]
  BY <1>1, DominatesItself
<1> SUFFICES ASSUME p \notin Dominated(graph)[b] PROVE FALSE
  OBVIOUS
<1>3. p # b /\ b \in Forward[p]
  BY <1>1, <1>2, ForwardIsEdges
<1>4. Reaches(Forward, b, p)
  BY <1>3, RetreatingEdge
<1>5. Reaches(Forward, b, b)
  BY <1>1, <1>3, <1>4, ForwardIsEdges, ReachesProperties
<1> QED
  BY <1>1, <1>2, <1>5 DEF Reducible, Forward

LEMMA VisitInv == DfsInv /\ DomInv /\ Visit => DomInv'
<1> SUFFICES ASSUME DfsInv, DomInv, Visit PROVE DomInv'
  OBVIOUS
<1> DEFINE b == Head(todo)
           n == Len(todo)
           i == NewIdom(b)
           e == [doms EXCEPT ![b] = i]
<1>1. /\ InSweep /\ phase = "sweep" /\ todo # <<>>
      /\ DfsDone /\ UNCHANGED graph /\ UNCHANGED stack /\ UNCHANGED post /\ UNCHANGED dfsVars
      /\ i = Throws => phase' = "threw" /\ UNCHANGED <<todo, doms, changed>>
      /\ i # Throws => /\ changed' = (doms[b] = i)
                       /\ doms' = e
                       /\ todo' = Tail(todo)
                       /\ UNCHANGED phase
  BY DEF Visit, DomInv, InSweep, dfsVars, Again
<1>2. /\ DfsTypeOK /\ EntryLast /\ PlacedLater /\ DomsClimb
      /\ n \in Nat \ {0} /\ Len(post) \in Nat
      /\ b = post[n] /\ b \in Block \ Placed(doms)
      /\ b \in ToSet(post) /\ b # Entry
      /\ PostIndex(b) = n
      /\ \A c \in Block : c \in Placed(doms) <=> PostIndex(c) > n
      /\ \A c \in Placed(doms) : c \in ToSet(post)
  BY <1>1, VisitFacts DEF InSweep
<1>3. /\ graph \in CfgGraph
      /\ ToSet(post) = Reachable(graph)
      /\ \A c : PostIndex(c) \in Nat
      /\ ToSet(Preds(graph, b)) = {p \in Block : b \in ToSet(graph[p])}
      /\ b \in Reachable(graph)
      /\ Placed(doms) \subseteq Block
  BY <1>1, <1>2, ListedIsReachable, PostIndexRange, PredsAreSources DEF DfsTypeOK, Placed
<1> HIDE DEF b, n, i, e
<1>4. PICK p \in ToSet(Preds(graph, b)) : p \in Placed(doms) /\ MayStart(p)
  <2>1. PICK p \in ToSet(Preds(graph, b)) : PostIndex(b) < PostIndex(p) /\ MayStart(p)
    BY <1>1, <1>2, HasLaterPred
  <2> QED
    BY <1>2, <1>3, <2>1
<1>5. FirstPred(b) # Nil /\ FirstPred(b) \in Block
  BY <1>2, <1>3, <1>4, FirstPredFound
<1>6. StartsLate(b) <=> FirstPred(b) \notin Placed(doms)
  BY <1>2, <1>3, <1>5 DEF StartsLate
<1>7. CASE FirstPred(b) \notin Placed(doms)
  <2>1. i = Throws
    BY <1>2, <1>4, <1>5, <1>7, NewIdomThrows DEF i
  <2>2. InSweep'
    BY <1>1, <2>1, SweptUnchanged
  <2>3. StartsLate(Head(todo))'
    <3>1. UNCHANGED todo
      BY <1>1, <2>1
    <3>2. FirstPred(b)' = FirstPred(b)
      BY <1>1, <3>1 DEF FirstPred, SelectInSeq, MayStart, b
    <3>3. b' = b
      BY <3>1 DEF b
    <3>4. StartsLate(b)' = StartsLate(b)
      BY <1>1, <3>2, <3>3 DEF StartsLate, PostIndex
    <3> QED
      BY <1>6, <1>7, <3>4 DEF b
  <2> QED
    BY <1>1, <2>1, <2>2, <2>3 DEF DomInv, Placed
<1>8. CASE FirstPred(b) \in Placed(doms)
  <2>1. /\ i \in Placed(doms)
        /\ \A q \in ToSet(Preds(graph, b)) \cap Placed(doms) : i \in Above(doms, q)
        /\ \A a : (\A q \in ToSet(Preds(graph, b)) \cap Placed(doms) : a \in Above(doms, q)) =>
                  a \in Above(doms, i)
    BY <1>2, <1>8, NewIdomMeets DEF i
  <2>2. i \in Block /\ i # Throws /\ i # Nil /\ doms[b] = Nil /\ PostIndex(b) < PostIndex(i) /\ PostIndex(b) # 0
    BY <1>2, <2>1 DEF Placed, Block, Throws, Nil
  <2>3. changed' = FALSE /\ doms' = e /\ todo' = Tail(todo) /\ phase' = "sweep"
    BY <1>1, <2>2
  <2>4. Climbs(e) /\ Placed(e) = Placed(doms) \cup {b}
    BY <1>2, <2>1, <2>2, PlacedStillClimbs DEF e
  <2>5. /\ \A c \in Placed(doms) : Above(e, c) = Above(doms, c)
        /\ Above(e, b) = {b} \cup Above(doms, i)
    <3>1. Climbs(doms) /\ e[b] = i /\ \A c \in Block \ {b} : e[c] = doms[c]
      BY <1>2 DEF DomInv, DomsClimb, e
    <3> QED
      BY <1>2, <2>1, <2>4, <3>1, AboveOfPlaced
  <2>6. todo' \in Seq(Block) /\ Len(todo') = n - 1 /\ \A k \in 1..(n-1) : todo'[k] = todo[k+1]
    BY <1>1, <2>3, HeadTailProperties DEF DomInv, n
  <2>7. SweptSoFar'
    <3>1. n < Len(post) /\ Placed(doms) = {post[k] : k \in (n + 1)..Len(post)}
          /\ \A k \in 1..n : todo[k] = post[n + 1 - k]
      BY <1>1 DEF InSweep, SweptSoFar, n
    <3>2. Len(todo') < Len(post)
      BY <1>2, <2>6, <3>1
    <3>3. \A k \in 1..Len(todo') : todo'[k] = post[Len(todo') + 1 - k]
      <4> SUFFICES ASSUME NEW k \in 1..(n-1) PROVE todo'[k] = post[(n - 1) + 1 - k]
        BY <2>6
      <4>1. k + 1 \in 1..n /\ n + 1 - (k + 1) = (n - 1) + 1 - k
        BY <1>2
      <4> QED
        BY <2>6, <3>1, <4>1
    <3>4. (Len(todo') + 1)..Len(post) = {n} \cup ((n + 1)..Len(post))
      BY <1>2, <2>6, <3>1
    <3>5. Placed(doms') = {post[k] : k \in (Len(todo') + 1)..Len(post)}
      <4>1. Placed(doms') = {post[k] : k \in (n + 1)..Len(post)} \cup {post[n]}
        BY <1>2, <2>3, <2>4, <3>1
      <4>2. {post[k] : k \in {n} \cup ((n + 1)..Len(post))} = {post[k] : k \in (n + 1)..Len(post)} \cup {post[n]}
        OBVIOUS
      <4> QED
        BY <3>4, <4>1, <4>2
    <3>6. SweptSoFar' <=> /\ Len(todo') < Len(post')
                          /\ \A k \in 1..Len(todo') : todo'[k] = post'[Len(todo') + 1 - k]
                          /\ Placed(doms') = {post'[k] : k \in (Len(todo') + 1)..Len(post')}
      BY DEF SweptSoFar, Placed
    <3> QED
      BY <1>1, <3>2, <3>3, <3>5, <3>6
  <2>8. DomsClimb'
    BY <1>1, <2>3, <2>4, StartsLateUnchanged DEF DomsClimb, Climbs, Placed
  <2>9. NoneLate'
    <3>1. \A c \in Placed(doms') \ {Entry} : ~StartsLate(c)
      BY <1>1, <1>6, <1>8, <2>3, <2>4 DEF InSweep, NoneLate
    <3>2. Placed(doms)' = Placed(doms')
      BY DEF Placed
    <3> QED
      BY <1>1, <3>1, <3>2, StartsLateUnchanged DEF NoneLate
  <2>10. SaysAll'
    <3>1. ASSUME NEW c \in Placed(e), NEW a \in Block, c \in Dominated(graph)[a]
          PROVE  a \in Above(e, c)
      <4>1. CASE c \in Placed(doms)
        BY <1>1, <2>5, <3>1, <4>1 DEF InSweep, SaysAll
      <4>2. CASE c = b /\ a # b
        <5>1. ASSUME NEW q \in ToSet(Preds(graph, b)) \cap Placed(doms) PROVE a \in Above(doms, q)
          <6>1. q \in Reachable(graph) /\ b \in ToSet(graph[q])
            BY <1>2, <1>3
          <6>2. q \in Dominated(graph)[a]
            BY <1>3, <3>1, <4>2, <6>1, DominatesPreds
          <6> QED
            BY <1>1, <6>2 DEF InSweep, SaysAll
        <5> QED
          BY <2>1, <2>5, <4>2, <5>1
      <4>3. CASE c = b /\ a = b
        BY <2>5, <4>3
      <4> QED
        BY <2>4, <4>1, <4>2, <4>3
    <3>2. Placed(doms)' = Placed(doms')
      BY DEF Placed
    <3> QED
      BY <1>1, <2>3, <3>1, <3>2 DEF SaysAll
  <2>11. SaysOnly'
    <3>1. ASSUME Reducible(graph, Dominated(graph)), NEW c \in Placed(e), NEW a \in Above(e, c)
          PROVE  c \in Dominated(graph)[a]
      <4>1. CASE c \in Placed(doms)
        BY <1>1, <2>5, <3>1, <4>1 DEF InSweep, SaysOnly
      <4>2. CASE c = b /\ a = b
        BY <1>3, <4>2, DominatesItself
      <4>3. CASE c = b /\ a # b
        <5>1. a \in Above(doms, i) /\ i \in Dominated(graph)[a]
          BY <1>1, <2>1, <2>5, <3>1, <4>3 DEF InSweep, SaysOnly
        <5>2. ASSUME NEW q \in Reachable(graph), b \in ToSet(graph[q])
              PROVE  q \in Dominated(graph)[i] \/ q \in Dominated(graph)[b]
          <6>1. q \in Block /\ q \in ToSet(post) /\ q \in ToSet(Preds(graph, b))
            BY <1>3, <5>2, ReachableProperties
          <6>2. CASE q \in Placed(doms)
            BY <1>1, <2>1, <3>1, <6>1, <6>2 DEF InSweep, SaysOnly
          <6>3. CASE q \notin Placed(doms)
            <7>1. PostIndex(q) <= PostIndex(b)
              BY <1>2, <1>3, <6>1, <6>3
            <7> QED
              BY <1>1, <1>2, <3>1, <5>2, <6>1, <7>1, LatePredIsDominated
          <6> QED
            BY <6>2, <6>3
        <5>3. b # i
          BY <1>2, <2>1
        <5>4. b \in Dominated(graph)[i]
          BY <1>2, <1>3, <2>2, <5>2, <5>3, DominatesAfterPreds
        <5>5. a \in Block
          BY <1>3, <2>2, <5>1, AboveProperties DEF DomInv
        <5> QED
          BY <1>3, <4>3, <5>1, <5>4, <5>5, DominatesTransitively
      <4> QED
        BY <2>4, <4>1, <4>2, <4>3
    <3>2. Placed(doms)' = Placed(doms')
      BY DEF Placed
    <3> QED
      BY <1>1, <2>3, <3>1, <3>2 DEF SaysOnly
  <2>12. InSweep'
    BY <1>1, <2>7, <2>8, <2>9, <2>10, <2>11 DEF InSweep, DfsDone
  <2>13. doms' \in [Block -> Block \cup {Nil}]
    BY <2>3, <2>4 DEF Climbs
  <2> QED
    BY <2>3, <2>6, <2>12, <2>13 DEF DomInv
<1> QED
  BY <1>7, <1>8

(* No sweep is repeated: changed is never set.                             *)
LEMMA EndSweepInv == DfsInv /\ DomInv /\ EndSweep => DomInv'
<1> SUFFICES ASSUME DfsInv, DomInv, EndSweep PROVE DomInv'
  OBVIOUS
<1>1. /\ phase = "sweep" /\ todo = <<>> /\ phase' = "tree"
      /\ UNCHANGED todo /\ UNCHANGED changed /\ UNCHANGED doms /\ UNCHANGED dfsVars
  BY DEF EndSweep, DomInv
<1>2. InSweep'
  BY <1>1, SweptUnchanged DEF DomInv
<1> QED
  BY <1>1, <1>2 DEF DomInv

LEMMA DomUnchangedInv == DomInv /\ UNCHANGED <<dfsVars, domVars>> => DomInv'
<1> SUFFICES ASSUME DomInv, UNCHANGED <<dfsVars, domVars>> PROVE DomInv'
  OBVIOUS
<1>1. /\ UNCHANGED graph /\ UNCHANGED post /\ UNCHANGED dfsVars
      /\ UNCHANGED todo /\ UNCHANGED doms /\ UNCHANGED changed /\ UNCHANGED phase
  BY DEF dfsVars, domVars
<1>2. phase # "search" => InSweep'
  BY <1>1, SweptUnchanged DEF DomInv
<1>3. UNCHANGED (Placed(doms)) /\ UNCHANGED (Head(todo))
  BY <1>1 DEF Placed
<1>4. phase = "threw" => StartsLate(Head(todo))'
  <2> DEFINE b == Head(todo)
  <2>1. b' = b
    BY <1>3
  <2>2. FirstPred(b)' = FirstPred(b)
    BY <1>1, <2>1 DEF FirstPred, SelectInSeq, MayStart
  <2> HIDE DEF b
  <2>3. StartsLate(b)' = StartsLate(b)
    BY <1>1, <2>1, <2>2 DEF StartsLate, PostIndex
  <2> QED
    BY <2>3 DEF DomInv, b
<1> QED
  BY <1>1, <1>2, <1>3, <1>4 DEF DomInv

LEMMA DomInvariant == Spec => [](DfsInv /\ DomInv)
<1>1. Init => DomInv
  BY DEF Init, DomInit, DomInv, Placed
<1>2. DfsInv /\ DomInv /\ [Next]_vars => DomInv'
  <2> SUFFICES ASSUME DfsInv, DomInv, [Next]_vars PROVE DomInv'
    OBVIOUS
  <2>1. CASE phase = "search" /\ DfsNext /\ UNCHANGED domVars
    BY <2>1 DEF DomInv, domVars, Placed
  <2>2. CASE BeginSweep
    BY <2>2, BeginSweepInv
  <2>3. CASE Visit
    BY <2>3, VisitInv
  <2>4. CASE EndSweep
    BY <2>4, EndSweepInv
  <2>5. CASE \E b \in InTree : AddFrontier(b)
    BY <2>5, DomUnchangedInv DEF AddFrontier
  <2>6. CASE UNCHANGED vars
    BY <2>6, DomUnchangedInv DEF vars
  <2> QED
    BY <2>1, <2>2, <2>3, <2>4, <2>5, <2>6 DEF Next, DomNext
<1> QED
  BY <1>1, <1>2, DfsInvariant, PTL DEF Spec

-----------------------------------------------------------------------------
(* In the end every reachable block is placed.                             *)
LEMMA TreeHasReachable ==
  ASSUME DfsInv, DomInv, TreeBuilt
  PROVE  /\ InSweep
         /\ Placed(doms) = ToSet(post)
         /\ Placed(doms) = Reachable(graph)
<1>1. InSweep /\ todo = <<>> /\ DfsTypeOK
  BY DEF TreeBuilt, DomInv, DfsInv
<1>2. Len(todo) = 0 /\ DOMAIN post = 1..Len(post)
  BY <1>1, PostIndexIsPlace
<1>3. Placed(doms) = {post[k] : k \in 1..Len(post)}
  BY <1>1, <1>2 DEF InSweep, SweptSoFar
<1>4. Placed(doms) = ToSet(post)
  BY <1>2, <1>3 DEF ToSet
<1> QED
  BY <1>1, <1>4, ListedIsReachable DEF InSweep

(* The computation throws exactly if the predecessor it starts from at     *)
(* some reachable block comes later in reverse post order or is            *)
(* unreachable: DominanceComputer.hh's map lookups fail nowhere else, on   *)
(* any graph of any size.                                                  *)
THEOREM ThrowsOnlyOnLateStart == Spec => []ThrowsOnLateStart
<1>1. DfsInv /\ DomInv => ThrowsOnLateStart
  <2> SUFFICES ASSUME DfsInv, DomInv PROVE ThrowsOnLateStart
    OBVIOUS
  <2>1. TreeBuilt => \A b \in ToSet(post) \ {Entry} : ~StartsLate(b)
    BY TreeHasReachable DEF InSweep, NoneLate
  <2>2. ASSUME phase = "threw" PROVE \E b \in ToSet(post) \ {Entry} : StartsLate(b)
    <3>1. InSweep /\ todo # <<>> /\ StartsLate(Head(todo))
      BY <2>2 DEF DomInv
    <3>2. Head(todo) \in ToSet(post) /\ Head(todo) # Entry
      BY <3>1, VisitFacts
    <3> QED
      BY <3>1, <3>2
  <2> QED
    BY <2>1, <2>2 DEF ThrowsOnLateStart
<1> QED
  BY <1>1, DomInvariant, PTL

(* What DominatorTree::dominates climbs is what is above.                  *)
LEMMA ClimbedIsAbove ==
  ASSUME Climbs(doms), NEW b \in Placed(doms)
  PROVE  Climbed(b) = Above(doms, b)
<1> DEFINE E == ClimbEdges(doms)
           IsUp(f) == f = [k \in 0..N |->
             IF k = 0 THEN {b}
             ELSE LET U == f[k-1] IN U \cup ({TreeIdom(c) : c \in U} \ {Nil})]
           up == CHOOSE f : IsUp(f)
<1>1. /\ doms \in [Block -> Block \cup {Nil}] /\ b \in Block
      /\ E \in [Block -> SUBSET Block] /\ {b} \in SUBSET Block
      /\ \A c \in Block : E[c] = {doms[c]} \ {Nil}
      /\ doms[Entry] \in {Nil, Entry}
  BY DEF Climbs, Placed, ClimbEdges
<1> HIDE DEF E
<1>2. PICK reach : IsSearch(reach, E, {b}, {}) /\ ReachableAvoiding(E, {b}, {}) = reach[N]
  BY <1>1, SearchExists
<1>3. ASSUME NEW U \in SUBSET Block
      PROVE  U \cup ({TreeIdom(c) : c \in U} \ {Nil}) = Round(E, {}, U)
  <2>1. \A c \in U : U \cup ({TreeIdom(c)} \ {Nil}) = U \cup E[c]
    BY <1>1 DEF TreeIdom
  <2> QED
    BY <2>1 DEF Round
<1>4. \A k \in 1..N : k - 1 \in 0..N /\ reach[k-1] \in SUBSET Block /\ reach[k] = Round(E, {}, reach[k-1])
  BY <1>2, NAssumption DEF IsSearch
<1>5. reach[0] = {b} /\ reach \in [0..N -> SUBSET Block]
  BY <1>2 DEF IsSearch
<1>6. IsUp(reach)
  <2>1. \A k \in 0..N : k # 0 => reach[k] = reach[k-1] \cup ({TreeIdom(c) : c \in reach[k-1]} \ {Nil})
    <3> SUFFICES ASSUME NEW k \in 0..N, k # 0
                 PROVE  reach[k] = reach[k-1] \cup ({TreeIdom(c) : c \in reach[k-1]} \ {Nil})
      OBVIOUS
    <3>1. k \in 1..N
      BY NAssumption
    <3> QED
      BY <1>3, <1>4, <3>1
  <2> QED
    BY <1>5, <2>1
<1>7. IsUp(up)
  <2> HIDE DEF IsUp
  <2> QED
    BY <1>6
<1>8. Climbed(b) = up[N]
  BY DEF Climbed
<1> HIDE DEF up
<1>9. /\ up[0] = {b}
      /\ \A k \in 1..N : up[k] = up[k-1] \cup ({TreeIdom(c) : c \in up[k-1]} \ {Nil})
  BY <1>7, NAssumption
<1> HIDE DEF IsUp
<1> DEFINE G == {k \in 0..N : up[k] = reach[k]}
<1>10. 0 \in G
  <2>1. up[0] = reach[0]
    BY <1>5, <1>9
  <2>2. 0 \in 0..N
    BY NAssumption
  <2> QED
    BY <2>1, <2>2
<1>11. ASSUME NEW k \in 0..(N-1), k \in G PROVE k + 1 \in G
  <2>1. k + 1 \in 1..N /\ (k + 1) - 1 = k /\ k + 1 \in 0..N /\ up[k] = reach[k]
    BY <1>11, NAssumption
  <2>2. up[k+1] = reach[k] \cup ({TreeIdom(c) : c \in reach[k]} \ {Nil})
    BY <1>9, <2>1
  <2>3. reach[k+1] = Round(E, {}, reach[k]) /\ reach[k] \in SUBSET Block
    BY <1>4, <2>1
  <2>4. up[k+1] = reach[k+1]
    BY <1>3, <2>2, <2>3
  <2> QED
    BY <2>1, <2>4
<1>12. 0..N \subseteq G
  <2> HIDE DEF G
  <2> QED
    BY <1>10, <1>11, NAssumption, IntervalInduction
<1> QED
  BY <1>2, <1>8, <1>12, NAssumption DEF Above, E

(* On any graph that is analysed at all, ControlFlowAnalysis::dominates    *)
(* says every dominance there is, and on a reducible graph no other: one   *)
(* sweep has found the immediate dominators, whatever the number of blocks.*)
THEOREM DominatesIsCorrect == Spec => []DominatesCorrect
<1>1. DfsInv /\ DomInv => DominatesCorrect
  <2> SUFFICES ASSUME DfsInv, DomInv, TreeBuilt PROVE DominatesCorrect
    BY DEF DominatesCorrect
  <2> DEFINE D == Dominated(graph)
             Said(b) == {a \in Block : dominates(<<a, 1>>, <<b, 2>>)}
             Dominators(b) == {a \in Block : b \in D[a]}
  <2>1. /\ InSweep /\ Climbs(doms) /\ Placed(doms) = ToSet(post)
        /\ doms \in [Block -> Block \cup {Nil}]
    BY TreeHasReachable DEF InSweep, DomsClimb, Climbs
  <2>2. ASSUME NEW b \in ToSet(post)
        PROVE  /\ b \in Block
               /\ Said(b) = Above(doms, b)
               /\ ~dominates(<<b, 2>>, <<b, 1>>)
    <3>1. b \in Block
      BY <2>1 DEF Placed
    <3>2. Climbed(b) = Above(doms, b)
      BY <2>1, ClimbedIsAbove
    <3>3. Above(doms, b) \subseteq Block /\ b \in Above(doms, b)
      BY <2>1, <3>1, AboveProperties
    <3>4. \A a \in Block : dominates(<<a, 1>>, <<b, 2>>) <=> a \in Above(doms, b)
      BY <3>2, <3>3 DEF dominates, tree_dominates
    <3>5. ~dominates(<<b, 2>>, <<b, 1>>)
      BY DEF dominates
    <3> QED
      BY <3>1, <3>3, <3>4, <3>5
  <2>3. \A b \in ToSet(post) : Dominators(b) \subseteq Above(doms, b)
    BY <2>1 DEF InSweep, SaysAll
  <2>4. Reducible(graph, D) => \A b \in ToSet(post) : Above(doms, b) \subseteq Dominators(b)
    <3>1. \A b \in ToSet(post) : Above(doms, b) \subseteq Block
      BY <2>1, <2>2, AboveProperties
    <3> QED
      BY <2>1, <3>1 DEF InSweep, SaysOnly
  <2>5. /\ \A b \in ToSet(post) : Dominators(b) \subseteq Said(b) /\ ~dominates(<<b, 2>>, <<b, 1>>)
        /\ Reducible(graph, D) => [b \in ToSet(post) |-> Said(b)] = [b \in ToSet(post) |-> Dominators(b)]
    <3> HIDE DEF D, Said, Dominators
    <3>1. Reducible(graph, D) => \A b \in ToSet(post) : Said(b) = Dominators(b)
      BY <2>2, <2>3, <2>4
    <3> QED
      BY <2>2, <2>3, <3>1
  <2>6. DominatesCorrect <=>
          /\ \A b \in ToSet(post) : [c \in ToSet(post) |-> Dominators(c)][b] \subseteq [c \in ToSet(post) |-> Said(c)][b]
                                    /\ ~dominates(<<b, 2>>, <<b, 1>>)
          /\ Reducible(graph, D) => [b \in ToSet(post) |-> Said(b)] = [b \in ToSet(post) |-> Dominators(b)]
    BY Zenon DEF DominatesCorrect
  <2> HIDE DEF D, Said, Dominators
  <2> QED
    BY <2>5, <2>6
<1> QED
  BY <1>1, DomInvariant, PTL

-----------------------------------------------------------------------------
(* On a reducible graph the frontier of a block is its successors outside  *)
(* its subtree and the frontiers of its children, less what it dominates   *)
(* itself.                                                                 *)
SDom(a, s) == StrictlyDominates(Dominated(graph), a, s)
Frontier(b) == DominanceFrontier(graph, Dominated(graph), b)

LEMMA FrontierIs ==
  ASSUME NEW b
  PROVE  \A s : s \in Frontier(b) <=> /\ \E p \in Dominated(graph)[b] : s \in ToSet(graph[p])
                                     /\ ~SDom(b, s)
BY DEF Frontier, DominanceFrontier, SDom

(* What the tree says, in terms of what is above.                          *)
LEMMA TreeFacts ==
  ASSUME DfsInv, DomInv, TreeBuilt, Reducible(graph, Dominated(graph))
  PROVE  /\ Climbs(doms)
         /\ Placed(doms) \subseteq Block
         /\ \A a \in Block : Dominated(graph)[a] = {s \in Placed(doms) : a \in Above(doms, s)}
         /\ \A p \in Placed(doms) : ToSet(graph[p]) \subseteq Placed(doms)
         /\ \A p \in Placed(doms), s \in Placed(doms), a \in Block :
              s \in ToSet(graph[p]) /\ a # s /\ a \in Above(doms, s) => a \in Above(doms, p)
         /\ \A s \in Placed(doms) : s \in Above(doms, s) /\ Above(doms, s) \subseteq Placed(doms)
         /\ \A a, s \in Placed(doms) : a \in Above(doms, s) /\ s \in Above(doms, a) => a = s
         /\ \A s \in Placed(doms) : \A a \in Above(doms, s) : a # s =>
              s # Entry /\ doms[s] \in Placed(doms) /\ a \in Above(doms, doms[s])
         /\ \A s \in Placed(doms) : s # Entry =>
              doms[s] \in Placed(doms) /\ doms[s] # s /\ doms[s] \in Above(doms, s)
<1>1. /\ InSweep /\ Climbs(doms) /\ Placed(doms) = Reachable(graph)
      /\ graph \in CfgGraph /\ DfsTypeOK /\ EntryLast
      /\ doms \in [Block -> Block \cup {Nil}]
  BY TreeHasReachable DEF InSweep, DomsClimb, Climbs, DfsInv, DfsTypeOK, ParentsLater, EntryLast, DfsDone
<1>2. Placed(doms) \subseteq Block
  BY DEF Placed
<1>3. \A s \in Placed(doms) : /\ s \in Above(doms, s) /\ Above(doms, s) \subseteq Placed(doms)
                              /\ doms[s] \in Placed(doms)
                              /\ Above(doms, s) = {s} \cup Above(doms, doms[s])
                              /\ s # Entry => PostIndex(s) < PostIndex(doms[s])
  <2>1. \A s \in Placed(doms) : doms[s] \in Placed(doms) /\ (s # Entry => PostIndex(s) < PostIndex(doms[s]))
    BY <1>1 DEF Climbs
  <2> QED
    BY <1>1, <2>1, AboveSteps
<1>4. \A a \in Block : Dominated(graph)[a] = {s \in Placed(doms) : a \in Above(doms, s)}
  <2>1. \A a \in Block : Dominated(graph)[a] \subseteq Placed(doms)
    BY <1>1, DominatedIs
  <2> QED
    BY <1>1, <2>1 DEF InSweep, SaysAll, SaysOnly
<1>5. \A p \in Placed(doms) : ToSet(graph[p]) \subseteq Placed(doms)
  BY <1>1, ReachableProperties
<1>6. \A p \in Placed(doms), s \in Placed(doms), a \in Block :
        s \in ToSet(graph[p]) /\ a # s /\ a \in Above(doms, s) => a \in Above(doms, p)
  <2> SUFFICES ASSUME NEW p \in Placed(doms), NEW s \in Placed(doms), NEW a \in Block,
                      s \in ToSet(graph[p]), a # s, a \in Above(doms, s)
               PROVE  a \in Above(doms, p)
    OBVIOUS
  <2>1. s \in Dominated(graph)[a]
    BY <1>4
  <2>2. p \in Dominated(graph)[a]
    BY <1>1, <2>1, DominatesPreds
  <2> QED
    BY <1>4, <2>2
<1>7. \A c : PostIndex(c) \in Nat
  BY <1>1, PostIndexRange
<1>8. \A s \in Placed(doms) : \A a \in Above(doms, s) : a = s \/ PostIndex(s) < PostIndex(a)
  BY <1>1, AboveIsLater
<1>9. \A a, s \in Placed(doms) : a \in Above(doms, s) /\ s \in Above(doms, a) => a = s
  BY <1>7, <1>8
<1>10. \A a \in Above(doms, Entry) : Entry \in Placed(doms) => a = Entry
  <2>1. \A c : PostIndex(c) # 0 => PostIndex(c) <= PostIndex(Entry)
    BY <1>1, <1>7, EntryHasLastIndex
  <2>2. Entry \in Placed(doms) => PostIndex(Entry) # 0
    BY <1>1 DEF Climbs
  <2> QED
    BY <1>7, <1>8, <2>1, <2>2
<1>11. \A s \in Placed(doms) : s # Entry => doms[s] # s /\ doms[s] \in Above(doms, s)
  BY <1>3, <1>7
<1> QED
  BY <1>1, <1>2, <1>3, <1>4, <1>5, <1>6, <1>9, <1>10, <1>11

LEMMA FrontierOfChildren ==
  ASSUME DfsInv, DomInv, TreeBuilt, Reducible(graph, Dominated(graph)), NEW b \in InTree,
         \A c \in TreeSuccs(b) : frontiers[c] = Frontier(c)
  PROVE  LocalFrontier(b) \cup PassedUp(b) = Frontier(b)
<1> DEFINE P == Placed(doms)
           Up1(s) == Above(doms, s)
<1>1. /\ Climbs(doms) /\ P \subseteq Block /\ b \in P
      /\ \A a \in Block : Dominated(graph)[a] = {s \in P : a \in Up1(s)}
      /\ \A p \in P : ToSet(graph[p]) \subseteq P
      /\ \A p \in P, s \in P, a \in Block :
           s \in ToSet(graph[p]) /\ a # s /\ a \in Up1(s) => a \in Up1(p)
      /\ \A s \in P : s \in Up1(s) /\ Up1(s) \subseteq P
      /\ \A a, s \in P : a \in Up1(s) /\ s \in Up1(a) => a = s
      /\ \A s \in P : \A a \in Up1(s) : a # s => s # Entry /\ doms[s] \in P /\ a \in Up1(doms[s])
      /\ \A s \in P : s # Entry => doms[s] \in P /\ doms[s] # s /\ doms[s] \in Up1(s)
  BY TreeFacts DEF InTree, Placed
<1>2. \A s \in P, a \in Block : SDom(a, s) <=> a # s /\ a \in Up1(s)
  BY <1>1 DEF SDom, StrictlyDominates
<1>3. \A c \in TreeSuccs(b) : c \in P /\ c # b /\ c # Entry /\ doms[c] = b /\ b \in Up1(c)
  <2> SUFFICES ASSUME NEW c \in TreeSuccs(b)
               PROVE  c \in P /\ c # b /\ c # Entry /\ doms[c] = b /\ b \in Up1(c)
    OBVIOUS
  <2>1. c \in Block /\ doms[c] = b /\ c # b /\ b # Nil
    BY <1>1 DEF TreeSuccs, Block, Nil
  <2>2. c \in P /\ c # Entry
    BY <1>1, <2>1 DEF Climbs, Placed
  <2> QED
    BY <1>1, <2>1, <2>2
<1>4. \A s \in P : s # Entry => TreeIdom(s) = doms[s]
  BY DEF TreeIdom
<1>5. \A s \in P : \A a \in Up1(s) : \A x \in Up1(a) : x \in Up1(s)
  BY <1>1, AboveTransitive
<1>6. \A p \in P : \A a, x \in Up1(p) : a \in Up1(x) \/ x \in Up1(a)
  BY <1>1, AboveIsChain
<1>7. \A p \in P : b \in Up1(p) /\ b # p => \E c \in Up1(p) : c # b /\ doms[c] = b
  BY <1>1, AboveHasChild
<1>8. /\ LocalFrontier(b) = {s \in ToSet(graph[b]) : TreeIdom(s) # b}
      /\ PassedUp(b) = {s \in UNION {Frontier(c) : c \in TreeSuccs(b)} : TreeIdom(s) # b}
  BY DEF LocalFrontier, PassedUp, Succs
<1>9. \A c \in P : \A s : s \in Frontier(c) <=>
        (\E p \in P : c \in Up1(p) /\ s \in ToSet(graph[p])) /\ ~SDom(c, s)
  BY <1>1, FrontierIs
<1> HIDE DEF P, Up1
<1>10. ASSUME NEW s \in ToSet(graph[b]), TreeIdom(s) # b PROVE s \in Frontier(b)
  <2>1. s \in P
    BY <1>1
  <2> SUFFICES ASSUME SDom(b, s) PROVE FALSE
    BY <1>1, <1>9
  <2>2. b # s /\ b \in Up1(s) /\ s # Entry /\ doms[s] \in P /\ b \in Up1(doms[s])
    BY <1>1, <1>2, <2>1
  <2>3. doms[s] \in Up1(b)
    BY <1>1, <2>1, <2>2
  <2> QED
    BY <1>1, <1>4, <1>10, <2>1, <2>2, <2>3
<1>11. ASSUME NEW c \in TreeSuccs(b), NEW s \in Frontier(c), TreeIdom(s) # b PROVE s \in Frontier(b)
  <2>1. c \in P /\ c # b /\ doms[c] = b /\ b \in Up1(c)
    BY <1>3
  <2>2. PICK p \in P : c \in Up1(p) /\ s \in ToSet(graph[p])
    BY <1>9, <2>1
  <2>3. s \in P /\ ~SDom(c, s) /\ b \in Up1(p)
    BY <1>1, <1>5, <1>9, <2>1, <2>2
  <2> SUFFICES ASSUME SDom(b, s) PROVE FALSE
    BY <1>1, <1>9, <2>2, <2>3
  <2>4. b # s /\ b \in Up1(s) /\ s # Entry /\ doms[s] \in P /\ b \in Up1(doms[s])
    BY <1>1, <1>2, <2>3
  <2>5. doms[s] # b /\ doms[s] # s /\ doms[s] \in Up1(s) /\ doms[s] \in Up1(p)
    BY <1>1, <1>4, <1>11, <2>2, <2>3, <2>4
  <2>6. CASE c \in Up1(doms[s])
    <3>1. c \in Up1(s)
      BY <1>5, <2>3, <2>5, <2>6
    <3>2. c # s
      BY <1>1, <2>3, <2>4, <2>5, <2>6
    <3> QED
      BY <1>1, <1>2, <2>1, <2>3, <3>1, <3>2
  <2>7. CASE doms[s] \in Up1(c) /\ c \notin Up1(doms[s])
    <3>1. doms[s] # c
      BY <1>1, <2>4, <2>7
    <3>2. doms[s] \in Up1(b)
      BY <1>1, <2>1, <2>7, <3>1
    <3> QED
      BY <1>1, <2>4, <2>5, <3>2
  <2> QED
    BY <1>6, <2>2, <2>5, <2>6, <2>7
<1>12. ASSUME NEW s \in Frontier(b) PROVE s \in LocalFrontier(b) \cup PassedUp(b)
  <2>1. PICK p \in P : b \in Up1(p) /\ s \in ToSet(graph[p])
    BY <1>1, <1>9
  <2>2. s \in P /\ ~SDom(b, s)
    BY <1>1, <1>9, <2>1
  <2>3. TreeIdom(s) # b
    <3>1. CASE s = Entry
      BY <1>1, <3>1 DEF TreeIdom, Block, Nil
    <3>2. CASE s # Entry
      BY <1>1, <1>2, <1>4, <2>2, <3>2
    <3> QED
      BY <3>1, <3>2
  <2>4. CASE p = b
    BY <1>8, <2>1, <2>3, <2>4
  <2>5. CASE p # b
    <3>1. PICK c \in Up1(p) : c # b /\ doms[c] = b
      BY <1>7, <2>1, <2>5
    <3>2. c \in P /\ c \in Block /\ c \in TreeSuccs(b)
      BY <1>1, <2>1, <3>1 DEF TreeSuccs
    <3>3. ~SDom(c, s)
      <4> SUFFICES ASSUME c # s, c \in Up1(s) PROVE FALSE
        BY <1>2, <2>2, <3>2
      <4>1. b \in Up1(c) /\ b \in Up1(s)
        BY <1>3, <1>5, <2>2, <3>2
      <4>2. b # s
        BY <1>1, <3>1, <3>2, <4>1
      <4> QED
        BY <1>1, <1>2, <2>2, <4>1, <4>2
    <3>4. s \in Frontier(c)
      BY <1>9, <2>1, <3>1, <3>2, <3>3
    <3> QED
      BY <1>8, <2>3, <3>2, <3>4
  <2> QED
    BY <2>4, <2>5
<1> QED
  BY <1>8, <1>10, <1>11, <1>12

-----------------------------------------------------------------------------
(* The walk of the tree: a block that is passed has its frontier.          *)
FrontierInv ==
  /\ frontiers \in [Block -> SUBSET Block]
  /\ walked \subseteq InTree
  /\ walked # {} => TreeBuilt
  /\ Reducible(graph, Dominated(graph)) => \A b \in walked : frontiers[b] = Frontier(b)

LEMMA AddFrontierInv ==
  ASSUME DfsInv, DomInv, FrontierInv, NEW b \in InTree, AddFrontier(b)
  PROVE  FrontierInv'
<1>1. /\ TreeBuilt /\ b \in Block /\ TreeSuccs(b) \subseteq walked
      /\ frontiers' = [frontiers EXCEPT ![b] = LocalFrontier(b) \cup PassedUp(b)]
      /\ walked' = walked \cup {b}
      /\ UNCHANGED graph /\ UNCHANGED doms /\ UNCHANGED phase
  BY DEF AddFrontier, InTree, dfsVars, domVars
<1>2. LocalFrontier(b) \cup PassedUp(b) \in SUBSET Block
  <2>1. LocalFrontier(b) \subseteq Block
    BY <1>1, DestinationsAreBlocks DEF LocalFrontier, Succs, DfsInv, DfsTypeOK
  <2>2. \A c \in TreeSuccs(b) : frontiers[c] \subseteq Block
    BY DEF FrontierInv, TreeSuccs
  <2>3. PassedUp(b) \subseteq Block
    BY <2>2 DEF PassedUp
  <2> QED
    BY <2>1, <2>3
<1>3. frontiers' \in [Block -> SUBSET Block]
  BY <1>1, <1>2 DEF FrontierInv
<1>4. walked' \subseteq InTree' /\ TreeBuilt'
  BY <1>1 DEF FrontierInv, InTree, TreeBuilt
<1>5. ASSUME Reducible(graph, Dominated(graph)), NEW c \in walked' PROVE frontiers'[c] = Frontier(c)
  <2>1. CASE c = b
    <3>1. \A d \in TreeSuccs(b) : frontiers[d] = Frontier(d)
      BY <1>1, <1>5 DEF FrontierInv
    <3>2. LocalFrontier(b) \cup PassedUp(b) = Frontier(b)
      BY <1>1, <1>5, <3>1, FrontierOfChildren
    <3>3. frontiers'[b] = LocalFrontier(b) \cup PassedUp(b)
      BY <1>1 DEF FrontierInv
    <3> QED
      BY <2>1, <3>2, <3>3
  <2>2. CASE c # b
    BY <1>1, <1>5, <2>2 DEF FrontierInv, InTree
  <2> QED
    BY <2>1, <2>2
<1>6. \A c : Frontier(c)' = Frontier(c)
  BY <1>1 DEF Frontier
<1>7. Reducible(graph, Dominated(graph))' <=> Reducible(graph, Dominated(graph))
  BY <1>1
<1>8. (Reducible(graph, Dominated(graph)) => \A c \in walked : frontiers[c] = Frontier(c))'
  BY <1>5, <1>6, <1>7
<1> QED
  BY <1>3, <1>4, <1>8 DEF FrontierInv

LEMMA FrontierInvariant == Spec => [](DfsInv /\ DomInv /\ FrontierInv)
<1>1. Init => FrontierInv
  BY DEF Init, FrontierInv, InTree
<1>2. DfsInv /\ DomInv /\ FrontierInv /\ [Next]_vars => FrontierInv'
  <2> SUFFICES ASSUME DfsInv, DomInv, FrontierInv, [Next]_vars PROVE FrontierInv'
    OBVIOUS
  <2>1. CASE DomNext /\ UNCHANGED <<frontiers, walked>>
    <3>1. ~TreeBuilt /\ walked = {}
      BY <2>1 DEF DomNext, BeginSweep, Visit, EndSweep, TreeBuilt, FrontierInv
    <3> QED
      BY <2>1, <3>1 DEF FrontierInv
  <2>2. CASE \E b \in InTree : AddFrontier(b)
    BY <2>2, AddFrontierInv
  <2>3. CASE UNCHANGED vars
    <3>1. UNCHANGED frontiers /\ UNCHANGED walked /\ UNCHANGED graph /\ UNCHANGED doms /\ UNCHANGED phase
      BY <2>3 DEF vars, dfsVars, domVars
    <3>2. \A c : Frontier(c)' = Frontier(c)
      BY <3>1 DEF Frontier
    <3> QED
      BY <3>1, <3>2 DEF FrontierInv, InTree, TreeBuilt
  <2> QED
    BY <2>1, <2>2, <2>3 DEF Next
<1> QED
  BY <1>1, <1>2, DomInvariant, PTL DEF Spec

(* The variables keep their types: no value of doms is anything but a      *)
(* block and no sweep goes beyond the post order.                          *)
THEOREM TypeCorrect == Spec => []TypeOK
<1>1. DfsInv /\ DomInv /\ FrontierInv => TypeOK
  BY DEF DfsInv, DomInv, FrontierInv, TypeOK, DomTypeOK
<1> QED
  BY <1>1, FrontierInvariant, PTL

(* The frontiers computed from the leaves of the tree up are the dominance *)
(* frontiers of the textbook, on every reducible graph and in whatever     *)
(* order the children of a block are walked.                               *)
THEOREM FrontiersAreCorrect == Spec => []FrontiersCorrect
<1>1. DfsInv /\ DomInv /\ FrontierInv => FrontiersCorrect
  <2> SUFFICES ASSUME DfsInv, DomInv, FrontierInv, Analysed,
                      Reducible(graph, Dominated(graph)),
                      NEW b \in Block, b \in Dominated(graph)[b]
               PROVE  frontiers[b] = Frontier(b)
    BY DEF FrontiersCorrect, Frontier
  <2>1. Placed(doms) = Reachable(graph) /\ walked = InTree
    BY TreeHasReachable DEF Analysed
  <2>2. b \in Reachable(graph)
    BY DominatedIs
  <2>3. b \in walked
    BY <2>1, <2>2 DEF Placed, InTree
  <2> QED
    BY <2>3 DEF FrontierInv
<1> QED
  BY <1>1, FrontierInvariant, PTL
=============================================================================
