------------------------ MODULE AllocPromoterProofs ------------------------
(***************************************************************************)
(* What the walk of the dominator tree leaves behind, for any number of    *)
(* blocks and accesses.  While it runs, a block is done or lies below one  *)
(* that is still queued; the stack is not empty when a definition dominates*)
(* a queued block, and where no definition leaks from a sibling its top is *)
(* the nearest of those.                                                   *)
(***************************************************************************)
EXTENDS AllocPromoter, Integers, FiniteSetTheorems, SequencesExt, SequenceTheorems,
        WellFoundedInduction, TLAPS

(* Induction over an interval of numbers and the existence of functions    *)
(* that are defined by recursion, stated with sets and functions instead   *)
(* of operators, and facts about sequences.                                *)

(* A set of natural numbers has a least element.                           *)
LEMMA LeastElement ==
  ASSUME NEW T, T \subseteq Nat, T # {}
  PROVE  \E m \in T : \A k \in T : m <= k
<1> DEFINE R == OpToRel(<, Nat)
<1>1. IsWellFoundedOn(R, Nat)
  BY NatLessThanWellFounded
<1>2. PICK m \in T : \A k \in T : ~(<<k, m>> \in R)
  <2> HIDE DEF R
  <2> QED
    BY <1>1, WFMin
<1>3. ASSUME NEW k \in T PROVE m <= k
  <2>1. k \in Nat /\ m \in Nat
    OBVIOUS
  <2>2. ~(<<k, m>> \in R)
    BY <1>2
  <2>3. k < m => <<k, m>> \in R
    BY <2>1, Zenon DEF OpToRel
  <2> HIDE DEF R
  <2> QED
    BY <2>1, <2>2, <2>3
<1> QED
  BY <1>3

(* Induction up to n, for the set G of the numbers a fact is good for.     *)
LEMMA IntervalInduction ==
  ASSUME NEW n \in Nat, NEW G, 0 \in G,
         \A k \in 0..(n-1) : k \in G => k + 1 \in G
  PROVE  0..n \subseteq G
<1> SUFFICES ASSUME (0..n) \ G # {} PROVE FALSE
  OBVIOUS
<1>1. PICK m \in (0..n) \ G : \A k \in (0..n) \ G : m <= k
  <2>1. (0..n) \ G \subseteq Nat
    OBVIOUS
  <2> QED
    BY <2>1, LeastElement
<1>2. m # 0 /\ m - 1 \in 0..(n-1) /\ (m - 1) + 1 = m
  BY <1>1
<1>3. m - 1 \in G
  BY <1>1, <1>2
<1> QED
  BY <1>1, <1>2, <1>3

(* A function that gives each number but the first from the one before.    *)
IsIteration(f, n, T, base, step) ==
  /\ f \in [0..n -> T]
  /\ f[0] = base
  /\ \A k \in 1..n : f[k] = step[<<k, f[k-1]>>]

LEMMA IterationExists ==
  ASSUME NEW n \in Nat, NEW T, NEW base \in T,
         NEW step, \A k \in 1..n, x \in T : step[<<k, x>>] \in T
  PROVE  \E f : IsIteration(f, n, T, base, step)
<1> DEFINE G == {m \in 0..n : \E f : IsIteration(f, m, T, base, step)}
<1>1. 0 \in G
  <2>1. IsIteration([k \in 0..0 |-> base], 0, T, base, step)
    BY DEF IsIteration
  <2> QED
    BY <2>1
<1>2. ASSUME NEW m \in 0..(n-1), m \in G PROVE m + 1 \in G
  <2>1. PICK f : IsIteration(f, m, T, base, step)
    BY <1>2
  <2> DEFINE g == [k \in 0..(m+1) |-> IF k = m + 1 THEN step[<<m+1, f[m]>>] ELSE f[k]]
  <2>2. g \in [0..(m+1) -> T]
    <3>1. step[<<m+1, f[m]>>] \in T
      BY <2>1 DEF IsIteration
    <3>2. \A k \in 0..(m+1) : k # m + 1 => k \in 0..m
      OBVIOUS
    <3> QED
      BY <2>1, <3>1, <3>2 DEF IsIteration
  <2>3. g[0] = base
    BY <2>1 DEF IsIteration
  <2>4. ASSUME NEW k \in 1..(m+1) PROVE g[k] = step[<<k, g[k-1]>>]
    <3>1. k - 1 \in 0..m /\ g[k-1] = f[k-1]
      OBVIOUS
    <3>2. CASE k = m + 1
      <4>1. k - 1 = m /\ g[k] = step[<<k, f[m]>>]
        BY <3>2
      <4> HIDE DEF g
      <4> QED
        BY <3>1, <4>1
    <3>3. CASE k # m + 1
      <4>1. k \in 1..m /\ g[k] = f[k]
        BY <3>3
      <4> HIDE DEF g
      <4> QED
        BY <2>1, <3>1, <4>1 DEF IsIteration
    <3> QED
      BY <3>2, <3>3
  <2>5. IsIteration(g, m + 1, T, base, step)
    <3> HIDE DEF g
    <3> QED
      BY <2>2, <2>3, <2>4 DEF IsIteration
  <2> QED
    BY <2>5
<1>3. 0..n \subseteq G
  <2> HIDE DEF G
  <2> QED
    BY <1>1, <1>2, IntervalInduction
<1> QED
  BY <1>3

(* A non-empty sequence is its front and its last element.                 *)
LEMMA FrontAndLast ==
  ASSUME NEW S, NEW s \in Seq(S), s # <<>>
  PROVE  /\ Len(s) \in Nat \ {0}
         /\ Front(s) \in Seq(S)
         /\ Len(Front(s)) = Len(s) - 1
         /\ DOMAIN Front(s) = 1..(Len(s) - 1)
         /\ \A k \in 1..(Len(s) - 1) : Front(s)[k] = s[k]
         /\ Last(s) = s[Len(s)]
         /\ Last(s) \in S
         /\ ToSet(s) = ToSet(Front(s)) \cup {Last(s)}
<1>1. Len(s) \in Nat \ {0} /\ DOMAIN s = 1..Len(s)
  BY EmptySeq, LenProperties
<1>2. \A k \in 1..(Len(s) - 1) : s[k] \in S
  BY <1>1, ElementOfSeq
<1>3. /\ Front(s) \in Seq(S)
      /\ Len(Front(s)) = Len(s) - 1
      /\ \A k \in 1..(Len(s) - 1) : Front(s)[k] = s[k]
  BY <1>1, <1>2, SubSeqProperties DEF Front
<1>4. DOMAIN Front(s) = 1..(Len(s) - 1)
  BY <1>3, LenProperties
<1>5. Last(s) \in S /\ Last(s) = s[Len(s)]
  BY <1>1, ElementOfSeq DEF Last
<1>6. ASSUME NEW k \in DOMAIN s PROVE s[k] \in ToSet(Front(s)) \cup {Last(s)}
  <2>1. k = Len(s) \/ k \in 1..(Len(s) - 1)
    BY <1>1
  <2> QED
    BY <2>1, <1>3, <1>4 DEF ToSet, Last
<1>7. ASSUME NEW k \in DOMAIN Front(s) PROVE Front(s)[k] \in ToSet(s)
  <2>1. k \in DOMAIN s /\ Front(s)[k] = s[k]
    BY <1>1, <1>3, <1>4
  <2> QED
    BY <2>1 DEF ToSet
<1>8. Last(s) \in ToSet(s)
  BY <1>1, <1>5 DEF ToSet
<1>9. ToSet(s) = ToSet(Front(s)) \cup {Last(s)}
  BY <1>6, <1>7, <1>8 DEF ToSet
<1> QED
  BY <1>1, <1>3, <1>4, <1>5, <1>9

LEMMA AppendOne ==
  ASSUME NEW S, NEW s \in Seq(S), NEW x \in S
  PROVE  /\ Append(s, x) \in Seq(S)
         /\ Len(s) \in Nat
         /\ Len(Append(s, x)) = Len(s) + 1
         /\ DOMAIN s = 1..Len(s)
         /\ DOMAIN Append(s, x) = 1..(Len(s) + 1)
         /\ \A k \in 1..Len(s) : Append(s, x)[k] = s[k]
         /\ Append(s, x)[Len(s) + 1] = x
         /\ Append(s, x) # <<>>
         /\ Last(Append(s, x)) = x
         /\ ToSet(Append(s, x)) = ToSet(s) \cup {x}
<1>1. /\ Append(s, x) \in Seq(S)
      /\ Append(s, x) # <<>>
      /\ Len(Append(s, x)) = Len(s) + 1
      /\ \A i \in 1..Len(s) : Append(s, x)[i] = s[i]
      /\ Append(s, x)[Len(s) + 1] = x
  BY AppendProperties
<1>2. /\ Len(s) \in Nat /\ DOMAIN s = 1..Len(s)
      /\ DOMAIN Append(s, x) = 1..(Len(s) + 1)
  BY <1>1, LenProperties
<1>3. \A k \in DOMAIN Append(s, x) : k \in DOMAIN s \/ k = Len(s) + 1
  BY <1>2
<1>4. Len(s) + 1 \in DOMAIN Append(s, x) /\ DOMAIN s \subseteq DOMAIN Append(s, x)
  BY <1>2
<1>5. ToSet(Append(s, x)) = ToSet(s) \cup {x}
  BY <1>1, <1>2, <1>3, <1>4 DEF ToSet
<1> QED
  BY <1>1, <1>2, <1>5 DEF Last

-----------------------------------------------------------------------------
(* What ReachableAvoiding computes: the least set that holds the blocks    *)
(* the search starts from and the successors of its blocks.                *)

(* C has the successors of its blocks, but for those to avoid.             *)
ClosedAvoiding(E, C, Avoid) == \A a \in C : E[a] \subseteq C \cup Avoid

(* Destinations are blocks, in a list of at most two.                      *)
LEMMA DestinationsAreBlocks ==
  ASSUME NEW t \in CfgGraph, NEW a \in Block
  PROVE  /\ t[a] \in Seq(Block)
         /\ Len(t[a]) \in 0..2
         /\ DOMAIN t[a] = 1..Len(t[a])
         /\ ToSet(t[a]) \subseteq Block
<1>1. t[a] \in Terminators
  BY DEF CfgGraph
<1>2. CASE t[a] = <<>>
  BY <1>2 DEF ToSet
<1>3. CASE \E b \in Block : t[a] = <<b>>
  BY <1>3 DEF ToSet
<1>4. CASE \E b, c \in Block : t[a] = <<b, c>>
  BY <1>4 DEF ToSet
<1> QED
  BY <1>1, <1>2, <1>3, <1>4 DEF Terminators

(* One more round of the search.                                           *)
Round(E, Avoid, R) == R \cup ((UNION {E[a] : a \in R}) \ Avoid)

IsSearch(reach, E, S, Avoid) ==
  /\ reach \in [0..N -> SUBSET Block]
  /\ reach[0] = S \ Avoid
  /\ \A k \in 1..N : reach[k] = Round(E, Avoid, reach[k-1])

LEMMA RoundOfBlocks ==
  ASSUME NEW E \in [Block -> SUBSET Block], NEW Avoid, NEW R \in SUBSET Block
  PROVE  Round(E, Avoid, R) \in SUBSET Block
BY DEF Round

(* The recursive function exists, so it is what its equation says.         *)
LEMMA SearchExists ==
  ASSUME NEW E \in [Block -> SUBSET Block], NEW S \in SUBSET Block, NEW Avoid
  PROVE  \E reach : /\ IsSearch(reach, E, S, Avoid)
                    /\ ReachableAvoiding(E, S, Avoid) = reach[N]
<1> DEFINE Rounds == SUBSET Block
           step == [x \in (1..N) \X Rounds |-> Round(E, Avoid, x[2])]
           IsReach(f) ==
             f = [k \in 0..N |->
               IF k = 0 THEN S \ Avoid
               ELSE LET R == f[k-1] IN R \cup ((UNION {E[a] : a \in R}) \ Avoid)]
<1>1. \A k \in 1..N, x \in Rounds : step[<<k, x>>] = Round(E, Avoid, x)
  OBVIOUS
<1>2. \A k \in 1..N, x \in Rounds : step[<<k, x>>] \in Rounds
  BY <1>1, RoundOfBlocks
<1>3. PICK f : IsIteration(f, N, Rounds, S \ Avoid, step)
  <2>1. N \in Nat /\ S \ Avoid \in Rounds
    BY NAssumption
  <2> HIDE DEF step, Rounds
  <2> QED
    BY <1>2, <2>1, IterationExists
<1>4. IsReach(f)
  <2>1. ASSUME NEW k \in 0..N, k # 0
        PROVE  f[k] = f[k-1] \cup ((UNION {E[a] : a \in f[k-1]}) \ Avoid)
    <3>1. k \in 1..N /\ k - 1 \in 0..N
      BY <2>1, NAssumption
    <3>2. f[k-1] \in Rounds /\ f[k] = step[<<k, f[k-1]>>]
      BY <1>3, <3>1 DEF IsIteration
    <3> HIDE DEF step
    <3> QED
      BY <1>1, <3>1, <3>2 DEF Round
  <2>2. f[0] = S \ Avoid /\ f \in [0..N -> Rounds]
    BY <1>3 DEF IsIteration
  <2> HIDE DEF step
  <2> QED
    BY <2>1, <2>2
<1> DEFINE reach == CHOOSE g : IsReach(g)
<1>5. IsReach(reach)
  <2> HIDE DEF IsReach
  <2> QED
    BY <1>4
<1>6. ReachableAvoiding(E, S, Avoid) = reach[N]
  BY DEF ReachableAvoiding
<1> HIDE DEF reach
<1>7. reach[0] = S \ Avoid /\ \A k \in 1..N : reach[k] = Round(E, Avoid, reach[k-1])
  BY <1>5, NAssumption DEF Round
<1>8. 0..N \subseteq {k \in 0..N : reach[k] \in SUBSET Block}
  <2> DEFINE G == {k \in 0..N : reach[k] \in SUBSET Block}
  <2>1. 0 \in G
    BY <1>7, NAssumption
  <2>2. ASSUME NEW k \in 0..(N-1), k \in G PROVE k + 1 \in G
    <3>1. k + 1 \in 1..N /\ (k + 1) - 1 = k
      BY NAssumption
    <3> QED
      BY <1>7, <2>2, <3>1, RoundOfBlocks
  <2> HIDE DEF G
  <2>3. 0..N \subseteq G
    BY <2>1, <2>2, NAssumption, IntervalInduction
  <2> QED
    BY <2>3 DEF G
<1>9. IsSearch(reach, E, S, Avoid)
  BY <1>5, <1>7, <1>8 DEF IsSearch
<1> QED
  BY <1>6, <1>9

(* It lies in every set that has the start and the successors of its       *)
(* blocks: nothing is reached but by an edge.                              *)
LEMMA ReachableIsLeast ==
  ASSUME NEW E \in [Block -> SUBSET Block], NEW S \in SUBSET Block, NEW Avoid,
         NEW C, S \ Avoid \subseteq C, ClosedAvoiding(E, C, Avoid)
  PROVE  ReachableAvoiding(E, S, Avoid) \subseteq C
<1>1. PICK reach : /\ IsSearch(reach, E, S, Avoid)
                   /\ ReachableAvoiding(E, S, Avoid) = reach[N]
  BY SearchExists
<1> DEFINE G == {k \in 0..N : reach[k] \subseteq C}
<1>2. 0 \in G
  BY <1>1, NAssumption DEF IsSearch
<1>3. ASSUME NEW k \in 0..(N-1), k \in G PROVE k + 1 \in G
  <2>1. k + 1 \in 1..N /\ (k + 1) - 1 = k
    BY NAssumption
  <2>2. reach[k+1] = Round(E, Avoid, reach[k])
    BY <1>1, <2>1 DEF IsSearch
  <2>3. Round(E, Avoid, reach[k]) \subseteq C
    BY <1>3 DEF Round, ClosedAvoiding
  <2> QED
    BY <2>1, <2>2, <2>3
<1>4. 0..N \subseteq G
  <2> HIDE DEF G
  <2> QED
    BY <1>2, <1>3, NAssumption, IntervalInduction
<1> QED
  BY <1>1, <1>4, NAssumption

(* It starts where it is told to.                                          *)
LEMMA ReachableHasStart ==
  ASSUME NEW E \in [Block -> SUBSET Block], NEW S \in SUBSET Block, NEW Avoid
  PROVE  /\ S \ Avoid \subseteq ReachableAvoiding(E, S, Avoid)
         /\ ReachableAvoiding(E, S, Avoid) \subseteq Block
<1>1. PICK reach : /\ IsSearch(reach, E, S, Avoid)
                   /\ ReachableAvoiding(E, S, Avoid) = reach[N]
  BY SearchExists
<1> DEFINE G == {k \in 0..N : S \ Avoid \subseteq reach[k]}
<1>2. 0 \in G
  BY <1>1, NAssumption DEF IsSearch
<1>3. ASSUME NEW k \in 0..(N-1), k \in G PROVE k + 1 \in G
  <2>1. k + 1 \in 1..N /\ (k + 1) - 1 = k
    BY NAssumption
  <2> QED
    BY <1>1, <1>3, <2>1 DEF IsSearch, Round
<1>4. 0..N \subseteq G
  <2> HIDE DEF G
  <2> QED
    BY <1>2, <1>3, NAssumption, IntervalInduction
<1> QED
  BY <1>1, <1>4, NAssumption DEF IsSearch

(* Blocks are finitely many.                                               *)
LEMMA BlocksAreFinite ==
  ASSUME NEW R \in SUBSET Block
  PROVE  IsFiniteSet(R) /\ Cardinality(R) \in 0..N
<1>1. IsFiniteSet(Block) /\ Cardinality(Block) = N
  BY FS_Interval, NAssumption DEF Block
<1>2. IsFiniteSet(R) /\ Cardinality(R) <= Cardinality(Block)
  BY <1>1, FS_Subset
<1>3. Cardinality(R) \in Nat
  BY <1>2, FS_CardinalityType
<1> QED
  BY <1>1, <1>2, <1>3, NAssumption

LEMMA LargerHasMore ==
  ASSUME NEW R \in SUBSET Block, NEW Q \in SUBSET R, Q # R
  PROVE  Cardinality(R) >= Cardinality(Q) + 1
<1>1. IsFiniteSet(R) /\ Cardinality(R) \in Nat /\ Cardinality(Q) \in Nat
  BY BlocksAreFinite
<1>2. Cardinality(Q) <= Cardinality(R) /\ Cardinality(Q) # Cardinality(R)
  BY <1>1, FS_Subset
<1> QED
  BY <1>1, <1>2

(* N rounds are enough: a round that adds nothing is the last that could,  *)
(* and N + 1 blocks cannot be added.                                       *)
LEMMA ReachableIsClosed ==
  ASSUME NEW E \in [Block -> SUBSET Block], NEW S \in SUBSET Block, NEW Avoid
  PROVE  ClosedAvoiding(E, ReachableAvoiding(E, S, Avoid), Avoid)
<1>1. PICK reach : /\ IsSearch(reach, E, S, Avoid)
                   /\ ReachableAvoiding(E, S, Avoid) = reach[N]
  BY SearchExists
<1> DEFINE G == {k \in 0..N : ClosedAvoiding(E, reach[k], Avoid) \/ Cardinality(reach[k]) >= k + 1}
<1>2. \A k \in 0..N : reach[k] \in SUBSET Block
  BY <1>1 DEF IsSearch
<1>3. 0 \in G
  <2>1. CASE reach[0] = {}
    BY <2>1, NAssumption DEF ClosedAvoiding
  <2>2. CASE reach[0] # {}
    <3>1. Cardinality({}) = 0
      BY FS_EmptySet
    <3>2. Cardinality(reach[0]) >= Cardinality({}) + 1
      BY <1>2, <2>2, LargerHasMore, NAssumption
    <3> QED
      BY <3>1, <3>2, NAssumption
  <2> QED
    BY <2>1, <2>2
<1>4. ASSUME NEW k \in 0..(N-1), k \in G PROVE k + 1 \in G
  <2>1. k \in 0..N /\ k + 1 \in 1..N /\ (k + 1) - 1 = k
    BY NAssumption
  <2>2. reach[k+1] = Round(E, Avoid, reach[k])
    BY <1>1, <2>1 DEF IsSearch
  <2>3. CASE reach[k+1] = reach[k]
    <3>1. ClosedAvoiding(E, reach[k], Avoid)
      BY <2>2, <2>3 DEF Round, ClosedAvoiding
    <3> QED
      BY <2>1, <2>3, <3>1
  <2>4. CASE reach[k+1] # reach[k]
    <3>1. reach[k] \subseteq reach[k+1]
      BY <2>2 DEF Round
    <3>2. ~ClosedAvoiding(E, reach[k], Avoid)
      BY <2>2, <2>4 DEF Round, ClosedAvoiding
    <3>3. Cardinality(reach[k]) >= k + 1
      BY <1>4, <3>2
    <3>4. Cardinality(reach[k+1]) >= Cardinality(reach[k]) + 1
      BY <1>2, <2>1, <2>4, <3>1, LargerHasMore
    <3>5. Cardinality(reach[k]) \in Nat /\ Cardinality(reach[k+1]) \in Nat
      BY <1>2, <2>1, BlocksAreFinite
    <3> QED
      BY <2>1, <3>3, <3>4, <3>5
  <2> QED
    BY <2>3, <2>4
<1>5. 0..N \subseteq G
  <2> HIDE DEF G
  <2> QED
    BY <1>3, <1>4, NAssumption, IntervalInduction
<1>6. Cardinality(reach[N]) \in 0..N
  BY <1>2, BlocksAreFinite, NAssumption
<1>7. ClosedAvoiding(E, reach[N], Avoid)
  BY <1>5, <1>6, NAssumption
<1> QED
  BY <1>1, <1>7

-----------------------------------------------------------------------------
(* The edges of a graph go from blocks to blocks.                          *)
LEMMA EdgesAreOfBlocks ==
  ASSUME NEW t \in CfgGraph
  PROVE  /\ Edges(t) \in [Block -> SUBSET Block]
         /\ \A a \in Block : Edges(t)[a] = ToSet(t[a])
BY DestinationsAreBlocks DEF Edges

(* Reachable(t): the entry, and the successors of what is reachable.       *)
LEMMA ReachableProperties ==
  ASSUME NEW t \in CfgGraph
  PROVE  /\ Entry \in Reachable(t)
         /\ Reachable(t) \subseteq Block
         /\ \A a \in Reachable(t) : ToSet(t[a]) \subseteq Reachable(t)
<1>1. {Entry} \in SUBSET Block
  BY NAssumption DEF Entry, Block
<1>2. Entry \in Reachable(t) /\ Reachable(t) \subseteq Block
  BY <1>1, EdgesAreOfBlocks, ReachableHasStart DEF Reachable
<1>3. ClosedAvoiding(Edges(t), Reachable(t), {})
  BY <1>1, EdgesAreOfBlocks, ReachableIsClosed DEF Reachable
<1> QED
  BY <1>2, <1>3, EdgesAreOfBlocks DEF ClosedAvoiding

LEMMA ReachableLeast ==
  ASSUME NEW t \in CfgGraph, NEW C \in SUBSET Block, Entry \in C,
         \A a \in C : ToSet(t[a]) \subseteq C
  PROVE  Reachable(t) \subseteq C
<1>1. {Entry} \in SUBSET Block
  BY NAssumption DEF Entry, Block
<1>2. ClosedAvoiding(Edges(t), C, {})
  BY EdgesAreOfBlocks DEF ClosedAvoiding
<1> QED
  BY <1>1, <1>2, EdgesAreOfBlocks, ReachableIsLeast DEF Reachable

-----------------------------------------------------------------------------
(* Dominance: what is left of the reachable blocks without a.              *)
Without(t, a) == ReachableAvoiding(Edges(t), {Entry}, {a})

LEMMA WithoutLeast ==
  ASSUME NEW t \in CfgGraph, NEW a \in Block, NEW C, Entry # a => Entry \in C,
         \A x \in C \cap Block : ToSet(t[x]) \subseteq C \cup {a}
  PROVE  Without(t, a) \subseteq C
<1> DEFINE B == C \cap Block
<1>1. {Entry} \in SUBSET Block
  BY NAssumption DEF Entry, Block
<1>2. {Entry} \ {a} \subseteq B
  BY <1>1
<1>3. ClosedAvoiding(Edges(t), B, {a})
  BY EdgesAreOfBlocks, DestinationsAreBlocks DEF ClosedAvoiding
<1> HIDE DEF B
<1>4. Without(t, a) \subseteq B
  BY <1>1, <1>2, <1>3, EdgesAreOfBlocks, ReachableIsLeast DEF Without
<1> QED
  BY <1>4 DEF B

LEMMA WithoutProperties ==
  ASSUME NEW t \in CfgGraph, NEW a \in Block
  PROVE  /\ Entry # a => Entry \in Without(t, a)
         /\ a \notin Without(t, a)
         /\ Without(t, a) \subseteq Reachable(t)
         /\ \A x \in Without(t, a) : ToSet(t[x]) \subseteq Without(t, a) \cup {a}
<1>1. {Entry} \in SUBSET Block
  BY NAssumption DEF Entry, Block
<1>2. Entry # a => Entry \in Without(t, a)
  BY <1>1, EdgesAreOfBlocks, ReachableHasStart DEF Without
<1>3. Without(t, a) \subseteq Block
  BY <1>1, EdgesAreOfBlocks, ReachableHasStart DEF Without
<1>4. ClosedAvoiding(Edges(t), Without(t, a), {a})
  BY <1>1, EdgesAreOfBlocks, ReachableIsClosed DEF Without
<1>5. \A x \in Without(t, a) : ToSet(t[x]) \subseteq Without(t, a) \cup {a}
  BY <1>3, <1>4, EdgesAreOfBlocks DEF ClosedAvoiding
<1>6. Without(t, a) \subseteq Block \ {a}
  <2>1. \A x \in Block : ToSet(t[x]) \subseteq (Block \ {a}) \cup {a}
    BY DestinationsAreBlocks
  <2>2. Entry \in Block
    BY <1>1
  <2> QED
    BY <2>1, <2>2, WithoutLeast
<1>7. Without(t, a) \subseteq Reachable(t)
  BY ReachableProperties, WithoutLeast
<1> QED
  BY <1>2, <1>5, <1>6, <1>7

LEMMA DominatedIs ==
  ASSUME NEW t, NEW a \in Block
  PROVE  Dominated(t)[a] = Reachable(t) \ Without(t, a)
BY DEF Dominated, Without

(* A block dominates itself, and the entry dominates every block.          *)
LEMMA DominatesItself ==
  ASSUME NEW t \in CfgGraph, NEW b \in Reachable(t)
  PROVE  b \in Dominated(t)[b] /\ b \in Dominated(t)[Entry]
<1>1. b \in Block /\ Entry \in Block
  BY ReachableProperties
<1>2. Without(t, Entry) \subseteq {}
  <2>1. \A x \in {} \cap Block : ToSet(t[x]) \subseteq {} \cup {Entry}
    OBVIOUS
  <2> QED
    BY <1>1, <2>1, WithoutLeast, ZenonT(30)
<1> QED
  BY <1>1, <1>2, DominatedIs, WithoutProperties

(* Dominance is transitive.                                                *)
LEMMA DominatesTransitively ==
  ASSUME NEW t \in CfgGraph, NEW a \in Block, NEW x \in Dominated(t)[a], NEW b \in Dominated(t)[x]
  PROVE  b \in Dominated(t)[a]
<1>1. x \in Reachable(t) /\ x \notin Without(t, a) /\ x \in Block
  BY DominatedIs, ReachableProperties
<1>2. b \in Reachable(t) /\ b \notin Without(t, x)
  BY <1>1, DominatedIs
<1> DEFINE Y == Without(t, x) \cap Without(t, a)
<1>3. Entry # a => Entry \in Y
  BY <1>1, WithoutProperties
<1>4. \A y \in Y \cap Block : ToSet(t[y]) \subseteq Y \cup {a}
  BY <1>1, WithoutProperties
<1>5. Without(t, a) \subseteq Y
  <2> HIDE DEF Y
  <2> QED
    BY <1>3, <1>4, WithoutLeast
<1> QED
  BY <1>2, <1>5, DominatedIs

(* What strictly dominates a block dominates its predecessors, and what    *)
(* dominates those the block does not dominate itself dominates the block. *)
LEMMA DominatesPreds ==
  ASSUME NEW t \in CfgGraph, NEW a \in Block, NEW b \in Dominated(t)[a], a # b,
         NEW p \in Reachable(t), b \in ToSet(t[p])
  PROVE  p \in Dominated(t)[a]
BY DominatedIs, WithoutProperties

(* A reachable block is dominated by reachable blocks only, each of which  *)
(* is a block.                                                             *)
LEMMA DominatorsAreReachable ==
  ASSUME NEW t \in CfgGraph, NEW D, D = Dominated(t), NEW a \in Block, NEW b \in D[a]
  PROVE  /\ a \in Reachable(t) /\ b \in Reachable(t) /\ b \in Block
         /\ a \in D[a] /\ b \in D[b]
<1>1. b \in Reachable(t) /\ b \in Block /\ b \notin Without(t, a)
  BY DominatedIs, ReachableProperties
<1>2. ASSUME a \notin Reachable(t) PROVE FALSE
  <2>1. Entry # a
    BY <1>2, ReachableProperties
  <2>2. \A x \in Without(t, a) : ToSet(t[x]) \subseteq Without(t, a)
    BY <1>2, WithoutProperties, ReachableProperties
  <2>3. Reachable(t) \subseteq Without(t, a)
    BY <2>1, <2>2, WithoutProperties, ReachableProperties, ReachableLeast
  <2> QED
    BY <1>1, <2>3
<1> QED
  BY <1>1, <1>2, DominatesItself

(* Dominance is a partial order, and the dominators of a block a chain.    *)
LEMMA DominanceAntisymmetric ==
  ASSUME NEW t \in CfgGraph, NEW D, D = Dominated(t),
         NEW a \in Block, NEW b \in D[a], a \in D[b]
  PROVE  a = b
<1> SUFFICES ASSUME a # b PROVE FALSE
  OBVIOUS
<1>1. b \in Block /\ a \in Reachable(t) /\ b \in Reachable(t)
  BY DominatorsAreReachable
<1>2. b \notin Without(t, a) /\ a \notin Without(t, b)
  BY <1>1, DominatedIs
<1> DEFINE C == Without(t, a) \cap Without(t, b)
<1>3. Entry \in C
  BY <1>1, <1>2, WithoutProperties
<1>4. \A x \in C : ToSet(t[x]) \subseteq C
  <2> SUFFICES ASSUME NEW x \in C, NEW s \in ToSet(t[x]) PROVE s \in C
    OBVIOUS
  <2>1. s \in Without(t, a) \cup {a} /\ s \in Without(t, b) \cup {b}
    BY <1>1, WithoutProperties
  <2> QED
    BY <1>2, <2>1
<1>5. C \subseteq Block
  BY WithoutProperties, ReachableProperties
<1>6. Reachable(t) \subseteq C
  <2> HIDE DEF C
  <2> QED
    BY <1>3, <1>4, <1>5, ReachableLeast
<1> QED
  BY <1>1, <1>2, <1>6

LEMMA DominatorsAreChain ==
  ASSUME NEW t \in CfgGraph, NEW D, D = Dominated(t),
         NEW a \in Block, NEW b \in Block, NEW x \in D[a], x \in D[b]
  PROVE  a \in D[b] \/ b \in D[a]
<1> SUFFICES ASSUME a \notin D[b], b \notin D[a] PROVE FALSE
  OBVIOUS
<1>1. a \in Reachable(t) /\ b \in Reachable(t) /\ a # b
  BY DominatorsAreReachable
<1>2. a \in Without(t, b) /\ b \in Without(t, a)
  BY <1>1, DominatedIs
<1> DEFINE C == Without(t, a) \cup Without(t, b)
<1>3. Entry \in C /\ C \subseteq Block
  BY <1>1, WithoutProperties, ReachableProperties
<1>4. \A y \in C : ToSet(t[y]) \subseteq C
  BY <1>2, WithoutProperties
<1>5. Reachable(t) \subseteq C
  <2> HIDE DEF C
  <2> QED
    BY <1>3, <1>4, ReachableLeast
<1> QED
  BY <1>5, DominatedIs, DominatorsAreReachable

(* A strict dominator dominates more blocks.                               *)
LEMMA DominatesMore ==
  ASSUME NEW t \in CfgGraph, NEW D, D = Dominated(t), NEW a \in Block, NEW b \in D[a], a # b
  PROVE  /\ Cardinality(D[a]) \in 0..N /\ Cardinality(D[b]) \in 0..N
         /\ Cardinality(D[a]) > Cardinality(D[b])
<1>1. b \in Block /\ a \in D[a] /\ D[a] \in SUBSET Block /\ D[b] \in SUBSET Block
  BY DominatorsAreReachable
<1>2. D[b] \in SUBSET D[a]
  BY <1>1, DominatesTransitively
<1>3. D[b] # D[a]
  BY <1>1, DominanceAntisymmetric
<1>4. Cardinality(D[a]) >= Cardinality(D[b]) + 1
  BY <1>1, <1>2, <1>3, LargerHasMore
<1>5. Cardinality(D[a]) \in 0..N /\ Cardinality(D[b]) \in 0..N
  BY <1>1, BlocksAreFinite
<1> QED
  BY <1>4, <1>5, NAssumption

(* Of any dominators of a block one is nearest: all others dominate it.    *)
LEMMA HasNearest ==
  ASSUME NEW t \in CfgGraph, NEW D, D = Dominated(t), NEW b,
         NEW S, S # {}, \A a \in S : a \in Block /\ b \in D[a]
  PROVE  \E a \in S : \A c \in S : a \in D[c]
<1> DEFINE T == {Cardinality(D[a]) : a \in S}
<1>1. \A a \in S : Cardinality(D[a]) \in Nat
  <2> SUFFICES ASSUME NEW a \in S PROVE Cardinality(D[a]) \in Nat
    OBVIOUS
  <2>1. D[a] \in SUBSET Block
    BY DominatorsAreReachable
  <2> QED
    BY <2>1, BlocksAreFinite
<1>2. PICK m \in T : \A k \in T : m <= k
  <2>1. T \subseteq Nat /\ T # {}
    BY <1>1
  <2> HIDE DEF T
  <2> QED
    BY <2>1, LeastElement
<1>3. PICK a \in S : m = Cardinality(D[a])
  OBVIOUS
<1>4. ASSUME NEW c \in S PROVE a \in D[c]
  <2> SUFFICES ASSUME a \notin D[c] PROVE FALSE
    OBVIOUS
  <2>1. c \in D[a] /\ a # c
    BY DominatorsAreChain, DominatorsAreReachable
  <2>2. Cardinality(D[a]) > Cardinality(D[c])
    BY <2>1, DominatesMore
  <2>3. Cardinality(D[a]) <= Cardinality(D[c])
    BY <1>2, <1>3
  <2> QED
    BY <1>1, <2>2, <2>3
<1> QED
  BY <1>4

(* The dominator tree: every reachable block but the entry has an          *)
(* immediate dominator.                                                    *)
IsIdom(D, a, b) ==
  /\ StrictlyDominates(D, a, b)
  /\ \A c \in Block : StrictlyDominates(D, c, b) => a \in D[c]

LEMMA HasImmediateDominator ==
  ASSUME NEW t \in CfgGraph, NEW D, D = Dominated(t), NEW b \in Block, b # Entry, b \in D[b]
  PROVE  ImmediateDominator(D, b) \in Block /\ IsIdom(D, ImmediateDominator(D, b), b)
<1> DEFINE S == {a \in Block : StrictlyDominates(D, a, b)}
<1>1. b \in Reachable(t) /\ Entry \in Block
  BY DominatorsAreReachable, ReachableProperties
<1>2. Entry \in S
  BY <1>1, DominatesItself DEF StrictlyDominates
<1>3. \A a \in S : a \in Block /\ b \in D[a]
  BY DEF StrictlyDominates
<1>4. \E a \in S : \A c \in S : a \in D[c]
  <2> HIDE DEF S
  <2> QED
    BY <1>2, <1>3, HasNearest
<1>5. \E x \in Block : IsIdom(D, x, b)
  BY <1>4 DEF IsIdom
<1>6. ImmediateDominator(D, b) = CHOOSE x \in Block : IsIdom(D, x, b)
  BY DEF ImmediateDominator, IsIdom
<1> QED
  BY <1>5, <1>6

(* The blocks whose immediate dominator is a.                              *)
ChildrenIn(D, a) == {c \in Block \ {Entry} : c \in D[c] /\ ImmediateDominator(D, c) = a}

(* Whatever strictly dominates a child of b dominates b.                   *)
LEMMA DominatorsOfChild ==
  ASSUME NEW t \in CfgGraph, NEW D, D = Dominated(t), NEW b \in Block, NEW c \in ChildrenIn(D, b)
  PROVE  /\ c \in D[b] /\ b # c
         /\ \A a \in Block \ {c} : c \in D[a] => b \in D[a]
BY HasImmediateDominator DEF ChildrenIn, IsIdom, StrictlyDominates

(* Below b there are b and what is below its children.                     *)
LEMMA BelowIsBelowChild ==
  ASSUME NEW t \in CfgGraph, NEW D, D = Dominated(t), NEW b \in Block, NEW x \in D[b], x # b
  PROVE  \E c \in ChildrenIn(D, b) : x \in D[c]
<1> DEFINE S == {c \in Block : StrictlyDominates(D, b, c) /\ x \in D[c]}
           T == {N - Cardinality(D[c]) : c \in S}
<1>1. x \in S /\ b \in Block /\ b \in D[b]
  BY DominatorsAreReachable DEF StrictlyDominates
<1>2. \A c \in S : Cardinality(D[c]) \in 0..N
  BY DominatesMore DEF StrictlyDominates
<1>3. PICK m \in T : \A k \in T : m <= k
  <2>1. T \subseteq Nat /\ T # {}
    BY <1>1, <1>2, NAssumption
  <2> HIDE DEF T
  <2> QED
    BY <2>1, LeastElement
<1>4. PICK c \in S : m = N - Cardinality(D[c])
  OBVIOUS
<1>5. c # Entry /\ c \in D[c] /\ c \in Block
  <2>1. b \in D[Entry] /\ Entry \in Block
    BY <1>1, DominatorsAreReachable, DominatesItself, ReachableProperties
  <2> QED
    BY <2>1, DominanceAntisymmetric, DominatorsAreReachable DEF StrictlyDominates
<1> DEFINE i == ImmediateDominator(D, c)
<1>6. i \in Block /\ IsIdom(D, i, c)
  BY <1>5, HasImmediateDominator
<1> HIDE DEF i
<1>7. i \in D[b] /\ c \in D[i] /\ i # c
  BY <1>6 DEF IsIdom, StrictlyDominates
<1>8. ASSUME i # b PROVE FALSE
  <2>1. x \in D[i]
    BY <1>6, <1>7, DominatesTransitively
  <2>2. i \in S
    BY <1>6, <1>7, <1>8, <2>1 DEF StrictlyDominates
  <2>3. Cardinality(D[i]) > Cardinality(D[c])
    BY <1>6, <1>7, DominatesMore
  <2>4. N - Cardinality(D[c]) <= N - Cardinality(D[i])
    BY <1>3, <1>4, <2>2
  <2> QED
    BY <1>2, <1>4, <2>2, <2>3, <2>4, NAssumption
<1> QED
  BY <1>4, <1>5, <1>8 DEF ChildrenIn, i

(* What is below one child of b is not below another.                      *)
LEMMA ChildrenAreDisjoint ==
  ASSUME NEW t \in CfgGraph, NEW D, D = Dominated(t), NEW b \in Block,
         NEW c \in ChildrenIn(D, b), NEW d \in ChildrenIn(D, b), c # d
  PROVE  D[c] \cap D[d] = {}
<1>1. ASSUME NEW x \in ChildrenIn(D, b), NEW y \in ChildrenIn(D, b), x # y PROVE x \notin D[y]
  <2> SUFFICES ASSUME x \in D[y] PROVE FALSE
    OBVIOUS
  <2>1. y \in Block /\ b \in D[y]
    BY <1>1, DominatorsOfChild DEF ChildrenIn
  <2> QED
    BY <1>1, <2>1, DominatorsOfChild, DominanceAntisymmetric
<1>2. c \in Block /\ d \in Block
  BY DEF ChildrenIn
<1> QED
  BY <1>1, <1>2, DominatorsAreChain

-----------------------------------------------------------------------------

Def == Place \cup {None}

(* The stores among the first k accesses of a block, and the definition in *)
(* force after them if it was d before the first.                          *)
Stores(b, k) == {j \in 1..k : IsStore(b, j)}
Latest(b, k, d) == IF Stores(b, k) = {} THEN d ELSE <<b, Max(Stores(b, k))>>
AtStart(b, d) == IF b \in phis THEN PhiOf(b) ELSE d

(* The nearest of some dominators, and its last definition.                *)
Nearest(D, S) == CHOOSE a \in S : \A c \in S : a \in D[c]
LastDef == [b \in Block |-> Latest(b, Len(body[b]), PhiOf(b))]
DefOf(D, last, S) == IF S = {} THEN None ELSE last[Nearest(D, S)]

(* The definition that reaches the start and the end of a block if none    *)
(* but those of its dominators do.                                         *)
Definers(b) == {a \in Block : b \in dom[a] /\ Defines(a)}
Above(b) == DefOf(dom, LastDef, Definers(b) \ {b})
AtEnd(b) == DefOf(dom, LastDef, Definers(b))

-----------------------------------------------------------------------------
TypeInv ==
  /\ graph \in CfgGraph
  /\ dom = Dominated(graph)
  /\ body \in [Block -> Seq(Access \cup {"removed"})]
  /\ phase \in {"collect", "walk", "run"}
  /\ phis \in SUBSET Block
  /\ incoming \in [Block -> [Block -> Def]]
  /\ entries \in [Block -> [Block -> Nat]]
  /\ replaced = [b \in Block |-> replaced[b]]
  /\ defStack \in Seq(Place)
  /\ work \in Seq(Block)

(* What the visit of block b has to leave.                                 *)
LoadsDone(b) ==
  \A k \in DOMAIN body[b] : body[b][k] = "load" /\ DefBefore(b, k) => replaced[b][k] # None
PhisDone(b) ==
  \A s \in phis : IsEdge(graph, b, s) /\ DefBefore(b, Len(body[b]) + 1) => incoming[s][b] # None
EntriesMatch(b) ==
  \A s \in phis : graph[b] # <<s, s>> => entries[s][b] = Cardinality({incoming[s][b]} \ {None})
LoadsRight(b) ==
  \A k \in DOMAIN body[b] : body[b][k] = "load" => replaced[b][k] = Latest(b, k, AtStart(b, Above(b)))
IncomingRight(b) ==
  \A s \in phis : IsEdge(graph, b, s) => incoming[s][b] = AtEnd(b)

Visited(b) ==
  /\ LoadsDone(b)
  /\ PhisDone(b)
  /\ EntriesMatch(b)
  /\ NoLeak => LoadsRight(b) /\ IncomingRight(b)

Untouched(b) == \A s \in Block : incoming[s][b] = None /\ entries[s][b] = 0

(* What holds of a block on the queue: the stack is good enough for it.    *)
ReadsNothing(b) == \A y \in dom[b] : ~Reads(y)
HasDef(b) == (\E a \in Block \ {b} : b \in dom[a] /\ Defines(a)) => Top(defStack) # None
KnowsDef(b) == NoLeak => Top(defStack) = Above(b) \/ b \in phis \/ ReadsNothing(b)
Pending(b) ==
  /\ InTree(b)
  /\ HasDef(b)
  /\ KnowsDef(b)
  /\ \A x \in dom[b] : Untouched(x)

(* Queued blocks have nothing below them in common, and the later is below *)
(* the parent of the earlier.                                              *)
Apart(D, a, b) == D[a] \cap D[b] = {} /\ a # Entry /\ b \in D[ImmediateDominator(D, a)]

FrontiersHavePhis == \A b \in Block : StoresTo(b) => Frontiers(b) \subseteq phis

WalkInv ==
  /\ ~Promoted
  /\ Places("escape") = {}
  /\ Places("store") # {}
  /\ FrontiersHavePhis
  /\ \A x \in ToSet(work) : Pending(x)
  /\ \A j, k \in DOMAIN work : j < k => Apart(dom, work[j], work[k])
  /\ \A b \in Block : InTree(b) => Visited(b) \/ \E x \in ToSet(work) : b \in dom[x]
  /\ \A b \in Block : ~InTree(b) => Untouched(b)

DoneInv ==
  /\ phase # "walk"
  /\ Places("escape") = {}
  /\ Places("store") = {}
  /\ FrontiersHavePhis
  /\ \A b \in Block : IF InTree(b) THEN Visited(b) ELSE Untouched(b)

PassInv ==
  /\ phase = "walk" => WalkInv
  /\ Promoted => DoneInv
  /\ phase = "collect" /\ ~Promoted => (\A b \in Block : Untouched(b)) /\ phis = {} /\ defStack = <<>>
  /\ phase = "collect" => work = <<>>

-----------------------------------------------------------------------------
(* The largest of a set of numbers.                                        *)
LEMMA MaxOfSome ==
  ASSUME NEW n \in Nat, NEW I \in SUBSET (1..n), I # {}
  PROVE  Max(I) \in I /\ \A i \in I : i <= Max(I)
<1> DEFINE T == {n - i : i \in I}
<1>0. \A i \in I : i \in Int /\ 1 <= i /\ i <= n
  OBVIOUS
<1>1. PICK m \in T : \A k \in T : m <= k
  <2>1. \A i \in I : n - i \in Nat
    BY <1>0
  <2>2. T \subseteq Nat /\ T # {}
    BY <2>1
  <2> HIDE DEF T
  <2> QED
    BY <2>2, LeastElement
<1>2. PICK i \in I : m = n - i
  OBVIOUS
<1>3. ASSUME NEW j \in I PROVE i >= j
  <2>1. n - i <= n - j
    BY <1>1, <1>2
  <2> QED
    BY <1>0, <2>1
<1>4. Max(I) = CHOOSE x \in I : \A y \in I : x >= y
  BY DEF Max
<1>5. Max(I) \in I /\ \A y \in I : Max(I) >= y
  BY <1>3, <1>4
<1> QED
  BY <1>5

LEMMA StoresOneMore ==
  ASSUME NEW b, NEW k \in Nat, NEW d
  PROVE  /\ Latest(b, 0, d) = d
         /\ Latest(b, k + 1, d) = IF IsStore(b, k + 1) THEN <<b, k + 1>> ELSE Latest(b, k, d)
<1>1. Stores(b, 0) = {}
  BY DEF Stores
<1>2. Latest(b, 0, d) = d
  BY <1>1 DEF Latest
<1>3. CASE IsStore(b, k + 1)
  <2>1. k + 1 \in Stores(b, k + 1) /\ Stores(b, k + 1) \in SUBSET (1..(k+1)) /\ k + 1 \in Nat
    BY <1>3 DEF Stores
  <2>2. Max(Stores(b, k + 1)) \in 1..(k+1) /\ k + 1 <= Max(Stores(b, k + 1))
    <3> DEFINE I == Stores(b, k + 1)
               n == k + 1
    <3>1. n \in Nat /\ I \in SUBSET (1..n) /\ n \in I
      BY <2>1
    <3> HIDE DEF I, n
    <3>2. Max(I) \in I /\ \A i \in I : i <= Max(I)
      BY <3>1, MaxOfSome
    <3>3. Max(I) \in 1..n /\ n <= Max(I)
      BY <3>1, <3>2
    <3> QED
      BY <3>3 DEF I, n
  <2>3. Max(Stores(b, k + 1)) = k + 1
    BY <2>2
  <2> QED
    BY <1>2, <1>3, <2>1, <2>3 DEF Latest
<1>4. CASE ~IsStore(b, k + 1)
  <2>1. Stores(b, k + 1) = Stores(b, k)
    BY <1>4 DEF Stores
  <2> QED
    BY <1>2, <1>4, <2>1 DEF Latest
<1> QED
  BY <1>3, <1>4

(* The top of the stack in the middle of a block.                          *)
StackIs(b, k, d, stack) == stack \in Seq(Place) /\ Top(stack) = Latest(b, k, AtStart(b, d))

LEMMA StackTop ==
  ASSUME TypeInv, ~Promoted, NEW b \in Block, NEW k \in 0..Len(body[b])
  PROVE  StackIs(b, k, Top(defStack), StackAfter(b, k))
<1> DEFINE d == Top(defStack)
           base == IF b \in phis THEN Append(defStack, PhiOf(b)) ELSE defStack
           step == [x \in (1..k) \X Seq(Place) |->
                      IF body[b][x[1]] = "store" THEN Append(x[2], <<b, x[1]>>) ELSE x[2]]
           IsAfter(f) == f = [j \in 0..k |->
                           IF j = 0 THEN IF b \in phis THEN Append(defStack, PhiOf(b)) ELSE defStack
                           ELSE IF body[b][j] = "store" THEN Append(f[j-1], <<b, j>>)
                           ELSE f[j-1]]
           after == CHOOSE f : IsAfter(f)
<1>1. /\ Len(body[b]) \in Nat /\ DOMAIN body[b] = 1..Len(body[b])
      /\ k \in Nat /\ defStack \in Seq(Place)
  BY LenProperties DEF TypeInv
<1>2. \A j \in 0..k : <<b, j>> \in Place /\ (j # 0 => j \in DOMAIN body[b])
  BY <1>1 DEF Place
<1>3. PhiOf(b) \in Place
  BY DEF PhiOf, Place
<1>4. base \in Seq(Place)
  BY <1>1, <1>3
<1>5. \A j \in 1..k, x \in Seq(Place) :
        step[<<j, x>>] = IF body[b][j] = "store" THEN Append(x, <<b, j>>) ELSE x
  OBVIOUS
<1>6. \A j \in 1..k, x \in Seq(Place) : step[<<j, x>>] \in Seq(Place)
  <2> SUFFICES ASSUME NEW j \in 1..k, NEW x \in Seq(Place) PROVE step[<<j, x>>] \in Seq(Place)
    OBVIOUS
  <2>1. j \in 0..k
    BY <1>1
  <2>2. Append(x, <<b, j>>) \in Seq(Place)
    BY <1>2, <2>1
  <2> HIDE DEF step
  <2> QED
    BY <1>5, <2>2
<1>7. \E f : IsIteration(f, k, Seq(Place), base, step)
  <2> HIDE DEF base, step
  <2> QED
    BY <1>1, <1>4, <1>6, IterationExists
<1>8. \E f : IsAfter(f)
  <2>1. PICK f : IsIteration(f, k, Seq(Place), base, step)
    BY <1>7
  <2>2. f \in [0..k -> Seq(Place)] /\ f[0] = base
    BY <2>1 DEF IsIteration
  <2>3. \A j \in 1..k : f[j] = IF body[b][j] = "store" THEN Append(f[j-1], <<b, j>>) ELSE f[j-1]
    <3> SUFFICES ASSUME NEW j \in 1..k
                 PROVE f[j] = IF body[b][j] = "store" THEN Append(f[j-1], <<b, j>>) ELSE f[j-1]
      OBVIOUS
    <3> HIDE DEF step, base
    <3>1. j - 1 \in 0..k
      BY <1>1
    <3>3. f[j] = step[<<j, f[j-1]>>]
      BY <2>1 DEF IsIteration
    <3>2. f[j-1] \in Seq(Place)
      BY <2>2, <3>1
    <3> QED
      BY <1>5, <3>2, <3>3
  <2>4. f = [j \in 0..k |->
              IF j = 0 THEN IF b \in phis THEN Append(defStack, PhiOf(b)) ELSE defStack
              ELSE IF body[b][j] = "store" THEN Append(f[j-1], <<b, j>>)
              ELSE f[j-1]]
    <3> DEFINE g == [j \in 0..k |->
              IF j = 0 THEN IF b \in phis THEN Append(defStack, PhiOf(b)) ELSE defStack
              ELSE IF body[b][j] = "store" THEN Append(f[j-1], <<b, j>>)
              ELSE f[j-1]]
    <3>1. DOMAIN f = 0..k /\ f = [j \in 0..k |-> f[j]]
      BY <2>2
    <3>2. \A j \in 0..k : j # 0 => j \in 1..k
      BY <1>1
    <3>3. \A j \in 0..k : f[j] = g[j]
      BY <2>2, <2>3, <3>2
    <3>4. g = [j \in 0..k |-> g[j]]
      OBVIOUS
    <3> HIDE DEF g
    <3>5. f = g
      BY <3>1, <3>3, <3>4
    <3> QED
      BY <3>5 DEF g
  <2> QED
    BY <2>4
<1>9. IsAfter(after)
  <2> HIDE DEF IsAfter
  <2> QED
    BY <1>8
<1>10. /\ after[0] = base
       /\ \A j \in 1..k : after[j] = IF body[b][j] = "store" THEN Append(after[j-1], <<b, j>>) ELSE after[j-1]
  <2> HIDE DEF after
  <2>1. 0 \in 0..k /\ \A j \in 1..k : j \in 0..k /\ j # 0
    BY <1>1
  <2> QED
    BY <1>9, <2>1
<1>11. StackAfter(b, k) = after[k]
  BY DEF StackAfter
<1> HIDE DEF after, IsAfter, step
<1>12. \A s \in Seq(Place), p \in Place : Append(s, p) \in Seq(Place) /\ Top(Append(s, p)) = p
  BY AppendOne DEF Top
<1>13. StackIs(b, 0, d, after[0])
  <2>1. Latest(b, 0, AtStart(b, d)) = AtStart(b, d)
    BY StoresOneMore
  <2> QED
    BY <1>1, <1>3, <1>4, <1>10, <1>12, <2>1 DEF StackIs, AtStart
<1>14. ASSUME NEW j \in 0..(k-1), StackIs(b, j, d, after[j]) PROVE StackIs(b, j + 1, d, after[j+1])
  <2>1. j + 1 \in 1..k /\ j + 1 \in DOMAIN body[b] /\ (j + 1) - 1 = j /\ j \in Nat
    BY <1>1, <1>2
  <2>2. after[j+1] = IF body[b][j+1] = "store" THEN Append(after[j], <<b, j+1>>) ELSE after[j]
    BY <1>10, <2>1
  <2>3. IsStore(b, j+1) <=> body[b][j+1] = "store"
    BY <2>1 DEF IsStore, Promoted
  <2>4. Latest(b, j + 1, AtStart(b, d)) =
          IF IsStore(b, j + 1) THEN <<b, j + 1>> ELSE Latest(b, j, AtStart(b, d))
    BY <2>1, StoresOneMore
  <2>5. <<b, j + 1>> \in Place
    BY <1>2, <2>1
  <2> HIDE DEF d
  <2> QED
    BY <1>12, <1>14, <2>2, <2>3, <2>4, <2>5 DEF StackIs
<1> DEFINE G == {j \in 0..k : StackIs(b, j, d, after[j])}
<1>15. 0 \in G /\ \A j \in 0..(k-1) : j \in G => j + 1 \in G
  <2> HIDE DEF d
  <2>1. \A j \in 0..(k-1) : j + 1 \in 0..k
    BY <1>1
  <2> QED
    BY <1>1, <1>13, <1>14, <2>1
<1>16. 0..k \subseteq G
  <2> HIDE DEF G
  <2> QED
    BY <1>1, <1>15, IntervalInduction
<1>17. StackIs(b, k, d, after[k])
  BY <1>1, <1>16
<1> QED
  BY <1>11, <1>17

-----------------------------------------------------------------------------
(* A block that defines the variable is its own nearest definer; at its    *)
(* end is what was at its start but for its own phi and stores.            *)
LEMMA DefinersInBlock ==
  ASSUME NEW b
  PROVE  Definers(b) \in SUBSET Block /\ \A a \in Definers(b) : a \in Block /\ b \in dom[a]
BY DEF Definers

LEMMA NearestIs ==
  ASSUME TypeInv, NEW b, NEW S \in SUBSET Definers(b), S # {}
  PROVE  Nearest(dom, S) \in S /\ \A c \in S : Nearest(dom, S) \in dom[c]
<1>1. \A a \in S : a \in Block /\ b \in dom[a]
  BY DEF Definers
<1>2. \E a \in S : \A c \in S : a \in dom[c]
  BY <1>1, HasNearest DEF TypeInv
<1> QED
  BY <1>2 DEF Nearest

LEMMA AtEndIs ==
  ASSUME TypeInv, NEW b \in Block, InTree(b)
  PROVE  AtEnd(b) = Latest(b, Len(body[b]), AtStart(b, Above(b)))
<1>1. Len(body[b]) \in Nat /\ DOMAIN body[b] = 1..Len(body[b])
  BY LenProperties DEF TypeInv
<1>2. StoresTo(b) <=> Stores(b, Len(body[b])) # {}
  BY <1>1 DEF StoresTo, Stores
<1>3. CASE Defines(b)
  <2>1. b \in Definers(b)
    BY <1>3 DEF Definers, InTree
  <2>2. Nearest(dom, Definers(b)) \in Definers(b) /\ Nearest(dom, Definers(b)) \in dom[b]
    BY <2>1, NearestIs
  <2>3. Nearest(dom, Definers(b)) = b
    BY <2>2, DominanceAntisymmetric DEF Definers, TypeInv
  <2>4. AtEnd(b) = Latest(b, Len(body[b]), PhiOf(b))
    BY <2>1, <2>3 DEF AtEnd, DefOf, LastDef
  <2>5. b \in phis \/ Stores(b, Len(body[b])) # {}
    BY <1>2, <1>3 DEF Defines
  <2> QED
    BY <2>4, <2>5 DEF Latest, AtStart
<1>4. CASE ~Defines(b)
  <2>1. Definers(b) \ {b} = Definers(b)
    BY <1>4 DEF Definers
  <2>2. AtEnd(b) = Above(b)
    BY <2>1 DEF AtEnd, Above
  <2>3. b \notin phis /\ Stores(b, Len(body[b])) = {}
    BY <1>2, <1>4 DEF Defines
  <2> QED
    BY <2>2, <2>3 DEF Latest, AtStart
<1> QED
  BY <1>3, <1>4

LEMMA SuccsAreChildren ==
  ASSUME NEW b
  PROVE  TreeSuccs(b) = ChildrenIn(dom, b)
BY DEF TreeSuccs, ChildrenIn, InTree, Idom

(* What reaches a child in the tree is what is there at its parent's end.  *)
LEMMA AboveChild ==
  ASSUME TypeInv, NEW b \in Block, NEW c \in TreeSuccs(b)
  PROVE  Above(c) = AtEnd(b)
<1>1. c \in ChildrenIn(dom, b) /\ c \in Block
  BY SuccsAreChildren DEF TreeSuccs
<1>2. c \in dom[b] /\ b # c /\ \A a \in Block \ {c} : c \in dom[a] => b \in dom[a]
  BY <1>1, DominatorsOfChild DEF TypeInv
<1>3. b \notin dom[c]
  BY <1>1, <1>2, DominanceAntisymmetric DEF TypeInv
<1>4. \A a \in Block : b \in dom[a] => c \in dom[a]
  BY <1>2, DominatesTransitively DEF TypeInv
<1>5. Definers(c) \ {c} = Definers(b)
  BY <1>2, <1>3, <1>4 DEF Definers
<1> QED
  BY <1>5 DEF Above, AtEnd

(* Along an edge to a block without a phi the same definers go on to       *)
(* dominate: one whose dominance ended would have put a phi there.         *)
LEMMA AboveEdge ==
  ASSUME TypeInv, FrontiersHavePhis, FrontiersClosed, NEW p \in Block, InTree(p),
         NEW b \in ToSet(Succs(graph, p)), b \notin phis
  PROVE  Above(b) = AtEnd(p)
<1>1. b \in ToSet(graph[p]) /\ b \in Block
  BY DestinationsAreBlocks DEF TypeInv, Succs
<1>2. p \in Reachable(graph)
  BY DominatorsAreReachable DEF TypeInv, InTree
<1>3. ASSUME NEW a \in Block, p \in dom[a], Defines(a) PROVE a # b /\ b \in dom[a]
  <2>1. Frontiers(a) \subseteq phis
    BY <1>3 DEF Defines, FrontiersHavePhis, FrontiersClosed
  <2>2. ~StrictlyDominates(dom, a, b) => b \in Frontiers(a)
    BY <1>1, <1>3 DEF Frontiers, DominanceFrontier
  <2> QED
    BY <2>1, <2>2 DEF StrictlyDominates
<1>4. ASSUME NEW a \in Block, a # b, b \in dom[a] PROVE p \in dom[a]
  BY <1>1, <1>2, <1>4, DominatesPreds DEF TypeInv
<1>5. Definers(b) \ {b} = Definers(p)
  BY <1>3, <1>4 DEF Definers
<1> QED
  BY <1>5 DEF Above, AtEnd

(* None of this depends on what has no part in it, nor on whether stores   *)
(* have been removed.                                                      *)
SameAccesses ==
  /\ graph' = graph /\ dom' = dom /\ phis' = phis
  /\ \A b \in Block :
       /\ DOMAIN body'[b] = DOMAIN body[b]
       /\ Len(body'[b]) = Len(body[b])
       /\ \A k \in DOMAIN body[b] : IsStore(b, k)' <=> IsStore(b, k)
       /\ \A k \in DOMAIN body[b] : body'[b][k] = "load" <=> body[b][k] = "load"

LEMMA SameDefinitions ==
  ASSUME TypeInv, SameAccesses
  PROVE  /\ \A b \in Block : StoresTo(b)' <=> StoresTo(b)
         /\ \A b \in Block : Defines(b)' <=> Defines(b)
         /\ \A b \in Block : Reads(b)' <=> Reads(b)
         /\ \A b \in Block : \A k \in DOMAIN body[b] : DefBefore(b, k)' <=> DefBefore(b, k)
         /\ \A b \in Block : DefBefore(b, Len(body[b]) + 1)' <=> DefBefore(b, Len(body[b]) + 1)
         /\ \A b \in Block : \A k \in DOMAIN body[b] : \A d : Latest(b, k, d)' = Latest(b, k, d)
         /\ \A b \in Block : Above(b)' = Above(b) /\ AtEnd(b)' = AtEnd(b)
         /\ \A b, d : AtStart(b, d)' = AtStart(b, d)
<1>0. \A b \in Block : Len(body[b]) \in Nat /\ DOMAIN body[b] = 1..Len(body[b])
  BY LenProperties DEF TypeInv
<1>1. \A b \in Block : StoresTo(b)' <=> StoresTo(b)
  BY DEF SameAccesses, StoresTo
<1>2. \A b \in Block : Defines(b)' <=> Defines(b)
  BY <1>1 DEF SameAccesses, Defines
<1>3. \A b \in Block : Reads(b)' <=> Reads(b)
  BY DEF SameAccesses, Reads
<1>4. ASSUME NEW b \in Block, NEW k \in 1..(Len(body[b]) + 1) PROVE DefBefore(b, k)' <=> DefBefore(b, k)
  <2>1. \A j \in 1..(k-1) : j \in DOMAIN body[b]
    BY <1>0
  <2>2. \A j \in 1..(k-1) : IsStore(b, j)' <=> IsStore(b, j)
    BY <2>1 DEF SameAccesses
  <2> QED
    BY <1>2, <2>2 DEF SameAccesses, DefBefore
<1>5. ASSUME NEW b \in Block, NEW k \in 0..Len(body[b]) PROVE Stores(b, k)' = Stores(b, k)
  <2>1. \A j \in 1..k : j \in DOMAIN body[b]
    BY <1>0
  <2> QED
    BY <2>1 DEF SameAccesses, Stores
<1>6. \A b \in Block : Definers(b)' = Definers(b)
  BY <1>2 DEF SameAccesses, Definers
<1>7. \A b \in Block : Len(body'[b]) = Len(body[b]) /\ Len(body[b]) \in 0..Len(body[b])
  BY <1>0 DEF SameAccesses
<1>8. LastDef' = LastDef
  <2>1. \A b \in Block : Latest(b, Len(body[b]), PhiOf(b))' = Latest(b, Len(body[b]), PhiOf(b))
    <3> SUFFICES ASSUME NEW b \in Block
                 PROVE  Latest(b, Len(body[b]), PhiOf(b))' = Latest(b, Len(body[b]), PhiOf(b))
      OBVIOUS
    <3>1. PICK n : n = Len(body[b])
      OBVIOUS
    <3>2. Stores(b, n)' = Stores(b, n)
      BY <1>5, <1>7, <3>1
    <3>3. Len(body'[b]) = n
      BY <1>7, <3>1
    <3>4. Latest(b, n, PhiOf(b))' = Latest(b, n, PhiOf(b))
      BY <3>2 DEF Latest, PhiOf
    <3> QED
      BY <3>1, <3>3, <3>4 DEF Latest, Stores, PhiOf
  <2> QED
    BY <2>1 DEF LastDef
<1>9. ASSUME NEW b \in Block PROVE Above(b)' = Above(b) /\ AtEnd(b)' = AtEnd(b)
  <2>1. Definers(b)' = Definers(b) /\ dom' = dom
    BY <1>6 DEF SameAccesses
  <2>2. Above(b)' = Above(b)
    BY <1>8, <2>1 DEF Above
  <2>3. AtEnd(b)' = AtEnd(b)
    BY <1>8, <2>1 DEF AtEnd
  <2> QED
    BY <2>2, <2>3
<1>10. \A b, d : AtStart(b, d)' = AtStart(b, d)
  BY DEF AtStart, PhiOf, SameAccesses
<1>11. \A b \in Block : \A k \in DOMAIN body[b] : \A d : Latest(b, k, d)' = Latest(b, k, d)
  <2> SUFFICES ASSUME NEW b \in Block, NEW k \in DOMAIN body[b], NEW d PROVE Latest(b, k, d)' = Latest(b, k, d)
    OBVIOUS
  <2>1. k \in 0..Len(body[b])
    BY <1>0
  <2> QED
    BY <1>5, <2>1 DEF Latest
<1>12. \A b \in Block : \A k \in DOMAIN body[b] : DefBefore(b, k)' <=> DefBefore(b, k)
  <2>1. \A b \in Block : \A k \in DOMAIN body[b] : k \in 1..(Len(body[b]) + 1)
    BY <1>0
  <2> QED
    BY <1>4, <2>1
<1>13. ASSUME NEW b \in Block PROVE DefBefore(b, Len(body[b]) + 1)' <=> DefBefore(b, Len(body[b]) + 1)
  <2>1. PICK n : n = Len(body[b]) + 1
    OBVIOUS
  <2>2. n \in 1..(Len(body[b]) + 1)
    BY <1>0, <2>1
  <2>3. DefBefore(b, n)' <=> DefBefore(b, n)
    BY <1>4, <2>2
  <2>4. Len(body'[b]) + 1 = n
    BY <1>7, <2>1
  <2> QED
    BY <2>1, <2>3, <2>4 DEF DefBefore
<1> QED
  BY <1>1, <1>2, <1>3, <1>9, <1>10, <1>11, <1>12, <1>13

LEMMA SameConditions ==
  ASSUME TypeInv, SameAccesses
  PROVE  /\ NoLeak' <=> NoLeak
         /\ FrontiersClosed' <=> FrontiersClosed
         /\ FrontiersHavePhis' <=> FrontiersHavePhis
         /\ \A b \in Block : InTree(b)' <=> InTree(b)
         /\ \A b \in Block : ReadsNothing(b)' <=> ReadsNothing(b)
<1>1. dom' = dom /\ graph' = graph /\ phis' = phis
  BY DEF SameAccesses
<1>2. \A b \in Block : TreeSuccs(b)' = TreeSuccs(b)
  BY <1>1 DEF TreeSuccs, InTree, Idom
<1>3. \A b \in Block : \A c \in TreeSuccs(b) : c \in Block
  BY DEF TreeSuccs
<1>4. \A c \in Block : \A x \in dom[c] : x \in Block
  BY DominatorsAreReachable DEF TypeInv
<1>5. \A b \in Block : (Defines(b)' <=> Defines(b)) /\ (Reads(b)' <=> Reads(b)) /\ (StoresTo(b)' <=> StoresTo(b))
  BY SameDefinitions
<1>6. \A b \in Block : ReadsNothing(b)' <=> ReadsNothing(b)
  BY <1>1, <1>4, <1>5 DEF ReadsNothing
<1>7. NoLeak' <=> NoLeak
  <2>1. \A c \in Block : (\E x \in dom[c] : Defines(x)') <=> (\E x \in dom[c] : Defines(x))
    BY <1>4, <1>5
  <2>2. \A c \in Block : (\A x \in dom[c] : ~Reads(x)') <=> (\A x \in dom[c] : ~Reads(x))
    BY <1>4, <1>5
  <2>3. NoLeak' <=> (\A b \in Block : \A c, d \in TreeSuccs(b) :
          c # d /\ (\E x \in dom[c] : Defines(x)') => d \in phis \/ \A y \in dom[d] : ~Reads(y)')
    BY <1>1, <1>2 DEF NoLeak
  <2> QED
    BY <1>3, <2>1, <2>2, <2>3 DEF NoLeak
<1>8. \A b \in Block : Frontiers(b)' = Frontiers(b)
  BY <1>1 DEF Frontiers
<1>9. FrontiersClosed' <=> FrontiersClosed
  BY <1>1, <1>8 DEF FrontiersClosed, TypeInv
<1>10. FrontiersHavePhis' <=> FrontiersHavePhis
  BY <1>1, <1>5, <1>8 DEF FrontiersHavePhis
<1>11. \A b \in Block : InTree(b)' <=> InTree(b)
  BY <1>1 DEF InTree
<1> QED
  BY <1>6, <1>7, <1>9, <1>10, <1>11

-----------------------------------------------------------------------------
(* The queue after a block: without it, and with its children behind.      *)
IsQueue(v, w, T) ==
  /\ v \in Seq(Block)
  /\ \A j \in DOMAIN v :
       \/ j < Len(w) /\ j \in DOMAIN w /\ v[j] = w[j]
       \/ j >= Len(w) /\ v[j] \in T
  /\ \A j, k \in DOMAIN v : j >= Len(w) /\ k >= Len(w) /\ j # k => v[j] # v[k]
  /\ \A j \in DOMAIN w : j < Len(w) => j \in DOMAIN v /\ v[j] = w[j]
  /\ \A c \in T : \E j \in DOMAIN v : v[j] = c

LEMMA OrderIsOnce ==
  ASSUME NEW T \in SUBSET Block, NEW order \in Orders(T)
  PROVE  /\ order \in Seq(Block) /\ order \in Seq(T)
         /\ ToSet(order) = T
         /\ \A j, k \in DOMAIN order : j # k => order[j] # order[k]
<1> DEFINE n == Cardinality(T)
<1>1. IsFiniteSet(T) /\ n \in Nat
  BY BlocksAreFinite, FS_CardinalityType
<1>2. order \in [1..n -> T] /\ ToSet(order) = T
  BY DEF Orders
<1>3. order \in Seq(T) /\ order \in Seq(Block)
  <2> HIDE DEF n
  <2>1. order \in [1..n -> Block]
    BY <1>2
  <2>2. n \in Nat
    BY <1>1
  <2> QED
    BY <1>2, <2>1, <2>2
<1>4. order \in Surjection(1..n, T)
  <2> HIDE DEF n
  <2> QED
    BY <1>2 DEF Surjection, ToSet
<1>5. IsFiniteSet(1..n) /\ Cardinality(1..n) = n
  <2> HIDE DEF n
  <2>1. n \in Int /\ 1 \in Int /\ ~(1 > n) => n - 1 + 1 = n
    OBVIOUS
  <2>2. 1 > n => n = 0
    BY <1>1
  <2> QED
    BY <1>1, <2>1, <2>2, FS_Interval
<1>6. order \in Injection(1..n, T)
  <2> HIDE DEF n
  <2>1. Cardinality(1..n) = Cardinality(T)
    BY <1>5 DEF n
  <2> QED
    BY <1>4, <1>5, <2>1, FS_SurjSameCardinalityImpliesInj
<1>7. \A j, k \in 1..n : j # k => order[j] # order[k]
  <2> HIDE DEF n
  <2> QED
    BY <1>6 DEF Injection, IsInjective
<1> QED
  BY <1>2, <1>3, <1>7

LEMMA QueueAfter ==
  ASSUME NEW w \in Seq(Block), w # <<>>, NEW T \in SUBSET Block, NEW order \in Orders(T)
  PROVE  IsQueue(Front(w) \o order, w, T)
<1> DEFINE n == Len(w)
           m == Len(order)
           v == Front(w) \o order
<1>1. /\ n \in Nat \ {0} /\ DOMAIN w = 1..n
      /\ Front(w) \in Seq(Block) /\ Len(Front(w)) = n - 1
      /\ \A k \in 1..(n-1) : Front(w)[k] = w[k]
  BY FrontAndLast, LenProperties
<1>2. /\ order \in Seq(Block)
      /\ m \in Nat /\ DOMAIN order = 1..m
      /\ ToSet(order) = T
      /\ \A j, k \in 1..m : j # k => order[j] # order[k]
  BY OrderIsOnce, LenProperties
<1>3. /\ v \in Seq(Block)
      /\ Len(v) = (n - 1) + m
      /\ \A i \in 1..((n-1) + m) : v[i] = IF i <= n - 1 THEN Front(w)[i] ELSE order[i - (n-1)]
  <2>1. /\ v \in Seq(Block)
        /\ Len(v) = Len(Front(w)) + m
        /\ \A i \in 1..(Len(Front(w)) + m) :
             v[i] = IF i <= Len(Front(w)) THEN Front(w)[i] ELSE order[i - Len(Front(w))]
    BY <1>1, <1>2, ConcatProperties
  <2>2. Len(Front(w)) = n - 1
    BY <1>1
  <2> HIDE DEF n, m, v
  <2> QED
    BY <2>1, <2>2
<1>4. DOMAIN v = 1..((n-1) + m)
  BY <1>3, LenProperties
<1>5. \A k \in 1..m : order[k] \in T
  BY <1>2 DEF ToSet
<1>6. \A c \in T : \E k \in 1..m : order[k] = c
  BY <1>2 DEF ToSet
<1> HIDE DEF n, m, v
<1>7. ASSUME NEW j \in DOMAIN v
      PROVE  \/ j < n /\ j \in 1..(n-1) /\ v[j] = w[j]
             \/ j >= n /\ j - (n-1) \in 1..m /\ v[j] = order[j - (n-1)]
  BY <1>1, <1>2, <1>3, <1>4
<1>8. \A j \in DOMAIN v :
        \/ j < n /\ j \in DOMAIN w /\ v[j] = w[j]
        \/ j >= n /\ v[j] \in T
  BY <1>1, <1>5, <1>7
<1>9. ASSUME NEW j \in DOMAIN v, NEW k \in DOMAIN v, j >= n, k >= n, j # k
      PROVE  v[j] # v[k]
  <2>1. j \in Int /\ k \in Int /\ n \in Int
    BY <1>1, <1>2, <1>4
  <2>2. v[j] = order[j - (n-1)] /\ v[k] = order[k - (n-1)]
        /\ j - (n-1) \in 1..m /\ k - (n-1) \in 1..m
    BY <1>7, <1>9, <2>1
  <2>3. j - (n-1) # k - (n-1)
    BY <1>9, <2>1
  <2> QED
    BY <1>2, <2>2, <2>3
<1>10. ASSUME NEW j \in DOMAIN w, j < n PROVE j \in DOMAIN v /\ v[j] = w[j]
  BY <1>1, <1>2, <1>3, <1>4, <1>10
<1>11. ASSUME NEW c \in T PROVE \E j \in DOMAIN v : v[j] = c
  <2>1. PICK k \in 1..m : order[k] = c
    BY <1>6
  <2>2. k + (n-1) \in 1..((n-1) + m) /\ ~(k + (n-1) <= n - 1) /\ (k + (n-1)) - (n-1) = k
    BY <1>1, <1>2
  <2> QED
    BY <1>3, <1>4, <2>1, <2>2
<1>12. IsQueue(v, w, T)
  BY <1>3, <1>8, <1>9, <1>10, <1>11 DEF IsQueue, n
<1> QED
  BY <1>12 DEF v

-----------------------------------------------------------------------------
(* One visit, of the block on top of the queue.                            *)
LEMMA LatestIsNotNone ==
  ASSUME NEW b \in Block, NEW k, NEW d, d # None \/ b \in phis \/ Stores(b, k) # {}
  PROVE  Latest(b, k, AtStart(b, d)) # None
<1>1. \A x : <<b, x>> # None
  BY DEF Block, None
<1> QED
  BY <1>1 DEF Latest, AtStart, PhiOf

LEMMA DefBeforeIs ==
  ASSUME TypeInv, NEW b \in Block, NEW k \in Nat, HasDef(b), DefBefore(b, k), NEW n, n = k - 1 \/ n = k
  PROVE  Top(defStack) # None \/ b \in phis \/ Stores(b, n) # {}
<1>1. \A j \in 1..(k-1) : j \in 1..n
  OBVIOUS
<1> QED
  BY <1>1 DEF DefBefore, HasDef, Stores

(* What WalkBlock does to the block it visits, and to the others.          *)
VisitOf(b) ==
  /\ replaced'[b] = [k \in DOMAIN body[b] |-> IF body[b][k] = "load" THEN ReachingDef(b, k) ELSE None]
  /\ \A c \in Block \ {b} : replaced'[c] = replaced[c]
  /\ \A s \in Block :
       LET fills == IncomingDef(b) # None /\ s \in phis /\ IsEdge(graph, b, s)
       IN  /\ incoming'[s][b] = IF fills THEN IncomingDef(b) ELSE incoming[s][b]
           /\ entries'[s][b] = entries[s][b] + (IF fills THEN EdgesTo(b, s) ELSE 0)
  /\ \A s \in Block, c \in Block \ {b} :
       incoming'[s][c] = incoming[s][c] /\ entries'[s][c] = entries[s][c]

LEMMA WalkBlockVisits ==
  ASSUME TypeInv, WalkBlock, NEW b \in Block, b = Last(work)
  PROVE  VisitOf(b)
<1> DEFINE end == IncomingDef(b)
           filled == IF end = None THEN {} ELSE phis \cap ToSet(Succs(graph, b))
<1>1. /\ replaced' = [replaced EXCEPT ![b] =
           [k \in DOMAIN body[b] |-> IF body[b][k] = "load" THEN ReachingDef(b, k) ELSE None]]
      /\ incoming' = [s \in Block |-> [incoming[s] EXCEPT ![b] = IF s \in filled THEN end ELSE @]]
      /\ entries' = [s \in Block |-> [entries[s] EXCEPT ![b] = @ + (IF s \in filled THEN EdgesTo(b, s) ELSE 0)]]
  BY DEF WalkBlock
<1>2. \A s : s \in filled <=> end # None /\ s \in phis /\ IsEdge(graph, b, s)
  BY DEF IsEdge, Succs
<1>3. /\ replaced'[b] = [k \in DOMAIN body[b] |-> IF body[b][k] = "load" THEN ReachingDef(b, k) ELSE None]
      /\ \A c \in Block \ {b} : replaced'[c] = replaced[c]
  <2>1. DOMAIN replaced = Block /\ replaced = [c \in Block |-> replaced[c]]
    BY DEF TypeInv
  <2> QED
    BY <1>1, <2>1
<1> HIDE DEF filled
<1>4. ASSUME NEW s \in Block, NEW c \in Block
      PROVE  /\ incoming'[s][c] = IF c = b THEN IF s \in filled THEN end ELSE incoming[s][c] ELSE incoming[s][c]
             /\ entries'[s][c] = IF c = b THEN entries[s][c] + (IF s \in filled THEN EdgesTo(b, s) ELSE 0)
                                 ELSE entries[s][c]
  <2>1. incoming[s] \in [Block -> Def] /\ entries[s] \in [Block -> Nat]
    BY DEF TypeInv
  <2>2. incoming'[s] = [incoming[s] EXCEPT ![b] = IF s \in filled THEN end ELSE @]
    BY <1>1
  <2>3. entries'[s] = [entries[s] EXCEPT ![b] = @ + (IF s \in filled THEN EdgesTo(b, s) ELSE 0)]
    BY <1>1
  <2> HIDE DEF end
  <2> QED
    BY <2>1, <2>2, <2>3
<1>5. \A s \in Block, c \in Block \ {b} :
        incoming'[s][c] = incoming[s][c] /\ entries'[s][c] = entries[s][c]
  BY <1>4
<1>6. \A s \in Block :
        LET fills == IncomingDef(b) # None /\ s \in phis /\ IsEdge(graph, b, s)
        IN  /\ incoming'[s][b] = IF fills THEN IncomingDef(b) ELSE incoming[s][b]
            /\ entries'[s][b] = entries[s][b] + (IF fills THEN EdgesTo(b, s) ELSE 0)
  BY <1>2, <1>4
<1> QED
  BY <1>3, <1>5, <1>6 DEF VisitOf

(* A block that branches to another, and not on both sides, has one edge   *)
(* there.                                                                  *)
LEMMA OneEdge ==
  ASSUME TypeInv, NEW b \in Block, NEW s \in Block, IsEdge(graph, b, s), graph[b] # <<s, s>>
  PROVE  EdgesTo(b, s) = 1
<1>1. /\ graph[b] \in Seq(Block) /\ Len(graph[b]) \in 0..2 /\ DOMAIN graph[b] = 1..Len(graph[b])
  BY DestinationsAreBlocks DEF TypeInv
<1>2. PICK k \in 1..Len(graph[b]) : graph[b][k] = s
  BY <1>1 DEF IsEdge, ToSet
<1>3. ASSUME NEW j \in 1..Len(graph[b]), graph[b][j] = s, j # k PROVE FALSE
  <2>1. Len(graph[b]) = 2 /\ graph[b][1] = s /\ graph[b][2] = s
    BY <1>1, <1>2, <1>3
  <2>2. <<s, s>> \in Seq(Block) /\ Len(<<s, s>>) = 2
    OBVIOUS
  <2>3. \A i \in 1..2 : graph[b][i] = <<s, s>>[i]
    BY <2>1
  <2>4. graph[b] = <<s, s>>
    BY <1>1, <2>1, <2>2, <2>3, SeqEqual
  <2> QED
    BY <2>4
<1>4. {j \in DOMAIN graph[b] : graph[b][j] = s} = {k}
  BY <1>1, <1>2, <1>3
<1> QED
  BY <1>4, FS_Singleton DEF EdgesTo

LEMMA VisitedHere ==
  ASSUME TypeInv, ~Promoted, FrontiersHavePhis, WalkBlock, SameAccesses,
         NEW b \in Block, b = Last(work), Pending(b)
  PROVE  Visited(b)'
<1> DEFINE n == Len(body[b])
           end == IncomingDef(b)
           d == Top(defStack)
<1>1. /\ n \in Nat /\ DOMAIN body[b] = 1..n /\ b \in dom[b]
      /\ InTree(b) /\ HasDef(b) /\ KnowsDef(b) /\ Untouched(b)
  BY LenProperties DEF TypeInv, Pending, InTree
<1>2. VisitOf(b)
  BY WalkBlockVisits
<1>3. graph' = graph /\ phis' = phis /\ DOMAIN body'[b] = DOMAIN body[b] /\ Len(body'[b]) = n
      /\ \A k \in DOMAIN body[b] : body'[b][k] = "load" <=> body[b][k] = "load"
  BY DEF SameAccesses
<1>4. \A k \in 0..n : Top(StackAfter(b, k)) = Latest(b, k, AtStart(b, d))
  BY StackTop DEF StackIs
<1>5. end = Latest(b, n, AtStart(b, d))
  BY <1>1, <1>4 DEF IncomingDef
<1>6. \A k \in DOMAIN body[b] : body[b][k] = "load" => replaced'[b][k] = Latest(b, k, AtStart(b, d))
  BY <1>1, <1>2, <1>4 DEF VisitOf, ReachingDef
<1>7. \A s \in Block : incoming[s][b] = None /\ entries[s][b] = 0
  BY <1>1 DEF Untouched
<1>8. \A s \in phis : s \in Block
  BY DEF TypeInv
<1>9. \A s \in phis : IsEdge(graph, b, s) => incoming'[s][b] = end
  BY <1>2, <1>7, <1>8 DEF VisitOf
<1>10. LoadsDone(b)'
  <2> SUFFICES ASSUME NEW k \in DOMAIN body[b], body[b][k] = "load", DefBefore(b, k)
               PROVE replaced'[b][k] # None
    BY <1>3, SameDefinitions DEF LoadsDone
  <2>1. d # None \/ b \in phis \/ Stores(b, k) # {}
    BY <1>1, DefBeforeIs
  <2> QED
    BY <1>6, <2>1, LatestIsNotNone
<1>11. PhisDone(b)'
  <2> SUFFICES ASSUME NEW s \in phis, IsEdge(graph, b, s), DefBefore(b, n + 1)
               PROVE incoming'[s][b] # None
    BY <1>3, SameDefinitions DEF PhisDone
  <2>1. n + 1 \in Nat /\ n = (n + 1) - 1
    BY <1>1
  <2>2. d # None \/ b \in phis \/ Stores(b, n) # {}
    <3> HIDE DEF n
    <3> QED
      BY <1>1, <2>1, DefBeforeIs
  <2> QED
    BY <1>5, <1>9, <2>2, LatestIsNotNone
<1>12. EntriesMatch(b)'
  <2> SUFFICES ASSUME NEW s \in phis, graph[b] # <<s, s>>
               PROVE entries'[s][b] = Cardinality({incoming'[s][b]} \ {None})
    BY <1>3 DEF EntriesMatch
  <2> HIDE DEF end
  <2>1. CASE end # None /\ IsEdge(graph, b, s)
    <3>1. incoming'[s][b] = end /\ entries'[s][b] = 0 + EdgesTo(b, s)
      BY <1>2, <1>7, <1>8, <2>1 DEF VisitOf, end
    <3>2. entries'[s][b] = 1
      BY <1>8, <2>1, <3>1, OneEdge
    <3>3. {incoming'[s][b]} \ {None} = {end}
      BY <2>1, <3>1
    <3> QED
      BY <3>2, <3>3, FS_Singleton
  <2>2. CASE ~(end # None /\ IsEdge(graph, b, s))
    <3>1. incoming'[s][b] = None /\ entries'[s][b] = 0
      BY <1>2, <1>7, <1>8, <2>2 DEF VisitOf, end
    <3>2. {incoming'[s][b]} \ {None} = {}
      BY <3>1
    <3> QED
      BY <3>1, <3>2, FS_EmptySet
  <2> QED
    BY <2>1, <2>2
<1>13. ASSUME NoLeak PROVE LoadsRight(b)' /\ IncomingRight(b)'
  <2>1. d = Above(b) \/ b \in phis \/ ReadsNothing(b)
    BY <1>1, <1>13 DEF KnowsDef
  <2>2. CASE ReadsNothing(b)
    <3>1. ~Reads(b)
      BY <1>1, <2>2 DEF ReadsNothing
    <3>2. \A k \in DOMAIN body[b] : body[b][k] # "load"
      BY <3>1 DEF Reads
    <3>3. \A s \in phis : ~IsEdge(graph, b, s)
      BY <3>1 DEF Reads, IsEdge, Succs
    <3> QED
      BY <1>3, <3>2, <3>3 DEF LoadsRight, IncomingRight
  <2>3. CASE d = Above(b) \/ b \in phis
    <3>1. AtStart(b, d) = AtStart(b, Above(b))
      BY <2>3 DEF AtStart
    <3>2. \A k \in DOMAIN body[b] : body[b][k] = "load" => replaced'[b][k] = Latest(b, k, AtStart(b, Above(b)))
      BY <1>6, <3>1
    <3>3. end = AtEnd(b)
      BY <1>1, <1>5, <3>1, AtEndIs
    <3>4. AtEnd(b)' = AtEnd(b) /\ Above(b)' = Above(b)
      BY SameDefinitions
    <3>5. LoadsRight(b)'
      <4> SUFFICES ASSUME NEW k \in DOMAIN body[b], body[b][k] = "load"
                   PROVE replaced'[b][k] = Latest(b, k, AtStart(b, Above(b)))'
        BY <1>3 DEF LoadsRight
      <4>1. Latest(b, k, AtStart(b, Above(b)))' = Latest(b, k, AtStart(b, Above(b)))
        BY <3>4, SameDefinitions DEF AtStart, PhiOf, SameAccesses, Latest
      <4> QED
        BY <3>2, <4>1
    <3>6. IncomingRight(b)'
      BY <1>3, <1>9, <3>3, <3>4 DEF IncomingRight
    <3> QED
      BY <3>5, <3>6
  <2> QED
    BY <2>1, <2>2, <2>3
<1>14. NoLeak' => NoLeak
  BY SameConditions
<1> QED
  BY <1>10, <1>11, <1>12, <1>13, <1>14 DEF Visited

(* The other blocks of the queue stay pending: a definition in the visited *)
(* block is in a sibling's subtree for them.                               *)
LEMMA SiblingDefines ==
  ASSUME TypeInv, NoLeak, NEW x \in Block, InTree(x), NEW b \in Block, InTree(b), Apart(dom, x, b), Defines(b)
  PROVE  x \in phis \/ ReadsNothing(x)
<1> DEFINE q == Idom(x)
<1>1. /\ x \in dom[x] /\ b \in dom[b] /\ x # Entry /\ b \in dom[q]
      /\ dom[x] \cap dom[b] = {}
  BY DEF Apart, InTree, Idom
<1>2. q \in Block
  BY <1>1, HasImmediateDominator DEF TypeInv, Idom
<1>3. x \in ChildrenIn(dom, q)
  BY <1>1 DEF ChildrenIn, Idom
<1>4. x \in dom[q]
  BY <1>2, <1>3, DominatorsOfChild DEF TypeInv
<1> HIDE DEF q
<1>5. b # q
  BY <1>1, <1>4
<1>6. PICK d \in ChildrenIn(dom, q) : b \in dom[d]
  BY <1>1, <1>2, <1>5, BelowIsBelowChild DEF TypeInv
<1>7. d # x
  BY <1>1, <1>6
<1>8. x \in TreeSuccs(q) /\ d \in TreeSuccs(q)
  BY <1>3, <1>6, SuccsAreChildren
<1> QED
  BY <1>2, <1>6, <1>7, <1>8 DEF NoLeak, ReadsNothing

(* The stack after the visit of b.                                         *)
LEMMA StackAfterVisit ==
  ASSUME TypeInv, ~Promoted, WalkBlock, NEW b \in Block, b = Last(work)
  PROVE  /\ defStack' \in Seq(Place)
         /\ Top(defStack') = Latest(b, Len(body[b]), AtStart(b, Top(defStack)))
         /\ ~Defines(b) => Top(defStack') = Top(defStack)
         /\ Top(defStack) # None \/ Defines(b) => Top(defStack') # None
<1> DEFINE n == Len(body[b])
<1>1. n \in Nat /\ DOMAIN body[b] = 1..n
  BY LenProperties DEF TypeInv
<1>2. defStack' = StackAfter(b, n)
  BY DEF WalkBlock
<1>3. n \in 0..n
  BY <1>1
<1>4. defStack' \in Seq(Place) /\ Top(defStack') = Latest(b, n, AtStart(b, Top(defStack)))
  BY <1>2, <1>3, StackTop DEF StackIs
<1>5. Defines(b) <=> b \in phis \/ Stores(b, n) # {}
  BY <1>1 DEF Defines, StoresTo, Stores
<1>6. ~Defines(b) => Top(defStack') = Top(defStack)
  BY <1>4, <1>5 DEF Latest, AtStart
<1>7. Top(defStack) # None \/ Defines(b) => Top(defStack') # None
  BY <1>4, <1>5, LatestIsNotNone
<1> QED
  BY <1>4, <1>6, <1>7

LEMMA OthersStayPending ==
  ASSUME TypeInv, ~Promoted, WalkBlock, SameAccesses, NEW b \in Block, b = Last(work), Pending(b),
         NEW x \in Block, Pending(x), Apart(dom, x, b)
  PROVE  Pending(x)'
<1>1. InTree(x) /\ HasDef(x) /\ KnowsDef(x) /\ InTree(b) /\ \A y \in dom[x] : Untouched(y)
  BY DEF Pending
<1>2. HasDef(x)'
  <2>1. dom' = dom /\ \A a \in Block : Defines(a)' <=> Defines(a)
    BY SameDefinitions DEF SameAccesses
  <2> QED
    BY <1>1, <2>1, StackAfterVisit DEF HasDef
<1>3. KnowsDef(x)'
  <2> SUFFICES ASSUME NoLeak PROVE Top(defStack') = Above(x) \/ x \in phis \/ ReadsNothing(x)
    BY SameConditions, SameDefinitions DEF KnowsDef, SameAccesses
  <2>1. CASE Defines(b)
    BY <1>1, <2>1, SiblingDefines
  <2>2. CASE ~Defines(b)
    BY <1>1, <2>2, StackAfterVisit DEF KnowsDef
  <2> QED
    BY <2>1, <2>2
<1>4. ASSUME NEW y \in dom[x] PROVE Untouched(y)'
  <2>1. y # b /\ y \in Block
    BY <1>1, DominatorsAreReachable DEF Apart, InTree, TypeInv
  <2>2. VisitOf(b)
    BY WalkBlockVisits
  <2> QED
    BY <1>1, <2>1, <2>2 DEF VisitOf, Untouched
<1>5. InTree(x)' /\ dom' = dom
  BY <1>1, SameConditions DEF SameAccesses
<1> QED
  BY <1>2, <1>3, <1>4, <1>5 DEF Pending

LEMMA ChildrenArePending ==
  ASSUME TypeInv, ~Promoted, WalkBlock, SameAccesses, NEW b \in Block, b = Last(work), Pending(b),
         NEW c \in TreeSuccs(b)
  PROVE  Pending(c)'
<1>1. /\ InTree(b) /\ HasDef(b) /\ KnowsDef(b) /\ \A y \in dom[b] : Untouched(y)
      /\ c \in Block /\ InTree(c) /\ c \in ChildrenIn(dom, b)
  BY SuccsAreChildren DEF Pending, TreeSuccs
<1>2. /\ c \in dom[b] /\ b # c
      /\ \A a \in Block \ {c} : c \in dom[a] => b \in dom[a]
      /\ b \notin dom[c]
      /\ dom[c] \subseteq dom[b]
  <2>1. c \in dom[b] /\ b # c /\ \A a \in Block \ {c} : c \in dom[a] => b \in dom[a]
    BY <1>1, DominatorsOfChild DEF TypeInv
  <2>2. b \notin dom[c]
    BY <1>1, <2>1, DominanceAntisymmetric DEF TypeInv
  <2>3. dom[c] \subseteq dom[b]
    BY <2>1, DominatesTransitively DEF TypeInv
  <2> QED
    BY <2>1, <2>2, <2>3
<1>3. HasDef(c)'
  <2>1. dom' = dom /\ \A a \in Block : Defines(a)' <=> Defines(a)
    BY SameDefinitions DEF SameAccesses
  <2> SUFFICES ASSUME NEW a \in Block \ {c}, c \in dom[a], Defines(a) PROVE Top(defStack') # None
    BY <2>1 DEF HasDef
  <2>2. b \in dom[a]
    BY <1>2
  <2> QED
    BY <1>1, <2>2, StackAfterVisit DEF HasDef
<1>4. KnowsDef(c)'
  <2> SUFFICES ASSUME NoLeak PROVE Top(defStack') = Above(c) \/ c \in phis \/ ReadsNothing(c)
    BY <1>1, SameConditions, SameDefinitions DEF KnowsDef, SameAccesses
  <2>1. Above(c) = Latest(b, Len(body[b]), AtStart(b, Above(b)))
    BY <1>1, AboveChild, AtEndIs
  <2>2. Top(defStack') = Latest(b, Len(body[b]), AtStart(b, Top(defStack)))
    BY StackAfterVisit
  <2>3. Top(defStack) = Above(b) \/ b \in phis \/ ReadsNothing(b)
    BY <1>1 DEF KnowsDef
  <2> QED
    BY <1>2, <2>1, <2>2, <2>3 DEF AtStart, ReadsNothing
<1>5. ASSUME NEW y \in dom[c] PROVE Untouched(y)'
  <2>1. y # b /\ y \in Block /\ y \in dom[b]
    BY <1>1, <1>2, DominatorsAreReachable DEF TypeInv
  <2>2. VisitOf(b)
    BY WalkBlockVisits
  <2> QED
    BY <1>1, <2>1, <2>2 DEF VisitOf, Untouched
<1>6. InTree(c)' /\ dom' = dom
  BY <1>1, SameConditions DEF SameAccesses
<1> QED
  BY <1>3, <1>4, <1>5, <1>6 DEF Pending

(* A block that is not visited keeps what it has.                          *)
SameResults(c) ==
  /\ replaced'[c] = replaced[c]
  /\ \A s \in Block : incoming'[s][c] = incoming[s][c] /\ entries'[s][c] = entries[s][c]

LEMMA ResultsKept ==
  ASSUME TypeInv, SameAccesses, NEW c \in Block, SameResults(c)
  PROVE  /\ Visited(c) => Visited(c)'
         /\ Untouched(c) => Untouched(c)'
<1>1. /\ graph' = graph /\ phis' = phis /\ DOMAIN body'[c] = DOMAIN body[c] /\ Len(body'[c]) = Len(body[c])
      /\ \A k \in DOMAIN body[c] : body'[c][k] = "load" <=> body[c][k] = "load"
  BY DEF SameAccesses
<1>2. \A s \in phis : s \in Block
  BY DEF TypeInv
<1>3. LoadsDone(c) => LoadsDone(c)'
  BY <1>1, SameDefinitions DEF LoadsDone, SameResults
<1>4. PhisDone(c) => PhisDone(c)'
  <2>1. DefBefore(c, Len(body[c]) + 1)' <=> DefBefore(c, Len(body[c]) + 1)
    BY SameDefinitions
  <2> QED
    BY <1>1, <1>2, <2>1 DEF PhisDone, SameResults
<1>5. EntriesMatch(c) => EntriesMatch(c)'
  BY <1>1, <1>2 DEF EntriesMatch, SameResults
<1>6. LoadsRight(c) => LoadsRight(c)'
  <2> SUFFICES ASSUME LoadsRight(c), NEW k \in DOMAIN body[c], body[c][k] = "load"
               PROVE replaced'[c][k] = Latest(c, k, AtStart(c, Above(c)))'
    BY <1>1 DEF LoadsRight
  <2>1. Above(c)' = Above(c)
    BY SameDefinitions
  <2>2. Latest(c, k, AtStart(c, Above(c)))' = Latest(c, k, AtStart(c, Above(c)))
    BY <2>1, SameDefinitions DEF AtStart, PhiOf, SameAccesses, Latest
  <2> QED
    BY <2>2 DEF LoadsRight, SameResults
<1>7. IncomingRight(c) => IncomingRight(c)'
  BY <1>1, <1>2, SameDefinitions DEF IncomingRight, SameResults
<1>8. NoLeak' => NoLeak
  BY SameConditions
<1>9. Untouched(c) => Untouched(c)'
  BY DEF Untouched, SameResults
<1> QED
  BY <1>3, <1>4, <1>5, <1>6, <1>7, <1>8, <1>9 DEF Visited

-----------------------------------------------------------------------------
(* The steps of the pass preserve the invariant.                           *)
LEMMA WalkBlockSame == ASSUME TypeInv, WalkBlock PROVE SameAccesses
<1>1. graph' = graph /\ dom' = dom /\ phis' = phis /\ body' = body
  BY DEF WalkBlock
<1> QED
  BY <1>1 DEF SameAccesses, IsStore

LEMMA WalkBlockType == ASSUME TypeInv, ~Promoted, WalkBlock PROVE TypeInv'
<1> DEFINE b == Last(work)
<1>1. work # <<>> /\ work \in Seq(Block)
  BY DEF WalkBlock, TypeInv
<1>2. b \in Block /\ Front(work) \in Seq(Block)
  BY <1>1, FrontAndLast
<1> HIDE DEF b
<1>3. defStack' \in Seq(Place)
  BY <1>2, StackAfterVisit DEF b
<1>4. work' \in Seq(Block)
  <2>1. PICK order \in Orders(TreeSuccs(b)) : work' = Front(work) \o order
    BY DEF WalkBlock, b
  <2>2. TreeSuccs(b) \in SUBSET Block
    BY DEF TreeSuccs
  <2>3. IsQueue(Front(work) \o order, work, TreeSuccs(b))
    BY <1>1, <2>2, QueueAfter
  <2> QED
    BY <2>1, <2>3 DEF IsQueue
<1>5. replaced' = [c \in Block |-> replaced'[c]]
  <2>1. replaced' = [replaced EXCEPT ![b] =
           [k \in DOMAIN body[b] |-> IF body[b][k] = "load" THEN ReachingDef(b, k) ELSE None]]
    BY DEF WalkBlock, b
  <2>2. replaced = [c \in Block |-> replaced[c]]
    BY DEF TypeInv
  <2> QED
    BY <2>1, <2>2
<1> DEFINE end == IncomingDef(b)
           filled == IF end = None THEN {} ELSE phis \cap ToSet(Succs(graph, b))
<1>6. end \in Def
  <2>1. Len(body[b]) \in Nat /\ Len(body[b]) \in 0..Len(body[b])
    BY <1>2, LenProperties DEF TypeInv
  <2>2. StackAfter(b, Len(body[b])) \in Seq(Place)
    BY <1>2, <2>1, StackTop DEF StackIs
  <2> DEFINE s == StackAfter(b, Len(body[b]))
  <2>3. s \in Seq(Place)
    BY <2>2
  <2>4. end = Top(s)
    BY DEF IncomingDef
  <2> HIDE DEF s
  <2>5. s # <<>> => Last(s) \in Place
    BY <2>3, FrontAndLast
  <2> QED
    BY <2>4, <2>5 DEF Top, Def
<1>7. /\ incoming' = [s \in Block |-> [incoming[s] EXCEPT ![b] = IF s \in filled THEN end ELSE @]]
      /\ entries' = [s \in Block |-> [entries[s] EXCEPT ![b] = @ + (IF s \in filled THEN EdgesTo(b, s) ELSE 0)]]
  BY DEF WalkBlock, b
<1> HIDE DEF end, filled
<1>8. incoming' \in [Block -> [Block -> Def]]
  BY <1>2, <1>6, <1>7 DEF TypeInv
<1>9. \A s : EdgesTo(b, s) \in Nat
  <2> SUFFICES ASSUME NEW s PROVE EdgesTo(b, s) \in Nat
    OBVIOUS
  <2>1. graph[b] \in Seq(Block) /\ Len(graph[b]) \in Nat /\ DOMAIN graph[b] = 1..Len(graph[b])
    BY <1>2, DestinationsAreBlocks DEF TypeInv
  <2>2. IsFiniteSet(DOMAIN graph[b])
    <3> DEFINE m == Len(graph[b])
    <3>1. m \in Int /\ DOMAIN graph[b] = 1..m
      BY <2>1
    <3> HIDE DEF m
    <3> QED
      BY <3>1, FS_Interval
  <2>3. {k \in DOMAIN graph[b] : graph[b][k] = s} \in SUBSET (DOMAIN graph[b])
    OBVIOUS
  <2> QED
    BY <2>2, <2>3, FS_Subset, FS_CardinalityType DEF EdgesTo
<1>10. entries' \in [Block -> [Block -> Nat]]
  <2>1. \A s \in Block : entries[s] \in [Block -> Nat]
    BY DEF TypeInv
  <2>2. \A s \in Block : entries[s][b] + (IF s \in filled THEN EdgesTo(b, s) ELSE 0) \in Nat
    BY <1>2, <1>9, <2>1
  <2>3. \A s \in Block :
          [entries[s] EXCEPT ![b] = @ + (IF s \in filled THEN EdgesTo(b, s) ELSE 0)] \in [Block -> Nat]
    BY <1>2, <2>1, <2>2
  <2> QED
    BY <1>7, <2>3
<1>11. UNCHANGED <<graph, dom, body, phase, phis>>
  BY DEF WalkBlock
<1> QED
  BY <1>3, <1>4, <1>5, <1>8, <1>10, <1>11 DEF TypeInv

LEMMA WalkBlockInv == ASSUME TypeInv, WalkInv, WalkBlock PROVE WalkInv'
<1> DEFINE n == Len(work)
<1>0. PICK b : b = Last(work)
  OBVIOUS
<1>1. work # <<>> /\ work \in Seq(Block) /\ ~Promoted /\ SameAccesses
  BY WalkBlockSame DEF WalkBlock, TypeInv, WalkInv
<1>2. n \in Nat \ {0} /\ n \in DOMAIN work /\ DOMAIN work = 1..n /\ b = work[n] /\ b \in Block
  <2>1. n \in Nat \ {0} /\ DOMAIN work = 1..n /\ b = work[n] /\ b \in Block
    BY <1>0, <1>1, FrontAndLast, LenProperties
  <2> HIDE DEF n
  <2> QED
    BY <2>1
<1>3. Pending(b)
  BY <1>2 DEF WalkInv, ToSet
<1>4. PICK order \in Orders(TreeSuccs(b)) : work' = Front(work) \o order
  BY <1>0 DEF WalkBlock
<1>5. IsQueue(work', work, TreeSuccs(b))
  <2>1. TreeSuccs(b) \in SUBSET Block
    BY DEF TreeSuccs
  <2> QED
    BY <1>1, <1>4, <2>1, QueueAfter
<1>6. VisitOf(b) /\ Visited(b)'
  BY <1>0, <1>1, <1>2, <1>3, WalkBlockVisits, VisitedHere DEF WalkInv
<1> HIDE DEF n
<1>7. \A j \in DOMAIN work : work[j] \in Block /\ InTree(work[j]) /\ work[j] \in dom[work[j]] /\ Pending(work[j])
  BY <1>1, <1>2, LenProperties DEF WalkInv, Pending, InTree, ToSet
<1>8. \A j \in DOMAIN work : j < n => Apart(dom, work[j], b)
  BY <1>2 DEF WalkInv
<1>9. \A j \in DOMAIN work' :
        \/ j < n /\ j \in DOMAIN work /\ work'[j] = work[j]
        \/ j >= n /\ work'[j] \in TreeSuccs(b)
  BY <1>5 DEF IsQueue, n
<1>10. \A c \in TreeSuccs(b) : c \in Block /\ c \in ChildrenIn(dom, b) /\ c # Entry /\ InTree(c) /\ Idom(c) = b
  BY SuccsAreChildren DEF TreeSuccs
<1>11. \A c \in TreeSuccs(b) : c \in dom[b] /\ dom[c] \subseteq dom[b]
  BY <1>2, <1>10, DominatorsOfChild, DominatesTransitively DEF TypeInv
<1>12. ASSUME NEW x \in ToSet(work') PROVE Pending(x)'
  <2>0. PICK j \in DOMAIN work' : x = work'[j]
    BY DEF ToSet
  <2>1. CASE j < n /\ j \in DOMAIN work /\ work'[j] = work[j]
    <3>1. Pending(x) /\ Apart(dom, x, b) /\ x \in Block
      BY <1>7, <1>8, <2>0, <2>1
    <3> QED
      BY <1>0, <1>1, <1>2, <1>3, <3>1, OthersStayPending
  <2>2. CASE j >= n /\ work'[j] \in TreeSuccs(b)
    BY <1>0, <1>1, <1>2, <1>3, <2>0, <2>2, ChildrenArePending
  <2> QED
    BY <1>9, <2>1, <2>2
<1>13. ASSUME NEW j \in DOMAIN work', NEW k \in DOMAIN work', j < k
       PROVE  Apart(dom, work'[j], work'[k])
  <2>0. j \in Nat /\ k \in Nat /\ n \in Nat
    BY <1>2, <1>5, LenProperties DEF IsQueue
  <2>1. CASE k < n
    <3>1. j \in DOMAIN work /\ k \in DOMAIN work /\ work'[j] = work[j] /\ work'[k] = work[k]
      BY <1>9, <1>13, <2>0, <2>1
    <3> QED
      BY <1>13, <3>1 DEF WalkInv
  <2>2. CASE j < n /\ k >= n
    <3>1. j \in DOMAIN work /\ work'[j] = work[j] /\ work'[k] \in TreeSuccs(b)
      BY <1>9, <2>0, <2>2
    <3>2. Apart(dom, work[j], b)
      BY <1>8, <2>2, <3>1
    <3>3. work'[k] \in dom[b] /\ dom[work'[k]] \subseteq dom[b]
      BY <1>11, <3>1
    <3>4. ImmediateDominator(dom, work[j]) \in Block
      BY <1>7, <3>1, <3>2, HasImmediateDominator DEF Apart, TypeInv
    <3>5. work'[k] \in dom[ImmediateDominator(dom, work[j])]
      BY <3>2, <3>3, <3>4, DominatesTransitively DEF Apart, TypeInv
    <3> QED
      BY <3>1, <3>2, <3>3, <3>5 DEF Apart
  <2>3. CASE j >= n /\ k >= n
    <3>1. work'[j] \in TreeSuccs(b) /\ work'[k] \in TreeSuccs(b)
      BY <1>9, <2>0, <2>3
    <3>2. work'[j] # work'[k]
      BY <1>5, <1>13, <2>0, <2>3 DEF IsQueue, n
    <3>3. dom[work'[j]] \cap dom[work'[k]] = {}
      BY <1>2, <1>10, <3>1, <3>2, ChildrenAreDisjoint DEF TypeInv
    <3> QED
      BY <1>10, <1>11, <3>1, <3>3 DEF Apart, Idom
  <2> QED
    BY <1>13, <2>0, <2>1, <2>2, <2>3
<1>14. ASSUME NEW x \in Block, x # b PROVE SameResults(x)
  BY <1>6, <1>14 DEF VisitOf, SameResults
<1>15. ASSUME NEW x \in Block, InTree(x)
       PROVE  Visited(x)' \/ \E y \in ToSet(work') : x \in dom[y]
  <2>1. CASE x = b
    BY <1>6, <2>1
  <2>2. CASE x # b /\ Visited(x)
    BY <1>1, <1>14, <2>2, ResultsKept
  <2>3. CASE x # b /\ \E y \in ToSet(work) : x \in dom[y]
    <3>1. PICK j \in DOMAIN work : x \in dom[work[j]]
      BY <2>3 DEF ToSet
    <3>2. CASE j < n
      BY <1>5, <3>1, <3>2 DEF IsQueue, n, ToSet
    <3>3. CASE j = n
      <4>1. x \in dom[b]
        BY <1>2, <3>1, <3>3
      <4>2. PICK c \in ChildrenIn(dom, b) : x \in dom[c]
        BY <1>2, <2>3, <4>1, BelowIsBelowChild DEF TypeInv
      <4>3. c \in TreeSuccs(b)
        BY <4>2, SuccsAreChildren
      <4> QED
        BY <1>5, <4>2, <4>3 DEF IsQueue, ToSet
    <3> QED
      BY <1>2, <3>2, <3>3
  <2> QED
    BY <1>15, <2>1, <2>2, <2>3 DEF WalkInv
<1>16. ASSUME NEW x \in Block, ~InTree(x) PROVE Untouched(x)'
  <2>1. x # b
    BY <1>3, <1>16 DEF Pending
  <2> QED
    BY <1>1, <1>14, <1>16, <2>1, ResultsKept DEF WalkInv
<1>17. body' = body /\ dom' = dom
  BY DEF WalkBlock
<1>18. Promoted' <=> Promoted
  BY <1>17 DEF Promoted
<1>19. Places("escape")' = Places("escape") /\ Places("store")' = Places("store")
  BY <1>17 DEF Places
<1>20. FrontiersHavePhis' /\ \A x \in Block : InTree(x)' <=> InTree(x)
  BY <1>1, SameConditions DEF WalkInv
<1> QED
  BY <1>1, <1>12, <1>13, <1>15, <1>16, <1>17, <1>18, <1>19, <1>20 DEF WalkInv

(* Places(kind) in other words.                                            *)
LEMMA PlacesAre ==
  ASSUME NEW kind
  PROVE  \A p : p \in Places(kind) <=>
           \E b \in Block : \E k \in DOMAIN body[b] : p = <<b, k>> /\ body[b][k] = kind
BY DEF Places

LEMMA PassInitInv == PassInit => TypeInv /\ PassInv
<1> SUFFICES ASSUME PassInit PROVE TypeInv /\ PassInv
  OBVIOUS
<1>1. PICK f \in Functions : graph = f.graph /\ body = f.body
  BY DEF PassInit
<1>2. graph \in CfgGraph /\ body \in [Block -> Seq(Access)]
  BY <1>1, FunctionsAssumption
<1>3. ~Promoted
  <2> SUFFICES ASSUME NEW b \in Block, NEW k \in DOMAIN body[b], body[b][k] = "removed" PROVE FALSE
    BY DEF Promoted
  <2>1. body[b] \in Seq(Access) /\ k \in 1..Len(body[b])
    BY <1>2, LenProperties
  <2>2. body[b][k] \in Access
    BY <2>1, ElementOfSeq
  <2> QED
    BY <2>2 DEF Access
<1>4. body \in [Block -> Seq(Access \cup {"removed"})]
  <2>1. \A b \in Block : body[b] \in Seq(Access \cup {"removed"})
    BY <1>2, SeqMonotonic
  <2> QED
    BY <1>2, <2>1
<1>5. TypeInv
  <2>1. replaced = [b \in Block |-> replaced[b]]
    BY DEF PassInit
  <2>2. incoming \in [Block -> [Block -> Def]] /\ entries \in [Block -> [Block -> Nat]]
    BY DEF PassInit, Def
  <2>3. defStack \in Seq(Place) /\ work \in Seq(Block)
    BY DEF PassInit
  <2> QED
    BY <1>2, <1>4, <2>1, <2>2, <2>3 DEF PassInit, TypeInv
<1>6. \A b \in Block : Untouched(b)
  BY DEF PassInit, Untouched
<1> QED
  BY <1>3, <1>5, <1>6 DEF PassInit, PassInv

(* With the phis in place, everything is below the entry, and nothing      *)
(* dominates it.                                                           *)
LEMMA BeginRoundInv == ASSUME TypeInv, PassInv, BeginRound PROVE TypeInv' /\ PassInv'
<1>0. /\ graph' = graph /\ dom' = dom /\ body' = body /\ incoming' = incoming /\ entries' = entries
      /\ replaced' = replaced /\ defStack' = defStack
      /\ phase = "collect"
  BY DEF BeginRound
<1>1. (Promoted' <=> Promoted) /\ Places("escape")' = Places("escape") /\ Places("store")' = Places("store")
  BY <1>0 DEF Promoted, Places
<1>2. Entry \in Block /\ <<Entry>> \in Seq(Block) /\ ToSet(<<Entry>>) = {Entry}
  <2>1. Entry \in Block
    BY NAssumption DEF Entry, Block
  <2> QED
    BY <2>1 DEF ToSet
<1>3. CASE ~IsDead /\ IsPromotable
  <2>1. phase' = "walk" /\ phis' = phis \cup PhiBlocks /\ work' = <<Entry>>
    BY <1>3 DEF BeginRound
  <2>2. ~Promoted /\ Places("escape") = {} /\ Places("store") # {}
    BY <1>0, <1>3 DEF PassInv, DoneInv, IsDead, IsPromotable
  <2>3. (\A b \in Block : Untouched(b)) /\ phis = {} /\ defStack = <<>>
    BY <1>0, <2>2 DEF PassInv
  <2>4. phis' = PhiBlocks
    BY <2>1, <2>3
  <2>5. \A b \in Block : Frontiers(b) \subseteq Block
    <3> SUFFICES ASSUME NEW b \in Block, NEW x \in Frontiers(b) PROVE x \in Block
      OBVIOUS
    <3>1. PICK p \in dom[b] : x \in ToSet(graph[p])
      BY DEF Frontiers, DominanceFrontier
    <3> QED
      BY <3>1, DominatorsAreReachable, DestinationsAreBlocks DEF TypeInv
  <2>6. \A b : b \in StoreBlocks <=> b \in Block /\ StoresTo(b)
    <3>1. \A b \in Block : \A k \in DOMAIN body[b] : IsStore(b, k) <=> body[b][k] = "store"
      BY <2>2 DEF IsStore, Promoted
    <3> SUFFICES ASSUME NEW b PROVE b \in StoreBlocks <=> b \in Block /\ StoresTo(b)
      OBVIOUS
    <3>2. b \in StoreBlocks <=> \E p \in Places("store") : b = p[1]
      BY DEF StoreBlocks
    <3>3. (\E p \in Places("store") : b = p[1]) <=> b \in Block /\ \E k \in DOMAIN body[b] : body[b][k] = "store"
      <4>1. ASSUME NEW p \in Places("store"), b = p[1]
            PROVE  b \in Block /\ \E k \in DOMAIN body[b] : body[b][k] = "store"
        BY <4>1, PlacesAre
      <4>2. ASSUME b \in Block, NEW k \in DOMAIN body[b], body[b][k] = "store"
            PROVE  <<b, k>> \in Places("store") /\ b = <<b, k>>[1]
        BY <4>2, PlacesAre
      <4> QED
        BY <4>1, <4>2
    <3> QED
      BY <3>1, <3>2, <3>3 DEF StoresTo
  <2>7. phis' \in SUBSET Block
    BY <2>4, <2>5, <2>6 DEF PhiBlocks
  <2>8. TypeInv'
    BY <1>0, <1>2, <2>1, <2>7 DEF TypeInv
  <2>9. FrontiersHavePhis'
    <3>1. \A b \in Block : StoresTo(b)' <=> StoresTo(b)
      BY <1>0 DEF StoresTo, IsStore
    <3>2. \A b \in Block : Frontiers(b)' = Frontiers(b)
      BY <1>0 DEF Frontiers
    <3> QED
      BY <2>4, <2>6, <3>1, <3>2 DEF FrontiersHavePhis, PhiBlocks
  <2>10. \A b \in Block : Untouched(b)'
    BY <1>0, <2>3 DEF Untouched
  <2>11. \A a \in Block : Entry \in dom[a] => a = Entry
    <3> SUFFICES ASSUME NEW a \in Block, Entry \in dom[a] PROVE a = Entry
      OBVIOUS
    <3>1. a \in dom[Entry]
      BY DominatorsAreReachable, DominatesItself DEF TypeInv
    <3> QED
      BY <1>2, <3>1, DominanceAntisymmetric DEF TypeInv
  <2>12. Entry \in dom[Entry] /\ \A b \in Block : InTree(b) => b \in dom[Entry]
    BY ReachableProperties, DominatesItself, DominatorsAreReachable DEF TypeInv, InTree
  <2>13. HasDef(Entry)'
    BY <1>0, <2>11 DEF HasDef
  <2>14. KnowsDef(Entry)'
    <3>1. Top(defStack') = None
      BY <1>0, <2>3 DEF Top
    <3>2. Definers(Entry)' \ {Entry} = {}
      BY <1>0, <2>11 DEF Definers
    <3>3. Above(Entry)' = None
      BY <3>2 DEF Above, DefOf
    <3> QED
      BY <3>1, <3>3 DEF KnowsDef
  <2>15. InTree(Entry)' /\ \A x \in dom'[Entry] : Untouched(x)'
    BY <1>0, <1>2, <2>10, <2>12, DominatorsAreReachable DEF InTree, TypeInv
  <2>16. Pending(Entry)'
    BY <2>13, <2>14, <2>15 DEF Pending
  <2>17. \A j, k \in DOMAIN work' : ~(j < k)
    <3>1. DOMAIN work' = {1}
      BY <2>1
    <3> QED
      BY <3>1
  <2>18. ToSet(work') = {Entry}
    BY <1>2, <2>1
  <2>19. \A b \in Block : InTree(b)' => \E x \in ToSet(work') : b \in dom'[x]
    BY <1>0, <2>12, <2>18 DEF InTree
  <2>20. WalkInv'
    BY <1>1, <2>2, <2>9, <2>10, <2>16, <2>17, <2>18, <2>19 DEF WalkInv
  <2> QED
    BY <1>1, <2>1, <2>2, <2>8, <2>20 DEF PassInv
<1>4. CASE ~(~IsDead /\ IsPromotable)
  <2>1. phase' = "run" /\ phis' = phis /\ work' = work
    BY <1>4 DEF BeginRound
  <2>2. TypeInv'
    BY <1>0, <2>1 DEF TypeInv
  <2>3. SameAccesses
    BY <1>0, <2>1 DEF SameAccesses, IsStore
  <2>4. \A c \in Block : SameResults(c)
    BY <1>0 DEF SameResults
  <2>5. Promoted => DoneInv'
    <3> SUFFICES ASSUME Promoted PROVE DoneInv'
      OBVIOUS
    <3>1. DoneInv
      BY DEF PassInv
    <3>2. \A b \in Block : IF InTree(b)' THEN Visited(b)' ELSE Untouched(b)'
      BY <2>3, <2>4, <3>1, ResultsKept, SameConditions DEF DoneInv
    <3>3. FrontiersHavePhis'
      BY <2>3, <3>1, SameConditions DEF DoneInv
    <3> QED
      BY <1>1, <2>1, <3>1, <3>2, <3>3 DEF DoneInv
  <2> QED
    BY <1>1, <2>1, <2>2, <2>5 DEF PassInv
<1> QED
  BY <1>3, <1>4

(* Removing the stores changes no definition.                              *)
LEMMA RemoveStoresInv == ASSUME TypeInv, PassInv, RemoveStores PROVE TypeInv' /\ PassInv'
<1>0. /\ graph' = graph /\ dom' = dom /\ phis' = phis /\ incoming' = incoming /\ entries' = entries
      /\ replaced' = replaced /\ work' = work /\ defStack' = <<>>
      /\ phase = "walk" /\ phase' = "collect" /\ work = <<>>
      /\ body' = [b \in Block |-> [k \in DOMAIN body[b] |->
                    IF body[b][k] = "store" THEN "removed" ELSE body[b][k]]]
  BY DEF RemoveStores, WithoutStores
<1>1. WalkInv
  BY <1>0 DEF PassInv
<1>2. \A b \in Block :
        /\ DOMAIN body'[b] = DOMAIN body[b]
        /\ \A k \in DOMAIN body[b] : body'[b][k] = IF body[b][k] = "store" THEN "removed" ELSE body[b][k]
  BY <1>0
<1>3. ASSUME NEW b \in Block
      PROVE  body'[b] \in Seq(Access \cup {"removed"}) /\ Len(body'[b]) = Len(body[b])
  <2> DEFINE n == Len(body[b])
             g == body'[b]
  <2>1. n \in Nat /\ DOMAIN body[b] = 1..n /\ body[b] \in [1..n -> Access \cup {"removed"}]
    BY LenProperties DEF TypeInv
  <2>2. g = [k \in 1..n |-> IF body[b][k] = "store" THEN "removed" ELSE body[b][k]]
    BY <1>0, <2>1
  <2> HIDE DEF n, g
  <2>3. g \in [1..n -> Access \cup {"removed"}]
    BY <2>1, <2>2
  <2>4. g \in Seq(Access \cup {"removed"})
    BY <2>1, <2>3, SeqDef
  <2>5. Len(g) = n
    BY <2>1, <2>3, <2>4, LenProperties
  <2> QED
    BY <2>4, <2>5 DEF n, g
<1>4. SameAccesses
  <2> SUFFICES ASSUME NEW b \in Block
               PROVE /\ \A k \in DOMAIN body[b] : IsStore(b, k)' <=> IsStore(b, k)
                     /\ \A k \in DOMAIN body[b] : body'[b][k] = "load" <=> body[b][k] = "load"
    BY <1>0, <1>2, <1>3 DEF SameAccesses
  <2>1. \A k \in DOMAIN body[b] : IsStore(b, k)' <=> IsStore(b, k)
    BY <1>2 DEF IsStore
  <2> QED
    BY <1>2, <2>1
<1>5. TypeInv'
  <2>1. body' \in [Block -> Seq(Access \cup {"removed"})]
    <3>1. \A b \in Block : body'[b] \in Seq(Access \cup {"removed"})
      BY <1>3
    <3>2. DOMAIN body' = Block /\ body' = [b \in Block |-> body'[b]]
      BY <1>0
    <3> QED
      BY <3>1, <3>2
  <2>2. defStack' \in Seq(Place) /\ work' \in Seq(Block)
    BY <1>0
  <2> QED
    BY <1>0, <2>1, <2>2 DEF TypeInv
<1>6. Places("escape")' = {} /\ Places("store")' = {}
  <2>1. \A b \in Block : \A k \in DOMAIN body[b] : body[b][k] # "escape"
    BY <1>1, PlacesAre DEF WalkInv
  <2>2. \A b \in Block : \A k \in DOMAIN body'[b] : body'[b][k] # "escape" /\ body'[b][k] # "store"
    BY <1>2, <2>1
  <2> QED
    BY <2>2 DEF Places
<1>7. Promoted'
  <2>1. PICK b \in Block : \E k \in DOMAIN body[b] : body[b][k] = "store"
    BY <1>1, PlacesAre DEF WalkInv
  <2> QED
    BY <1>2, <2>1 DEF Promoted
<1>8. \A b \in Block : SameResults(b)
  BY <1>0 DEF SameResults
<1>9. \A b \in Block : IF InTree(b) THEN Visited(b) ELSE Untouched(b)
  <2>1. ToSet(work) = {}
    BY <1>0 DEF ToSet
  <2> QED
    BY <1>1, <2>1 DEF WalkInv
<1>10. \A b \in Block : IF InTree(b)' THEN Visited(b)' ELSE Untouched(b)'
  BY <1>4, <1>8, <1>9, ResultsKept, SameConditions
<1>11. FrontiersHavePhis'
  BY <1>1, <1>4, SameConditions DEF WalkInv
<1> QED
  BY <1>0, <1>5, <1>6, <1>7, <1>10, <1>11 DEF PassInv, DoneInv

-----------------------------------------------------------------------------
(* Execution: what memory holds is what the definition at the end of the   *)
(* last block is worth.                                                    *)
Arrived ==
  /\ at \in Block /\ InTree(at)
  /\ from # Nil => from \in Block /\ InTree(from) /\ at \in ToSet(Succs(graph, from))
  /\ mem # None => from # Nil /\ Eval(phiVal, AtEnd(from)) = mem

RunInv ==
  /\ phiVal = [b \in Block |-> phiVal[b]]
  /\ phase # "run" => at = Entry /\ from = Nil /\ mem = None /\ wrong = FALSE
  /\ NoLeak /\ FrontiersClosed => ~wrong /\ Arrived

LEMMA AboveIsElsewhere ==
  ASSUME TypeInv, NEW b \in Block
  PROVE  Above(b) = None \/ \E x \in Block \ {b} : \E k : Above(b) = <<x, k>>
<1> DEFINE S == Definers(b) \ {b}
<1>1. CASE S = {}
  BY <1>1 DEF Above, DefOf
<1>2. CASE S # {}
  <2>1. S \in SUBSET Definers(b)
    OBVIOUS
  <2> HIDE DEF S
  <2>2. Nearest(dom, S) \in S
    BY <1>2, <2>1, NearestIs
  <2>3. PICK x \in S : x = Nearest(dom, S)
    BY <2>2
  <2>4. x \in Block /\ x # b
    BY DEF S, Definers
  <2>5. Above(b) = LastDef[x]
    BY <1>2, <2>3 DEF Above, DefOf, S
  <2>6. LastDef[x] = Latest(x, Len(body[x]), <<x, 0>>)
    BY <2>4 DEF LastDef, PhiOf
  <2>7. \E k : LastDef[x] = <<x, k>>
    BY <2>6 DEF Latest
  <2> QED
    BY <2>4, <2>5, <2>7
<1> QED
  BY <1>1, <1>2

LEMMA EvalLatest ==
  ASSUME NEW b \in Block, NEW k \in Nat, NEW vals, NEW d, NEW m,
         m # None => Eval(vals, d) = m, Latest(b, k, m) # None
  PROVE  Eval(vals, Latest(b, k, d)) = Latest(b, k, m)
<1>1. CASE Stores(b, k) = {}
  BY <1>1 DEF Latest
<1>2. CASE Stores(b, k) # {}
  <2> DEFINE I == Stores(b, k)
  <2>1. I \in SUBSET (1..k) /\ I # {}
    BY <1>2 DEF Stores
  <2> HIDE DEF I
  <2>2. Max(I) \in 1..k
    BY <2>1, MaxOfSome
  <2>3. Max(I) # 0
    BY <2>2
  <2>4. Latest(b, k, d) = <<b, Max(I)>> /\ Latest(b, k, m) = <<b, Max(I)>>
    BY <1>2 DEF Latest, I
  <2> QED
    BY <2>3, <2>4 DEF Eval
<1> QED
  BY <1>1, <1>2

LEMMA ExecuteArrives ==
  ASSUME TypeInv, PassInv, RunInv, Execute, NoLeak, FrontiersClosed
  PROVE  wrong' = FALSE /\ Arrived'
<1>1. PICK b, p : b = at /\ p = from
  OBVIOUS
<1> DEFINE arriving == IF b \in phis /\ p # Nil THEN Eval(phiVal, incoming[b][p]) ELSE None
           vals == [phiVal EXCEPT ![b] = arriving]
           d == AtStart(b, Above(b))
           n == Len(body[b])
<1>2. /\ phiVal' = vals
      /\ wrong' = (wrong \/ \E k \in DOMAIN body[b] :
                              /\ body[b][k] = "load"
                              /\ MemBefore(b, k) # None
                              /\ Eval(vals, replaced[b][k]) # MemBefore(b, k))
      /\ mem' = MemBefore(b, n + 1)
      /\ from' = b
      /\ at' \in ToSet(Succs(graph, b))
      /\ Promoted
  BY <1>1 DEF Execute
<1>3. UNCHANGED <<graph, dom, body, phis, incoming, replaced>>
  BY DEF Execute, passVars
<1>4. /\ b \in Block /\ InTree(b)
      /\ p # Nil => p \in Block /\ InTree(p) /\ b \in ToSet(Succs(graph, p))
      /\ mem # None => p # Nil /\ Eval(phiVal, AtEnd(p)) = mem
      /\ ~wrong
  BY <1>1 DEF RunInv, Arrived
<1>5. DoneInv
  BY <1>2 DEF PassInv
<1>6. LoadsRight(b) /\ (p # Nil => IncomingRight(p))
  BY <1>4, <1>5 DEF DoneInv, Visited
<1>7. n \in Nat /\ DOMAIN body[b] = 1..n
  BY <1>4, LenProperties DEF TypeInv
<1>8. vals[b] = arriving /\ \A x \in Block \ {b} : vals[x] = phiVal[x]
  <2>1. phiVal = [x \in Block |-> phiVal[x]]
    BY DEF RunInv
  <2> HIDE DEF arriving
  <2> QED
    BY <1>4, <2>1
<1> HIDE DEF vals
<1>9. mem # None => Eval(vals, d) = mem
  <2> SUFFICES ASSUME mem # None PROVE Eval(vals, d) = mem
    OBVIOUS
  <2>1. p # Nil /\ p \in Block /\ InTree(p) /\ b \in ToSet(Succs(graph, p)) /\ Eval(phiVal, AtEnd(p)) = mem
    BY <1>4
  <2>2. CASE b \in phis
    <3>1. incoming[b][p] = AtEnd(p)
      BY <1>6, <2>1, <2>2 DEF IncomingRight, IsEdge, Succs
    <3>2. vals[b] = mem
      BY <1>8, <2>1, <2>2, <3>1
    <3>3. d = <<b, 0>> /\ d # None
      BY <1>4, <2>2 DEF AtStart, PhiOf, None, Block
    <3> QED
      BY <3>2, <3>3 DEF Eval
  <2>3. CASE b \notin phis
    <3>1. d = Above(b) /\ Above(b) = AtEnd(p)
      BY <1>5, <2>1, <2>3, AboveEdge DEF AtStart, DoneInv
    <3>2. Eval(vals, Above(b)) = Eval(phiVal, Above(b))
      <4>1. CASE Above(b) = None
        BY <4>1 DEF Eval
      <4>2. CASE \E x \in Block \ {b} : \E k : Above(b) = <<x, k>>
        BY <1>8, <4>2 DEF Eval
      <4> QED
        BY <1>4, <4>1, <4>2, AboveIsElsewhere
    <3> QED
      BY <2>1, <3>1, <3>2
  <2> QED
    BY <2>2, <2>3
<1> HIDE DEF d, arriving
<1>10. ASSUME NEW k \in DOMAIN body[b], body[b][k] = "load", MemBefore(b, k) # None
       PROVE  Eval(vals, replaced[b][k]) = MemBefore(b, k)
  <2>1. replaced[b][k] = Latest(b, k, d)
    BY <1>6, <1>10 DEF LoadsRight, d
  <2>2. ~IsStore(b, k) /\ k \in Nat /\ \A j \in 1..k : j # k => j \in 1..(k-1)
    BY <1>7, <1>10 DEF IsStore
  <2>3. Stores(b, k) = {j \in 1..(k-1) : IsStore(b, j)}
    BY <2>2 DEF Stores
  <2>4. MemBefore(b, k) = Latest(b, k, mem)
    BY <2>3 DEF MemBefore, Latest
  <2> QED
    BY <1>4, <1>9, <1>10, <2>1, <2>2, <2>4, EvalLatest
<1>11. wrong' = FALSE
  BY <1>2, <1>4, <1>10
<1>12. mem' # None => Eval(vals, AtEnd(b)) = mem'
  <2> SUFFICES ASSUME mem' # None PROVE Eval(vals, AtEnd(b)) = mem'
    OBVIOUS
  <2>1. (n + 1) - 1 = n
    BY <1>7
  <2> HIDE DEF n
  <2>2. mem' = Latest(b, n, mem)
    BY <1>2, <2>1 DEF MemBefore, Latest, Stores
  <2>3. AtEnd(b) = Latest(b, n, d)
    BY <1>4, AtEndIs DEF d, n
  <2> QED
    BY <1>4, <1>7, <1>9, <2>2, <2>3, EvalLatest
<1>13. at' \in Block /\ InTree(at')
  <2>1. b \in Reachable(graph)
    BY <1>4, DominatorsAreReachable DEF TypeInv, InTree
  <2>2. at' \in Reachable(graph) /\ at' \in Block
    BY <1>2, <2>1, ReachableProperties DEF TypeInv, Succs
  <2> QED
    BY <2>2, DominatesItself DEF InTree, TypeInv
<1>14. AtEnd(b)' = AtEnd(b) /\ dom' = dom /\ graph' = graph
  <2>1. SameAccesses
    BY <1>3 DEF SameAccesses, IsStore
  <2> QED
    BY <1>3, <1>4, <2>1, SameDefinitions
<1>15. b # Nil
  BY <1>4 DEF Block, Nil
<1> QED
  BY <1>2, <1>4, <1>11, <1>12, <1>13, <1>14, <1>15 DEF Arrived, InTree

-----------------------------------------------------------------------------
IInv == TypeInv /\ PassInv /\ RunInv

LEMMA InitIInv == Init => IInv
<1> SUFFICES ASSUME Init PROVE IInv
  OBVIOUS
<1>1. TypeInv /\ PassInv
  BY PassInitInv DEF Init
<1>2. Entry \in Block /\ InTree(Entry)
  BY <1>1, ReachableProperties, DominatesItself DEF InTree, TypeInv
<1> QED
  BY <1>1, <1>2 DEF Init, RunInit, PassInit, RunInv, Arrived, IInv

LEMMA NextIInv == IInv /\ [Next]_vars => IInv'
<1> SUFFICES ASSUME IInv, [Next]_vars PROVE IInv'
  OBVIOUS
<1>1. TypeInv /\ PassInv /\ RunInv
  BY DEF IInv
<1>2. CASE Promote /\ UNCHANGED runVars
  <2>1. phase # "run" /\ phase \in {"collect", "walk"}
    BY <1>1, <1>2 DEF Promote, BeginRound, WalkBlock, RemoveStores
  <2>2. TypeInv' /\ PassInv'
    <3>1. CASE BeginRound
      BY <1>1, <3>1, BeginRoundInv
    <3>2. CASE WalkBlock
      <4>1. WalkInv /\ phase = "walk" /\ phase' = phase
        BY <1>1, <3>2 DEF PassInv, WalkBlock
      <4>2. TypeInv' /\ WalkInv'
        BY <1>1, <3>2, <4>1, WalkBlockType, WalkBlockInv DEF WalkInv
      <4> QED
        BY <4>1, <4>2 DEF PassInv, WalkInv
    <3>3. CASE RemoveStores
      BY <1>1, <3>3, RemoveStoresInv
    <3> QED
      BY <1>2, <3>1, <3>2, <3>3 DEF Promote
  <2>3. at = Entry /\ from = Nil /\ mem = None /\ wrong = FALSE
    BY <1>1, <2>1 DEF RunInv
  <2>4. Entry \in Block /\ InTree(Entry)'
    BY <2>2, ReachableProperties, DominatesItself DEF InTree, TypeInv
  <2>5. RunInv'
    BY <1>1, <1>2, <2>3, <2>4 DEF RunInv, Arrived, runVars
  <2> QED
    BY <2>2, <2>5 DEF IInv
<1>3. CASE Execute
  <2>1. UNCHANGED <<graph, dom, body, phase, phis, incoming, entries, replaced, defStack, work>>
    BY <1>3 DEF Execute, passVars
  <2>2. TypeInv'
    BY <1>1, <2>1 DEF TypeInv
  <2>3. SameAccesses /\ \A b \in Block : SameResults(b)
    BY <2>1 DEF SameAccesses, SameResults, IsStore
  <2>4. PassInv'
    <3>1. phase = "run" /\ Promoted /\ DoneInv
      BY <1>1, <1>3 DEF Execute, PassInv
    <3>2. \A b \in Block : IF InTree(b)' THEN Visited(b)' ELSE Untouched(b)'
      BY <1>1, <2>3, <3>1, ResultsKept, SameConditions DEF DoneInv
    <3>3. Places("escape")' = {} /\ Places("store")' = {} /\ FrontiersHavePhis'
      BY <1>1, <2>1, <2>3, <3>1, SameConditions DEF DoneInv, Places
    <3> QED
      BY <2>1, <3>1, <3>2, <3>3 DEF PassInv, DoneInv
  <2>5. RunInv'
    <3>1. phase' = "run"
      BY <1>3, <2>1 DEF Execute
    <3>2. phiVal' = [b \in Block |-> phiVal'[b]]
      <4>1. \E v : phiVal' = [phiVal EXCEPT ![at] = v]
        BY <1>3 DEF Execute
      <4>2. phiVal = [b \in Block |-> phiVal[b]]
        BY <1>1 DEF RunInv
      <4> QED
        BY <4>1, <4>2
    <3>3. NoLeak' /\ FrontiersClosed' => wrong' = FALSE /\ Arrived'
      BY <1>1, <1>3, <2>3, SameConditions, ExecuteArrives
    <3> QED
      BY <3>1, <3>2, <3>3 DEF RunInv
  <2> QED
    BY <2>2, <2>4, <2>5 DEF IInv
<1>4. CASE UNCHANGED vars
  <2>1. UNCHANGED <<graph, dom, body, phase, phis, incoming, entries, replaced, defStack, work>>
        /\ UNCHANGED <<at, from, mem, phiVal, wrong>>
    BY <1>4 DEF vars, passVars, runVars
  <2>2. TypeInv'
    BY <1>1, <2>1 DEF TypeInv
  <2>3. SameAccesses /\ \A b \in Block : SameResults(b)
    BY <2>1 DEF SameAccesses, SameResults, IsStore
  <2>4. PassInv'
    <3>1. (Promoted' <=> Promoted) /\ Places("escape")' = Places("escape") /\ Places("store")' = Places("store")
      BY <2>1 DEF Promoted, Places
    <3>2. FrontiersHavePhis' <=> FrontiersHavePhis
      BY <1>1, <2>3, SameConditions
    <3>3. \A b \in Block : /\ Visited(b) => Visited(b)'
                           /\ Untouched(b) => Untouched(b)'
                           /\ InTree(b)' <=> InTree(b)
      BY <1>1, <2>3, ResultsKept, SameConditions
    <3>4. \A b \in Block : Pending(b) => Pending(b)'
      <4> SUFFICES ASSUME NEW b \in Block, Pending(b) PROVE Pending(b)'
        OBVIOUS
      <4>1. HasDef(b)'
        BY <1>1, <2>1, <2>3, SameDefinitions DEF HasDef, Pending
      <4>2. KnowsDef(b)'
        BY <1>1, <2>1, <2>3, SameDefinitions, SameConditions DEF KnowsDef, Pending
      <4>3. \A x \in dom'[b] : Untouched(x)'
        BY <1>1, <2>1, <3>3, DominatorsAreReachable DEF Pending, TypeInv
      <4> QED
        BY <3>3, <4>1, <4>2, <4>3 DEF Pending
    <3>5. WalkInv => WalkInv'
      <4>1. \A x \in ToSet(work) : x \in Block
        BY <1>1, LenProperties DEF TypeInv, ToSet
      <4> QED
        BY <2>1, <3>1, <3>2, <3>3, <3>4, <4>1 DEF WalkInv
    <3>6. DoneInv => DoneInv'
      BY <2>1, <3>1, <3>2, <3>3 DEF DoneInv
    <3> QED
      BY <1>1, <2>1, <3>1, <3>3, <3>5, <3>6 DEF PassInv
  <2>5. RunInv'
    <3>1. Arrived => Arrived'
      <4>1. ASSUME from # Nil, from \in Block PROVE AtEnd(from)' = AtEnd(from)
        <5>1. PICK p \in Block : p = from
          BY <4>1
        <5>2. AtEnd(p)' = AtEnd(p) /\ from' = from
          BY <1>1, <2>1, <2>3, SameDefinitions
        <5> QED
          BY <5>1, <5>2
      <4> QED
        BY <2>1, <4>1 DEF Arrived, InTree
    <3> QED
      BY <1>1, <2>1, <2>3, <3>1, SameConditions DEF RunInv
  <2> QED
    BY <2>2, <2>4, <2>5 DEF IInv
<1> QED
  BY <1>2, <1>3, <1>4 DEF Next

THEOREM IInvHolds == Spec => []IInv
BY InitIInv, NextIInv, PTL DEF Spec

(* Where no definition leaks into a sibling's subtree and the phis'        *)
(* frontiers have phis already, a promoted load reads what memory held, on *)
(* every path through any function.                                        *)
THEOREM PromotionIsCorrect == Spec => []PromotionCorrect
<1>1. IInv => PromotionCorrect
  BY DEF IInv, RunInv, PromotionCorrect
<1> QED
  BY <1>1, IInvHolds, PTL

(* No load that a definition dominates is left to memory whose stores are  *)
(* gone.                                                                   *)
THEOREM DefinedLoadsAreReplaced == Spec => []DefinedLoadsReplaced
<1>1. IInv => DefinedLoadsReplaced
  <2> SUFFICES ASSUME IInv, Promoted, NEW p \in Places("load"), InTree(p[1]), DefBefore(p[1], p[2])
               PROVE  replaced[p[1]][p[2]] # None
    BY DEF DefinedLoadsReplaced
  <2>1. PICK b \in Block : \E k \in DOMAIN body[b] : p = <<b, k>> /\ body[b][k] = "load"
    BY PlacesAre
  <2>2. PICK k \in DOMAIN body[b] : p = <<b, k>> /\ body[b][k] = "load"
    BY <2>1
  <2>3. p[1] = b /\ p[2] = k
    BY <2>2
  <2>4. InTree(b) /\ DefBefore(b, k)
    BY <2>3
  <2>5. LoadsDone(b)
    BY <2>4 DEF IInv, PassInv, DoneInv, Visited
  <2> QED
    BY <2>2, <2>3, <2>4, <2>5 DEF LoadsDone
<1> QED
  BY <1>1, IInvHolds, PTL

(* Every phi has the incoming values it should, and one registration with  *)
(* each predecessor unless that branches to it on both sides.              *)
THEOREM PhisAreFilled == Spec => []PhisFilled
<1>1. IInv => PhisFilled
  <2> SUFFICES ASSUME IInv, Promoted, NEW s \in phis, NEW p \in Block
               PROVE  /\ IsEdge(graph, p, s) /\ InTree(p) /\ DefBefore(p, Len(body[p]) + 1)
                           => incoming[s][p] # None
                      /\ graph[p] # <<s, s>>
                           => entries[s][p] = Cardinality({incoming[s][p]} \ {None})
    BY DEF PhisFilled
  <2>1. DoneInv /\ s \in Block
    BY DEF IInv, PassInv, TypeInv
  <2>2. CASE InTree(p)
    BY <2>1, <2>2 DEF DoneInv, Visited, PhisDone, EntriesMatch
  <2>3. CASE ~InTree(p)
    <3>1. incoming[s][p] = None /\ entries[s][p] = 0
      BY <2>1, <2>3 DEF DoneInv, Untouched
    <3>2. {incoming[s][p]} \ {None} = {}
      BY <3>1
    <3> QED
      BY <2>3, <3>1, <3>2, FS_EmptySet
  <2> QED
    BY <2>2, <2>3
<1> QED
  BY <1>1, IInvHolds, PTL
=============================================================================
