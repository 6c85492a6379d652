------------------------ MODULE CfgSimplifierProofs ------------------------
(***************************************************************************)
(* Where no phi names a block that only branches, the user lists of the    *)
(* blocks are their uses at every step, whatever the function, but for the *)
(* phis of a block that another goes to on both sides: they are listed     *)
(* twice, and once after they are told to forget that other.  From this    *)
(* come that the flow is kept, that the phis match the ways into their     *)
(* blocks, and which blocks are removed that are used.                     *)
(***************************************************************************)
EXTENDS CfgSimplifier, Integers, FiniteSetTheorems, SequenceTheorems, WellFoundedInduction, TLAPS

(* Induction over an interval of numbers and the existence of functions    *)
(* that are defined by recursion, stated with sets and functions instead   *)
(* of operators, and facts about sequences.                                *)

(* A set of natural numbers has a least element.                           *)
LEMMA LeastElement ==
  ASSUME NEW T, T \subseteq Nat, T # {}
  PROVE  \E m \in T : \A k \in T : m <= k
<1> DEFINE R == OpToRel(<, Nat)
<1>1. IsWellFoundedOn(R, Nat)
  BY NatLessThanWellFounded
<1>2. PICK m \in T : \A k \in T : ~(<<k, m>> \in R)
  <2> HIDE DEF R
  <2> QED
    BY <1>1, WFMin
<1>3. ASSUME NEW k \in T PROVE m <= k
  <2>1. k \in Nat /\ m \in Nat
    OBVIOUS
  <2>2. ~(<<k, m>> \in R)
    BY <1>2
  <2>3. k < m => <<k, m>> \in R
    BY <2>1, Zenon DEF OpToRel
  <2> HIDE DEF R
  <2> QED
    BY <2>1, <2>2, <2>3
<1> QED
  BY <1>3

(* Induction up to n, for the set G of the numbers a fact is good for.     *)
LEMMA IntervalInduction ==
  ASSUME NEW n \in Nat, NEW G, 0 \in G,
         \A k \in 0..(n-1) : k \in G => k + 1 \in G
  PROVE  0..n \subseteq G
<1> SUFFICES ASSUME (0..n) \ G # {} PROVE FALSE
  OBVIOUS
<1>1. PICK m \in (0..n) \ G : \A k \in (0..n) \ G : m <= k
  <2>1. (0..n) \ G \subseteq Nat
    OBVIOUS
  <2> QED
    BY <2>1, LeastElement
<1>2. m # 0 /\ m - 1 \in 0..(n-1) /\ (m - 1) + 1 = m
  BY <1>1
<1>3. m - 1 \in G
  BY <1>1, <1>2
<1> QED
  BY <1>1, <1>2, <1>3

(* A function that gives each number but the first from the one before.    *)
IsIteration(f, n, T, base, step) ==
  /\ f \in [0..n -> T]
  /\ f[0] = base
  /\ \A k \in 1..n : f[k] = step[<<k, f[k-1]>>]

LEMMA IterationExists ==
  ASSUME NEW n \in Nat, NEW T, NEW base \in T,
         NEW step, \A k \in 1..n, x \in T : step[<<k, x>>] \in T
  PROVE  \E f : IsIteration(f, n, T, base, step)
<1> DEFINE G == {m \in 0..n : \E f : IsIteration(f, m, T, base, step)}
<1>1. 0 \in G
  <2>1. IsIteration([k \in 0..0 |-> base], 0, T, base, step)
    BY DEF IsIteration
  <2> QED
    BY <2>1
<1>2. ASSUME NEW m \in 0..(n-1), m \in G PROVE m + 1 \in G
  <2>1. PICK f : IsIteration(f, m, T, base, step)
    BY <1>2
  <2> DEFINE g == [k \in 0..(m+1) |-> IF k = m + 1 THEN step[<<m+1, f[m]>>] ELSE f[k]]
  <2>2. g \in [0..(m+1) -> T]
    <3>1. step[<<m+1, f[m]>>] \in T
      BY <2>1 DEF IsIteration
    <3>2. \A k \in 0..(m+1) : k # m + 1 => k \in 0..m
      OBVIOUS
    <3> QED
      BY <2>1, <3>1, <3>2 DEF IsIteration
  <2>3. g[0] = base
    BY <2>1 DEF IsIteration
  <2>4. ASSUME NEW k \in 1..(m+1) PROVE g[k] = step[<<k, g[k-1]>>]
    <3>1. k - 1 \in 0..m /\ g[k-1] = f[k-1]
      OBVIOUS
    <3>2. CASE k = m + 1
      <4>1. k - 1 = m /\ g[k] = step[<<k, f[m]>>]
        BY <3>2
      <4> HIDE DEF g
      <4> QED
        BY <3>1, <4>1
    <3>3. CASE k # m + 1
      <4>1. k \in 1..m /\ g[k] = f[k]
        BY <3>3
      <4> HIDE DEF g
      <4> QED
        BY <2>1, <3>1, <4>1 DEF IsIteration
    <3> QED
      BY <3>2, <3>3
  <2>5. IsIteration(g, m + 1, T, base, step)
    <3> HIDE DEF g
    <3> QED
      BY <2>2, <2>3, <2>4 DEF IsIteration
  <2> QED
    BY <2>5
<1>3. 0..n \subseteq G
  <2> HIDE DEF G
  <2> QED
    BY <1>1, <1>2, IntervalInduction
<1> QED
  BY <1>3

(* A non-empty sequence is its front and its last element.                 *)
LEMMA FrontAndLast ==
  ASSUME NEW S, NEW s \in Seq(S), s # <<>>
  PROVE  /\ Len(s) \in Nat \ {0}
         /\ Front(s) \in Seq(S)
         /\ Len(Front(s)) = Len(s) - 1
         /\ DOMAIN Front(s) = 1..(Len(s) - 1)
         /\ \A k \in 1..(Len(s) - 1) : Front(s)[k] = s[k]
         /\ Last(s) = s[Len(s)]
         /\ Last(s) \in S
         /\ ToSet(s) = ToSet(Front(s)) \cup {Last(s)}
<1>1. Len(s) \in Nat \ {0} /\ DOMAIN s = 1..Len(s)
  BY EmptySeq, LenProperties
<1>2. \A k \in 1..(Len(s) - 1) : s[k] \in S
  BY <1>1, ElementOfSeq
<1>3. /\ Front(s) \in Seq(S)
      /\ Len(Front(s)) = Len(s) - 1
      /\ \A k \in 1..(Len(s) - 1) : Front(s)[k] = s[k]
  BY <1>1, <1>2, SubSeqProperties DEF Front
<1>4. DOMAIN Front(s) = 1..(Len(s) - 1)
  BY <1>3, LenProperties
<1>5. Last(s) \in S /\ Last(s) = s[Len(s)]
  BY <1>1, ElementOfSeq DEF Last
<1>6. ASSUME NEW k \in DOMAIN s PROVE s[k] \in ToSet(Front(s)) \cup {Last(s)}
  <2>1. k = Len(s) \/ k \in 1..(Len(s) - 1)
    BY <1>1
  <2> QED
    BY <2>1, <1>3, <1>4 DEF ToSet, Last
<1>7. ASSUME NEW k \in DOMAIN Front(s) PROVE Front(s)[k] \in ToSet(s)
  <2>1. k \in DOMAIN s /\ Front(s)[k] = s[k]
    BY <1>1, <1>3, <1>4
  <2> QED
    BY <2>1 DEF ToSet
<1>8. Last(s) \in ToSet(s)
  BY <1>1, <1>5 DEF ToSet
<1>9. ToSet(s) = ToSet(Front(s)) \cup {Last(s)}
  BY <1>6, <1>7, <1>8 DEF ToSet
<1> QED
  BY <1>1, <1>3, <1>4, <1>5, <1>9

LEMMA AppendOne ==
  ASSUME NEW S, NEW s \in Seq(S), NEW x \in S
  PROVE  /\ Append(s, x) \in Seq(S)
         /\ Len(s) \in Nat
         /\ Len(Append(s, x)) = Len(s) + 1
         /\ DOMAIN s = 1..Len(s)
         /\ DOMAIN Append(s, x) = 1..(Len(s) + 1)
         /\ \A k \in 1..Len(s) : Append(s, x)[k] = s[k]
         /\ Append(s, x)[Len(s) + 1] = x
         /\ Append(s, x) # <<>>
         /\ Last(Append(s, x)) = x
         /\ ToSet(Append(s, x)) = ToSet(s) \cup {x}
<1>1. /\ Append(s, x) \in Seq(S)
      /\ Append(s, x) # <<>>
      /\ Len(Append(s, x)) = Len(s) + 1
      /\ \A i \in 1..Len(s) : Append(s, x)[i] = s[i]
      /\ Append(s, x)[Len(s) + 1] = x
  BY AppendProperties
<1>2. /\ Len(s) \in Nat /\ DOMAIN s = 1..Len(s)
      /\ DOMAIN Append(s, x) = 1..(Len(s) + 1)
  BY <1>1, LenProperties
<1>3. \A k \in DOMAIN Append(s, x) : k \in DOMAIN s \/ k = Len(s) + 1
  BY <1>2
<1>4. Len(s) + 1 \in DOMAIN Append(s, x) /\ DOMAIN s \subseteq DOMAIN Append(s, x)
  BY <1>2
<1>5. ToSet(Append(s, x)) = ToSet(s) \cup {x}
  BY <1>1, <1>2, <1>3, <1>4 DEF ToSet
<1> QED
  BY <1>1, <1>2, <1>5 DEF Last

(* A sequence without repetitions keeps none when its last element goes,   *)
(* or a new one comes.                                                     *)
LEMMA FrontInjective ==
  ASSUME NEW S, NEW s \in Seq(S), s # <<>>, IsInjective(s)
  PROVE  /\ IsInjective(Front(s))
         /\ Last(s) \notin ToSet(Front(s))
<1>1. /\ Len(s) \in Nat \ {0}
      /\ DOMAIN s = 1..Len(s)
      /\ DOMAIN Front(s) = 1..(Len(s) - 1)
      /\ \A k \in 1..(Len(s) - 1) : Front(s)[k] = s[k]
      /\ Last(s) = s[Len(s)]
  BY FrontAndLast, LenProperties
<1> QED
  BY <1>1 DEF IsInjective, ToSet

LEMMA AppendNewInjective ==
  ASSUME NEW S, NEW s \in Seq(S), NEW x \in S, IsInjective(s), x \notin ToSet(s)
  PROVE  IsInjective(Append(s, x))
<1>1. /\ Len(s) \in Nat
      /\ DOMAIN s = 1..Len(s)
      /\ DOMAIN Append(s, x) = 1..(Len(s) + 1)
      /\ \A k \in 1..Len(s) : Append(s, x)[k] = s[k]
      /\ Append(s, x)[Len(s) + 1] = x
  BY AppendOne
<1>2. \A k \in 1..Len(s) : s[k] # x
  BY <1>1 DEF ToSet
<1> QED
  BY <1>1, <1>2 DEF IsInjective

(* SelectInSeq finds the first place among those that pass, if any does.   *)
LEMMA SelectedPlace ==
  ASSUME NEW n \in Nat, NEW I \in SUBSET (1..n)
  PROVE  /\ I = {} => (IF I # {} THEN Min(I) ELSE 0) = 0
         /\ I # {} => /\ (IF I # {} THEN Min(I) ELSE 0) \in I
                      /\ \A i \in I : (IF I # {} THEN Min(I) ELSE 0) <= i
<1>1. SUFFICES ASSUME I # {} PROVE Min(I) \in I /\ \A i \in I : Min(I) <= i
  OBVIOUS
<1>2. \E m \in I : \A i \in I : m <= i
  <2>1. I \subseteq Nat
    OBVIOUS
  <2> QED
    BY <1>1, <2>1, LeastElement
<1> QED
  BY <1>2 DEF Min

LEMMA ConcatenateTwo ==
  ASSUME NEW S, NEW s \in Seq(S), NEW t \in Seq(S)
  PROVE  s \o t \in Seq(S) /\ ToSet(s \o t) = ToSet(s) \cup ToSet(t)
<1>1. /\ s \o t \in Seq(S)
      /\ Len(s \o t) = Len(s) + Len(t)
      /\ \A i \in 1..(Len(s) + Len(t)) : (s \o t)[i] = IF i <= Len(s) THEN s[i] ELSE t[i - Len(s)]
  BY ConcatProperties
<1>2. /\ Len(s) \in Nat /\ Len(t) \in Nat
      /\ DOMAIN s = 1..Len(s) /\ DOMAIN t = 1..Len(t)
      /\ DOMAIN (s \o t) = 1..(Len(s) + Len(t))
  BY <1>1, LenProperties
<1>3. ASSUME NEW k \in DOMAIN s PROVE s[k] \in ToSet(s \o t)
  <2>1. k \in DOMAIN (s \o t) /\ (s \o t)[k] = s[k]
    BY <1>1, <1>2
  <2> QED
    BY <2>1 DEF ToSet
<1>4. ASSUME NEW k \in DOMAIN t PROVE t[k] \in ToSet(s \o t)
  <2>1. Len(s) + k \in DOMAIN (s \o t) /\ (s \o t)[Len(s) + k] = t[k]
    BY <1>1, <1>2
  <2> QED
    BY <2>1 DEF ToSet
<1>5. ASSUME NEW k \in DOMAIN (s \o t) PROVE (s \o t)[k] \in ToSet(s) \cup ToSet(t)
  <2>1. CASE k <= Len(s)
    <3>1. k \in DOMAIN s /\ (s \o t)[k] = s[k]
      BY <1>1, <1>2, <2>1
    <3> QED
      BY <3>1 DEF ToSet
  <2>2. CASE k > Len(s)
    <3>1. k - Len(s) \in DOMAIN t /\ (s \o t)[k] = t[k - Len(s)]
      BY <1>1, <1>2, <2>2
    <3> QED
      BY <3>1 DEF ToSet
  <2> QED
    BY <1>2, <2>1, <2>2
<1> QED
  BY <1>1, <1>3, <1>4, <1>5 DEF ToSet

-----------------------------------------------------------------------------
(* What ReachableAvoiding computes: the least set that holds the blocks    *)
(* the search starts from and the successors of its blocks.                *)

(* C has the successors of its blocks, but for those to avoid.             *)
ClosedAvoiding(E, C, Avoid) == \A a \in C : E[a] \subseteq C \cup Avoid

(* Destinations are blocks, in a list of at most two.                      *)
LEMMA DestinationsAreBlocks ==
  ASSUME NEW t \in CfgGraph, NEW a \in Block
  PROVE  /\ t[a] \in Seq(Block)
         /\ Len(t[a]) \in 0..2
         /\ DOMAIN t[a] = 1..Len(t[a])
         /\ ToSet(t[a]) \subseteq Block
<1>1. t[a] \in Terminators
  BY DEF CfgGraph
<1>2. CASE t[a] = <<>>
  BY <1>2 DEF ToSet
<1>3. CASE \E b \in Block : t[a] = <<b>>
  BY <1>3 DEF ToSet
<1>4. CASE \E b, c \in Block : t[a] = <<b, c>>
  BY <1>4 DEF ToSet
<1> QED
  BY <1>1, <1>2, <1>3, <1>4 DEF Terminators

(* One more round of the search.                                           *)
Round(E, Avoid, R) == R \cup ((UNION {E[a] : a \in R}) \ Avoid)

IsSearch(reach, E, S, Avoid) ==
  /\ reach \in [0..N -> SUBSET Block]
  /\ reach[0] = S \ Avoid
  /\ \A k \in 1..N : reach[k] = Round(E, Avoid, reach[k-1])

LEMMA RoundOfBlocks ==
  ASSUME NEW E \in [Block -> SUBSET Block], NEW Avoid, NEW R \in SUBSET Block
  PROVE  Round(E, Avoid, R) \in SUBSET Block
BY DEF Round

(* The recursive function exists, so it is what its equation says.         *)
LEMMA SearchExists ==
  ASSUME NEW E \in [Block -> SUBSET Block], NEW S \in SUBSET Block, NEW Avoid
  PROVE  \E reach : /\ IsSearch(reach, E, S, Avoid)
                    /\ ReachableAvoiding(E, S, Avoid) = reach[N]
<1> DEFINE Rounds == SUBSET Block
           step == [x \in (1..N) \X Rounds |-> Round(E, Avoid, x[2])]
           IsReach(f) ==
             f = [k \in 0..N |->
               IF k = 0 THEN S \ Avoid
               ELSE LET R == f[k-1] IN R \cup ((UNION {E[a] : a \in R}) \ Avoid)]
<1>1. \A k \in 1..N, x \in Rounds : step[<<k, x>>] = Round(E, Avoid, x)
  OBVIOUS
<1>2. \A k \in 1..N, x \in Rounds : step[<<k, x>>] \in Rounds
  BY <1>1, RoundOfBlocks
<1>3. PICK f : IsIteration(f, N, Rounds, S \ Avoid, step)
  <2>1. N \in Nat /\ S \ Avoid \in Rounds
    BY NAssumption
  <2> HIDE DEF step, Rounds
  <2> QED
    BY <1>2, <2>1, IterationExists
<1>4. IsReach(f)
  <2>1. ASSUME NEW k \in 0..N, k # 0
        PROVE  f[k] = f[k-1] \cup ((UNION {E[a] : a \in f[k-1]}) \ Avoid)
    <3>1. k \in 1..N /\ k - 1 \in 0..N
      BY <2>1, NAssumption
    <3>2. f[k-1] \in Rounds /\ f[k] = step[<<k, f[k-1]>>]
      BY <1>3, <3>1 DEF IsIteration
    <3> HIDE DEF step
    <3> QED
      BY <1>1, <3>1, <3>2 DEF Round
  <2>2. f[0] = S \ Avoid /\ f \in [0..N -> Rounds]
    BY <1>3 DEF IsIteration
  <2> HIDE DEF step
  <2> QED
    BY <2>1, <2>2
<1> DEFINE reach == CHOOSE g : IsReach(g)
<1>5. IsReach(reach)
  <2> HIDE DEF IsReach
  <2> QED
    BY <1>4
<1>6. ReachableAvoiding(E, S, Avoid) = reach[N]
  BY DEF ReachableAvoiding
<1> HIDE DEF reach
<1>7. reach[0] = S \ Avoid /\ \A k \in 1..N : reach[k] = Round(E, Avoid, reach[k-1])
  BY <1>5, NAssumption DEF Round
<1>8. 0..N \subseteq {k \in 0..N : reach[k] \in SUBSET Block}
  <2> DEFINE G == {k \in 0..N : reach[k] \in SUBSET Block}
  <2>1. 0 \in G
    BY <1>7, NAssumption
  <2>2. ASSUME NEW k \in 0..(N-1), k \in G PROVE k + 1 \in G
    <3>1. k + 1 \in 1..N /\ (k + 1) - 1 = k
      BY NAssumption
    <3> QED
      BY <1>7, <2>2, <3>1, RoundOfBlocks
  <2> HIDE DEF G
  <2>3. 0..N \subseteq G
    BY <2>1, <2>2, NAssumption, IntervalInduction
  <2> QED
    BY <2>3 DEF G
<1>9. IsSearch(reach, E, S, Avoid)
  BY <1>5, <1>7, <1>8 DEF IsSearch
<1> QED
  BY <1>6, <1>9

(* It lies in every set that has the start and the successors of its       *)
(* blocks: nothing is reached but by an edge.                              *)
LEMMA ReachableIsLeast ==
  ASSUME NEW E \in [Block -> SUBSET Block], NEW S \in SUBSET Block, NEW Avoid,
         NEW C, S \ Avoid \subseteq C, ClosedAvoiding(E, C, Avoid)
  PROVE  ReachableAvoiding(E, S, Avoid) \subseteq C
<1>1. PICK reach : /\ IsSearch(reach, E, S, Avoid)
                   /\ ReachableAvoiding(E, S, Avoid) = reach[N]
  BY SearchExists
<1> DEFINE G == {k \in 0..N : reach[k] \subseteq C}
<1>2. 0 \in G
  BY <1>1, NAssumption DEF IsSearch
<1>3. ASSUME NEW k \in 0..(N-1), k \in G PROVE k + 1 \in G
  <2>1. k + 1 \in 1..N /\ (k + 1) - 1 = k
    BY NAssumption
  <2>2. reach[k+1] = Round(E, Avoid, reach[k])
    BY <1>1, <2>1 DEF IsSearch
  <2>3. Round(E, Avoid, reach[k]) \subseteq C
    BY <1>3 DEF Round, ClosedAvoiding
  <2> QED
    BY <2>1, <2>2, <2>3
<1>4. 0..N \subseteq G
  <2> HIDE DEF G
  <2> QED
    BY <1>2, <1>3, NAssumption, IntervalInduction
<1> QED
  BY <1>1, <1>4, NAssumption

-----------------------------------------------------------------------------
(* The edges of a graph go from blocks to blocks.                          *)
LEMMA EdgesAreOfBlocks ==
  ASSUME NEW t \in CfgGraph
  PROVE  /\ Edges(t) \in [Block -> SUBSET Block]
         /\ \A a \in Block : Edges(t)[a] = ToSet(t[a])
BY DestinationsAreBlocks DEF Edges

LEMMA ReachableLeast ==
  ASSUME NEW t \in CfgGraph, NEW C \in SUBSET Block, Entry \in C,
         \A a \in C : ToSet(t[a]) \subseteq C
  PROVE  Reachable(t) \subseteq C
<1>1. {Entry} \in SUBSET Block
  BY NAssumption DEF Entry, Block
<1>2. ClosedAvoiding(Edges(t), C, {})
  BY EdgesAreOfBlocks DEF ClosedAvoiding
<1> QED
  BY <1>1, <1>2, EdgesAreOfBlocks, ReachableIsLeast DEF Reachable

-----------------------------------------------------------------------------
(* The predecessors of a block are the sources of the edges to it.         *)
Copies(t, a, b) == [k \in 1..Cardinality({e \in DOMAIN t[a] : t[a][e] = b}) |-> a]

LEMMA CopiesOfSource ==
  ASSUME NEW t \in CfgGraph, NEW a \in Block, NEW b
  PROVE  /\ Copies(t, a, b) \in Seq(Block)
         /\ ToSet(Copies(t, a, b)) = IF b \in ToSet(t[a]) THEN {a} ELSE {}
<1> DEFINE I == {e \in DOMAIN t[a] : t[a][e] = b}
           n == Cardinality(I)
<1>1. IsFiniteSet(DOMAIN t[a])
  <2>1. DOMAIN t[a] = 1..Len(t[a]) /\ Len(t[a]) \in Nat
    BY DestinationsAreBlocks
  <2> QED
    BY <2>1, FS_Interval
<1>2. IsFiniteSet(I) /\ n \in Nat
  BY <1>1, FS_Subset, FS_CardinalityType
<1>3. n = 0 <=> I = {}
  BY <1>2, FS_EmptySet
<1>4. I = {} <=> b \notin ToSet(t[a])
  BY DEF ToSet
<1>5. Copies(t, a, b) = [k \in 1..n |-> a]
  BY DEF Copies
<1> HIDE DEF n, I
<1>6. Copies(t, a, b) \in Seq(Block)
  BY <1>2, <1>5
<1>7. DOMAIN Copies(t, a, b) = 1..n /\ \A k \in 1..n : Copies(t, a, b)[k] = a
  BY <1>5
<1>8. 1..n = {} <=> n = 0
  BY <1>2
<1> QED
  BY <1>3, <1>4, <1>6, <1>7, <1>8 DEF ToSet

LEMMA PredsAreSources ==
  ASSUME NEW t \in CfgGraph, NEW b \in Block
  PROVE  /\ Preds(t, b) \in Seq(Block)
         /\ ToSet(Preds(t, b)) = {a \in Block : b \in ToSet(t[a])}
<1> DEFINE Lists == Seq(Block)
           step == [x \in (1..N) \X Lists |-> x[2] \o Copies(t, x[1], b)]
           IsUpTo(f) ==
             f = [a \in 0..N |-> IF a = 0 THEN <<>> ELSE f[a-1] \o Copies(t, a, b)]
           upTo == CHOOSE f : IsUpTo(f)
<1>1. \A a \in 1..N, x \in Lists : step[<<a, x>>] = x \o Copies(t, a, b)
  OBVIOUS
<1>2. \A a \in 1..N, x \in Lists : step[<<a, x>>] \in Lists
  BY <1>1, CopiesOfSource, ConcatenateTwo DEF Block
<1>3. PICK f : IsIteration(f, N, Lists, <<>>, step)
  <2>1. N \in Nat /\ <<>> \in Lists
    BY NAssumption
  <2> HIDE DEF step, Lists
  <2> QED
    BY <1>2, <2>1, IterationExists
<1>4. IsUpTo(f)
  <2>1. ASSUME NEW a \in 0..N, a # 0 PROVE f[a] = f[a-1] \o Copies(t, a, b)
    <3>1. a \in 1..N /\ a - 1 \in 0..N
      BY <2>1, NAssumption
    <3>2. f[a-1] \in Lists /\ f[a] = step[<<a, f[a-1]>>]
      BY <1>3, <3>1 DEF IsIteration
    <3> HIDE DEF step
    <3> QED
      BY <1>1, <3>1, <3>2
  <2>2. f[0] = <<>> /\ f \in [0..N -> Lists]
    BY <1>3 DEF IsIteration
  <2> HIDE DEF step, Lists
  <2> QED
    BY <2>1, <2>2
<1>5. IsUpTo(upTo)
  <2> HIDE DEF IsUpTo
  <2> QED
    BY <1>4
<1>6. Preds(t, b) = upTo[N]
  BY DEF Preds, Copies
<1> HIDE DEF upTo
<1>7. upTo[0] = <<>> /\ \A a \in 1..N : upTo[a] = upTo[a-1] \o Copies(t, a, b)
  <2>1. \A a \in 0..N : upTo[a] = IF a = 0 THEN <<>> ELSE upTo[a-1] \o Copies(t, a, b)
    BY <1>5, Zenon
  <2> HIDE DEF IsUpTo
  <2>2. 0 \in 0..N /\ \A a \in 1..N : a \in 0..N /\ a # 0
    BY NAssumption
  <2> QED
    BY <2>1, <2>2, Zenon
<1> HIDE DEF IsUpTo
<1> DEFINE G == {k \in 0..N : upTo[k] \in Seq(Block) /\ ToSet(upTo[k]) = {a \in 1..k : b \in ToSet(t[a])}}
<1>8. 0 \in G
  <2>1. ToSet(<<>>) = {} /\ 1..0 = {} /\ <<>> \in Seq(Block)
    BY DEF ToSet
  <2>2. upTo[0] \in Seq(Block) /\ ToSet(upTo[0]) = {a \in 1..0 : b \in ToSet(t[a])}
    <3>1. upTo[0] = <<>> /\ {a \in 1..0 : b \in ToSet(t[a])} = {}
      BY <1>7, <2>1
    <3> QED
      BY <2>1, <3>1
  <2> QED
    BY <2>2, NAssumption
<1>9. ASSUME NEW k \in 0..(N-1), k \in G PROVE k + 1 \in G
  <2>1. k + 1 \in Block /\ (k + 1) - 1 = k /\ k + 1 \in 1..N
    BY NAssumption DEF Block
  <2>2. upTo[k+1] = upTo[k] \o Copies(t, k + 1, b)
    BY <1>7, <2>1
  <2>3. /\ upTo[k+1] \in Seq(Block)
        /\ ToSet(upTo[k+1]) = ToSet(upTo[k]) \cup (IF b \in ToSet(t[k+1]) THEN {k+1} ELSE {})
    BY <1>9, <2>1, <2>2, CopiesOfSource, ConcatenateTwo
  <2>4. 1..(k+1) = (1..k) \cup {k+1}
    OBVIOUS
  <2> QED
    BY <1>9, <2>1, <2>3, <2>4
<1>10. 0..N \subseteq G
  <2> HIDE DEF G
  <2> QED
    BY <1>8, <1>9, NAssumption, IntervalInduction
<1>11. N \in G
  BY <1>10, NAssumption
<1> QED
  BY <1>6, <1>11 DEF Block

-----------------------------------------------------------------------------
(* How often elements occur.                                               *)
LEMMA TimesIsCounted ==
  ASSUME NEW S, NEW s \in Seq(S), NEW e
  PROVE  /\ Times(s, e) \in Nat
         /\ IsFiniteSet({k \in DOMAIN s : s[k] = e})
         /\ Times(s, e) = 0 <=> ~Contains(s, e)
         /\ Contains(s, e) <=> e \in ToSet(s)
<1>1. Len(s) \in Nat /\ DOMAIN s = 1..Len(s)
  BY LenProperties
<1>2. IsFiniteSet({k \in DOMAIN s : s[k] = e})
  <2>1. IsFiniteSet(1..Len(s))
    BY <1>1, FS_Interval
  <2> QED
    BY <1>1, <2>1, FS_Subset
<1>3. Times(s, e) \in Nat
  BY <1>2, FS_CardinalityType DEF Times
<1>4. Times(s, e) = 0 <=> {k \in DOMAIN s : s[k] = e} = {}
  BY <1>2, FS_EmptySet DEF Times
<1>5. {k \in DOMAIN s : s[k] = e} = {} <=> ~Contains(s, e)
  BY <1>1 DEF Contains
<1>6. Contains(s, e) <=> e \in ToSet(s)
  BY <1>1 DEF Contains, ToSet
<1> QED
  BY <1>2, <1>3, <1>4, <1>5, <1>6

LEMMA TimesInNone ==
  ASSUME NEW e
  PROVE  Times(<<>>, e) = 0 /\ ToSet(<<>>) = {} /\ ~Contains(<<>>, e)
<1>1. <<>> \in Seq({})
  BY EmptySeq
<1>2. Len(<<>>) = 0 /\ DOMAIN <<>> = {}
  OBVIOUS
<1> QED
  BY <1>1, <1>2, TimesIsCounted DEF Contains, ToSet

LEMMA TimesInOne ==
  ASSUME NEW a, NEW e
  PROVE  Times(<<a>>, e) = IF a = e THEN 1 ELSE 0
<1>1. {k \in DOMAIN <<a>> : <<a>>[k] = e} = IF a = e THEN {1} ELSE {}
  OBVIOUS
<1> QED
  BY <1>1, FS_EmptySet, FS_Singleton DEF Times

LEMMA TimesInBoth ==
  ASSUME NEW S, NEW s \in Seq(S), NEW t \in Seq(S), NEW e
  PROVE  Times(s \o t, e) = Times(s, e) + Times(t, e)
<1>1. /\ s \o t \in Seq(S)
      /\ Len(s) \in Nat /\ Len(t) \in Nat
      /\ DOMAIN s = 1..Len(s) /\ DOMAIN t = 1..Len(t)
      /\ Len(s \o t) = Len(s) + Len(t)
      /\ DOMAIN (s \o t) = 1..(Len(s) + Len(t))
      /\ \A i \in 1..(Len(s) + Len(t)) : (s \o t)[i] = IF i <= Len(s) THEN s[i] ELSE t[i - Len(s)]
  <2>1. Len(s) \in Nat /\ Len(t) \in Nat /\ DOMAIN s = 1..Len(s) /\ DOMAIN t = 1..Len(t)
    BY LenProperties
  <2>2. s \o t \in Seq(S) /\ Len(s \o t) = Len(s) + Len(t)
    BY ConcatProperties
  <2>3. DOMAIN (s \o t) = 1..Len(s \o t)
    BY <2>2, LenProperties
  <2>4. \A i \in 1..(Len(s) + Len(t)) : (s \o t)[i] = IF i <= Len(s) THEN s[i] ELSE t[i - Len(s)]
    BY ConcatProperties
  <2> QED
    BY <2>1, <2>2, <2>3, <2>4
<1> DEFINE A == {k \in DOMAIN s : s[k] = e}
           B == {k \in DOMAIN t : t[k] = e}
           C == {k \in (Len(s) + 1)..(Len(s) + Len(t)) : t[k - Len(s)] = e}
<1>2. {k \in DOMAIN (s \o t) : (s \o t)[k] = e} = A \cup C
  BY <1>1
<1>3. A \cap C = {}
  BY <1>1
<1>4. IsFiniteSet(A) /\ IsFiniteSet(B) /\ Cardinality(A) \in Nat /\ Cardinality(B) \in Nat
  BY TimesIsCounted, FS_CardinalityType
<1>5. IsFiniteSet(C) /\ Cardinality(C) = Cardinality(B)
  <2> DEFINE f == [k \in B |-> k + Len(s)]
  <2>1. f \in [B -> C]
    BY <1>1
  <2>2. \A j, k \in B : f[j] = f[k] => j = k
    BY <1>1
  <2>3. \A c \in C : \E k \in B : f[k] = c
    <3> SUFFICES ASSUME NEW c \in C PROVE \E k \in B : f[k] = c
      OBVIOUS
    <3>1. c \in Int /\ c - Len(s) \in 1..Len(t) /\ (c - Len(s)) + Len(s) = c
      <4>1. PICK m, n : m = Len(s) /\ n = Len(t)
        OBVIOUS
      <4>2. m \in Nat /\ n \in Nat /\ c \in m + 1..m + n
        BY <1>1, <4>1
      <4> HIDE DEF C
      <4>3. c \in Int /\ c - m \in 1..n /\ (c - m) + m = c
        BY <4>2
      <4> QED
        BY <4>1, <4>3
    <3>2. t[c - Len(s)] = e
      OBVIOUS
    <3>3. c - Len(s) \in B
      BY <1>1, <3>1, <3>2
    <3>4. f[c - Len(s)] = (c - Len(s)) + Len(s)
      BY <3>3
    <3> QED
      BY <3>1, <3>3, <3>4
  <2>4. f \in Bijection(B, C)
    <3> HIDE DEF f, B, C
    <3> QED
      BY <2>1, <2>2, <2>3 DEF Bijection, Injection, Surjection, IsInjective
  <2>5. ExistsBijection(B, C)
    BY <2>4 DEF ExistsBijection
  <2> HIDE DEF B, C, f
  <2> QED
    BY <1>4, <2>5, FS_Bijection
<1>6. Cardinality(A \cup C) = Cardinality(A) + Cardinality(C)
  <2>1. Cardinality(A \cup C) = Cardinality(A) + Cardinality(C) - Cardinality(A \cap C)
    BY <1>4, <1>5, FS_Union
  <2>2. Cardinality(A \cap C) = 0
    BY <1>3, FS_EmptySet
  <2> HIDE DEF A, B, C
  <2> QED
    BY <1>4, <1>5, <2>1, <2>2
<1> QED
  BY <1>2, <1>5, <1>6 DEF Times

(* At most two elements.                                                   *)
LEMMA TimesInFew ==
  ASSUME NEW S, NEW s \in Seq(S), NEW e
  PROVE  /\ Len(s) = 1 => s = <<s[1]>> /\ Times(s, e) = IF s[1] = e THEN 1 ELSE 0
         /\ Len(s) = 2 => s = <<s[1], s[2]>> /\ Times(s, e) = (IF s[1] = e THEN 1 ELSE 0) + (IF s[2] = e THEN 1 ELSE 0)
<1>1. ASSUME Len(s) = 1 PROVE s = <<s[1]>> /\ s[1] \in S
  BY <1>1, ElementOfSeq
<1>2. ASSUME Len(s) = 2 PROVE s = <<s[1], s[2]>> /\ s[1] \in S /\ s[2] \in S
  BY <1>2, ElementOfSeq
<1>3. ASSUME Len(s) = 2 PROVE Times(s, e) = Times(<<s[1]>>, e) + Times(<<s[2]>>, e)
  <2>1. <<s[1]>> \in Seq(S) /\ <<s[2]>> \in Seq(S)
    BY <1>2, <1>3
  <2>2. s = <<s[1]>> \o <<s[2]>>
    BY <1>2, <1>3
  <2>3. Times(<<s[1]>> \o <<s[2]>>, e) = Times(<<s[1]>>, e) + Times(<<s[2]>>, e)
    BY <2>1, TimesInBoth
  <2> QED
    BY <2>2, <2>3
<1>4. ASSUME Len(s) = 1 PROVE Times(s, e) = IF s[1] = e THEN 1 ELSE 0
  BY <1>1, <1>4, TimesInOne
<1>5. ASSUME Len(s) = 2 PROVE Times(s, e) = (IF s[1] = e THEN 1 ELSE 0) + (IF s[2] = e THEN 1 ELSE 0)
  <2>1. Times(<<s[1]>>, e) = (IF s[1] = e THEN 1 ELSE 0) /\ Times(<<s[2]>>, e) = (IF s[2] = e THEN 1 ELSE 0)
    BY TimesInOne
  <2> QED
    BY <1>3, <1>5, <2>1
<1> QED
  BY <1>1, <1>2, <1>4, <1>5

(* Replacing v by w gives w the places of v.                               *)
LEMMA TimesReplaced ==
  ASSUME NEW S, NEW s \in Seq(S), NEW v, NEW w \in S, v # w, NEW e
  PROVE  /\ ReplaceAll(s, v, w) \in Seq(S)
         /\ Len(ReplaceAll(s, v, w)) = Len(s)
         /\ DOMAIN ReplaceAll(s, v, w) = DOMAIN s
         /\ \A k \in DOMAIN s : ReplaceAll(s, v, w)[k] = IF s[k] = v THEN w ELSE s[k]
         /\ Times(ReplaceAll(s, v, w), e) =
              IF e = v THEN 0 ELSE IF e = w THEN Times(s, w) + Times(s, v) ELSE Times(s, e)
<1> DEFINE r == ReplaceAll(s, v, w)
<1>1. Len(s) \in Nat /\ DOMAIN s = 1..Len(s)
  BY LenProperties
<1>2. \A k \in 1..Len(s) : s[k] \in S
  BY ElementOfSeq
<1>3. /\ r = [k \in 1..Len(s) |-> IF s[k] = v THEN w ELSE s[k]]
      /\ \A k \in 1..Len(s) : (IF s[k] = v THEN w ELSE s[k]) \in S
  BY <1>2 DEF ReplaceAll
<1>4. r \in Seq(S) /\ DOMAIN r = 1..Len(s) /\ Len(r) = Len(s) /\ \A k \in 1..Len(s) : r[k] = IF s[k] = v THEN w ELSE s[k]
  <2>1. r \in [1..Len(s) -> S]
    BY <1>3
  <2>2. r \in Seq(S)
    BY <1>1, <2>1, SeqDef
  <2>3. DOMAIN r = 1..Len(r) /\ Len(r) \in Nat
    BY <2>2, LenProperties
  <2> QED
    BY <1>1, <1>3, <2>2, <2>3
<1>5. CASE e = v
  <2>1. ~Contains(r, e)
    <3> HIDE DEF r
    <3> QED
      BY <1>4, <1>5 DEF Contains
  <2> QED
    BY <1>1, <1>4, <1>5, <2>1, TimesIsCounted
<1>6. CASE e = w
  <2> DEFINE A == {k \in DOMAIN s : s[k] = w}
             B == {k \in DOMAIN s : s[k] = v}
  <2>1. {k \in DOMAIN r : r[k] = e} = A \cup B
    <3> HIDE DEF r
    <3> QED
      BY <1>1, <1>4, <1>6
  <2>2. A \cap B = {}
    OBVIOUS
  <2>3. IsFiniteSet(A) /\ IsFiniteSet(B) /\ Cardinality(A) \in Nat /\ Cardinality(B) \in Nat
    BY TimesIsCounted, FS_CardinalityType
  <2>4. Cardinality(A \cup B) = Cardinality(A) + Cardinality(B)
    <3>1. Cardinality(A \cup B) = Cardinality(A) + Cardinality(B) - Cardinality(A \cap B)
      BY <2>3, FS_Union
    <3>2. Cardinality(A \cap B) = 0
      BY <2>2, FS_EmptySet
    <3> HIDE DEF A, B
    <3> QED
      BY <2>3, <3>1, <3>2
  <2>5. Times(r, e) = Times(s, w) + Times(s, v)
    BY <2>1, <2>4 DEF Times
  <2> QED
    BY <1>1, <1>4, <1>6, <2>5
<1>7. CASE e # v /\ e # w
  <2>1. {k \in DOMAIN r : r[k] = e} = {k \in DOMAIN s : s[k] = e}
    <3> HIDE DEF r
    <3> QED
      BY <1>1, <1>4, <1>7
  <2> QED
    BY <1>1, <1>4, <1>7, <2>1 DEF Times
<1> QED
  BY <1>5, <1>6, <1>7

(* Taking one element out.                                                 *)
FirstAt(s, e, m) == m \in 1..Len(s) /\ s[m] = e /\ \A j \in 1..Len(s) : s[j] = e => m <= j

(* The place the search finds is the first.                                *)
LEMMA FirstPlace ==
  ASSUME NEW S, NEW s \in Seq(S), NEW e, Contains(s, e)
  PROVE  \E m : /\ FirstAt(s, e, m)
                /\ RemoveFirst(s, e) = SubSeq(s, 1, m - 1) \o SubSeq(s, m + 1, Len(s))
<1>1. Len(s) \in Nat
  BY LenProperties
<1> DEFINE I == {k \in 1..Len(s) : s[k] = e}
           m == IF I # {} THEN Min(I) ELSE 0
<1>2. I # {} /\ I \in SUBSET (1..Len(s))
  BY DEF Contains
<1>3. m \in I /\ \A i \in I : m <= i
  <2> HIDE DEF I
  <2> QED
    BY <1>1, <1>2, SelectedPlace
<1>4. FirstAt(s, e, m)
  <2>1. PICK n : n = m
    OBVIOUS
  <2> HIDE DEF m
  <2> QED
    BY <1>3, <2>1 DEF FirstAt
<1>5. RemoveFirst(s, e) = SubSeq(s, 1, m - 1) \o SubSeq(s, m + 1, Len(s))
  <2>1. \E i \in 1..Len(s) : s[i] = e
    BY <1>2
  <2> QED
    BY <2>1 DEF RemoveFirst, RemoveAt, SelectInSeq
<1> HIDE DEF m
<1> QED
  BY <1>4, <1>5

(* r is s without the element at place k.                                  *)
IsWithout(r, s, m) ==
  /\ Len(s) \in Nat /\ DOMAIN s = 1..Len(s)
  /\ Len(r) = Len(s) - 1 /\ DOMAIN r = 1..(Len(s) - 1)
  /\ \A k \in 1..(Len(s) - 1) : r[k] = IF k < m THEN s[k] ELSE s[k+1]
  /\ \A e : Times(r, e) = Times(s, e) - (IF s[m] = e THEN 1 ELSE 0)

LEMMA WithoutOne ==
  ASSUME NEW S, NEW s \in Seq(S), NEW m \in 1..Len(s), NEW r,
         r = SubSeq(s, 1, m - 1) \o SubSeq(s, m + 1, Len(s))
  PROVE  r \in Seq(S) /\ IsWithout(r, s, m)
<1>1. Len(s) \in Nat /\ DOMAIN s = 1..Len(s)
  BY LenProperties
<1>2. \A k \in 1..Len(s) : s[k] \in S
  BY ElementOfSeq
<1> DEFINE a == SubSeq(s, 1, m - 1)
           b == SubSeq(s, m + 1, Len(s))
<1>3. a \in Seq(S) /\ Len(a) = m - 1 /\ \A k \in 1..(m - 1) : a[k] = s[k]
  <2>1. \A k \in 1..(m - 1) : s[k] \in S
    BY <1>1, <1>2
  <2>2. /\ a \in Seq(S)
        /\ Len(a) = IF 1 <= m - 1 THEN (m - 1) - 1 + 1 ELSE 0
        /\ \A k \in 1..((m - 1) - 1 + 1) : a[k] = s[1 + k - 1]
    BY <1>1, <2>1, SubSeqProperties
  <2> HIDE DEF a
  <2> QED
    BY <1>1, <2>2
<1>4. b \in Seq(S) /\ Len(b) = Len(s) - m /\ \A k \in 1..(Len(s) - m) : b[k] = s[m + k]
  <2>1. \A k \in (m + 1)..Len(s) : s[k] \in S
    BY <1>1, <1>2
  <2>2. /\ b \in Seq(S)
        /\ Len(b) = IF m + 1 <= Len(s) THEN Len(s) - (m + 1) + 1 ELSE 0
        /\ \A k \in 1..(Len(s) - (m + 1) + 1) : b[k] = s[(m + 1) + k - 1]
    BY <1>1, <2>1, SubSeqProperties
  <2>3. Len(b) = Len(s) - m
    <3>1. PICK n : n = Len(b)
      OBVIOUS
    <3>2. n = IF m + 1 <= Len(s) THEN Len(s) - (m + 1) + 1 ELSE 0
      BY <2>2, <3>1
    <3>3. PICK l : l = Len(s)
      OBVIOUS
    <3>4. l \in Nat /\ m \in 1..l
      BY <1>1, <3>3
    <3>5. n = IF m + 1 <= l THEN l - (m + 1) + 1 ELSE 0
      BY <3>2, <3>3
    <3>6. n = l - m
      BY <3>4, <3>5
    <3> QED
      BY <3>1, <3>3, <3>6
  <2>4. ASSUME NEW k \in 1..(Len(s) - m) PROVE b[k] = s[m + k]
    <3>1. k \in 1..(Len(s) - (m + 1) + 1) /\ (m + 1) + k - 1 = m + k
      BY <1>1
    <3> HIDE DEF b
    <3> QED
      BY <2>2, <3>1
  <2> QED
    BY <2>2, <2>3, <2>4
<1>5. /\ r \in Seq(S)
      /\ Len(r) = Len(a) + Len(b)
      /\ \A k \in 1..(Len(a) + Len(b)) : r[k] = IF k <= Len(a) THEN a[k] ELSE b[k - Len(a)]
  BY <1>3, <1>4, ConcatProperties
<1>6. Len(r) = Len(s) - 1 /\ DOMAIN r = 1..(Len(s) - 1)
  <2>1. DOMAIN r = 1..Len(r)
    BY <1>5, LenProperties
  <2>2. Len(r) = Len(s) - 1
    <3>1. PICK l : l = Len(s)
      OBVIOUS
    <3>2. l \in Nat /\ m \in 1..l
      BY <1>1, <3>1
    <3>3. Len(r) = (m - 1) + (l - m)
      BY <1>3, <1>4, <1>5, <3>1, Zenon
    <3>4. (m - 1) + (l - m) = l - 1
      BY <3>2
    <3> QED
      BY <3>1, <3>3, <3>4
  <2> QED
    BY <2>1, <2>2
<1>7. ASSUME NEW k \in 1..(Len(s) - 1) PROVE r[k] = IF k < m THEN s[k] ELSE s[k+1]
  <2>1. k \in 1..(Len(a) + Len(b)) /\ (k <= Len(a) <=> k < m)
    <3> HIDE DEF a, b
    <3> QED
      BY <1>1, <1>3, <1>4
  <2>2. CASE k < m
    <3>1. k \in 1..(m - 1)
      BY <1>1, <2>2
    <3> HIDE DEF a, b
    <3> QED
      BY <1>3, <1>5, <2>1, <2>2, <3>1
  <2>3. CASE ~(k < m)
    <3>1. k - Len(a) \in 1..(Len(s) - m) /\ m + (k - Len(a)) = k + 1
      <4> HIDE DEF a, b
      <4> QED
        BY <1>1, <1>3, <2>3
    <3> HIDE DEF a, b
    <3> QED
      BY <1>4, <1>5, <2>1, <2>3, <3>1
  <2> QED
    BY <2>2, <2>3
<1>8. ASSUME NEW e PROVE Times(r, e) = Times(s, e) - (IF s[m] = e THEN 1 ELSE 0)
  <2> DEFINE one == <<s[m]>>
  <2>1. one \in Seq(S) /\ Times(one, e) = (IF s[m] = e THEN 1 ELSE 0)
    BY <1>2, TimesInOne
  <2>2. s = a \o (one \o b)
    <3>1. SubSeq(s, m, Len(s)) = one \o b
      BY <1>1, SubSeqRecursiveFirst
    <3>2. SubSeq(s, 1, m - 1) \o SubSeq(s, (m - 1) + 1, Len(s)) = SubSeq(s, 1, Len(s))
      BY <1>1, ConcatAdjacentSubSeq, SMTT(20)
    <3>3. SubSeq(s, 1, Len(s)) = s /\ (m - 1) + 1 = m
      BY SubSeqFull
    <3> QED
      BY <3>1, <3>2, <3>3
  <2>3. r = a \o b
    OBVIOUS
  <2> HIDE DEF a, b, one
  <2>4. Times(a \o b, e) = Times(a, e) + Times(b, e)
    BY <1>3, <1>4, TimesInBoth
  <2>5. one \o b \in Seq(S)
    BY <1>4, <2>1, ConcatProperties
  <2>6. Times(one \o b, e) = Times(one, e) + Times(b, e)
    BY <1>4, <2>1, TimesInBoth
  <2>7. Times(a \o (one \o b), e) = Times(a, e) + Times(one \o b, e)
    BY <1>3, <2>5, TimesInBoth, ZenonT(40)
  <2>8. Times(a, e) \in Nat /\ Times(b, e) \in Nat
    BY <1>3, <1>4, TimesIsCounted
  <2>9. PICK x, y, z : x = Times(a, e) /\ y = Times(b, e) /\ z = IF s[m] = e THEN 1 ELSE 0
    OBVIOUS
  <2>10. x \in Nat /\ y \in Nat /\ z \in Nat
    BY <2>8, <2>9
  <2>11. Times(r, e) = x + y /\ Times(s, e) = x + (z + y)
    BY <2>1, <2>2, <2>3, <2>4, <2>6, <2>7, <2>9
  <2>12. Times(r, e) = Times(s, e) - z
    BY <2>10, <2>11
  <2> QED
    BY <2>9, <2>12
<1> HIDE DEF a, b
<1> QED
  BY <1>1, <1>5, <1>6, <1>7, <1>8 DEF IsWithout

LEMMA RemovedFirst ==
  ASSUME NEW S, NEW s \in Seq(S), NEW e, Contains(s, e)
  PROVE  /\ RemoveFirst(s, e) \in Seq(S)
         /\ Len(s) \in Nat \ {0} /\ Len(RemoveFirst(s, e)) = Len(s) - 1
         /\ \A x : Times(RemoveFirst(s, e), x) = Times(s, x) - (IF x = e THEN 1 ELSE 0)
         /\ ToSet(RemoveFirst(s, e)) \subseteq ToSet(s)
<1>1. PICK m : FirstAt(s, e, m) /\ RemoveFirst(s, e) = SubSeq(s, 1, m - 1) \o SubSeq(s, m + 1, Len(s))
  BY FirstPlace
<1> DEFINE r == RemoveFirst(s, e)
<1>2. r \in Seq(S) /\ IsWithout(r, s, m)
  <2> HIDE DEF r
  <2> QED
    BY <1>1, WithoutOne DEF FirstAt, r
<1> HIDE DEF r
<1>3. \A k \in DOMAIN r : \E l \in DOMAIN s : r[k] = s[l]
  BY <1>2 DEF IsWithout
<1>4. \A x : Times(r, x) = Times(s, x) - (IF x = e THEN 1 ELSE 0)
  BY <1>1, <1>2 DEF FirstAt, IsWithout
<1>5. ToSet(r) \subseteq ToSet(s)
  BY <1>3 DEF ToSet
<1>6. Len(s) \in Nat \ {0} /\ Len(r) = Len(s) - 1
  BY <1>1, <1>2 DEF FirstAt, IsWithout
<1> QED
  BY <1>2, <1>4, <1>5, <1>6 DEF r

(* The queue has each block once, none that is gone and not the entry;     *)
(* while the loop over the blocks runs, only blocks it has passed.         *)
QueueInv ==
  /\ present \in SUBSET Block
  /\ next \in 1..(N+1)
  /\ changed \in BOOLEAN
  /\ phase \in {"evaluate", "simplify", "remove"} \cup Ends
  /\ removeQueue \in Seq(Block)
  /\ IsInjective(removeQueue)
  /\ ToSet(removeQueue) \subseteq present \ {Entry}
  /\ phase = "evaluate" => removeQueue = <<>>
  /\ phase = "simplify" => \A b \in ToSet(removeQueue) : b < next

EmptyQueue == <<>> \in Seq(Block) /\ IsInjective(<<>>) /\ ToSet(<<>>) = {}

LEMMA EmptyQueueIs == EmptyQueue
BY DEF EmptyQueue, IsInjective, ToSet

LEMMA QueueInit == Init => QueueInv
<1> SUFFICES ASSUME Init PROVE QueueInv
  OBVIOUS
<1>1. 1 \in 1..(N+1)
  BY NAssumption
<1>2. next = 1 /\ changed = FALSE /\ removeQueue = <<>> /\ present = Block /\ phase = "evaluate"
  BY DEF Init
<1> QED
  BY <1>1, <1>2, EmptyQueueIs DEF QueueInv, EmptyQueue, Ends

LEMMA BlocksAre == /\ N \in Nat \ {0}
                   /\ Entry \in Block
                   /\ \A b \in Block : b \in Nat /\ b >= 1 /\ b <= N
BY NAssumption DEF Entry, Block

LEMMA QueueStep == QueueInv /\ [Next]_vars => QueueInv'
<1> SUFFICES ASSUME QueueInv, [Next]_vars PROVE QueueInv'
  OBVIOUS
<1> USE BlocksAre
<1>1. CASE Evaluate
  BY <1>1 DEF Evaluate, QueueInv
<1>2. CASE Analyse
  BY <1>2, EmptyQueueIs DEF Analyse, QueueInv, EmptyQueue
<1>3. ASSUME NEW b \in Block, PruneUnreached(b) \/ PruneBranch(b) PROVE QueueInv'
  <2>1. /\ phase = "simplify" /\ next = b /\ next' = next + 1
        /\ present' = present /\ phase' = phase /\ b \in present \ {Entry}
        /\ removeQueue' = Append(removeQueue, b) /\ changed' = TRUE
    BY <1>3 DEF PruneUnreached, PruneBranch, Visiting, Candidate, Queued
  <2>2. b \notin ToSet(removeQueue)
    BY <2>1 DEF QueueInv
  <2>3. /\ removeQueue' \in Seq(Block) /\ IsInjective(removeQueue')
        /\ ToSet(removeQueue') = ToSet(removeQueue) \cup {b}
    BY <2>1, <2>2, AppendOne, AppendNewInjective DEF QueueInv
  <2>4. \A c \in ToSet(removeQueue') : c < next'
    <3>1. b \in Nat /\ next' = b + 1 /\ next = b
      BY <2>1
    <3>2. \A c \in ToSet(removeQueue) : c \in Nat /\ c < b
      BY <2>1 DEF QueueInv
    <3> QED
      BY <2>3, <3>1, <3>2
  <2>5. next' \in 1..(N+1)
    BY <2>1
  <2> QED
    BY <2>1, <2>3, <2>4, <2>5 DEF QueueInv
<1>4. ASSUME NEW b \in Block, ReplaceByItself(b) \/ Keep(b) PROVE QueueInv'
  <2>1. /\ phase = "simplify" /\ next = b /\ next' = next + 1 /\ removeQueue' = removeQueue
        /\ present' = present /\ changed' = changed /\ (phase' = phase \/ phase' = "replaced itself")
    BY <1>4 DEF ReplaceByItself, Keep, Visiting
  <2>2. b \in Nat /\ b >= 1 /\ b <= N /\ N \in Nat /\ next' = b + 1 /\ next = b
    BY <2>1
  <2>3. \A c \in ToSet(removeQueue) : c \in Nat /\ c < b
    BY <2>1 DEF QueueInv
  <2>4. \A c \in ToSet(removeQueue) : c < next'
    BY <2>2, <2>3
  <2>5. next' \in 1..(N+1)
    BY <2>2
  <2> QED
    BY <2>1, <2>4, <2>5 DEF QueueInv, Ends
<1>5. CASE EndVisits
  BY <1>5 DEF EndVisits, QueueInv
<1>6. CASE RemoveNext
  <2>1. /\ removeQueue \in Seq(Block) /\ removeQueue # <<>>
        /\ phase = "remove" /\ next' = next /\ changed' = changed
    BY <1>6 DEF RemoveNext, QueueInv
  <2>2. CASE /\ removeQueue' = Front(removeQueue)
             /\ present' = present \ {Last(removeQueue)}
             /\ phase' = phase
    <3>1. /\ removeQueue' \in Seq(Block) /\ IsInjective(removeQueue')
          /\ ToSet(removeQueue) = ToSet(removeQueue') \cup {Last(removeQueue)}
          /\ Last(removeQueue) \notin ToSet(removeQueue')
      BY <2>1, <2>2, FrontAndLast, FrontInjective DEF QueueInv
    <3> QED
      BY <2>1, <2>2, <3>1 DEF QueueInv
  <2>3. CASE phase' = "users left" /\ removeQueue' = removeQueue /\ present' = present
    BY <2>1, <2>3 DEF QueueInv, Ends
  <2> QED
    BY <1>6, <2>2, <2>3 DEF RemoveNext, RemoveBlock
<1>7. CASE EndRound
  <2>1. 1 \in 1..(N+1)
    OBVIOUS
  <2>2. next' = 1 /\ changed' = FALSE /\ removeQueue = <<>> /\ removeQueue' = <<>> /\ present' = present /\ phase' \in {"simplify", "done"}
    BY <1>7 DEF EndRound, Reset
  <2> QED
    BY <2>1, <2>2, EmptyQueueIs DEF QueueInv, EmptyQueue, Ends
<1>8. CASE UNCHANGED vars
  BY <1>8 DEF vars, QueueInv
<1> QED
  BY <1>1, <1>2, <1>3, <1>4, <1>5, <1>6, <1>7, <1>8 DEF Next

(* Value::remove_user, of one block. *)
Less(us, b, u) == [us EXCEPT ![b] = RemoveFirst(@, u)]

-----------------------------------------------------------------------------
(* The loops, each as a function of the turns made: what turn i makes of   *)
(* what the turns before it left.                                          *)
Turn(loop, x, y, s, i) ==
  CASE loop = "take off" -> Less(s, x[i], y)
    [] loop = "prune" -> Pruned(x, s, i)
    [] loop = "redirect" -> Redirected(x, y, s, i)
    [] loop = "unregister" -> [c \in Block |-> IF c \in DOMAIN x[i] THEN RemoveFirst(s[c], Phi(y, i)) ELSE s[c]]
    [] loop = "phis" -> s \o PhisOf(x, x.dst[y][i])
    [] loop = "preds" -> s \o Copies(x, i, y)
    [] loop = "through" -> IF Passed(s) THEN Meant(s)[1] ELSE s

IsLoop(f, loop, x, y, base, n) ==
  /\ DOMAIN f = 0..n
  /\ f = [i \in 0..n |-> IF i = 0 THEN base ELSE Turn(loop, x, y, f[i-1], i)]

LEMMA LoopExists ==
  ASSUME NEW loop, NEW x, NEW y, NEW base, NEW n \in Nat
  PROVE  \E f : IsLoop(f, loop, x, y, base, n)
<1> DEFINE G == {m \in 0..n : \E f : IsLoop(f, loop, x, y, base, m)}
           T(s, i) == Turn(loop, x, y, s, i)
<1>1. 0 \in G
  <2>1. IsLoop([i \in 0..0 |-> base], loop, x, y, base, 0)
    BY DEF IsLoop
  <2> QED
    BY <2>1
<1>2. ASSUME NEW m \in 0..(n-1), m \in G PROVE m + 1 \in G
  <2>1. PICK f : IsLoop(f, loop, x, y, base, m)
    BY <1>2
  <2>2. \A i \in 0..m : f[i] = IF i = 0 THEN base ELSE T(f[i-1], i)
    BY <2>1 DEF IsLoop
  <2> DEFINE g == [i \in 0..(m+1) |-> IF i = m + 1 THEN T(f[m], m + 1) ELSE f[i]]
             h == [i \in 0..(m+1) |-> IF i = 0 THEN base ELSE T(g[i-1], i)]
  <2> HIDE DEF T
  <2>3. ASSUME NEW i \in 0..(m+1) PROVE g[i] = h[i]
    <3>1. CASE i = 0
      BY <2>2, <3>1
    <3>2. CASE i # 0 /\ i # m + 1
      <4>1. i \in 0..m /\ i - 1 \in 0..(m+1) /\ i - 1 # m + 1
        BY <3>2
      <4>2. g[i] = f[i] /\ g[i-1] = f[i-1]
        BY <3>2, <4>1
      <4>3. h[i] = T(g[i-1], i)
        BY <3>2
      <4>4. f[i] = T(f[i-1], i)
        BY <2>2, <3>2, <4>1
      <4> HIDE DEF g, h
      <4> QED
        BY <4>2, <4>3, <4>4
    <3>3. CASE i = m + 1
      <4>1. i - 1 = m /\ m \in 0..(m+1) /\ m # m + 1 /\ i # 0
        BY <3>3
      <4>2. g[i] = T(f[m], m + 1) /\ g[m] = f[m]
        BY <3>3, <4>1
      <4>3. h[i] = T(g[i-1], i)
        BY <4>1
      <4> HIDE DEF g, h
      <4> QED
        BY <3>3, <4>1, <4>2, <4>3
    <3> QED
      BY <3>1, <3>2, <3>3
  <2>4. g = h
    BY <2>3
  <2>5. DOMAIN g = 0..(m+1)
    OBVIOUS
  <2>6. IsLoop(g, loop, x, y, base, m + 1)
    <3> HIDE DEF g
    <3> QED
      BY <2>4, <2>5 DEF IsLoop, T
  <2> QED
    BY <2>6
<1>3. 0..n \subseteq G
  <2> HIDE DEF G
  <2> QED
    BY <1>1, <1>2, IntervalInduction
<1> QED
  BY <1>3

LEMMA TakenOffIs ==
  ASSUME NEW us, NEW bs, Len(bs) \in 0..2, NEW u
  PROVE  /\ Len(bs) = 0 => TakenOff(us, bs, u) = us
         /\ Len(bs) = 1 => TakenOff(us, bs, u) = Less(us, bs[1], u)
         /\ Len(bs) = 2 => TakenOff(us, bs, u) = Less(Less(us, bs[1], u), bs[2], u)
<1> DEFINE F(g) == [k \in 0..Len(bs) |-> IF k = 0 THEN us ELSE [g[k-1] EXCEPT ![bs[k]] = RemoveFirst(@, u)]]
           f == CHOOSE g : g = F(g)
<1>1. f = F(f)
  <2>1. PICK g : IsLoop(g, "take off", bs, u, us, Len(bs))
    <3>1. Len(bs) \in Nat
      OBVIOUS
    <3> QED
      BY <3>1, LoopExists
  <2>2. \A s, i : Turn("take off", bs, u, s, i) = [s EXCEPT ![bs[i]] = RemoveFirst(@, u)]
    BY Zenon DEF Turn, Less
  <2>3. g = F(g)
    BY <2>1, <2>2 DEF IsLoop
  <2> HIDE DEF F
  <2> QED
    BY <2>3
<1>2. TakenOff(us, bs, u) = f[Len(bs)]
  BY Zenon DEF TakenOff
<1> HIDE DEF f
<1>3. \A k \in 0..Len(bs) : f[k] = IF k = 0 THEN us ELSE Less(f[k-1], bs[k], u)
  <2> DEFINE h == F(f)
  <2>1. \A k \in 0..Len(bs) : h[k] = IF k = 0 THEN us ELSE Less(f[k-1], bs[k], u)
    BY DEF Less
  <2> QED
    BY <1>1, <2>1
<1>4. f[0] = us
  BY <1>3
<1>5. Len(bs) >= 1 => f[1] = Less(us, bs[1], u)
  BY <1>3, <1>4
<1>6. Len(bs) = 2 => f[2] = Less(f[1], bs[2], u)
  BY <1>3
<1>7. ASSUME Len(bs) = 0 PROVE TakenOff(us, bs, u) = us
  BY <1>2, <1>4, <1>7
<1>8. ASSUME Len(bs) = 1 PROVE TakenOff(us, bs, u) = Less(us, bs[1], u)
  BY <1>2, <1>5, <1>8
<1>9. ASSUME Len(bs) = 2 PROVE TakenOff(us, bs, u) = Less(Less(us, bs[1], u), bs[2], u)
  BY <1>2, <1>5, <1>6, <1>9
<1> QED
  BY <1>7, <1>8, <1>9, Zenon

(* R is us with less entries for u in the lists of the blocks of bs. *)
IsLess(R, us, bs, u, S) ==
  /\ R \in [Block -> Seq(S)]
  /\ \A x \in Block : \A v : Times(R[x], v) = Times(us[x], v) - (IF v = u THEN Times(bs, x) ELSE 0)
  /\ \A x \in Block \ ToSet(bs) : R[x] = us[x]

IsOneLess(R, us, b, u, S) ==
  /\ R \in [Block -> Seq(S)]
  /\ \A x \in Block : \A v : Times(R[x], v) = Times(us[x], v) - (IF x = b /\ v = u THEN 1 ELSE 0)
  /\ \A x \in Block \ {b} : R[x] = us[x]

(* One entry less of u, in one list. *)
LEMMA LessTimes ==
  ASSUME NEW S, NEW us \in [Block -> Seq(S)], NEW b \in Block, NEW u, Times(us[b], u) >= 1
  PROVE  IsOneLess(Less(us, b, u), us, b, u, S)
<1>1. Contains(us[b], u)
  <2>1. us[b] \in Seq(S)
    OBVIOUS
  <2>2. Times(us[b], u) # 0
    OBVIOUS
  <2> QED
    BY <2>1, <2>2, TimesIsCounted
<1>2. /\ RemoveFirst(us[b], u) \in Seq(S)
      /\ \A v : Times(RemoveFirst(us[b], u), v) = Times(us[b], v) - (IF v = u THEN 1 ELSE 0)
  BY <1>1, RemovedFirst
<1>3. \A x \in Block : Less(us, b, u)[x] = IF x = b THEN RemoveFirst(us[b], u) ELSE us[x]
  BY DEF Less
<1>4. Less(us, b, u) \in [Block -> Seq(S)]
  BY <1>2 DEF Less
<1>5. \A x \in Block : \A v : Times(us[x], v) \in Nat
  <2>1. \A x \in Block : us[x] \in Seq(S)
    OBVIOUS
  <2> QED
    BY <2>1, TimesIsCounted
<1>6. ASSUME NEW x \in Block, NEW v
      PROVE  Times(Less(us, b, u)[x], v) = Times(us[x], v) - (IF x = b /\ v = u THEN 1 ELSE 0)
  <2>1. CASE x = b
    BY <1>2, <1>3, <2>1
  <2>2. CASE x # b
    BY <1>3, <1>5, <2>2
  <2> QED
    BY <2>1, <2>2
<1> QED
  BY <1>3, <1>4, <1>6 DEF IsOneLess

(* One entry less for each time a block is listed. *)
LEMMA TakenOffTimes ==
  ASSUME NEW S, NEW us \in [Block -> Seq(S)], NEW bs \in Seq(Block), Len(bs) \in 0..2, NEW u,
         \A x \in Block : Times(us[x], u) >= Times(bs, x)
  PROVE  IsLess(TakenOff(us, bs, u), us, bs, u, S)
<1>1. \A x \in Block : \A v : Times(us[x], v) \in Nat
  <2>1. \A x \in Block : us[x] \in Seq(S)
    OBVIOUS
  <2> QED
    BY <2>1, TimesIsCounted
<1>2. CASE Len(bs) = 0
  <2>1. bs = <<>> /\ \A x : Times(bs, x) = 0
    BY <1>2, EmptySeq, TimesInNone
  <2>2. TakenOff(us, bs, u) = us
    BY <1>2, TakenOffIs
  <2>3. \A x \in Block : \A v : Times(us[x], v) = Times(us[x], v) - (IF v = u THEN Times(bs, x) ELSE 0)
    BY <1>1, <2>1
  <2> QED
    BY <2>2, <2>3 DEF IsLess
<1>3. CASE Len(bs) = 1
  <2>1. bs = <<bs[1]>> /\ \A x : Times(bs, x) = IF bs[1] = x THEN 1 ELSE 0
    BY <1>3, TimesInFew
  <2>2. bs[1] \in Block /\ bs[1] \in ToSet(bs)
    <3>1. DOMAIN bs = 1..Len(bs) /\ 1 \in 1..Len(bs)
      BY <1>3, LenProperties
    <3> QED
      BY <3>1, ElementOfSeq DEF ToSet
  <2>3. TakenOff(us, bs, u) = Less(us, bs[1], u)
    BY <1>3, TakenOffIs
  <2>4. Times(us[bs[1]], u) >= 1
    BY <2>1, <2>2
  <2>5. IsOneLess(Less(us, bs[1], u), us, bs[1], u, S)
    BY <2>2, <2>4, LessTimes
  <2>6. PICK one : one = Less(us, bs[1], u)
    OBVIOUS
  <2>7. ASSUME NEW x \in Block, NEW v PROVE Times(one[x], v) = Times(us[x], v) - (IF v = u THEN Times(bs, x) ELSE 0)
    <3>1. Times(one[x], v) = Times(us[x], v) - (IF x = bs[1] /\ v = u THEN 1 ELSE 0)
      BY <2>5, <2>6 DEF IsOneLess
    <3>2. Times(bs, x) = IF bs[1] = x THEN 1 ELSE 0
      BY <2>1
    <3> QED
      BY <1>1, <3>1, <3>2
  <2> QED
    BY <2>2, <2>3, <2>5, <2>6, <2>7 DEF IsLess, IsOneLess
<1>4. CASE Len(bs) = 2
  <2>1. bs = <<bs[1], bs[2]>> /\ \A x : Times(bs, x) = (IF bs[1] = x THEN 1 ELSE 0) + (IF bs[2] = x THEN 1 ELSE 0)
    BY <1>4, TimesInFew
  <2>2. bs[1] \in Block /\ bs[2] \in Block /\ bs[1] \in ToSet(bs) /\ bs[2] \in ToSet(bs)
    <3>1. DOMAIN bs = 1..Len(bs) /\ 1 \in 1..Len(bs) /\ 2 \in 1..Len(bs)
      BY <1>4, LenProperties
    <3> QED
      BY <3>1, ElementOfSeq DEF ToSet
  <2>3. TakenOff(us, bs, u) = Less(Less(us, bs[1], u), bs[2], u)
    BY <1>4, TakenOffIs
  <2> DEFINE one == Less(us, bs[1], u)
             two == Less(one, bs[2], u)
  <2>4. Times(us[bs[1]], u) >= 1
    <3>1. Times(us[bs[1]], u) >= Times(bs, bs[1])
      BY <2>2
    <3>2. Times(bs, bs[1]) = 1 \/ Times(bs, bs[1]) = 2
      BY <2>1
    <3>3. Times(us[bs[1]], u) \in Nat
      BY <1>1, <2>2
    <3> QED
      BY <3>1, <3>2, <3>3
  <2>5. IsOneLess(one, us, bs[1], u, S)
    BY <2>2, <2>4, LessTimes
  <2> HIDE DEF one
  <2>6. Times(one[bs[2]], u) >= 1
    <3>1. Times(us[bs[2]], u) >= Times(bs, bs[2]) /\ Times(us[bs[2]], u) \in Nat
      BY <1>1, <2>2
    <3>2. Times(bs, bs[2]) = (IF bs[1] = bs[2] THEN 1 ELSE 0) + 1
      BY <2>1
    <3>3. Times(one[bs[2]], u) = Times(us[bs[2]], u) - (IF bs[2] = bs[1] THEN 1 ELSE 0)
      BY <2>2, <2>5 DEF IsOneLess
    <3> QED
      BY <3>1, <3>2, <3>3
  <2>7. IsOneLess(two, one, bs[2], u, S)
    <3>1. one \in [Block -> Seq(S)]
      BY <2>5 DEF IsOneLess
    <3> QED
      BY <2>2, <2>6, <3>1, LessTimes
  <2>8. TakenOff(us, bs, u) = two
    BY <2>3 DEF one
  <2> HIDE DEF two
  <2>9. ASSUME NEW x \in Block, NEW v
        PROVE  Times(two[x], v) = Times(us[x], v) - (IF v = u THEN Times(bs, x) ELSE 0)
    <3>1. Times(two[x], v) = Times(one[x], v) - (IF x = bs[2] /\ v = u THEN 1 ELSE 0)
      BY <2>7 DEF IsOneLess
    <3>2. Times(one[x], v) = Times(us[x], v) - (IF x = bs[1] /\ v = u THEN 1 ELSE 0)
      BY <2>5 DEF IsOneLess
    <3>3. Times(bs, x) = (IF bs[1] = x THEN 1 ELSE 0) + (IF bs[2] = x THEN 1 ELSE 0)
      BY <2>1
    <3> QED
      BY <1>1, <3>1, <3>2, <3>3
  <2> QED
    BY <2>2, <2>5, <2>7, <2>8, <2>9 DEF IsLess, IsOneLess
<1> QED
  BY <1>2, <1>3, <1>4

(* What a loop over users starts from. *)
LoopStart(b) == [dst |-> dst, phis |-> phis, users |-> users, list |-> [slots |-> users[b], size |-> Len(users[b])]]

LEMMA PruningIs ==
  ASSUME NEW b, Len(users[b]) \in Nat
  PROVE  \E f : /\ f[0] = LoopStart(b)
                /\ \A i \in 1..Len(users[b]) : f[i] = Pruned(b, f[i-1], i)
                /\ OverUsers(LAMBDA s, i : Pruned(b, s, i), b) = f[Len(users[b])]
<1> DEFINE F(g) == [i \in 0..Len(users[b]) |-> IF i = 0 THEN LoopStart(b) ELSE Pruned(b, g[i-1], i)]
           f == CHOOSE g : g = F(g)
<1>1. f = F(f)
  <2>1. PICK g : IsLoop(g, "prune", b, b, LoopStart(b), Len(users[b]))
    BY LoopExists
  <2>2. \A s, i : Turn("prune", b, b, s, i) = Pruned(b, s, i)
    BY Zenon DEF Turn
  <2>3. g = F(g)
    BY <2>1, <2>2 DEF IsLoop
  <2> HIDE DEF F
  <2> QED
    BY <2>3
<1>2. OverUsers(LAMBDA s, i : Pruned(b, s, i), b) = f[Len(users[b])]
  BY Zenon DEF OverUsers, LoopStart
<1> HIDE DEF f
<1>3. \A i \in 0..Len(users[b]) : f[i] = IF i = 0 THEN LoopStart(b) ELSE Pruned(b, f[i-1], i)
  <2> DEFINE h == F(f)
  <2>1. \A i \in 0..Len(users[b]) : h[i] = IF i = 0 THEN LoopStart(b) ELSE Pruned(b, f[i-1], i)
    OBVIOUS
  <2> QED
    BY <1>1, <2>1
<1>4. f[0] = LoopStart(b)
  BY <1>3
<1>5. \A i \in 1..Len(users[b]) : f[i] = Pruned(b, f[i-1], i)
  <2>1. \A i \in 1..Len(users[b]) : i \in 0..Len(users[b]) /\ i # 0
    BY NAssumption
  <2> QED
    BY <1>3, <2>1
<1> QED
  BY <1>2, <1>4, <1>5

(* The loop that replaces b by d. *)
Redirection(b, d) == OverUsers(LAMBDA s, i : Redirected(b, d, s, i), b)

LEMMA RedirectingIs ==
  ASSUME NEW b, NEW d, Len(users[b]) \in Nat
  PROVE  \E f : /\ f[0] = LoopStart(b)
                /\ \A i \in 1..Len(users[b]) : f[i] = Redirected(b, d, f[i-1], i)
                /\ Redirection(b, d) = f[Len(users[b])]
<1> DEFINE F(g) == [i \in 0..Len(users[b]) |-> IF i = 0 THEN LoopStart(b) ELSE Redirected(b, d, g[i-1], i)]
           f == CHOOSE g : g = F(g)
<1>1. f = F(f)
  <2>1. PICK g : IsLoop(g, "redirect", b, d, LoopStart(b), Len(users[b]))
    BY LoopExists
  <2>2. \A s, i : Turn("redirect", b, d, s, i) = Redirected(b, d, s, i)
    BY Zenon DEF Turn
  <2>3. g = F(g)
    BY <2>1, <2>2 DEF IsLoop
  <2> HIDE DEF F
  <2> QED
    BY <2>3
<1>2. Redirection(b, d) = f[Len(users[b])]
  BY Zenon DEF Redirection, OverUsers, LoopStart
<1> HIDE DEF f
<1>3. \A i \in 0..Len(users[b]) : f[i] = IF i = 0 THEN LoopStart(b) ELSE Redirected(b, d, f[i-1], i)
  <2> DEFINE h == F(f)
  <2>1. \A i \in 0..Len(users[b]) : h[i] = IF i = 0 THEN LoopStart(b) ELSE Redirected(b, d, f[i-1], i)
    OBVIOUS
  <2> QED
    BY <1>1, <2>1
<1>4. f[0] = LoopStart(b)
  BY <1>3
<1>5. \A i \in 1..Len(users[b]) : f[i] = Redirected(b, d, f[i-1], i)
  <2>1. \A i \in 1..Len(users[b]) : i \in 0..Len(users[b]) /\ i # 0
    BY NAssumption
  <2> QED
    BY <1>3, <2>1
<1> QED
  BY <1>2, <1>4, <1>5

LEMMA UnregisteringIs ==
  ASSUME NEW b, Len(phis[b]) \in Nat
  PROVE  \E f : /\ f[0] = TakenOff(users, dst[b], Terminator(b, dst[b]))
                /\ \A k \in 1..Len(phis[b]) : f[k] = [c \in Block |-> IF c \in DOMAIN phis[b][k] THEN RemoveFirst(f[k-1][c], Phi(b, k)) ELSE f[k-1][c]]
                /\ Unregistered(b) = f[Len(phis[b])]
<1> DEFINE start == TakenOff(users, dst[b], Terminator(b, dst[b]))
           U(us, k) == [c \in Block |-> IF c \in DOMAIN phis[b][k] THEN RemoveFirst(us[c], Phi(b, k)) ELSE us[c]]
           F(g) == [k \in 0..Len(phis[b]) |-> IF k = 0 THEN start ELSE U(g[k-1], k)]
           f == CHOOSE g : g = F(g)
<1>1. f = F(f)
  <2>1. PICK g : IsLoop(g, "unregister", phis[b], b, start, Len(phis[b]))
    BY LoopExists
  <2>2. \A s, k : Turn("unregister", phis[b], b, s, k) = U(s, k)
    BY Zenon DEF Turn
  <2> HIDE DEF U, start
  <2>3. g = F(g)
    BY <2>1, <2>2 DEF IsLoop
  <2> HIDE DEF F
  <2> QED
    BY <2>3
<1>2. Unregistered(b) = f[Len(phis[b])]
  BY Zenon DEF Unregistered
<1> HIDE DEF f, U, start
<1>3. \A k \in 0..Len(phis[b]) : f[k] = IF k = 0 THEN start ELSE U(f[k-1], k)
  <2> DEFINE h == F(f)
  <2>1. \A k \in 0..Len(phis[b]) : h[k] = IF k = 0 THEN start ELSE U(f[k-1], k)
    OBVIOUS
  <2> QED
    BY <1>1, <2>1
<1>4. f[0] = start
  BY <1>3
<1>5. \A k \in 1..Len(phis[b]) : f[k] = U(f[k-1], k)
  <2>1. \A k \in 1..Len(phis[b]) : k \in 0..Len(phis[b]) /\ k # 0
    OBVIOUS
  <2> QED
    BY <1>3, <2>1
<1> USE DEF U, start
<1> QED
  BY <1>2, <1>4, <1>5, Zenon

LEMMA PhiUsersIs ==
  ASSUME NEW f0, NEW b, Len(f0.dst[b]) \in 0..2
  PROVE  /\ Len(f0.dst[b]) = 0 => PhiUsers(f0, b) = <<>>
         /\ Len(f0.dst[b]) = 1 => PhiUsers(f0, b) = <<>> \o PhisOf(f0, f0.dst[b][1])
         /\ Len(f0.dst[b]) = 2 => PhiUsers(f0, b) = (<<>> \o PhisOf(f0, f0.dst[b][1])) \o PhisOf(f0, f0.dst[b][2])
<1> DEFINE n == Len(f0.dst[b])
           F(g) == [e \in 0..n |-> IF e = 0 THEN <<>> ELSE g[e-1] \o PhisOf(f0, f0.dst[b][e])]
           f == CHOOSE g : g = F(g)
<1>1. f = F(f)
  <2>1. PICK g : IsLoop(g, "phis", f0, b, <<>>, n)
    <3>1. n \in Nat
      OBVIOUS
    <3> QED
      BY <3>1, LoopExists
  <2>2. \A t, e : Turn("phis", f0, b, t, e) = t \o PhisOf(f0, f0.dst[b][e])
    BY Zenon DEF Turn
  <2>3. g = F(g)
    BY <2>1, <2>2 DEF IsLoop
  <2> HIDE DEF F
  <2> QED
    BY <2>3
<1>2. PhiUsers(f0, b) = f[n]
  BY Zenon DEF PhiUsers
<1> HIDE DEF f
<1>3. \A e \in 0..n : f[e] = IF e = 0 THEN <<>> ELSE f[e-1] \o PhisOf(f0, f0.dst[b][e])
  <2> DEFINE h == F(f)
  <2>1. \A e \in 0..n : h[e] = IF e = 0 THEN <<>> ELSE f[e-1] \o PhisOf(f0, f0.dst[b][e])
    OBVIOUS
  <2> QED
    BY <1>1, <2>1
<1>4. f[0] = <<>>
  BY <1>3
<1>10. PICK c : \A e \in 0..n : c[e] = PhisOf(f0, f0.dst[b][e])
  <2>1. \A e \in 0..n : [i \in 0..n |-> PhisOf(f0, f0.dst[b][i])][e] = PhisOf(f0, f0.dst[b][e])
    OBVIOUS
  <2> QED
    BY <2>1
<1>11. \A e \in 0..n : e # 0 => f[e] = f[e-1] \o c[e]
  BY <1>3, <1>10, Zenon
<1>5. n >= 1 => f[1] = <<>> \o PhisOf(f0, f0.dst[b][1])
  <2> SUFFICES ASSUME n >= 1 PROVE f[1] = <<>> \o PhisOf(f0, f0.dst[b][1])
    OBVIOUS
  <2>1. 1 \in 0..n /\ 1 # 0 /\ 1 - 1 = 0
    OBVIOUS
  <2>2. f[1] = f[1-1] \o c[1] /\ c[1] = PhisOf(f0, f0.dst[b][1])
    BY <1>10, <1>11, <2>1, Zenon
  <2>3. f[1-1] = <<>>
    BY <1>4, <2>1, Zenon
  <2> QED
    BY <2>2, <2>3, Zenon
<1>6. n = 2 => f[2] = f[1] \o PhisOf(f0, f0.dst[b][2])
  <2> SUFFICES ASSUME n = 2 PROVE f[2] = f[1] \o PhisOf(f0, f0.dst[b][2])
    OBVIOUS
  <2>1. 2 \in 0..n /\ 2 # 0 /\ 2 - 1 = 1
    OBVIOUS
  <2>2. f[2] = f[2-1] \o c[2] /\ c[2] = PhisOf(f0, f0.dst[b][2])
    BY <1>10, <1>11, <2>1, Zenon
  <2>3. f[2-1] = f[1]
    BY <2>1, Zenon
  <2> QED
    BY <2>2, <2>3, Zenon
<1>7. ASSUME n = 0 PROVE PhiUsers(f0, b) = <<>>
  BY <1>2, <1>4, <1>7
<1>8. ASSUME n = 1 PROVE PhiUsers(f0, b) = <<>> \o PhisOf(f0, f0.dst[b][1])
  BY <1>2, <1>5, <1>8
<1>9. ASSUME n = 2 PROVE PhiUsers(f0, b) = (<<>> \o PhisOf(f0, f0.dst[b][1])) \o PhisOf(f0, f0.dst[b][2])
  <2>1. n >= 1
    BY <1>9
  <2>2. f[2] = (<<>> \o PhisOf(f0, f0.dst[b][1])) \o PhisOf(f0, f0.dst[b][2])
    BY <1>5, <1>6, <1>9, <2>1, Zenon
  <2>3. PhiUsers(f0, b) = f[2]
    BY <1>2, <1>9, Zenon
  <2> QED
    BY <2>2, <2>3, Zenon
<1> QED
  BY <1>7, <1>8, <1>9, Zenon

LEMMA PredsIs ==
  ASSUME NEW t, NEW b
  PROVE  \E f : /\ f[0] = <<>>
                /\ \A a \in 1..N : f[a] = f[a-1] \o Copies(t, a, b)
                /\ Preds(t, b) = f[N]
<1> DEFINE F(g) == [a \in 0..N |-> IF a = 0 THEN <<>> ELSE g[a-1] \o Copies(t, a, b)]
           f == CHOOSE g : g = F(g)
<1>1. f = F(f)
  <2>1. PICK g : IsLoop(g, "preds", t, b, <<>>, N)
    BY LoopExists, NAssumption
  <2>2. \A s, a : Turn("preds", t, b, s, a) = s \o Copies(t, a, b)
    BY Zenon DEF Turn
  <2>3. g = F(g)
    BY <2>1, <2>2 DEF IsLoop
  <2> HIDE DEF F
  <2> QED
    BY <2>3
<1>2. Preds(t, b) = f[N]
  BY Zenon DEF Preds, Copies
<1> HIDE DEF f
<1>3. \A a \in 0..N : f[a] = IF a = 0 THEN <<>> ELSE f[a-1] \o Copies(t, a, b)
  <2> DEFINE h == F(f)
  <2>1. \A a \in 0..N : h[a] = IF a = 0 THEN <<>> ELSE f[a-1] \o Copies(t, a, b)
    OBVIOUS
  <2> QED
    BY <1>1, <2>1
<1>4. f[0] = <<>>
  BY <1>3, NAssumption
<1>5. \A a \in 1..N : f[a] = f[a-1] \o Copies(t, a, b)
  <2>1. \A a \in 1..N : a \in 0..N /\ a # 0
    BY NAssumption
  <2> QED
    BY <1>3, <2>1
<1> QED
  BY <1>2, <1>4, <1>5

LEMMA ThroughIs ==
  ASSUME NEW b
  PROVE  \E f : /\ f[0] = b
                /\ \A k \in 1..N : f[k] = IF Passed(f[k-1]) THEN Meant(f[k-1])[1] ELSE f[k-1]
                /\ Through(b) = f[N]
<1> DEFINE F(g) == [k \in 0..N |-> IF k = 0 THEN b ELSE (IF Passed(g[k-1]) THEN Meant(g[k-1])[1] ELSE g[k-1])]
           f == CHOOSE g : g = F(g)
<1>1. f = F(f)
  <2>1. PICK g : IsLoop(g, "through", b, b, b, N)
    BY LoopExists, NAssumption
  <2>2. \A s, k : Turn("through", b, b, s, k) = (IF Passed(s) THEN Meant(s)[1] ELSE s)
    BY Zenon DEF Turn
  <2>3. g = F(g)
    BY <2>1, <2>2 DEF IsLoop
  <2> HIDE DEF F
  <2> QED
    BY <2>3
<1>2. Through(b) = f[N]
  BY Zenon DEF Through
<1> HIDE DEF f
<1>3. \A k \in 0..N : f[k] = IF k = 0 THEN b ELSE (IF Passed(f[k-1]) THEN Meant(f[k-1])[1] ELSE f[k-1])
  <2> DEFINE h == F(f)
  <2>1. \A k \in 0..N : h[k] = IF k = 0 THEN b ELSE (IF Passed(f[k-1]) THEN Meant(f[k-1])[1] ELSE f[k-1])
    OBVIOUS
  <2> QED
    BY <1>1, <2>1
<1>4. f[0] = b
  BY <1>3, NAssumption
<1>5. \A k \in 1..N : f[k] = (IF Passed(f[k-1]) THEN Meant(f[k-1])[1] ELSE f[k-1])
  <2>1. \A k \in 1..N : k \in 0..N /\ k # 0
    BY NAssumption
  <2> QED
    BY <1>3, <2>1
<1> QED
  BY <1>2, <1>4, <1>5

-----------------------------------------------------------------------------
(* What the user lists have at first.                                      *)
LEMMA CopiesTimes ==
  ASSUME NEW t \in CfgGraph, NEW a \in Block, NEW b, NEW x
  PROVE  Times(Copies(t, a, b), x) = IF x = a THEN Times(t[a], b) ELSE 0
<1>1. Times(t[a], b) \in Nat
  BY DestinationsAreBlocks, TimesIsCounted
<1>2. PICK n : n = Times(t[a], b)
  OBVIOUS
<1>3. Copies(t, a, b) = [k \in 1..n |-> a]
  BY <1>2 DEF Copies, Times
<1>4. {k \in DOMAIN Copies(t, a, b) : Copies(t, a, b)[k] = x} = IF x = a THEN 1..n ELSE {}
  BY <1>3
<1>5. Cardinality(1..n) = n /\ Cardinality({}) = 0
  BY <1>1, <1>2, FS_Interval, FS_EmptySet
<1> QED
  BY <1>2, <1>4, <1>5 DEF Times

LEMMA PredsTimes ==
  ASSUME NEW t \in CfgGraph, NEW b \in Block, NEW a \in Block
  PROVE  Times(Preds(t, b), a) = Times(t[a], b)
<1>1. PICK f : /\ f[0] = <<>>
               /\ \A s \in 1..N : f[s] = f[s-1] \o Copies(t, s, b)
               /\ Preds(t, b) = f[N]
  BY PredsIs
<1> DEFINE Have(m) == IF a <= m THEN Times(t[a], b) ELSE 0
           G == {m \in 0..N : f[m] \in Seq(Block) /\ Times(f[m], a) = Have(m)}
<1>2. a \in Nat /\ 1 <= a /\ a <= N /\ N \in Nat /\ Times(t[a], b) \in Nat
  BY BlocksAre, DestinationsAreBlocks, TimesIsCounted
<1>3. 0 \in G
  <2>1. Times(f[0], a) = 0 /\ f[0] \in Seq(Block)
    BY <1>1, TimesInNone
  <2>2. Have(0) = 0 /\ 0 \in 0..N
    BY <1>2
  <2> HIDE DEF Have
  <2> QED
    BY <2>1, <2>2
<1>4. ASSUME NEW m \in 0..(N-1), m \in G PROVE m + 1 \in G
  <2>1. m + 1 \in 1..N /\ m + 1 \in Block /\ (m + 1) - 1 = m /\ m + 1 \in 0..N
    BY <1>2 DEF Block
  <2>2. f[m+1] = f[m] \o Copies(t, m + 1, b)
    BY <1>1, <2>1
  <2>3. f[m] \in Seq(Block) /\ Times(f[m], a) = Have(m)
    BY <1>4
  <2>4. Copies(t, m + 1, b) \in Seq(Block)
    BY <2>1, CopiesOfSource
  <2>5. f[m+1] \in Seq(Block)
    BY <2>2, <2>3, <2>4, ConcatenateTwo
  <2>6. Times(f[m+1], a) = Times(f[m], a) + Times(Copies(t, m + 1, b), a)
    BY <2>2, <2>3, <2>4, TimesInBoth
  <2>7. Times(Copies(t, m + 1, b), a) = IF a = m + 1 THEN Times(t[m+1], b) ELSE 0
    BY <2>1, CopiesTimes
  <2>8. Times(f[m+1], a) = Have(m + 1)
    BY <1>2, <2>1, <2>3, <2>6, <2>7
  <2> HIDE DEF Have
  <2> QED
    BY <2>1, <2>5, <2>8
<1>5. 0..N \subseteq G
  <2> HIDE DEF G
  <2> QED
    BY <1>2, <1>3, <1>4, IntervalInduction
<1>6. N \in G /\ Have(N) = Times(t[a], b)
  BY <1>2, <1>5
<1> HIDE DEF Have
<1> QED
  BY <1>1, <1>6

(* All there can be on a user list. *)
AnyUser == {<<"terminator", b, n>> : b \in Block, n \in 0..2} \cup {<<"phi", b, k>> : b \in Block, k \in Nat}

LEMMA UserFacts ==
  /\ \A b \in Block, d \in Terminators : Terminator(b, d) \in AnyUser /\ ~IsPhi(Terminator(b, d))
  /\ \A b \in Block, k \in Nat : Phi(b, k) \in AnyUser /\ IsPhi(Phi(b, k))
  /\ \A a, b, d, e : Terminator(a, d) = Terminator(b, e) <=> a = b /\ Len(d) = Len(e)
  /\ \A a, b, k, l : Phi(a, k) = Phi(b, l) <=> a = b /\ k = l
  /\ \A a, b, d, k : Terminator(a, d) # Phi(b, k)
  /\ \A a, d : Terminator(a, d)[2] = a
  /\ \A a, k : Phi(a, k)[2] = a /\ Phi(a, k)[3] = k
  /\ \A a, d : ~IsPhi(Terminator(a, d))
  /\ \A a, k : IsPhi(Phi(a, k))
<1>1. \A d \in Terminators : Len(d) \in 0..2
  BY DEF Terminators
<1> QED
  BY <1>1 DEF AnyUser, Terminator, Phi, IsPhi

(* The phis of s, as users of one block. *)
LEMMA PhisOfTimes ==
  ASSUME NEW f \in Sources, NEW s \in Block, NEW u
  PROVE  /\ PhisOf(f, s) \in Seq(AnyUser)
         /\ Times(PhisOf(f, s), u) = IF \E k \in 1..f.phis[s] : u = Phi(s, k) THEN 1 ELSE 0
<1>1. f.phis[s] \in Nat
  BY SourcesAssumption
<1>2. PICK n : n = f.phis[s]
  OBVIOUS
<1>3. \A k \in 1..n : Phi(s, k) \in AnyUser
  BY <1>1, <1>2, UserFacts
<1>4. PhisOf(f, s) \in Seq(AnyUser)
  BY <1>1, <1>2, <1>3 DEF PhisOf
<1>5. CASE \E k \in 1..n : u = Phi(s, k)
  <2>1. PICK k \in 1..n : u = Phi(s, k)
    BY <1>5
  <2>2. \A l : Phi(s, l) = Phi(s, k) <=> l = k
    BY UserFacts
  <2>3. {j \in DOMAIN PhisOf(f, s) : PhisOf(f, s)[j] = u} = {k}
    BY <1>2, <2>1, <2>2 DEF PhisOf
  <2> QED
    BY <1>2, <1>4, <1>5, <2>3, FS_Singleton DEF Times
<1>6. CASE ~\E k \in 1..n : u = Phi(s, k)
  <2>1. {j \in DOMAIN PhisOf(f, s) : PhisOf(f, s)[j] = u} = {}
    BY <1>2, <1>6 DEF PhisOf
  <2> QED
    BY <1>2, <1>4, <1>6, <2>1, FS_EmptySet DEF Times
<1> QED
  BY <1>5, <1>6

(* Whether phi u names block b at first. *)
Names(f, u, b) == \E s \in Block : \E k \in 1..f.phis[s] : u = Phi(s, k) /\ IsEdge(f.dst, b, s)

(* Phis are on the list of a block once for each of its edges to them.     *)
LEMMA PhiUsersTimes ==
  ASSUME NEW f \in Sources, NEW b \in Block, NEW u
  PROVE  /\ PhiUsers(f, b) \in Seq(AnyUser)
         /\ \A s \in Block : \A k \in 1..f.phis[s] : u = Phi(s, k) => Times(PhiUsers(f, b), u) = Times(f.dst[b], s)
         /\ Names(f, u, b) <=> Times(PhiUsers(f, b), u) # 0
         /\ \A s : Times(f.dst[b], s) \in 0..2 /\ (IsEdge(f.dst, b, s) <=> Times(f.dst[b], s) # 0)
<1>1. PICK d \in Seq(Block) : d = f.dst[b] /\ Len(d) \in 0..2
  <2>1. f.dst \in CfgGraph
    BY SourcesAssumption
  <2> QED
    BY <2>1, DestinationsAreBlocks
<1>2. /\ Len(d) = 1 => d[1] \in Block
      /\ Len(d) = 2 => d[1] \in Block /\ d[2] \in Block
  BY <1>1, ElementOfSeq
<1>3. Times(<<>>, u) = 0 /\ <<>> \in Seq(AnyUser)
  BY TimesInNone
<1> DEFINE Has(s) == \E k \in 1..f.phis[s] : u = Phi(s, k)
           One(s) == IF Has(s) THEN 1 ELSE 0
<1>4. ASSUME NEW s \in Block
      PROVE  /\ PhisOf(f, s) \in Seq(AnyUser) /\ Times(PhisOf(f, s), u) = One(s)
             /\ <<>> \o PhisOf(f, s) \in Seq(AnyUser) /\ Times(<<>> \o PhisOf(f, s), u) = One(s)
  <2>1. PhisOf(f, s) \in Seq(AnyUser) /\ Times(PhisOf(f, s), u) = One(s)
    BY PhisOfTimes
  <2> QED
    BY <1>3, <2>1, EmptySeq
<1> HIDE DEF Has
<1>5. /\ Len(d) = 0 => PhiUsers(f, b) \in Seq(AnyUser) /\ Times(PhiUsers(f, b), u) = 0
      /\ Len(d) = 1 => PhiUsers(f, b) \in Seq(AnyUser) /\ Times(PhiUsers(f, b), u) = One(d[1])
      /\ Len(d) = 2 => PhiUsers(f, b) \in Seq(AnyUser) /\ Times(PhiUsers(f, b), u) = One(d[1]) + One(d[2])
  <2>1. /\ Len(d) = 0 => PhiUsers(f, b) = <<>>
        /\ Len(d) = 1 => PhiUsers(f, b) = <<>> \o PhisOf(f, d[1])
        /\ Len(d) = 2 => PhiUsers(f, b) = (<<>> \o PhisOf(f, d[1])) \o PhisOf(f, d[2])
    BY <1>1, PhiUsersIs
  <2>2. ASSUME Len(d) = 2 PROVE PhiUsers(f, b) \in Seq(AnyUser) /\ Times(PhiUsers(f, b), u) = One(d[1]) + One(d[2])
    <3>1. PICK x \in Seq(AnyUser), y \in Seq(AnyUser) :
               /\ x = <<>> \o PhisOf(f, d[1]) /\ Times(x, u) = One(d[1])
               /\ y = PhisOf(f, d[2]) /\ Times(y, u) = One(d[2])
      BY <1>2, <1>4, <2>2
    <3>2. x \o y \in Seq(AnyUser) /\ Times(x \o y, u) = Times(x, u) + Times(y, u)
      BY ConcatenateTwo, TimesInBoth
    <3> QED
      BY <2>1, <2>2, <3>1, <3>2
  <2> HIDE DEF One
  <2> QED
    BY <1>2, <1>3, <1>4, <2>1, <2>2
<1>6. ASSUME NEW s
      PROVE  /\ Len(d) = 0 => Times(d, s) = 0
             /\ Len(d) = 1 => Times(d, s) = (IF d[1] = s THEN 1 ELSE 0)
             /\ Len(d) = 2 => Times(d, s) = (IF d[1] = s THEN 1 ELSE 0) + (IF d[2] = s THEN 1 ELSE 0)
             /\ Times(d, s) \in 0..2
             /\ IsEdge(f.dst, b, s) <=> Times(d, s) # 0
  <2>1. Len(d) = 0 => d = <<>>
    BY EmptySeq
  <2>2. /\ Len(d) = 0 => Times(d, s) = 0
        /\ Len(d) = 1 => Times(d, s) = (IF d[1] = s THEN 1 ELSE 0)
        /\ Len(d) = 2 => Times(d, s) = (IF d[1] = s THEN 1 ELSE 0) + (IF d[2] = s THEN 1 ELSE 0)
    BY <2>1, TimesInNone, TimesInFew
  <2>3. Times(d, s) \in 0..2
    BY <1>1, <2>2
  <2>4. s \in ToSet(d) <=> Times(d, s) # 0
    BY TimesIsCounted
  <2> QED
    BY <1>1, <2>2, <2>3, <2>4 DEF IsEdge
<1>7. ASSUME NEW s \in Block, Has(s) PROVE Times(PhiUsers(f, b), u) = Times(d, s)
  <2>1. \A c \in Block : Has(c) <=> c = s
    BY <1>7, UserFacts DEF Has
  <2> QED
    BY <1>1, <1>2, <1>5, <1>6, <2>1
<1>8. Names(f, u, b) <=> \E s \in Block : Has(s) /\ IsEdge(f.dst, b, s)
  BY Zenon DEF Names, Has
<1>9. Times(PhiUsers(f, b), u) # 0 => \E s \in Block : Has(s)
  BY <1>1, <1>2, <1>5
<1>10. Names(f, u, b) <=> Times(PhiUsers(f, b), u) # 0
  BY <1>6, <1>7, <1>8, <1>9
<1>11. \A s \in Block : \A k \in 1..f.phis[s] : u = Phi(s, k) => Has(s)
  BY DEF Has
<1>12. PhiUsers(f, b) \in Seq(AnyUser)
  BY <1>1, <1>5
<1> QED
  BY <1>1, <1>6, <1>7, <1>10, <1>11, <1>12

(* The terminators that go to b, each once for every time it does.         *)
TerminatorUsers(t, b) == LET from == Preds(t, b) IN [k \in DOMAIN from |-> Terminator(from[k], t[from[k]])]

LEMMA TerminatorUsersTimes ==
  ASSUME NEW t \in CfgGraph, NEW b \in Block, NEW u
  PROVE  /\ TerminatorUsers(t, b) \in Seq(AnyUser)
         /\ \A a \in Block : u = Terminator(a, t[a]) => Times(TerminatorUsers(t, b), u) = Times(t[a], b)
         /\ (\A a \in Block : u # Terminator(a, t[a])) => Times(TerminatorUsers(t, b), u) = 0
<1> DEFINE from == Preds(t, b)
           list == [k \in DOMAIN from |-> Terminator(from[k], t[from[k]])]
<1>1. from \in Seq(Block) /\ DOMAIN from = 1..Len(from) /\ Len(from) \in Nat /\ \A k \in DOMAIN from : from[k] \in Block
  <2>1. from \in Seq(Block)
    BY PredsAreSources
  <2> QED
    BY <2>1, LenProperties, ElementOfSeq
<1> HIDE DEF from
<1>2. \A a \in Block : t[a] \in Terminators
  BY DEF CfgGraph
<1>3. \A k \in DOMAIN from : Terminator(from[k], t[from[k]]) \in AnyUser
  BY <1>1, <1>2, UserFacts
<1>4. list \in Seq(AnyUser)
  BY <1>1, <1>3
<1>5. ASSUME NEW a \in Block, u = Terminator(a, t[a])
      PROVE  Times(list, u) = Times(t[a], b)
  <2>1. \A k \in DOMAIN from : Terminator(from[k], t[from[k]]) = u <=> from[k] = a
    BY <1>5, UserFacts
  <2>2. {k \in DOMAIN list : list[k] = u} = {k \in DOMAIN from : from[k] = a}
    BY <2>1
  <2>3. Times(list, u) = Times(from, a)
    BY <2>2 DEF Times
  <2> QED
    BY <2>3, PredsTimes DEF from
<1>6. ASSUME \A a \in Block : u # Terminator(a, t[a])
      PROVE  Times(list, u) = 0
  <2>1. {k \in DOMAIN list : list[k] = u} = {}
    BY <1>1, <1>6
  <2> QED
    BY <2>1, FS_EmptySet DEF Times
<1>7. TerminatorUsers(t, b) = list
  BY DEF TerminatorUsers, from
<1> HIDE DEF list
<1> QED
  BY <1>4, <1>5, <1>6, <1>7

(* Reached from x by going on from blocks that only branch: in every set   *)
(* that has x and goes on that way.                                        *)
GoesOn(C) == \A c \in C : Passed(c) => Meant(c)[1] \in C
OnWay(x, y) == \A C \in SUBSET Block : x \in C /\ GoesOn(C) => y \in C

(* How often user u uses block b, given destinations and incoming values.  *)
UsesOf(d, p, b, u) ==
  IF \E a \in Block : u = Terminator(a, d[a]) THEN Times(d[u[2]], b)
  ELSE IF \E a \in Block : \E k \in DOMAIN p[a] : u = Phi(a, k) /\ b \in DOMAIN p[a][k] THEN 1 ELSE 0

NoUser(d, p, u) ==
  /\ \A a \in Block : u # Terminator(a, d[a])
  /\ \A a \in Block : \A k \in DOMAIN p[a] : u # Phi(a, k)

(* What a user is decides what it uses.                                    *)
LEMMA TerminatorUses ==
  ASSUME NEW d, NEW p, NEW b, NEW a \in Block
  PROVE  UsesOf(d, p, b, Terminator(a, d[a])) = Times(d[a], b)
<1>1. Terminator(a, d[a])[2] = a
  BY UserFacts
<1> QED
  BY <1>1 DEF UsesOf

LEMMA OldTerminatorUses ==
  ASSUME NEW d, NEW p, NEW b, NEW a \in Block, NEW n, Len(n) # Len(d[a])
  PROVE  UsesOf(d, p, b, Terminator(a, n)) = 0
<1>1. \A c \in Block : Terminator(a, n) # Terminator(c, d[c])
  BY UserFacts
<1>2. \A c, k : Terminator(a, n) # Phi(c, k)
  BY UserFacts
<1> QED
  BY <1>1, <1>2 DEF UsesOf

LEMMA PhiUses ==
  ASSUME NEW d, NEW p, NEW b, NEW a \in Block, NEW k
  PROVE  UsesOf(d, p, b, Phi(a, k)) = IF k \in DOMAIN p[a] /\ b \in DOMAIN p[a][k] THEN 1 ELSE 0
<1>1. \A c \in Block : Phi(a, k) # Terminator(c, d[c])
  BY UserFacts
<1>2. \A c, l : Phi(a, k) = Phi(c, l) <=> a = c /\ k = l
  BY UserFacts
<1>3. (\E c \in Block : \E l \in DOMAIN p[c] : Phi(a, k) = Phi(c, l) /\ b \in DOMAIN p[c][l])
        <=> k \in DOMAIN p[a] /\ b \in DOMAIN p[a][k]
  BY <1>2
<1> QED
  BY <1>1, <1>3, Zenon DEF UsesOf

LEMMA OtherUses ==
  ASSUME NEW d, NEW p, NEW b, NEW u, NoUser(d, p, u)
  PROVE  UsesOf(d, p, b, u) = 0
BY DEF UsesOf, NoUser

(* Three kinds of users: terminators, phis, and what uses nothing.         *)
UserKinds(d, p, u) ==
  \/ \E a \in Block : u = Terminator(a, d[a])
  \/ \E a \in Block : \E k \in DOMAIN p[a] : u = Phi(a, k)
  \/ NoUser(d, p, u)

LEMMA UserKindsAre ==
  ASSUME NEW d, NEW p, NEW u
  PROVE  UserKinds(d, p, u)
BY Zenon DEF UserKinds, NoUser

(* What has uses is a terminator that goes to the block or a phi that      *)
(* names it.                                                               *)
LEMMA UsesOfSome ==
  ASSUME NEW d \in CfgGraph, NEW p, NEW b, NEW u
  PROVE  /\ UsesOf(d, p, b, u) \in Nat
         /\ UsesOf(d, p, b, u) # 0 =>
              \/ \E a \in Block : u = Terminator(a, d[a]) /\ Times(d[a], b) # 0 /\ b \in ToSet(d[a])
              \/ \E a \in Block : \E k \in DOMAIN p[a] : u = Phi(a, k) /\ b \in DOMAIN p[a][k] /\ UsesOf(d, p, b, u) = 1
<1>1. \A a \in Block : Times(d[a], b) \in Nat /\ (Times(d[a], b) # 0 => b \in ToSet(d[a]))
  <2> TAKE a \in Block
  <2>1. d[a] \in Seq(Block)
    BY DestinationsAreBlocks
  <2> QED
    BY <2>1, TimesIsCounted
<1>2. CASE \E a \in Block : u = Terminator(a, d[a])
  <2>1. PICK a \in Block : u = Terminator(a, d[a])
    BY <1>2
  <2>2. UsesOf(d, p, b, u) = Times(d[a], b)
    BY <2>1, TerminatorUses
  <2> QED
    BY <1>1, <2>1, <2>2
<1>3. CASE \E a \in Block : \E k \in DOMAIN p[a] : u = Phi(a, k)
  <2>1. PICK a \in Block : \E k \in DOMAIN p[a] : u = Phi(a, k)
    BY <1>3
  <2>2. PICK k \in DOMAIN p[a] : u = Phi(a, k)
    BY <2>1
  <2>3. UsesOf(d, p, b, Phi(a, k)) = IF b \in DOMAIN p[a][k] THEN 1 ELSE 0
    BY PhiUses
  <2> QED
    BY <2>2, <2>3
<1>4. CASE NoUser(d, p, u)
  <2>1. UsesOf(d, p, b, u) = 0
    BY <1>4, OtherUses
  <2> QED
    BY <2>1
<1> QED
  BY <1>2, <1>3, <1>4, UserKindsAre DEF UserKinds

-----------------------------------------------------------------------------
(* What is meant is what ConstantBranchEvaluator chooses.                  *)
LEMMA MeantIs ==
  ASSUME source \in Sources, NEW b \in Block
  PROVE  /\ Meant(b) = Chosen(source, b)
         /\ Meant(b) \in Terminators
         /\ ToSet(Meant(b)) \subseteq ToSet(source.dst[b])
         /\ Meant(b) # source.dst[b] =>
              \E c \in Block : Meant(b) = <<c>> /\ Len(source.dst[b]) = 2 /\ c \in ToSet(source.dst[b])
         /\ source.dst \in CfgGraph
         /\ source.phis[b] \in Nat
<1> DEFINE t == source.dst[b]
<1>1. source.dst \in CfgGraph /\ source.phis[b] \in Nat
  BY SourcesAssumption
<1>2. t \in Seq(Block) /\ Len(t) \in 0..2 /\ DOMAIN t = 1..Len(t) /\ ToSet(t) \subseteq Block /\ t \in Terminators
  BY <1>1, DestinationsAreBlocks DEF CfgGraph
<1> HIDE DEF t
<1>3. CASE Len(t) < 2 \/ source.cond[b] = "variable"
  <2>1. Meant(b) = t
    BY <1>3 DEF Meant, t
  <2>2. Chosen(source, b) = t
    BY <1>2, <1>3 DEF Chosen, t
  <2> QED
    BY <1>1, <1>2, <2>1, <2>2 DEF t
<1>4. CASE ~(Len(t) < 2 \/ source.cond[b] = "variable")
  <2>1. Len(t) = 2
    BY <1>2, <1>4
  <2>2. PICK j \in 1..2 : Meant(b) = <<t[j]>> /\ Chosen(source, b) = <<t[j]>>
    BY <1>4, <2>1 DEF Meant, Chosen, t
  <2>3. t[j] \in ToSet(t) /\ t[j] \in Block
    BY <1>2, <2>1 DEF ToSet
  <2>4. ToSet(<<t[j]>>) = {t[j]}
    BY DEF ToSet
  <2>5. <<t[j]>> \in Terminators
    BY <2>3 DEF Terminators
  <2> QED
    BY <1>1, <2>1, <2>2, <2>3, <2>4, <2>5 DEF t
<1> QED
  BY <1>3, <1>4

LEMMA PassedIs ==
  ASSUME source \in Sources, NEW b \in Block, Passed(b)
  PROVE  Meant(b)[1] \in Block /\ Meant(b) = <<Meant(b)[1]>> /\ Meant(b)[1] \in ToSet(source.dst[b])
<1>1. Meant(b) \in Terminators /\ ToSet(Meant(b)) \subseteq ToSet(source.dst[b]) /\ Len(Meant(b)) = 1
  BY MeantIs DEF Passed
<1>2. PICK c \in Block : Meant(b) = <<c>>
  BY <1>1 DEF Terminators
<1> QED
  BY <1>1, <1>2 DEF ToSet

-----------------------------------------------------------------------------
LEMMA OnWayFacts ==
  ASSUME source \in Sources
  PROVE  /\ \A x : OnWay(x, x)
         /\ \A x, y, z : OnWay(x, y) /\ OnWay(y, z) => OnWay(x, z)
         /\ \A x : \A y \in Block : OnWay(x, y) /\ Passed(y) => OnWay(x, Meant(y)[1])
         /\ \A x, y \in Block : OnWay(x, y) => y = x \/ \E c \in Block : Passed(c) /\ Meant(c)[1] = y
         /\ \A x, y \in Block : OnWay(x, y) /\ ~Passed(x) => y = x
<1>1. ASSUME NEW x, NEW y \in Block, OnWay(x, y), Passed(y) PROVE OnWay(x, Meant(y)[1])
  BY <1>1 DEF OnWay, GoesOn
<1>2. ASSUME NEW x \in Block, NEW y \in Block, OnWay(x, y), y # x, ~\E c \in Block : Passed(c) /\ Meant(c)[1] = y PROVE FALSE
  <2> DEFINE C == Block \ {y}
  <2>1. C \in SUBSET Block /\ x \in C
    BY <1>2
  <2>2. GoesOn(C)
    BY <1>2, PassedIs DEF GoesOn
  <2> QED
    BY <1>2, <2>1, <2>2 DEF OnWay
<1>3. ASSUME NEW x \in Block, NEW y \in Block, OnWay(x, y), ~Passed(x) PROVE y = x
  <2>1. {x} \in SUBSET Block /\ x \in {x} /\ GoesOn({x})
    BY <1>3 DEF GoesOn
  <2> QED
    BY <1>3, <2>1 DEF OnWay
<1>4. \A x : OnWay(x, x)
  BY DEF OnWay
<1>5. \A x, y, z : OnWay(x, y) /\ OnWay(y, z) => OnWay(x, z)
  BY DEF OnWay
<1> QED
  BY <1>1, <1>2, <1>3, <1>4, <1>5

(* A way through blocks that only branch has an end if it reaches a block  *)
(* that does more, and has reached it after N blocks.                      *)
LEMMA WayEnds ==
  ASSUME source \in Sources, NEW x \in Block, NEW y \in Block, OnWay(x, y), ~Passed(y)
  PROVE  Through(x) = y
<1>1. PICK f : /\ f[0] = x
               /\ \A k \in 1..N : f[k] = IF Passed(f[k-1]) THEN Meant(f[k-1])[1] ELSE f[k-1]
               /\ Through(x) = f[N]
  BY ThroughIs
<1>2. N \in Nat /\ N >= 1
  BY BlocksAre
<1>3. \A k \in 0..N : f[k] \in Block
  <2> DEFINE G == {k \in 0..N : f[k] \in Block}
  <2>1. 0 \in G
    BY <1>1, <1>2
  <2>2. ASSUME NEW k \in 0..(N-1), k \in G PROVE k + 1 \in G
    <3>1. k + 1 \in 1..N /\ (k + 1) - 1 = k /\ k + 1 \in 0..N
      BY <1>2
    <3>2. f[k+1] = IF Passed(f[k]) THEN Meant(f[k])[1] ELSE f[k]
      BY <1>1, <3>1
    <3> QED
      BY <2>2, <3>1, <3>2, PassedIs
  <2>3. 0..N \subseteq G
    <3> HIDE DEF G
    <3> QED
      BY <1>2, <2>1, <2>2, IntervalInduction
  <2> QED
    BY <2>3
(* Once at y, it stays there. *)
<1>4. ASSUME NEW m \in 0..N, f[m] = y PROVE f[N] = y
  <2> DEFINE G == {k \in 0..N : k >= m => f[k] = y}
  <2>1. 0 \in G
    <3>1. 0 >= m => m = 0
      BY <1>2
    <3> QED
      BY <1>2, <1>4, <3>1
  <2>2. ASSUME NEW k \in 0..(N-1), k \in G PROVE k + 1 \in G
    <3>1. k + 1 \in 1..N /\ (k + 1) - 1 = k /\ k + 1 \in 0..N /\ (k + 1 >= m => k + 1 = m \/ k >= m)
      BY <1>2
    <3>2. f[k+1] = IF Passed(f[k]) THEN Meant(f[k])[1] ELSE f[k]
      BY <1>1, <3>1
    <3> QED
      BY <1>4, <2>2, <3>1, <3>2
  <2>3. 0..N \subseteq G
    <3> HIDE DEF G
    <3> QED
      BY <1>2, <2>1, <2>2, IntervalInduction
  <2> QED
    BY <1>2, <2>3
(* Otherwise the blocks it goes through are a closed set without y: as     *)
(* there are fewer blocks than turns, one occurs twice.                    *)
<1>5. SUFFICES ASSUME \A m \in 0..N : f[m] # y PROVE FALSE
  BY <1>1, <1>4
<1> DEFINE C == {f[m] : m \in 0..(N-1)}
<1>6. C \in SUBSET Block /\ x \in C
  <2>1. 0 \in 0..(N-1) /\ \A m \in 0..(N-1) : m \in 0..N
    BY <1>2
  <2> QED
    BY <1>1, <1>3, <2>1
<1>7. f[N] \in C
  <2> DEFINE P == 1..(N+1)
             F == [i \in P |-> f[i-1]]
  <2>1. IsFiniteSet(P) /\ Cardinality(P) = N + 1
    <3>1. N + 1 \in Nat /\ 1 \in Int /\ N + 1 \in Int /\ (N + 1) - 1 + 1 = N + 1 /\ 1 <= N + 1
      BY <1>2
    <3> QED
      BY <3>1, FS_Interval
  <2>2. IsFiniteSet(Block) /\ Cardinality(Block) = N
    BY FS_Interval, NAssumption DEF Block
  <2>3. \A i \in P : i - 1 \in 0..N
    BY <1>2
  <2>4. F \in [P -> Block]
    BY <1>3, <2>3
  <2>5. \E i, j \in P : i # j /\ F[i] = F[j]
    <3> HIDE DEF P, F
    <3>1. Cardinality(P) > Cardinality(Block)
      BY <1>2, <2>1, <2>2
    <3> QED
      BY <2>1, <2>2, <2>4, <3>1, FS_PigeonHole
  <2>6. PICK m \in 0..N, n \in 0..N : m < n /\ f[m] = f[n]
    <3>1. PICK i \in P, j \in P : i # j /\ F[i] = F[j]
      BY <2>5
    <3>2. i - 1 \in 0..N /\ j - 1 \in 0..N /\ f[i-1] = f[j-1] /\ (i - 1 < j - 1 \/ j - 1 < i - 1)
      BY <1>2, <2>3, <3>1
    <3> QED
      BY <3>2
  (* From m on what comes is what comes from n on.                         *)
  <2> DEFINE D == {f[k] : k \in 0..(n-1)}
             G == {k \in 0..N : f[k] \in D}
  <2>7. 0 \in G
    <3>1. 0 \in 0..(n-1)
      BY <1>2, <2>6
    <3> QED
      BY <1>2, <3>1
  <2>8. ASSUME NEW k \in 0..(N-1), k \in G PROVE k + 1 \in G
    <3>1. PICK l \in 0..(n-1) : f[k] = f[l]
      BY <2>8
    <3>2. k + 1 \in 1..N /\ (k + 1) - 1 = k /\ l + 1 \in 1..N /\ (l + 1) - 1 = l /\ k + 1 \in 0..N
      BY <1>2
    <3>3. f[k+1] = IF Passed(f[k]) THEN Meant(f[k])[1] ELSE f[k]
      BY <1>1, <3>2
    <3>4. f[l+1] = IF Passed(f[l]) THEN Meant(f[l])[1] ELSE f[l]
      BY <1>1, <3>2
    <3>5. f[k+1] = f[l+1]
      BY <3>1, <3>3, <3>4
    <3>6. l + 1 \in 0..(n-1) \/ l + 1 = n
      BY <2>6
    <3>7. m \in 0..(n-1)
      BY <2>6
    <3>8. f[l+1] \in D
      BY <2>6, <3>6, <3>7
    <3> QED
      BY <3>2, <3>5, <3>8
  <2>9. 0..N \subseteq G
    <3> HIDE DEF G
    <3> QED
      BY <1>2, <2>7, <2>8, IntervalInduction
  <2>10. f[N] \in D /\ \A k \in 0..(n-1) : k \in 0..(N-1)
    BY <1>2, <2>9
  <2> QED
    BY <2>10
<1>8. GoesOn(C)
  <2> SUFFICES ASSUME NEW c \in C, Passed(c) PROVE Meant(c)[1] \in C
    BY DEF GoesOn
  <2>1. PICK m \in 0..(N-1) : c = f[m]
    OBVIOUS
  <2>2. m + 1 \in 1..N /\ (m + 1) - 1 = m /\ (m + 1 \in 0..(N-1) \/ m + 1 = N)
    BY <1>2
  <2>3. f[m+1] = Meant(c)[1]
    BY <1>1, <2>1, <2>2
  <2> QED
    BY <1>7, <2>2, <2>3
<1>9. y \in C
  <2> HIDE DEF C
  <2> QED
    BY <1>6, <1>8 DEF OnWay
<1>10. PICK m \in 0..(N-1) : y = f[m]
  BY <1>9
<1> QED
  BY <1>2, <1>5, <1>10

-----------------------------------------------------------------------------
(* The invariant.                                                          *)

(* Incoming values by predecessor, each still the one for its block.       *)
Maps == {[p \in D |-> p] : D \in SUBSET Block}

Shape ==
  /\ dst \in CfgGraph
  /\ users \in [Block -> Seq(AnyUser)]
  /\ phis \in [Block -> Seq(Maps)]
  /\ Entry \in present

(* Where terminators go: first as in the source or as meant, from the      *)
(* analysis on somewhere on the way from what is meant.                    *)
EvaluateInv ==
  phase = "evaluate" =>
    /\ present = Block
    /\ \A b \in Block : dst[b] = IF b < next THEN Meant(b) ELSE source.dst[b]

WayInv ==
  phase # "evaluate" =>
    /\ cfg = [b \in Block |-> Meant(b)]
    /\ \A b \in present : /\ Len(dst[b]) = Len(Meant(b))
                          /\ \A k \in 1..Len(dst[b]) : OnWay(Meant(b)[k], dst[b][k])
    /\ \A b \in Block \ present : dst[b] = <<>>

(* Which blocks phis name: ways into their block, and all of those from    *)
(* blocks that stay.                                                       *)
NamesInv ==
  \A b \in Block :
    /\ Len(phis[b]) = IF b \in present THEN source.phis[b] ELSE 0
    /\ \A k \in DOMAIN phis[b] : \A p \in Block :
         /\ p \in DOMAIN phis[b][k] => IsEdge(source.dst, p, b)
         /\ IsEdge(source.dst, p, b) /\ p \in present \ ToSet(removeQueue) => p \in DOMAIN phis[b][k]

(* A phi is on the list of a block that goes to it on both sides twice,    *)
(* and stays there once when it no longer names the block.  Any other user *)
(* is on the lists as often as it uses the blocks, at all times.           *)
Twice(b, u) == \E a \in Block : \E k \in 1..source.phis[a] : u = Phi(a, k) /\ Times(source.dst[b], a) = 2

Listed(b, u, n, m) == IF Twice(b, u) THEN m # 0 => n = 2 ELSE n = m

Exact(d, p, us, here) ==
  \A b \in Block :
    /\ b \in here => \A u : Listed(b, u, Times(us[b], u), UsesOf(d, p, b, u))
    /\ b \notin here => \A u : UsesOf(d, p, b, u) = 0

ExactInv == Exact(dst, phis, users, present)

(* The phis that are on a list twice stay: the block that goes to them on  *)
(* both sides is a predecessor of theirs whatever its branch is on.        *)
TwiceInv ==
  \A b, a \in Block : Times(source.dst[b], a) = 2 /\ source.phis[a] # 0 => a \in present \ ToSet(removeQueue)

(* What is queued has no uses, if it is on few lists.                      *)
UnusedInv ==
  /\ phase = "users left" => ~FewPhis(Last(removeQueue))
  /\ \A b \in ToSet(removeQueue) : FewPhis(b) => \A u : UsesOf(dst, phis, b, u) = 0

(* A round that has changed nothing has found nothing to prune.            *)
Stays(b) == Candidate(b) => ~HasNoPreds(b) /\ ~OnlyBranches(b)

StaysInv ==
  /\ phase = "simplify" /\ ~changed => removeQueue = <<>> /\ \A b \in 1..(next-1) : Stays(b)
  /\ phase = "remove" /\ ~changed => removeQueue = <<>> /\ \A b \in Block : Stays(b)
  /\ phase = "done" => removeQueue = <<>> /\ \A b \in Block : Stays(b)

CleanInv == Shape /\ EvaluateInv /\ WayInv /\ NamesInv /\ ExactInv /\ TwiceInv /\ UnusedInv /\ StaysInv

(* What the proofs of the steps begin with.                                *)
Invs == QueueInv /\ source \in Sources /\ NoPhiBehindBranch /\ CleanInv

-----------------------------------------------------------------------------
LEMMA CleanInit ==
  ASSUME Init
  PROVE  CleanInv
<1>1. source \in Sources /\ source.dst \in CfgGraph /\ dst = source.dst /\ source.phis \in [Block -> Nat] /\ dst \in CfgGraph
  BY SourcesAssumption DEF Init
<1>2. phis = [b \in Block |-> [k \in 1..source.phis[b] |-> [p \in ToSet(Preds(dst, b)) |-> p]]]
  BY DEF Init
<1>3. users = [b \in Block |-> TerminatorUsers(dst, b) \o PhiUsers(source, b)]
  BY Zenon DEF Init, TerminatorUsers
<1>4. present = Block /\ next = 1 /\ removeQueue = <<>> /\ phase = "evaluate"
  BY DEF Init
<1>5. ASSUME NEW b \in Block
      PROVE  /\ phis[b] \in Seq(Maps)
             /\ Len(phis[b]) = source.phis[b]
             /\ DOMAIN phis[b] = 1..source.phis[b]
             /\ \A k \in DOMAIN phis[b] : \A p \in Block : p \in DOMAIN phis[b][k] <=> IsEdge(source.dst, p, b)
  <2>1. ToSet(Preds(dst, b)) = {a \in Block : b \in ToSet(dst[a])} /\ ToSet(Preds(dst, b)) \in SUBSET Block
    BY <1>1, PredsAreSources
  <2>2. PICK D \in SUBSET Block : D = ToSet(Preds(dst, b)) /\ D = {a \in Block : b \in ToSet(dst[a])}
    BY <2>1
  <2>3. PICK n \in Nat : n = source.phis[b]
    BY <1>1
  <2>4. phis[b] = [k \in 1..n |-> [p \in D |-> p]]
    BY <1>2, <2>2, <2>3
  <2>5. [p \in D |-> p] \in Maps
    BY DEF Maps
  <2>6. phis[b] \in Seq(Maps) /\ Len(phis[b]) = n /\ DOMAIN phis[b] = 1..n
    <3>1. PICK m : m = [p \in D |-> p] /\ m \in Maps
      BY <2>5
    <3>2. phis[b] = [k \in 1..n |-> m]
      BY <2>4, <3>1
    <3> QED
      BY <3>1, <3>2
  <2>7. \A k \in 1..n : phis[b][k] = [p \in D |-> p]
    BY <2>4
  <2>8. \A k \in 1..n : DOMAIN phis[b][k] = D
    BY <2>7
  <2>9. \A p \in Block : p \in D <=> IsEdge(source.dst, p, b)
    BY <1>1, <2>2 DEF IsEdge
  <2> QED
    BY <2>3, <2>6, <2>8, <2>9
<1>6. ASSUME NEW b \in Block, NEW u
      PROVE  users[b] \in Seq(AnyUser) /\ Listed(b, u, Times(users[b], u), UsesOf(dst, phis, b, u))
  <2>1. TerminatorUsers(dst, b) \in Seq(AnyUser) /\ PhiUsers(source, b) \in Seq(AnyUser)
    BY <1>1, TerminatorUsersTimes, PhiUsersTimes
  <2>2. users[b] \in Seq(AnyUser)
    BY <1>3, <2>1, ConcatenateTwo
  <2>3. Times(users[b], u) = Times(TerminatorUsers(dst, b), u) + Times(PhiUsers(source, b), u)
    BY <1>3, <2>1, TimesInBoth
  <2>4. Times(PhiUsers(source, b), u) \in Nat
    BY <2>1, TimesIsCounted
  <2>5. ASSUME NEW a \in Block, u = Terminator(a, dst[a]) PROVE Listed(b, u, Times(users[b], u), UsesOf(dst, phis, b, u))
    <3>1. ~Names(source, u, b) /\ ~Twice(b, u)
      BY <2>5, UserFacts DEF Names, Twice
    <3>2. Times(PhiUsers(source, b), u) = 0
      BY <1>1, <3>1, PhiUsersTimes
    <3>3. Times(TerminatorUsers(dst, b), u) = Times(dst[a], b)
      BY <1>1, <2>5, TerminatorUsersTimes
    <3>4. dst[a] \in Seq(Block)
      BY <1>1, DestinationsAreBlocks
    <3>5. Times(dst[a], b) \in Nat
      BY <3>4, TimesIsCounted
    <3>6. UsesOf(dst, phis, b, u) = Times(dst[a], b)
      BY <2>5, TerminatorUses
    <3> QED
      BY <2>3, <3>1, <3>2, <3>3, <3>5, <3>6 DEF Listed
  <2>6. ASSUME \A a \in Block : u # Terminator(a, dst[a]) PROVE Times(TerminatorUsers(dst, b), u) = 0
    BY <1>1, <2>6, TerminatorUsersTimes
  <2>7. ASSUME NEW a \in Block, NEW k \in DOMAIN phis[a], u = Phi(a, k)
        PROVE  Listed(b, u, Times(users[b], u), UsesOf(dst, phis, b, u))
    <3>1. \A c \in Block : u # Terminator(c, dst[c])
      BY <2>7, UserFacts
    <3>2. UsesOf(dst, phis, b, u) = IF b \in DOMAIN phis[a][k] THEN 1 ELSE 0
      BY <2>7, PhiUses
    <3>3. b \in DOMAIN phis[a][k] <=> IsEdge(source.dst, b, a)
      BY <1>5
    <3>4. k \in 1..source.phis[a]
      BY <1>5
    <3>5. Times(PhiUsers(source, b), u) = Times(source.dst[b], a)
      BY <1>1, <2>7, <3>4, PhiUsersTimes
    <3>6. Times(source.dst[b], a) \in 0..2 /\ (IsEdge(source.dst, b, a) <=> Times(source.dst[b], a) # 0)
      BY <1>1, PhiUsersTimes
    <3>7. Twice(b, u) <=> Times(source.dst[b], a) = 2
      BY <2>7, <3>4, UserFacts DEF Twice
    <3>8. Times(users[b], u) = Times(source.dst[b], a)
      BY <2>3, <2>6, <3>1, <3>5, <3>6
    <3> QED
      BY <3>2, <3>3, <3>6, <3>7, <3>8 DEF Listed
  <2>8. ASSUME NoUser(dst, phis, u) PROVE Listed(b, u, Times(users[b], u), UsesOf(dst, phis, b, u))
    <3>1. \A c \in Block : u # Terminator(c, dst[c])
      BY <2>8 DEF NoUser
    <3>2. \A a \in Block : \A k \in 1..source.phis[a] : u # Phi(a, k)
      <4>1. \A a \in Block : DOMAIN phis[a] = 1..source.phis[a]
        BY <1>5
      <4> QED
        BY <2>8, <4>1 DEF NoUser
    <3>3. ~Names(source, u, b) /\ ~Twice(b, u)
      BY <3>2 DEF Names, Twice
    <3>4. Times(PhiUsers(source, b), u) = 0
      BY <1>1, <3>3, PhiUsersTimes
    <3>5. UsesOf(dst, phis, b, u) = 0
      BY <2>8, OtherUses
    <3> QED
      BY <2>3, <2>6, <3>1, <3>3, <3>4, <3>5 DEF Listed
  <2> QED
    BY <2>2, <2>5, <2>7, <2>8, UserKindsAre DEF UserKinds
<1>7. Shape
  <2>1. users \in [Block -> Seq(AnyUser)]
    BY <1>3, <1>6
  <2>2. phis \in [Block -> Seq(Maps)]
    BY <1>2, <1>5
  <2> QED
    BY <1>1, <1>4, <2>1, <2>2, BlocksAre DEF Shape
<1>8. EvaluateInv
  BY <1>1, <1>4, BlocksAre DEF EvaluateInv
<1>9. NamesInv
  BY <1>4, <1>5 DEF NamesInv
<1>10. ExactInv
  BY <1>4, <1>6 DEF ExactInv, Exact
<1>11. UnusedInv /\ TwiceInv
  BY <1>4, TimesInNone DEF UnusedInv, TwiceInv
<1>12. WayInv /\ StaysInv
  BY <1>4 DEF WayInv, StaysInv
<1> QED
  BY <1>7, <1>8, <1>9, <1>10, <1>11, <1>12 DEF CleanInv

-----------------------------------------------------------------------------
(* What depends on the function as it was stays as it is.                  *)
LEMMA SourceKept ==
  ASSUME source' = source
  PROVE  /\ \A b : Meant(b)' = Meant(b)
         /\ \A b : Passed(b)' <=> Passed(b)
         /\ \A x, y : OnWay(x, y)' <=> OnWay(x, y)
         /\ NoPhiBehindBranch' <=> NoPhiBehindBranch
         /\ \A b : FewPhis(b)' <=> FewPhis(b)
         /\ \A b, u : Twice(b, u)' <=> Twice(b, u)
<1>1. \A b : Meant(b)' = Meant(b)
  BY DEF Meant
<1>2. \A b : Passed(b)' <=> Passed(b)
  BY <1>1 DEF Passed
<1>3. \A b : NamedBy(b)' = NamedBy(b)
  BY DEF NamedBy
<1>4. \A C : GoesOn(C)' <=> GoesOn(C)
  BY <1>1, <1>2 DEF GoesOn
<1>5. \A x, y : OnWay(x, y)' <=> OnWay(x, y)
  BY <1>4 DEF OnWay
<1>6. NoPhiBehindBranch' <=> NoPhiBehindBranch
  BY <1>2, <1>3 DEF NoPhiBehindBranch
<1>7. \A b : FewPhis(b)' <=> FewPhis(b)
  BY DEF FewPhis
<1>8. \A b, u : Twice(b, u)' <=> Twice(b, u)
  BY DEF Twice
<1> QED
  BY <1>1, <1>2, <1>5, <1>6, <1>7, <1>8

(* The parts that a step leaves alone when it leaves alone what they are   *)
(* about.                                                                  *)
LEMMA SameShape ==
  ASSUME Shape, dst' = dst, users' = users, phis' = phis, present' = present
  PROVE  Shape'
BY DEF Shape

LEMMA SameWay ==
  ASSUME WayInv, phase # "evaluate", source' = source, cfg' = cfg, dst' = dst, present' = present
  PROVE  WayInv'
<1>1. /\ cfg' = [b \in Block |-> Meant(b)']
      /\ \A b \in present' : /\ Len(dst'[b]) = Len(Meant(b)')
                             /\ \A k \in 1..Len(dst'[b]) : OnWay(Meant(b)[k], dst[b][k])'
      /\ \A b \in Block \ present' : dst'[b] = <<>>
  <2>1. /\ cfg = [b \in Block |-> Meant(b)]
        /\ \A b \in present : /\ Len(dst[b]) = Len(Meant(b))
                              /\ \A k \in 1..Len(dst[b]) : OnWay(Meant(b)[k], dst[b][k])
        /\ \A b \in Block \ present : dst[b] = <<>>
    BY DEF WayInv
  <2>2. \A b : Meant(b)' = Meant(b)
    BY SourceKept
  <2>3. \A b, k : OnWay(Meant(b)[k], dst[b][k])' <=> OnWay(Meant(b)[k], dst[b][k])
    BY <2>2, SourceKept DEF OnWay, GoesOn
  <2> QED
    BY <2>1, <2>2, <2>3
<1> QED
  BY <1>1 DEF WayInv

LEMMA SameNames ==
  ASSUME NamesInv, source' = source, phis' = phis, present' = present,
         ToSet(removeQueue) \subseteq ToSet(removeQueue')
  PROVE  NamesInv'
<1>1. ASSUME NEW b \in Block
      PROVE  /\ Len(phis'[b]) = IF b \in present' THEN source'.phis[b] ELSE 0
             /\ \A k \in DOMAIN phis'[b] : \A p \in Block :
                  /\ p \in DOMAIN phis'[b][k] => IsEdge(source'.dst, p, b)
                  /\ IsEdge(source'.dst, p, b) /\ p \in present' \ ToSet(removeQueue') => p \in DOMAIN phis'[b][k]
  BY DEF NamesInv
<1> QED
  BY <1>1 DEF NamesInv

LEMMA ExactNext ==
  ASSUME source' = source, Exact(dst', phis', users', present')
  PROVE  ExactInv'
<1>1. \A b, u, n, m : Listed(b, u, n, m)' <=> Listed(b, u, n, m)
  BY SourceKept DEF Listed
<1> QED
  BY <1>1 DEF ExactInv, Exact

LEMMA SameExact ==
  ASSUME ExactInv, source' = source, dst' = dst, users' = users, phis' = phis, present' = present
  PROVE  ExactInv'
<1>1. Exact(dst', phis', users', present')
  BY DEF ExactInv
<1> QED
  BY <1>1, ExactNext

LEMMA SameTwice ==
  ASSUME TwiceInv, source' = source, present' = present, ToSet(removeQueue') \subseteq ToSet(removeQueue)
  PROVE  TwiceInv'
BY DEF TwiceInv

LEMMA SameUnused ==
  ASSUME UnusedInv, source' = source, dst' = dst, phis' = phis, removeQueue' = removeQueue, phase' # "users left"
  PROVE  UnusedInv'
BY SourceKept DEF UnusedInv

-----------------------------------------------------------------------------
LEMMA CleanSame ==
  ASSUME Invs, UNCHANGED vars
  PROVE  CleanInv'
<1> USE DEF Invs, CleanInv, vars
<1>1. EvaluateInv'
  BY SourceKept DEF EvaluateInv
<1>2. \A b : Stays(b)' <=> Stays(b)
  BY DEF Stays, Candidate, HasNoPreds, OnlyBranches
<1>3. StaysInv'
  BY <1>2 DEF StaysInv
<1>4. UnusedInv'
  BY SourceKept DEF UnusedInv
<1>5. WayInv'
  <2>1. CASE phase = "evaluate"
    BY <2>1 DEF WayInv
  <2>2. CASE phase # "evaluate"
    BY <2>2, SameWay
  <2> QED
    BY <2>1, <2>2
<1> QED
  BY <1>1, <1>3, <1>4, <1>5, SameShape, SameNames, SameTwice, SameExact

(* The steps that only go on to the next block or the next loop.           *)
LEMMA CleanReplaceByItself ==
  ASSUME Invs, NEW b \in Block, ReplaceByItself(b)
  PROVE  CleanInv'
<1> USE DEF Invs, CleanInv, ReplaceByItself, Visiting
<1>1. EvaluateInv' /\ StaysInv'
  BY DEF EvaluateInv, StaysInv
<1> QED
  BY <1>1, SameShape, SameNames, SameTwice, SameExact, SameUnused, SameWay

LEMMA CleanKeep ==
  ASSUME Invs, NEW b \in Block, Keep(b)
  PROVE  CleanInv'
<1> USE DEF Invs, CleanInv, Keep, Visiting
<1>1. EvaluateInv'
  BY DEF EvaluateInv
<1>2. \A c : Stays(c)' <=> Stays(c)
  BY DEF Stays, Candidate, HasNoPreds, OnlyBranches
<1>3. Stays(b) /\ next = b /\ next' = b + 1 /\ phase' = "simplify" /\ phase = "simplify"
  BY DEF Stays
<1>4. \A c \in 1..(next'-1) : c \in 1..(next-1) \/ c = b
  BY <1>3, BlocksAre
<1>5. StaysInv'
  BY <1>2, <1>3, <1>4 DEF StaysInv
<1>6. phase # "evaluate" /\ phase' # "users left"
  BY <1>3
<1> QED
  BY <1>1, <1>5, <1>6, SameShape, SameNames, SameTwice, SameExact, SameUnused, SameWay

LEMMA CleanEndVisits ==
  ASSUME Invs, EndVisits
  PROVE  CleanInv'
<1> USE DEF Invs, CleanInv, EndVisits
<1>1. EvaluateInv'
  BY DEF EvaluateInv
<1>2. \A c : Stays(c)' <=> Stays(c)
  BY DEF Stays, Candidate, HasNoPreds, OnlyBranches
<1>3. \A c \in Block : c \in 1..(next-1)
  BY BlocksAre DEF QueueInv, Block
<1>4. StaysInv'
  BY <1>2, <1>3 DEF StaysInv
<1> QED
  BY <1>1, <1>4, SameShape, SameNames, SameTwice, SameExact, SameUnused, SameWay

LEMMA CleanEndRound ==
  ASSUME Invs, EndRound
  PROVE  CleanInv'
<1> USE DEF Invs, CleanInv, EndRound
<1>1. EvaluateInv'
  BY DEF EvaluateInv
<1>2. \A c : Stays(c)' <=> Stays(c)
  BY DEF Stays, Candidate, HasNoPreds, OnlyBranches
<1>3. next' = 1 /\ phase = "remove" /\ removeQueue = <<>> /\ removeQueue' = <<>> /\ changed' = FALSE
  BY DEF Reset
<1>4. \A c \in 1..(next'-1) : FALSE
  BY <1>3
<1>5. phase' = IF changed THEN "simplify" ELSE "done"
  OBVIOUS
<1>6. changed \in BOOLEAN
  BY DEF QueueInv
<1>7. StaysInv'
  BY <1>2, <1>3, <1>4, <1>5, <1>6 DEF StaysInv
<1> QED
  BY <1>1, <1>3, <1>5, <1>7, SameShape, SameNames, SameTwice, SameExact, SameUnused, SameWay

LEMMA CleanAnalyse ==
  ASSUME Invs, Analyse
  PROVE  CleanInv'
<1> USE DEF Invs, CleanInv, Analyse
<1>1. phase = "evaluate" /\ present = Block /\ \A b \in Block : dst[b] = Meant(b)
  <2>1. \A b \in Block : b < next
    BY BlocksAre DEF QueueInv
  <2> QED
    BY <2>1 DEF EvaluateInv
<1>2. cfg' = [b \in Block |-> Meant(b)]
  <2>1. dst = [b \in Block |-> dst[b]]
    BY DEF Shape, CfgGraph
  <2> QED
    BY <1>1, <2>1
<1>3. WayInv'
  <2>1. \A b, k : OnWay(Meant(b)[k], Meant(b)[k])'
    BY SourceKept, OnWayFacts DEF OnWay, GoesOn
  <2>2. \A b : Meant(b)' = Meant(b)
    BY SourceKept
  <2>3. /\ cfg' = [b \in Block |-> Meant(b)']
        /\ \A b \in present' : /\ Len(dst'[b]) = Len(Meant(b)')
                               /\ \A k \in 1..Len(dst'[b]) : OnWay(Meant(b)[k], dst[b][k])'
        /\ \A b \in Block \ present' : dst'[b] = <<>>
    <3>1. present' = Block /\ dst' = dst
      BY <1>1
    <3>2. \A b \in Block : dst'[b] = Meant(b)'
      BY <1>1, <2>2, <3>1
    <3>3. \A b \in Block : \A k : OnWay(Meant(b)[k], dst[b][k])'
      BY <2>1, <3>2 DEF OnWay
    <3> QED
      BY <1>2, <2>2, <3>1, <3>2, <3>3
  <2> QED
    BY <2>3 DEF WayInv
<1>4. EvaluateInv'
  BY DEF EvaluateInv
<1>5. next' = 1 /\ removeQueue' = removeQueue /\ removeQueue = <<>> /\ phase' = "simplify"
  BY <1>1 DEF QueueInv
<1>6. \A c \in 1..(next'-1) : FALSE
  BY <1>5
<1>7. StaysInv'
  BY <1>5, <1>6 DEF StaysInv
<1> QED
  BY <1>3, <1>4, <1>5, <1>7, SameShape, SameNames, SameTwice, SameExact, SameUnused

-----------------------------------------------------------------------------
(* ConstantBranchEvaluator: what users use when one terminator takes the   *)
(* place of another.                                                       *)
UsesReplaced(r, t, p, a, c) ==
  \A x, v : UsesOf(r, p, x, v) =
    IF v = Terminator(a, <<c>>) THEN (IF x = c THEN 1 ELSE 0)
    ELSE IF v = Terminator(a, t[a]) THEN 0 ELSE UsesOf(t, p, x, v)

(* A terminator that takes the place of another: one use less of what the  *)
(* old one went to and one more of what the new one goes to.               *)
LEMMA TerminatorReplaced ==
  ASSUME NEW t \in CfgGraph, NEW p, NEW a \in Block, NEW c \in Block, Len(t[a]) # 1, NEW r,
         r = [t EXCEPT ![a] = <<c>>]
  PROVE  UsesReplaced(r, t, p, a, c)
<1> SUFFICES ASSUME NEW x, NEW v
    PROVE  UsesOf(r, p, x, v) =
             IF v = Terminator(a, <<c>>) THEN (IF x = c THEN 1 ELSE 0)
             ELSE IF v = Terminator(a, t[a]) THEN 0 ELSE UsesOf(t, p, x, v)
  BY DEF UsesReplaced
<1>1. r \in [Block -> Terminators] /\ r[a] = <<c>> /\ \A b \in Block \ {a} : r[b] = t[b]
  BY DEF CfgGraph, Terminators
<1>2. Len(<<c>>) = 1 /\ Times(<<c>>, x) = IF x = c THEN 1 ELSE 0
  BY TimesInOne
<1>3. Terminator(a, <<c>>) # Terminator(a, t[a])
  BY <1>2, UserFacts
<1>4. CASE v = Terminator(a, <<c>>)
  <2>1. UsesOf(r, p, x, Terminator(a, r[a])) = Times(r[a], x)
    BY TerminatorUses, ZenonT(40)
  <2> QED
    BY <1>1, <1>2, <1>4, <2>1
<1>5. CASE v = Terminator(a, t[a])
  <2>1. Len(t[a]) # Len(r[a])
    BY <1>1, <1>2
  <2>2. UsesOf(r, p, x, Terminator(a, t[a])) = 0
    BY <2>1, OldTerminatorUses
  <2> QED
    BY <1>3, <1>5, <2>2
<1>6. ASSUME NEW b \in Block, v = Terminator(b, t[b]), b # a
      PROVE  UsesOf(r, p, x, v) = UsesOf(t, p, x, v)
  <2>1. UsesOf(r, p, x, Terminator(b, r[b])) = Times(r[b], x)
    BY TerminatorUses, ZenonT(40)
  <2>2. UsesOf(t, p, x, Terminator(b, t[b])) = Times(t[b], x)
    BY TerminatorUses
  <2> QED
    BY <1>1, <1>6, <2>1, <2>2
<1>7. ASSUME NEW b \in Block, NEW k, v = Phi(b, k)
      PROVE  UsesOf(r, p, x, v) = UsesOf(t, p, x, v)
  <2>1. UsesOf(r, p, x, Phi(b, k)) = IF k \in DOMAIN p[b] /\ x \in DOMAIN p[b][k] THEN 1 ELSE 0
    BY PhiUses
  <2>2. UsesOf(t, p, x, Phi(b, k)) = IF k \in DOMAIN p[b] /\ x \in DOMAIN p[b][k] THEN 1 ELSE 0
    BY PhiUses
  <2> QED
    BY <1>7, <2>1, <2>2
<1>8. ASSUME NoUser(t, p, v), v # Terminator(a, <<c>>)
      PROVE  UsesOf(r, p, x, v) = UsesOf(t, p, x, v)
  <2>1. NoUser(r, p, v)
    BY <1>1, <1>8 DEF NoUser
  <2> QED
    BY <1>8, <2>1, OtherUses
<1>9. UserKinds(t, p, v)
  BY UserKindsAre
<1>10. CASE \E b \in Block : v = Terminator(b, t[b])
  <2>1. PICK b \in Block : v = Terminator(b, t[b])
    BY <1>10
  <2>2. CASE b = a
    BY <1>5, <2>1, <2>2
  <2>3. CASE b # a
    <3>1. v # Terminator(a, <<c>>) /\ v # Terminator(a, t[a])
      BY <2>1, <2>3, UserFacts
    <3> QED
      BY <1>6, <2>1, <2>3, <3>1
  <2> QED
    BY <2>2, <2>3
<1>11. CASE \E b \in Block : \E k \in DOMAIN p[b] : v = Phi(b, k)
  <2>1. PICK b \in Block : \E k \in DOMAIN p[b] : v = Phi(b, k)
    BY <1>11
  <2>2. PICK k \in DOMAIN p[b] : v = Phi(b, k)
    BY <2>1
  <2>3. v # Terminator(a, <<c>>) /\ v # Terminator(a, t[a])
    BY <2>2, UserFacts
  <2> QED
    BY <1>7, <2>2, <2>3
<1>12. CASE NoUser(t, p, v)
  <2>1. v # Terminator(a, t[a])
    BY <1>12 DEF NoUser
  <2> QED
    BY <1>4, <1>8, <1>12, <2>1
<1> QED
  BY <1>9, <1>10, <1>11, <1>12 DEF UserKinds

LEMMA CleanEvaluate ==
  ASSUME Invs, Evaluate
  PROVE  CleanInv'
<1> DEFINE was == dst[next]
           is == Chosen(source, next)
<1> USE DEF Invs, CleanInv
<1>1. /\ phase = "evaluate" /\ phase' = "evaluate" /\ next <= N /\ next' = next + 1
      /\ source' = source /\ phis' = phis /\ present' = present /\ removeQueue' = removeQueue
      /\ dst' = [dst EXCEPT ![next] = is]
      /\ users' = IF is = was THEN users
                  ELSE TakenOff([users EXCEPT ![is[1]] = Append(@, Terminator(next, is))], was, Terminator(next, was))
  BY DEF Evaluate
<1>2. next \in Block /\ next \in Nat
  BY <1>1, BlocksAre DEF QueueInv, Block
<1>3. is = Meant(next) /\ was = source.dst[next] /\ dst \in CfgGraph /\ is \in Terminators
  BY <1>1, <1>2, MeantIs DEF EvaluateInv, Shape
<1>4. dst' \in CfgGraph /\ dst'[next] = is /\ \A a \in Block \ {next} : dst'[a] = dst[a]
  BY <1>1, <1>2, <1>3 DEF CfgGraph
<1>5. EvaluateInv'
  <2>1. ASSUME NEW a \in Block PROVE dst'[a] = IF a < next' THEN Meant(a)' ELSE source'.dst[a]
    <3>1. dst[a] = IF a < next THEN Meant(a) ELSE source.dst[a]
      BY <1>1 DEF EvaluateInv
    <3>2. Meant(a)' = Meant(a)
      BY <1>1, SourceKept
    <3>3. a \in Nat /\ (a < next' <=> a < next \/ a = next) /\ ~(next < next)
      BY <1>1, <1>2, BlocksAre
    <3> QED
      BY <1>1, <1>3, <1>4, <3>1, <3>2, <3>3
  <2> QED
    BY <1>1, <2>1 DEF EvaluateInv
<1>6. NamesInv' /\ WayInv' /\ StaysInv' /\ TwiceInv'
  BY <1>1, SameNames, SameTwice DEF WayInv, StaysInv
<1>7. UnusedInv'
  <2>1. removeQueue' = <<>>
    BY <1>1 DEF QueueInv
  <2> QED
    BY <1>1, <2>1, TimesInNone DEF UnusedInv
<1>8. users' \in [Block -> Seq(AnyUser)] /\ \A x \in Block : \A u : Listed(x, u, Times(users'[x], u), UsesOf(dst', phis', x, u))
  <2>1. CASE is = was
    <3>1. dst' = dst /\ users' = users
      BY <1>1, <1>2, <1>3, <1>4, <2>1 DEF CfgGraph
    <3> QED
      BY <1>1, <3>1 DEF Shape, ExactInv, Exact, EvaluateInv
  <2>2. CASE is # was
    <3>1. PICK c \in Block : is = <<c>> /\ Len(was) = 2
      BY <1>2, <1>3, <2>2, MeantIs
    <3>0. PICK new, old, more : /\ new = Terminator(next, <<c>>)
                                /\ old = Terminator(next, dst[next])
                                /\ more = [users EXCEPT ![c] = Append(@, new)]
      OBVIOUS
    <3>2. new \in AnyUser /\ new # old
      <4>1. <<c>> \in Terminators
        BY <1>3, <3>1
      <4>2. Len(<<c>>) # Len(was)
        BY <3>1
      <4> QED
        BY <1>2, <3>0, <4>1, <4>2, UserFacts
    <3>3. users \in [Block -> Seq(AnyUser)] /\ \A x \in Block : \A u : Listed(x, u, Times(users[x], u), UsesOf(dst, phis, x, u))
      BY <1>1 DEF Shape, ExactInv, Exact, EvaluateInv
    <3>4. more \in [Block -> Seq(AnyUser)]
      BY <3>0, <3>2, <3>3
    <3>5. ASSUME NEW x \in Block, NEW u
          PROVE  Times(more[x], u) = Times(users[x], u) + (IF x = c /\ u = new THEN 1 ELSE 0) /\ Times(users[x], u) \in Nat
      <4>1. users[x] \in Seq(AnyUser)
        BY <3>3
      <4>2. Times(users[x], u) \in Nat
        BY <4>1, TimesIsCounted
      <4>3. CASE x # c
        BY <3>0, <3>3, <4>2, <4>3
      <4>4. CASE x = c
        <5>1. more[x] = users[x] \o <<new>> /\ <<new>> \in Seq(AnyUser)
          BY <3>0, <3>2, <3>3, <4>1, <4>4
        <5>2. Times(users[x] \o <<new>>, u) = Times(users[x], u) + Times(<<new>>, u)
          BY <4>1, <5>1, TimesInBoth, ZenonT(40)
        <5>3. Times(<<new>>, u) = IF new = u THEN 1 ELSE 0
          BY TimesInOne
        <5> QED
          BY <4>2, <4>4, <5>1, <5>2, <5>3
      <4> QED
        BY <4>3, <4>4
    <3>6. users' = TakenOff(more, was, old)
      <4>1. is[1] = c
        BY <3>1
      <4> QED
        BY <1>1, <2>2, <3>0, <3>1, <4>1
    <3>7. was \in Seq(Block) /\ Len(was) \in 0..2
      BY <1>2, <1>3, DestinationsAreBlocks
    <3>8. ASSUME NEW x \in Block PROVE Times(users[x], old) = Times(was, x)
      <4>1. UsesOf(dst, phis, x, Terminator(next, dst[next])) = Times(dst[next], x)
        BY <1>2, TerminatorUses
      <4>2. ~Twice(x, old)
        BY <3>0, UserFacts DEF Twice
      <4> QED
        BY <3>0, <3>3, <4>1, <4>2 DEF Listed
    <3>9. ASSUME NEW x \in Block
          PROVE  /\ Times(more[x], old) = Times(was, x)
                 /\ Times(more[x], old) \in Nat
      <4>1. Times(more[x], old) = Times(users[x], old) + (IF x = c /\ old = new THEN 1 ELSE 0) /\ Times(users[x], old) \in Nat
        BY <3>5
      <4> QED
        BY <3>2, <3>8, <4>1
    <3> HIDE DEF was
    <3>10. \A x \in Block : Times(more[x], old) >= Times(was, x)
      BY <3>9
    <3>11. IsLess(users', more, was, old, AnyUser)
      BY <3>4, <3>6, <3>7, <3>10, TakenOffTimes
    <3>12. ASSUME NEW x \in Block, NEW u PROVE Listed(x, u, Times(users'[x], u), UsesOf(dst', phis', x, u))
      <4>1. Times(users'[x], u) = Times(more[x], u) - (IF u = old THEN Times(was, x) ELSE 0)
        BY <3>11 DEF IsLess
      <4>2. UsesOf(dst', phis', x, u) = IF u = new THEN (IF x = c THEN 1 ELSE 0)
                                        ELSE IF u = old THEN 0 ELSE UsesOf(dst, phis, x, u)
        <5>1. dst' = [dst EXCEPT ![next] = <<c>>] /\ Len(dst[next]) # 1
          BY <1>1, <3>1 DEF was
        <5>2. UsesReplaced(dst', dst, phis, next, c)
          BY <1>2, <1>3, <5>1, TerminatorReplaced
        <5> QED
          BY <1>1, <3>0, <5>2 DEF UsesReplaced
      <4>3. UsesOf(dst, phis, x, new) = 0
        <5>1. Len(<<c>>) # Len(dst[next])
          BY <3>1 DEF was
        <5>2. UsesOf(dst, phis, x, Terminator(next, <<c>>)) = 0
          BY <1>2, <5>1, OldTerminatorUses
        <5> QED
          BY <3>0, <5>2
      <4>4. Times(more[x], u) = Times(users[x], u) + (IF x = c /\ u = new THEN 1 ELSE 0) /\ Times(users[x], u) \in Nat
        BY <3>5
      <4>5. Listed(x, u, Times(users[x], u), UsesOf(dst, phis, x, u))
        BY <3>3
      <4>6. CASE u = new
        <5>1. ~Twice(x, u)
          BY <3>0, <4>6, UserFacts DEF Twice
        <5> QED
          BY <3>2, <4>1, <4>2, <4>3, <4>4, <4>5, <4>6, <5>1 DEF Listed
      <4>7. CASE u = old
        <5>1. ~Twice(x, u)
          BY <3>0, <4>7, UserFacts DEF Twice
        <5>2. Times(users'[x], u) = 0
          BY <3>9, <4>1, <4>7
        <5> QED
          BY <3>2, <4>2, <4>7, <5>1, <5>2 DEF Listed
      <4>8. CASE u # new /\ u # old
        <5>1. Times(users'[x], u) = Times(users[x], u)
          BY <4>1, <4>4, <4>8
        <5> QED
          BY <4>2, <4>5, <4>8, <5>1
      <4> QED
        BY <4>6, <4>7, <4>8
    <3> QED
      BY <3>11, <3>12 DEF IsLess
  <2> QED
    BY <2>1, <2>2
<1>9. ExactInv'
  <2>1. Exact(dst', phis', users', present')
    BY <1>1, <1>8 DEF Exact, EvaluateInv
  <2> QED
    BY <1>1, <2>1, ExactNext
<1>10. Shape'
  BY <1>1, <1>4, <1>8 DEF Shape
<1> QED
  BY <1>5, <1>6, <1>7, <1>9, <1>10

-----------------------------------------------------------------------------
(* The removal of a block: what users use without its terminator and its   *)
(* phis.                                                                   *)
UsesWithout(r, q, t, p, b) ==
  \A x, v : UsesOf(r, q, x, v) =
    IF v = Terminator(b, t[b]) \/ (\E k : v = Phi(b, k)) THEN 0 ELSE UsesOf(t, p, x, v)

(* Without a terminator and phis a block uses nothing.                     *)
LEMMA BlockRemoved ==
  ASSUME NEW t \in CfgGraph, NEW p \in [Block -> Seq(Maps)], NEW b \in Block, NEW r, NEW q,
         r[b] = <<>>, \A a \in Block \ {b} : r[a] = t[a],
         q[b] = <<>>, \A a \in Block \ {b} : q[a] = p[a]
  PROVE  UsesWithout(r, q, t, p, b)
<1> SUFFICES ASSUME NEW x, NEW v
    PROVE  UsesOf(r, q, x, v) = IF v = Terminator(b, t[b]) \/ (\E k : v = Phi(b, k)) THEN 0 ELSE UsesOf(t, p, x, v)
  BY DEF UsesWithout
<1>1. r[b] = <<>> /\ \A a \in Block \ {b} : r[a] = t[a]
  OBVIOUS
<1>2. q[b] = <<>> /\ DOMAIN q[b] = {} /\ \A a \in Block \ {b} : q[a] = p[a]
  OBVIOUS
<1>3. t[b] \in Seq(Block) /\ Len(t[b]) \in Nat /\ Len(<<>>) = 0 /\ (Len(t[b]) = 0 => t[b] = <<>>)
  <2>1. t[b] \in Seq(Block)
    BY DestinationsAreBlocks
  <2> QED
    BY <2>1, EmptySeq
<1>4. CASE v = Terminator(b, t[b])
  <2>1. CASE t[b] = <<>>
    <3>1. UsesOf(r, q, x, Terminator(b, r[b])) = Times(r[b], x)
      BY TerminatorUses
    <3> QED
      BY <1>1, <1>4, <2>1, <3>1, TimesInNone
  <2>2. CASE t[b] # <<>>
    <3>1. Len(t[b]) # Len(r[b])
      BY <1>1, <1>3, <2>2
    <3>2. UsesOf(r, q, x, Terminator(b, t[b])) = 0
      BY <3>1, OldTerminatorUses
    <3> QED
      BY <1>4, <3>2
  <2> QED
    BY <2>1, <2>2
<1>5. ASSUME NEW k, v = Phi(b, k) PROVE UsesOf(r, q, x, v) = 0
  <2>1. UsesOf(r, q, x, Phi(b, k)) = IF k \in DOMAIN q[b] /\ x \in DOMAIN q[b][k] THEN 1 ELSE 0
    BY PhiUses
  <2> QED
    BY <1>2, <1>5, <2>1
<1>6. ASSUME NEW a \in Block \ {b}, v = Terminator(a, t[a])
      PROVE  UsesOf(r, q, x, v) = UsesOf(t, p, x, v)
  <2>0. a \in Block
    OBVIOUS
  <2>1. UsesOf(r, q, x, Terminator(a, r[a])) = Times(r[a], x)
    BY <2>0, TerminatorUses, ZenonT(40)
  <2>2. UsesOf(t, p, x, Terminator(a, t[a])) = Times(t[a], x)
    BY <2>0, TerminatorUses, ZenonT(40)
  <2> QED
    BY <1>1, <1>6, <2>1, <2>2
<1>7. ASSUME NEW a \in Block \ {b}, NEW k, v = Phi(a, k)
      PROVE  UsesOf(r, q, x, v) = UsesOf(t, p, x, v)
  <2>1. UsesOf(r, q, x, Phi(a, k)) = IF k \in DOMAIN q[a] /\ x \in DOMAIN q[a][k] THEN 1 ELSE 0
    BY PhiUses
  <2>2. UsesOf(t, p, x, Phi(a, k)) = IF k \in DOMAIN p[a] /\ x \in DOMAIN p[a][k] THEN 1 ELSE 0
    BY PhiUses
  <2> QED
    BY <1>2, <1>7, <2>1, <2>2
<1>8. ASSUME NoUser(t, p, v)
      PROVE  UsesOf(r, q, x, v) = 0 /\ UsesOf(t, p, x, v) = 0
  <2>1. UsesOf(t, p, x, v) = 0
    BY <1>8, OtherUses
  <2>2. CASE v = Terminator(b, r[b])
    <3>1. UsesOf(r, q, x, Terminator(b, r[b])) = Times(r[b], x)
      BY TerminatorUses
    <3> QED
      BY <1>1, <2>1, <2>2, <3>1, TimesInNone
  <2>3. CASE v # Terminator(b, r[b])
    <3>1. NoUser(r, q, v)
      BY <1>1, <1>2, <1>8, <2>3 DEF NoUser
    <3>2. UsesOf(r, q, x, v) = 0
      BY <3>1, OtherUses
    <3> QED
      BY <2>1, <3>2
  <2> QED
    BY <2>2, <2>3
<1>9. UserKinds(t, p, v)
  BY UserKindsAre
<1>10. \A a \in Block \ {b} : /\ \A k : Phi(a, k) # Terminator(b, t[b]) /\ \A l : Phi(a, k) # Phi(b, l)
                              /\ Terminator(a, t[a]) # Terminator(b, t[b]) /\ \A l : Terminator(a, t[a]) # Phi(b, l)
  BY UserFacts
<1>11. CASE \E a \in Block : v = Terminator(a, t[a])
  <2>1. PICK a \in Block : v = Terminator(a, t[a])
    BY <1>11
  <2> QED
    BY <1>4, <1>6, <1>10, <2>1
<1>12. CASE \E a \in Block : \E k \in DOMAIN p[a] : v = Phi(a, k)
  <2>1. PICK a \in Block : \E k \in DOMAIN p[a] : v = Phi(a, k)
    BY <1>12
  <2>2. PICK k \in DOMAIN p[a] : v = Phi(a, k)
    BY <2>1
  <2> QED
    BY <1>5, <1>7, <1>10, <2>2
<1>13. CASE NoUser(t, p, v)
  BY <1>8, <1>13
<1> QED
  BY <1>9, <1>11, <1>12, <1>13 DEF UserKinds

IsUnregistered(R, us, t, p, b, m) ==
  /\ R \in [Block -> Seq(AnyUser)]
  /\ \A c \in Block : \A v :
       Times(R[c], v) = Times(us[c], v) - (IF v = Terminator(b, t[b]) THEN Times(t[b], c) ELSE 0)
                                        - (IF \E j \in 1..m : v = Phi(b, j) /\ c \in DOMAIN p[b][j] THEN 1 ELSE 0)

(* What the destruction of a block takes off the lists.                    *)
LEMMA UnregisteredTimes ==
  ASSUME Shape, ExactInv, NEW b \in Block, \A c \in Block : \A k : ~Twice(c, Phi(b, k))
  PROVE  IsUnregistered(Unregistered(b), users, dst, phis, b, Len(phis[b]))
<1>1. PICK n \in Nat : n = Len(phis[b]) /\ DOMAIN phis[b] = 1..n
  BY DEF Shape
<1>2. PICK f : /\ f[0] = TakenOff(users, dst[b], Terminator(b, dst[b]))
               /\ \A k \in 1..n : f[k] = [c \in Block |-> IF c \in DOMAIN phis[b][k] THEN RemoveFirst(f[k-1][c], Phi(b, k)) ELSE f[k-1][c]]
               /\ Unregistered(b) = f[n]
  BY <1>1, UnregisteringIs
<1>3. dst[b] \in Seq(Block) /\ Len(dst[b]) \in 0..2 /\ users \in [Block -> Seq(AnyUser)]
  BY DestinationsAreBlocks DEF Shape
<1>4. \A c \in Block : \A v : Times(users[c], v) \in Nat /\ Times(dst[b], c) \in Nat
  BY <1>3, TimesIsCounted
<1>5. \A c \in Block : Times(users[c], Terminator(b, dst[b])) >= Times(dst[b], c)
  <2> TAKE c \in Block
  <2>1. UsesOf(dst, phis, c, Terminator(b, dst[b])) = Times(dst[b], c)
    BY TerminatorUses
  <2>2. ~Twice(c, Terminator(b, dst[b]))
    BY UserFacts DEF Twice
  <2> QED
    BY <1>4, <2>1, <2>2 DEF ExactInv, Exact, Listed
<1>6. \A c \in Block : \A k \in 1..n : c \in DOMAIN phis[b][k] => Times(users[c], Phi(b, k)) = 1
  <2> SUFFICES ASSUME NEW c \in Block, NEW k \in 1..n, c \in DOMAIN phis[b][k] PROVE Times(users[c], Phi(b, k)) = 1
    OBVIOUS
  <2>1. UsesOf(dst, phis, c, Phi(b, k)) = IF k \in DOMAIN phis[b] /\ c \in DOMAIN phis[b][k] THEN 1 ELSE 0
    BY PhiUses
  <2> QED
    BY <1>1, <2>1 DEF ExactInv, Exact, Listed
<1> DEFINE G == {m \in 0..n : IsUnregistered(f[m], users, dst, phis, b, m)}
<1>7. 0 \in G
  <2>1. IsLess(f[0], users, dst[b], Terminator(b, dst[b]), AnyUser)
    BY <1>2, <1>3, <1>5, TakenOffTimes
  <2>2. \A c \in Block : \A v : Times(f[0][c], v) = Times(users[c], v) - (IF v = Terminator(b, dst[b]) THEN Times(dst[b], c) ELSE 0)
    BY <2>1 DEF IsLess
  <2>3. \A c \in Block : \A v : ~\E j \in 1..0 : v = Phi(b, j) /\ c \in DOMAIN phis[b][j]
    OBVIOUS
  <2>4. ASSUME NEW c \in Block, NEW v
        PROVE  Times(f[0][c], v) = Times(users[c], v) - (IF v = Terminator(b, dst[b]) THEN Times(dst[b], c) ELSE 0)
                                        - (IF \E j \in 1..0 : v = Phi(b, j) /\ c \in DOMAIN phis[b][j] THEN 1 ELSE 0)
    <3>1. (IF \E j \in 1..0 : v = Phi(b, j) /\ c \in DOMAIN phis[b][j] THEN 1 ELSE 0) = 0
      BY <2>3
    <3> QED
      BY <1>4, <2>2, <3>1
  <2>5. IsUnregistered(f[0], users, dst, phis, b, 0)
    BY <2>1, <2>4 DEF IsUnregistered, IsLess
  <2> QED
    BY <2>5
<1>8. ASSUME NEW m \in 0..(n-1), m \in G PROVE m + 1 \in G
  <2>1. m + 1 \in 1..n /\ (m + 1) - 1 = m /\ m + 1 \in 0..n /\ m \in Nat
    OBVIOUS
  <2>2. IsUnregistered(f[m], users, dst, phis, b, m)
    BY <1>8
  <2>3. f[m+1] = [c \in Block |-> IF c \in DOMAIN phis[b][m+1] THEN RemoveFirst(f[m][c], Phi(b, m + 1)) ELSE f[m][c]]
    BY <1>2, <2>1
  <2>4. ASSUME NEW c \in Block
        PROVE  /\ f[m+1][c] \in Seq(AnyUser)
               /\ \A v : Times(f[m+1][c], v) = Times(f[m][c], v) - (IF v = Phi(b, m + 1) /\ c \in DOMAIN phis[b][m+1] THEN 1 ELSE 0)
               /\ \A v : Times(f[m][c], v) \in Nat
    <3>1. f[m][c] \in Seq(AnyUser)
      BY <2>2 DEF IsUnregistered
    <3>2. \A v : Times(f[m][c], v) \in Nat /\ (Times(f[m][c], v) = 0 <=> ~Contains(f[m][c], v))
      BY <3>1, TimesIsCounted
    <3>3. CASE c \notin DOMAIN phis[b][m+1]
      BY <2>3, <3>1, <3>2, <3>3
    <3>4. CASE c \in DOMAIN phis[b][m+1]
      <4>1. Times(users[c], Phi(b, m + 1)) = 1
        BY <1>6, <2>1, <3>4
      <4>2. Phi(b, m + 1) # Terminator(b, dst[b]) /\ \A j \in 1..m : Phi(b, m + 1) # Phi(b, j)
        <5>1. \A j \in 1..m : j # m + 1
          BY <2>1
        <5> QED
          BY <5>1, UserFacts
      <4>3. Times(f[m][c], Phi(b, m + 1)) =
              Times(users[c], Phi(b, m + 1))
                - (IF Phi(b, m + 1) = Terminator(b, dst[b]) THEN Times(dst[b], c) ELSE 0)
                - (IF \E j \in 1..m : Phi(b, m + 1) = Phi(b, j) /\ c \in DOMAIN phis[b][j] THEN 1 ELSE 0)
        BY <2>2 DEF IsUnregistered
      <4>4. Times(f[m][c], Phi(b, m + 1)) = 1
        BY <4>1, <4>2, <4>3
      <4>5. Contains(f[m][c], Phi(b, m + 1))
        BY <3>2, <4>4
      <4>6. f[m+1][c] = RemoveFirst(f[m][c], Phi(b, m + 1))
        BY <2>3, <3>4
      <4>7. /\ RemoveFirst(f[m][c], Phi(b, m + 1)) \in Seq(AnyUser)
            /\ \A v : Times(RemoveFirst(f[m][c], Phi(b, m + 1)), v) = Times(f[m][c], v) - (IF v = Phi(b, m + 1) THEN 1 ELSE 0)
        BY <3>1, <4>5, RemovedFirst
      <4> QED
        BY <3>2, <3>4, <4>6, <4>7
    <3> QED
      BY <3>3, <3>4
  <2>5. ASSUME NEW c \in Block, NEW v
        PROVE  Times(f[m+1][c], v) = Times(users[c], v) - (IF v = Terminator(b, dst[b]) THEN Times(dst[b], c) ELSE 0)
                                          - (IF \E j \in 1..(m+1) : v = Phi(b, j) /\ c \in DOMAIN phis[b][j] THEN 1 ELSE 0)
    <3> DEFINE E(k) == \E j \in 1..k : v = Phi(b, j) /\ c \in DOMAIN phis[b][j]
               H == v = Phi(b, m + 1) /\ c \in DOMAIN phis[b][m+1]
    <3>1. E(m + 1) <=> E(m) \/ H
      <4>1. 1..(m+1) = 1..m \cup {m + 1}
        BY <2>1
      <4> QED
        BY <4>1
    <3>2. ~(E(m) /\ H)
      <4>1. \A j \in 1..m : j # m + 1
        BY <2>1
      <4> QED
        BY <4>1, UserFacts
    <3>3. Times(f[m][c], v) = Times(users[c], v) - (IF v = Terminator(b, dst[b]) THEN Times(dst[b], c) ELSE 0)
                                - (IF E(m) THEN 1 ELSE 0)
      BY <2>2 DEF IsUnregistered
    <3>4. Times(f[m+1][c], v) = Times(f[m][c], v) - (IF H THEN 1 ELSE 0)
      BY <2>4
    <3>5. Times(users[c], v) \in Nat /\ Times(dst[b], c) \in Nat
      BY <1>4
    <3> HIDE DEF E, H
    <3>6. Times(f[m+1][c], v) = Times(users[c], v) - (IF v = Terminator(b, dst[b]) THEN Times(dst[b], c) ELSE 0)
                                - (IF E(m + 1) THEN 1 ELSE 0)
      BY <3>1, <3>2, <3>3, <3>4, <3>5
    <3> QED
      BY <3>6 DEF E
  <2>6. f[m+1] \in [Block -> Seq(AnyUser)]
    BY <2>3, <2>4
  <2>7. IsUnregistered(f[m+1], users, dst, phis, b, m + 1)
    BY <2>5, <2>6 DEF IsUnregistered
  <2> QED
    BY <2>1, <2>7
<1>9. 0..n \subseteq G
  <2> HIDE DEF G
  <2> QED
    BY <1>7, <1>8, IntervalInduction
<1> QED
  BY <1>1, <1>2, <1>9

LEMMA QueueTail ==
  ASSUME NEW S, NEW s \in Seq(S), s # <<>>, IsInjective(s)
  PROVE  /\ Last(s) \in S /\ Last(s) \in ToSet(s)
         /\ ToSet(Front(s)) = ToSet(s) \ {Last(s)}
<1>1. /\ Len(s) \in Nat \ {0}
      /\ DOMAIN Front(s) = 1..(Len(s) - 1)
      /\ DOMAIN s = 1..Len(s)
      /\ \A k \in 1..(Len(s) - 1) : Front(s)[k] = s[k]
      /\ Last(s) = s[Len(s)]
  BY FrontAndLast DEF Last
<1>2. Last(s) \notin ToSet(Front(s))
  BY FrontInjective
<1>3. PICK n \in Nat \ {0} : n = Len(s)
  BY <1>1
<1>4. \A k : k \in 1..n <=> k \in 1..(n-1) \/ k = n
  BY <1>3
<1>5. ToSet(s) = {s[k] : k \in 1..n} /\ ToSet(Front(s)) = {s[k] : k \in 1..(n-1)}
  BY <1>1, <1>3 DEF ToSet
<1>6. Last(s) = s[n] /\ s[n] \in S
  BY <1>1, <1>3
<1> QED
  BY <1>2, <1>4, <1>5, <1>6

(* A block with few phis on its list goes to none of them on both sides.   *)
LEMMA FewNotTwice ==
  ASSUME source \in Sources, NEW b \in Block, FewPhis(b), NEW u
  PROVE  ~Twice(b, u)
<1> SUFFICES ASSUME Twice(b, u) PROVE FALSE
  OBVIOUS
<1>1. PICK a \in Block : \E k \in 1..source.phis[a] : u = Phi(a, k) /\ Times(source.dst[b], a) = 2
  BY DEF Twice
<1>2. Times(PhiUsers(source, b), u) = 2
  BY <1>1, PhiUsersTimes
<1>3. PICK l \in Seq(AnyUser) : l = PhiUsers(source, b) /\ IsInjective(l)
  BY PhiUsersTimes DEF FewPhis
<1>4. PICK P : P = {k \in DOMAIN l : l[k] = u}
  OBVIOUS
<1>5. IsFiniteSet(P) /\ Cardinality(P) = 2
  BY <1>2, <1>3, <1>4, TimesIsCounted DEF Times
<1>6. \A x, y \in P : x = y
  BY <1>3, <1>4 DEF IsInjective
<1>7. P # {}
  BY <1>5, FS_EmptySet
<1>9. PICK x \in P : TRUE
  BY <1>7
<1>8. P = {x}
  BY <1>6
<1> QED
  BY <1>5, <1>8, FS_Singleton

LEMMA CleanRemoveNext ==
  ASSUME Invs, RemoveNext
  PROVE  CleanInv'
<1> USE DEF Invs, CleanInv
<1>1. PICK b : b = Last(removeQueue)
  OBVIOUS
<1>2. /\ phase = "remove" /\ removeQueue # <<>> /\ source' = source /\ cfg' = cfg /\ next' = next /\ changed' = changed
      /\ \/ /\ users[b] = <<>> /\ users' = Unregistered(b) /\ dst' = [dst EXCEPT ![b] = <<>>]
            /\ phis' = [phis EXCEPT ![b] = <<>>] /\ present' = present \ {b}
            /\ removeQueue' = Front(removeQueue) /\ phase' = phase
         \/ /\ users[b] # <<>> /\ phase' = "users left" /\ dst' = dst /\ phis' = phis /\ users' = users
            /\ present' = present /\ removeQueue' = removeQueue
  BY <1>1 DEF RemoveNext, RemoveBlock
<1>3. /\ b \in Block /\ b \in ToSet(removeQueue) /\ b \in present /\ b # Entry
      /\ ToSet(Front(removeQueue)) = ToSet(removeQueue) \ {b}
  BY <1>1, <1>2, QueueTail DEF QueueInv
<1>4. \A u : Listed(b, u, Times(users[b], u), UsesOf(dst, phis, b, u))
  BY <1>3 DEF ExactInv, Exact
<1>5. users[b] \in Seq(AnyUser)
  BY <1>3 DEF Shape
<1>6. CASE phase' = "users left" /\ users[b] # <<>> /\ dst' = dst /\ phis' = phis /\ users' = users
           /\ present' = present /\ removeQueue' = removeQueue
  <2>1. EvaluateInv' /\ StaysInv'
    BY <1>6 DEF EvaluateInv, StaysInv
  <2>2. ~FewPhis(b)
    <3> SUFFICES ASSUME FewPhis(b) PROVE FALSE
      OBVIOUS
    <3>1. Times(users[b], users[b][1]) = 0
      <4>1. PICK u : u = users[b][1]
        OBVIOUS
      <4>2. ~Twice(b, u)
        BY <1>3, FewNotTwice
      <4>3. UsesOf(dst, phis, b, u) = 0
        BY <1>3 DEF UnusedInv
      <4> QED
        BY <1>4, <4>1, <4>2, <4>3 DEF Listed
    <3>2. ~Contains(users[b], users[b][1])
      BY <1>5, <3>1, TimesIsCounted
    <3>3. 1 \in DOMAIN users[b]
      <4>1. PICK s \in Seq(AnyUser) : s = users[b] /\ s # <<>>
        BY <1>5, <1>6
      <4>2. Len(s) # 0
        BY <4>1, EmptySeq
      <4> QED
        BY <4>1, <4>2, LenProperties
    <3> QED
      BY <3>2, <3>3 DEF Contains
  <2>3. UnusedInv'
    <3>1. \A c : FewPhis(c)' <=> FewPhis(c)
      BY <1>2, SourceKept
    <3>2. Last(removeQueue') = b
      BY <1>1, <1>6
    <3>3. \A c \in ToSet(removeQueue') : FewPhis(c) => \A u : UsesOf(dst', phis', c, u) = 0
      BY <1>6 DEF UnusedInv
    <3> QED
      BY <2>2, <3>1, <3>2, <3>3 DEF UnusedInv
  <2> QED
    BY <1>2, <1>6, <2>1, <2>3, SameShape, SameNames, SameTwice, SameExact, SameWay
<1>7. CASE /\ users[b] = <<>> /\ users' = Unregistered(b) /\ dst' = [dst EXCEPT ![b] = <<>>]
           /\ phis' = [phis EXCEPT ![b] = <<>>] /\ present' = present \ {b}
           /\ removeQueue' = Front(removeQueue) /\ phase' = phase
  <2>1. dst' \in CfgGraph /\ dst'[b] = <<>> /\ \A a \in Block \ {b} : dst'[a] = dst[a]
    BY <1>3, <1>7 DEF Shape, CfgGraph, Terminators
  <2>2. phis' \in [Block -> Seq(Maps)] /\ phis'[b] = <<>> /\ \A a \in Block \ {b} : phis'[a] = phis[a]
    BY <1>3, <1>7, EmptySeq DEF Shape
  <2>16. \A c \in Block : \A k : ~Twice(c, Phi(b, k))
    <3> SUFFICES ASSUME NEW c \in Block, NEW k, Twice(c, Phi(b, k)) PROVE FALSE
      OBVIOUS
    <3>1. k \in 1..source.phis[b] /\ Times(source.dst[c], b) = 2
      BY UserFacts DEF Twice
    <3>2. source.phis[b] # 0
      BY <3>1
    <3> QED
      BY <1>3, <3>1, <3>2 DEF TwiceInv
  <2>3. IsUnregistered(users', users, dst, phis, b, Len(phis[b]))
    BY <1>3, <1>7, <2>16, UnregisteredTimes
  <2>17. TwiceInv'
    BY <1>2, <1>3, <1>7 DEF TwiceInv
  <2>4. UsesWithout(dst', phis', dst, phis, b)
    BY <1>3, <2>1, <2>2, BlockRemoved DEF Shape
  <2>5. Shape'
    BY <1>3, <1>7, <2>1, <2>2, <2>3 DEF Shape, IsUnregistered
  <2>6. EvaluateInv'
    BY <1>2, <1>7 DEF EvaluateInv
  <2>7. changed
    BY <1>2 DEF StaysInv, QueueInv
  <2>8. StaysInv'
    BY <1>2, <1>7, <2>7 DEF StaysInv
  <2>9. WayInv'
    <3>1. \A a : Meant(a)' = Meant(a)
      BY <1>2, SourceKept
    <3>2. cfg = [a \in Block |-> Meant(a)] /\ \A a \in Block \ present : dst[a] = <<>>
      BY <1>2 DEF WayInv
    <3>3. ASSUME NEW a \in present'
          PROVE  /\ Len(dst'[a]) = Len(Meant(a)')
                 /\ \A k \in 1..Len(dst'[a]) : OnWay(Meant(a)[k], dst[a][k])'
      <4>1. a \in present /\ a # b /\ a \in Block
        BY <1>7 DEF QueueInv
      <4>2. dst'[a] = dst[a]
        BY <2>1, <4>1
      <4>3. Len(dst[a]) = Len(Meant(a)) /\ \A k \in 1..Len(dst[a]) : OnWay(Meant(a)[k], dst[a][k])
        BY <1>2, <4>1 DEF WayInv
      <4>4. \A k : OnWay(Meant(a)[k], dst[a][k])' <=> OnWay(Meant(a)[k], dst[a][k])
        BY <1>2, <3>1, <4>2, SourceKept DEF OnWay, GoesOn
      <4> QED
        BY <3>1, <4>2, <4>3, <4>4
    <3>4. \A a \in Block \ present' : dst'[a] = <<>>
      BY <1>7, <2>1, <3>2
    <3>5. cfg' = [a \in Block |-> Meant(a)']
      BY <1>2, <3>1, <3>2
    <3> QED
      BY <3>3, <3>4, <3>5 DEF WayInv
  <2>10. NamesInv'
    <3>1. ASSUME NEW c \in Block
          PROVE  /\ Len(phis'[c]) = IF c \in present' THEN source'.phis[c] ELSE 0
                 /\ \A k \in DOMAIN phis'[c] : \A p \in Block :
                      /\ p \in DOMAIN phis'[c][k] => IsEdge(source'.dst, p, c)
                      /\ IsEdge(source'.dst, p, c) /\ p \in present' \ ToSet(removeQueue') => p \in DOMAIN phis'[c][k]
      <4>1. CASE c = b
        BY <1>7, <2>2, <4>1, EmptySeq
      <4>2. CASE c # b
        <5>1. phis'[c] = phis[c] /\ (c \in present' <=> c \in present)
          BY <1>7, <2>2, <4>2
        <5>2. \A p : p \in present' \ ToSet(removeQueue') => p \in present \ ToSet(removeQueue)
          BY <1>3, <1>7
        <5> QED
          BY <1>2, <5>1, <5>2 DEF NamesInv
      <4> QED
        BY <4>1, <4>2
    <3> QED
      BY <3>1 DEF NamesInv
  <2>11. \A c, v : UsesOf(dst, phis, c, v) = 0 => UsesOf(dst', phis', c, v) = 0
    BY <2>4 DEF UsesWithout
  <2>12. UnusedInv'
    <3>1. \A c : FewPhis(c)' <=> FewPhis(c)
      BY <1>2, SourceKept
    <3>2. \A c \in ToSet(removeQueue') : FewPhis(c) => \A u : UsesOf(dst', phis', c, u) = 0
      BY <1>3, <1>7, <2>11 DEF UnusedInv
    <3>3. phase' # "users left"
      BY <1>2, <1>7
    <3> QED
      BY <3>1, <3>2, <3>3 DEF UnusedInv
  <2>13. ASSUME NEW c \in Block, c \notin present', NEW v PROVE UsesOf(dst', phis', c, v) = 0
    <3>1. CASE c \notin present
      BY <2>11, <3>1 DEF ExactInv, Exact
    <3>2. CASE c \in present
      <4>1. c = b
        BY <1>7, <2>13, <3>2
      <4>2. UsesOf(dst, phis, b, v) = 0
        BY <1>4, <1>7, TimesInNone DEF Listed
      <4> QED
        BY <2>11, <4>1, <4>2
    <3> QED
      BY <3>1, <3>2
  <2>14. ASSUME NEW c \in Block, c \in present', NEW v PROVE Listed(c, v, Times(users'[c], v), UsesOf(dst', phis', c, v))
    <3>1. Times(users'[c], v) = Times(users[c], v) - (IF v = Terminator(b, dst[b]) THEN Times(dst[b], c) ELSE 0)
                                  - (IF \E j \in 1..Len(phis[b]) : v = Phi(b, j) /\ c \in DOMAIN phis[b][j] THEN 1 ELSE 0)
      BY <2>3 DEF IsUnregistered
    <3>2. Listed(c, v, Times(users[c], v), UsesOf(dst, phis, c, v)) /\ Times(users[c], v) \in Nat
      <4>1. c \in present /\ users[c] \in Seq(AnyUser)
        BY <1>7, <2>14 DEF Shape
      <4>2. Times(users[c], v) \in Nat
        BY <4>1, TimesIsCounted
      <4> QED
        BY <4>1, <4>2 DEF ExactInv, Exact
    <3>3. UsesOf(dst', phis', c, v) =
            IF v = Terminator(b, dst[b]) \/ (\E k : v = Phi(b, k)) THEN 0 ELSE UsesOf(dst, phis, c, v)
      BY <2>4 DEF UsesWithout
    <3>4. CASE v = Terminator(b, dst[b])
      <4>1. UsesOf(dst, phis, c, Terminator(b, dst[b])) = Times(dst[b], c)
        BY <1>3, TerminatorUses
      <4>2. ~\E j \in 1..Len(phis[b]) : v = Phi(b, j) /\ c \in DOMAIN phis[b][j]
        BY <3>4, UserFacts
      <4>3. ~Twice(c, v)
        BY <3>4, UserFacts DEF Twice
      <4> QED
        BY <3>1, <3>2, <3>3, <3>4, <4>1, <4>2, <4>3 DEF Listed
    <3>5. ASSUME NEW k, v = Phi(b, k) PROVE Listed(c, v, Times(users'[c], v), UsesOf(dst', phis', c, v))
      <4>1. UsesOf(dst, phis, c, Phi(b, k)) = IF k \in DOMAIN phis[b] /\ c \in DOMAIN phis[b][k] THEN 1 ELSE 0
        BY <1>3, PhiUses
      <4>2. DOMAIN phis[b] = 1..Len(phis[b])
        BY <1>3 DEF Shape
      <4>3. (\E j \in 1..Len(phis[b]) : v = Phi(b, j) /\ c \in DOMAIN phis[b][j]) <=> k \in DOMAIN phis[b] /\ c \in DOMAIN phis[b][k]
        BY <3>5, <4>2, UserFacts
      <4>4. v # Terminator(b, dst[b])
        BY <3>5, UserFacts
      <4>5. ~Twice(c, v)
        BY <2>16, <3>5
      <4>6. Times(users[c], v) = UsesOf(dst, phis, c, v)
        BY <3>2, <4>5 DEF Listed
      <4>7. Times(users'[c], v) = 0
        BY <3>1, <3>2, <3>5, <4>1, <4>3, <4>4, <4>6
      <4> QED
        BY <3>3, <3>5, <4>5, <4>7 DEF Listed
    <3>6. CASE v # Terminator(b, dst[b]) /\ ~\E k : v = Phi(b, k)
      <4>1. ~\E j \in 1..Len(phis[b]) : v = Phi(b, j) /\ c \in DOMAIN phis[b][j]
        BY <3>6
      <4>2. Times(users'[c], v) = Times(users[c], v)
        BY <3>1, <3>2, <3>6, <4>1
      <4> QED
        BY <3>2, <3>3, <3>6, <4>2
    <3> QED
      BY <3>4, <3>5, <3>6
  <2>15. ExactInv'
    <3>1. Exact(dst', phis', users', present')
      BY <2>13, <2>14 DEF Exact
    <3> QED
      BY <1>2, <3>1, ExactNext
  <2> QED
    BY <2>5, <2>6, <2>8, <2>9, <2>10, <2>12, <2>15, <2>17
<1> QED
  BY <1>2, <1>6, <1>7

-----------------------------------------------------------------------------
(* The pruning of a block that is not reached.                             *)

(* The end of the list in use, and the places behind it.                   *)
IsErased(sl, new, z, u, S) ==
  /\ new \in Seq(S) /\ Len(new) = Len(sl)
  /\ z \in 1..Len(sl)
  /\ ToSet(new) \subseteq ToSet(sl)
  /\ new[Len(sl)] = sl[Len(sl)]
  /\ \A v : Times(SubSeq(new, 1, z - 1), v) = Times(SubSeq(sl, 1, z), v) - (IF v = u THEN 1 ELSE 0)

LEMMA SubSeqIs ==
  ASSUME NEW S, NEW s \in Seq(S), NEW m \in Nat, NEW n \in 0..Len(s), m >= 1
  PROVE  /\ SubSeq(s, m, n) \in Seq(S)
         /\ Len(SubSeq(s, m, n)) = IF m <= n THEN n - m + 1 ELSE 0
         /\ \A k \in 1..(n - m + 1) : SubSeq(s, m, n)[k] = s[m + k - 1]
         /\ ToSet(SubSeq(s, m, n)) \subseteq ToSet(s)
<1>1. Len(s) \in Nat /\ DOMAIN s = 1..Len(s) /\ \A k \in 1..Len(s) : s[k] \in S
  BY LenProperties, ElementOfSeq
<1>2. PICK l \in Nat : l = Len(s)
  BY <1>1
<1>3. \A k \in m..n : k \in 1..l
  BY <1>2
<1>4. SubSeq(s, m, n) \in Seq(S)
  BY <1>1, <1>2, <1>3
<1>5. Len(SubSeq(s, m, n)) = IF m <= n THEN n - m + 1 ELSE 0
  BY <1>2, <1>3
<1>6. ASSUME NEW k \in 1..(n - m + 1) PROVE SubSeq(s, m, n)[k] = s[m + k - 1]
  BY <1>2
<1>7. DOMAIN SubSeq(s, m, n) = 1..Len(SubSeq(s, m, n))
  BY <1>4, LenProperties
<1>8. ASSUME NEW x \in ToSet(SubSeq(s, m, n)) PROVE x \in ToSet(s)
  <2>1. PICK k \in 1..Len(SubSeq(s, m, n)) : x = SubSeq(s, m, n)[k]
    BY <1>7 DEF ToSet
  <2>2. k \in 1..(n - m + 1) /\ m + k - 1 \in 1..l
    BY <1>2, <1>5
  <2> QED
    BY <1>1, <1>2, <1>6, <2>1, <2>2 DEF ToSet
<1> QED
  BY <1>4, <1>5, <1>6, <1>8

LEMMA ErasedIs ==
  ASSUME NEW S, NEW sl \in Seq(S), NEW z \in 0..Len(sl), NEW u, Contains(SubSeq(sl, 1, z), u)
  PROVE  \E new : Erased([slots |-> sl, size |-> z], u) = [slots |-> new, size |-> z - 1] /\ IsErased(sl, new, z, u, S)
<1>1. PICK l \in Nat : l = Len(sl) /\ z \in 0..l
  BY LenProperties
<1>2. PICK used : used = SubSeq(sl, 1, z)
  OBVIOUS
<1>3. used \in Seq(S) /\ Len(used) = z /\ ToSet(used) \subseteq ToSet(sl)
  <2>1. /\ SubSeq(sl, 1, z) \in Seq(S)
        /\ Len(SubSeq(sl, 1, z)) = IF 1 <= z THEN z - 1 + 1 ELSE 0
        /\ ToSet(SubSeq(sl, 1, z)) \subseteq ToSet(sl)
    BY <1>1, SubSeqIs
  <2> QED
    BY <1>1, <1>2, <2>1
<1>4. PICK r : r = RemoveFirst(used, u)
  OBVIOUS
<1>5. /\ r \in Seq(S) /\ z >= 1 /\ Len(r) = z - 1
      /\ \A v : Times(r, v) = Times(used, v) - (IF v = u THEN 1 ELSE 0)
      /\ ToSet(r) \subseteq ToSet(sl)
  <2>1. Contains(used, u)
    BY <1>2
  <2>2. /\ RemoveFirst(used, u) \in Seq(S)
        /\ Len(used) \in Nat \ {0} /\ Len(RemoveFirst(used, u)) = Len(used) - 1
        /\ \A x : Times(RemoveFirst(used, u), x) = Times(used, x) - (IF x = u THEN 1 ELSE 0)
        /\ ToSet(RemoveFirst(used, u)) \subseteq ToSet(used)
    BY <1>3, <2>1, RemovedFirst
  <2> QED
    BY <1>1, <1>3, <1>4, <2>2
<1>6. PICK rest : rest = SubSeq(sl, z, l)
  OBVIOUS
<1>7. rest \in Seq(S) /\ Len(rest) = l - z + 1 /\ ToSet(rest) \subseteq ToSet(sl) /\ rest[l - z + 1] = sl[l]
  <2>1. /\ SubSeq(sl, z, l) \in Seq(S)
        /\ Len(SubSeq(sl, z, l)) = IF z <= l THEN l - z + 1 ELSE 0
        /\ \A k \in 1..(l - z + 1) : SubSeq(sl, z, l)[k] = sl[z + k - 1]
        /\ ToSet(SubSeq(sl, z, l)) \subseteq ToSet(sl)
    BY <1>1, <1>5, SubSeqIs
  <2>2. l - z + 1 \in 1..(l - z + 1) /\ z + (l - z + 1) - 1 = l
    BY <1>1, <1>5
  <2> QED
    BY <1>1, <1>6, <2>1, <2>2
<1>8. PICK new : new = r \o rest
  OBVIOUS
<1>9. /\ new \in Seq(S) /\ Len(new) = l /\ ToSet(new) \subseteq ToSet(sl)
      /\ \A k \in 1..(z-1) : new[k] = r[k]
      /\ new[l] = sl[l]
  <2>1. /\ r \o rest \in Seq(S)
        /\ Len(r \o rest) = Len(r) + Len(rest)
        /\ \A i \in 1..(Len(r) + Len(rest)) : (r \o rest)[i] = IF i <= Len(r) THEN r[i] ELSE rest[i - Len(r)]
    BY <1>5, <1>7, ConcatProperties
  <2>2. ToSet(new) = ToSet(r) \cup ToSet(rest)
    BY <1>5, <1>7, <1>8, ConcatenateTwo
  <2>3. Len(r) + Len(rest) = l /\ l \in 1..l /\ ~(l <= z - 1) /\ l - (z - 1) = l - z + 1 /\ \A k \in 1..(z-1) : k \in 1..l /\ k <= z - 1
    BY <1>1, <1>5, <1>7
  <2> QED
    BY <1>5, <1>7, <1>8, <2>1, <2>2, <2>3
<1>10. SubSeq(new, 1, z - 1) = r
  <2>1. z - 1 \in 0..Len(new) /\ z - 1 \in Nat /\ (z - 1) - 1 + 1 = z - 1
    BY <1>1, <1>5, <1>9
  <2>2. /\ SubSeq(new, 1, z - 1) \in Seq(S)
        /\ Len(SubSeq(new, 1, z - 1)) = IF 1 <= z - 1 THEN (z - 1) - 1 + 1 ELSE 0
        /\ \A k \in 1..((z - 1) - 1 + 1) : SubSeq(new, 1, z - 1)[k] = new[1 + k - 1]
    BY <1>9, <2>1, SubSeqIs
  <2>3. Len(SubSeq(new, 1, z - 1)) = z - 1
    BY <1>1, <1>5, <2>2
  <2>4. \A k \in 1..(z-1) : SubSeq(new, 1, z - 1)[k] = r[k]
    <3> TAKE k \in 1..(z-1)
    <3>1. 1 + k - 1 = k
      BY <1>1
    <3> QED
      BY <1>9, <2>1, <2>2, <3>1
  <2> QED
    BY <1>5, <2>2, <2>3, <2>4, SeqEqual
<1>11. Erased([slots |-> sl, size |-> z], u) = [slots |-> new, size |-> z - 1]
  <2>1. Contains(used, u)
    BY <1>2
  <2> QED
    BY <1>1, <1>2, <1>4, <1>6, <1>8, <2>1 DEF Erased
<1>12. IsErased(sl, new, z, u, S)
  <2>1. z \in 1..l
    BY <1>1, <1>5
  <2> QED
    BY <1>1, <1>2, <1>5, <1>9, <1>10, <2>1 DEF IsErased
<1> QED
  BY <1>11, <1>12
-----------------------------------------------------------------------------
(* One name less in one phi.                                               *)
IsUnnamed(p2, p, a, k, b) ==
  /\ p2 \in [Block -> Seq(Maps)]
  /\ \A c \in Block : Len(p2[c]) = Len(p[c]) /\ DOMAIN p2[c] = DOMAIN p[c]
  /\ \A c \in Block : \A l \in DOMAIN p[c] :
       DOMAIN p2[c][l] = DOMAIN p[c][l] \ (IF c = a /\ l = k THEN {b} ELSE {})

LEMMA Unnamed ==
  ASSUME NEW p \in [Block -> Seq(Maps)], NEW a \in Block, NEW k \in DOMAIN p[a], NEW b
  PROVE  IsUnnamed([p EXCEPT ![a][k] = Restrict(@, DOMAIN @ \ {b})], p, a, k, b)
<1>1. PICK m : m = p[a][k]
  OBVIOUS
<1>2. PICK s \in Seq(Maps) : s = p[a]
  OBVIOUS
<1>3. m \in Maps /\ DOMAIN s = 1..Len(s) /\ Len(s) \in Nat /\ k \in DOMAIN s /\ s[k] = m
  BY <1>1, <1>2, ElementOfSeq, LenProperties
<1>4. PICK r : r = Restrict(m, DOMAIN m \ {b})
  OBVIOUS
<1>5. r \in Maps /\ DOMAIN r = DOMAIN m \ {b}
  <2>1. PICK D \in SUBSET Block : m = [q \in D |-> q]
    BY <1>3 DEF Maps
  <2>2. r = [q \in D \ {b} |-> q] /\ DOMAIN m = D
    BY <1>4, <2>1 DEF Restrict
  <2>3. D \ {b} \in SUBSET Block
    OBVIOUS
  <2> QED
    BY <2>2, <2>3 DEF Maps
<1>6. PICK t : t = [s EXCEPT ![k] = r]
  OBVIOUS
<1>7. t \in Seq(Maps) /\ Len(t) = Len(s) /\ DOMAIN t = DOMAIN s /\ \A l \in DOMAIN s : t[l] = IF l = k THEN r ELSE s[l]
  <2>1. k \in 1..Len(s)
    BY <1>3
  <2>2. /\ [s EXCEPT ![k] = r] \in Seq(Maps)
        /\ Len([s EXCEPT ![k] = r]) = Len(s)
        /\ \A j \in 1..Len(s) : [s EXCEPT ![k] = r][j] = IF j = k THEN r ELSE s[j]
    BY <1>5, <2>1, ExceptSeq
  <2>3. DOMAIN t = DOMAIN s
    BY <1>6
  <2> QED
    BY <1>3, <1>6, <2>2, <2>3
<1>8. PICK p2 : p2 = [p EXCEPT ![a] = t]
  OBVIOUS
<1>9. [p EXCEPT ![a][k] = Restrict(@, DOMAIN @ \ {b})] = p2
  BY <1>1, <1>2, <1>4, <1>6, <1>8
<1>10. p2 \in [Block -> Seq(Maps)] /\ p2[a] = t /\ \A c \in Block \ {a} : p2[c] = p[c]
  BY <1>7, <1>8
<1>11. ASSUME NEW c \in Block
       PROVE  /\ Len(p2[c]) = Len(p[c]) /\ DOMAIN p2[c] = DOMAIN p[c]
              /\ \A l \in DOMAIN p[c] : DOMAIN p2[c][l] = DOMAIN p[c][l] \ (IF c = a /\ l = k THEN {b} ELSE {})
  <2>1. CASE c # a
    BY <1>10, <2>1
  <2>2. CASE c = a
    <3>1. p2[c] = t /\ p[c] = s
      BY <1>2, <1>10, <2>2
    <3>2. \A l \in DOMAIN s : DOMAIN t[l] = DOMAIN s[l] \ (IF l = k THEN {b} ELSE {})
      BY <1>3, <1>5, <1>7
    <3> QED
      BY <1>7, <2>2, <3>1, <3>2
  <2> QED
    BY <2>1, <2>2
<1> QED
  BY <1>9, <1>10, <1>11 DEF IsUnnamed

LEMMA UnnamedUses ==
  ASSUME NEW d, NEW p, NEW p2, NEW a \in Block, NEW k \in DOMAIN p[a], NEW b, IsUnnamed(p2, p, a, k, b), NEW x, NEW v
  PROVE  UsesOf(d, p2, x, v) = IF x = b /\ v = Phi(a, k) THEN 0 ELSE UsesOf(d, p, x, v)
<1>1. ASSUME NEW c \in Block, v = Terminator(c, d[c])
      PROVE  UsesOf(d, p2, x, v) = UsesOf(d, p, x, v) /\ v # Phi(a, k)
  <2>1. UsesOf(d, p, x, Terminator(c, d[c])) = Times(d[c], x) /\ UsesOf(d, p2, x, Terminator(c, d[c])) = Times(d[c], x)
    BY TerminatorUses
  <2> QED
    BY <1>1, <2>1, UserFacts
<1>2. ASSUME NEW c \in Block, NEW l \in DOMAIN p[c], v = Phi(c, l)
      PROVE  UsesOf(d, p2, x, v) = IF x = b /\ v = Phi(a, k) THEN 0 ELSE UsesOf(d, p, x, v)
  <2>1. UsesOf(d, p, x, Phi(c, l)) = IF l \in DOMAIN p[c] /\ x \in DOMAIN p[c][l] THEN 1 ELSE 0
    BY PhiUses
  <2>2. UsesOf(d, p2, x, Phi(c, l)) = IF l \in DOMAIN p2[c] /\ x \in DOMAIN p2[c][l] THEN 1 ELSE 0
    BY PhiUses
  <2>3. v = Phi(a, k) <=> c = a /\ l = k
    BY <1>2, UserFacts
  <2>4. l \in DOMAIN p2[c] /\ DOMAIN p2[c][l] = DOMAIN p[c][l] \ (IF c = a /\ l = k THEN {b} ELSE {})
    BY DEF IsUnnamed
  <2>5. CASE c = a /\ l = k
    BY <1>2, <2>1, <2>2, <2>3, <2>4, <2>5
  <2>6. CASE ~(c = a /\ l = k)
    BY <1>2, <2>1, <2>2, <2>3, <2>4, <2>6
  <2> QED
    BY <2>5, <2>6
<1>3. ASSUME NoUser(d, p, v) PROVE UsesOf(d, p2, x, v) = 0 /\ UsesOf(d, p, x, v) = 0
  <2>1. NoUser(d, p2, v)
    BY <1>3 DEF NoUser, IsUnnamed
  <2> QED
    BY <1>3, <2>1, OtherUses
<1>4. UserKinds(d, p, v)
  BY UserKindsAre
<1>5. CASE \E c \in Block : v = Terminator(c, d[c])
  BY <1>1, <1>5
<1>6. CASE \E c \in Block : \E l \in DOMAIN p[c] : v = Phi(c, l)
  <2>1. PICK c \in Block : \E l \in DOMAIN p[c] : v = Phi(c, l)
    BY <1>6
  <2>2. PICK l \in DOMAIN p[c] : v = Phi(c, l)
    BY <2>1
  <2> QED
    BY <1>2, <2>2
<1>7. CASE NoUser(d, p, v)
  BY <1>3, <1>7
<1> QED
  BY <1>4, <1>5, <1>6, <1>7 DEF UserKinds

(* What a turn of the loop that prunes an unreached block leaves.          *)
State(d, p, us, sl, z) == [dst |-> d, phis |-> p, users |-> us, list |-> [slots |-> sl, size |-> z]]

Pruning(b, p, sl, z, i) ==
  /\ p \in [Block -> Seq(Maps)]
  /\ \A c \in Block : Len(p[c]) = Len(phis[c]) /\ DOMAIN p[c] = DOMAIN phis[c]
  /\ \A c \in Block : \A k \in DOMAIN phis[c] :
       DOMAIN p[c][k] \subseteq DOMAIN phis[c][k] /\ DOMAIN phis[c][k] \ {b} \subseteq DOMAIN p[c][k]
  /\ sl \in Seq(AnyUser) /\ Len(sl) = Len(users[b]) /\ z \in 0..Len(sl)
  /\ ToSet(sl) \subseteq ToSet(users[b])
  /\ i = 0 => sl = users[b]
  /\ sl[Len(sl)] = users[b][Len(sl)]
  /\ \A u : Listed(b, u, Times(SubSeq(sl, 1, z), u), UsesOf(dst, p, b, u))
  /\ \A j \in 1..i : (j = 1 \/ j = Len(sl)) /\ IsPhi(users[b][j]) => UsesOf(dst, p, b, users[b][j]) = 0

(* What it does with a phi. *)
IsPruned(P, b, d, p, us, sl, z, a, k) ==
  \A e, q : Erased([slots |-> sl, size |-> z], Phi(a, k)) = e /\ [p EXCEPT ![a][k] = Restrict(@, DOMAIN @ \ {b})] = q =>
    /\ b \in DOMAIN p[a][k] => P = [dst |-> d, phis |-> q, users |-> us, list |-> e]
    /\ b \notin DOMAIN p[a][k] => P = State(d, p, us, sl, z)

LEMMA PrunedState ==
  ASSUME NEW b, NEW d, NEW p, NEW us, NEW sl, NEW z, NEW i, NEW a, NEW k, sl[i] = Phi(a, k)
  PROVE  IsPruned(Pruned(b, State(d, p, us, sl, z), i), b, d, p, us, sl, z, a, k)
<1> SUFFICES ASSUME NEW e, Erased([slots |-> sl, size |-> z], Phi(a, k)) = e,
                    NEW q, [p EXCEPT ![a][k] = Restrict(@, DOMAIN @ \ {b})] = q
    PROVE  /\ b \in DOMAIN p[a][k] =>
                Pruned(b, State(d, p, us, sl, z), i) = [dst |-> d, phis |-> q, users |-> us, list |-> e]
           /\ b \notin DOMAIN p[a][k] => Pruned(b, State(d, p, us, sl, z), i) = State(d, p, us, sl, z)
  BY Zenon DEF IsPruned
<1>1. PICK s : s = State(d, p, us, sl, z)
  OBVIOUS
<1>2. s.list = [slots |-> sl, size |-> z] /\ s.phis = p /\ s.dst = d /\ s.users = us /\ s.list.slots = sl
  BY <1>1 DEF State
<1>3. IsPhi(Phi(a, k)) /\ Phi(a, k)[2] = a /\ Phi(a, k)[3] = k
  BY UserFacts
<1>4. CASE b \in DOMAIN p[a][k]
  <2>1. Pruned(b, s, i) = [s EXCEPT !.phis[a][k] = Restrict(@, DOMAIN @ \ {b}), !.list = e]
    BY <1>2, <1>3, <1>4, Zenon DEF Pruned
  <2>3. [s EXCEPT !.phis[a][k] = Restrict(@, DOMAIN @ \ {b}), !.list = e] = [s EXCEPT !.phis = q, !.list = e]
    BY <1>2
  <2>4. [s EXCEPT !.phis = q, !.list = e] = [dst |-> d, phis |-> q, users |-> us, list |-> e]
    <3>1. PICK l : l = [slots |-> sl, size |-> z]
      OBVIOUS
    <3>2. s = [dst |-> d, phis |-> p, users |-> us, list |-> l]
      BY <1>1, <3>1 DEF State
    <3>3. PICK t : t = [s EXCEPT !.phis = q]
      OBVIOUS
    <3>4. t = [dst |-> d, phis |-> q, users |-> us, list |-> l]
      BY <3>2, <3>3
    <3>5. [t EXCEPT !.list = e] = [dst |-> d, phis |-> q, users |-> us, list |-> e]
      BY <3>4
    <3>6. [s EXCEPT !.phis = q, !.list = e] = [t EXCEPT !.list = e]
      BY <3>3
    <3> QED
      BY <3>5, <3>6
  <2> QED
    BY <1>1, <1>4, <2>1, <2>3, <2>4
<1>5. CASE b \notin DOMAIN p[a][k]
  BY <1>1, <1>2, <1>3, <1>5, Zenon DEF Pruned
<1> QED
  BY <1>4, <1>5

LEMMA PrunedOther ==
  ASSUME NEW b, NEW d, NEW p, NEW us, NEW sl, NEW z, NEW i, ~IsPhi(sl[i])
  PROVE  Pruned(b, State(d, p, us, sl, z), i) = State(d, p, us, sl, z)
<1>1. State(d, p, us, sl, z).list.slots = sl
  BY DEF State
<1> QED
  BY <1>1, Zenon DEF Pruned

(* What is on a list is a terminator or a phi that is still there.         *)
Known(b, u) == ~Twice(b, u) \/ \E a \in Block : \E k \in DOMAIN phis[a] : u = Phi(a, k)

LEMMA PruningTurn ==
  ASSUME Shape, NEW b \in Block, \A u : Listed(b, u, Times(users[b], u), UsesOf(dst, phis, b, u)), \A u : Known(b, u),
         NEW i \in 1..Len(users[b]), NEW p, NEW sl, NEW z, Pruning(b, p, sl, z, i - 1)
  PROVE  \E p2, sl2, z2 : /\ Pruned(b, State(dst, p, users, sl, z), i) = State(dst, p2, users, sl2, z2)
                          /\ Pruning(b, p2, sl2, z2, i)
<1>1. PICK n \in Nat : n = Len(users[b]) /\ n = Len(sl) /\ i \in 1..n /\ DOMAIN users[b] = 1..n /\ DOMAIN sl = 1..n
  <2>1. users[b] \in Seq(AnyUser) /\ sl \in Seq(AnyUser) /\ Len(sl) = Len(users[b])
    BY DEF Shape, Pruning
  <2> QED
    BY <2>1, LenProperties
<1>2. PICK u : u = sl[i]
  OBVIOUS
<1>3. u \in ToSet(users[b]) /\ (UsesOf(dst, phis, b, u) # 0 \/ Twice(b, u))
  <2>1. u \in ToSet(sl)
    BY <1>1, <1>2 DEF ToSet
  <2>2. u \in ToSet(users[b])
    BY <2>1 DEF Pruning
  <2>3. users[b] \in Seq(AnyUser)
    BY DEF Shape
  <2>4. Times(users[b], u) # 0
    BY <2>2, <2>3, TimesIsCounted
  <2> QED
    BY <2>2, <2>4 DEF Listed
<1>4. (i = 1 => users[b][i] = u) /\ (i = n => users[b][i] = u)
  BY <1>1, <1>2 DEF Pruning
<1>5. \A j \in 1..i : j \in 1..(i-1) \/ j = i
  BY <1>1
<1>6. ASSUME NEW q, \A v : UsesOf(dst, p, b, v) = 0 => UsesOf(dst, q, b, v) = 0, IsPhi(u) => UsesOf(dst, q, b, u) = 0
      PROVE  \A j \in 1..i : (j = 1 \/ j = n) /\ IsPhi(users[b][j]) => UsesOf(dst, q, b, users[b][j]) = 0
  <2>1. \A j \in 1..(i-1) : (j = 1 \/ j = n) /\ IsPhi(users[b][j]) => UsesOf(dst, p, b, users[b][j]) = 0
    BY <1>1 DEF Pruning
  <2> QED
    BY <1>4, <1>5, <1>6, <2>1
<1>7. CASE ~IsPhi(u)
  <2>1. Pruned(b, State(dst, p, users, sl, z), i) = State(dst, p, users, sl, z)
    BY <1>2, <1>7, PrunedOther
  <2>2. \A j \in 1..i : (j = 1 \/ j = n) /\ IsPhi(users[b][j]) => UsesOf(dst, p, b, users[b][j]) = 0
    BY <1>6, <1>7
  <2>3. Pruning(b, p, sl, z, i)
    BY <1>1, <2>2, SMTT(20) DEF Pruning
  <2> QED
    BY <2>1, <2>3
<1>8. CASE IsPhi(u)
  <2>1. PICK a \in Block : \E k \in DOMAIN phis[a] : u = Phi(a, k)
    <3>1. CASE Twice(b, u)
      BY <3>1 DEF Known
    <3>2. CASE UsesOf(dst, phis, b, u) # 0
      <4>1. \/ \E c \in Block : u = Terminator(c, dst[c])
            \/ \E c \in Block : \E k \in DOMAIN phis[c] : u = Phi(c, k)
        BY <3>2, UsesOfSome DEF Shape
      <4>2. \A c \in Block : u # Terminator(c, dst[c])
        BY <1>8, UserFacts
      <4> QED
        BY <4>1, <4>2
    <3> QED
      BY <1>3, <3>1, <3>2
  <2>2. PICK k \in DOMAIN phis[a] : u = Phi(a, k)
    BY <2>1
  <2>3. k \in DOMAIN p[a] /\ p \in [Block -> Seq(Maps)]
    BY DEF Pruning
  <2>4. UsesOf(dst, p, b, Phi(a, k)) = IF k \in DOMAIN p[a] /\ b \in DOMAIN p[a][k] THEN 1 ELSE 0
    BY PhiUses
  <2>5. PICK e : e = Erased([slots |-> sl, size |-> z], Phi(a, k))
    OBVIOUS
  <2>6. PICK q : q = [p EXCEPT ![a][k] = Restrict(@, DOMAIN @ \ {b})]
    OBVIOUS
  <2>7. IsPruned(Pruned(b, State(dst, p, users, sl, z), i), b, dst, p, users, sl, z, a, k)
    BY <1>2, <2>2, PrunedState
  <2>8. CASE b \notin DOMAIN p[a][k]
    <3>1. UsesOf(dst, p, b, u) = 0
      BY <2>2, <2>4, <2>8
    <3>2. \A j \in 1..i : (j = 1 \/ j = n) /\ IsPhi(users[b][j]) => UsesOf(dst, p, b, users[b][j]) = 0
      BY <1>6, <3>1
    <3>3. Pruning(b, p, sl, z, i)
      BY <1>1, <3>2 DEF Pruning
    <3>4. Pruned(b, State(dst, p, users, sl, z), i) = State(dst, p, users, sl, z)
      BY <2>5, <2>6, <2>8, <2>7, Zenon DEF IsPruned
    <3> QED
      BY <3>3, <3>4
  <2>9. CASE b \in DOMAIN p[a][k]
    <3>1. Pruned(b, State(dst, p, users, sl, z), i) = [dst |-> dst, phis |-> q, users |-> users, list |-> e]
      BY <2>5, <2>6, <2>9, <2>7, Zenon DEF IsPruned
    <3>2. IsUnnamed(q, p, a, k, b)
      BY <2>3, <2>6, Unnamed
    <3>3. \A x, v : UsesOf(dst, q, x, v) = IF x = b /\ v = Phi(a, k) THEN 0 ELSE UsesOf(dst, p, x, v)
      BY <2>3, <3>2, UnnamedUses
    <3>4. PICK used : used = SubSeq(sl, 1, z)
      OBVIOUS
    <3>5. \A v : Listed(b, v, Times(used, v), UsesOf(dst, p, b, v))
      BY <3>4 DEF Pruning
    <3>6. sl \in Seq(AnyUser) /\ z \in 0..Len(sl)
      BY DEF Pruning
    <3>7. Contains(used, Phi(a, k))
      <4>1. Times(used, Phi(a, k)) # 0
        BY <2>3, <2>4, <2>9, <3>5 DEF Listed
      <4>2. used \in Seq(AnyUser)
        BY <3>4, <3>6, SubSeqIs
      <4>3. PICK x : x = Phi(a, k)
        OBVIOUS
      <4>4. Times(used, x) = 0 <=> ~Contains(used, x)
        BY <4>2, TimesIsCounted
      <4> QED
        BY <4>1, <4>3, <4>4
    <3>8. PICK new : e = [slots |-> new, size |-> z - 1] /\ IsErased(sl, new, z, Phi(a, k), AnyUser)
      BY <2>5, <3>4, <3>6, <3>7, ErasedIs
    <3>9. Pruned(b, State(dst, p, users, sl, z), i) = State(dst, q, users, new, z - 1)
      BY <3>1, <3>8 DEF State
    <3>10. \A v : UsesOf(dst, p, b, v) = 0 => UsesOf(dst, q, b, v) = 0
      BY <3>3
    <3>11. UsesOf(dst, q, b, u) = 0
      BY <2>2, <3>3
    <3>12. \A j \in 1..i : (j = 1 \/ j = n) /\ IsPhi(users[b][j]) => UsesOf(dst, q, b, users[b][j]) = 0
      BY <1>6, <3>10, <3>11
    <3>13. \A v : Listed(b, v, Times(SubSeq(new, 1, z - 1), v), UsesOf(dst, q, b, v))
      <4> TAKE v
      <4>1. Times(SubSeq(new, 1, z - 1), v) = Times(used, v) - (IF v = Phi(a, k) THEN 1 ELSE 0)
        BY <3>4, <3>8 DEF IsErased
      <4>2. UsesOf(dst, p, b, v) \in Nat /\ UsesOf(dst, p, b, Phi(a, k)) = 1
        BY <2>3, <2>4, <2>9, UsesOfSome DEF Shape
      <4>3. Listed(b, v, Times(used, v), UsesOf(dst, p, b, v))
        BY <3>5
      <4>4. UsesOf(dst, q, b, v) = IF v = Phi(a, k) THEN 0 ELSE UsesOf(dst, p, b, v)
        BY <3>3
      <4>6. used \in Seq(AnyUser)
        BY <3>4, <3>6, SubSeqIs
      <4>7. Times(used, v) \in Nat
        BY <4>6, TimesIsCounted
      <4>8. CASE v = Phi(a, k)
        BY <4>1, <4>2, <4>3, <4>4, <4>8 DEF Listed
      <4>9. CASE v # Phi(a, k)
        <5>1. Times(SubSeq(new, 1, z - 1), v) = Times(used, v)
          BY <4>1, <4>7, <4>9
        <5> QED
          BY <4>3, <4>4, <4>9, <5>1
      <4> QED
        BY <4>8, <4>9
    <3>14. /\ q \in [Block -> Seq(Maps)]
           /\ \A c \in Block : Len(q[c]) = Len(phis[c]) /\ DOMAIN q[c] = DOMAIN phis[c]
           /\ \A c \in Block : \A l \in DOMAIN phis[c] :
                DOMAIN q[c][l] \subseteq DOMAIN phis[c][l] /\ DOMAIN phis[c][l] \ {b} \subseteq DOMAIN q[c][l]
      <4>1. \A c \in Block : Len(p[c]) = Len(phis[c]) /\ DOMAIN p[c] = DOMAIN phis[c]
        BY DEF Pruning
      <4>2. \A c \in Block : \A l \in DOMAIN phis[c] :
              DOMAIN p[c][l] \subseteq DOMAIN phis[c][l] /\ DOMAIN phis[c][l] \ {b} \subseteq DOMAIN p[c][l]
        BY DEF Pruning
      <4>3. \A c \in Block : \A l \in DOMAIN p[c] : DOMAIN q[c][l] \subseteq DOMAIN p[c][l] /\ DOMAIN p[c][l] \ {b} \subseteq DOMAIN q[c][l]
        BY <3>2 DEF IsUnnamed
      <4> QED
        BY <3>2, <4>1, <4>2, <4>3 DEF IsUnnamed
    <3>15. /\ new \in Seq(AnyUser) /\ Len(new) = n /\ z - 1 \in 0..n
           /\ ToSet(new) \subseteq ToSet(users[b])
           /\ new[n] = users[b][n]
      <4>1. ToSet(sl) \subseteq ToSet(users[b]) /\ sl[n] = users[b][n]
        BY <1>1 DEF Pruning
      <4> QED
        BY <1>1, <3>8, <4>1 DEF IsErased
    <3>16. Pruning(b, q, new, z - 1, i)
      BY <1>1, <3>12, <3>13, <3>14, <3>15 DEF Pruning
    <3> QED
      BY <3>9, <3>16
  <2> QED
    BY <2>8, <2>9
<1> QED
  BY <1>7, <1>8

(* What the loop over the users of an unreached block leaves.              *)
LEMMA PruningEnds ==
  ASSUME Shape, NEW b \in Block, \A u : Listed(b, u, Times(users[b], u), UsesOf(dst, phis, b, u)), \A u : Known(b, u)
  PROVE  \E p, sl, z : /\ OverUsers(LAMBDA s, i : Pruned(b, s, i), b) = State(dst, p, users, sl, z)
                       /\ Pruning(b, p, sl, z, Len(users[b]))
<1>1. PICK n \in Nat : n = Len(users[b]) /\ users[b] \in Seq(AnyUser)
  <2>1. users[b] \in Seq(AnyUser)
    BY DEF Shape
  <2> QED
    BY <2>1, LenProperties
<1>2. PICK f : /\ f[0] = LoopStart(b)
               /\ \A i \in 1..n : f[i] = Pruned(b, f[i-1], i)
               /\ OverUsers(LAMBDA s, i : Pruned(b, s, i), b) = f[n]
  BY <1>1, PruningIs
<1> DEFINE Good(m) == \E p, sl, z : f[m] = State(dst, p, users, sl, z) /\ Pruning(b, p, sl, z, m)
           G == {m \in 0..n : Good(m)}
<1>3. 0 \in G
  <2>1. PICK sl \in Seq(AnyUser) : sl = users[b]
    BY <1>1
  <2>2. f[0] = State(dst, phis, users, sl, n)
    BY <1>1, <1>2, <2>1 DEF LoopStart, State
  <2>3. SubSeq(sl, 1, n) = sl
    <3>1. n = Len(sl) /\ n \in 0..Len(sl)
      BY <1>1, <2>1
    <3>2. /\ SubSeq(sl, 1, n) \in Seq(AnyUser)
          /\ Len(SubSeq(sl, 1, n)) = IF 1 <= n THEN n - 1 + 1 ELSE 0
          /\ \A k \in 1..(n - 1 + 1) : SubSeq(sl, 1, n)[k] = sl[1 + k - 1]
      BY <3>1, SubSeqIs
    <3>3. Len(SubSeq(sl, 1, n)) = n
      BY <1>1, <3>2
    <3>4. \A k \in 1..n : SubSeq(sl, 1, n)[k] = sl[k]
      <4> TAKE k \in 1..n
      <4>1. k \in 1..(n - 1 + 1) /\ 1 + k - 1 = k
        BY <1>1
      <4> QED
        BY <3>2, <4>1
    <3> QED
      BY <3>1, <3>2, <3>3, <3>4, SeqEqual
  <2>4. \A u : Listed(b, u, Times(SubSeq(sl, 1, n), u), UsesOf(dst, phis, b, u))
    BY <2>1, <2>3
  <2>5. Pruning(b, phis, sl, n, 0)
    BY <1>1, <2>1, <2>4 DEF Pruning, Shape
  <2>6. Good(0)
    BY <2>2, <2>5
  <2> QED
    BY <2>6
<1>4. ASSUME NEW m \in 0..(n-1), m \in G PROVE m + 1 \in G
  <2>1. m + 1 \in 1..Len(users[b]) /\ m + 1 \in 1..n /\ (m + 1) - 1 = m /\ m + 1 \in 0..n
    BY <1>1
  <2>2. PICK p, sl, z : f[m] = State(dst, p, users, sl, z) /\ Pruning(b, p, sl, z, m)
    BY <1>4
  <2>3. Pruning(b, p, sl, z, (m + 1) - 1)
    BY <2>1, <2>2
  <2>4. PICK p2, sl2, z2 : /\ Pruned(b, State(dst, p, users, sl, z), m + 1) = State(dst, p2, users, sl2, z2)
                           /\ Pruning(b, p2, sl2, z2, m + 1)
    BY <2>1, <2>3, PruningTurn
  <2>5. f[m+1] = State(dst, p2, users, sl2, z2)
    BY <1>2, <2>1, <2>2, <2>4
  <2>6. Good(m + 1)
    BY <2>4, <2>5
  <2> HIDE DEF Good
  <2> QED
    BY <2>1, <2>6
<1>5. 0..n \subseteq G
  <2> HIDE DEF G
  <2> QED
    BY <1>3, <1>4, IntervalInduction
<1>6. Good(n)
  BY <1>5
<1> QED
  BY <1>1, <1>2, <1>6

(* Nothing goes to a block that the analysis found no predecessor of.      *)
LEMMA NoPredsNoWay ==
  ASSUME Invs, phase # "evaluate", NEW b \in Block, HasNoPreds(b), NEW a \in Block
  PROVE  b \notin ToSet(dst[a])
<1> USE DEF Invs, CleanInv
<1>1. cfg = [c \in Block |-> Meant(c)] /\ cfg \in CfgGraph
  <2>1. cfg = [c \in Block |-> Meant(c)]
    BY DEF WayInv
  <2>2. \A c \in Block : Meant(c) \in Terminators
    BY MeantIs
  <2> QED
    BY <2>1, <2>2 DEF CfgGraph
<1>2. \A c \in Block : b \notin ToSet(Meant(c))
  <2>1. ToSet(Preds(cfg, b)) = {c \in Block : b \in ToSet(cfg[c])}
    BY <1>1, PredsAreSources
  <2>2. ToSet(Preds(cfg, b)) = {}
    BY TimesInNone DEF HasNoPreds
  <2> QED
    BY <1>1, <2>1, <2>2
<1>3. dst[a] \in Seq(Block) /\ DOMAIN dst[a] = 1..Len(dst[a]) /\ \A k \in DOMAIN dst[a] : dst[a][k] \in Block
  <2>1. dst[a] \in Seq(Block)
    BY DestinationsAreBlocks DEF Shape
  <2> QED
    BY <2>1, LenProperties, ElementOfSeq
<1> SUFFICES ASSUME b \in ToSet(dst[a]) PROVE FALSE
  OBVIOUS
<1>4. PICK k \in 1..Len(dst[a]) : dst[a][k] = b
  BY <1>3 DEF ToSet
<1>5. a \in present
  <2> SUFFICES ASSUME a \notin present PROVE FALSE
    OBVIOUS
  <2>1. dst[a] = <<>>
    BY DEF WayInv
  <2> QED
    BY <2>1, TimesInNone
<1>6. Len(dst[a]) = Len(Meant(a)) /\ OnWay(Meant(a)[k], b)
  BY <1>4, <1>5 DEF WayInv
<1>7. Meant(a)[k] \in ToSet(Meant(a)) /\ Meant(a)[k] \in Block
  <2>1. cfg[a] = Meant(a)
    BY <1>1
  <2>2. Meant(a) \in Seq(Block)
    BY <1>1, <2>1, DestinationsAreBlocks
  <2> QED
    BY <1>4, <1>6, <2>2, LenProperties, ElementOfSeq DEF ToSet
<1>8. CASE Meant(a)[k] = b
  BY <1>2, <1>7, <1>8
<1>9. CASE \E c \in Block : Passed(c) /\ Meant(c)[1] = b
  <2>1. PICK c \in Block : Passed(c) /\ Meant(c)[1] = b
    BY <1>9
  <2>2. Meant(c) = <<b>>
    BY <2>1, PassedIs
  <2>3. b \in ToSet(Meant(c))
    BY <2>2 DEF ToSet
  <2> QED
    BY <1>2, <2>3
<1> QED
  BY <1>6, <1>7, <1>8, <1>9, OnWayFacts

(* Phis that are on a list twice are phis of a block that is there.        *)
LEMMA AllKnown ==
  ASSUME Invs, NEW b \in Block, NEW u
  PROVE  Known(b, u)
<1> USE DEF Invs, CleanInv
<1> SUFFICES ASSUME Twice(b, u) PROVE \E a \in Block : \E k \in DOMAIN phis[a] : u = Phi(a, k)
  BY DEF Known
<1>1. PICK a \in Block : \E k \in 1..source.phis[a] : u = Phi(a, k) /\ Times(source.dst[b], a) = 2
  BY DEF Twice
<1>2. PICK k \in 1..source.phis[a] : u = Phi(a, k) /\ Times(source.dst[b], a) = 2
  BY <1>1
<1>3. source.phis[a] # 0
  BY <1>2
<1>4. a \in present
  BY <1>2, <1>3 DEF TwiceInv
<1>5. phis[a] \in Seq(Maps) /\ Len(phis[a]) = source.phis[a]
  BY <1>4 DEF NamesInv, Shape
<1>6. DOMAIN phis[a] = 1..source.phis[a]
  BY <1>5, LenProperties
<1> QED
  BY <1>2, <1>6

(* A block that phis are on both sides of has a predecessor less never.    *)
LEMMA TwiceHasPreds ==
  ASSUME Invs, phase # "evaluate", NEW c \in Block, NEW a \in Block, Times(source.dst[c], a) = 2
  PROVE  ~HasNoPreds(a)
<1> USE DEF Invs, CleanInv
<1>1. cfg = [b \in Block |-> Meant(b)] /\ cfg \in CfgGraph
  <2>1. cfg = [b \in Block |-> Meant(b)]
    BY DEF WayInv
  <2>2. \A b \in Block : Meant(b) \in Terminators
    BY MeantIs
  <2> QED
    BY <2>1, <2>2 DEF CfgGraph
<1>2. PICK d \in Seq(Block) : d = source.dst[c] /\ Len(d) \in 0..2
  <2>1. source.dst \in CfgGraph
    BY SourcesAssumption
  <2> QED
    BY <2>1, DestinationsAreBlocks
<1>3. Len(d) = 2 /\ d[1] = a /\ d[2] = a
  <2>1. Len(d) = 0 => d = <<>>
    BY EmptySeq
  <2>2. Len(d) # 0
    BY <1>2, <2>1, TimesInNone
  <2>3. /\ Len(d) = 1 => Times(d, a) = IF d[1] = a THEN 1 ELSE 0
        /\ Len(d) = 2 => Times(d, a) = (IF d[1] = a THEN 1 ELSE 0) + (IF d[2] = a THEN 1 ELSE 0)
    BY TimesInFew
  <2> QED
    BY <1>2, <2>2, <2>3
<1>4. a \in ToSet(Meant(c))
  <2>1. CASE Meant(c) = d
    BY <1>3, <2>1, LenProperties DEF ToSet
  <2>2. CASE Meant(c) # d
    <3>1. PICK x \in Block : Meant(c) = <<x>> /\ x \in ToSet(d)
      BY <1>2, <2>2, MeantIs
    <3>2. x = a
      BY <1>3, <3>1, LenProperties DEF ToSet
    <3> QED
      BY <3>1, <3>2 DEF ToSet
  <2> QED
    BY <2>1, <2>2
<1>5. ToSet(Preds(cfg, a)) = {b \in Block : a \in ToSet(cfg[b])}
  BY <1>1, PredsAreSources
<1>6. c \in ToSet(Preds(cfg, a))
  BY <1>1, <1>4, <1>5
<1> QED
  BY <1>6, TimesInNone DEF HasNoPreds

(* At most two phis name a block that is pruned.                           *)
LEMMA FewUsers ==
  ASSUME Invs, phase # "evaluate", NEW b \in present, FewPhis(b), HasNoPreds(b)
  PROVE  /\ Len(users[b]) \in 0..2
         /\ \A j \in 1..Len(users[b]) : IsPhi(users[b][j])
<1> USE DEF Invs, CleanInv
<1>1. b \in Block
  BY DEF QueueInv
<1>2. PICK s \in Seq(AnyUser) : s = users[b]
  BY <1>1 DEF Shape
<1>3. PICK n \in Nat : n = Len(s) /\ DOMAIN s = 1..n
  BY LenProperties
<1>4. \A u : Times(s, u) = UsesOf(dst, phis, b, u)
  <2> TAKE u
  <2>1. Listed(b, u, Times(s, u), UsesOf(dst, phis, b, u))
    BY <1>1, <1>2 DEF ExactInv, Exact
  <2>2. ~Twice(b, u)
    BY <1>1, FewNotTwice
  <2> QED
    BY <2>1, <2>2 DEF Listed
<1>5. ASSUME NEW j \in 1..n
      PROVE  /\ \E a \in Block : \E k \in 1..source.phis[a] : s[j] = Phi(a, k) /\ IsEdge(source.dst, b, a)
             /\ Times(s, s[j]) = 1
  <2>1. Times(s, s[j]) # 0
    <3>1. s[j] \in ToSet(s)
      BY <1>3 DEF ToSet
    <3> QED
      BY <3>1, TimesIsCounted
  <2>2. UsesOf(dst, phis, b, s[j]) # 0
    BY <1>4, <2>1
  <2>3. \/ \E a \in Block : s[j] = Terminator(a, dst[a]) /\ b \in ToSet(dst[a])
        \/ \E a \in Block : \E k \in DOMAIN phis[a] : s[j] = Phi(a, k) /\ b \in DOMAIN phis[a][k] /\ UsesOf(dst, phis, b, s[j]) = 1
    BY <1>1, <2>2, UsesOfSome DEF Shape
  <2>4. PICK a \in Block : \E k \in DOMAIN phis[a] : s[j] = Phi(a, k) /\ b \in DOMAIN phis[a][k] /\ UsesOf(dst, phis, b, s[j]) = 1
    BY <1>1, <2>3, NoPredsNoWay
  <2>5. PICK k \in DOMAIN phis[a] : s[j] = Phi(a, k) /\ b \in DOMAIN phis[a][k] /\ UsesOf(dst, phis, b, s[j]) = 1
    BY <2>4
  <2>6. IsEdge(source.dst, b, a)
    BY <1>1, <2>5 DEF NamesInv
  <2>7. k \in 1..source.phis[a]
    <3>1. phis[a] \in Seq(Maps)
      BY DEF Shape
    <3>2. DOMAIN phis[a] = 1..Len(phis[a]) /\ source.phis[a] \in Nat
      BY <3>1, LenProperties, MeantIs
    <3>3. Len(phis[a]) = IF a \in present THEN source.phis[a] ELSE 0
      BY DEF NamesInv
    <3> QED
      BY <3>2, <3>3
  <2> QED
    BY <1>4, <2>5, <2>6, <2>7
<1>6. \A j \in 1..n : IsPhi(s[j])
  BY <1>5, UserFacts
<1>7. \A i, j \in 1..n : s[i] = s[j] => i = j
  <2> SUFFICES ASSUME NEW i \in 1..n, NEW j \in 1..n, s[i] = s[j], i # j PROVE FALSE
    OBVIOUS
  <2>1. PICK P : P = {k \in DOMAIN s : s[k] = s[j]}
    OBVIOUS
  <2>2. IsFiniteSet(P) /\ Cardinality(P) = 1
    BY <1>5, <2>1, TimesIsCounted DEF Times
  <2>3. \E x : P = {x}
    BY <2>2, FS_Singleton
  <2>4. i \in P /\ j \in P
    BY <1>3, <2>1
  <2> QED
    BY <2>3, <2>4
<1>8. PICK l \in Seq(AnyUser) : l = PhiUsers(source, b) /\ Len(l) <= 2
  BY <1>1, PhiUsersTimes DEF FewPhis
<1>9. n <= 2
  <2>1. ASSUME NEW j \in 1..n PROVE \E i \in DOMAIN l : l[i] = s[j]
    <3>1. PICK x : x = s[j]
      OBVIOUS
    <3>2. Names(source, x, b)
      BY <1>5, <3>1 DEF Names
    <3>3. Times(l, x) # 0
      BY <1>1, <1>8, <3>2, PhiUsersTimes
    <3>4. x \in ToSet(l)
      BY <3>3, TimesIsCounted
    <3> QED
      BY <3>1, <3>4 DEF ToSet
  <2>2. PICK F : F = [j \in 1..n |-> CHOOSE i \in DOMAIN l : l[i] = s[j]]
    OBVIOUS
  <2>3. \A j \in 1..n : F[j] \in DOMAIN l /\ l[F[j]] = s[j]
    BY <2>1, <2>2
  <2>4. F \in [1..n -> DOMAIN l]
    BY <2>2, <2>3
  <2>5. \A i, j \in 1..n : F[i] = F[j] => i = j
    BY <1>7, <2>3
  <2>6. IsFiniteSet(1..n) /\ Cardinality(1..n) = n
    BY FS_Interval
  <2>7. PICK m \in Nat : m = Len(l) /\ DOMAIN l = 1..m /\ m <= 2
    <3>1. Len(l) \in Nat /\ DOMAIN l = 1..Len(l)
      BY LenProperties
    <3> QED
      BY <1>8, <3>1
  <2>8. IsFiniteSet(DOMAIN l) /\ Cardinality(DOMAIN l) = m
    <3>1. IsFiniteSet(1..m) /\ Cardinality(1..m) = m
      BY FS_Interval
    <3> QED
      BY <2>7, <3>1
  <2> SUFFICES ASSUME ~(n <= 2) PROVE FALSE
    OBVIOUS
  <2>9. Cardinality(1..n) > Cardinality(DOMAIN l)
    <3>1. n > m
      BY <2>7
    <3> QED
      BY <2>6, <2>8, <3>1
  <2>10. \E i, j \in 1..n : i # j /\ F[i] = F[j]
    BY <2>4, <2>6, <2>8, <2>9, FS_PigeonHole
  <2> QED
    BY <2>5, <2>10
<1>10. n \in 0..2
  BY <1>9
<1> QED
  BY <1>2, <1>3, <1>6, <1>10

(* The names of a block that goes on the queue.                            *)
LEMMA QueuedIs ==
  ASSUME QueueInv, NEW b \in Block, Visiting(b), Queued(b)
  PROVE  /\ ToSet(removeQueue') = ToSet(removeQueue) \cup {b}
         /\ b \notin ToSet(removeQueue)
         /\ changed' = TRUE /\ phase = "simplify" /\ source' = source /\ present' = present /\ cfg' = cfg
<1>1. removeQueue \in Seq(Block) /\ removeQueue' = Append(removeQueue, b) /\ next = b /\ b \in Nat
  BY BlocksAre DEF QueueInv, Visiting, Queued
<1>2. Append(removeQueue, b) = removeQueue \o <<b>> /\ <<b>> \in Seq(Block)
  BY <1>1
<1>3. ToSet(removeQueue \o <<b>>) = ToSet(removeQueue) \cup ToSet(<<b>>)
  BY <1>1, <1>2, ConcatenateTwo, ZenonT(40)
<1>4. ToSet(<<b>>) = {b}
  BY DEF ToSet
<1>5. b \notin ToSet(removeQueue)
  BY <1>1 DEF QueueInv, Visiting
<1> QED
  BY <1>1, <1>2, <1>3, <1>4, <1>5 DEF Visiting, Queued

LEMMA CleanPruneUnreached ==
  ASSUME Invs, NEW b \in Block, PruneUnreached(b)
  PROVE  CleanInv'
<1> USE DEF Invs, CleanInv
<1>1. b \in present /\ b # Entry /\ HasNoPreds(b) /\ dst' = dst /\ phase' = "simplify" /\ phase = "simplify"
  BY DEF PruneUnreached, Candidate, Visiting
<1>2. /\ ToSet(removeQueue') = ToSet(removeQueue) \cup {b}
      /\ b \notin ToSet(removeQueue)
      /\ changed' = TRUE /\ source' = source /\ present' = present /\ cfg' = cfg
  BY QueuedIs DEF PruneUnreached
<1>3. \A u : Listed(b, u, Times(users[b], u), UsesOf(dst, phis, b, u))
  BY <1>1 DEF ExactInv, Exact
<1>4. PICK p, sl, z : /\ OverUsers(LAMBDA s, i : Pruned(b, s, i), b) = State(dst, p, users, sl, z)
                      /\ Pruning(b, p, sl, z, Len(users[b]))
  BY <1>3, AllKnown, PruningEnds
<1>5. phis' = p /\ users' = [users EXCEPT ![b] = SubSeq(sl, 1, z)]
  <2>1. PICK left : left = OverUsers(LAMBDA s, i : Pruned(b, s, i), b)
    OBVIOUS
  <2>2. phis' = left.phis /\ users' = [users EXCEPT ![b] = SubSeq(left.list.slots, 1, left.list.size)]
    BY <2>1, Zenon DEF PruneUnreached
  <2>3. left = State(dst, p, users, sl, z)
    BY <1>4, <2>1, Zenon
  <2>4. left.phis = p /\ left.list.slots = sl /\ left.list.size = z
    BY <2>3 DEF State
  <2> QED
    BY <2>2, <2>4
<1>6. /\ phis' \in [Block -> Seq(Maps)]
      /\ \A c \in Block : Len(phis'[c]) = Len(phis[c]) /\ DOMAIN phis'[c] = DOMAIN phis[c]
      /\ \A c \in Block : \A k \in DOMAIN phis[c] :
           DOMAIN phis'[c][k] \subseteq DOMAIN phis[c][k] /\ DOMAIN phis[c][k] \ {b} \subseteq DOMAIN phis'[c][k]
  BY <1>4, <1>5 DEF Pruning
<1>7. users' \in [Block -> Seq(AnyUser)] /\ \A c \in Block \ {b} : users'[c] = users[c]
  <2>1. SubSeq(sl, 1, z) \in Seq(AnyUser)
    <3>1. sl \in Seq(AnyUser) /\ z \in 0..Len(sl)
      BY <1>4 DEF Pruning
    <3> QED
      BY <3>1, SubSeqIs
  <2> QED
    BY <1>5, <2>1 DEF Shape
<1>8. \A u : Listed(b, u, Times(users'[b], u), UsesOf(dst, phis', b, u))
  <2>1. users'[b] = SubSeq(sl, 1, z)
    BY <1>5 DEF Shape
  <2> QED
    BY <1>4, <1>5, <2>1 DEF Pruning
(* What blocks other than b are used by has not changed, and uses of b are *)
(* not new.                                                                *)
<1>9. ASSUME NEW c, NEW u
      PROVE  /\ c # b => UsesOf(dst, phis', c, u) = UsesOf(dst, phis, c, u)
             /\ UsesOf(dst, phis, c, u) = 0 => UsesOf(dst, phis', c, u) = 0
  <2>1. ASSUME NEW a \in Block, u = Terminator(a, dst[a]) PROVE UsesOf(dst, phis', c, u) = UsesOf(dst, phis, c, u)
    <3>1. UsesOf(dst, phis', c, Terminator(a, dst[a])) = Times(dst[a], c)
      BY TerminatorUses
    <3>2. UsesOf(dst, phis, c, Terminator(a, dst[a])) = Times(dst[a], c)
      BY TerminatorUses
    <3> QED
      BY <2>1, <3>1, <3>2
  <2>2. ASSUME NEW a \in Block, NEW k \in DOMAIN phis[a], u = Phi(a, k)
        PROVE  /\ c # b => UsesOf(dst, phis', c, u) = UsesOf(dst, phis, c, u)
               /\ UsesOf(dst, phis, c, u) = 0 => UsesOf(dst, phis', c, u) = 0
    <3>1. UsesOf(dst, phis', c, Phi(a, k)) = IF k \in DOMAIN phis'[a] /\ c \in DOMAIN phis'[a][k] THEN 1 ELSE 0
      BY PhiUses
    <3>2. UsesOf(dst, phis, c, Phi(a, k)) = IF k \in DOMAIN phis[a] /\ c \in DOMAIN phis[a][k] THEN 1 ELSE 0
      BY PhiUses
    <3>3. k \in DOMAIN phis'[a] /\ (c \in DOMAIN phis'[a][k] => c \in DOMAIN phis[a][k])
          /\ (c # b /\ c \in DOMAIN phis[a][k] => c \in DOMAIN phis'[a][k])
      BY <1>6
    <3> QED
      BY <2>2, <3>1, <3>2, <3>3
  <2>3. ASSUME NoUser(dst, phis, u) PROVE UsesOf(dst, phis', c, u) = 0 /\ UsesOf(dst, phis, c, u) = 0
    <3>1. NoUser(dst, phis', u)
      BY <1>6, <2>3 DEF NoUser
    <3> QED
      BY <2>3, <3>1, OtherUses
  <2>4. UserKinds(dst, phis, u)
    BY UserKindsAre
  <2>5. CASE \E a \in Block : u = Terminator(a, dst[a])
    BY <2>1, <2>5
  <2>6. CASE \E a \in Block : \E k \in DOMAIN phis[a] : u = Phi(a, k)
    <3>1. PICK a \in Block : \E k \in DOMAIN phis[a] : u = Phi(a, k)
      BY <2>6
    <3>2. PICK k \in DOMAIN phis[a] : u = Phi(a, k)
      BY <3>1
    <3> QED
      BY <2>2, <3>2
  <2>7. CASE NoUser(dst, phis, u)
    BY <2>3, <2>7
  <2> QED
    BY <2>4, <2>5, <2>6, <2>7 DEF UserKinds
<1>10. Shape'
  BY <1>1, <1>2, <1>6, <1>7 DEF Shape
<1>11. EvaluateInv' /\ StaysInv' /\ WayInv'
  BY <1>1, <1>2, SameWay DEF EvaluateInv, StaysInv
<1>12. NamesInv'
  <2>1. ASSUME NEW c \in Block
        PROVE  /\ Len(phis'[c]) = IF c \in present' THEN source'.phis[c] ELSE 0
               /\ \A k \in DOMAIN phis'[c] : \A q \in Block :
                    /\ q \in DOMAIN phis'[c][k] => IsEdge(source'.dst, q, c)
                    /\ IsEdge(source'.dst, q, c) /\ q \in present' \ ToSet(removeQueue') => q \in DOMAIN phis'[c][k]
    <3>1. Len(phis'[c]) = IF c \in present' THEN source'.phis[c] ELSE 0
      BY <1>2, <1>6 DEF NamesInv
    <3>2. ASSUME NEW k \in DOMAIN phis'[c], NEW q \in Block
          PROVE  /\ q \in DOMAIN phis'[c][k] => IsEdge(source'.dst, q, c)
                 /\ IsEdge(source'.dst, q, c) /\ q \in present' \ ToSet(removeQueue') => q \in DOMAIN phis'[c][k]
      <4>1. k \in DOMAIN phis[c] /\ (q \in DOMAIN phis'[c][k] => q \in DOMAIN phis[c][k])
            /\ (q # b /\ q \in DOMAIN phis[c][k] => q \in DOMAIN phis'[c][k])
        BY <1>6
      <4>2. /\ q \in DOMAIN phis[c][k] => IsEdge(source.dst, q, c)
            /\ IsEdge(source.dst, q, c) /\ q \in present \ ToSet(removeQueue) => q \in DOMAIN phis[c][k]
        BY <4>1 DEF NamesInv
      <4> QED
        BY <1>2, <4>1, <4>2
    <3> QED
      BY <3>1, <3>2
  <2> QED
    BY <2>1 DEF NamesInv
<1>13. ExactInv'
  <2>1. ASSUME NEW c \in Block, c \in present', NEW u PROVE Listed(c, u, Times(users'[c], u), UsesOf(dst', phis', c, u))
    <3>1. CASE c = b
      BY <1>1, <1>8, <3>1
    <3>2. CASE c # b
      BY <1>1, <1>2, <1>7, <1>9, <2>1, <3>2 DEF ExactInv, Exact
    <3> QED
      BY <3>1, <3>2
  <2>2. ASSUME NEW c \in Block, c \notin present', NEW u PROVE UsesOf(dst', phis', c, u) = 0
    BY <1>1, <1>2, <1>9, <2>2 DEF ExactInv, Exact
  <2>3. Exact(dst', phis', users', present')
    BY <2>1, <2>2 DEF Exact
  <2> QED
    BY <1>2, <2>3, ExactNext
<1>15. TwiceInv'
  BY <1>1, <1>2, TwiceHasPreds DEF TwiceInv
<1>14. UnusedInv'
  <2>1. ASSUME NEW c \in ToSet(removeQueue), FewPhis(c), NEW u PROVE UsesOf(dst', phis', c, u) = 0
    <3>1. UsesOf(dst, phis, c, u) = 0
      BY <2>1 DEF UnusedInv
    <3> QED
      BY <1>1, <1>9, <3>1
  <2>2. ASSUME FewPhis(b), NEW u PROVE UsesOf(dst, phis', b, u) = 0
    <3> SUFFICES ASSUME UsesOf(dst, phis', b, u) # 0 PROVE FALSE
      OBVIOUS
    <3>1. UsesOf(dst, phis, b, u) # 0
      BY <1>9
    <3>2. PICK s \in Seq(AnyUser) : s = users[b]
      BY DEF Shape
    <3>3. PICK n \in Nat : n = Len(s) /\ DOMAIN s = 1..n
      BY LenProperties
    <3>4. u \in ToSet(s)
      <4>1. Times(s, u) # 0
        BY <1>3, <2>2, <3>1, <3>2, FewNotTwice DEF Listed
      <4> QED
        BY <4>1, TimesIsCounted
    <3>5. PICK j \in 1..n : s[j] = u
      BY <3>3, <3>4 DEF ToSet
    <3>6. n \in 0..2 /\ IsPhi(s[j])
      BY <1>1, <2>2, <3>2, <3>3, <3>5, FewUsers
    <3>7. j = 1 \/ j = n
      BY <3>6
    <3>8. Len(sl) = n
      BY <1>4, <3>2, <3>3 DEF Pruning
    <3>9. UsesOf(dst, p, b, s[j]) = 0
      BY <1>4, <3>2, <3>3, <3>6, <3>7, <3>8 DEF Pruning
    <3> QED
      BY <1>5, <3>5, <3>9
  <2>3. \A c : FewPhis(c)' <=> FewPhis(c)
    BY <1>2, SourceKept
  <2>4. \A c \in ToSet(removeQueue') : FewPhis(c) => \A u : UsesOf(dst', phis', c, u) = 0
    BY <1>1, <1>2, <2>1, <2>2
  <2> QED
    BY <1>1, <2>3, <2>4 DEF UnusedInv
<1> QED
  BY <1>10, <1>11, <1>12, <1>13, <1>14, <1>15

-----------------------------------------------------------------------------
(* The replacement of a block that only branches.                          *)

(* Destinations with d in the place of b.                                  *)
LEMMA ReplacedDestinations ==
  ASSUME NEW t \in Terminators, NEW b \in Block, NEW d \in Block, b # d
  PROVE  /\ ReplaceAll(t, b, d) \in Terminators
         /\ Len(ReplaceAll(t, b, d)) = Len(t) /\ DOMAIN ReplaceAll(t, b, d) = DOMAIN t /\ DOMAIN t = 1..Len(t) /\ Len(t) \in 0..2
         /\ \A k \in DOMAIN t : ReplaceAll(t, b, d)[k] = IF t[k] = b THEN d ELSE t[k]
         /\ \A x : Times(ReplaceAll(t, b, d), x) = IF x = b THEN 0 ELSE IF x = d THEN Times(t, d) + Times(t, b) ELSE Times(t, x)
         /\ \A x : Times(t, x) \in Nat
         /\ Times(t, b) = 0 => ReplaceAll(t, b, d) = t
         /\ ReplaceAll(ReplaceAll(t, b, d), b, d) = ReplaceAll(t, b, d)
<1>1. t \in Seq(Block) /\ Len(t) \in 0..2 /\ DOMAIN t = 1..Len(t)
  <2>1. [x \in Block |-> t] \in CfgGraph /\ [x \in Block |-> t][b] = t
    BY DEF CfgGraph
  <2> QED
    BY <2>1, DestinationsAreBlocks
<1>2. PICK r : r = ReplaceAll(t, b, d)
  OBVIOUS
<1>3. /\ r \in Seq(Block) /\ Len(r) = Len(t) /\ DOMAIN r = DOMAIN t
      /\ \A k \in DOMAIN t : r[k] = IF t[k] = b THEN d ELSE t[k]
      /\ \A x : Times(r, x) = IF x = b THEN 0 ELSE IF x = d THEN Times(t, d) + Times(t, b) ELSE Times(t, x)
  BY <1>1, <1>2, TimesReplaced
<1>4. r \in Terminators
  <2>1. CASE Len(t) = 0
    <3>1. r = <<>>
      BY <1>3, <2>1, EmptySeq
    <3> QED
      BY <3>1 DEF Terminators
  <2>2. CASE Len(t) = 1
    <3>1. r = <<r[1]>> /\ r[1] \in Block
      BY <1>3, <2>2, ElementOfSeq
    <3> QED
      BY <3>1 DEF Terminators
  <2>3. CASE Len(t) = 2
    <3>1. r = <<r[1], r[2]>> /\ r[1] \in Block /\ r[2] \in Block
      <4>1. r = <<r[1], r[2]>>
        BY <1>3, <2>3, TimesInFew
      <4>2. 1 \in DOMAIN r /\ 2 \in DOMAIN r
        BY <1>1, <1>3, <2>3
      <4>3. \A k \in DOMAIN r : r[k] \in Block
        BY <1>3, ElementOfSeq
      <4> QED
        BY <4>1, <4>2, <4>3
    <3>2. <<r[1], r[2]>> \in Block \X Block
      BY <3>1
    <3> QED
      BY <3>1, <3>2 DEF Terminators
  <2> QED
    BY <1>1, <2>1, <2>2, <2>3
<1>5. \A x : Times(t, x) \in Nat /\ (Times(t, x) = 0 <=> ~Contains(t, x)) /\ (Contains(t, x) <=> x \in ToSet(t))
  BY <1>1, TimesIsCounted
<1>6. Times(t, b) = 0 => r = t
  <2> SUFFICES ASSUME Times(t, b) = 0 PROVE r = t
    OBVIOUS
  <2>1. \A k \in DOMAIN t : t[k] # b
    BY <1>5 DEF ToSet
  <2>2. \A k \in 1..Len(r) : r[k] = t[k]
    BY <1>1, <1>3, <2>1
  <2> QED
    BY <1>1, <1>3, <2>2, SeqEqual
<1>7. ReplaceAll(r, b, d) = r
  <2>1. PICK q : q = ReplaceAll(r, b, d)
    OBVIOUS
  <2>2. q \in Seq(Block) /\ Len(q) = Len(r) /\ \A k \in DOMAIN r : q[k] = IF r[k] = b THEN d ELSE r[k]
    BY <1>3, <2>1, TimesReplaced
  <2>3. \A k \in 1..Len(q) : q[k] = r[k]
    BY <1>1, <1>3, <2>2
  <2> QED
    BY <1>3, <2>1, <2>2, <2>3, SeqEqual
<1> QED
  BY <1>1, <1>2, <1>3, <1>4, <1>5, <1>6, <1>7

(* One user more of a list that is run over.                               *)
LEMMA OneMore ==
  ASSUME NEW S, NEW s \in Seq(S), NEW i \in 1..Len(s), NEW u
  PROVE  Times(SubSeq(s, 1, i), u) = Times(SubSeq(s, 1, i - 1), u) + (IF s[i] = u THEN 1 ELSE 0)
<1>1. PICK n \in Nat : n = Len(s) /\ i \in 1..n
  BY LenProperties
<1>2. PICK long, short, last : long = SubSeq(s, 1, i) /\ short = SubSeq(s, 1, i - 1) /\ last = <<s[i]>>
  OBVIOUS
<1>3. long \in Seq(S) /\ Len(long) = i /\ \A k \in 1..i : long[k] = s[k]
  <2>1. /\ SubSeq(s, 1, i) \in Seq(S)
        /\ Len(SubSeq(s, 1, i)) = IF 1 <= i THEN i - 1 + 1 ELSE 0
        /\ \A k \in 1..(i - 1 + 1) : SubSeq(s, 1, i)[k] = s[1 + k - 1]
    BY <1>1, SubSeqIs
  <2> QED
    BY <1>1, <1>2, <2>1
<1>4. short \in Seq(S) /\ Len(short) = i - 1 /\ \A k \in 1..(i-1) : short[k] = s[k]
  <2>1. i - 1 \in 0..Len(s)
    BY <1>1
  <2>2. /\ SubSeq(s, 1, i - 1) \in Seq(S)
        /\ Len(SubSeq(s, 1, i - 1)) = IF 1 <= i - 1 THEN (i - 1) - 1 + 1 ELSE 0
        /\ \A k \in 1..((i - 1) - 1 + 1) : SubSeq(s, 1, i - 1)[k] = s[1 + k - 1]
    BY <2>1, SubSeqIs
  <2> QED
    BY <1>1, <1>2, <2>2
<1>5. last \in Seq(S) /\ Len(last) = 1 /\ last[1] = s[i]
  BY <1>1, <1>2, ElementOfSeq
<1>6. long = short \o last
  <2>1. /\ short \o last \in Seq(S)
        /\ Len(short \o last) = Len(short) + Len(last)
        /\ \A k \in 1..(Len(short) + Len(last)) : (short \o last)[k] = IF k <= Len(short) THEN short[k] ELSE last[k - Len(short)]
    BY <1>4, <1>5, ConcatProperties
  <2>2. Len(short \o last) = i
    BY <1>1, <1>4, <1>5, <2>1
  <2>3. \A k \in 1..i : long[k] = (short \o last)[k]
    <3> TAKE k \in 1..i
    <3>1. (short \o last)[k] = IF k <= i - 1 THEN short[k] ELSE last[k - (i - 1)]
      BY <1>1, <1>4, <1>5, <2>1
    <3>2. ~(k <= i - 1) => k = i /\ k - (i - 1) = 1
      BY <1>1
    <3> QED
      BY <1>1, <1>3, <1>4, <1>5, <3>1, <3>2
  <2> QED
    BY <1>3, <2>1, <2>2, <2>3, SeqEqual
<1>7. Times(short \o last, u) = Times(short, u) + Times(last, u)
  BY <1>4, <1>5, TimesInBoth
<1>8. Times(<<s[i]>>, u) = IF s[i] = u THEN 1 ELSE 0
  BY TimesInOne
<1> QED
  BY <1>2, <1>6, <1>7, <1>8

(* What the loop does with a terminator.                                   *)
IsRedirected(b, d, t, p, us, sl, z, i, a) ==
  Redirected(b, d, State(t, p, us, sl, z), i) =
    State([t EXCEPT ![a] = ReplaceAll(@, b, d)], p, [us EXCEPT ![d] = Append(@, sl[i])], sl, z)

LEMMA RedirectedState ==
  ASSUME NEW b, NEW d, NEW t, NEW p, NEW us, NEW sl, NEW z, NEW i, NEW a, NEW n, sl[i] = Terminator(a, n)
  PROVE  IsRedirected(b, d, t, p, us, sl, z, i, a)
<1>1. PICK s, l : l = [slots |-> sl, size |-> z] /\ s = [dst |-> t, phis |-> p, users |-> us, list |-> l]
  OBVIOUS
<1>2. s.list.slots = sl /\ s.dst = t /\ s.users = us
  BY <1>1
<1>3. ~IsPhi(sl[i]) /\ sl[i][2] = a
  BY UserFacts
<1>4. Redirected(b, d, s, i) = [s EXCEPT !.dst[a] = ReplaceAll(@, b, d), !.users[d] = Append(@, sl[i])]
  BY <1>2, <1>3, Zenon DEF Redirected
<1>5. PICK t2, us2, s2 : /\ t2 = [t EXCEPT ![a] = ReplaceAll(@, b, d)]
                         /\ us2 = [us EXCEPT ![d] = Append(@, sl[i])]
                         /\ s2 = [s EXCEPT !.dst = t2]
  OBVIOUS
<1>6. s2 = [dst |-> t2, phis |-> p, users |-> us, list |-> l]
  BY <1>1, <1>5
<1>7. [s2 EXCEPT !.users = us2] = [dst |-> t2, phis |-> p, users |-> us2, list |-> l]
  BY <1>6
<1>8. [s EXCEPT !.dst[a] = ReplaceAll(@, b, d), !.users[d] = Append(@, sl[i])] = [s2 EXCEPT !.users = us2]
  <2>1. [s EXCEPT !.dst[a] = ReplaceAll(@, b, d), !.users[d] = Append(@, sl[i])] = [s2 EXCEPT !.users[d] = Append(@, sl[i])]
    BY <1>2, <1>5
  <2>2. s2.users = us
    BY <1>6
  <2> QED
    BY <1>5, <2>1, <2>2
<1>9. State(t, p, us, sl, z) = s /\ State(t2, p, us2, sl, z) = [dst |-> t2, phis |-> p, users |-> us2, list |-> l]
  BY <1>1 DEF State
<1> QED
  BY <1>4, <1>5, <1>7, <1>8, <1>9 DEF IsRedirected

(* What a turn of the loop that prunes a block that only branches leaves.  *)
Redirecting(b, d, t, us, i) ==
  /\ t \in CfgGraph
  /\ \A a \in Block : t[a] = dst[a] \/ t[a] = ReplaceAll(dst[a], b, d)
  /\ \A j \in 1..i : \A a \in Block : users[b][j] = Terminator(a, dst[a]) => t[a] = ReplaceAll(dst[a], b, d)
  /\ us \in [Block -> Seq(AnyUser)]
  /\ \A c \in Block \ {d} : us[c] = users[c]
  /\ \A u : Times(us[d], u) = Times(users[d], u) + Times(SubSeq(users[b], 1, i), u)

OnlyTerminators(b) == \A j \in DOMAIN users[b] : \E a \in Block : users[b][j] = Terminator(a, dst[a])

LEMMA AppendIsConcatenation ==
  ASSUME NEW S, NEW s \in Seq(S), NEW x \in S
  PROVE  Append(s, x) = s \o <<x>>
<1>1. PICK l, r, t, n : l = Append(s, x) /\ t = <<x>> /\ r = s \o t /\ n = Len(s)
  OBVIOUS
<1>2. n \in Nat
  BY <1>1, LenProperties
<1>3. l \in Seq(S) /\ Len(l) = n + 1 /\ \A k \in 1..(n+1) : l[k] = IF k <= n THEN s[k] ELSE x
  BY <1>1, <1>2
<1>4. t \in Seq(S) /\ Len(t) = 1 /\ t[1] = x
  BY <1>1
<1>5. r \in Seq(S) /\ Len(r) = n + 1 /\ \A k \in 1..(n+1) : r[k] = IF k <= n THEN s[k] ELSE t[k - n]
  BY <1>1, <1>2, <1>4
<1>6. \A k \in 1..(n+1) : l[k] = r[k]
  BY <1>2, <1>3, <1>4, <1>5
<1>7. l = r
  BY <1>2, <1>3, <1>5, <1>6, SeqEqual
<1> QED
  BY <1>1, <1>7

LEMMA RedirectingTurn ==
  ASSUME Shape, NEW b \in Block, NEW d \in Block, b # d, OnlyTerminators(b),
         NEW i \in 1..Len(users[b]), NEW t, NEW us, Redirecting(b, d, t, us, i - 1)
  PROVE  \E t2, us2 : /\ Redirected(b, d, State(t, phis, us, users[b], Len(users[b])), i) = State(t2, phis, us2, users[b], Len(users[b]))
                      /\ Redirecting(b, d, t2, us2, i)
<1>1. PICK s \in Seq(AnyUser) : s = users[b] /\ i \in 1..Len(s)
  BY DEF Shape
<1>2. PICK n \in Nat : n = Len(s) /\ DOMAIN s = 1..n
  BY LenProperties
<1>3. PICK a \in Block : s[i] = Terminator(a, dst[a])
  BY <1>1, <1>2 DEF OnlyTerminators
<1>4. PICK r : r = ReplaceAll(dst[a], b, d)
  OBVIOUS
<1>5. r \in Terminators /\ ReplaceAll(r, b, d) = r
  <2>1. dst[a] \in Terminators
    BY DEF Shape, CfgGraph
  <2> QED
    BY <1>4, <2>1, ReplacedDestinations
<1>6. ReplaceAll(t[a], b, d) = r
  <2>1. t[a] = dst[a] \/ t[a] = r
    BY <1>4 DEF Redirecting
  <2> QED
    BY <1>4, <1>5, <2>1
<1>7. PICK t2, us2 : t2 = [t EXCEPT ![a] = r] /\ us2 = [us EXCEPT ![d] = Append(@, s[i])]
  OBVIOUS
<1>8. Redirected(b, d, State(t, phis, us, s, n), i) = State(t2, phis, us2, s, n)
  <2>1. IsRedirected(b, d, t, phis, us, s, n, i, a)
    BY <1>3, RedirectedState
  <2>3. Redirected(b, d, State(t, phis, us, s, n), i) =
          State([t EXCEPT ![a] = ReplaceAll(@, b, d)], phis, [us EXCEPT ![d] = Append(@, s[i])], s, n)
    BY <2>1, Zenon DEF IsRedirected
  <2>2. [t EXCEPT ![a] = ReplaceAll(@, b, d)] = t2
    BY <1>6, <1>7
  <2> QED
    BY <1>7, <2>3, <2>2
<1>9. t \in CfgGraph /\ us \in [Block -> Seq(AnyUser)]
  BY DEF Redirecting
<1>10. t2 \in CfgGraph /\ t2[a] = r /\ \A c \in Block \ {a} : t2[c] = t[c]
  BY <1>5, <1>7, <1>9 DEF CfgGraph
<1>11. \A c \in Block : t2[c] = dst[c] \/ t2[c] = ReplaceAll(dst[c], b, d)
  BY <1>4, <1>10 DEF Redirecting
<1>12. ASSUME NEW j \in 1..i, NEW c \in Block, users[b][j] = Terminator(c, dst[c]) PROVE t2[c] = ReplaceAll(dst[c], b, d)
  <2>1. j \in 1..(i-1) \/ j = i
    BY <1>1, <1>2
  <2>2. CASE c = a
    BY <1>4, <1>10, <2>2
  <2>3. CASE c # a
    <3>1. j \in 1..(i-1)
      BY <1>1, <1>3, <1>12, <2>1, <2>3, UserFacts
    <3> QED
      BY <1>10, <1>12, <2>3, <3>1 DEF Redirecting
  <2> QED
    BY <2>2, <2>3
<1>13. s[i] \in AnyUser
  BY <1>1, ElementOfSeq
<1>14. us2 \in [Block -> Seq(AnyUser)] /\ \A c \in Block \ {d} : us2[c] = users[c]
  BY <1>7, <1>9, <1>13 DEF Redirecting
<1>15. ASSUME NEW u PROVE Times(us2[d], u) = Times(users[d], u) + Times(SubSeq(s, 1, i), u)
  <2>1. PICK l \in Seq(AnyUser) : l = us[d]
    BY <1>9
  <2>2. us2[d] = l \o <<s[i]>> /\ <<s[i]>> \in Seq(AnyUser)
    <3>1. PICK e \in AnyUser : e = s[i]
      BY <1>13
    <3>2. us2[d] = Append(l, e)
      BY <1>7, <1>9, <2>1, <3>1
    <3>3. <<e>> \in Seq(AnyUser)
      BY <3>1
    <3>4. Append(l, e) = l \o <<e>>
      BY <2>1, <3>1, AppendIsConcatenation
    <3> QED
      BY <3>1, <3>2, <3>3, <3>4
  <2>3. Times(l \o <<s[i]>>, u) = Times(l, u) + Times(<<s[i]>>, u)
    BY <2>1, <2>2, TimesInBoth, ZenonT(40)
  <2>4. Times(<<s[i]>>, u) = IF s[i] = u THEN 1 ELSE 0
    BY TimesInOne
  <2>5. Times(SubSeq(s, 1, i), u) = Times(SubSeq(s, 1, i - 1), u) + (IF s[i] = u THEN 1 ELSE 0)
    BY <1>1, OneMore
  <2>6. Times(l, u) = Times(users[d], u) + Times(SubSeq(s, 1, i - 1), u)
    BY <1>1, <2>1 DEF Redirecting
  <2>7. Times(users[d], u) \in Nat /\ Times(SubSeq(s, 1, i - 1), u) \in Nat
    <3>1. i - 1 \in 0..Len(s)
      BY <1>1, <1>2
    <3>2. SubSeq(s, 1, i - 1) \in Seq(AnyUser)
      BY <3>1, SubSeqIs
    <3>3. users[d] \in Seq(AnyUser)
      BY DEF Shape
    <3> QED
      BY <3>2, <3>3, TimesIsCounted
  <2> QED
    BY <2>2, <2>3, <2>4, <2>5, <2>6, <2>7
<1>16. Redirecting(b, d, t2, us2, i)
  BY <1>1, <1>10, <1>11, <1>12, <1>14, <1>15 DEF Redirecting
<1> QED
  BY <1>1, <1>2, <1>8, <1>16

LEMMA RedirectingEnds ==
  ASSUME Shape, NEW b \in Block, NEW d \in Block, b # d, OnlyTerminators(b)
  PROVE  \E t, us : /\ Redirection(b, d) = State(t, phis, us, users[b], Len(users[b]))
                    /\ Redirecting(b, d, t, us, Len(users[b]))
<1>1. PICK sl \in Seq(AnyUser) : sl = users[b]
  BY DEF Shape
<1>2. PICK n \in Nat : n = Len(sl) /\ DOMAIN sl = 1..n
  BY LenProperties
<1>8. Len(users[b]) \in Nat /\ Len(users[b]) = n
  BY <1>1, <1>2
<1>9. \E f : /\ f[0] = LoopStart(b)
             /\ \A i \in 1..Len(users[b]) : f[i] = Redirected(b, d, f[i-1], i)
             /\ Redirection(b, d) = f[Len(users[b])]
  BY <1>8, RedirectingIs
<1>3. PICK f : /\ f[0] = LoopStart(b)
               /\ \A i \in 1..n : f[i] = Redirected(b, d, f[i-1], i)
               /\ Redirection(b, d) = f[n]
  BY <1>8, <1>9
<1> DEFINE Good(m) == \E t, us : f[m] = State(t, phis, us, sl, n) /\ Redirecting(b, d, t, us, m)
           G == {m \in 0..n : Good(m)}
<1>4. 0 \in G
  <2>1. f[0] = State(dst, phis, users, sl, n)
    BY <1>1, <1>2, <1>3 DEF LoopStart, State
  <2>4. ASSUME NEW u PROVE Times(users[d], u) = Times(users[d], u) + Times(SubSeq(sl, 1, 0), u)
    <3>1. SubSeq(sl, 1, 0) \in Seq(AnyUser) /\ Len(SubSeq(sl, 1, 0)) = 0
      <4>1. 0 \in 0..Len(sl)
        BY <1>2
      <4> QED
        BY <4>1, SubSeqIs
    <3>2. PICK q : q = SubSeq(sl, 1, 0)
      OBVIOUS
    <3>5. q = <<>>
      BY <3>1, <3>2, EmptySeq
    <3>6. Times(<<>>, u) = 0
      BY TimesInNone
    <3>8. Times(q, u) = 0
      BY <3>5, <3>6
    <3>3. users[d] \in Seq(AnyUser)
      BY DEF Shape
    <3>4. Times(users[d], u) \in Nat
      BY <3>3, TimesIsCounted
    <3>7. PICK m \in Nat : m = Times(users[d], u)
      BY <3>4
    <3>9. m = m + 0
      OBVIOUS
    <3> QED
      BY <3>2, <3>7, <3>8, <3>9
  <2>3. Redirecting(b, d, dst, users, 0)
    BY <1>1, <2>4 DEF Redirecting, Shape
  <2>2. Good(0)
    BY <2>1, <2>3
  <2> HIDE DEF Good
  <2> QED
    BY <2>2
<1>5. ASSUME NEW m \in 0..(n-1), m \in G PROVE m + 1 \in G
  <2>1. m + 1 \in 1..Len(users[b]) /\ m + 1 \in 1..n /\ (m + 1) - 1 = m /\ m + 1 \in 0..n
    BY <1>1, <1>2
  <2>2. PICK t, us : f[m] = State(t, phis, us, sl, n) /\ Redirecting(b, d, t, us, m)
    BY <1>5
  <2>3. Redirecting(b, d, t, us, (m + 1) - 1)
    BY <2>1, <2>2
  <2>4. PICK t2, us2 : /\ Redirected(b, d, State(t, phis, us, users[b], Len(users[b])), m + 1) = State(t2, phis, us2, users[b], Len(users[b]))
                       /\ Redirecting(b, d, t2, us2, m + 1)
    BY <2>1, <2>3, RedirectingTurn
  <2>5. f[m+1] = State(t2, phis, us2, sl, n)
    BY <1>1, <1>2, <1>3, <2>1, <2>2, <2>4
  <2>6. Good(m + 1)
    BY <2>4, <2>5
  <2> HIDE DEF Good
  <2> QED
    BY <2>1, <2>6
<1>6. 0..n \subseteq G
  <2> HIDE DEF G
  <2> QED
    BY <1>4, <1>5, IntervalInduction
<1>7. Good(n)
  BY <1>6
<1> QED
  BY <1>1, <1>2, <1>3, <1>7

(* A block that only branches is passed through, and only terminators use  *)
(* it.                                                                     *)
IsBranch(b, d) ==
  /\ d \in Block /\ d # b /\ d \in present /\ dst[b] = <<d>> /\ d \in ToSet(dst[b])
  /\ Passed(b) /\ OnWay(b, d)
  /\ \A a \in Block : \A k \in DOMAIN phis[a] : b \notin DOMAIN phis[a][k]
  /\ OnlyTerminators(b)
  /\ \A u : ~Twice(b, u)

LEMMA BranchIs ==
  ASSUME Invs, phase # "evaluate", NEW b \in present \ {Entry}, OnlyBranches(b), dst[b] # <<b>>
  PROVE  \E d : IsBranch(b, d)
<1> USE DEF Invs, CleanInv
<1>1. b \in Block /\ present \subseteq Block
  BY DEF QueueInv
<1>2. PICK t \in Terminators : t = dst[b]
  BY <1>1 DEF Shape, CfgGraph
<1>3. Len(t) = 1
  BY <1>2 DEF OnlyBranches
<1>4. PICK d \in Block : t = <<d>>
  BY <1>2, <1>3 DEF Terminators
<1>5. d # b /\ d \in ToSet(dst[b])
  BY <1>2, <1>4 DEF ToSet
<1>6. Passed(b)
  <2>1. source.phis[b] = 0
    <3>1. Len(phis[b]) = source.phis[b]
      BY <1>1 DEF NamesInv
    <3> QED
      BY <3>1 DEF OnlyBranches
  <2>2. Len(Meant(b)) = 1
    BY <1>1, <1>2, <1>3 DEF WayInv
  <2> QED
    BY <2>1, <2>2 DEF OnlyBranches, Passed
<1>7. OnWay(b, d)
  <2>1. OnWay(b, Meant(b)[1])
    BY <1>1, <1>6, OnWayFacts
  <2>2. OnWay(Meant(b)[1], d)
    <3>1. dst[b][1] = d /\ 1 \in 1..Len(dst[b])
      BY <1>2, <1>3, <1>4
    <3> QED
      BY <3>1 DEF WayInv
  <2> QED
    BY <2>1, <2>2, OnWayFacts
<1>8. d \in present
  <2> SUFFICES ASSUME d \notin present PROVE FALSE
    OBVIOUS
  <2>1. UsesOf(dst, phis, d, Terminator(b, dst[b])) = 0
    BY DEF ExactInv, Exact
  <2>2. UsesOf(dst, phis, d, Terminator(b, dst[b])) = Times(dst[b], d)
    BY <1>1, TerminatorUses
  <2>3. Times(<<d>>, d) = 1
    BY TimesInOne
  <2> QED
    BY <1>2, <1>4, <2>1, <2>2, <2>3
<1>12. ASSUME NEW a \in Block, NEW k \in 1..source.phis[a] PROVE ~IsEdge(source.dst, b, a)
  <2> SUFFICES ASSUME IsEdge(source.dst, b, a) PROVE FALSE
    OBVIOUS
  <2>1. PICK u : u = Phi(a, k)
    OBVIOUS
  <2>2. Names(source, u, b)
    BY <2>1 DEF Names
  <2>3. PICK l \in Seq(AnyUser) : l = PhiUsers(source, b) /\ Times(l, u) # 0
    BY <1>1, <2>2, PhiUsersTimes
  <2>4. u \in ToSet(l)
    BY <2>3, TimesIsCounted
  <2>5. NamedBy(b) = {}
    BY <1>1, <1>6 DEF NoPhiBehindBranch
  <2> QED
    BY <2>3, <2>4, <2>5 DEF NamedBy
<1>9. ASSUME NEW a \in Block, NEW k \in DOMAIN phis[a] PROVE b \notin DOMAIN phis[a][k]
  <2> SUFFICES ASSUME b \in DOMAIN phis[a][k] PROVE FALSE
    OBVIOUS
  <2>1. IsEdge(source.dst, b, a)
    BY <1>1 DEF NamesInv
  <2>2. k \in 1..source.phis[a]
    <3>1. PICK p \in Seq(Maps) : p = phis[a]
      BY DEF Shape
    <3>2. DOMAIN p = 1..Len(p) /\ Len(p) \in Nat
      BY LenProperties
    <3>3. Len(p) = IF a \in present THEN source.phis[a] ELSE 0
      BY <3>1 DEF NamesInv
    <3>4. source.phis[a] \in Nat
      BY MeantIs
    <3> QED
      BY <3>1, <3>2, <3>3, <3>4
  <2> QED
    BY <1>12, <2>1, <2>2
<1>13. ASSUME NEW u PROVE ~Twice(b, u)
  <2> SUFFICES ASSUME Twice(b, u) PROVE FALSE
    OBVIOUS
  <2>1. PICK a \in Block : \E k \in 1..source.phis[a] : u = Phi(a, k) /\ Times(source.dst[b], a) = 2
    BY DEF Twice
  <2>2. PICK k \in 1..source.phis[a] : Times(source.dst[b], a) = 2
    BY <2>1
  <2>3. IsEdge(source.dst, b, a) <=> Times(source.dst[b], a) # 0
    BY <1>1, PhiUsersTimes
  <2> QED
    BY <1>12, <2>2, <2>3
<1>10. OnlyTerminators(b)
  <2> SUFFICES ASSUME NEW j \in DOMAIN users[b] PROVE \E a \in Block : users[b][j] = Terminator(a, dst[a])
    BY DEF OnlyTerminators
  <2>1. PICK s \in Seq(AnyUser) : s = users[b]
    BY <1>1 DEF Shape
  <2>2. PICK u : u = s[j]
    OBVIOUS
  <2>3. u \in ToSet(s)
    BY <2>1, <2>2 DEF ToSet
  <2>4. Times(s, u) # 0
    BY <2>1, <2>3, TimesIsCounted
  <2>5. UsesOf(dst, phis, b, u) # 0
    BY <1>1, <1>13, <2>1, <2>4 DEF ExactInv, Exact, Listed
  <2>6. dst \in CfgGraph
    BY DEF Shape
  <2>7. \/ \E a \in Block : u = Terminator(a, dst[a])
        \/ \E a \in Block : \E k \in DOMAIN phis[a] : b \in DOMAIN phis[a][k]
    BY <2>5, <2>6, UsesOfSome
  <2> QED
    BY <1>9, <2>1, <2>2, <2>7
<1>11. dst[b] = <<d>>
  BY <1>2, <1>4
<1> QED
  BY <1>4, <1>5, <1>6, <1>7, <1>8, <1>9, <1>10, <1>11, <1>13 DEF IsBranch

(* What users use once every terminator has been redirected.               *)
UsesRedirected(t, b, d) ==
  \A c, u : UsesOf(t, phis, c, u) =
    IF c = b THEN 0
    ELSE IF c = d THEN UsesOf(dst, phis, d, u) + UsesOf(dst, phis, b, u)
    ELSE UsesOf(dst, phis, c, u)

LEMMA RedirectedUses ==
  ASSUME Shape, NEW b \in Block, NEW d \in Block, b # d, NEW t \in CfgGraph,
         \A a \in Block : \A k \in DOMAIN phis[a] : b \notin DOMAIN phis[a][k],
         \A a \in Block : t[a] = ReplaceAll(dst[a], b, d)
  PROVE  UsesRedirected(t, b, d)
<1> SUFFICES ASSUME NEW c, NEW u
             PROVE  UsesOf(t, phis, c, u) =
                      IF c = b THEN 0
                      ELSE IF c = d THEN UsesOf(dst, phis, d, u) + UsesOf(dst, phis, b, u)
                      ELSE UsesOf(dst, phis, c, u)
  BY DEF UsesRedirected
<1>1. ASSUME NEW a \in Block
      PROVE  /\ Terminator(a, t[a]) = Terminator(a, dst[a])
             /\ \A x : Times(t[a], x) = IF x = b THEN 0 ELSE IF x = d THEN Times(dst[a], d) + Times(dst[a], b) ELSE Times(dst[a], x)
  <2>1. dst[a] \in Terminators
    BY DEF Shape, CfgGraph
  <2>2. Len(t[a]) = Len(dst[a])
    BY <2>1, ReplacedDestinations
  <2>3. \A x : Times(t[a], x) = IF x = b THEN 0 ELSE IF x = d THEN Times(dst[a], d) + Times(dst[a], b) ELSE Times(dst[a], x)
    BY <2>1, ReplacedDestinations
  <2> QED
    BY <2>2, <2>3, UserFacts
<1>2. ASSUME NEW a \in Block, u = Terminator(a, dst[a])
      PROVE  UsesOf(t, phis, c, u) =
               IF c = b THEN 0
               ELSE IF c = d THEN UsesOf(dst, phis, d, u) + UsesOf(dst, phis, b, u)
               ELSE UsesOf(dst, phis, c, u)
  <2>1. UsesOf(t, phis, c, Terminator(a, t[a])) = Times(t[a], c)
    BY TerminatorUses
  <2>2. /\ UsesOf(dst, phis, c, Terminator(a, dst[a])) = Times(dst[a], c)
        /\ UsesOf(dst, phis, d, Terminator(a, dst[a])) = Times(dst[a], d)
        /\ UsesOf(dst, phis, b, Terminator(a, dst[a])) = Times(dst[a], b)
    BY TerminatorUses
  <2>3. UsesOf(t, phis, c, u) = Times(t[a], c)
    BY <1>1, <1>2, <2>1
  <2>4. /\ UsesOf(dst, phis, c, u) = Times(dst[a], c)
        /\ UsesOf(dst, phis, d, u) = Times(dst[a], d)
        /\ UsesOf(dst, phis, b, u) = Times(dst[a], b)
    BY <1>2, <2>2
  <2> QED
    BY <1>1, <2>3, <2>4
<1>3. ASSUME NEW a \in Block, NEW k \in DOMAIN phis[a], u = Phi(a, k)
      PROVE  /\ UsesOf(t, phis, c, u) = UsesOf(dst, phis, c, u)
             /\ UsesOf(dst, phis, b, u) = 0 /\ UsesOf(dst, phis, d, u) \in Nat
  <2>1. UsesOf(t, phis, c, Phi(a, k)) = IF k \in DOMAIN phis[a] /\ c \in DOMAIN phis[a][k] THEN 1 ELSE 0
    BY PhiUses
  <2>2. UsesOf(dst, phis, c, Phi(a, k)) = IF k \in DOMAIN phis[a] /\ c \in DOMAIN phis[a][k] THEN 1 ELSE 0
    BY PhiUses
  <2>3. UsesOf(dst, phis, b, Phi(a, k)) = IF k \in DOMAIN phis[a] /\ b \in DOMAIN phis[a][k] THEN 1 ELSE 0
    BY PhiUses
  <2>4. UsesOf(dst, phis, d, Phi(a, k)) = IF k \in DOMAIN phis[a] /\ d \in DOMAIN phis[a][k] THEN 1 ELSE 0
    BY PhiUses
  <2> QED
    BY <1>3, <2>1, <2>2, <2>3, <2>4
<1>4. ASSUME NoUser(dst, phis, u)
      PROVE  UsesOf(t, phis, c, u) = 0 /\ \A x : UsesOf(dst, phis, x, u) = 0
  <2>1. NoUser(t, phis, u)
    BY <1>1, <1>4 DEF NoUser
  <2> QED
    BY <1>4, <2>1, OtherUses
<1>5. UserKinds(dst, phis, u)
  BY UserKindsAre
<1>6. CASE \E a \in Block : u = Terminator(a, dst[a])
  BY <1>2, <1>6
<1>7. CASE \E a \in Block : \E k \in DOMAIN phis[a] : u = Phi(a, k)
  <2>1. PICK a \in Block : \E k \in DOMAIN phis[a] : u = Phi(a, k)
    BY <1>7
  <2>2. PICK k \in DOMAIN phis[a] : u = Phi(a, k)
    BY <2>1
  <2>3. /\ UsesOf(t, phis, c, u) = UsesOf(dst, phis, c, u)
        /\ UsesOf(dst, phis, b, u) = 0 /\ UsesOf(dst, phis, d, u) \in Nat
    BY <1>3, <2>2
  <2> QED
    BY <2>3
<1>8. CASE NoUser(dst, phis, u)
  BY <1>4, <1>8
<1> QED
  BY <1>5, <1>6, <1>7, <1>8 DEF UserKinds

LEMMA CleanPruneBranch ==
  ASSUME Invs, NEW b \in Block, PruneBranch(b)
  PROVE  CleanInv'
<1> USE DEF Invs, CleanInv
<1>1. /\ b \in present \ {Entry} /\ OnlyBranches(b) /\ dst[b] # <<b>>
      /\ phase' = "simplify" /\ phase = "simplify"
  BY DEF PruneBranch, Candidate, Visiting
<1>2. /\ ToSet(removeQueue') = ToSet(removeQueue) \cup {b}
      /\ b \notin ToSet(removeQueue)
      /\ changed' = TRUE /\ source' = source /\ present' = present /\ cfg' = cfg
  BY QueuedIs DEF PruneBranch
<1>3. PICK d : IsBranch(b, d)
  BY <1>1, BranchIs
<1>4. /\ d \in Block /\ d # b /\ d \in present /\ dst[b] = <<d>> /\ dst[b][1] = d /\ OnlyTerminators(b)
      /\ \A a \in Block : \A k \in DOMAIN phis[a] : b \notin DOMAIN phis[a][k]
  BY <1>3 DEF IsBranch
<1>5. PICK t, us : /\ Redirection(b, d) = State(t, phis, us, users[b], Len(users[b]))
                   /\ Redirecting(b, d, t, us, Len(users[b]))
  BY <1>4, RedirectingEnds
<1>6. dst' = t /\ phis' = phis /\ users' = [us EXCEPT ![b] = <<>>]
  <2>1. PICK left : left = Redirection(b, d)
    OBVIOUS
  <2>2. dst' = left.dst /\ phis' = left.phis /\ users' = [left.users EXCEPT ![b] = <<>>]
    <3>1. /\ dst' = Redirection(b, dst[b][1]).dst
          /\ phis' = Redirection(b, dst[b][1]).phis
          /\ users' = [Redirection(b, dst[b][1]).users EXCEPT ![b] = <<>>]
      BY Zenon DEF PruneBranch, Redirection
    <3> QED
      BY <1>4, <2>1, <3>1
  <2>3. left.dst = t /\ left.phis = phis /\ left.users = us
    <3>1. left = State(t, phis, us, users[b], Len(users[b]))
      BY <1>5, <2>1, Zenon
    <3> QED
      BY <3>1 DEF State
  <2> QED
    BY <2>2, <2>3
<1>7. PICK s \in Seq(AnyUser) : s = users[b]
  BY DEF Shape
<1>8. PICK n \in Nat : n = Len(s) /\ DOMAIN s = 1..n
  BY LenProperties
<1>9. ASSUME NEW a \in Block PROVE t[a] = ReplaceAll(dst[a], b, d)
  <2>1. PICK u : u = Terminator(a, dst[a])
    OBVIOUS
  <2>2. CASE u \in ToSet(s)
    <3>1. PICK j \in 1..n : s[j] = u
      BY <1>8, <2>2 DEF ToSet
    <3> QED
      BY <1>5, <1>7, <1>8, <2>1, <3>1 DEF Redirecting
  <2>3. CASE u \notin ToSet(s)
    <3>1. Times(s, u) = 0
      BY <2>3, TimesIsCounted
    <3>2. UsesOf(dst, phis, b, Terminator(a, dst[a])) = Times(dst[a], b)
      BY TerminatorUses
    <3>3. Times(users[b], u) = UsesOf(dst, phis, b, u)
      BY <1>1, <1>3 DEF IsBranch, ExactInv, Exact, Listed
    <3>4. Times(dst[a], b) = 0
      BY <1>7, <2>1, <3>1, <3>2, <3>3
    <3>5. dst[a] \in Terminators
      BY DEF Shape, CfgGraph
    <3>6. ReplaceAll(dst[a], b, d) = dst[a]
      BY <1>4, <3>4, <3>5, ReplacedDestinations
    <3> QED
      BY <1>5, <3>6 DEF Redirecting
  <2> QED
    BY <2>2, <2>3
<1>10. t \in CfgGraph /\ us \in [Block -> Seq(AnyUser)] /\ \A c \in Block \ {d} : us[c] = users[c]
  BY <1>5 DEF Redirecting
<1>11. ASSUME NEW u PROVE Times(us[d], u) = Times(users[d], u) + Times(users[b], u)
  <2>1. SubSeq(s, 1, n) = s
    <3>1. 1 \in 1..n+1 /\ n \in 0..Len(s)
      BY <1>8
    <3>2. /\ SubSeq(s, 1, n) \in Seq(AnyUser)
          /\ Len(SubSeq(s, 1, n)) = n
          /\ \A k \in 1..n : SubSeq(s, 1, n)[k] = s[k]
      BY <1>8
    <3> QED
      BY <1>8, <3>2, SeqEqual
  <2>2. Times(us[d], u) = Times(users[d], u) + Times(SubSeq(users[b], 1, Len(users[b])), u)
    BY <1>5 DEF Redirecting
  <2> QED
    BY <1>7, <1>8, <2>1, <2>2
<1>12. UsesRedirected(t, b, d)
  BY <1>4, <1>9, <1>10, RedirectedUses
<1>13. Shape'
  <2>1. users' \in [Block -> Seq(AnyUser)]
    BY <1>6, <1>10
  <2> QED
    BY <1>2, <1>6, <1>10, <2>1 DEF Shape
<1>14. EvaluateInv' /\ StaysInv'
  BY <1>1, <1>2 DEF EvaluateInv, StaysInv
<1>15. NamesInv'
  BY <1>2, <1>6, SameNames
<1>16. WayInv'
  <2>1. /\ cfg = [a \in Block |-> Meant(a)]
        /\ \A a \in present : /\ Len(dst[a]) = Len(Meant(a))
                              /\ \A k \in 1..Len(dst[a]) : OnWay(Meant(a)[k], dst[a][k])
        /\ \A a \in Block \ present : dst[a] = <<>>
    BY <1>1 DEF WayInv
  <2>2. ASSUME NEW a \in Block
        PROVE  Len(t[a]) = Len(dst[a]) /\ \A k \in 1..Len(t[a]) : t[a][k] = IF dst[a][k] = b THEN d ELSE dst[a][k]
    <3>1. dst[a] \in Terminators
      BY DEF Shape, CfgGraph
    <3> QED
      BY <1>4, <1>9, <3>1, ReplacedDestinations
  <2>3. \A x : OnWay(x, b) => OnWay(x, d)
    BY <1>3, OnWayFacts DEF IsBranch
  <2>4. ASSUME NEW a \in present
        PROVE  Len(t[a]) = Len(Meant(a)) /\ \A k \in 1..Len(t[a]) : OnWay(Meant(a)[k], t[a][k])
    <3>1. a \in Block
      BY DEF QueueInv
    <3> QED
      BY <2>1, <2>2, <2>3, <3>1
  <2>5. ASSUME NEW a \in Block \ present PROVE t[a] = <<>>
    <3>1. dst[a] = <<>> /\ Len(<<>>) = 0
      BY <2>1
    <3>2. t[a] \in Seq(Block) /\ Len(t[a]) = 0
      BY <1>10, <2>2, <3>1, DestinationsAreBlocks
    <3> QED
      BY <3>2, EmptySeq
  <2>6. \A x, y : OnWay(x, y)' <=> OnWay(x, y)
    BY <1>2, SourceKept
  <2>7. \A a : Meant(a)' = Meant(a)
    BY <1>2, SourceKept
  <2>8. /\ cfg' = [a \in Block |-> Meant(a)']
        /\ \A a \in present' : /\ Len(dst'[a]) = Len(Meant(a)')
                               /\ \A k \in 1..Len(dst'[a]) : OnWay(Meant(a)[k], t[a][k])'
        /\ \A a \in Block \ present' : dst'[a] = <<>>
    BY <1>2, <1>6, <2>1, <2>4, <2>5, <2>6, <2>7
  <2> QED
    BY <1>6, <2>8 DEF WayInv
<1>17. ExactInv'
  <2>1. ASSUME NEW c \in Block, c \in present, NEW u PROVE Listed(c, u, Times(users'[c], u), UsesOf(t, phis, c, u))
    <3>1. Listed(c, u, Times(users[c], u), UsesOf(dst, phis, c, u)) /\ Times(users[b], u) = UsesOf(dst, phis, b, u)
      BY <1>1, <1>3, <2>1 DEF IsBranch, ExactInv, Exact, Listed
    <3>2. UsesOf(t, phis, c, u) =
            IF c = b THEN 0
            ELSE IF c = d THEN UsesOf(dst, phis, d, u) + UsesOf(dst, phis, b, u)
            ELSE UsesOf(dst, phis, c, u)
      BY <1>12 DEF UsesRedirected
    <3>3. CASE c = b
      <4>1. users'[b] = <<>>
        BY <1>6, <1>10
      <4>2. Times(<<>>, u) = 0
        BY TimesInNone
      <4>3. ~Twice(b, u)
        BY <1>3 DEF IsBranch
      <4> QED
        BY <3>2, <3>3, <4>1, <4>2, <4>3 DEF Listed
    <3>4. CASE c = d
      <4>1. users'[d] = us[d]
        BY <1>4, <1>6, <1>10
      <4>2. Twice(d, u) => UsesOf(dst, phis, b, u) = 0
        <5> SUFFICES ASSUME Twice(d, u) PROVE UsesOf(dst, phis, b, u) = 0
          OBVIOUS
        <5>1. PICK a \in Block : \E k \in 1..source.phis[a] : u = Phi(a, k) /\ Times(source.dst[d], a) = 2
          BY DEF Twice
        <5>2. PICK k \in 1..source.phis[a] : u = Phi(a, k)
          BY <5>1
        <5>3. UsesOf(dst, phis, b, Phi(a, k)) = IF k \in DOMAIN phis[a] /\ b \in DOMAIN phis[a][k] THEN 1 ELSE 0
          BY PhiUses
        <5> QED
          BY <1>4, <5>2, <5>3
      <4>3. UsesOf(dst, phis, d, u) \in Nat /\ Times(users[d], u) \in Nat
        BY <1>4, UsesOfSome, TimesIsCounted DEF Shape
      <4>4. Times(users'[d], u) = Times(users[d], u) + UsesOf(dst, phis, b, u)
        BY <1>11, <3>1, <4>1
      <4> QED
        BY <3>1, <3>2, <3>4, <4>2, <4>3, <4>4, <1>4 DEF Listed
    <3>5. CASE c # b /\ c # d
      <4>1. users'[c] = users[c]
        BY <1>6, <1>10, <3>5
      <4> QED
        BY <3>1, <3>2, <3>5, <4>1
    <3> QED
      BY <3>3, <3>4, <3>5
  <2>2. ASSUME NEW c \in Block, c \notin present, NEW u PROVE UsesOf(t, phis, c, u) = 0
    <3>1. UsesOf(dst, phis, c, u) = 0 /\ c # d
      BY <1>4, <2>2 DEF ExactInv, Exact
    <3> QED
      BY <1>12, <3>1 DEF UsesRedirected
  <2>3. Exact(dst', phis', users', present')
    BY <1>2, <1>6, <2>1, <2>2 DEF Exact
  <2> QED
    BY <1>2, <2>3, ExactNext
<1>18. UnusedInv'
  <2>1. ASSUME NEW c \in ToSet(removeQueue), FewPhis(c), NEW u PROVE UsesOf(t, phis, c, u) = 0
    <3>1. \A v : UsesOf(dst, phis, c, v) = 0
      BY <2>1 DEF UnusedInv
    <3>2. c # d
      <4> SUFFICES ASSUME c = d PROVE FALSE
        OBVIOUS
      <4>1. UsesOf(dst, phis, d, Terminator(b, dst[b])) = Times(dst[b], d)
        BY TerminatorUses
      <4>2. Times(<<d>>, d) = 1
        BY TimesInOne
      <4> QED
        BY <1>4, <3>1, <4>1, <4>2
    <3> QED
      BY <1>12, <3>1, <3>2 DEF UsesRedirected
  <2>2. ASSUME NEW u PROVE UsesOf(t, phis, b, u) = 0
    BY <1>12 DEF UsesRedirected
  <2>3. \A c : FewPhis(c)' <=> FewPhis(c)
    BY <1>2, SourceKept
  <2> QED
    BY <1>1, <1>2, <1>6, <2>1, <2>2, <2>3 DEF UnusedInv
<1>19. TwiceInv'
  <2>1. source.phis[b] = 0
    BY <1>3 DEF IsBranch, Passed
  <2> QED
    BY <1>2, <2>1 DEF TwiceInv
<1> QED
  BY <1>13, <1>14, <1>15, <1>16, <1>17, <1>18, <1>19

-----------------------------------------------------------------------------
(* The inductive invariant. The part about uses needs that no phi names a  *)
(* block that only branches; the part about the queue does not.            *)
IInv == QueueInv /\ source \in Sources /\ (NoPhiBehindBranch => CleanInv)

LEMMA SourceStays == [Next]_vars => source' = source
BY DEF Next, vars, Evaluate, Analyse, PruneUnreached, PruneBranch, ReplaceByItself, Keep, Visiting, EndVisits,
       RemoveNext, EndRound

LEMMA CleanStep ==
  ASSUME Invs, [Next]_vars
  PROVE  CleanInv'
<1>1. CASE \E b \in Block : PruneUnreached(b) \/ PruneBranch(b) \/ ReplaceByItself(b) \/ Keep(b)
  <2>1. PICK b \in Block : PruneUnreached(b) \/ PruneBranch(b) \/ ReplaceByItself(b) \/ Keep(b)
    BY <1>1
  <2> QED
    BY <2>1, CleanPruneUnreached, CleanPruneBranch, CleanReplaceByItself, CleanKeep
<1>2. CASE UNCHANGED vars
  BY <1>2, CleanSame
<1> QED
  BY <1>1, <1>2, CleanEvaluate, CleanAnalyse, CleanEndVisits, CleanRemoveNext, CleanEndRound DEF Next

(* The queue is sound always; the uses are kept where no phi names a block *)
(* that only branches.                                                     *)
THEOREM Invariance == Spec => []IInv
<1>1. Init => IInv
  BY QueueInit, CleanInit DEF Init, IInv
<1>2. IInv /\ [Next]_vars => IInv'
  <2> SUFFICES ASSUME IInv, [Next]_vars PROVE IInv'
    OBVIOUS
  <2>1. QueueInv' /\ source' = source
    BY QueueStep, SourceStays DEF IInv
  <2>2. NoPhiBehindBranch' <=> NoPhiBehindBranch
    BY <2>1, SourceKept
  <2>3. NoPhiBehindBranch => CleanInv'
    BY CleanStep DEF IInv, Invs
  <2> QED
    BY <2>1, <2>2, <2>3 DEF IInv
<1> QED
  BY <1>1, <1>2, PTL DEF Spec

-----------------------------------------------------------------------------
(* What the invariant says at the end.                                     *)
LEMMA PresentBlocks ==
  ASSUME Invs, phase # "evaluate"
  PROVE  /\ \A a \in present : ToSet(dst[a]) \subseteq present
         /\ \A a \in Block : dst[a] \in Seq(Block) /\ DOMAIN dst[a] = 1..Len(dst[a])
         /\ present \subseteq Block
<1> USE DEF Invs, CleanInv
<1>1. \A a \in Block : dst[a] \in Seq(Block) /\ DOMAIN dst[a] = 1..Len(dst[a]) /\ ToSet(dst[a]) \subseteq Block
  BY DestinationsAreBlocks DEF Shape
<1>2. ASSUME NEW a \in present, NEW c \in ToSet(dst[a]), c \notin present PROVE FALSE
  <2>1. a \in Block /\ c \in Block
    BY <1>1 DEF QueueInv
  <2>2. UsesOf(dst, phis, c, Terminator(a, dst[a])) = 0
    BY <1>2, <2>1 DEF ExactInv, Exact
  <2>3. UsesOf(dst, phis, c, Terminator(a, dst[a])) = Times(dst[a], c)
    BY <2>1, TerminatorUses
  <2>4. dst[a] \in Seq(Block)
    BY <1>1, <2>1
  <2>5. Times(dst[a], c) # 0
    BY <2>4, TimesIsCounted
  <2> QED
    BY <2>2, <2>3, <2>5
<1> QED
  BY <1>1, <1>2 DEF QueueInv

LEMMA FlowIsKept ==
  ASSUME Invs
  PROVE  FlowKept
<1> USE DEF Invs, CleanInv
<1> SUFFICES ASSUME phase = "done", NEW b \in Reachable(dst)
             PROVE  b \in present /\ dst[b] = [k \in DOMAIN Meant(b) |-> Through(Meant(b)[k])]
  BY DEF FlowKept
<1>1. b \in present /\ b \in Block
  <2>1. dst \in CfgGraph /\ Entry \in present /\ present \in SUBSET Block
    BY DEF Shape, QueueInv
  <2>2. \A a \in present : ToSet(dst[a]) \subseteq present
    BY PresentBlocks
  <2>3. Reachable(dst) \subseteq present
    BY <2>1, <2>2, ReachableLeast
  <2> QED
    BY <2>1, <2>3
<1>2. Len(dst[b]) = Len(Meant(b)) /\ \A k \in 1..Len(dst[b]) : OnWay(Meant(b)[k], dst[b][k])
  BY <1>1 DEF WayInv
<1>3. Meant(b) \in Seq(Block) /\ DOMAIN Meant(b) = 1..Len(Meant(b)) /\ \A k \in DOMAIN Meant(b) : Meant(b)[k] \in Block
  <2>1. [x \in Block |-> Meant(x)] \in CfgGraph
    BY MeantIs DEF CfgGraph
  <2>2. Meant(b) \in Seq(Block) /\ DOMAIN Meant(b) = 1..Len(Meant(b))
    BY <1>1, <2>1, DestinationsAreBlocks
  <2> QED
    BY <2>2, ElementOfSeq
<1>4. dst[b] \in Seq(Block) /\ DOMAIN dst[b] = 1..Len(dst[b])
  BY <1>1, PresentBlocks
<1>5. ASSUME NEW k \in DOMAIN Meant(b) PROVE dst[b][k] = Through(Meant(b)[k])
  <2>1. PICK c : c = dst[b][k]
    OBVIOUS
  <2>2. c \in ToSet(dst[b])
    BY <1>2, <1>3, <1>4, <2>1 DEF ToSet
  <2>3. c \in present /\ c \in Block
    BY <1>1, <2>2, PresentBlocks
  <2>4. ~Passed(c)
    <3> SUFFICES ASSUME Passed(c) PROVE FALSE
      OBVIOUS
    <3>1. Stays(c) /\ c # Entry
      BY <2>3 DEF StaysInv, Passed
    <3>2. ~OnlyBranches(c)
      BY <2>3, <3>1 DEF Stays, Candidate
    <3>3. Len(phis[c]) = source.phis[c] /\ Len(dst[c]) = Len(Meant(c))
      BY <2>3 DEF NamesInv, WayInv
    <3> QED
      BY <3>2, <3>3 DEF OnlyBranches, Passed
  <2>5. OnWay(Meant(b)[k], c)
    BY <1>2, <1>3, <2>1
  <2> QED
    BY <1>3, <2>1, <2>3, <2>4, <2>5, WayEnds
<1>6. dst[b] = [k \in DOMAIN Meant(b) |-> Through(Meant(b)[k])]
  <2>1. PICK s \in Seq(Block) : s = dst[b]
    BY <1>4
  <2>2. s = [k \in DOMAIN s |-> s[k]]
    BY <2>1
  <2>3. DOMAIN s = DOMAIN Meant(b)
    BY <1>2, <1>3, <1>4, <2>1
  <2> QED
    BY <1>5, <2>1, <2>2, <2>3
<1> QED
  BY <1>1, <1>6

(* Uses, as the property counts them: a phi weighs what it had edges.      *)
LEMMA UsesIs ==
  ASSUME Shape, NEW b, NEW u
  PROVE  /\ (\E a \in Block : u = Terminator(a, dst[a])) => Uses(b, u) = UsesOf(dst, phis, b, u)
         /\ \A a \in Block : \A k \in DOMAIN phis[a] : u = Phi(a, k) =>
              Uses(b, u) = IF b \in DOMAIN phis[a][k] THEN Times(source.dst[b], a) ELSE 0
         /\ NoUser(dst, phis, u) => Uses(b, u) = 0
<1>1. ASSUME NEW a \in Block, u = Terminator(a, dst[a]) PROVE Uses(b, u) = UsesOf(dst, phis, b, u)
  <2>1. UsesOf(dst, phis, b, Terminator(a, dst[a])) = Times(dst[a], b)
    BY TerminatorUses
  <2>2. u \in User /\ ~IsPhi(u) /\ u[2] = a
    BY <1>1, UserFacts DEF User
  <2> QED
    BY <1>1, <2>1, <2>2 DEF Uses
<1>2. ASSUME NEW a \in Block, NEW k \in DOMAIN phis[a], u = Phi(a, k)
      PROVE  Uses(b, u) = IF b \in DOMAIN phis[a][k] THEN Times(source.dst[b], a) ELSE 0
  <2>1. u \in User /\ u[2] = a /\ u[3] = k /\ IsPhi(u)
    <3>1. k \in Nat
      <4>1. phis[a] \in Seq(Maps)
        BY DEF Shape
      <4> QED
        BY <4>1, LenProperties
    <3> QED
      BY <1>2, <3>1, UserFacts DEF User
  <2> QED
    BY <2>1 DEF Uses
<1>3. ASSUME NoUser(dst, phis, u) PROVE Uses(b, u) = 0
  <2>1. u \notin User
    BY <1>3 DEF User, NoUser
  <2> QED
    BY <2>1 DEF Uses
<1> QED
  BY <1>1, <1>2, <1>3

LEMMA QueueIsEmpty ==
  ASSUME Invs, BetweenRounds
  PROVE  ToSet(removeQueue) = {}
<1>1. CASE phase = "done"
  BY <1>1, TimesInNone DEF Invs, CleanInv, StaysInv
<1>2. CASE phase = "simplify" /\ next = 1
  <2> SUFFICES ASSUME NEW b \in ToSet(removeQueue) PROVE FALSE
    OBVIOUS
  <2>1. b \in Block /\ b < 1
    BY <1>2 DEF Invs, QueueInv
  <2>2. b \in 1..N
    BY <2>1, BlocksAre
  <2> QED
    BY <2>1, <2>2, NAssumption
<1> QED
  BY <1>1, <1>2 DEF BetweenRounds

LEMMA UsersAreExact ==
  ASSUME Invs
  PROVE  BlockUsersExact
<1> USE DEF Invs, CleanInv
<1> SUFFICES ASSUME BetweenRounds, NEW b \in Block
             PROVE  /\ b \notin present => \A u \in User : Uses(b, u) = 0
                    /\ b \in present => \A u \in User \cup ToSet(users[b]) : Times(users[b], u) = Uses(b, u)
  BY Zenon DEF BlockUsersExact
<1>1. ToSet(removeQueue) = {}
  BY QueueIsEmpty
<1>2. ASSUME NEW a \in Block, NEW k \in DOMAIN phis[a]
      PROVE  /\ a \in present /\ k \in 1..source.phis[a]
             /\ UsesOf(dst, phis, b, Phi(a, k)) = IF b \in DOMAIN phis[a][k] THEN 1 ELSE 0
             /\ Uses(b, Phi(a, k)) = IF b \in DOMAIN phis[a][k] THEN Times(source.dst[b], a) ELSE 0
             /\ Twice(b, Phi(a, k)) <=> Times(source.dst[b], a) = 2
  <2>1. PICK p \in Seq(Maps) : p = phis[a]
    BY DEF Shape
  <2>2. DOMAIN p = 1..Len(p) /\ Len(p) \in Nat
    BY LenProperties
  <2>3. Len(p) = IF a \in present THEN source.phis[a] ELSE 0
    BY <2>1 DEF NamesInv
  <2>4. a \in present /\ k \in 1..source.phis[a]
    BY <2>1, <2>2, <2>3
  <2>5. UsesOf(dst, phis, b, Phi(a, k)) = IF b \in DOMAIN phis[a][k] THEN 1 ELSE 0
    BY PhiUses
  <2>6. Uses(b, Phi(a, k)) = IF b \in DOMAIN phis[a][k] THEN Times(source.dst[b], a) ELSE 0
    BY UsesIs
  <2>7. Twice(b, Phi(a, k)) <=> Times(source.dst[b], a) = 2
    BY <2>4, UserFacts DEF Twice
  <2> QED
    BY <2>4, <2>5, <2>6, <2>7
<1>3. ASSUME NEW a \in Block
      PROVE  /\ Uses(b, Terminator(a, dst[a])) = UsesOf(dst, phis, b, Terminator(a, dst[a]))
             /\ ~Twice(b, Terminator(a, dst[a]))
  BY UsesIs, UserFacts DEF Twice
<1>4. ASSUME NEW u, NoUser(dst, phis, u) PROVE UsesOf(dst, phis, b, u) = 0 /\ Uses(b, u) = 0 /\ ~Twice(b, u)
  <2>1. Known(b, u)
    BY AllKnown
  <2> QED
    BY <1>4, <2>1, UsesIs, OtherUses DEF Known, NoUser
<1>5. ASSUME b \notin present, NEW u PROVE Uses(b, u) = 0
  <2>1. UsesOf(dst, phis, b, u) = 0
    BY <1>5 DEF ExactInv, Exact
  <2>2. UserKinds(dst, phis, u)
    BY UserKindsAre
  <2> QED
    BY <1>2, <1>3, <1>4, <2>1, <2>2 DEF UserKinds
<1>6. ASSUME b \in present, NEW u PROVE Times(users[b], u) = Uses(b, u)
  <2>1. Listed(b, u, Times(users[b], u), UsesOf(dst, phis, b, u))
    BY <1>6 DEF ExactInv, Exact
  <2>2. CASE \E a \in Block : u = Terminator(a, dst[a])
    BY <1>3, <2>1, <2>2 DEF Listed
  <2>3. ASSUME NEW a \in Block, NEW k \in DOMAIN phis[a], u = Phi(a, k) PROVE Times(users[b], u) = Uses(b, u)
    <3>1. /\ a \in present /\ k \in 1..source.phis[a]
          /\ UsesOf(dst, phis, b, u) = IF b \in DOMAIN phis[a][k] THEN 1 ELSE 0
          /\ Uses(b, u) = IF b \in DOMAIN phis[a][k] THEN Times(source.dst[b], a) ELSE 0
          /\ Twice(b, u) <=> Times(source.dst[b], a) = 2
      BY <1>2, <2>3
    <3>2. Times(source.dst[b], a) \in 0..2 /\ (IsEdge(source.dst, b, a) <=> Times(source.dst[b], a) # 0)
      BY PhiUsersTimes
    <3>3. b \in DOMAIN phis[a][k] <=> IsEdge(source.dst, b, a)
      BY <1>1, <1>6 DEF NamesInv
    <3> QED
      BY <2>1, <3>1, <3>2, <3>3 DEF Listed
  <2>4. CASE NoUser(dst, phis, u)
    BY <1>4, <2>1, <2>4 DEF Listed
  <2>5. UserKinds(dst, phis, u)
    BY UserKindsAre
  <2> QED
    BY <2>2, <2>3, <2>4, <2>5 DEF UserKinds
<1> QED
  BY <1>5, <1>6

LEMMA RemovedIsUnused ==
  ASSUME QueueInv, NoPhiBehindBranch => CleanInv
  PROVE  RemovedUnused
BY DEF QueueInv, CleanInv, UnusedInv, RemovedUnused

LEMMA PhisStillMatch ==
  ASSUME Invs
  PROVE  PhisMatch
<1> USE DEF Invs, CleanInv
<1> SUFFICES ASSUME phase = "done", NoPhiLosesBranch, NEW b \in present, NEW k \in DOMAIN phis[b]
             PROVE  /\ DOMAIN phis[b][k] = ToSet(Preds(dst, b))
                    /\ \A p \in DOMAIN phis[b][k] : phis[b][k][p] = p
  BY DEF PhisMatch
<1>1. b \in Block /\ present \subseteq Block
  BY DEF QueueInv
<1>2. PICK m \in Maps : m = phis[b][k]
  <2>1. phis[b] \in Seq(Maps)
    BY <1>1 DEF Shape
  <2> QED
    BY <2>1, ElementOfSeq, LenProperties
<1>3. PICK D \in SUBSET Block : m = [p \in D |-> p]
  BY DEF Maps
<1>4. DOMAIN m = D /\ \A p \in D : m[p] = p
  BY <1>3
<1>5. k \in 1..source.phis[b] /\ source.phis[b] # 0
  <2>1. phis[b] \in Seq(Maps)
    BY <1>1 DEF Shape
  <2>2. DOMAIN phis[b] = 1..Len(phis[b]) /\ Len(phis[b]) \in Nat
    BY <2>1, LenProperties
  <2>3. Len(phis[b]) = source.phis[b]
    BY <1>1 DEF NamesInv
  <2> QED
    BY <2>2, <2>3
<1>6. ~Passed(b)
  BY <1>5 DEF Passed
<1>7. /\ \A a \in present : /\ Len(dst[a]) = Len(Meant(a))
                            /\ \A j \in 1..Len(dst[a]) : OnWay(Meant(a)[j], dst[a][j])
      /\ \A a \in Block \ present : dst[a] = <<>>
  BY DEF WayInv
<1>8. ASSUME NEW a \in Block
      PROVE  /\ DOMAIN dst[a] = 1..Len(dst[a])
             /\ DOMAIN Meant(a) = 1..Len(Meant(a))
             /\ \A j \in DOMAIN Meant(a) : Meant(a)[j] \in Block
  <2>1. [x \in Block |-> Meant(x)] \in CfgGraph
    BY MeantIs DEF CfgGraph
  <2>2. Meant(a) \in Seq(Block) /\ DOMAIN Meant(a) = 1..Len(Meant(a))
    BY <2>1, DestinationsAreBlocks
  <2>3. DOMAIN dst[a] = 1..Len(dst[a])
    BY PresentBlocks
  <2> QED
    BY <2>2, <2>3, ElementOfSeq
(* A block the phi names goes to the block of the phi.                     *)
<1>9. ASSUME NEW p \in D PROVE b \in ToSet(dst[p])
  <2>1. p \in Block /\ p \in DOMAIN phis[b][k]
    BY <1>2, <1>4
  <2>2. b \in ToSet(source.dst[p])
    BY <1>1, <2>1 DEF NamesInv, IsEdge
  <2>3. b \in ToSet(Meant(p))
    BY <1>5, <2>1, <2>2 DEF NoPhiLosesBranch
  <2>4. p \in present
    <3> SUFFICES ASSUME p \notin present PROVE FALSE
      OBVIOUS
    <3>1. UsesOf(dst, phis, p, Phi(b, k)) = 0
      BY <2>1 DEF ExactInv, Exact
    <3>2. UsesOf(dst, phis, p, Phi(b, k)) = IF k \in DOMAIN phis[b] /\ p \in DOMAIN phis[b][k] THEN 1 ELSE 0
      BY <1>1, PhiUses
    <3> QED
      BY <2>1, <3>1, <3>2
  <2>5. PICK j \in DOMAIN Meant(p) : Meant(p)[j] = b
    BY <2>3 DEF ToSet
  <2>6. j \in DOMAIN dst[p] /\ OnWay(b, dst[p][j])
    BY <1>7, <1>8, <2>1, <2>4, <2>5
  <2>7. dst[p][j] \in ToSet(dst[p])
    BY <2>6 DEF ToSet
  <2>8. dst[p][j] \in Block
    BY <1>1, <2>4, <2>7, PresentBlocks
  <2> QED
    BY <1>1, <1>6, <2>6, <2>7, <2>8, OnWayFacts
(* A block that goes there did from the start: what only branches to the   *)
(* block of a phi is named by it.                                          *)
<1>10. ASSUME NEW p \in Block, b \in ToSet(dst[p]) PROVE p \in D
  <2>1. PICK j \in DOMAIN dst[p] : dst[p][j] = b
    BY <1>10 DEF ToSet
  <2>2. p \in present
    <3> SUFFICES ASSUME p \notin present PROVE FALSE
      OBVIOUS
    <3>1. dst[p] = <<>>
      BY <1>7
    <3> QED
      BY <2>1, <3>1
  <2>3. j \in DOMAIN Meant(p) /\ Meant(p)[j] \in Block /\ OnWay(Meant(p)[j], b)
    BY <1>7, <1>8, <2>1, <2>2
  <2>4. ASSUME NEW c \in Block, Passed(c), Meant(c)[1] = b PROVE FALSE
    <3>1. IsEdge(source.dst, c, b)
      BY <2>4, PassedIs DEF IsEdge
    <3>2. Names(source, Phi(b, k), c)
      BY <1>1, <1>5, <3>1 DEF Names
    <3>3. PICK l \in Seq(AnyUser) : l = PhiUsers(source, c)
      BY PhiUsersTimes
    <3>4. PICK u : u = Phi(b, k)
      OBVIOUS
    <3>5. Times(PhiUsers(source, c), u) # 0
      BY <3>2, <3>4, PhiUsersTimes
    <3>6. Times(l, u) # 0
      BY <3>3, <3>5
    <3>7. u \in ToSet(l)
      BY <3>6, TimesIsCounted
    <3>8. NamedBy(c) = {}
      BY <2>4 DEF NoPhiBehindBranch
    <3> QED
      BY <3>3, <3>7, <3>8 DEF NamedBy
  <2>5. Meant(p)[j] = b
    BY <1>1, <2>3, <2>4, OnWayFacts
  <2>6. b \in ToSet(Meant(p))
    BY <2>3, <2>5 DEF ToSet
  <2>7. IsEdge(source.dst, p, b)
    BY <2>6, MeantIs DEF IsEdge
  <2>8. p \in present \ ToSet(removeQueue)
    BY <2>2, TimesInNone DEF StaysInv
  <2> QED
    BY <1>1, <1>2, <1>4, <2>7, <2>8 DEF NamesInv
<1>11. ToSet(Preds(dst, b)) = {a \in Block : b \in ToSet(dst[a])}
  BY <1>1, PredsAreSources DEF Shape
<1>12. D = ToSet(Preds(dst, b))
  BY <1>9, <1>10, <1>11
<1> QED
  BY <1>2, <1>4, <1>12

-----------------------------------------------------------------------------
(* The simplified function goes where the function went: no way leads to a *)
(* block that CfgSimplifier has removed, and each branch goes on to where  *)
(* the blocks that only branch led to.                                     *)
THEOREM FlowKeptAlways == Spec => []FlowKept
<1>1. IInv => FlowKept
  BY FlowIsKept DEF IInv, Invs, FlowKept
<1> QED
  BY <1>1, Invariance, PTL

(* Between rounds a branch is on the user list of each block it goes to as *)
(* often as it goes there, a phi on that of each block it names, once for  *)
(* every edge between them that AllocPromoter added it for, and nothing    *)
(* names a block that is gone.                                             *)
THEOREM BlockUsersExactAlways == Spec => []BlockUsersExact
<1>1. IInv => BlockUsersExact
  BY UsersAreExact DEF IInv, Invs, BlockUsersExact
<1> QED
  BY <1>1, Invariance, PTL

(* At the end phis have a value for every way into their block and for no  *)
(* other, unless a branch on a constant lost one.                          *)
THEOREM PhisMatchAlways == Spec => []PhisMatch
<1>1. IInv => PhisMatch
  BY PhisStillMatch DEF IInv, Invs, PhisMatch
<1> QED
  BY <1>1, Invariance, PTL

(* The assertion at CfgSimplifier.cc:59, that what is removed is not used, *)
(* holds of every block on whose list at most two phis are, each of them   *)
(* once; no block is removed twice or is the entry.                        *)
THEOREM RemovedUnusedAlways == Spec => []RemovedUnused
<1>1. IInv => RemovedUnused
  BY RemovedIsUnused DEF IInv
<1> QED
  BY <1>1, Invariance, PTL
=============================================================================
