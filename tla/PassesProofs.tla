---------------------------- MODULE PassesProofs ----------------------------
(***************************************************************************)
(* The passes keep the program they share sound, in whatever order they    *)
(* run: the user lists match the operands, what uses comes after what it   *)
(* uses, nothing is removed twice but what AbortsOnTwoValues names, and    *)
(* the StackSimulator throws on just the code it should.  For any code     *)
(* that PassesAssumption admits, and any number of registers.              *)
(***************************************************************************)
EXTENDS Passes, FiniteSetTheorems, SequenceTheorems, WellFoundedInduction, TLAPS

-----------------------------------------------------------------------------
(* Induction over an interval of numbers and the existence of functions    *)
(* that are defined by recursion, stated with sets and functions instead   *)
(* of operators, and facts about sequences.                                *)

(* A set of natural numbers has a least element.                           *)
LEMMA LeastElement ==
  ASSUME NEW T, T \subseteq Nat, T # {}
  PROVE  \E m \in T : \A k \in T : m <= k
<1> DEFINE R == OpToRel(<, Nat)
<1>1. IsWellFoundedOn(R, Nat)
  BY NatLessThanWellFounded
<1>2. PICK m \in T : \A k \in T : ~(<<k, m>> \in R)
  <2> HIDE DEF R
  <2> QED
    BY <1>1, WFMin
<1>3. ASSUME NEW k \in T PROVE m <= k
  <2>1. k \in Nat /\ m \in Nat
    OBVIOUS
  <2>2. ~(<<k, m>> \in R)
    BY <1>2
  <2>3. k < m => <<k, m>> \in R
    BY <2>1, Zenon DEF OpToRel
  <2> HIDE DEF R
  <2> QED
    BY <2>1, <2>2, <2>3
<1> QED
  BY <1>3

(* Induction up to n, for the set G of the numbers a fact is good for.     *)
LEMMA IntervalInduction ==
  ASSUME NEW n \in Nat, NEW G, 0 \in G,
         \A k \in 0..(n-1) : k \in G => k + 1 \in G
  PROVE  0..n \subseteq G
<1> SUFFICES ASSUME (0..n) \ G # {} PROVE FALSE
  OBVIOUS
<1>1. PICK m \in (0..n) \ G : \A k \in (0..n) \ G : m <= k
  <2>1. (0..n) \ G \subseteq Nat
    OBVIOUS
  <2> QED
    BY <2>1, LeastElement
<1>2. m # 0 /\ m - 1 \in 0..(n-1) /\ (m - 1) + 1 = m
  BY <1>1
<1>3. m - 1 \in G
  BY <1>1, <1>2
<1> QED
  BY <1>1, <1>2, <1>3

(* A function that gives each number but the first from the one before.    *)
IsIteration(f, n, T, base, step) ==
  /\ f \in [0..n -> T]
  /\ f[0] = base
  /\ \A k \in 1..n : f[k] = step[<<k, f[k-1]>>]

LEMMA IterationExists ==
  ASSUME NEW n \in Nat, NEW T, NEW base \in T,
         NEW step, \A k \in 1..n, x \in T : step[<<k, x>>] \in T
  PROVE  \E f : IsIteration(f, n, T, base, step)
<1> DEFINE G == {m \in 0..n : \E f : IsIteration(f, m, T, base, step)}
<1>1. 0 \in G
  <2>1. IsIteration([k \in 0..0 |-> base], 0, T, base, step)
    BY DEF IsIteration
  <2> QED
    BY <2>1
<1>2. ASSUME NEW m \in 0..(n-1), m \in G PROVE m + 1 \in G
  <2>1. PICK f : IsIteration(f, m, T, base, step)
    BY <1>2
  <2> DEFINE g == [k \in 0..(m+1) |-> IF k = m + 1 THEN step[<<m+1, f[m]>>] ELSE f[k]]
  <2>2. g \in [0..(m+1) -> T]
    <3>1. step[<<m+1, f[m]>>] \in T
      BY <2>1 DEF IsIteration
    <3>2. \A k \in 0..(m+1) : k # m + 1 => k \in 0..m
      OBVIOUS
    <3> QED
      BY <2>1, <3>1, <3>2 DEF IsIteration
  <2>3. g[0] = base
    BY <2>1 DEF IsIteration
  <2>4. ASSUME NEW k \in 1..(m+1) PROVE g[k] = step[<<k, g[k-1]>>]
    <3>1. k - 1 \in 0..m /\ g[k-1] = f[k-1]
      OBVIOUS
    <3>2. CASE k = m + 1
      <4>1. k - 1 = m /\ g[k] = step[<<k, f[m]>>]
        BY <3>2
      <4> HIDE DEF g
      <4> QED
        BY <3>1, <4>1
    <3>3. CASE k # m + 1
      <4>1. k \in 1..m /\ g[k] = f[k]
        BY <3>3
      <4> HIDE DEF g
      <4> QED
        BY <2>1, <3>1, <4>1 DEF IsIteration
    <3> QED
      BY <3>2, <3>3
  <2>5. IsIteration(g, m + 1, T, base, step)
    <3> HIDE DEF g
    <3> QED
      BY <2>2, <2>3, <2>4 DEF IsIteration
  <2> QED
    BY <2>5
<1>3. 0..n \subseteq G
  <2> HIDE DEF G
  <2> QED
    BY <1>1, <1>2, IntervalInduction
<1> QED
  BY <1>3

(* A function on D that is defined by its values on what has a smaller     *)
(* measure: one that gives itself when F is applied to it.                 *)
IsRecursion(F, Maps, D, M, mu) ==
  /\ M \in Nat
  /\ mu \in [D -> 0..M]
  /\ F \in [Maps -> Maps]
  /\ \A g, h \in Maps, x \in D :
       (\A y \in D : mu[y] < mu[x] => g[y] = h[y]) => F[g][x] = F[h][x]

LEMMA RecursionExists ==
  ASSUME NEW D, NEW T, NEW any \in T, NEW Maps, Maps = [D -> T],
         NEW M, NEW mu, NEW F, IsRecursion(F, Maps, D, M, mu)
  PROVE  \E f \in Maps : F[f] = f
<1> USE DEF IsRecursion
<1> DEFINE base == [x \in D |-> any]
           step == [x \in (1..(M+1)) \X [D -> T] |-> F[x[2]]]
<1>1. \A k \in 1..(M+1), g \in [D -> T] : step[<<k, g>>] = F[g]
  OBVIOUS
<1>2. base \in [D -> T] /\ \A k \in 1..(M+1), g \in [D -> T] : step[<<k, g>>] \in [D -> T]
  OBVIOUS
<1> HIDE DEF base, step
<1>3. PICK it : IsIteration(it, M + 1, [D -> T], base, step)
  <2>1. M + 1 \in Nat
    OBVIOUS
  <2>2. base \in Maps /\ \A k \in 1..(M+1), g \in Maps : step[<<k, g>>] \in Maps
    BY <1>2, Zenon
  <2>3. \E it : IsIteration(it, M + 1, Maps, base, step)
    BY <2>1, <2>2, IterationExists
  <2> QED
    BY <2>3, Zenon
<1>4. \A k \in 0..(M+1) : it[k] \in [D -> T]
  BY <1>3 DEF IsIteration
<1>5. \A k \in 0..M : it[k+1] = F[it[k]]
  <2> SUFFICES ASSUME NEW k \in 0..M PROVE it[k+1] = F[it[k]]
    OBVIOUS
  <2>1. k + 1 \in 1..(M+1) /\ (k + 1) - 1 = k /\ k \in 0..(M+1)
    OBVIOUS
  <2>2. it[k+1] = step[<<k+1, it[k]>>]
    BY <1>3, <2>1 DEF IsIteration
  <2> QED
    BY <1>1, <1>4, <2>1, <2>2
<1> DEFINE G == {k \in 0..(M+1) : \A x \in D : mu[x] < k => F[it[k]][x] = it[k][x]}
<1>6. 0 \in G
  OBVIOUS
<1>7. ASSUME NEW k \in 0..M, k \in G PROVE k + 1 \in G
  <2> SUFFICES ASSUME NEW x \in D, mu[x] < k + 1
               PROVE  F[it[k+1]][x] = it[k+1][x]
    OBVIOUS
  <2>1. k \in 0..(M+1) /\ k + 1 \in 0..(M+1)
    OBVIOUS
  <2>2. \A y \in D : mu[y] < mu[x] => it[k+1][y] = it[k][y]
    <3> SUFFICES ASSUME NEW y \in D, mu[y] < mu[x] PROVE it[k+1][y] = it[k][y]
      OBVIOUS
    <3>1. mu[y] < k
      <4>1. mu[x] \in 0..M /\ mu[y] \in 0..M
        OBVIOUS
      <4> QED
        BY <4>1
    <3> QED
      BY <1>5, <1>7, <3>1
  <2>3. F[it[k+1]][x] = F[it[k]][x]
    BY <1>4, <2>1, <2>2
  <2> QED
    BY <1>5, <2>3
<1>8. 0..(M+1) \subseteq G
  <2>1. M + 1 \in Nat /\ \A k \in 0..((M + 1) - 1) : k \in 0..M
    OBVIOUS
  <2> HIDE DEF G
  <2> QED
    BY <1>6, <1>7, <2>1, IntervalInduction
<1>9. it[M+1] \in [D -> T] /\ F[it[M+1]] \in [D -> T]
  BY <1>4
<1>10. \A x \in D : F[it[M+1]][x] = it[M+1][x]
  BY <1>8
<1>11. F[it[M+1]] = it[M+1]
  BY <1>9, <1>10
<1> QED
  BY <1>9, <1>11

(* A non-empty sequence is its front and its last element.                 *)
LEMMA FrontAndLast ==
  ASSUME NEW S, NEW s \in Seq(S), s # <<>>
  PROVE  /\ Len(s) \in Nat \ {0}
         /\ Front(s) \in Seq(S)
         /\ Len(Front(s)) = Len(s) - 1
         /\ DOMAIN Front(s) = 1..(Len(s) - 1)
         /\ \A k \in 1..(Len(s) - 1) : Front(s)[k] = s[k]
         /\ Last(s) = s[Len(s)]
         /\ Last(s) \in S
         /\ ToSet(s) = ToSet(Front(s)) \cup {Last(s)}
<1>1. Len(s) \in Nat \ {0} /\ DOMAIN s = 1..Len(s)
  BY EmptySeq, LenProperties
<1>2. \A k \in 1..(Len(s) - 1) : s[k] \in S
  BY <1>1, ElementOfSeq
<1>3. /\ Front(s) \in Seq(S)
      /\ Len(Front(s)) = Len(s) - 1
      /\ \A k \in 1..(Len(s) - 1) : Front(s)[k] = s[k]
  BY <1>1, <1>2, SubSeqProperties DEF Front
<1>4. DOMAIN Front(s) = 1..(Len(s) - 1)
  BY <1>3, LenProperties
<1>5. Last(s) \in S /\ Last(s) = s[Len(s)]
  BY <1>1, ElementOfSeq DEF Last
<1>6. ASSUME NEW k \in DOMAIN s PROVE s[k] \in ToSet(Front(s)) \cup {Last(s)}
  <2>1. k = Len(s) \/ k \in 1..(Len(s) - 1)
    BY <1>1
  <2> QED
    BY <2>1, <1>3, <1>4 DEF ToSet, Last
<1>7. ASSUME NEW k \in DOMAIN Front(s) PROVE Front(s)[k] \in ToSet(s)
  <2>1. k \in DOMAIN s /\ Front(s)[k] = s[k]
    BY <1>1, <1>3, <1>4
  <2> QED
    BY <2>1 DEF ToSet
<1>8. Last(s) \in ToSet(s)
  BY <1>1, <1>5 DEF ToSet
<1>9. ToSet(s) = ToSet(Front(s)) \cup {Last(s)}
  BY <1>6, <1>7, <1>8 DEF ToSet
<1> QED
  BY <1>1, <1>3, <1>4, <1>5, <1>9

LEMMA AppendOne ==
  ASSUME NEW S, NEW s \in Seq(S), NEW x \in S
  PROVE  /\ Append(s, x) \in Seq(S)
         /\ Len(s) \in Nat
         /\ Len(Append(s, x)) = Len(s) + 1
         /\ DOMAIN s = 1..Len(s)
         /\ DOMAIN Append(s, x) = 1..(Len(s) + 1)
         /\ \A k \in 1..Len(s) : Append(s, x)[k] = s[k]
         /\ Append(s, x)[Len(s) + 1] = x
         /\ Append(s, x) # <<>>
         /\ Last(Append(s, x)) = x
         /\ ToSet(Append(s, x)) = ToSet(s) \cup {x}
<1>1. /\ Append(s, x) \in Seq(S)
      /\ Append(s, x) # <<>>
      /\ Len(Append(s, x)) = Len(s) + 1
      /\ \A i \in 1..Len(s) : Append(s, x)[i] = s[i]
      /\ Append(s, x)[Len(s) + 1] = x
  BY AppendProperties
<1>2. /\ Len(s) \in Nat /\ DOMAIN s = 1..Len(s)
      /\ DOMAIN Append(s, x) = 1..(Len(s) + 1)
  BY <1>1, LenProperties
<1>3. \A k \in DOMAIN Append(s, x) : k \in DOMAIN s \/ k = Len(s) + 1
  BY <1>2
<1>4. Len(s) + 1 \in DOMAIN Append(s, x) /\ DOMAIN s \subseteq DOMAIN Append(s, x)
  BY <1>2
<1>5. ToSet(Append(s, x)) = ToSet(s) \cup {x}
  BY <1>1, <1>2, <1>3, <1>4 DEF ToSet
<1> QED
  BY <1>1, <1>2, <1>5 DEF Last

LEMMA AppendNewInjective ==
  ASSUME NEW S, NEW s \in Seq(S), NEW x \in S, IsInjective(s), x \notin ToSet(s)
  PROVE  IsInjective(Append(s, x))
<1>1. /\ Len(s) \in Nat
      /\ DOMAIN s = 1..Len(s)
      /\ DOMAIN Append(s, x) = 1..(Len(s) + 1)
      /\ \A k \in 1..Len(s) : Append(s, x)[k] = s[k]
      /\ Append(s, x)[Len(s) + 1] = x
  BY AppendOne
<1>2. \A k \in 1..Len(s) : s[k] # x
  BY <1>1 DEF ToSet
<1> QED
  BY <1>1, <1>2 DEF IsInjective

(* SelectInSeq finds the first place among those that pass, if any does.   *)
LEMMA SelectedPlace ==
  ASSUME NEW n \in Nat, NEW I \in SUBSET (1..n)
  PROVE  /\ I = {} => (IF I # {} THEN Min(I) ELSE 0) = 0
         /\ I # {} => /\ (IF I # {} THEN Min(I) ELSE 0) \in I
                      /\ \A i \in I : (IF I # {} THEN Min(I) ELSE 0) <= i
<1>1. SUFFICES ASSUME I # {} PROVE Min(I) \in I /\ \A i \in I : Min(I) <= i
  OBVIOUS
<1>2. \E m \in I : \A i \in I : m <= i
  <2>1. I \subseteq Nat
    OBVIOUS
  <2> QED
    BY <1>1, <2>1, LeastElement
<1> QED
  BY <1>2 DEF Min

LEMMA ConcatenateTwo ==
  ASSUME NEW S, NEW s \in Seq(S), NEW t \in Seq(S)
  PROVE  s \o t \in Seq(S) /\ ToSet(s \o t) = ToSet(s) \cup ToSet(t)
<1>1. /\ s \o t \in Seq(S)
      /\ Len(s \o t) = Len(s) + Len(t)
      /\ \A i \in 1..(Len(s) + Len(t)) : (s \o t)[i] = IF i <= Len(s) THEN s[i] ELSE t[i - Len(s)]
  BY ConcatProperties
<1>2. /\ Len(s) \in Nat /\ Len(t) \in Nat
      /\ DOMAIN s = 1..Len(s) /\ DOMAIN t = 1..Len(t)
      /\ DOMAIN (s \o t) = 1..(Len(s) + Len(t))
  BY <1>1, LenProperties
<1>3. ASSUME NEW k \in DOMAIN s PROVE s[k] \in ToSet(s \o t)
  <2>1. k \in DOMAIN (s \o t) /\ (s \o t)[k] = s[k]
    BY <1>1, <1>2
  <2> QED
    BY <2>1 DEF ToSet
<1>4. ASSUME NEW k \in DOMAIN t PROVE t[k] \in ToSet(s \o t)
  <2>1. Len(s) + k \in DOMAIN (s \o t) /\ (s \o t)[Len(s) + k] = t[k]
    BY <1>1, <1>2
  <2> QED
    BY <2>1 DEF ToSet
<1>5. ASSUME NEW k \in DOMAIN (s \o t) PROVE (s \o t)[k] \in ToSet(s) \cup ToSet(t)
  <2>1. CASE k <= Len(s)
    <3>1. k \in DOMAIN s /\ (s \o t)[k] = s[k]
      BY <1>1, <1>2, <2>1
    <3> QED
      BY <3>1 DEF ToSet
  <2>2. CASE k > Len(s)
    <3>1. k - Len(s) \in DOMAIN t /\ (s \o t)[k] = t[k - Len(s)]
      BY <1>1, <1>2, <2>2
    <3> QED
      BY <3>1 DEF ToSet
  <2> QED
    BY <1>2, <2>1, <2>2
<1> QED
  BY <1>1, <1>3, <1>4, <1>5 DEF ToSet

-----------------------------------------------------------------------------
(* How often an element occurs in a sequence.                              *)

(* How often elements occur.                                               *)
LEMMA TimesIsCounted ==
  ASSUME NEW S, NEW s \in Seq(S), NEW e
  PROVE  /\ Times(s, e) \in Nat
         /\ IsFiniteSet({k \in DOMAIN s : s[k] = e})
         /\ Times(s, e) = 0 <=> ~Contains(s, e)
         /\ Contains(s, e) <=> e \in ToSet(s)
<1>1. Len(s) \in Nat /\ DOMAIN s = 1..Len(s)
  BY LenProperties
<1>2. IsFiniteSet({k \in DOMAIN s : s[k] = e})
  <2>1. IsFiniteSet(1..Len(s))
    BY <1>1, FS_Interval
  <2> QED
    BY <1>1, <2>1, FS_Subset
<1>3. Times(s, e) \in Nat
  BY <1>2, FS_CardinalityType DEF Times
<1>4. Times(s, e) = 0 <=> {k \in DOMAIN s : s[k] = e} = {}
  BY <1>2, FS_EmptySet DEF Times
<1>5. {k \in DOMAIN s : s[k] = e} = {} <=> ~Contains(s, e)
  BY <1>1 DEF Contains
<1>6. Contains(s, e) <=> e \in ToSet(s)
  BY <1>1 DEF Contains, ToSet
<1> QED
  BY <1>2, <1>3, <1>4, <1>5, <1>6

LEMMA TimesInNone ==
  ASSUME NEW e
  PROVE  Times(<<>>, e) = 0 /\ ToSet(<<>>) = {} /\ ~Contains(<<>>, e)
<1>1. <<>> \in Seq({})
  BY EmptySeq
<1>2. Len(<<>>) = 0 /\ DOMAIN <<>> = {}
  OBVIOUS
<1> QED
  BY <1>1, <1>2, TimesIsCounted DEF Contains, ToSet

LEMMA TimesInOne ==
  ASSUME NEW a, NEW e
  PROVE  Times(<<a>>, e) = IF a = e THEN 1 ELSE 0
<1>1. {k \in DOMAIN <<a>> : <<a>>[k] = e} = IF a = e THEN {1} ELSE {}
  OBVIOUS
<1> QED
  BY <1>1, FS_EmptySet, FS_Singleton DEF Times

LEMMA TimesInBoth ==
  ASSUME NEW S, NEW s \in Seq(S), NEW t \in Seq(S), NEW e
  PROVE  Times(s \o t, e) = Times(s, e) + Times(t, e)
<1>1. /\ s \o t \in Seq(S)
      /\ Len(s) \in Nat /\ Len(t) \in Nat
      /\ DOMAIN s = 1..Len(s) /\ DOMAIN t = 1..Len(t)
      /\ Len(s \o t) = Len(s) + Len(t)
      /\ DOMAIN (s \o t) = 1..(Len(s) + Len(t))
      /\ \A i \in 1..(Len(s) + Len(t)) : (s \o t)[i] = IF i <= Len(s) THEN s[i] ELSE t[i - Len(s)]
  <2>1. Len(s) \in Nat /\ Len(t) \in Nat /\ DOMAIN s = 1..Len(s) /\ DOMAIN t = 1..Len(t)
    BY LenProperties
  <2>2. s \o t \in Seq(S) /\ Len(s \o t) = Len(s) + Len(t)
    BY ConcatProperties
  <2>3. DOMAIN (s \o t) = 1..Len(s \o t)
    BY <2>2, LenProperties
  <2>4. \A i \in 1..(Len(s) + Len(t)) : (s \o t)[i] = IF i <= Len(s) THEN s[i] ELSE t[i - Len(s)]
    BY ConcatProperties
  <2> QED
    BY <2>1, <2>2, <2>3, <2>4
<1> DEFINE A == {k \in DOMAIN s : s[k] = e}
           B == {k \in DOMAIN t : t[k] = e}
           C == {k \in (Len(s) + 1)..(Len(s) + Len(t)) : t[k - Len(s)] = e}
<1>2. {k \in DOMAIN (s \o t) : (s \o t)[k] = e} = A \cup C
  BY <1>1
<1>3. A \cap C = {}
  BY <1>1
<1>4. IsFiniteSet(A) /\ IsFiniteSet(B) /\ Cardinality(A) \in Nat /\ Cardinality(B) \in Nat
  BY TimesIsCounted, FS_CardinalityType
<1>5. IsFiniteSet(C) /\ Cardinality(C) = Cardinality(B)
  <2> DEFINE f == [k \in B |-> k + Len(s)]
  <2>1. f \in [B -> C]
    BY <1>1
  <2>2. \A j, k \in B : f[j] = f[k] => j = k
    BY <1>1
  <2>3. \A c \in C : \E k \in B : f[k] = c
    <3> SUFFICES ASSUME NEW c \in C PROVE \E k \in B : f[k] = c
      OBVIOUS
    <3>1. c \in Int /\ c - Len(s) \in 1..Len(t) /\ (c - Len(s)) + Len(s) = c
      <4>1. PICK m, n : m = Len(s) /\ n = Len(t)
        OBVIOUS
      <4>2. m \in Nat /\ n \in Nat /\ c \in m + 1..m + n
        BY <1>1, <4>1
      <4> HIDE DEF C
      <4>3. c \in Int /\ c - m \in 1..n /\ (c - m) + m = c
        BY <4>2
      <4> QED
        BY <4>1, <4>3
    <3>2. t[c - Len(s)] = e
      OBVIOUS
    <3>3. c - Len(s) \in B
      BY <1>1, <3>1, <3>2
    <3>4. f[c - Len(s)] = (c - Len(s)) + Len(s)
      BY <3>3
    <3> QED
      BY <3>1, <3>3, <3>4
  <2>4. f \in Bijection(B, C)
    <3> HIDE DEF f, B, C
    <3> QED
      BY <2>1, <2>2, <2>3 DEF Bijection, Injection, Surjection, IsInjective
  <2>5. ExistsBijection(B, C)
    BY <2>4 DEF ExistsBijection
  <2> HIDE DEF B, C, f
  <2> QED
    BY <1>4, <2>5, FS_Bijection
<1>6. Cardinality(A \cup C) = Cardinality(A) + Cardinality(C)
  <2>1. Cardinality(A \cup C) = Cardinality(A) + Cardinality(C) - Cardinality(A \cap C)
    BY <1>4, <1>5, FS_Union
  <2>2. Cardinality(A \cap C) = 0
    BY <1>3, FS_EmptySet
  <2> HIDE DEF A, B, C
  <2> QED
    BY <1>4, <1>5, <2>1, <2>2
<1> QED
  BY <1>2, <1>5, <1>6 DEF Times

(* At most two elements.                                                   *)
LEMMA TimesInFew ==
  ASSUME NEW S, NEW s \in Seq(S), NEW e
  PROVE  /\ Len(s) = 1 => s = <<s[1]>> /\ Times(s, e) = IF s[1] = e THEN 1 ELSE 0
         /\ Len(s) = 2 => s = <<s[1], s[2]>> /\ Times(s, e) = (IF s[1] = e THEN 1 ELSE 0) + (IF s[2] = e THEN 1 ELSE 0)
<1>1. ASSUME Len(s) = 1 PROVE s = <<s[1]>> /\ s[1] \in S
  BY <1>1, ElementOfSeq
<1>2. ASSUME Len(s) = 2 PROVE s = <<s[1], s[2]>> /\ s[1] \in S /\ s[2] \in S
  BY <1>2, ElementOfSeq
<1>3. ASSUME Len(s) = 2 PROVE Times(s, e) = Times(<<s[1]>>, e) + Times(<<s[2]>>, e)
  <2>1. <<s[1]>> \in Seq(S) /\ <<s[2]>> \in Seq(S)
    BY <1>2, <1>3
  <2>2. s = <<s[1]>> \o <<s[2]>>
    BY <1>2, <1>3
  <2>3. Times(<<s[1]>> \o <<s[2]>>, e) = Times(<<s[1]>>, e) + Times(<<s[2]>>, e)
    BY <2>1, TimesInBoth
  <2> QED
    BY <2>2, <2>3
<1>4. ASSUME Len(s) = 1 PROVE Times(s, e) = IF s[1] = e THEN 1 ELSE 0
  BY <1>1, <1>4, TimesInOne
<1>5. ASSUME Len(s) = 2 PROVE Times(s, e) = (IF s[1] = e THEN 1 ELSE 0) + (IF s[2] = e THEN 1 ELSE 0)
  <2>1. Times(<<s[1]>>, e) = (IF s[1] = e THEN 1 ELSE 0) /\ Times(<<s[2]>>, e) = (IF s[2] = e THEN 1 ELSE 0)
    BY TimesInOne
  <2> QED
    BY <1>3, <1>5, <2>1
<1> QED
  BY <1>1, <1>2, <1>4, <1>5

(* Replacing v by w gives w the places of v.                               *)
LEMMA TimesReplaced ==
  ASSUME NEW S, NEW s \in Seq(S), NEW v, NEW w \in S, v # w, NEW e
  PROVE  /\ ReplaceAll(s, v, w) \in Seq(S)
         /\ Len(ReplaceAll(s, v, w)) = Len(s)
         /\ DOMAIN ReplaceAll(s, v, w) = DOMAIN s
         /\ \A k \in DOMAIN s : ReplaceAll(s, v, w)[k] = IF s[k] = v THEN w ELSE s[k]
         /\ Times(ReplaceAll(s, v, w), e) =
              IF e = v THEN 0 ELSE IF e = w THEN Times(s, w) + Times(s, v) ELSE Times(s, e)
<1> DEFINE r == ReplaceAll(s, v, w)
<1>1. Len(s) \in Nat /\ DOMAIN s = 1..Len(s)
  BY LenProperties
<1>2. \A k \in 1..Len(s) : s[k] \in S
  BY ElementOfSeq
<1>3. /\ r = [k \in 1..Len(s) |-> IF s[k] = v THEN w ELSE s[k]]
      /\ \A k \in 1..Len(s) : (IF s[k] = v THEN w ELSE s[k]) \in S
  BY <1>2 DEF ReplaceAll
<1>4. r \in Seq(S) /\ DOMAIN r = 1..Len(s) /\ Len(r) = Len(s) /\ \A k \in 1..Len(s) : r[k] = IF s[k] = v THEN w ELSE s[k]
  <2>1. r \in [1..Len(s) -> S]
    BY <1>3
  <2>2. r \in Seq(S)
    BY <1>1, <2>1, SeqDef
  <2>3. DOMAIN r = 1..Len(r) /\ Len(r) \in Nat
    BY <2>2, LenProperties
  <2> QED
    BY <1>1, <1>3, <2>2, <2>3
<1>5. CASE e = v
  <2>1. ~Contains(r, e)
    <3> HIDE DEF r
    <3> QED
      BY <1>4, <1>5 DEF Contains
  <2> QED
    BY <1>1, <1>4, <1>5, <2>1, TimesIsCounted
<1>6. CASE e = w
  <2> DEFINE A == {k \in DOMAIN s : s[k] = w}
             B == {k \in DOMAIN s : s[k] = v}
  <2>1. {k \in DOMAIN r : r[k] = e} = A \cup B
    <3> HIDE DEF r
    <3> QED
      BY <1>1, <1>4, <1>6
  <2>2. A \cap B = {}
    OBVIOUS
  <2>3. IsFiniteSet(A) /\ IsFiniteSet(B) /\ Cardinality(A) \in Nat /\ Cardinality(B) \in Nat
    BY TimesIsCounted, FS_CardinalityType
  <2>4. Cardinality(A \cup B) = Cardinality(A) + Cardinality(B)
    <3>1. Cardinality(A \cup B) = Cardinality(A) + Cardinality(B) - Cardinality(A \cap B)
      BY <2>3, FS_Union
    <3>2. Cardinality(A \cap B) = 0
      BY <2>2, FS_EmptySet
    <3> HIDE DEF A, B
    <3> QED
      BY <2>3, <3>1, <3>2
  <2>5. Times(r, e) = Times(s, w) + Times(s, v)
    BY <2>1, <2>4 DEF Times
  <2> QED
    BY <1>1, <1>4, <1>6, <2>5
<1>7. CASE e # v /\ e # w
  <2>1. {k \in DOMAIN r : r[k] = e} = {k \in DOMAIN s : s[k] = e}
    <3> HIDE DEF r
    <3> QED
      BY <1>1, <1>4, <1>7
  <2> QED
    BY <1>1, <1>4, <1>7, <2>1 DEF Times
<1> QED
  BY <1>5, <1>6, <1>7

-----------------------------------------------------------------------------
(* A block: the order of its instructions, and what putting one in or      *)
(* taking one out does to it.                                              *)

(* The order of a block.                                                   *)
Before(s, a, b) == \E j, k \in DOMAIN s : j < k /\ s[j] = a /\ s[k] = b

(* In a block without repetitions that is a strict order.                  *)
LEMMA BeforeIsAnOrder ==
  ASSUME NEW S, NEW s \in Seq(S), IsInjective(s), NEW a, NEW b, NEW c
  PROVE  /\ Before(s, a, b) => a # b /\ a \in ToSet(s) /\ b \in ToSet(s)
         /\ Before(s, a, b) /\ Before(s, b, c) => Before(s, a, c)
         /\ a \in ToSet(s) /\ b \in ToSet(s) /\ a # b => Before(s, a, b) \/ Before(s, b, a)
         /\ ~(Before(s, a, b) /\ Before(s, b, a))
<1>1. Len(s) \in Nat /\ DOMAIN s = 1..Len(s)
  BY LenProperties
<1>2. \A j, k \in DOMAIN s : s[j] = s[k] => j = k
  BY DEF IsInjective
<1>3. \A j \in DOMAIN s : j \in Int
  BY <1>1
<1>4. Before(s, a, b) => a # b /\ a \in ToSet(s) /\ b \in ToSet(s)
  BY <1>2, <1>3 DEF Before, ToSet
<1>5. Before(s, a, b) /\ Before(s, b, c) => Before(s, a, c)
  <2> SUFFICES ASSUME Before(s, a, b), Before(s, b, c) PROVE Before(s, a, c)
    OBVIOUS
  <2>1. PICK j, k \in DOMAIN s : j < k /\ s[j] = a /\ s[k] = b
    BY DEF Before
  <2>2. PICK l, m \in DOMAIN s : l < m /\ s[l] = b /\ s[m] = c
    BY DEF Before
  <2>3. k = l
    BY <1>2, <2>1, <2>2
  <2>4. j < m
    BY <1>3, <2>1, <2>2, <2>3
  <2> QED
    BY <2>1, <2>2, <2>4 DEF Before
<1>6. a \in ToSet(s) /\ b \in ToSet(s) /\ a # b => Before(s, a, b) \/ Before(s, b, a)
  <2> SUFFICES ASSUME a \in ToSet(s), b \in ToSet(s), a # b PROVE Before(s, a, b) \/ Before(s, b, a)
    OBVIOUS
  <2>1. PICK j, k \in DOMAIN s : s[j] = a /\ s[k] = b
    BY DEF ToSet
  <2>2. j < k \/ k < j
    BY <1>3, <2>1
  <2> QED
    BY <2>1, <2>2 DEF Before
<1>7. ~(Before(s, a, b) /\ Before(s, b, a))
  <2> SUFFICES ASSUME Before(s, a, b), Before(s, b, a) PROVE FALSE
    OBVIOUS
  <2>1. PICK j, k \in DOMAIN s : j < k /\ s[j] = a /\ s[k] = b
    BY DEF Before
  <2>2. PICK l, m \in DOMAIN s : l < m /\ s[l] = b /\ s[m] = a
    BY DEF Before
  <2>3. k = l /\ j = m
    BY <1>2, <2>1, <2>2
  <2> QED
    BY <1>3, <2>1, <2>2, <2>3
<1> QED
  BY <1>4, <1>5, <1>6, <1>7

-----------------------------------------------------------------------------

(* Taking one element out.                                                 *)
FirstAt(s, e, m) == m \in 1..Len(s) /\ s[m] = e /\ \A j \in 1..Len(s) : s[j] = e => m <= j

(* The place the search finds is the first.                                *)
LEMMA FirstPlace ==
  ASSUME NEW S, NEW s \in Seq(S), NEW e, Contains(s, e)
  PROVE  \E m : /\ FirstAt(s, e, m)
                /\ RemoveFirst(s, e) = SubSeq(s, 1, m - 1) \o SubSeq(s, m + 1, Len(s))
                /\ \A p : p.body = s => Position(p, e) = m
<1>1. Len(s) \in Nat
  BY LenProperties
<1> DEFINE I == {k \in 1..Len(s) : s[k] = e}
           m == IF I # {} THEN Min(I) ELSE 0
<1>2. I # {} /\ I \in SUBSET (1..Len(s))
  BY DEF Contains
<1>3. m \in I /\ \A i \in I : m <= i
  <2> HIDE DEF I
  <2> QED
    BY <1>1, <1>2, SelectedPlace
<1>4. FirstAt(s, e, m)
  <2>1. PICK n : n = m
    OBVIOUS
  <2> HIDE DEF m
  <2> QED
    BY <1>3, <2>1 DEF FirstAt
<1>5. RemoveFirst(s, e) = SubSeq(s, 1, m - 1) \o SubSeq(s, m + 1, Len(s))
  <2>1. \E i \in 1..Len(s) : s[i] = e
    BY <1>2
  <2> QED
    BY <2>1 DEF RemoveFirst, RemoveAt, SelectInSeq
<1>6. ASSUME NEW p, p.body = s PROVE Position(p, e) = m
  BY <1>6 DEF Position, SelectInSeq
<1> HIDE DEF m
<1> QED
  BY <1>4, <1>5, <1>6

(* r is s without the element at place k.                                  *)
IsWithout(r, s, m) ==
  /\ Len(s) \in Nat /\ DOMAIN s = 1..Len(s)
  /\ Len(r) = Len(s) - 1 /\ DOMAIN r = 1..(Len(s) - 1)
  /\ \A k \in 1..(Len(s) - 1) : r[k] = IF k < m THEN s[k] ELSE s[k+1]
  /\ \A e : Times(r, e) = Times(s, e) - (IF s[m] = e THEN 1 ELSE 0)

LEMMA WithoutOne ==
  ASSUME NEW S, NEW s \in Seq(S), NEW m \in 1..Len(s), NEW r,
         r = SubSeq(s, 1, m - 1) \o SubSeq(s, m + 1, Len(s))
  PROVE  r \in Seq(S) /\ IsWithout(r, s, m)
<1>1. Len(s) \in Nat /\ DOMAIN s = 1..Len(s)
  BY LenProperties
<1>2. \A k \in 1..Len(s) : s[k] \in S
  BY ElementOfSeq
<1> DEFINE a == SubSeq(s, 1, m - 1)
           b == SubSeq(s, m + 1, Len(s))
<1>3. a \in Seq(S) /\ Len(a) = m - 1 /\ \A k \in 1..(m - 1) : a[k] = s[k]
  <2>1. \A k \in 1..(m - 1) : s[k] \in S
    BY <1>1, <1>2
  <2>2. /\ a \in Seq(S)
        /\ Len(a) = IF 1 <= m - 1 THEN (m - 1) - 1 + 1 ELSE 0
        /\ \A k \in 1..((m - 1) - 1 + 1) : a[k] = s[1 + k - 1]
    BY <1>1, <2>1, SubSeqProperties
  <2> HIDE DEF a
  <2> QED
    BY <1>1, <2>2
<1>4. b \in Seq(S) /\ Len(b) = Len(s) - m /\ \A k \in 1..(Len(s) - m) : b[k] = s[m + k]
  <2>1. \A k \in (m + 1)..Len(s) : s[k] \in S
    BY <1>1, <1>2
  <2>2. /\ b \in Seq(S)
        /\ Len(b) = IF m + 1 <= Len(s) THEN Len(s) - (m + 1) + 1 ELSE 0
        /\ \A k \in 1..(Len(s) - (m + 1) + 1) : b[k] = s[(m + 1) + k - 1]
    BY <1>1, <2>1, SubSeqProperties
  <2>3. Len(b) = Len(s) - m
    <3>1. PICK n : n = Len(b)
      OBVIOUS
    <3>2. n = IF m + 1 <= Len(s) THEN Len(s) - (m + 1) + 1 ELSE 0
      BY <2>2, <3>1
    <3>3. PICK l : l = Len(s)
      OBVIOUS
    <3>4. l \in Nat /\ m \in 1..l
      BY <1>1, <3>3
    <3>5. n = IF m + 1 <= l THEN l - (m + 1) + 1 ELSE 0
      BY <3>2, <3>3
    <3>6. n = l - m
      BY <3>4, <3>5
    <3> QED
      BY <3>1, <3>3, <3>6
  <2>4. ASSUME NEW k \in 1..(Len(s) - m) PROVE b[k] = s[m + k]
    <3>1. k \in 1..(Len(s) - (m + 1) + 1) /\ (m + 1) + k - 1 = m + k
      BY <1>1
    <3> HIDE DEF b
    <3> QED
      BY <2>2, <3>1
  <2> QED
    BY <2>2, <2>3, <2>4
<1>5. /\ r \in Seq(S)
      /\ Len(r) = Len(a) + Len(b)
      /\ \A k \in 1..(Len(a) + Len(b)) : r[k] = IF k <= Len(a) THEN a[k] ELSE b[k - Len(a)]
  BY <1>3, <1>4, ConcatProperties
<1>6. Len(r) = Len(s) - 1 /\ DOMAIN r = 1..(Len(s) - 1)
  <2>1. DOMAIN r = 1..Len(r)
    BY <1>5, LenProperties
  <2>2. Len(r) = Len(s) - 1
    <3>1. PICK l : l = Len(s)
      OBVIOUS
    <3>2. l \in Nat /\ m \in 1..l
      BY <1>1, <3>1
    <3>3. Len(r) = (m - 1) + (l - m)
      BY <1>3, <1>4, <1>5, <3>1, Zenon
    <3>4. (m - 1) + (l - m) = l - 1
      BY <3>2
    <3> QED
      BY <3>1, <3>3, <3>4
  <2> QED
    BY <2>1, <2>2
<1>7. ASSUME NEW k \in 1..(Len(s) - 1) PROVE r[k] = IF k < m THEN s[k] ELSE s[k+1]
  <2>1. k \in 1..(Len(a) + Len(b)) /\ (k <= Len(a) <=> k < m)
    <3> HIDE DEF a, b
    <3> QED
      BY <1>1, <1>3, <1>4
  <2>2. CASE k < m
    <3>1. k \in 1..(m - 1)
      BY <1>1, <2>2
    <3> HIDE DEF a, b
    <3> QED
      BY <1>3, <1>5, <2>1, <2>2, <3>1
  <2>3. CASE ~(k < m)
    <3>1. k - Len(a) \in 1..(Len(s) - m) /\ m + (k - Len(a)) = k + 1
      <4> HIDE DEF a, b
      <4> QED
        BY <1>1, <1>3, <2>3
    <3> HIDE DEF a, b
    <3> QED
      BY <1>4, <1>5, <2>1, <2>3, <3>1
  <2> QED
    BY <2>2, <2>3
<1>8. ASSUME NEW e PROVE Times(r, e) = Times(s, e) - (IF s[m] = e THEN 1 ELSE 0)
  <2> DEFINE one == <<s[m]>>
  <2>1. one \in Seq(S) /\ Times(one, e) = (IF s[m] = e THEN 1 ELSE 0)
    BY <1>2, TimesInOne
  <2>2. s = a \o (one \o b)
    <3>1. SubSeq(s, m, Len(s)) = one \o b
      BY <1>1, SubSeqRecursiveFirst
    <3>2. SubSeq(s, 1, m - 1) \o SubSeq(s, (m - 1) + 1, Len(s)) = SubSeq(s, 1, Len(s))
      BY <1>1, ConcatAdjacentSubSeq, SMTT(20)
    <3>3. SubSeq(s, 1, Len(s)) = s /\ (m - 1) + 1 = m
      BY SubSeqFull
    <3> QED
      BY <3>1, <3>2, <3>3
  <2>3. r = a \o b
    OBVIOUS
  <2> HIDE DEF a, b, one
  <2>4. Times(a \o b, e) = Times(a, e) + Times(b, e)
    BY <1>3, <1>4, TimesInBoth
  <2>5. one \o b \in Seq(S)
    BY <1>4, <2>1, ConcatProperties
  <2>6. Times(one \o b, e) = Times(one, e) + Times(b, e)
    BY <1>4, <2>1, TimesInBoth
  <2>7. Times(a \o (one \o b), e) = Times(a, e) + Times(one \o b, e)
    BY <1>3, <2>5, TimesInBoth, ZenonT(40)
  <2>8. Times(a, e) \in Nat /\ Times(b, e) \in Nat
    BY <1>3, <1>4, TimesIsCounted
  <2>9. PICK x, y, z : x = Times(a, e) /\ y = Times(b, e) /\ z = IF s[m] = e THEN 1 ELSE 0
    OBVIOUS
  <2>10. x \in Nat /\ y \in Nat /\ z \in Nat
    BY <2>8, <2>9
  <2>11. Times(r, e) = x + y /\ Times(s, e) = x + (z + y)
    BY <2>1, <2>2, <2>3, <2>4, <2>6, <2>7, <2>9
  <2>12. Times(r, e) = Times(s, e) - z
    BY <2>10, <2>11
  <2> QED
    BY <2>9, <2>12
<1> HIDE DEF a, b
<1> QED
  BY <1>1, <1>5, <1>6, <1>7, <1>8 DEF IsWithout

LEMMA RemovedFirst ==
  ASSUME NEW S, NEW s \in Seq(S), NEW e, Contains(s, e)
  PROVE  /\ RemoveFirst(s, e) \in Seq(S)
         /\ \A x : Times(RemoveFirst(s, e), x) = Times(s, x) - (IF x = e THEN 1 ELSE 0)
         /\ ToSet(RemoveFirst(s, e)) \subseteq ToSet(s)
<1>1. PICK m : FirstAt(s, e, m) /\ RemoveFirst(s, e) = SubSeq(s, 1, m - 1) \o SubSeq(s, m + 1, Len(s))
  BY FirstPlace
<1> DEFINE r == RemoveFirst(s, e)
<1>2. r \in Seq(S) /\ IsWithout(r, s, m)
  <2> HIDE DEF r
  <2> QED
    BY <1>1, WithoutOne DEF FirstAt, r
<1> HIDE DEF r
<1>3. \A k \in DOMAIN r : \E l \in DOMAIN s : r[k] = s[l]
  BY <1>2 DEF IsWithout
<1>4. \A x : Times(r, x) = Times(s, x) - (IF x = e THEN 1 ELSE 0)
  BY <1>1, <1>2 DEF FirstAt, IsWithout
<1>5. ToSet(r) \subseteq ToSet(s)
  BY <1>3 DEF ToSet
<1> QED
  BY <1>2, <1>4, <1>5 DEF r

(* Out of a block: i is its only occurrence.                               *)
LEMMA RemovedFromBlock ==
  ASSUME NEW S, NEW s \in Seq(S), IsInjective(s), NEW e \in ToSet(s)
  PROVE  /\ RemoveFirst(s, e) \in Seq(S)
         /\ IsInjective(RemoveFirst(s, e))
         /\ ToSet(RemoveFirst(s, e)) = ToSet(s) \ {e}
         /\ \A a, b : a # e /\ b # e /\ Before(s, a, b) => Before(RemoveFirst(s, e), a, b)
         /\ \A p : p.body = s =>
              /\ Position(p, e) \in 1..Len(s) /\ s[Position(p, e)] = e
              /\ Len(RemoveFirst(s, e)) = Len(s) - 1
              /\ \A k \in 1..(Len(s) - 1) : RemoveFirst(s, e)[k] = IF k < Position(p, e) THEN s[k] ELSE s[k+1]
<1>1. Contains(s, e)
  BY TimesIsCounted
<1>2. PICK m : /\ FirstAt(s, e, m)
               /\ RemoveFirst(s, e) = SubSeq(s, 1, m - 1) \o SubSeq(s, m + 1, Len(s))
               /\ \A p : p.body = s => Position(p, e) = m
  BY <1>1, FirstPlace
<1>3. PICK r : r = RemoveFirst(s, e)
  OBVIOUS
<1>4. /\ r \in Seq(S)
      /\ Len(s) \in Nat /\ DOMAIN s = 1..Len(s)
      /\ Len(r) = Len(s) - 1 /\ DOMAIN r = 1..(Len(s) - 1)
      /\ \A k \in 1..(Len(s) - 1) : r[k] = IF k < m THEN s[k] ELSE s[k+1]
  <2>1. m \in 1..Len(s) /\ r = SubSeq(s, 1, m - 1) \o SubSeq(s, m + 1, Len(s))
    BY <1>2, <1>3 DEF FirstAt
  <2>2. r \in Seq(S) /\ IsWithout(r, s, m)
    BY <2>1, WithoutOne
  <2> QED
    BY <2>2 DEF IsWithout
<1>5. m \in DOMAIN s /\ s[m] = e /\ \A k \in DOMAIN s : s[k] = e => k = m
  BY <1>2, <1>4 DEF FirstAt, IsInjective
<1>6. \A j, k \in DOMAIN s : s[j] = s[k] => j = k
  BY DEF IsInjective
<1>7. IsInjective(r)
  <2>1. ASSUME NEW j \in DOMAIN r, NEW k \in DOMAIN r, r[j] = r[k] PROVE j = k
    <3>1. j \in DOMAIN s /\ k \in DOMAIN s /\ j + 1 \in DOMAIN s /\ k + 1 \in DOMAIN s
      BY <1>4
    <3>2. /\ j < m /\ k < m => j = k
          /\ j < m /\ ~(k < m) => j = k + 1
          /\ ~(j < m) /\ k < m => j + 1 = k
          /\ ~(j < m) /\ ~(k < m) => j + 1 = k + 1
      BY <1>4, <1>6, <2>1, <3>1
    <3> QED
      BY <1>4, <1>5, <3>1, <3>2
  <2> QED
    BY <2>1 DEF IsInjective
<1>8. ASSUME NEW k \in DOMAIN s, k # m
      PROVE  \E l \in DOMAIN r : r[l] = s[k] /\ l = IF k < m THEN k ELSE k - 1
  <2>1. CASE k < m
    <3>1. k \in 1..(Len(s) - 1)
      BY <1>4, <1>5, <2>1
    <3> QED
      BY <1>4, <2>1, <3>1
  <2>2. CASE k > m
    <3>1. k - 1 \in 1..(Len(s) - 1) /\ ~(k - 1 < m) /\ (k - 1) + 1 = k
      BY <1>4, <1>5, <2>2
    <3>2. r[k-1] = s[k]
      BY <1>4, <3>1
    <3>3. ~(k < m)
      BY <1>4, <1>5, <2>2
    <3> QED
      BY <1>4, <3>1, <3>2, <3>3
  <2> QED
    BY <1>4, <1>5, <1>8, <2>1, <2>2
<1>9. ASSUME NEW k \in DOMAIN r PROVE r[k] \in ToSet(s) \ {e}
  <2>1. k \in DOMAIN s /\ k + 1 \in DOMAIN s
    BY <1>4
  <2>2. r[k] = s[IF k < m THEN k ELSE k + 1] /\ (IF k < m THEN k ELSE k + 1) # m
    BY <1>4, <1>5
  <2>3. (IF k < m THEN k ELSE k + 1) \in DOMAIN s
    BY <2>1
  <2> QED
    BY <1>5, <2>2, <2>3 DEF ToSet
<1>10. ToSet(r) = ToSet(s) \ {e}
  <2>1. ASSUME NEW x \in ToSet(s), x # e PROVE x \in ToSet(r)
    <3>1. PICK k \in DOMAIN s : s[k] = x
      BY DEF ToSet
    <3>2. k # m
      BY <1>5, <2>1, <3>1
    <3> QED
      BY <1>8, <3>1, <3>2 DEF ToSet
  <2> QED
    BY <1>9, <2>1 DEF ToSet
<1>11. ASSUME NEW a, NEW b, a # e, b # e, Before(s, a, b) PROVE Before(r, a, b)
  <2>1. PICK j, k \in DOMAIN s : j < k /\ s[j] = a /\ s[k] = b
    BY <1>11 DEF Before
  <2>2. j # m /\ k # m
    BY <1>5, <1>11, <2>1
  <2>3. PICK l \in DOMAIN r : r[l] = s[j] /\ l = IF j < m THEN j ELSE j - 1
    BY <1>8, <2>2
  <2>4. PICK n \in DOMAIN r : r[n] = s[k] /\ n = IF k < m THEN k ELSE k - 1
    BY <1>8, <2>2
  <2>5. j \in Int /\ k \in Int /\ m \in Int
    BY <1>4, <1>5
  <2>6. l < n
    BY <2>1, <2>2, <2>3, <2>4, <2>5
  <2> QED
    BY <2>1, <2>3, <2>4, <2>6 DEF Before
<1>12. m \in 1..Len(s)
  BY <1>4, <1>5
<1> QED
  BY <1>2, <1>3, <1>4, <1>5, <1>7, <1>10, <1>11, <1>12

(* Putting one in.                                                         *)
IsWith(r, s, m, e) ==
  /\ Len(s) \in Nat /\ DOMAIN s = 1..Len(s)
  /\ Len(r) = Len(s) + 1 /\ DOMAIN r = 1..(Len(s) + 1)
  /\ \A k \in 1..(Len(s) + 1) : r[k] = IF k < m THEN s[k] ELSE IF k = m THEN e ELSE s[k-1]

LEMMA InsertedAt ==
  ASSUME NEW S, NEW s \in Seq(S), NEW m \in 1..(Len(s) + 1), NEW e \in S, NEW r, r = InsertAt(s, m, e)
  PROVE  r \in Seq(S) /\ IsWith(r, s, m, e)
<1>1. Len(s) \in Nat /\ DOMAIN s = 1..Len(s)
  BY LenProperties
<1>2. \A k \in 1..Len(s) : s[k] \in S
  BY ElementOfSeq
<1> DEFINE a == SubSeq(s, 1, m - 1)
           b == SubSeq(s, m, Len(s))
<1>3. a \in Seq(S) /\ Len(a) = m - 1 /\ \A k \in 1..(m - 1) : a[k] = s[k]
  <2>1. \A k \in 1..(m - 1) : s[k] \in S
    BY <1>1, <1>2
  <2>2. /\ a \in Seq(S)
        /\ Len(a) = IF 1 <= m - 1 THEN (m - 1) - 1 + 1 ELSE 0
        /\ \A k \in 1..((m - 1) - 1 + 1) : a[k] = s[1 + k - 1]
    BY <1>1, <2>1, SubSeqProperties
  <2> HIDE DEF a
  <2> QED
    BY <1>1, <2>2
<1>4. b \in Seq(S) /\ Len(b) = Len(s) - m + 1 /\ \A k \in 1..(Len(s) - m + 1) : b[k] = s[m + k - 1]
  <2>1. \A k \in m..Len(s) : s[k] \in S
    BY <1>1, <1>2
  <2>2. /\ b \in Seq(S)
        /\ Len(b) = IF m <= Len(s) THEN Len(s) - m + 1 ELSE 0
        /\ \A k \in 1..(Len(s) - m + 1) : b[k] = s[m + k - 1]
    BY <1>1, <2>1, SubSeqProperties
  <2> HIDE DEF b
  <2> QED
    BY <1>1, <2>2
<1>5. /\ a \o <<e>> \in Seq(S)
      /\ Len(a \o <<e>>) = m
      /\ \A k \in 1..m : (a \o <<e>>)[k] = IF k < m THEN s[k] ELSE e
  <2>1. <<e>> \in Seq(S) /\ Len(<<e>>) = 1 /\ <<e>>[1] = e
    OBVIOUS
  <2>2. /\ a \o <<e>> \in Seq(S)
        /\ Len(a \o <<e>>) = Len(a) + Len(<<e>>)
        /\ \A k \in 1..(Len(a) + Len(<<e>>)) : (a \o <<e>>)[k] = IF k <= Len(a) THEN a[k] ELSE <<e>>[k - Len(a)]
    BY <1>3, <2>1, ConcatProperties
  <2>3. Len(a \o <<e>>) = m
    <3> HIDE DEF a
    <3> QED
      BY <1>1, <1>3, <2>1, <2>2
  <2>4. ASSUME NEW k \in 1..m PROVE (a \o <<e>>)[k] = IF k < m THEN s[k] ELSE e
    <3>1. k \in 1..(Len(a) + Len(<<e>>)) /\ (k <= Len(a) <=> k < m) /\ (~(k < m) => k - Len(a) = 1) /\ (k < m => k \in 1..(m-1))
      <4> HIDE DEF a
      <4> QED
        BY <1>1, <1>3, <2>1
    <3> HIDE DEF a
    <3> QED
      BY <1>3, <2>1, <2>2, <3>1
  <2> QED
    BY <2>2, <2>3, <2>4
<1> DEFINE c == a \o <<e>>
<1>6. /\ r \in Seq(S)
      /\ Len(r) = Len(c) + Len(b)
      /\ \A k \in 1..(Len(c) + Len(b)) : r[k] = IF k <= Len(c) THEN c[k] ELSE b[k - Len(c)]
  <2>1. r = c \o b
    BY DEF InsertAt
  <2>2. c \in Seq(S) /\ b \in Seq(S)
    BY <1>4, <1>5
  <2> HIDE DEF b, c
  <2> QED
    BY <2>1, <2>2, ConcatProperties
<1>7. Len(r) = Len(s) + 1 /\ DOMAIN r = 1..(Len(s) + 1)
  <2>1. DOMAIN r = 1..Len(r)
    BY <1>6, LenProperties
  <2>2. Len(c) = m /\ Len(b) = Len(s) - m + 1 /\ Len(r) = Len(c) + Len(b)
    BY <1>4, <1>5, <1>6
  <2>3. Len(r) = Len(s) + 1
    <3> HIDE DEF b, c
    <3> QED
      BY <1>1, <2>2
  <2> QED
    BY <2>1, <2>3
<1>8. ASSUME NEW k \in 1..(Len(s) + 1)
      PROVE  r[k] = IF k < m THEN s[k] ELSE IF k = m THEN e ELSE s[k-1]
  <2>1. k \in 1..(Len(c) + Len(b)) /\ Len(c) = m
    <3> HIDE DEF a, b
    <3> QED
      BY <1>1, <1>4, <1>5
  <2>2. CASE k <= m
    <3>1. k \in 1..m
      BY <2>2
    <3> HIDE DEF a, b
    <3> QED
      BY <1>5, <1>6, <2>1, <2>2, <3>1, SMTT(20)
  <2>3. CASE k > m
    <3>1. k - m \in 1..(Len(s) - m + 1) /\ m + (k - m) - 1 = k - 1
      BY <1>1, <2>3
    <3>2. r[k] = b[k - m]
      <4> HIDE DEF a, b, c
      <4> QED
        BY <1>6, <2>1, <2>3
    <3> HIDE DEF b
    <3> QED
      BY <1>4, <2>3, <3>1, <3>2, SMTT(20)
  <2> QED
    BY <2>2, <2>3
<1> HIDE DEF a, b, c
<1> QED
  BY <1>1, <1>6, <1>7, <1>8 DEF IsWith

LEMMA InsertedInBlock ==
  ASSUME NEW S, NEW s \in Seq(S), IsInjective(s), NEW m \in 1..(Len(s) + 1), NEW e \in S, e \notin ToSet(s)
  PROVE  /\ InsertAt(s, m, e) \in Seq(S)
         /\ IsInjective(InsertAt(s, m, e))
         /\ ToSet(InsertAt(s, m, e)) = ToSet(s) \cup {e}
         /\ \A a, b : Before(s, a, b) => Before(InsertAt(s, m, e), a, b)
         /\ \A j \in DOMAIN s : j < m => Before(InsertAt(s, m, e), s[j], e)
         /\ \A j \in DOMAIN s : j >= m => Before(InsertAt(s, m, e), e, s[j])
<1>1. PICK r : r = InsertAt(s, m, e)
  OBVIOUS
<1>2. /\ r \in Seq(S)
      /\ Len(s) \in Nat /\ DOMAIN s = 1..Len(s)
      /\ Len(r) = Len(s) + 1 /\ DOMAIN r = 1..(Len(s) + 1)
      /\ \A k \in 1..(Len(s) + 1) : r[k] = IF k < m THEN s[k] ELSE IF k = m THEN e ELSE s[k-1]
  <2>1. r \in Seq(S) /\ IsWith(r, s, m, e)
    BY <1>1, InsertedAt
  <2> QED
    BY <2>1 DEF IsWith
<1>3. m \in DOMAIN r /\ r[m] = e
  BY <1>2
<1>4. ASSUME NEW j \in DOMAIN s
      PROVE  (IF j < m THEN j ELSE j + 1) \in DOMAIN r /\ r[IF j < m THEN j ELSE j + 1] = s[j]
  <2>1. CASE j < m
    BY <1>2, <2>1
  <2>2. CASE ~(j < m)
    <3>1. j + 1 \in 1..(Len(s) + 1) /\ ~(j + 1 < m) /\ j + 1 # m /\ (j + 1) - 1 = j
      BY <1>2, <2>2
    <3>2. r[j+1] = s[j]
      BY <1>2, <3>1
    <3> QED
      BY <1>2, <2>2, <3>1, <3>2
  <2> QED
    BY <2>1, <2>2
<1>5. ASSUME NEW k \in DOMAIN r, k # m
      PROVE  \E j \in DOMAIN s : r[k] = s[j] /\ k = IF j < m THEN j ELSE j + 1
  <2>1. CASE k < m
    <3>1. k \in DOMAIN s
      BY <1>2, <2>1
    <3> QED
      BY <1>2, <2>1, <3>1
  <2>2. CASE ~(k < m)
    <3>1. k - 1 \in DOMAIN s /\ ~(k - 1 < m) /\ (k - 1) + 1 = k
      BY <1>2, <1>5, <2>2
    <3>2. r[k] = s[k-1]
      BY <1>2, <1>5, <2>2
    <3> QED
      BY <3>1, <3>2
  <2> QED
    BY <2>1, <2>2
<1>6. ToSet(r) = ToSet(s) \cup {e}
  <2>1. \A k \in DOMAIN r : r[k] \in ToSet(s) \cup {e}
    BY <1>3, <1>5 DEF ToSet
  <2>2. \A j \in DOMAIN s : s[j] \in ToSet(r)
    BY <1>4 DEF ToSet
  <2>3. e \in ToSet(r)
    BY <1>3 DEF ToSet
  <2> QED
    BY <2>1, <2>2, <2>3 DEF ToSet
<1>7. IsInjective(r)
  <2>1. ASSUME NEW j \in DOMAIN r, NEW k \in DOMAIN r, r[j] = r[k] PROVE j = k
    <3>1. \A l \in DOMAIN s : s[l] # e
      BY DEF ToSet
    <3>2. CASE j = m
      BY <1>3, <1>5, <2>1, <3>1, <3>2
    <3>3. CASE k = m
      BY <1>3, <1>5, <2>1, <3>1, <3>3
    <3>4. CASE j # m /\ k # m
      <4>1. PICK l \in DOMAIN s : r[j] = s[l] /\ j = IF l < m THEN l ELSE l + 1
        BY <1>5, <3>4
      <4>2. PICK n \in DOMAIN s : r[k] = s[n] /\ k = IF n < m THEN n ELSE n + 1
        BY <1>5, <3>4
      <4>3. l = n
        BY <2>1, <4>1, <4>2 DEF IsInjective
      <4> QED
        BY <4>1, <4>2, <4>3
    <3> QED
      BY <3>2, <3>3, <3>4
  <2> QED
    BY <2>1 DEF IsInjective
<1>8. ASSUME NEW a, NEW b, Before(s, a, b) PROVE Before(r, a, b)
  <2>1. PICK j, k \in DOMAIN s : j < k /\ s[j] = a /\ s[k] = b
    BY <1>8 DEF Before
  <2>2. (IF j < m THEN j ELSE j + 1) < (IF k < m THEN k ELSE k + 1)
    BY <1>2, <2>1
  <2> QED
    BY <1>4, <2>1, <2>2 DEF Before
<1>9. ASSUME NEW j \in DOMAIN s, j < m PROVE Before(r, s[j], e)
  <2>1. j \in DOMAIN r /\ r[j] = s[j]
    BY <1>4, <1>9
  <2> QED
    BY <1>3, <1>9, <2>1 DEF Before
<1>10. ASSUME NEW j \in DOMAIN s, j >= m PROVE Before(r, e, s[j])
  <2>1. ~(j < m) /\ m < j + 1
    BY <1>2, <1>10
  <2>2. j + 1 \in DOMAIN r /\ r[j+1] = s[j]
    BY <1>4, <2>1
  <2> QED
    BY <1>3, <2>1, <2>2 DEF Before
<1> QED
  BY <1>1, <1>2, <1>6, <1>7, <1>8, <1>9, <1>10

-----------------------------------------------------------------------------
(* The loops that register a user with each of its operands.               *)

(* The loops over the operands, of which there are two at most.            *)
IsRegistering(f, users, args, i) ==
  f = [k \in 0..Len(args) |-> IF k = 0 THEN users ELSE AddUsers(f[k-1], args[k], <<i>>)]

(* The functions the loops are defined by exist, and so the loops are what *)
(* they are on none, one and two operands.                                 *)
LEMMA RegisteringExists ==
  ASSUME NEW users, NEW args, Len(args) \in 0..2, NEW i
  PROVE  \E f : IsRegistering(f, users, args, i)
<1> DEFINE one == AddUsers(users, args[1], <<i>>)
           two == AddUsers(one, args[2], <<i>>)
           f == [k \in 0..Len(args) |-> IF k = 0 THEN users ELSE IF k = 1 THEN one ELSE two]
<1> HIDE DEF one, two
<1>1. \A k \in 0..Len(args) : f[k] = IF k = 0 THEN users ELSE IF k = 1 THEN one ELSE two
  OBVIOUS
<1> HIDE DEF f
<1>2. \A k \in 0..Len(args) : k = 0 \/ k = 1 \/ k = 2
  <2>1. \A n \in 0..2 : \A k \in 0..n : k = 0 \/ k = 1 \/ k = 2
    OBVIOUS
  <2> QED
    BY <2>1
<1>3. Len(args) >= 1 => f[0] = users /\ f[1] = one
  BY <1>1
<1>4. ASSUME NEW k \in 0..Len(args)
      PROVE  f[k] = IF k = 0 THEN users ELSE AddUsers(f[k-1], args[k], <<i>>)
  <2>1. CASE k = 0
    BY <1>1, <2>1
  <2>2. CASE k = 1
    <3>1. f[k] = one /\ f[k-1] = users
      BY <1>1, <2>2
    <3> QED
      BY <2>2, <3>1 DEF one
  <2>3. CASE k = 2
    <3>1. f[k] = two /\ f[k-1] = one
      BY <1>1, <2>3
    <3> QED
      BY <2>3, <3>1 DEF two
  <2> QED
    BY <1>2, <2>1, <2>2, <2>3
<1>5. f = [k \in 0..Len(args) |-> IF k = 0 THEN users ELSE AddUsers(f[k-1], args[k], <<i>>)]
  <2> DEFINE g == [k \in 0..Len(args) |-> IF k = 0 THEN users ELSE AddUsers(f[k-1], args[k], <<i>>)]
  <2>1. \A k \in 0..Len(args) : f[k] = g[k]
    BY <1>4
  <2>2. DOMAIN f = 0..Len(args) /\ DOMAIN g = 0..Len(args)
    BY DEF f
  <2>3. f = [k \in DOMAIN f |-> f[k]]
    BY DEF f
  <2> QED
    BY <2>1, <2>2, <2>3
<1> QED
  BY <1>5 DEF IsRegistering

LEMMA RegisteredIs ==
  ASSUME NEW users, NEW args, Len(args) \in 0..2, NEW i
  PROVE  /\ Len(args) = 0 => Registered(users, args, i) = users
         /\ Len(args) = 1 => Registered(users, args, i) = AddUsers(users, args[1], <<i>>)
         /\ Len(args) = 2 => Registered(users, args, i) = AddUsers(AddUsers(users, args[1], <<i>>), args[2], <<i>>)
<1> DEFINE f == CHOOSE g : IsRegistering(g, users, args, i)
<1>1. IsRegistering(f, users, args, i)
  BY RegisteringExists, Zenon
<1>2. Registered(users, args, i) = f[Len(args)]
  BY Zenon DEF Registered, IsRegistering
<1> HIDE DEF f
<1>3. \A k \in 0..Len(args) : f[k] = IF k = 0 THEN users ELSE AddUsers(f[k-1], args[k], <<i>>)
  BY <1>1 DEF IsRegistering
<1>4. f[0] = users
  BY <1>3
<1>5. ASSUME Len(args) \in 1..2 PROVE f[1] = AddUsers(users, args[1], <<i>>)
  BY <1>3, <1>4, <1>5
<1>6. ASSUME Len(args) = 2 PROVE f[2] = AddUsers(f[1], args[2], <<i>>)
  BY <1>3, <1>6
<1>7. ASSUME Len(args) = 2 PROVE Registered(users, args, i) = AddUsers(AddUsers(users, args[1], <<i>>), args[2], <<i>>)
  BY <1>2, <1>5, <1>6, <1>7
<1>8. ASSUME Len(args) = 1 PROVE Registered(users, args, i) = AddUsers(users, args[1], <<i>>)
  BY <1>2, <1>5, <1>8
<1>9. ASSUME Len(args) = 0 PROVE Registered(users, args, i) = users
  BY <1>2, <1>4, <1>9
<1> QED
  BY <1>7, <1>8, <1>9, Zenon

IsUnregistering(f, users, args, i) ==
  f = [k \in 0..Len(args) |->
         IF k = 0 THEN users ELSE IF args[k] = Null THEN f[k-1] ELSE RemoveUser(f[k-1], args[k], i)]

LEMMA UnregisteringExists ==
  ASSUME NEW users, NEW args, Len(args) \in 0..2, NEW i
  PROVE  \E f : IsUnregistering(f, users, args, i)
<1> DEFINE one == IF args[1] = Null THEN users ELSE RemoveUser(users, args[1], i)
           two == IF args[2] = Null THEN one ELSE RemoveUser(one, args[2], i)
           f == [k \in 0..Len(args) |-> IF k = 0 THEN users ELSE IF k = 1 THEN one ELSE two]
           F(k) == IF k = 0 THEN users ELSE IF args[k] = Null THEN f[k-1] ELSE RemoveUser(f[k-1], args[k], i)
<1> HIDE DEF one, two
<1>1. \A k \in 0..Len(args) : f[k] = IF k = 0 THEN users ELSE IF k = 1 THEN one ELSE two
  OBVIOUS
<1>2. \A k \in 0..Len(args) : k = 0 \/ k = 1 \/ k = 2
  <2>1. \A n \in 0..2 : \A k \in 0..n : k = 0 \/ k = 1 \/ k = 2
    OBVIOUS
  <2> QED
    BY <2>1
<1>3. DOMAIN f = 0..Len(args) /\ f = [k \in DOMAIN f |-> f[k]]
  OBVIOUS
<1> HIDE DEF f
<1>4. ASSUME NEW k \in 0..Len(args) PROVE f[k] = F(k)
  <2>1. CASE k = 0
    BY <1>1, <2>1
  <2>2. CASE k = 1
    <3>1. f[k] = one /\ f[k-1] = users
      BY <1>1, <2>2
    <3> QED
      BY <2>2, <3>1 DEF one
  <2>3. CASE k = 2
    <3>1. f[k] = two /\ f[k-1] = one
      BY <1>1, <2>3
    <3> QED
      BY <2>3, <3>1 DEF two
  <2> QED
    BY <1>2, <2>1, <2>2, <2>3
<1>5. f = [k \in 0..Len(args) |-> F(k)]
  <2> DEFINE g == [k \in 0..Len(args) |-> F(k)]
  <2>1. \A k \in 0..Len(args) : g[k] = F(k)
    OBVIOUS
  <2>2. DOMAIN g = 0..Len(args)
    OBVIOUS
  <2>3. g = [k \in DOMAIN g |-> g[k]]
    OBVIOUS
  <2> HIDE DEF g
  <2> QED
    BY <1>3, <1>4, <2>1, <2>2, <2>3
<1> QED
  BY <1>5 DEF IsUnregistering

LEMMA UnregisteredIs ==
  ASSUME NEW users, NEW args, Len(args) \in 0..2, NEW i, \A k \in 1..Len(args) : args[k] # Null
  PROVE  /\ Len(args) = 0 => Unregistered(users, args, i) = users
         /\ Len(args) = 1 => Unregistered(users, args, i) = RemoveUser(users, args[1], i)
         /\ Len(args) = 2 => Unregistered(users, args, i) = RemoveUser(RemoveUser(users, args[1], i), args[2], i)
<1> DEFINE f == CHOOSE g : IsUnregistering(g, users, args, i)
<1>1. IsUnregistering(f, users, args, i)
  BY UnregisteringExists, Zenon
<1>2. Unregistered(users, args, i) = f[Len(args)]
  BY Zenon DEF Unregistered, IsUnregistering
<1> HIDE DEF f
<1>3. \A k \in 0..Len(args) : f[k] = IF k = 0 THEN users ELSE IF args[k] = Null THEN f[k-1] ELSE RemoveUser(f[k-1], args[k], i)
  BY <1>1 DEF IsUnregistering
<1>4. f[0] = users
  BY <1>3
<1>5. Len(args) >= 1 => f[1] = RemoveUser(users, args[1], i)
  BY <1>3, <1>4
<1>6. Len(args) = 2 => f[2] = RemoveUser(f[1], args[2], i)
  BY <1>3
<1> QED
  BY <1>2, <1>4, <1>5, <1>6

LEMMA RegisteredNone ==
  ASSUME NEW users, NEW args, NEW i, Len(args) = 0
  PROVE  Registered(users, args, i) = users /\ Unregistered(users, args, i) = users
<1>1. Len(args) \in 0..2 /\ \A k \in 1..Len(args) : args[k] # Null
  OBVIOUS
<1>2. Registered(users, args, i) = users
  <2> DEFINE f == CHOOSE g : IsRegistering(g, users, args, i)
  <2>1. IsRegistering(f, users, args, i)
    BY <1>1, RegisteringExists, Zenon
  <2>2. Registered(users, args, i) = f[Len(args)]
    BY Zenon DEF Registered, IsRegistering
  <2> HIDE DEF f
  <2>3. f[0] = users
    BY <1>1, <2>1 DEF IsRegistering
  <2> QED
    BY <2>2, <2>3
<1>3. Unregistered(users, args, i) = users
  BY <1>1, UnregisteredIs
<1> QED
  BY <1>2, <1>3

-----------------------------------------------------------------------------
(* What those loops do to the user lists.                                  *)

(* Lists of users: R has what users has, and more or less of one user.     *)
AreLists(users, D) == users \in Seq(Seq(D))

(* Such user lists are told apart by what they give each value.            *)
LEMMA ListsAre ==
  ASSUME NEW D, NEW users, AreLists(users, D)
  PROVE  /\ Len(users) \in Nat /\ DOMAIN users = 1..Len(users)
         /\ \A u \in DOMAIN users : users[u] \in Seq(D)
         /\ \A u \in DOMAIN users : users[u] \in Seq(D) /\ \A v : Times(users[u], v) \in Nat
<1>1. Len(users) \in Nat /\ DOMAIN users = 1..Len(users)
  BY LenProperties DEF AreLists
<1>2. \A u \in DOMAIN users : users[u] \in Seq(D)
  BY <1>1, ElementOfSeq DEF AreLists
<1> QED
  BY <1>1, <1>2, TimesIsCounted

SameLists(r, users, D) == AreLists(r, D) /\ DOMAIN r = DOMAIN users /\ Len(r) = Len(users)

HasList(r, users, D, a, list) ==
  SameLists(r, users, D) /\ \A u \in DOMAIN users : r[u] = IF u = a THEN list ELSE users[u]

LEMMA WithList ==
  ASSUME NEW D, NEW users, AreLists(users, D), NEW a \in DOMAIN users, NEW list \in Seq(D),
         NEW r, r = [users EXCEPT ![a] = list]
  PROVE  HasList(r, users, D, a, list)
<1>1. Len(users) \in Nat /\ DOMAIN users = 1..Len(users)
  BY ListsAre
<1>2. /\ [users EXCEPT ![a] = list] \in Seq(Seq(D))
      /\ Len([users EXCEPT ![a] = list]) = Len(users)
  BY <1>1, ExceptSeq DEF AreLists
<1> QED
  BY <1>1, <1>2 DEF AreLists, HasList, SameLists

(* R is users after list has been added to the users of u, or one entry    *)
(* for i been taken out of them.                                           *)
AddsUsers(r, users, D, a, list) ==
  /\ SameLists(r, users, D)
  /\ \A u \in DOMAIN users : r[u] = IF u = a THEN users[u] \o list ELSE users[u]
  /\ \A u \in DOMAIN users, v \in D : Times(r[u], v) = Times(users[u], v) + IF u = a THEN Times(list, v) ELSE 0

LEMMA AddUsersIs ==
  ASSUME NEW D, NEW users, AreLists(users, D), NEW a \in DOMAIN users, NEW list \in Seq(D), NEW r, r = AddUsers(users, a, list)
  PROVE  AddsUsers(r, users, D, a, list)
<1>1. /\ users[a] \in Seq(D)
      /\ \A u \in DOMAIN users, v \in D : Times(users[u], v) \in Nat
  BY ListsAre
<1>2. PICK both : both = users[a] \o list
  OBVIOUS
<1>3. both \in Seq(D) /\ \A v : Times(both, v) = Times(users[a], v) + Times(list, v)
  BY <1>1, <1>2, ConcatProperties, TimesInBoth
<1>4. r = [users EXCEPT ![a] = both]
  BY <1>2 DEF AddUsers
<1>5. SameLists(r, users, D) /\ \A u \in DOMAIN users : r[u] = IF u = a THEN both ELSE users[u]
  <2>1. HasList(r, users, D, a, both)
    BY <1>3, <1>4, WithList
  <2> QED
    BY <2>1 DEF HasList
<1>6. \A u \in DOMAIN users, v \in D : Times(r[u], v) = Times(users[u], v) + IF u = a THEN Times(list, v) ELSE 0
  BY <1>1, <1>3, <1>5
<1> QED
  BY <1>2, <1>5, <1>6 DEF AddsUsers

RemovesUser(r, users, D, a, i) ==
  /\ SameLists(r, users, D)
  /\ \A u \in DOMAIN users : u # a => r[u] = users[u]
  /\ \A u \in DOMAIN users, v \in D : Times(r[u], v) = Times(users[u], v) - IF u = a /\ v = i THEN 1 ELSE 0

LEMMA RemoveUserIs ==
  ASSUME NEW D, NEW users, AreLists(users, D), NEW a \in DOMAIN users, NEW i, Contains(users[a], i),
         NEW r, r = RemoveUser(users, a, i)
  PROVE  RemovesUser(r, users, D, a, i)
<1>1. /\ users[a] \in Seq(D)
      /\ \A u \in DOMAIN users, v \in D : Times(users[u], v) \in Nat
  BY ListsAre
<1>2. PICK less : less = RemoveFirst(users[a], i)
  OBVIOUS
<1>3. less \in Seq(D) /\ \A v : Times(less, v) = Times(users[a], v) - (IF v = i THEN 1 ELSE 0)
  BY <1>1, <1>2, RemovedFirst
<1>4. r = [users EXCEPT ![a] = less]
  BY <1>2 DEF RemoveUser
<1>5. SameLists(r, users, D) /\ \A u \in DOMAIN users : r[u] = IF u = a THEN less ELSE users[u]
  <2>1. HasList(r, users, D, a, less)
    BY <1>3, <1>4, WithList
  <2> QED
    BY <2>1 DEF HasList
<1>6. \A u \in DOMAIN users, v \in D : Times(r[u], v) = Times(users[u], v) - IF u = a /\ v = i THEN 1 ELSE 0
  BY <1>1, <1>3, <1>5
<1> QED
  BY <1>5, <1>6 DEF RemovesUser

(* R is users with i added, or taken out, once for each of its operands.   *)
RegistersUser(r, users, D, args, i) ==
  /\ SameLists(r, users, D)
  /\ \A u \in DOMAIN users : u \notin ToSet(args) => r[u] = users[u]
  /\ \A u \in DOMAIN users, v \in D : Times(r[u], v) = Times(users[u], v) + IF v = i THEN Times(args, u) ELSE 0

UnregistersUser(r, users, D, args, i) ==
  /\ SameLists(r, users, D)
  /\ \A u \in DOMAIN users : u \notin ToSet(args) => r[u] = users[u]
  /\ \A u \in DOMAIN users, v \in D : Times(r[u], v) = Times(users[u], v) - IF v = i THEN Times(args, u) ELSE 0

LEMMA RegisteredTimes ==
  ASSUME NEW D, NEW users, AreLists(users, D), NEW args \in Seq(DOMAIN users), Len(args) \in 0..2, NEW i \in D,
         NEW r, r = Registered(users, args, i)
  PROVE  RegistersUser(r, users, D, args, i)
<1>1. /\ \A u \in DOMAIN users, v \in D : Times(users[u], v) \in Nat
      /\ <<i>> \in Seq(D) /\ \A v : Times(<<i>>, v) = IF v = i THEN 1 ELSE 0
  BY ListsAre, TimesInOne
<1>0. \A k \in 1..Len(args) : args[k] \in DOMAIN users
  BY ElementOfSeq
<1>2. CASE Len(args) = 0
  <2>1. r = users
    <3>1. Registered(users, args, i) = users
      BY <1>2, RegisteredNone
    <3> QED
      BY <3>1
  <2>2. args = <<>>
    BY <1>2, EmptySeq
  <2>3. \A u : Times(args, u) = 0
    BY <2>2, TimesInNone
  <2> QED
    BY <1>1, <2>1, <2>3 DEF RegistersUser, UnregistersUser, SameLists
<1>3. CASE Len(args) = 1
  <2>1. r = AddUsers(users, args[1], <<i>>)
    BY <1>3, RegisteredIs
  <2>2. args[1] \in DOMAIN users
    BY <1>0, <1>3
  <2>3. \A u : Times(args, u) = IF args[1] = u THEN 1 ELSE 0
    BY <1>3, TimesInFew
  <2>4. args[1] \in ToSet(args)
    BY <1>3, LenProperties DEF ToSet
  <2>5. /\ AreLists(r, D)
        /\ DOMAIN r = DOMAIN users
        /\ Len(r) = Len(users)
        /\ \A u \in DOMAIN users : r[u] = IF u = args[1] THEN users[u] \o <<i>> ELSE users[u]
        /\ \A u \in DOMAIN users, v \in D : Times(r[u], v) = Times(users[u], v) + IF u = args[1] THEN Times(<<i>>, v) ELSE 0
    <3>1. AddsUsers(r, users, D, args[1], <<i>>)
      BY <1>1, <2>1, <2>2, AddUsersIs DEF SameLists
    <3> QED
      BY <3>1 DEF AddsUsers, SameLists
  <2>6. \A u \in DOMAIN users, v \in D : Times(r[u], v) = Times(users[u], v) + IF v = i THEN Times(args, u) ELSE 0
    BY <1>1, <2>3, <2>5
  <2> QED
    BY <2>4, <2>5, <2>6 DEF RegistersUser, SameLists
<1>4. CASE Len(args) = 2
  <2>1. PICK s : s = AddUsers(users, args[1], <<i>>)
    OBVIOUS
  <2>2. r = AddUsers(s, args[2], <<i>>)
    BY <1>4, <2>1, RegisteredIs
  <2>3. args[1] \in DOMAIN users /\ args[2] \in DOMAIN users
    BY <1>0, <1>4
  <2>4. \A u : Times(args, u) = (IF args[1] = u THEN 1 ELSE 0) + (IF args[2] = u THEN 1 ELSE 0)
    BY <1>4, TimesInFew
  <2>5. args[1] \in ToSet(args) /\ args[2] \in ToSet(args)
    BY <1>4, LenProperties DEF ToSet
  <2>6. /\ AreLists(s, D)
        /\ DOMAIN s = DOMAIN users
        /\ Len(s) = Len(users)
        /\ \A u \in DOMAIN users : s[u] = IF u = args[1] THEN users[u] \o <<i>> ELSE users[u]
        /\ \A u \in DOMAIN users, v \in D : Times(s[u], v) = Times(users[u], v) + IF u = args[1] THEN Times(<<i>>, v) ELSE 0
    <3>1. AddsUsers(s, users, D, args[1], <<i>>)
      BY <1>1, <2>1, <2>3, AddUsersIs DEF SameLists
    <3> QED
      BY <3>1 DEF AddsUsers, SameLists
  <2>7. /\ AreLists(r, D)
        /\ DOMAIN r = DOMAIN s
        /\ Len(r) = Len(s)
        /\ \A u \in DOMAIN s : r[u] = IF u = args[2] THEN s[u] \o <<i>> ELSE s[u]
        /\ \A u \in DOMAIN s, v \in D : Times(r[u], v) = Times(s[u], v) + IF u = args[2] THEN Times(<<i>>, v) ELSE 0
    <3>1. AddsUsers(r, s, D, args[2], <<i>>)
      BY <1>1, <2>2, <2>3, <2>6, AddUsersIs DEF SameLists
    <3> QED
      BY <3>1 DEF AddsUsers, SameLists
  <2>8. \A u \in DOMAIN users, v \in D : Times(r[u], v) = Times(users[u], v) + IF v = i THEN Times(args, u) ELSE 0
    BY <1>1, <2>4, <2>6, <2>7, SMTT(20)
  <2> QED
    BY <2>5, <2>6, <2>7, <2>8 DEF RegistersUser, SameLists
<1> QED
  BY <1>2, <1>3, <1>4

LEMMA UnregisteredTimes ==
  ASSUME NEW D, NEW users, AreLists(users, D), NEW args \in Seq(DOMAIN users), Len(args) \in 0..2, NEW i \in D,
         Null \notin DOMAIN users,
         \A u \in DOMAIN users : Times(users[u], i) >= Times(args, u),
         NEW r, r = Unregistered(users, args, i)
  PROVE  UnregistersUser(r, users, D, args, i)
<1>1. \A u \in DOMAIN users, v \in D : users[u] \in Seq(D) /\ Times(users[u], v) \in Nat
  BY ListsAre
<1>2. \A k \in 1..Len(args) : args[k] \in DOMAIN users /\ args[k] # Null
  BY ElementOfSeq
<1>3. CASE Len(args) = 0
  <2>1. r = users
    BY <1>2, <1>3, UnregisteredIs
  <2>2. args = <<>>
    BY <1>3, EmptySeq
  <2>3. \A u : Times(args, u) = 0
    BY <2>2, TimesInNone
  <2> QED
    BY <1>1, <2>1, <2>3 DEF RegistersUser, UnregistersUser, SameLists
<1>4. CASE Len(args) = 1
  <2>1. r = RemoveUser(users, args[1], i)
    BY <1>2, <1>4, UnregisteredIs
  <2>2. args[1] \in DOMAIN users
    BY <1>2, <1>4
  <2>3. \A u : Times(args, u) = IF args[1] = u THEN 1 ELSE 0
    BY <1>4, TimesInFew
  <2>4. args[1] \in ToSet(args)
    BY <1>4, LenProperties DEF ToSet
  <2>5. Contains(users[args[1]], i)
    <3>1. Times(users[args[1]], i) # 0
      BY <1>1, <2>2, <2>3
    <3> QED
      BY <1>1, <2>2, <3>1, TimesIsCounted
  <2>6. /\ AreLists(r, D)
        /\ DOMAIN r = DOMAIN users
        /\ Len(r) = Len(users)
        /\ \A u \in DOMAIN users : u # args[1] => r[u] = users[u]
        /\ \A u \in DOMAIN users, v \in D : Times(r[u], v) = Times(users[u], v) - IF u = args[1] /\ v = i THEN 1 ELSE 0
    <3>1. RemovesUser(r, users, D, args[1], i)
      BY <1>1, <2>1, <2>2, <2>5, RemoveUserIs DEF SameLists
    <3> QED
      BY <3>1 DEF RemovesUser, SameLists
  <2>7. \A u \in DOMAIN users, v \in D : Times(r[u], v) = Times(users[u], v) - IF v = i THEN Times(args, u) ELSE 0
    BY <1>1, <2>3, <2>6
  <2> QED
    BY <2>4, <2>6, <2>7 DEF UnregistersUser, SameLists
<1>5. CASE Len(args) = 2
  <2>1. PICK s : s = RemoveUser(users, args[1], i)
    OBVIOUS
  <2>2. r = RemoveUser(s, args[2], i)
    BY <1>2, <1>5, <2>1, UnregisteredIs
  <2>3. args[1] \in DOMAIN users /\ args[2] \in DOMAIN users
    BY <1>2, <1>5
  <2>4. \A u : Times(args, u) = (IF args[1] = u THEN 1 ELSE 0) + (IF args[2] = u THEN 1 ELSE 0)
    BY <1>5, TimesInFew
  <2>5. args[1] \in ToSet(args) /\ args[2] \in ToSet(args)
    BY <1>5, LenProperties DEF ToSet
  <2>6. Contains(users[args[1]], i)
    <3>1. Times(users[args[1]], i) # 0
      BY <1>1, <2>3, <2>4, SMTT(20)
    <3> QED
      BY <1>1, <2>3, <3>1, TimesIsCounted
  <2>7. /\ AreLists(s, D)
        /\ DOMAIN s = DOMAIN users
        /\ Len(s) = Len(users)
        /\ \A u \in DOMAIN users : u # args[1] => s[u] = users[u]
        /\ \A u \in DOMAIN users, v \in D : Times(s[u], v) = Times(users[u], v) - IF u = args[1] /\ v = i THEN 1 ELSE 0
    <3>1. RemovesUser(s, users, D, args[1], i)
      BY <1>1, <2>1, <2>3, <2>6, RemoveUserIs DEF SameLists
    <3> QED
      BY <3>1 DEF RemovesUser, SameLists
  <2>8. Contains(s[args[2]], i)
    <3>1. Times(s[args[2]], i) # 0
      BY <1>1, <2>3, <2>4, <2>7, SMTT(20)
    <3>2. s[args[2]] \in Seq(D)
      BY <2>3, <2>7, ListsAre
    <3> QED
      BY <3>1, <3>2, TimesIsCounted
  <2>9. /\ AreLists(r, D)
        /\ DOMAIN r = DOMAIN s
        /\ Len(r) = Len(s)
        /\ \A u \in DOMAIN s : u # args[2] => r[u] = s[u]
        /\ \A u \in DOMAIN s, v \in D : Times(r[u], v) = Times(s[u], v) - IF u = args[2] /\ v = i THEN 1 ELSE 0
    <3>1. RemovesUser(r, s, D, args[2], i)
      BY <2>2, <2>3, <2>7, <2>8, RemoveUserIs DEF SameLists
    <3> QED
      BY <3>1 DEF RemovesUser, SameLists
  <2>10. \A u \in DOMAIN users, v \in D : Times(r[u], v) = Times(users[u], v) - IF v = i THEN Times(args, u) ELSE 0
    BY <1>1, <2>4, <2>7, <2>9, SMTT(20)
  <2> QED
    BY <2>5, <2>7, <2>9, <2>10 DEF UnregistersUser, SameLists
<1> QED
  BY <1>3, <1>4, <1>5

-----------------------------------------------------------------------------
(* What holds of a program between any two changes the passes make to it.  *)

(* The operations, those of instructions, those whose values nothing uses, *)
(* and how many operands they take.                                        *)
Ops == {"reg", "const", "alloc", "load", "add", "sub", "store", "ret", "freed"}
InstOps == {"alloc", "load", "add", "sub", "store", "ret"}
Mute == {"freed", "store", "ret"}
Arity(op) == IF op \in Binaries \cup {"store"} THEN 2 ELSE IF op \in {"load", "ret"} THEN 1 ELSE 0

(* A value of a program whose values are D.                                *)
IsValue(x, D) ==
  /\ x = [op |-> x.op, args |-> x.args, word |-> x.word]
  /\ x.op \in Ops
  /\ x.args \in Seq(D)
  /\ Len(x.args) = Arity(x.op)

Op(p, v) == p.vals[v].op
Args(p, v) == p.vals[v].args

(* The records and sequences the program is made of.                       *)
Shaped(p) ==
  /\ p = [vals |-> p.vals, users |-> p.users, body |-> p.body]
  /\ p.vals \in Seq(ToSet(p.vals))
  /\ AreLists(p.users, DOMAIN p.vals)
  /\ DOMAIN p.users = DOMAIN p.vals
Typed(p) ==
  /\ Shaped(p)
  /\ p.body \in Seq(DOMAIN p.vals)
  /\ \A v \in DOMAIN p.vals : IsValue(p.vals[v], DOMAIN p.vals)

(* A user list has one entry for each use: what UsersMatch says, for all   *)
(* values.                                                                 *)
Linked(p) == \A u, v \in DOMAIN p.vals : Times(p.users[u], v) = Times(Args(p, v), u)

(* What is freed or has no result is no operand.                           *)
Unusable(p) == \A v \in DOMAIN p.vals : Op(p, v) \in Mute => p.users[v] = <<>>

(* The block has every instruction once.                                   *)
Bodied(p) == IsInjective(p.body) /\ ToSet(p.body) = {v \in DOMAIN p.vals : Op(p, v) \in InstOps}

(* Operands come first: what the Verifier looks for.                       *)
Ordered(p) == \A v \in DOMAIN p.vals : \A u \in ToSet(Args(p, v)) \cap ToSet(p.body) : Before(p.body, u, v)

(* Variables are made at the beginning of the block.                       *)
AllocsFirst(p) == \A a, b \in ToSet(p.body) : Op(p, a) = "alloc" /\ Op(p, b) # "alloc" => Before(p.body, a, b)

(* What adds or subtracts a constant of the code has that constant to      *)
(* itself, so it uses what it computes with once only. All else that       *)
(* computes is in sums: the additions of two values that are not in the    *)
(* code.                                                                   *)
Owns(p, b, c, sums) == Op(p, b) \in Binaries /\ b \notin sums /\ Args(p, b)[2] = c
OwnConstants(p, sums) ==
  \A b \in DOMAIN p.vals, c \in DOMAIN p.vals : Owns(p, b, c, sums) =>
    /\ Op(p, c) = "const"
    /\ Args(p, b)[1] # c
    /\ \A x \in DOMAIN p.vals : c \in ToSet(Args(p, x)) => x = b

(* The registers are the first values, freed or not.                       *)
RegistersFirst(p) ==
  /\ 1..Registers \subseteq DOMAIN p.vals
  /\ \A v \in 1..Registers : Op(p, v) \in {"reg", "freed"}
  /\ \A v \in DOMAIN p.vals : Op(p, v) = "reg" => v \in 1..Registers
Sound(p, sums) ==
  /\ Typed(p)
  /\ Linked(p)
  /\ Unusable(p)
  /\ Bodied(p)
  /\ Ordered(p)
  /\ AllocsFirst(p)
  /\ OwnConstants(p, sums)
  /\ RegistersFirst(p)

(* What follows from being typed.                                          *)
LEMMA SeqOfMore ==
  ASSUME NEW S, NEW T, S \subseteq T, NEW s \in Seq(S)
  PROVE  s \in Seq(T)
<1>1. Len(s) \in Nat /\ DOMAIN s = 1..Len(s) /\ s = [k \in 1..Len(s) |-> s[k]]
  BY LenProperties
<1>2. \A k \in 1..Len(s) : s[k] \in T
  BY ElementOfSeq
<1> QED
  BY <1>1, <1>2, IsASeq

LEMMA ShapedFacts ==
  ASSUME NEW p, Shaped(p)
  PROVE  /\ Len(p.vals) \in Nat
         /\ DOMAIN p.vals = 1..Len(p.vals)
         /\ Null \notin DOMAIN p.vals
         /\ \A u \in DOMAIN p.vals : p.users[u] \in Seq(DOMAIN p.vals)
         /\ \A u \in DOMAIN p.vals : ToSet(p.users[u]) \subseteq DOMAIN p.vals
<1>1. Len(p.vals) \in Nat /\ DOMAIN p.vals = 1..Len(p.vals)
  BY LenProperties DEF Shaped
<1>2. \A u \in DOMAIN p.vals : p.users[u] \in Seq(DOMAIN p.vals)
  BY ListsAre DEF Shaped
<1>3. ASSUME NEW u \in DOMAIN p.vals PROVE ToSet(p.users[u]) \subseteq DOMAIN p.vals
  <2>1. p.users[u] \in Seq(DOMAIN p.vals)
    BY <1>2
  <2>2. DOMAIN p.users[u] = 1..Len(p.users[u])
    BY <2>1, LenProperties
  <2>3. \A k \in 1..Len(p.users[u]) : p.users[u][k] \in DOMAIN p.vals
    BY <2>1, ElementOfSeq
  <2> QED
    BY <2>2, <2>3 DEF ToSet
<1>4. Null \notin DOMAIN p.vals
  BY <1>1 DEF Null
<1> QED
  BY <1>1, <1>2, <1>3, <1>4

LEMMA TypedFacts ==
  ASSUME NEW p, Typed(p)
  PROVE  /\ \A v \in DOMAIN p.vals : Op(p, v) \in Ops /\ Args(p, v) \in Seq(DOMAIN p.vals) /\ Len(Args(p, v)) = Arity(Op(p, v))
         /\ \A v \in DOMAIN p.vals : DOMAIN Args(p, v) = 1..Arity(Op(p, v))
         /\ \A v \in DOMAIN p.vals : \A k \in 1..Arity(Op(p, v)) : Args(p, v)[k] \in DOMAIN p.vals /\ Args(p, v)[k] \in ToSet(Args(p, v))
         /\ \A v \in DOMAIN p.vals : ToSet(Args(p, v)) \subseteq DOMAIN p.vals
         /\ Len(p.body) \in Nat /\ DOMAIN p.body = 1..Len(p.body)
         /\ \A k \in DOMAIN p.body : p.body[k] \in DOMAIN p.vals
         /\ ToSet(p.body) \subseteq DOMAIN p.vals
<1>1. \A v \in DOMAIN p.vals : Op(p, v) \in Ops /\ Args(p, v) \in Seq(DOMAIN p.vals) /\ Len(Args(p, v)) = Arity(Op(p, v))
  BY DEF Typed, IsValue, Op, Args
<1>2. ASSUME NEW v \in DOMAIN p.vals
      PROVE  /\ DOMAIN Args(p, v) = 1..Arity(Op(p, v))
             /\ \A k \in 1..Arity(Op(p, v)) : Args(p, v)[k] \in DOMAIN p.vals /\ Args(p, v)[k] \in ToSet(Args(p, v))
             /\ ToSet(Args(p, v)) \subseteq DOMAIN p.vals
  <2>1. Args(p, v) \in Seq(DOMAIN p.vals) /\ Len(Args(p, v)) = Arity(Op(p, v))
    BY <1>1
  <2>2. DOMAIN Args(p, v) = 1..Arity(Op(p, v))
    BY <2>1, LenProperties
  <2>3. \A k \in 1..Arity(Op(p, v)) : Args(p, v)[k] \in DOMAIN p.vals
    BY <2>1, ElementOfSeq
  <2> QED
    BY <2>2, <2>3 DEF ToSet
<1>3. p.body \in Seq(DOMAIN p.vals)
  BY DEF Typed
<1>4. Len(p.body) \in Nat /\ DOMAIN p.body = 1..Len(p.body)
  BY <1>3, LenProperties
<1>5. \A k \in DOMAIN p.body : p.body[k] \in DOMAIN p.vals
  BY <1>3, <1>4, ElementOfSeq
<1> QED
  BY <1>1, <1>2, <1>4, <1>5 DEF ToSet

(* q is p with one more value, and whatever users and block.               *)
Grown(q, p, n, op, args, word) ==
  /\ Shaped(q)
  /\ n = Len(p.vals) + 1
  /\ DOMAIN q.vals = DOMAIN p.vals \cup {n} /\ n \notin DOMAIN p.vals
  /\ q.vals[n] = [op |-> op, args |-> args, word |-> word]
  /\ \A v \in DOMAIN p.vals : q.vals[v] = p.vals[v]
  /\ q.users[n] = <<>>
  /\ \A u \in DOMAIN p.vals : u \notin ToSet(args) => q.users[u] = p.users[u]
  /\ \A u, v \in DOMAIN p.vals : Times(q.users[u], v) = Times(p.users[u], v)
  /\ \A u \in DOMAIN p.vals : Times(q.users[u], n) = Times(args, u)

LEMMA MadeIs ==
  ASSUME NEW p, Shaped(p), NEW op, NEW args \in Seq(DOMAIN p.vals), Len(args) \in 0..2, NEW word
  PROVE  /\ Grown(Made(p, op, args, word), p, Len(p.vals) + 1, op, args, word)
         /\ Made(p, op, args, word).body = p.body
         /\ Newest(Made(p, op, args, word)) = Len(p.vals) + 1
<1>1. /\ Len(p.vals) \in Nat /\ DOMAIN p.vals = 1..Len(p.vals)
      /\ \A u \in DOMAIN p.vals : p.users[u] \in Seq(DOMAIN p.vals)
      /\ p.users \in Seq(Seq(DOMAIN p.vals)) /\ DOMAIN p.users = DOMAIN p.vals
      /\ p.vals \in Seq(ToSet(p.vals))
      /\ p = [vals |-> p.vals, users |-> p.users, body |-> p.body]
  BY ShapedFacts DEF Shaped, AreLists
<1>2. Len(p.users) = Len(p.vals)
  <2>1. Len(p.users) \in Nat /\ DOMAIN p.users = 1..Len(p.users)
    BY <1>1, LenProperties
  <2> QED
    BY <1>1, <2>1
<1> DEFINE n == Len(p.vals) + 1
           val == [op |-> op, args |-> args, word |-> word]
           D == 1..n
           lists == Append(p.users, <<>>)
           q == Made(p, op, args, word)
<1>3. /\ n \in Nat /\ n \notin DOMAIN p.vals /\ D = DOMAIN p.vals \cup {n}
      /\ DOMAIN p.vals \subseteq D
  BY <1>1
<1>4. /\ Append(p.vals, val) \in Seq(ToSet(p.vals) \cup {val})
      /\ Len(Append(p.vals, val)) = n
      /\ \A k \in 1..Len(p.vals) : Append(p.vals, val)[k] = p.vals[k]
      /\ Append(p.vals, val)[n] = val
  <2>1. p.vals \in Seq(ToSet(p.vals) \cup {val})
    BY <1>1, SeqOfMore
  <2> QED
    BY <2>1, AppendProperties
<1>5. DOMAIN Append(p.vals, val) = D
  BY <1>4, LenProperties
<1>6. Append(p.vals, val) \in Seq(ToSet(Append(p.vals, val)))
  <2>1. Append(p.vals, val) = [k \in D |-> Append(p.vals, val)[k]]
    BY <1>4, LenProperties
  <2>2. \A k \in D : Append(p.vals, val)[k] \in ToSet(Append(p.vals, val))
    BY <1>5 DEF ToSet
  <2>3. PICK s : s = Append(p.vals, val)
    OBVIOUS
  <2> HIDE DEF val
  <2>4. s = [k \in 1..n |-> s[k]] /\ \A k \in 1..n : s[k] \in ToSet(s)
    BY <2>1, <2>2, <2>3
  <2>5. s \in Seq(ToSet(s))
    <3>1. PICK m : m = n
      OBVIOUS
    <3>2. PICK S : S = ToSet(s)
      OBVIOUS
    <3>3. m \in Nat /\ s = [k \in 1..m |-> s[k]] /\ \A k \in 1..m : s[k] \in S
      BY <1>3, <2>4, <3>1, <3>2
    <3> HIDE DEF n
    <3> QED
      BY <3>2, <3>3, IsASeq
  <2> QED
    BY <2>3, <2>5
<1>7. /\ lists \in Seq(Seq(D))
      /\ DOMAIN lists = D
      /\ \A k \in DOMAIN p.vals : lists[k] = p.users[k]
      /\ lists[n] = <<>>
  <2>1. \A s \in Seq(DOMAIN p.vals) : s \in Seq(D)
    BY <1>3, SeqOfMore
  <2>2. p.users \in Seq(Seq(D))
    BY <1>1, <2>1, SeqOfMore
  <2>3. <<>> \in Seq(D)
    BY EmptySeq
  <2>4. /\ lists \in Seq(Seq(D)) /\ Len(lists) = n
        /\ \A k \in 1..Len(p.users) : lists[k] = p.users[k] /\ lists[n] = <<>>
    BY <1>2, <2>2, <2>3, AppendProperties
  <2>5. lists[n] = <<>>
    BY <1>2, <2>2, <2>3, AppendProperties
  <2>6. DOMAIN lists = D
    BY <2>4, LenProperties
  <2> QED
    BY <1>1, <1>2, <2>4, <2>5, <2>6
<1>8. args \in Seq(D)
  BY <1>3, SeqOfMore
<1>9. PICK r : r = Registered(lists, args, n)
  OBVIOUS
<1>10. RegistersUser(r, lists, D, args, n)
  <2>1. AreLists(lists, D) /\ args \in Seq(DOMAIN lists) /\ n \in D
    BY <1>3, <1>7, <1>8 DEF AreLists
  <2> HIDE DEF D, lists, n
  <2> QED
    BY <1>9, <2>1, RegisteredTimes
<1>11. q = [vals |-> Append(p.vals, val), users |-> r, body |-> p.body]
  <2>1. PICK a, b, c : p = [vals |-> a, users |-> b, body |-> c]
    BY <1>1
  <2>2. p.vals = a /\ p.users = b /\ p.body = c
    BY <2>1
  <2>3. PICK vals : vals = Append(p.vals, val)
    OBVIOUS
  <2>4. q = [p EXCEPT !.vals = vals, !.users = r]
    BY <1>9, <2>3, Zenon DEF Made
  <2> HIDE DEF q, n, lists, val
  <2> QED
    BY <2>1, <2>2, <2>3, <2>4
<1>12. q.vals = Append(p.vals, val) /\ q.users = r /\ q.body = p.body
  BY <1>11
<1>13. n \notin ToSet(args)
  <2>1. DOMAIN args = 1..Len(args) /\ \A k \in 1..Len(args) : args[k] \in DOMAIN p.vals
    BY LenProperties, ElementOfSeq
  <2> QED
    BY <1>3, <2>1 DEF ToSet
<1>14. ASSUME NEW u \in DOMAIN p.vals PROVE Times(p.users[u], n) = 0
  <2>1. p.users[u] \in Seq(DOMAIN p.vals)
    BY <1>1
  <2>2. n \notin ToSet(p.users[u])
    BY <1>3, ShapedFacts
  <2> QED
    BY <2>1, <2>2, TimesIsCounted
<1>15. Shaped(q)
  BY <1>5, <1>6, <1>7, <1>10, <1>11, <1>12 DEF Shaped, RegistersUser, SameLists
<1>16. ASSUME NEW u \in DOMAIN p.vals, NEW v \in DOMAIN p.vals
       PROVE  /\ Times(r[u], v) = Times(p.users[u], v)
              /\ Times(r[u], n) = Times(args, u)
  <2> HIDE DEF n, D, lists
  <2>1. u \in DOMAIN lists /\ v \in D /\ n \in D /\ v # n /\ lists[u] = p.users[u]
    BY <1>3, <1>7
  <2>2. Times(lists[u], v) \in Nat /\ Times(args, u) \in Nat
    BY <1>1, <2>1, TimesIsCounted
  <2> QED
    BY <1>10, <1>14, <2>1, <2>2 DEF RegistersUser
<1>17. r[n] = <<>> /\ \A u \in DOMAIN p.vals : u \notin ToSet(args) => r[u] = p.users[u]
  <2> HIDE DEF n, D, lists
  <2> QED
    BY <1>3, <1>7, <1>10, <1>13 DEF RegistersUser
<1>18. Grown(q, p, n, op, args, word)
  BY <1>3, <1>4, <1>5, <1>12, <1>15, <1>16, <1>17, <1>1 DEF Grown
<1> QED
  BY <1>4, <1>12, <1>18 DEF Newest

-----------------------------------------------------------------------------
(* New values and new instructions keep that.                              *)

(* q is p with one more value that uses args.                              *)
Extends(q, p, n, op, args, word) ==
  /\ Grown(q, p, n, op, args, word)
  /\ q.body \in Seq(DOMAIN q.vals)
  /\ IsInjective(q.body)
  /\ ToSet(q.body) = ToSet(p.body) \cup (IF op \in InstOps THEN {n} ELSE {})
  /\ \A a, b : Before(p.body, a, b) => Before(q.body, a, b)

(* Operands a new value may have.                                          *)
Fits(p, op, args, sums) ==
  /\ op \in Ops \ {"reg", "freed"}
  /\ args \in Seq(DOMAIN p.vals)
  /\ Len(args) = Arity(op)
  /\ \A u \in ToSet(args) : Op(p, u) \notin Mute
  /\ \A b, c \in DOMAIN p.vals : Owns(p, b, c, sums) => c \notin ToSet(args)
  /\ op \in Binaries /\ Newest(p) + 1 \notin sums => Op(p, args[2]) = "const" /\ args[1] # args[2] /\ p.users[args[2]] = <<>>

(* Where a new instruction may stand: behind its operands.                 *)
Placed(q, p, n, op, args) ==
  /\ \A u \in ToSet(args) \cap ToSet(p.body) : Before(q.body, u, n)
  /\ op = "alloc" => \A b \in ToSet(p.body) : Op(p, b) # "alloc" => Before(q.body, n, b)
  /\ op \in InstOps \ {"alloc"} => \A a \in ToSet(p.body) : Op(p, a) = "alloc" => Before(q.body, a, n)

(* Of a user list and the operands, in a program that is linked.           *)
LEMMA UsersOfOperands ==
  ASSUME NEW p, Typed(p), Linked(p), NEW u \in DOMAIN p.vals, NEW v \in DOMAIN p.vals
  PROVE  /\ v \in ToSet(p.users[u]) <=> u \in ToSet(Args(p, v))
         /\ Contains(p.users[u], v) <=> u \in ToSet(Args(p, v))
         /\ p.users[u] = <<>> => u \notin ToSet(Args(p, v))
<1>1. p.users[u] \in Seq(DOMAIN p.vals) /\ Args(p, v) \in Seq(DOMAIN p.vals)
  BY ShapedFacts, TypedFacts DEF Typed
<1>2. Times(p.users[u], v) = Times(Args(p, v), u)
  BY DEF Linked
<1>3. Times(p.users[u], v) # 0 <=> v \in ToSet(p.users[u])
  BY <1>1, TimesIsCounted
<1>4. Times(Args(p, v), u) # 0 <=> u \in ToSet(Args(p, v))
  BY <1>1, TimesIsCounted
<1>5. Contains(p.users[u], v) <=> v \in ToSet(p.users[u])
  BY <1>1, TimesIsCounted
<1>6. p.users[u] = <<>> => v \notin ToSet(p.users[u])
  BY TimesInNone
<1> QED
  BY <1>2, <1>3, <1>4, <1>5, <1>6

(* n joins the values of p, which stay as they are and do not know it.     *)
Joined(q, p, n, op, args) ==
  /\ DOMAIN q.vals = DOMAIN p.vals \cup {n} /\ n \notin DOMAIN p.vals /\ n \in DOMAIN q.vals
  /\ Op(q, n) = op /\ Args(q, n) = args
  /\ \A v \in DOMAIN p.vals : Op(q, v) = Op(p, v) /\ Args(q, v) = Args(p, v)
  /\ n \notin ToSet(args) /\ ToSet(args) \subseteq DOMAIN p.vals
  /\ \A v \in DOMAIN p.vals : n \notin ToSet(Args(p, v)) /\ ToSet(Args(p, v)) \subseteq DOMAIN p.vals
  /\ n \notin ToSet(p.body)
  /\ \A v \in DOMAIN p.vals : v \in ToSet(q.body) => v \in ToSet(p.body)
  /\ DOMAIN args = 1..Arity(op)

(* Each part of Sound holds of the extended program.                       *)
LEMMA GrownFacts ==
  ASSUME NEW sums, NEW p, Typed(p), NEW op, NEW args, Fits(p, op, args, sums), NEW q, NEW n, NEW word, Extends(q, p, n, op, args, word)
  PROVE  Joined(q, p, n, op, args)
<1>1. DOMAIN q.vals = DOMAIN p.vals \cup {n} /\ n \notin DOMAIN p.vals
  BY DEF Extends, Grown
<1>2. Op(q, n) = op /\ Args(q, n) = args
  BY DEF Extends, Grown, Op, Args
<1>3. \A v \in DOMAIN p.vals : Op(q, v) = Op(p, v) /\ Args(q, v) = Args(p, v)
  BY DEF Extends, Grown, Op, Args
<1>4. args \in Seq(DOMAIN p.vals) /\ Len(args) = Arity(op)
  BY DEF Fits
<1>5. DOMAIN args = 1..Arity(op)
  BY <1>4, LenProperties
<1>6. ToSet(args) \subseteq DOMAIN p.vals
  BY <1>4, <1>5, ElementOfSeq DEF ToSet
<1>7. \A v \in DOMAIN p.vals : ToSet(Args(p, v)) \subseteq DOMAIN p.vals
  BY TypedFacts
<1>8. ToSet(p.body) \subseteq DOMAIN p.vals
  BY TypedFacts
<1>9. \A v \in DOMAIN p.vals : v \in ToSet(q.body) => v \in ToSet(p.body)
  BY <1>1 DEF Extends
<1> QED
  BY <1>1, <1>2, <1>3, <1>5, <1>6, <1>7, <1>8, <1>9 DEF Joined

LEMMA ExtendedTyped ==
  ASSUME NEW sums, NEW p, Typed(p), NEW op, NEW args, Fits(p, op, args, sums), NEW q, NEW n, NEW word, Extends(q, p, n, op, args, word)
  PROVE  Typed(q)
<1>1. DOMAIN q.vals = DOMAIN p.vals \cup {n}
  <2>1. Joined(q, p, n, op, args)
    BY GrownFacts
  <2> QED
    BY <2>1 DEF Joined
<1>2. ASSUME NEW v \in DOMAIN q.vals PROVE IsValue(q.vals[v], DOMAIN q.vals)
  <2>1. CASE v = n
    <3>1. args \in Seq(DOMAIN q.vals)
      BY <1>1, SeqOfMore DEF Fits
    <3>2. q.vals[v] = [op |-> op, args |-> args, word |-> word]
      BY <2>1 DEF Extends, Grown
    <3> QED
      BY <3>1, <3>2 DEF IsValue, Fits
  <2>2. CASE v \in DOMAIN p.vals
    <3>1. q.vals[v] = p.vals[v]
      BY <2>2 DEF Extends, Grown
    <3>2. IsValue(p.vals[v], DOMAIN p.vals)
      BY <2>2 DEF Typed
    <3>3. p.vals[v].args \in Seq(DOMAIN q.vals)
      BY <1>1, <3>2, SeqOfMore DEF IsValue
    <3> QED
      BY <3>1, <3>2, <3>3 DEF IsValue
  <2> QED
    BY <1>1, <2>1, <2>2
<1> QED
  BY <1>2 DEF Typed, Extends, Grown

LEMMA ExtendedLinked ==
  ASSUME NEW sums, NEW p, Typed(p), Linked(p), Unusable(p), NEW op, NEW args, Fits(p, op, args, sums), NEW q, NEW n, NEW word,
         Extends(q, p, n, op, args, word)
  PROVE  Linked(q) /\ Unusable(q)
<1>1. /\ DOMAIN q.vals = DOMAIN p.vals \cup {n} /\ n \notin DOMAIN p.vals
      /\ Op(q, n) = op /\ Args(q, n) = args
      /\ \A v \in DOMAIN p.vals : Op(q, v) = Op(p, v) /\ Args(q, v) = Args(p, v)
      /\ n \notin ToSet(args)
      /\ \A v \in DOMAIN p.vals : n \notin ToSet(Args(p, v))
  <2>1. Joined(q, p, n, op, args)
    BY GrownFacts
  <2> QED
    BY <2>1 DEF Joined
<1>2. ASSUME NEW s, NEW S, s \in Seq(S), n \notin ToSet(s) PROVE Times(s, n) = 0
  BY <1>2, TimesIsCounted
<1>3. ASSUME NEW u \in DOMAIN q.vals, NEW v \in DOMAIN q.vals PROVE Times(q.users[u], v) = Times(Args(q, v), u)
  <2>1. CASE u = n
    <3>1. Times(q.users[u], v) = 0
      BY <2>1, TimesInNone DEF Extends, Grown
    <3>2. Args(q, v) \in Seq(DOMAIN p.vals) /\ n \notin ToSet(Args(q, v))
      BY <1>1, TypedFacts DEF Fits
    <3> QED
      BY <1>2, <2>1, <3>1, <3>2
  <2>2. CASE u \in DOMAIN p.vals /\ v = n
    BY <1>1, <2>2 DEF Extends, Grown
  <2>3. CASE u \in DOMAIN p.vals /\ v \in DOMAIN p.vals
    BY <1>1, <2>3 DEF Extends, Grown, Linked
  <2> QED
    BY <1>1, <2>1, <2>2, <2>3
<1>4. ASSUME NEW v \in DOMAIN q.vals, Op(q, v) \in Mute PROVE q.users[v] = <<>>
  <2>1. CASE v = n
    BY <2>1 DEF Extends, Grown
  <2>2. CASE v \in DOMAIN p.vals
    <3>1. Op(p, v) \in Mute
      BY <1>1, <1>4, <2>2
    <3>2. v \notin ToSet(args)
      BY <3>1 DEF Fits
    <3> QED
      BY <2>2, <3>1, <3>2 DEF Extends, Grown, Unusable
  <2> QED
    BY <1>1, <2>1, <2>2
<1> QED
  BY <1>3, <1>4 DEF Linked, Unusable

LEMMA ExtendedBodied ==
  ASSUME NEW sums, NEW p, Typed(p), Bodied(p), NEW op, NEW args, Fits(p, op, args, sums), NEW q, NEW n, NEW word,
         Extends(q, p, n, op, args, word)
  PROVE  Bodied(q)
<1>1. /\ DOMAIN q.vals = DOMAIN p.vals \cup {n} /\ n \notin DOMAIN p.vals
      /\ Op(q, n) = op
      /\ \A v \in DOMAIN p.vals : Op(q, v) = Op(p, v)
  <2>1. Joined(q, p, n, op, args)
    BY GrownFacts
  <2> QED
    BY <2>1 DEF Joined
<1>2. {v \in DOMAIN q.vals : Op(q, v) \in InstOps} =
        {v \in DOMAIN p.vals : Op(p, v) \in InstOps} \cup (IF op \in InstOps THEN {n} ELSE {})
  BY <1>1
<1> QED
  BY <1>2 DEF Bodied, Extends

LEMMA ExtendedOrdered ==
  ASSUME NEW sums, NEW p, Typed(p), Bodied(p), Ordered(p), AllocsFirst(p), NEW op, NEW args, Fits(p, op, args, sums), NEW q, NEW n, NEW word,
         Extends(q, p, n, op, args, word), Placed(q, p, n, op, args)
  PROVE  Ordered(q) /\ AllocsFirst(q)
<1>1. /\ DOMAIN q.vals = DOMAIN p.vals \cup {n} /\ n \notin DOMAIN p.vals
      /\ Op(q, n) = op /\ Args(q, n) = args
      /\ \A v \in DOMAIN p.vals : Op(q, v) = Op(p, v) /\ Args(q, v) = Args(p, v)
      /\ n \notin ToSet(args) /\ ToSet(args) \subseteq DOMAIN p.vals
      /\ \A v \in DOMAIN p.vals : n \notin ToSet(Args(p, v)) /\ ToSet(Args(p, v)) \subseteq DOMAIN p.vals
      /\ n \notin ToSet(p.body)
      /\ \A v \in DOMAIN p.vals : v \in ToSet(q.body) => v \in ToSet(p.body)
  <2>1. Joined(q, p, n, op, args)
    BY GrownFacts
  <2> QED
    BY <2>1 DEF Joined
<1>2. ToSet(p.body) \subseteq DOMAIN p.vals
  BY TypedFacts
<1>3. ASSUME NEW v \in DOMAIN q.vals, NEW u \in ToSet(Args(q, v)) \cap ToSet(q.body) PROVE Before(q.body, u, v)
  <2>1. CASE v = n
    BY <1>1, <1>3, <2>1 DEF Placed
  <2>2. CASE v \in DOMAIN p.vals
    <3>1. u \in ToSet(Args(p, v)) \cap ToSet(p.body)
      BY <1>1, <1>3, <2>2
    <3>2. Before(p.body, u, v)
      BY <2>2, <3>1 DEF Ordered
    <3> QED
      BY <3>2 DEF Extends
  <2> QED
    BY <1>1, <2>1, <2>2
<1>4. ASSUME NEW a \in ToSet(q.body), NEW b \in ToSet(q.body), Op(q, a) = "alloc", Op(q, b) # "alloc"
      PROVE  Before(q.body, a, b)
  <2>1. \A v \in ToSet(q.body) : v \in ToSet(p.body) \/ (v = n /\ op \in InstOps)
    BY DEF Extends
  <2>2. CASE a \in ToSet(p.body) /\ b \in ToSet(p.body)
    BY <1>1, <1>2, <1>4, <2>2 DEF AllocsFirst, Extends
  <2>3. CASE a = n /\ op \in InstOps /\ b \in ToSet(p.body)
    BY <1>1, <1>2, <1>4, <2>3 DEF Placed
  <2>4. CASE a \in ToSet(p.body) /\ b = n /\ op \in InstOps
    BY <1>1, <1>2, <1>4, <2>4 DEF Placed
  <2> QED
    BY <1>4, <2>1, <2>2, <2>3, <2>4
<1> QED
  BY <1>3, <1>4 DEF Ordered, AllocsFirst

LEMMA ExtendedOwns ==
  ASSUME NEW sums, NEW p, Typed(p), Linked(p), OwnConstants(p, sums), RegistersFirst(p), NEW op, NEW args, Fits(p, op, args, sums), NEW q, NEW n, NEW word,
         Extends(q, p, n, op, args, word)
  PROVE  OwnConstants(q, sums) /\ RegistersFirst(q)
<1>1. /\ DOMAIN q.vals = DOMAIN p.vals \cup {n} /\ n \notin DOMAIN p.vals
      /\ Op(q, n) = op /\ Args(q, n) = args
      /\ \A v \in DOMAIN p.vals : Op(q, v) = Op(p, v) /\ Args(q, v) = Args(p, v)
      /\ n \notin ToSet(args) /\ ToSet(args) \subseteq DOMAIN p.vals
      /\ \A v \in DOMAIN p.vals : n \notin ToSet(Args(p, v)) /\ ToSet(Args(p, v)) \subseteq DOMAIN p.vals
      /\ DOMAIN args = 1..Arity(op)
  <2>1. Joined(q, p, n, op, args)
    BY GrownFacts
  <2> QED
    BY <2>1 DEF Joined
<1>2. ASSUME NEW b \in DOMAIN q.vals, NEW c \in DOMAIN q.vals, Owns(q, b, c, sums)
      PROVE  /\ Op(q, c) = "const"
             /\ Args(q, b)[1] # c
             /\ \A x \in DOMAIN q.vals : c \in ToSet(Args(q, x)) => x = b
  <2>1. CASE b = n
    <3>1. op \in Binaries /\ c = args[2] /\ Newest(p) + 1 \notin sums
      BY <1>1, <1>2, <2>1 DEF Owns, Extends, Grown, Newest
    <3>2. Op(p, c) = "const" /\ args[1] # c /\ p.users[c] = <<>>
      BY <3>1 DEF Fits
    <3>3. c \in DOMAIN p.vals
      BY <1>1, <3>1 DEF Arity, ToSet
    <3>4. \A x \in DOMAIN p.vals : c \notin ToSet(Args(p, x))
      BY <3>2, <3>3, UsersOfOperands
    <3> QED
      BY <1>1, <2>1, <3>1, <3>2, <3>3, <3>4
  <2>2. CASE b \in DOMAIN p.vals
    <3>1. Op(p, b) \in Binaries /\ b \notin sums /\ c = Args(p, b)[2]
      BY <1>1, <1>2, <2>2 DEF Owns
    <3>2. c \in DOMAIN p.vals
      BY <2>2, <3>1, TypedFacts DEF Arity
    <3>3. Owns(p, b, c, sums)
      BY <3>1 DEF Owns
    <3>4. c \notin ToSet(args)
      BY <2>2, <3>2, <3>3 DEF Fits
    <3> QED
      BY <1>1, <2>2, <3>2, <3>3, <3>4 DEF OwnConstants
  <2> QED
    BY <1>1, <2>1, <2>2
<1>3. RegistersFirst(q)
  <2>1. op # "reg"
    BY DEF Fits
  <2> QED
    BY <1>1, <2>1 DEF RegistersFirst
<1> QED
  BY <1>2, <1>3 DEF OwnConstants

LEMMA ExtendedSound ==
  ASSUME NEW sums, NEW p, Sound(p, sums), NEW op, NEW args, Fits(p, op, args, sums), NEW q, NEW n, NEW word,
         Extends(q, p, n, op, args, word), Placed(q, p, n, op, args)
  PROVE  Sound(q, sums)
BY ExtendedTyped, ExtendedLinked, ExtendedBodied, ExtendedOrdered, ExtendedOwns DEF Sound

LEMMA GrownOtherBody ==
  ASSUME NEW p, Shaped(p), NEW body
  PROVE  /\ [p EXCEPT !.body = body].vals = p.vals
         /\ [p EXCEPT !.body = body].users = p.users
         /\ [p EXCEPT !.body = body].body = body
         /\ Shaped([p EXCEPT !.body = body])
<1>1. PICK a, b, c : p = [vals |-> a, users |-> b, body |-> c]
  BY DEF Shaped
<1>2. PICK q : q = [p EXCEPT !.body = body]
  OBVIOUS
<1>3. p.vals = a /\ p.users = b
  BY <1>1
<1>4. q = [vals |-> a, users |-> b, body |-> body]
  BY <1>1, <1>2
<1>5. q.vals = a /\ q.users = b /\ q.body = body
  BY <1>4
<1> QED
  BY <1>2, <1>3, <1>4, <1>5 DEF Shaped

FromConstant(q, p, w, sums) ==
  /\ Sound(q, sums)
  /\ Extends(q, p, Len(p.vals) + 1, "const", <<>>, w)
  /\ q.body = p.body
  /\ Newest(q) = Len(p.vals) + 1

(* A constant, and an instruction at a place, at the end or in front.      *)
LEMMA ConstantIs ==
  ASSUME NEW sums, NEW p, Sound(p, sums), NEW w, NEW q, q = Constant(p, w)
  PROVE  FromConstant(q, p, w, sums)
<1>1. Shaped(p) /\ p.body \in Seq(DOMAIN p.vals) /\ IsInjective(p.body)
  BY DEF Sound, Typed, Bodied
<1>2. <<>> \in Seq(DOMAIN p.vals) /\ Len(<<>>) = 0 /\ ToSet(<<>>) = {}
  BY EmptySeq, TimesInNone
<1>3. PICK n : n = Len(p.vals) + 1
  OBVIOUS
<1>4. Grown(q, p, n, "const", <<>>, w) /\ q.body = p.body /\ Newest(q) = n
  <2>1. PICK args : args = <<>>
    OBVIOUS
  <2>2. q = Made(p, "const", args, w)
    BY <2>1 DEF Constant
  <2>3. args \in Seq(DOMAIN p.vals) /\ Len(args) \in 0..2
    BY <1>2, <2>1
  <2>4. Grown(q, p, n, "const", args, w) /\ q.body = p.body /\ Newest(q) = n
    BY <1>1, <1>3, <2>2, <2>3, MadeIs
  <2> QED
    BY <2>1, <2>4
<1>5. Extends(q, p, n, "const", <<>>, w)
  <2>1. q.body \in Seq(DOMAIN q.vals)
    BY <1>1, <1>4, SeqOfMore DEF Grown
  <2> QED
    BY <1>1, <1>4, <2>1 DEF Extends, InstOps
<1>6. Fits(p, "const", <<>>, sums) /\ Placed(q, p, n, "const", <<>>)
  BY <1>2 DEF Fits, Placed, Arity, Ops, Binaries, InstOps
<1>7. Sound(q, sums)
  BY <1>5, <1>6, ExtendedSound
<1> QED
  BY <1>3, <1>4, <1>5, <1>7 DEF FromConstant

PlacedAt(p, k, op, args) ==
  /\ k \in 1..(Len(p.body) + 1)
  /\ \A j \in DOMAIN p.body : p.body[j] \in ToSet(args) => j < k
  /\ op = "alloc" => \A j \in DOMAIN p.body : Op(p, p.body[j]) # "alloc" => j >= k
  /\ op # "alloc" => \A j \in DOMAIN p.body : Op(p, p.body[j]) = "alloc" => j < k

FromInsertion(q, p, k, op, args, word, sums) ==
  /\ Sound(q, sums)
  /\ Extends(q, p, Len(p.vals) + 1, op, args, word)
  /\ q.body = InsertAt(p.body, k, Len(p.vals) + 1)
  /\ Newest(q) = Len(p.vals) + 1

LEMMA InsertedIs ==
  ASSUME NEW sums, NEW p, Sound(p, sums), NEW op \in InstOps, NEW args, Fits(p, op, args, sums), NEW k, PlacedAt(p, k, op, args),
         NEW word, NEW q, q = Inserted(p, k, op, args, word)
  PROVE  FromInsertion(q, p, k, op, args, word, sums)
<1>1. Shaped(p) /\ p.body \in Seq(DOMAIN p.vals) /\ IsInjective(p.body)
  BY DEF Sound, Typed, Bodied
<1>2. args \in Seq(DOMAIN p.vals) /\ Len(args) \in 0..2
  BY DEF Fits, Arity
<1>3. PICK n : n = Len(p.vals) + 1
  OBVIOUS
<1>4. PICK m : m = Made(p, op, args, word)
  OBVIOUS
<1>5. Grown(m, p, n, op, args, word) /\ m.body = p.body /\ Newest(m) = n
  BY <1>1, <1>2, <1>3, <1>4, MadeIs
<1>6. PICK body : body = InsertAt(p.body, k, n)
  OBVIOUS
<1>7. q = [m EXCEPT !.body = body]
  BY <1>3, <1>4, <1>5, <1>6 DEF Inserted
<1>8. q.vals = m.vals /\ q.users = m.users /\ q.body = body /\ Shaped(q)
  BY <1>5, <1>7, GrownOtherBody DEF Grown
<1>9. Grown(q, p, n, op, args, word) /\ Newest(q) = n
  BY <1>5, <1>8 DEF Grown, Newest
<1>10. DOMAIN q.vals = DOMAIN p.vals \cup {n} /\ n \notin DOMAIN p.vals /\ ToSet(p.body) \subseteq DOMAIN p.vals
  BY <1>9, TypedFacts DEF Grown, Sound
<1>11. p.body \in Seq(DOMAIN q.vals)
  BY <1>1, <1>10, SeqOfMore
<1>12. /\ body \in Seq(DOMAIN q.vals)
       /\ IsInjective(body)
       /\ ToSet(body) = ToSet(p.body) \cup {n}
       /\ \A a, b : Before(p.body, a, b) => Before(body, a, b)
       /\ \A j \in DOMAIN p.body : j < k => Before(body, p.body[j], n)
       /\ \A j \in DOMAIN p.body : j >= k => Before(body, n, p.body[j])
  <2>1. k \in 1..(Len(p.body) + 1) /\ n \in DOMAIN q.vals /\ n \notin ToSet(p.body)
    BY <1>10 DEF PlacedAt
  <2> QED
    BY <1>1, <1>6, <1>11, <2>1, InsertedInBlock
<1>13. Extends(q, p, n, op, args, word)
  BY <1>8, <1>9, <1>12 DEF Extends
<1>14. ASSUME NEW u \in ToSet(p.body) PROVE \E j \in DOMAIN p.body : p.body[j] = u
  BY <1>14 DEF ToSet
<1>15. Placed(q, p, n, op, args)
  BY <1>8, <1>12, <1>14 DEF Placed, PlacedAt
<1>16. Sound(q, sums)
  BY <1>13, <1>15, ExtendedSound
<1> QED
  BY <1>3, <1>6, <1>8, <1>9, <1>13, <1>16 DEF FromInsertion

LEMMA AppendedIs ==
  ASSUME NEW sums, NEW p, Sound(p, sums), NEW op \in InstOps \ {"alloc"}, NEW args, Fits(p, op, args, sums), NEW q, q = Appended(p, op, args)
  PROVE  FromInsertion(q, p, Len(p.body) + 1, op, args, 0, sums)
<1>1. Len(p.body) \in Nat /\ DOMAIN p.body = 1..Len(p.body)
  BY TypedFacts DEF Sound
<1>2. PlacedAt(p, Len(p.body) + 1, op, args)
  BY <1>1 DEF PlacedAt
<1> QED
  BY <1>2, InsertedIs DEF Appended

LEMMA AllocFits ==
  ASSUME NEW sums, NEW p
  PROVE  Fits(p, "alloc", <<>>, sums)
<1>1. <<>> \in Seq(DOMAIN p.vals) /\ Len(<<>>) = 0 /\ ToSet(<<>>) = {}
  BY EmptySeq, TimesInNone
<1> QED
  BY <1>1 DEF Fits, Arity, Ops, Binaries

LEMMA PrependedIs ==
  ASSUME NEW sums, NEW p, Sound(p, sums), NEW word, NEW q, q = Prepended(p, "alloc", word)
  PROVE  FromInsertion(q, p, 1, "alloc", <<>>, word, sums)
<1>1. Len(p.body) \in Nat /\ DOMAIN p.body = 1..Len(p.body)
  BY TypedFacts DEF Sound
<1>2. PlacedAt(p, 1, "alloc", <<>>)
  BY <1>1, TimesInNone DEF PlacedAt
<1> QED
  BY <1>2, AllocFits, InsertedIs DEF Prepended, InstOps

-----------------------------------------------------------------------------
(* So does the destruction of an instruction nothing uses.                 *)

(* q is p without i in the block and in the user lists.                    *)
Freed == [op |-> "freed", args |-> <<>>, word |-> 0]

Erases(q, p, i) ==
  /\ Shaped(q)
  /\ DOMAIN q.vals = DOMAIN p.vals
  /\ q.vals[i] = Freed
  /\ \A v \in DOMAIN p.vals : v # i => q.vals[v] = p.vals[v]
  /\ \A u \in DOMAIN p.vals : u \notin ToSet(Args(p, i)) => q.users[u] = p.users[u]
  /\ \A u, v \in DOMAIN p.vals : Times(q.users[u], v) = IF v = i THEN 0 ELSE Times(p.users[u], v)

LEMMA DestroyedIs ==
  ASSUME NEW p, Typed(p), Linked(p), NEW i \in DOMAIN p.vals, NEW q, q = Destroyed(p, i)
  PROVE  Erases(q, p, i) /\ q.body = p.body
<1>1. /\ Len(p.vals) \in Nat /\ DOMAIN p.vals = 1..Len(p.vals) /\ Null \notin DOMAIN p.vals
      /\ \A u \in DOMAIN p.vals : p.users[u] \in Seq(DOMAIN p.vals)
      /\ AreLists(p.users, DOMAIN p.vals) /\ DOMAIN p.users = DOMAIN p.vals
      /\ p.vals \in Seq(ToSet(p.vals))
  BY ShapedFacts DEF Shaped, Typed
<1>2. Args(p, i) \in Seq(DOMAIN p.vals) /\ Len(Args(p, i)) \in 0..2
  BY TypedFacts DEF Arity
<1>3. PICK r : r = Unregistered(p.users, Args(p, i), i)
  OBVIOUS
<1>4. PICK vals : vals = [p.vals EXCEPT ![i] = Freed]
  OBVIOUS
<1>5. q.vals = vals /\ q.users = r /\ q.body = p.body /\ q = [vals |-> vals, users |-> r, body |-> p.body]
  <2>1. PICK a, b, c : p = [vals |-> a, users |-> b, body |-> c]
    BY DEF Shaped, Typed
  <2>2. p.vals = a /\ p.users = b /\ p.body = c
    BY <2>1
  <2>3. q = [p EXCEPT !.vals = vals, !.users = r]
    <3>1. q = [p EXCEPT !.vals[i] = Freed, !.users = r]
      BY <1>3 DEF Destroyed, Freed, Args
    <3> QED
      BY <1>4, <2>1, <2>2, <3>1
  <2>4. q = [vals |-> vals, users |-> r, body |-> c]
    BY <2>1, <2>3
  <2> QED
    BY <2>2, <2>4
<1>6. \A u \in DOMAIN p.vals : Times(p.users[u], i) = Times(Args(p, i), u) /\ Times(p.users[u], i) \in Nat
  BY <1>1, TimesIsCounted DEF Linked
<1>7. UnregistersUser(r, p.users, DOMAIN p.vals, Args(p, i), i)
  <2>1. PICK D : D = DOMAIN p.vals
    OBVIOUS
  <2>2. PICK args : args = Args(p, i)
    OBVIOUS
  <2>3. PICK users : users = p.users
    OBVIOUS
  <2>7. \A u \in DOMAIN p.vals : Times(p.users[u], i) >= Times(Args(p, i), u)
    BY <1>6
  <2>6. \A u \in DOMAIN users : Times(users[u], i) >= Times(args, u)
    BY <1>1, <2>2, <2>3, <2>7
  <2>4. /\ AreLists(users, D) /\ args \in Seq(DOMAIN users) /\ Len(args) \in 0..2 /\ i \in D
        /\ Null \notin DOMAIN users
        /\ \A u \in DOMAIN users : Times(users[u], i) >= Times(args, u)
        /\ r = Unregistered(users, args, i)
    BY <1>1, <1>2, <1>3, <2>1, <2>2, <2>3, <2>6
  <2>5. UnregistersUser(r, users, D, args, i)
    BY <2>4, UnregisteredTimes
  <2> QED
    BY <2>1, <2>2, <2>3, <2>5
<1>8. DOMAIN vals = DOMAIN p.vals /\ vals[i] = Freed /\ \A v \in DOMAIN p.vals : v # i => vals[v] = p.vals[v]
  BY <1>4
<1>9. vals \in Seq(ToSet(vals))
  <2>1. \A k \in 1..Len(p.vals) : vals[k] \in ToSet(vals)
    BY <1>1, <1>8 DEF ToSet
  <2>2. vals = [k \in 1..Len(p.vals) |-> vals[k]]
    BY <1>1, <1>4
  <2>3. PICK S, n : S = ToSet(vals) /\ n = Len(p.vals)
    OBVIOUS
  <2>4. n \in Nat /\ vals = [k \in 1..n |-> vals[k]] /\ \A k \in 1..n : vals[k] \in S
    BY <1>1, <2>1, <2>2, <2>3
  <2>5. [k \in 1..n |-> vals[k]] \in Seq(S)
    BY <2>4, IsASeq
  <2> QED
    BY <2>3, <2>4, <2>5
<1>10. Shaped(q)
  BY <1>1, <1>5, <1>7, <1>8, <1>9 DEF Shaped, UnregistersUser, SameLists
<1>11. ASSUME NEW u \in DOMAIN p.vals, NEW v \in DOMAIN p.vals
       PROVE  Times(r[u], v) = IF v = i THEN 0 ELSE Times(p.users[u], v)
  <2>1. Times(r[u], v) = Times(p.users[u], v) - IF v = i THEN Times(Args(p, i), u) ELSE 0
    BY <1>1, <1>7 DEF UnregistersUser
  <2>2. Times(p.users[u], v) \in Nat
    BY <1>1, TimesIsCounted
  <2> QED
    BY <1>6, <2>1, <2>2
<1>12. \A u \in DOMAIN p.vals : u \notin ToSet(Args(p, i)) => r[u] = p.users[u]
  BY <1>1, <1>7 DEF UnregistersUser
<1> QED
  BY <1>5, <1>8, <1>10, <1>11, <1>12 DEF Erases

LEMMA ErasedTyped ==
  ASSUME NEW p, Typed(p), Linked(p), Unusable(p), NEW i \in DOMAIN p.vals, p.users[i] = <<>>,
         NEW q, Erases(q, p, i), q.body \in Seq(DOMAIN p.vals)
  PROVE  Typed(q) /\ Linked(q) /\ Unusable(q)
<1>0. DOMAIN q.vals = DOMAIN p.vals
  BY DEF Erases
<1>1. ASSUME NEW v \in DOMAIN p.vals PROVE IsValue(q.vals[v], DOMAIN q.vals)
  <2>1. CASE v = i
    <3>1. q.vals[v] = Freed
      BY <2>1 DEF Erases
    <3>2. <<>> \in Seq(DOMAIN q.vals) /\ Len(<<>>) = 0
      BY EmptySeq
    <3> QED
      BY <3>1, <3>2 DEF IsValue, Freed, Arity, Ops, Binaries
  <2>2. CASE v # i
    BY <1>0, <2>2 DEF Erases, Typed
  <2> QED
    BY <2>1, <2>2
<1>2. ASSUME NEW u \in DOMAIN p.vals, NEW v \in DOMAIN p.vals PROVE Times(q.users[u], v) = Times(Args(q, v), u)
  <2>1. CASE v = i
    BY <2>1, TimesInNone DEF Erases, Args, Freed
  <2>2. CASE v # i
    BY <2>2 DEF Erases, Args, Linked
  <2> QED
    BY <2>1, <2>2
<1>3. \A v \in DOMAIN p.vals : p.users[v] = <<>> => q.users[v] = <<>>
  BY UsersOfOperands DEF Erases
<1>4. \A v \in DOMAIN p.vals : Op(q, v) \in Mute => q.users[v] = <<>>
  <2> SUFFICES ASSUME NEW v \in DOMAIN p.vals, Op(q, v) \in Mute PROVE p.users[v] = <<>>
    BY <1>3
  <2>1. CASE v = i
    BY <2>1
  <2>2. CASE v # i
    BY <2>2 DEF Erases, Op, Unusable
  <2> QED
    BY <2>1, <2>2
<1>5. Typed(q)
  BY <1>0, <1>1 DEF Typed, Erases
<1> QED
  BY <1>0, <1>2, <1>4, <1>5 DEF Linked, Unusable

LEMMA ErasedSound ==
  ASSUME NEW sums, NEW p, Sound(p, sums), NEW i \in DOMAIN p.vals, p.users[i] = <<>>,
         NEW q, Erases(q, p, i), q.body \in Seq(DOMAIN p.vals),
         IsInjective(q.body), ToSet(q.body) = ToSet(p.body) \ {i},
         \A a, b : a # i /\ b # i /\ Before(p.body, a, b) => Before(q.body, a, b)
  PROVE  Sound(q, sums)
<1>1. Typed(p) /\ Linked(p) /\ Unusable(p) /\ Bodied(p) /\ Ordered(p) /\ AllocsFirst(p) /\ OwnConstants(p, sums) /\ RegistersFirst(p)
  BY DEF Sound
<1>2. Typed(q) /\ Linked(q) /\ Unusable(q)
  BY <1>1, ErasedTyped
<1>3. /\ DOMAIN q.vals = DOMAIN p.vals
      /\ Op(q, i) = "freed" /\ Args(q, i) = <<>> /\ ToSet(Args(q, i)) = {}
      /\ \A v \in DOMAIN p.vals : v # i => Op(q, v) = Op(p, v) /\ Args(q, v) = Args(p, v)
  BY TimesInNone DEF Erases, Op, Args, Freed
<1>4. \A v \in DOMAIN p.vals : i \notin ToSet(Args(p, v))
  BY <1>1, UsersOfOperands
<1>5. Bodied(q)
  <2>1. {v \in DOMAIN q.vals : Op(q, v) \in InstOps} = {v \in DOMAIN p.vals : Op(p, v) \in InstOps} \ {i}
    BY <1>3 DEF InstOps
  <2> QED
    BY <1>1, <2>1 DEF Bodied
<1>6. ToSet(p.body) \subseteq DOMAIN p.vals
  BY <1>1, TypedFacts
<1>7. Ordered(q)
  <2> SUFFICES ASSUME NEW v \in DOMAIN p.vals, NEW u \in ToSet(Args(q, v)) \cap ToSet(q.body)
               PROVE  Before(q.body, u, v)
    BY <1>3 DEF Ordered
  <2>1. v # i /\ u # i /\ u \in ToSet(Args(p, v)) \cap ToSet(p.body)
    BY <1>3
  <2> QED
    BY <1>1, <2>1 DEF Ordered
<1>8. AllocsFirst(q)
  BY <1>1, <1>3, <1>6 DEF AllocsFirst
<1>9. OwnConstants(q, sums)
  <2> SUFFICES ASSUME NEW b \in DOMAIN p.vals, NEW c \in DOMAIN p.vals, Owns(q, b, c, sums)
               PROVE  /\ Op(q, c) = "const"
                      /\ Args(q, b)[1] # c
                      /\ \A x \in DOMAIN p.vals : c \in ToSet(Args(q, x)) => x = b
    BY <1>3 DEF OwnConstants
  <2>1. b # i
    BY <1>3 DEF Owns, Binaries
  <2>2. Owns(p, b, c, sums) /\ Args(q, b) = Args(p, b)
    BY <1>3, <2>1 DEF Owns
  <2>3. c # i
    <3>1. c \in ToSet(Args(p, b))
      BY <1>1, <2>2, TypedFacts DEF Owns, Arity
    <3> QED
      BY <1>4, <3>1
  <2> QED
    BY <1>1, <1>3, <2>2, <2>3 DEF OwnConstants
<1>10. RegistersFirst(q)
  BY <1>1, <1>3 DEF RegistersFirst
<1> QED
  BY <1>2, <1>5, <1>7, <1>8, <1>9, <1>10 DEF Sound

FromRemoval(q, p, i, sums) ==
  /\ Sound(q, sums)
  /\ Erases(q, p, i)
  /\ ToSet(q.body) = ToSet(p.body) \ {i}
  /\ \A a, b : a # i /\ b # i /\ Before(p.body, a, b) => Before(q.body, a, b)

LEMMA RemovedIs ==
  ASSUME NEW sums, NEW p, Sound(p, sums), NEW i \in ToSet(p.body), p.users[i] = <<>>, NEW q, q = Removed(p, i)
  PROVE  /\ FromRemoval(q, p, i, sums)
         /\ Position(p, i) \in 1..Len(p.body) /\ p.body[Position(p, i)] = i
         /\ Len(q.body) = Len(p.body) - 1
         /\ \A k \in 1..(Len(p.body) - 1) : q.body[k] = IF k < Position(p, i) THEN p.body[k] ELSE p.body[k+1]
<1>1. /\ Typed(p) /\ Linked(p) /\ p.body \in Seq(DOMAIN p.vals) /\ IsInjective(p.body)
      /\ i \in DOMAIN p.vals
  BY TypedFacts DEF Sound, Typed, Bodied
<1>2. PICK m : m = Destroyed(p, i)
  OBVIOUS
<1>3. Erases(m, p, i) /\ m.body = p.body
  BY <1>1, <1>2, DestroyedIs
<1>4. PICK body : body = RemoveFirst(p.body, i)
  OBVIOUS
<1>5. q = [m EXCEPT !.body = body]
  BY <1>2, <1>3, <1>4 DEF Removed
<1>6. q.vals = m.vals /\ q.users = m.users /\ q.body = body /\ Shaped(q)
  BY <1>3, <1>5, GrownOtherBody DEF Erases
<1>7. Erases(q, p, i)
  BY <1>3, <1>6 DEF Erases
<1>8. /\ body \in Seq(DOMAIN p.vals)
      /\ IsInjective(body)
      /\ ToSet(body) = ToSet(p.body) \ {i}
      /\ \A a, b : a # i /\ b # i /\ Before(p.body, a, b) => Before(body, a, b)
  BY <1>1, <1>4, RemovedFromBlock
<1>9. /\ Position(p, i) \in 1..Len(p.body) /\ p.body[Position(p, i)] = i
      /\ Len(body) = Len(p.body) - 1
      /\ \A k \in 1..(Len(p.body) - 1) : body[k] = IF k < Position(p, i) THEN p.body[k] ELSE p.body[k+1]
  BY <1>1, <1>4, RemovedFromBlock
<1>10. Sound(q, sums)
  BY <1>1, <1>6, <1>7, <1>8, ErasedSound
<1> QED
  BY <1>6, <1>7, <1>8, <1>9, <1>10 DEF FromRemoval

(* The same of a value that is in no block.                                *)
LEMMA DestroyedOutside ==
  ASSUME NEW sums, NEW p, Sound(p, sums), NEW i \in DOMAIN p.vals, i \notin ToSet(p.body), p.users[i] = <<>>, NEW q, q = Destroyed(p, i)
  PROVE  FromRemoval(q, p, i, sums) /\ q.body = p.body
<1>1. Typed(p) /\ Linked(p) /\ p.body \in Seq(DOMAIN p.vals) /\ IsInjective(p.body)
  BY DEF Sound, Typed, Bodied
<1>2. Erases(q, p, i) /\ q.body = p.body
  BY <1>1, DestroyedIs
<1>3. Sound(q, sums)
  BY <1>1, <1>2, ErasedSound
<1> QED
  BY <1>2, <1>3 DEF FromRemoval

-----------------------------------------------------------------------------
(* So does the replacement of a value by another in all that uses it.      *)

(* x with w for v.                                                         *)
WithArg(x, v, w) == [x EXCEPT !.args = ReplaceAll(@, v, w)]

(* q is p with w for v everywhere, and the users of v added to those of w. *)
Replaces(q, p, v, w) ==
  /\ Shaped(q)
  /\ DOMAIN q.vals = DOMAIN p.vals
  /\ q.body = p.body
  /\ \A i \in DOMAIN p.vals : q.vals[i] = IF v \in ToSet(Args(p, i)) THEN WithArg(p.vals[i], v, w) ELSE p.vals[i]
  /\ q.users[v] = <<>>
  /\ q.users[w] = p.users[w] \o p.users[v]
  /\ \A u \in DOMAIN p.vals \ {v, w} : q.users[u] = p.users[u]

(* When that keeps a program sound: w is no one's own constant, and is     *)
(* before whatever uses v.                                                 *)
CanReplace(p, v, w, sums) ==
  /\ v \in DOMAIN p.vals /\ w \in DOMAIN p.vals /\ v # w
  /\ Op(p, w) \notin Mute
  /\ Op(p, v) # "const"
  /\ \A b \in DOMAIN p.vals : ~Owns(p, b, w, sums)
  /\ \A u \in DOMAIN p.vals : v \in ToSet(Args(p, u)) /\ w \in ToSet(p.body) => Before(p.body, w, u)

(* What is replaced, and that the operands still match the user lists.     *)
LEMMA WithArgIs ==
  ASSUME NEW D, NEW x, IsValue(x, D), NEW v, NEW w \in D, v # w
  PROVE  /\ IsValue(WithArg(x, v, w), D)
         /\ WithArg(x, v, w).op = x.op /\ WithArg(x, v, w).word = x.word
         /\ WithArg(x, v, w).args = ReplaceAll(x.args, v, w)
<1>1. PICK a, b, c : x = [op |-> a, args |-> b, word |-> c]
  BY DEF IsValue
<1>2. a = x.op /\ b = x.args /\ c = x.word
  BY <1>1
<1>3. PICK args : args = ReplaceAll(x.args, v, w)
  OBVIOUS
<1>4. PICK y : y = WithArg(x, v, w)
  OBVIOUS
<1>5. y = [x EXCEPT !.args = args]
  BY <1>3, <1>4 DEF WithArg
<1>6. y = [op |-> a, args |-> args, word |-> c]
  BY <1>1, <1>5
<1>7. args \in Seq(D) /\ Len(args) = Len(x.args)
  BY <1>3, TimesReplaced DEF IsValue
<1>8. y.op = a /\ y.args = args /\ y.word = c
  BY <1>6
<1>9. IsValue(y, D)
  BY <1>2, <1>6, <1>7, <1>8 DEF IsValue
<1> QED
  BY <1>2, <1>3, <1>4, <1>8, <1>9

LEMMA ReplacedFacts ==
  ASSUME NEW p, Typed(p), NEW v \in DOMAIN p.vals, NEW w \in DOMAIN p.vals, v # w, NEW q, Replaces(q, p, v, w)
  PROVE  /\ Typed(q)
         /\ \A i \in DOMAIN p.vals : Op(q, i) = Op(p, i)
         /\ \A i \in DOMAIN p.vals : q.vals[i].word = p.vals[i].word
         /\ \A i \in DOMAIN p.vals : DOMAIN Args(q, i) = DOMAIN Args(p, i)
         /\ \A i \in DOMAIN p.vals : \A k \in DOMAIN Args(p, i) : Args(q, i)[k] = IF Args(p, i)[k] = v THEN w ELSE Args(p, i)[k]
         /\ \A i, x \in DOMAIN p.vals :
              Times(Args(q, i), x) = IF x = v THEN 0 ELSE IF x = w THEN Times(Args(p, i), w) + Times(Args(p, i), v)
                                     ELSE Times(Args(p, i), x)
<1>1. ASSUME NEW i \in DOMAIN p.vals
      PROVE  /\ IsValue(q.vals[i], DOMAIN p.vals)
             /\ Op(q, i) = Op(p, i)
             /\ q.vals[i].word = p.vals[i].word
             /\ DOMAIN Args(q, i) = DOMAIN Args(p, i)
             /\ \A k \in DOMAIN Args(p, i) : Args(q, i)[k] = IF Args(p, i)[k] = v THEN w ELSE Args(p, i)[k]
             /\ \A x \in DOMAIN p.vals :
                  Times(Args(q, i), x) = IF x = v THEN 0 ELSE IF x = w THEN Times(Args(p, i), w) + Times(Args(p, i), v)
                                         ELSE Times(Args(p, i), x)
  <2>1. IsValue(p.vals[i], DOMAIN p.vals) /\ Args(p, i) \in Seq(DOMAIN p.vals)
    BY DEF Typed, IsValue, Args
  <2>2. CASE v \in ToSet(Args(p, i))
    <3>1. q.vals[i] = WithArg(p.vals[i], v, w)
      BY <2>2 DEF Replaces
    <3>2. /\ IsValue(q.vals[i], DOMAIN p.vals)
          /\ q.vals[i].op = p.vals[i].op /\ q.vals[i].word = p.vals[i].word
          /\ q.vals[i].args = ReplaceAll(p.vals[i].args, v, w)
      BY <2>1, <3>1, WithArgIs
    <3>3. Args(q, i) = ReplaceAll(Args(p, i), v, w)
      BY <3>2 DEF Args
    <3>4. /\ DOMAIN Args(q, i) = DOMAIN Args(p, i)
          /\ \A k \in DOMAIN Args(p, i) : Args(q, i)[k] = IF Args(p, i)[k] = v THEN w ELSE Args(p, i)[k]
      <4>1. PICK s, D : s = Args(p, i) /\ D = DOMAIN p.vals
        OBVIOUS
      <4>2. s \in Seq(D) /\ w \in D
        BY <2>1, <4>1
      <4>3. DOMAIN ReplaceAll(s, v, w) = DOMAIN s
        BY <4>2, TimesReplaced
      <4>4. \A k \in DOMAIN s : ReplaceAll(s, v, w)[k] = IF s[k] = v THEN w ELSE s[k]
        BY <4>2, TimesReplaced
      <4> QED
        BY <3>3, <4>1, <4>3, <4>4
    <3>5. ASSUME NEW x \in DOMAIN p.vals
          PROVE  Times(Args(q, i), x) = IF x = v THEN 0 ELSE IF x = w THEN Times(Args(p, i), w) + Times(Args(p, i), v)
                                        ELSE Times(Args(p, i), x)
      BY <2>1, <3>3, TimesReplaced
    <3> QED
      BY <3>2, <3>4, <3>5 DEF Op
  <2>3. CASE v \notin ToSet(Args(p, i))
    <3>1. q.vals[i] = p.vals[i]
      BY <2>3 DEF Replaces
    <3>2. Args(q, i) = Args(p, i) /\ Op(q, i) = Op(p, i)
      BY <3>1 DEF Args, Op
    <3>3. Times(Args(p, i), v) = 0 /\ \A x : Times(Args(p, i), x) \in Nat
      BY <2>1, <2>3, TimesIsCounted
    <3>4. \A k \in DOMAIN Args(p, i) : Args(p, i)[k] # v
      BY <2>3 DEF ToSet
    <3> QED
      BY <2>1, <3>1, <3>2, <3>3, <3>4
  <2> QED
    BY <2>2, <2>3
<1>2. Typed(q)
  BY <1>1 DEF Typed, Replaces
<1> QED
  BY <1>1, <1>2

LEMMA ReplacedLinked ==
  ASSUME NEW sums, NEW p, Typed(p), Linked(p), Unusable(p), NEW v, NEW w, CanReplace(p, v, w, sums), NEW q, Replaces(q, p, v, w)
  PROVE  Typed(q) /\ Linked(q) /\ Unusable(q)
<1>1. v \in DOMAIN p.vals /\ w \in DOMAIN p.vals /\ v # w
  BY DEF CanReplace
<1>2. /\ Typed(q)
      /\ \A i \in DOMAIN p.vals : Op(q, i) = Op(p, i)
      /\ \A i, x \in DOMAIN p.vals :
           Times(Args(q, i), x) = IF x = v THEN 0 ELSE IF x = w THEN Times(Args(p, i), w) + Times(Args(p, i), v)
                                  ELSE Times(Args(p, i), x)
  BY <1>1, ReplacedFacts
<1>3. \A u \in DOMAIN p.vals : p.users[u] \in Seq(DOMAIN p.vals)
  BY ShapedFacts DEF Typed
<1>4. ASSUME NEW x \in DOMAIN p.vals, NEW i \in DOMAIN p.vals PROVE Times(q.users[x], i) = Times(Args(q, i), x)
  <2>1. CASE x = v
    BY <1>1, <1>2, <2>1, TimesInNone DEF Replaces
  <2>2. CASE x = w
    <3>1. Times(q.users[w], i) = Times(p.users[w], i) + Times(p.users[v], i)
      BY <1>1, <1>3, TimesInBoth DEF Replaces
    <3> QED
      BY <1>1, <1>2, <2>2, <3>1 DEF Linked
  <2>3. CASE x \notin {v, w}
    <3>1. q.users[x] = p.users[x]
      BY <2>3 DEF Replaces
    <3> QED
      BY <1>2, <2>3, <3>1 DEF Linked
  <2> QED
    BY <2>1, <2>2, <2>3
<1>5. ASSUME NEW x \in DOMAIN p.vals, Op(q, x) \in Mute PROVE q.users[x] = <<>>
  <2>1. x # w
    BY <1>2, <1>5 DEF CanReplace
  <2>2. CASE x = v
    BY <2>2 DEF Replaces
  <2>3. CASE x # v
    <3>1. q.users[x] = p.users[x] /\ p.users[x] = <<>>
      BY <1>2, <1>5, <2>1, <2>3 DEF Replaces, Unusable
    <3> QED
      BY <3>1
  <2> QED
    BY <2>2, <2>3
<1>6. DOMAIN q.vals = DOMAIN p.vals
  BY DEF Replaces
<1> QED
  BY <1>2, <1>4, <1>5, <1>6 DEF Linked, Unusable

(* An operand of the rewritten program was one, or is the new one.         *)
LEMMA ReplacedOperands ==
  ASSUME NEW p, Typed(p), NEW v \in DOMAIN p.vals, NEW w \in DOMAIN p.vals, v # w, NEW q, Replaces(q, p, v, w),
         NEW i \in DOMAIN p.vals, NEW u \in ToSet(Args(q, i))
  PROVE  \/ u \in ToSet(Args(p, i))
         \/ u = w /\ v \in ToSet(Args(p, i))
<1>1. /\ DOMAIN Args(q, i) = DOMAIN Args(p, i)
      /\ \A k \in DOMAIN Args(p, i) : Args(q, i)[k] = IF Args(p, i)[k] = v THEN w ELSE Args(p, i)[k]
  BY ReplacedFacts
<1>2. PICK k \in DOMAIN Args(q, i) : Args(q, i)[k] = u
  BY DEF ToSet
<1> QED
  BY <1>1, <1>2 DEF ToSet

LEMMA ReplacedSound ==
  ASSUME NEW sums, NEW p, Sound(p, sums), NEW v, NEW w, CanReplace(p, v, w, sums), NEW q, Replaces(q, p, v, w)
  PROVE  Sound(q, sums)
<1>1. Typed(p) /\ Linked(p) /\ Unusable(p) /\ Bodied(p) /\ Ordered(p) /\ AllocsFirst(p) /\ OwnConstants(p, sums) /\ RegistersFirst(p)
  BY DEF Sound
<1>2. v \in DOMAIN p.vals /\ w \in DOMAIN p.vals /\ v # w
  BY DEF CanReplace
<1>3. Typed(q) /\ Linked(q) /\ Unusable(q)
  BY <1>1, ReplacedLinked
<1>4. /\ \A i \in DOMAIN p.vals : Op(q, i) = Op(p, i)
      /\ \A i \in DOMAIN p.vals : DOMAIN Args(q, i) = DOMAIN Args(p, i)
      /\ \A i \in DOMAIN p.vals : \A k \in DOMAIN Args(p, i) : Args(q, i)[k] = IF Args(p, i)[k] = v THEN w ELSE Args(p, i)[k]
  BY <1>1, <1>2, ReplacedFacts
<1>5. DOMAIN q.vals = DOMAIN p.vals /\ q.body = p.body
  BY DEF Replaces
<1>6. ToSet(p.body) \subseteq DOMAIN p.vals
  BY <1>1, TypedFacts
<1>7. Bodied(q)
  <2>1. {i \in DOMAIN q.vals : Op(q, i) \in InstOps} = {i \in DOMAIN p.vals : Op(p, i) \in InstOps}
    BY <1>4, <1>5
  <2> QED
    BY <1>1, <1>5, <2>1 DEF Bodied
<1>8. Ordered(q)
  <2> SUFFICES ASSUME NEW i \in DOMAIN p.vals, NEW u \in ToSet(Args(q, i)) \cap ToSet(p.body)
               PROVE  Before(p.body, u, i)
    BY <1>5 DEF Ordered
  <2>1. CASE u \in ToSet(Args(p, i))
    BY <1>1, <2>1 DEF Ordered
  <2>2. CASE u = w /\ v \in ToSet(Args(p, i))
    BY <2>2 DEF CanReplace
  <2> QED
    BY <1>1, <1>2, <2>1, <2>2, ReplacedOperands
<1>9. AllocsFirst(q)
  BY <1>1, <1>4, <1>5, <1>6 DEF AllocsFirst
<1>10. OwnConstants(q, sums)
  <2> SUFFICES ASSUME NEW b \in DOMAIN p.vals, NEW c \in DOMAIN p.vals, Owns(q, b, c, sums)
               PROVE  /\ Op(q, c) = "const"
                      /\ Args(q, b)[1] # c
                      /\ \A x \in DOMAIN p.vals : c \in ToSet(Args(q, x)) => x = b
    BY <1>5 DEF OwnConstants
  <2>1. Op(p, b) \in Binaries /\ b \notin sums
    BY <1>4 DEF Owns
  <2>2. DOMAIN Args(p, b) = 1..2
    BY <1>1, <2>1, TypedFacts DEF Arity
  <2>3. Args(p, b)[2] \in DOMAIN p.vals /\ Args(p, b)[1] \in DOMAIN p.vals
    BY <1>1, <2>1, TypedFacts DEF Arity
  <2>4. Owns(p, b, Args(p, b)[2], sums)
    BY <2>1 DEF Owns
  <2>5. Op(p, Args(p, b)[2]) = "const"
    BY <1>1, <2>3, <2>4 DEF OwnConstants
  <2>6. Args(p, b)[2] # v
    BY <2>5 DEF CanReplace
  <2>7. c = Args(p, b)[2]
    BY <1>4, <2>2, <2>6 DEF Owns
  <2>8. /\ Op(p, c) = "const"
        /\ Args(p, b)[1] # c
        /\ \A x \in DOMAIN p.vals : c \in ToSet(Args(p, x)) => x = b
    BY <1>1, <2>4, <2>7 DEF OwnConstants
  <2>9. c # w
    BY <2>4, <2>7 DEF CanReplace
  <2>10. Args(q, b)[1] # c
    BY <1>4, <2>2, <2>8, <2>9
  <2>11. ASSUME NEW x \in DOMAIN p.vals, c \in ToSet(Args(q, x)) PROVE x = b
    BY <1>1, <1>2, <2>8, <2>9, <2>11, ReplacedOperands
  <2> QED
    BY <1>4, <2>8, <2>10, <2>11
<1>11. RegistersFirst(q)
  BY <1>1, <1>4, <1>5 DEF RegistersFirst
<1> QED
  BY <1>3, <1>7, <1>8, <1>9, <1>10, <1>11 DEF Sound

(* A sequence without v keeps as it is.                                    *)
LEMMA NothingReplaced ==
  ASSUME NEW S, NEW s \in Seq(S), NEW v, v \notin ToSet(s), NEW w
  PROVE  ReplaceAll(s, v, w) = s
<1>1. Len(s) \in Nat /\ DOMAIN s = 1..Len(s) /\ s = [k \in 1..Len(s) |-> s[k]]
  BY LenProperties
<1>2. \A k \in 1..Len(s) : s[k] # v
  BY <1>1 DEF ToSet
<1> QED
  BY <1>1, <1>2 DEF ReplaceAll

(* What replacing in the operands of a list of users leaves.               *)
Substitutes(q, p, list, v, w) ==
  /\ q = [vals |-> q.vals, users |-> p.users, body |-> p.body]
  /\ DOMAIN q.vals = DOMAIN p.vals
  /\ q.vals \in Seq(ToSet(q.vals))
  /\ \A i \in DOMAIN p.vals : q.vals[i] = IF i \in ToSet(list) THEN WithArg(p.vals[i], v, w) ELSE p.vals[i]

LEMMA SubstitutedIs ==
  ASSUME NEW p, p = [vals |-> p.vals, users |-> p.users, body |-> p.body], p.vals \in Seq(ToSet(p.vals)),
         NEW S, NEW list \in Seq(S), NEW v, NEW w, NEW q, q = Substituted(p, list, v, w)
  PROVE  Substitutes(q, p, list, v, w)
<1>1. Len(p.vals) \in Nat /\ DOMAIN p.vals = 1..Len(p.vals)
  BY LenProperties
<1>2. \A i : Contains(list, i) <=> i \in ToSet(list)
  BY TimesIsCounted
<1>3. PICK vals : vals = [i \in DOMAIN p.vals |-> IF Contains(list, i) THEN WithArg(p.vals[i], v, w) ELSE p.vals[i]]
  OBVIOUS
<1>4. q = [p EXCEPT !.vals = vals]
  BY <1>3, Zenon DEF Substituted, WithArg
<1>5. q = [vals |-> vals, users |-> p.users, body |-> p.body] /\ q.vals = vals
  <2>1. PICK a, b, c : p = [vals |-> a, users |-> b, body |-> c]
    OBVIOUS
  <2>2. p.vals = a /\ p.users = b /\ p.body = c
    BY <2>1
  <2>3. q = [vals |-> vals, users |-> b, body |-> c]
    BY <1>4, <2>1
  <2> QED
    BY <2>2, <2>3
<1>6. DOMAIN vals = 1..Len(p.vals)
  BY <1>1, <1>3
<1>7. \A i \in DOMAIN p.vals : vals[i] = IF i \in ToSet(list) THEN WithArg(p.vals[i], v, w) ELSE p.vals[i]
  BY <1>2, <1>3
<1>8. vals \in Seq(ToSet(vals))
  <2>1. PICK T, n : T = ToSet(vals) /\ n = Len(p.vals)
    OBVIOUS
  <2>2. vals = [k \in 1..n |-> vals[k]]
    BY <1>1, <1>3, <2>1
  <2>3. n \in Nat /\ \A k \in 1..n : vals[k] \in T
    BY <1>1, <1>6, <2>1 DEF ToSet
  <2>4. [k \in 1..n |-> vals[k]] \in Seq(T)
    BY <2>3, IsASeq
  <2> QED
    BY <2>1, <2>2, <2>4
<1> QED
  BY <1>1, <1>5, <1>6, <1>7, <1>8 DEF Substitutes

LEMMA SubstitutesReplaces ==
  ASSUME NEW p, Typed(p), Linked(p), NEW v \in DOMAIN p.vals, NEW w, NEW m, NEW q,
         Substitutes(m, p, p.users[v], v, w),
         q.vals = m.vals, q.body = p.body, Shaped(q),
         q.users[v] = <<>>, q.users[w] = p.users[w] \o p.users[v],
         \A u \in DOMAIN p.vals \ {v, w} : q.users[u] = p.users[u]
  PROVE  Replaces(q, p, v, w)
<1>1. \A i \in DOMAIN p.vals : i \in ToSet(p.users[v]) <=> v \in ToSet(Args(p, i))
  BY UsersOfOperands
<1> QED
  BY <1>1 DEF Replaces, Substitutes

(* The users of v become users of w.                                       *)
MovesUsers(r, users, D, v, w, list) ==
  /\ AreLists(r, D)
  /\ DOMAIN r = DOMAIN users
  /\ r[v] = <<>>
  /\ r[w] = users[w] \o list
  /\ \A u \in DOMAIN users \ {v, w} : r[u] = users[u]

LEMMA MovedUsers ==
  ASSUME NEW D, NEW users, AreLists(users, D), NEW v \in DOMAIN users, NEW w \in DOMAIN users, v # w,
         NEW list \in Seq(D), NEW r, r = [AddUsers(users, w, list) EXCEPT ![v] = <<>>]
  PROVE  MovesUsers(r, users, D, v, w, list)
<1>1. PICK s : s = AddUsers(users, w, list)
  OBVIOUS
<1>2. AddsUsers(s, users, D, w, list)
  BY <1>1, AddUsersIs
<1>3. AreLists(s, D) /\ DOMAIN s = DOMAIN users /\ <<>> \in Seq(D)
  BY <1>2, EmptySeq DEF AddsUsers, SameLists
<1>4. HasList(r, s, D, v, <<>>)
  BY <1>1, <1>3, WithList
<1> QED
  BY <1>2, <1>4 DEF HasList, AddsUsers, SameLists, MovesUsers

LEMMA ReplacedAllReplaces ==
  ASSUME NEW p, Typed(p), Linked(p), NEW v \in DOMAIN p.vals, NEW w \in DOMAIN p.vals, v # w,
         NEW q, q = ReplacedAll(p, v, w)
  PROVE  Replaces(q, p, v, w)
<1>1. /\ p = [vals |-> p.vals, users |-> p.users, body |-> p.body] /\ p.vals \in Seq(ToSet(p.vals))
      /\ AreLists(p.users, DOMAIN p.vals) /\ DOMAIN p.users = DOMAIN p.vals
      /\ Null \notin DOMAIN p.vals
      /\ p.users[v] \in Seq(DOMAIN p.vals)
  BY ShapedFacts DEF Typed, Shaped
<1>2. PICK m : m = Substituted(p, p.users[v], v, w)
  OBVIOUS
<1>3. Substitutes(m, p, p.users[v], v, w)
  BY <1>1, <1>2, SubstitutedIs
<1>4. PICK r : r = [AddUsers(p.users, w, p.users[v]) EXCEPT ![v] = <<>>]
  OBVIOUS
<1>5. q = [m EXCEPT !.users = r]
  <2>1. w # Null
    BY <1>1
  <2> QED
    BY <1>2, <1>4, <2>1 DEF ReplacedAll
<1>6. /\ AreLists(r, DOMAIN p.vals)
      /\ DOMAIN r = DOMAIN p.vals
      /\ r[v] = <<>>
      /\ r[w] = p.users[w] \o p.users[v]
      /\ \A u \in DOMAIN p.vals \ {v, w} : r[u] = p.users[u]
  <2>1. PICK users, D, list : users = p.users /\ D = DOMAIN p.vals /\ list = p.users[v]
    OBVIOUS
  <2>2. /\ AreLists(users, D) /\ v \in DOMAIN users /\ w \in DOMAIN users /\ list \in Seq(D)
        /\ r = [AddUsers(users, w, list) EXCEPT ![v] = <<>>]
    BY <1>1, <1>4, <2>1
  <2>3. MovesUsers(r, users, D, v, w, list)
    BY <2>2, MovedUsers
  <2> QED
    BY <1>1, <2>1, <2>3 DEF MovesUsers
<1>7. q = [vals |-> m.vals, users |-> r, body |-> p.body]
  <2>1. PICK a : m = [vals |-> a, users |-> p.users, body |-> p.body]
    BY <1>3 DEF Substitutes
  <2>2. m.vals = a
    BY <2>1
  <2>3. q = [vals |-> a, users |-> r, body |-> p.body]
    BY <1>5, <2>1
  <2> QED
    BY <2>2, <2>3
<1>8. q.vals = m.vals /\ q.users = r /\ q.body = p.body
  BY <1>7
<1>9. Shaped(q)
  BY <1>3, <1>6, <1>7, <1>8 DEF Shaped, Substitutes
<1> QED
  BY <1>3, <1>6, <1>8, <1>9, SubstitutesReplaces

FromReplacement(q, p, v, w, sums) == Sound(q, sums) /\ Replaces(q, p, v, w)

LEMMA ReplacedAllIs ==
  ASSUME NEW sums, NEW p, Sound(p, sums), NEW v, NEW w, CanReplace(p, v, w, sums), NEW q, q = ReplacedAll(p, v, w)
  PROVE  FromReplacement(q, p, v, w, sums)
<1>1. v \in DOMAIN p.vals /\ w \in DOMAIN p.vals /\ v # w /\ Typed(p) /\ Linked(p)
  BY DEF CanReplace, Sound
<1>2. Replaces(q, p, v, w)
  BY <1>1, ReplacedAllReplaces
<1> QED
  BY <1>2, ReplacedSound DEF FromReplacement

-----------------------------------------------------------------------------
(* What the StackSimulator leaves of the program between two of its steps. *)

(* Operands one by one.                                                    *)
LEMMA OneOperand ==
  ASSUME NEW D, NEW a \in D
  PROVE  <<a>> \in Seq(D) /\ Len(<<a>>) = 1 /\ ToSet(<<a>>) = {a} /\ <<a>>[1] = a
<1>1. <<a>> \in Seq(D) /\ Len(<<a>>) = 1 /\ <<a>>[1] = a
  OBVIOUS
<1>2. DOMAIN <<a>> = 1..1
  OBVIOUS
<1> QED
  BY <1>1, <1>2 DEF ToSet

LEMMA TwoOperands ==
  ASSUME NEW D, NEW a \in D, NEW b \in D
  PROVE  <<a, b>> \in Seq(D) /\ Len(<<a, b>>) = 2 /\ ToSet(<<a, b>>) = {a, b} /\ <<a, b>>[1] = a /\ <<a, b>>[2] = b
<1>1. <<a, b>> \in Seq(D) /\ Len(<<a, b>>) = 2 /\ <<a, b>>[1] = a /\ <<a, b>>[2] = b
  OBVIOUS
<1>2. DOMAIN <<a, b>> = 1..2
  OBVIOUS
<1>3. PICK s : s = <<a, b>>
  OBVIOUS
<1>4. s[1] = a /\ s[2] = b /\ DOMAIN s = {1, 2}
  BY <1>1, <1>2, <1>3
<1>5. ToSet(s) = {a, b}
  BY <1>4 DEF ToSet
<1> QED
  BY <1>1, <1>3, <1>5

(* What a pass leaves of the instructions it does not take away.           *)
Keeps(q, p, S) ==
  /\ DOMAIN p.vals \subseteq DOMAIN q.vals
  /\ \A v \in DOMAIN p.vals \ S : Op(q, v) = Op(p, v)
  /\ ToSet(p.body) \ S \subseteq ToSet(q.body)

LEMMA KeepsOn ==
  ASSUME NEW p, NEW q, NEW r, NEW S, NEW T, Keeps(q, p, S), Keeps(r, q, T)
  PROVE  Keeps(r, p, S \cup T)
BY DEF Keeps

LEMMA InsertionKeeps ==
  ASSUME NEW sums, NEW p, NEW q, NEW k, NEW op, NEW args, NEW word, FromInsertion(q, p, k, op, args, word, sums)
  PROVE  Keeps(q, p, {})
BY DEF FromInsertion, Extends, Grown, Keeps, Op

LEMMA RemovalKeeps ==
  ASSUME NEW sums, NEW p, NEW q, NEW i, FromRemoval(q, p, i, sums)
  PROVE  Keeps(q, p, {i})
BY DEF FromRemoval, Erases, Keeps, Op

LEMMA ReplacementKeeps ==
  ASSUME NEW sums, NEW p, Sound(p, sums), NEW q, NEW v, NEW w, CanReplace(p, v, w, sums), FromReplacement(q, p, v, w, sums)
  PROVE  Keeps(q, p, {})
<1>1. Typed(p) /\ v \in DOMAIN p.vals /\ w \in DOMAIN p.vals /\ v # w
  BY DEF Sound, CanReplace
<1>2. Replaces(q, p, v, w)
  BY DEF FromReplacement
<1>3. \A i \in DOMAIN p.vals : Op(q, i) = Op(p, i)
  BY <1>1, <1>2, ReplacedFacts
<1> QED
  BY <1>2, <1>3 DEF Keeps, Replaces

(* What is used is a value, and what uses is in the block.                 *)
LEMMA OperandsSpeak ==
  ASSUME NEW sums, NEW p, Sound(p, sums), NEW i \in DOMAIN p.vals, NEW u \in ToSet(Args(p, i))
  PROVE  u \in DOMAIN p.vals /\ Op(p, u) \notin Mute
<1>1. u \in DOMAIN p.vals
  BY TypedFacts DEF Sound
<1>2. p.users[u] # <<>>
  BY <1>1, UsersOfOperands DEF Sound
<1> QED
  BY <1>1, <1>2 DEF Sound, Unusable

LEMMA UsersInBody ==
  ASSUME NEW sums, NEW p, Sound(p, sums), NEW u \in DOMAIN p.vals, ToSet(Args(p, u)) # {}
  PROVE  u \in ToSet(p.body) /\ Op(p, u) \in InstOps \ {"alloc"}
<1>1. Arity(Op(p, u)) # 0
  <2>1. DOMAIN Args(p, u) = 1..Arity(Op(p, u))
    BY TypedFacts DEF Sound
  <2> QED
    BY <2>1 DEF ToSet
<1>2. Op(p, u) \in InstOps \ {"alloc"}
  BY <1>1 DEF Arity, InstOps, Binaries
<1> QED
  BY <1>2 DEF Sound, Bodied

(* A variable can replace anything: it is before all instructions but      *)
(* other variables.                                                        *)
LEMMA CanReplaceByAlloc ==
  ASSUME NEW sums, NEW p, Sound(p, sums), NEW v \in DOMAIN p.vals, Op(p, v) # "const", NEW a \in ToSet(p.body), Op(p, a) = "alloc", v # a
  PROVE  CanReplace(p, v, a, sums)
<1>1. a \in DOMAIN p.vals
  BY TypedFacts DEF Sound
<1>2. \A b \in DOMAIN p.vals : ~Owns(p, b, a, sums)
  BY <1>1 DEF Sound, OwnConstants
<1>3. ASSUME NEW u \in DOMAIN p.vals, v \in ToSet(Args(p, u)) PROVE Before(p.body, a, u)
  <2>1. u \in ToSet(p.body) /\ Op(p, u) # "alloc"
    BY <1>3, UsersInBody
  <2> QED
    BY <2>1 DEF Sound, AllocsFirst
<1> QED
  BY <1>1, <1>2, <1>3 DEF CanReplace, Mute

LEMMA BeforePlace ==
  ASSUME NEW sums, NEW p, Sound(p, sums), NEW i \in ToSet(p.body), NEW a, Before(p.body, a, i), NEW j \in DOMAIN p.body, p.body[j] = a
  PROVE  j < Position(p, i)
<1>1. p.body \in Seq(DOMAIN p.vals) /\ IsInjective(p.body)
  BY DEF Sound, Typed, Bodied
<1>2. Position(p, i) \in 1..Len(p.body) /\ p.body[Position(p, i)] = i
  BY <1>1, RemovedFromBlock
<1>3. DOMAIN p.body = 1..Len(p.body) /\ Len(p.body) \in Nat
  BY <1>1, LenProperties
<1>4. PICK x, y \in DOMAIN p.body : x < y /\ p.body[x] = a /\ p.body[y] = i
  BY DEF Before
<1>5. x = j
  BY <1>1, <1>4 DEF IsInjective
<1>6. y = Position(p, i)
  BY <1>1, <1>2, <1>3, <1>4 DEF IsInjective
<1> QED
  BY <1>4, <1>5, <1>6

(* Where a store was, its like to a variable.                              *)
LEMMA StoredIs ==
  ASSUME NEW sums, NEW p, Sound(p, sums), NEW i \in ToSet(p.body), Op(p, i) = "store", NEW a \in ToSet(p.body), Op(p, a) = "alloc",
         NEW q, q = Stored(p, i, a)
  PROVE  Sound(q, sums) /\ Keeps(q, p, {i})
<1>1. /\ p.body \in Seq(DOMAIN p.vals) /\ i \in DOMAIN p.vals /\ a \in DOMAIN p.vals /\ a # i
      /\ p.users[i] = <<>>
      /\ Len(p.body) \in Nat /\ DOMAIN p.body = 1..Len(p.body)
  <2>1. i \in DOMAIN p.vals /\ a \in DOMAIN p.vals /\ Len(p.body) \in Nat /\ DOMAIN p.body = 1..Len(p.body)
    BY TypedFacts DEF Sound
  <2>2. p.users[i] = <<>>
    BY <2>1 DEF Sound, Unusable, Mute
  <2> QED
    BY <2>1, <2>2 DEF Sound, Typed
<1>2. PICK x : x = Args(p, i)[2]
  OBVIOUS
<1>3. x \in DOMAIN p.vals /\ x \in ToSet(Args(p, i)) /\ Op(p, x) \notin Mute /\ x # i
  <2>1. x \in DOMAIN p.vals /\ x \in ToSet(Args(p, i))
    BY <1>1, <1>2, TypedFacts DEF Sound, Arity
  <2>2. Op(p, x) \notin Mute
    BY <1>1, <2>1, OperandsSpeak
  <2> QED
    BY <2>1, <2>2 DEF Mute
<1>4. PICK r : r = Removed(p, i)
  OBVIOUS
<1>5. PICK k : k = Position(p, i)
  OBVIOUS
<1>6. /\ FromRemoval(r, p, i, sums)
      /\ k \in 1..Len(p.body) /\ p.body[k] = i
      /\ Len(r.body) = Len(p.body) - 1
      /\ \A j \in 1..(Len(p.body) - 1) : r.body[j] = IF j < k THEN p.body[j] ELSE p.body[j+1]
  BY <1>1, <1>4, <1>5, RemovedIs
<1>7. /\ Sound(r, sums) /\ DOMAIN r.vals = DOMAIN p.vals
      /\ \A v \in DOMAIN p.vals : v # i => Op(r, v) = Op(p, v) /\ Args(r, v) = Args(p, v)
      /\ ToSet(r.body) = ToSet(p.body) \ {i}
      /\ Op(r, i) = "freed"
  BY <1>6 DEF FromRemoval, Erases, Op, Args, Freed
<1>8. Fits(r, "store", <<a, x>>, sums)
  <2>1. <<a, x>> \in Seq(DOMAIN r.vals) /\ Len(<<a, x>>) = 2 /\ ToSet(<<a, x>>) = {a, x}
    <3>1. a \in DOMAIN r.vals /\ x \in DOMAIN r.vals
      BY <1>1, <1>3, <1>7
    <3> QED
      BY <3>1, TwoOperands, ZenonT(30)
  <2>2. Op(r, a) = "alloc" /\ Op(r, x) = Op(p, x)
    BY <1>1, <1>3, <1>7
  <2>3. ASSUME NEW b \in DOMAIN p.vals, NEW c \in DOMAIN p.vals, Owns(r, b, c, sums) PROVE c \notin {a, x}
    <3>1. b # i
      BY <1>7, <2>3 DEF Owns, Binaries
    <3>2. Owns(p, b, c, sums)
      BY <1>7, <2>3, <3>1 DEF Owns
    <3>3. Op(p, c) = "const" /\ (c \in ToSet(Args(p, i)) => i = b)
      BY <1>1, <3>2 DEF Sound, OwnConstants
    <3> QED
      BY <1>3, <3>1, <3>3
  <2> QED
    BY <1>3, <1>7, <2>1, <2>2, <2>3 DEF Fits, Arity, Ops, Binaries, Mute
<1>9. ASSUME NEW j \in DOMAIN r.body, NEW c, r.body[j] = c, Before(p.body, c, i) PROVE j < k
  <2>1. j \in 1..(Len(p.body) - 1)
    <3>1. DOMAIN r.body = 1..Len(r.body)
      BY <1>7, TypedFacts DEF Sound
    <3> QED
      BY <1>1, <1>6, <3>1
  <2>2. CASE j < k
    BY <2>2
  <2>3. CASE ~(j < k)
    <3>1. p.body[j+1] = c /\ j + 1 \in DOMAIN p.body
      BY <1>1, <1>6, <1>9, <2>1, <2>3
    <3>2. j + 1 < k
      BY <1>5, <1>9, <3>1, BeforePlace
    <3> QED
      BY <1>6, <2>1, <2>3, <3>2
  <2> QED
    BY <2>2, <2>3
<1>10. PlacedAt(r, k, "store", <<a, x>>)
  <2>1. k \in 1..(Len(r.body) + 1)
    BY <1>1, <1>6
  <2>2. ToSet(<<a, x>>) = {a, x}
    BY <1>1, <1>3, TwoOperands
  <2>3. \A b \in ToSet(p.body) : Op(p, b) = "alloc" => Before(p.body, b, i)
    BY DEF Sound, AllocsFirst
  <2>4. \A j \in DOMAIN r.body : r.body[j] \in ToSet(r.body)
    BY DEF ToSet
  <2>5. x \in ToSet(p.body) => Before(p.body, x, i)
    BY <1>1, <1>3 DEF Sound, Ordered
  <2>6. \A j \in DOMAIN r.body : r.body[j] \in {a, x} => j < k
    BY <1>7, <1>9, <2>3, <2>4, <2>5
  <2>7. \A j \in DOMAIN r.body : Op(r, r.body[j]) = "alloc" => j < k
    <3>1. ToSet(p.body) \subseteq DOMAIN p.vals
      BY TypedFacts DEF Sound
    <3> QED
      BY <1>7, <1>9, <2>3, <2>4, <3>1
  <2> QED
    BY <2>1, <2>2, <2>6, <2>7 DEF PlacedAt
<1>11. q = Inserted(r, k, "store", <<a, x>>, 0)
  BY <1>2, <1>4, <1>5 DEF Stored, Args
<1>12. FromInsertion(q, r, k, "store", <<a, x>>, 0, sums)
  <2>1. PICK args : args = <<a, x>>
    OBVIOUS
  <2>2. Fits(r, "store", args, sums) /\ PlacedAt(r, k, "store", args) /\ q = Inserted(r, k, "store", args, 0) /\ "store" \in InstOps
    BY <1>8, <1>10, <1>11, <2>1 DEF InstOps
  <2>3. FromInsertion(q, r, k, "store", args, 0, sums)
    BY <1>7, <2>2, InsertedIs
  <2> QED
    BY <2>1, <2>3
<1>13. Keeps(r, p, {i}) /\ Keeps(q, r, {})
  BY <1>6, <1>12, RemovalKeeps, InsertionKeeps
<1> QED
  BY <1>12, <1>13 DEF FromInsertion, Keeps

(* An instruction with one of these operations is in the block.            *)
InBody(p, v, ops) == v \in ToSet(p.body) /\ Op(p, v) \in ops

LEMMA KeptInBody ==
  ASSUME NEW sums, NEW p, Sound(p, sums), NEW q, NEW S, Keeps(q, p, S), NEW v, NEW ops, InBody(p, v, ops), v \notin S
  PROVE  InBody(q, v, ops)
<1>1. v \in DOMAIN p.vals
  BY TypedFacts DEF Sound, InBody
<1> QED
  BY <1>1 DEF Keeps, InBody

(* The registers of the rewritten program were registers before.           *)
Continues(q, p, sums) ==
  /\ Sound(q, sums)
  /\ \A r \in 1..Registers : Op(q, r) = "reg" => Op(p, r) = "reg"

LEMMA KeepingContinues ==
  ASSUME NEW sums, NEW p, Sound(p, sums), NEW q, Sound(q, sums), NEW S \in SUBSET ToSet(p.body), Keeps(q, p, S)
  PROVE  Continues(q, p, sums)
<1>1. ASSUME NEW r \in 1..Registers PROVE r \in DOMAIN p.vals \ S
  <2>1. r \in DOMAIN p.vals /\ Op(p, r) \in {"reg", "freed"}
    BY DEF Sound, RegistersFirst
  <2> QED
    BY <2>1 DEF Sound, Bodied, InstOps
<1> QED
  BY <1>1 DEF Continues, Keeps

LEMMA InsertedFacts ==
  ASSUME NEW sums, NEW p, NEW q, NEW k, NEW op \in InstOps, NEW args, NEW word, FromInsertion(q, p, k, op, args, word, sums),
         NEW n, n = Newest(q)
  PROVE  /\ n = Len(p.vals) + 1
         /\ n \in DOMAIN q.vals /\ n \notin DOMAIN p.vals
         /\ Op(q, n) = op /\ Args(q, n) = args /\ q.vals[n].word = word
         /\ q.users[n] = <<>>
         /\ n \in ToSet(q.body)
<1>1. Extends(q, p, n, op, args, word) /\ n = Len(p.vals) + 1
  BY DEF FromInsertion
<1>2. q.vals[n] = [op |-> op, args |-> args, word |-> word]
  BY <1>1 DEF Extends, Grown
<1>3. Op(q, n) = op /\ Args(q, n) = args /\ q.vals[n].word = word
  BY <1>2 DEF Op, Args
<1> QED
  BY <1>1, <1>3 DEF Extends, Grown

(* What the StackSimulator's maps hold is in the program.                  *)
MapsIn(p, loads, storing, allocs) ==
  /\ \A i \in DOMAIN loads : InBody(p, i, {"load"})
  /\ \A i \in DOMAIN storing : InBody(p, i, {"store"}) /\ InBody(p, storing[i].inst, Binaries)
  /\ \A o \in DOMAIN allocs : InBody(p, allocs[o], {"alloc"})

LEMMA BeginSimulates ==
  ASSUME NEW sums, Sound(ir, sums), alloc_map = NoMap, Begin
  PROVE  MapsIn(ir, load_map', store_map', alloc_map')
<1>1. load_map' = [i \in OnStack("load") |-> Offset(i)]
  BY DEF Begin
<1>2. store_map' = [i \in OnStack("store") |-> [offset |-> Offset(i), inst |-> Pointer(i)]]
  BY DEF Begin
<1>3. DOMAIN alloc_map' = {}
  BY DEF Begin, NoMap
<1>4. ASSUME NEW op, NEW i \in OnStack(op) PROVE InBody(ir, i, {op}) /\ Op(ir, Pointer(i)) \in Binaries /\ Pointer(i) = Args(ir, i)[1]
  BY DEF OnStack, Is, InBody, Op, Pointer, Args
<1>5. ASSUME NEW i \in OnStack("store") PROVE InBody(ir, Pointer(i), Binaries)
  <2>1. i \in DOMAIN ir.vals
    BY <1>4, TypedFacts DEF Sound, InBody
  <2>2. Op(ir, i) = "store"
    BY <1>4 DEF InBody
  <2>3. Pointer(i) \in DOMAIN ir.vals
    <3>1. 1 \in 1..Arity(Op(ir, i))
      BY <2>2 DEF Arity
    <3>2. Args(ir, i)[1] \in DOMAIN ir.vals
      BY <2>1, <3>1, TypedFacts DEF Sound
    <3> QED
      BY <1>4, <3>2
  <2> QED
    BY <1>4, <2>3 DEF Sound, Bodied, InBody, Binaries, InstOps
<1>6. DOMAIN load_map' = OnStack("load") /\ DOMAIN store_map' = OnStack("store")
  BY <1>1, <1>2
<1>7. \A i \in OnStack("store") : store_map'[i].inst = Pointer(i)
  BY <1>2
<1> QED
  BY <1>3, <1>4, <1>5, <1>6, <1>7 DEF MapsIn

LEMMA ReplaceStoreKeeps ==
  ASSUME NEW sums, Sound(ir, sums), MapsIn(ir, load_map, store_map, alloc_map), NEW i \in DOMAIN store_map, ReplaceStore(i)
  PROVE  Sound(ir', sums) /\ MapsIn(ir', load_map', store_map', alloc_map')
<1>1. PICK offset, p, a :
         /\ p = IF HasAlloc(offset) THEN ir ELSE Prepended(ir, "alloc", <<"svar", offset>>)
         /\ a = IF HasAlloc(offset) THEN alloc_map[offset] ELSE Newest(p)
         /\ ir' = ReplacedAll(Stored(p, i, a), store_map[i].inst, a)
         /\ alloc_map' = [o \in DOMAIN alloc_map \cup {offset} |-> IF o = offset THEN a ELSE alloc_map[o]]
  BY DEF ReplaceStore
<1>2. store_map' = Without(store_map, i) /\ load_map' = load_map
  BY DEF ReplaceStore
<1>3. InBody(ir, i, {"store"}) /\ InBody(ir, store_map[i].inst, Binaries)
  BY DEF MapsIn
<1>4. Sound(p, sums) /\ Keeps(p, ir, {}) /\ InBody(p, a, {"alloc"})
  <2>1. CASE HasAlloc(offset)
    <3>1. p = ir /\ a = alloc_map[offset]
      BY <1>1, <2>1
    <3> QED
      BY <2>1, <3>1 DEF MapsIn, Keeps, HasAlloc
  <2>2. CASE ~HasAlloc(offset)
    <3>1. p = Prepended(ir, "alloc", <<"svar", offset>>) /\ a = Newest(p)
      BY <1>1, <2>2
    <3>2. PICK word : word = <<"svar", offset>>
      OBVIOUS
    <3>3. FromInsertion(p, ir, 1, "alloc", <<>>, word, sums)
      BY <3>1, <3>2, PrependedIs
    <3>4. Keeps(p, ir, {})
      BY <3>3, InsertionKeeps
    <3>5. a \in ToSet(p.body) /\ Op(p, a) = "alloc"
      <4>1. "alloc" \in InstOps
        BY DEF InstOps
      <4> QED
        BY <3>1, <3>3, <4>1, InsertedFacts
    <3> QED
      BY <3>3, <3>4, <3>5 DEF FromInsertion, InBody
  <2> QED
    BY <2>1, <2>2
<1>5. InBody(p, i, {"store"}) /\ InBody(p, store_map[i].inst, Binaries)
  BY <1>3, <1>4, KeptInBody
<1>6. PICK s : s = Stored(p, i, a)
  OBVIOUS
<1>7. Sound(s, sums) /\ Keeps(s, p, {i})
  BY <1>4, <1>5, <1>6, StoredIs DEF InBody
<1>8. a # i /\ store_map[i].inst # i /\ store_map[i].inst # a
  BY <1>4, <1>5 DEF InBody, Binaries
<1>9. InBody(s, a, {"alloc"}) /\ InBody(s, store_map[i].inst, Binaries)
  BY <1>4, <1>5, <1>7, <1>8, KeptInBody
<1>10. CanReplace(s, store_map[i].inst, a, sums)
  <2>1. store_map[i].inst \in DOMAIN s.vals
    BY <1>7, <1>9, TypedFacts DEF Sound, InBody
  <2> QED
    BY <1>7, <1>8, <1>9, <2>1, CanReplaceByAlloc DEF InBody, Binaries
<1>11. FromReplacement(ir', s, store_map[i].inst, a, sums)
  BY <1>1, <1>6, <1>7, <1>10, ReplacedAllIs
<1>12. Keeps(ir', s, {})
  BY <1>7, <1>10, <1>11, ReplacementKeeps
<1>13. Keeps(ir', ir, {i})
  <2>1. Keeps(s, ir, {} \cup {i})
    BY <1>4, <1>7, KeepsOn
  <2>2. Keeps(s, ir, {i})
    BY <2>1
  <2>3. Keeps(ir', ir, {i} \cup {})
    BY <1>12, <2>2, KeepsOn
  <2> QED
    BY <2>3
<1>14. InBody(ir', a, {"alloc"})
  BY <1>7, <1>9, <1>12, KeptInBody
<1>15. \A v, ops : InBody(ir, v, ops) /\ v # i => InBody(ir', v, ops)
  BY <1>13, KeptInBody
<1>16. \A j \in DOMAIN load_map : InBody(ir', j, {"load"})
  <2>1. \A j \in DOMAIN load_map : InBody(ir, j, {"load"}) /\ j # i
    BY <1>3 DEF MapsIn, InBody
  <2> QED
    BY <1>15, <2>1
<1>17. \A j \in DOMAIN store_map \ {i} : InBody(ir', j, {"store"}) /\ InBody(ir', store_map[j].inst, Binaries)
  <2>1. \A j \in DOMAIN store_map : InBody(ir, j, {"store"}) /\ InBody(ir, store_map[j].inst, Binaries) /\ store_map[j].inst # i
    BY <1>3 DEF MapsIn, InBody, Binaries
  <2> QED
    BY <1>15, <2>1
<1>18. \A o \in DOMAIN alloc_map' : InBody(ir', alloc_map'[o], {"alloc"})
  <2>1. \A o \in DOMAIN alloc_map : InBody(ir, alloc_map[o], {"alloc"}) /\ alloc_map[o] # i
    BY <1>3 DEF MapsIn, InBody
  <2> QED
    BY <1>1, <1>14, <1>15, <2>1
<1>19. DOMAIN store_map' = DOMAIN store_map \ {i} /\ \A j \in DOMAIN store_map \ {i} : store_map'[j] = store_map[j]
  BY <1>2 DEF Without
<1>20. Sound(ir', sums)
  BY <1>11 DEF FromReplacement
<1> QED
  BY <1>2, <1>16, <1>17, <1>18, <1>19, <1>20 DEF MapsIn

(* A load from a variable in the place of another load.                    *)
LEMMA LoadedIs ==
  ASSUME NEW sums, Sound(ir, sums), NEW i, InBody(ir, i, {"load"}), NEW a, InBody(ir, a, {"alloc"}), NEW q, q = Loaded(i, a)
  PROVE  Sound(q, sums) /\ Keeps(q, ir, {i})
<1>1. PICK n, k : n = Len(ir.vals) + 1 /\ k = Position(ir, i)
  OBVIOUS
<1>2. /\ i \in DOMAIN ir.vals /\ a \in DOMAIN ir.vals /\ i \in ToSet(ir.body) /\ a \in ToSet(ir.body)
      /\ ir.body \in Seq(DOMAIN ir.vals) /\ IsInjective(ir.body)
      /\ Len(ir.body) \in Nat /\ DOMAIN ir.body = 1..Len(ir.body)
  BY TypedFacts DEF Sound, Typed, Bodied, InBody
<1>3. k \in 1..Len(ir.body) /\ ir.body[k] = i
  BY <1>1, <1>2, RemovedFromBlock
<1>4. PICK m : m = Inserted(ir, k, "load", <<a>>, 0)
  OBVIOUS
<1>5. PICK args : args = <<a>>
  OBVIOUS
<1>6. args \in Seq(DOMAIN ir.vals) /\ Len(args) = 1 /\ ToSet(args) = {a}
  BY <1>2, <1>5, OneOperand
<1>7. Fits(ir, "load", args, sums)
  <2>1. \A b, c \in DOMAIN ir.vals : Owns(ir, b, c, sums) => c # a
    BY DEF InBody, Sound, OwnConstants
  <2> QED
    BY <1>6, <2>1 DEF Fits, Arity, Ops, Binaries, Mute, InBody
<1>8. PlacedAt(ir, k, "load", args)
  <2>1. \A b \in ToSet(ir.body) : Op(ir, b) = "alloc" => Before(ir.body, b, i)
    BY DEF Sound, AllocsFirst, InBody
  <2>2. ASSUME NEW j \in DOMAIN ir.body, Op(ir, ir.body[j]) = "alloc" PROVE j < k
    <3>1. ir.body[j] \in ToSet(ir.body)
      BY DEF ToSet
    <3> QED
      BY <1>1, <1>2, <2>1, <2>2, <3>1, BeforePlace
  <2>3. \A j \in DOMAIN ir.body : ir.body[j] = a => j < k
    BY <2>2 DEF InBody
  <2>4. k \in 1..(Len(ir.body) + 1)
    BY <1>2, <1>3
  <2> QED
    BY <1>6, <2>2, <2>3, <2>4 DEF PlacedAt
<1>9. FromInsertion(m, ir, k, "load", args, 0, sums)
  BY <1>4, <1>5, <1>7, <1>8, InsertedIs DEF InstOps
<1>10. /\ Sound(m, sums) /\ Newest(m) = n /\ n \in DOMAIN m.vals /\ n \notin DOMAIN ir.vals /\ n # i
       /\ Op(m, n) = "load" /\ n \in ToSet(m.body) /\ Keeps(m, ir, {})
  <2>1. Keeps(m, ir, {})
    BY <1>9, InsertionKeeps
  <2> QED
    BY <1>1, <1>2, <1>9, <2>1 DEF FromInsertion, Extends, Grown, InstOps, Op
<1>11. InBody(m, i, {"load"}) /\ i \in DOMAIN m.vals
  <2>1. InBody(m, i, {"load"})
    BY <1>10, KeptInBody
  <2> QED
    BY <1>10, <2>1, TypedFacts DEF Sound, InBody
<1>12. m.body \in Seq(DOMAIN m.vals) /\ IsInjective(m.body)
  BY <1>10 DEF Sound, Typed, Bodied
<1>13. Before(m.body, n, i)
  <2>1. n \in DOMAIN m.vals /\ ir.body \in Seq(DOMAIN m.vals) /\ n \notin ToSet(ir.body)
    <3>1. ToSet(ir.body) \subseteq DOMAIN ir.vals /\ DOMAIN ir.vals \subseteq DOMAIN m.vals
      BY <1>10, TypedFacts DEF Sound, Keeps
    <3> QED
      BY <1>2, <1>10, <3>1, SeqOfMore
  <2>2. m.body = InsertAt(ir.body, k, n)
    BY <1>1, <1>9 DEF FromInsertion
  <2>3. k \in 1..(Len(ir.body) + 1) /\ k \in DOMAIN ir.body
    BY <1>2, <1>3
  <2>4. \A j \in DOMAIN ir.body : j >= k => Before(InsertAt(ir.body, k, n), n, ir.body[j])
    BY <1>2, <2>1, <2>3, InsertedInBlock
  <2>5. k >= k
    BY <1>2, <1>3
  <2> QED
    BY <1>3, <2>2, <2>3, <2>4, <2>5
<1>14. CanReplace(m, i, n, sums)
  <2>1. \A b \in DOMAIN m.vals : ~Owns(m, b, n, sums)
    BY <1>10 DEF Sound, OwnConstants
  <2>2. ASSUME NEW u \in DOMAIN m.vals, i \in ToSet(Args(m, u)) PROVE Before(m.body, n, u)
    <3>1. Before(m.body, i, u)
      BY <1>10, <1>11, <2>2 DEF Sound, Ordered, InBody
    <3> QED
      BY <1>12, <1>13, <3>1, BeforeIsAnOrder
  <2> QED
    BY <1>10, <1>11, <2>1, <2>2 DEF CanReplace, Mute, InBody
<1>15. PICK r : r = ReplacedAll(m, i, n)
  OBVIOUS
<1>16. FromReplacement(r, m, i, n, sums)
  BY <1>10, <1>14, <1>15, ReplacedAllIs
<1>17. Sound(r, sums) /\ r.users[i] = <<>> /\ i \in ToSet(r.body) /\ Keeps(r, m, {})
  <2>1. Keeps(r, m, {})
    BY <1>10, <1>14, <1>16, ReplacementKeeps
  <2> QED
    BY <1>11, <1>16, <2>1 DEF FromReplacement, Replaces, InBody
<1>18. q = Removed(r, i)
  BY <1>1, <1>4, <1>10, <1>15 DEF Loaded
<1>19. FromRemoval(q, r, i, sums)
  BY <1>17, <1>18, RemovedIs
<1>20. Keeps(q, r, {i})
  BY <1>19, RemovalKeeps
<1> QED
  BY <1>10, <1>17, <1>19, <1>20 DEF FromRemoval, Keeps

LEMMA ReplaceLoadKeeps ==
  ASSUME NEW sums, Sound(ir, sums), MapsIn(ir, load_map, store_map, alloc_map), NEW i \in DOMAIN load_map, ReplaceLoad(i)
  PROVE  Sound(ir', sums) /\ MapsIn(ir', load_map', store_map', alloc_map')
<1>1. CASE load_map[i] \in DOMAIN alloc_map
  <2>1. ir' = Loaded(i, alloc_map[load_map[i]]) /\ load_map' = Without(load_map, i) /\ store_map' = store_map /\ alloc_map' = alloc_map
    BY <1>1 DEF ReplaceLoad
  <2>2. InBody(ir, i, {"load"}) /\ InBody(ir, alloc_map[load_map[i]], {"alloc"})
    BY <1>1 DEF MapsIn
  <2>3. Sound(ir', sums) /\ Keeps(ir', ir, {i})
    BY <2>1, <2>2, LoadedIs
  <2>4. \A v, ops : InBody(ir, v, ops) /\ v # i => InBody(ir', v, ops)
    BY <2>3, KeptInBody
  <2>5. DOMAIN load_map' = DOMAIN load_map \ {i}
    BY <2>1 DEF Without
  <2>6. \A j \in DOMAIN store_map : InBody(ir', j, {"store"}) /\ InBody(ir', store_map[j].inst, Binaries)
    <3>1. \A j \in DOMAIN store_map : j # i /\ store_map[j].inst # i
      BY <2>2 DEF MapsIn, InBody, Binaries
    <3> QED
      BY <2>4, <3>1 DEF MapsIn
  <2>7. \A o \in DOMAIN alloc_map : InBody(ir', alloc_map[o], {"alloc"})
    <3>1. \A o \in DOMAIN alloc_map : alloc_map[o] # i
      BY <2>2 DEF MapsIn, InBody
    <3> QED
      BY <2>4, <3>1 DEF MapsIn
  <2>8. \A j \in DOMAIN load_map \ {i} : InBody(ir', j, {"load"})
    BY <2>4 DEF MapsIn
  <2> QED
    BY <2>1, <2>3, <2>5, <2>6, <2>7, <2>8 DEF MapsIn
<1>2. CASE load_map[i] \notin DOMAIN alloc_map
  BY <1>2 DEF ReplaceLoad, simulatorVars
<1> QED
  BY <1>1, <1>2

-----------------------------------------------------------------------------
(* The RegisterLocaliser: a register without users is only destroyed, one  *)
(* with users is replaced by its variable first.                           *)

(* Replacing a value nothing uses does nothing.                            *)
LEMMA NothingReplacedIn ==
  ASSUME NEW D, NEW x, IsValue(x, D), NEW v, v \notin ToSet(x.args), NEW w
  PROVE  WithArg(x, v, w) = x
<1>1. ReplaceAll(x.args, v, w) = x.args
  BY NothingReplaced DEF IsValue
<1>2. PICK a, b, c : x = [op |-> a, args |-> b, word |-> c]
  BY DEF IsValue
<1>3. x.args = b
  BY <1>2
<1>4. WithArg(x, v, w) = [x EXCEPT !.args = b]
  BY <1>1, <1>3 DEF WithArg
<1> QED
  BY <1>2, <1>4

LEMMA NothingLocalised ==
  ASSUME NEW sums, Sound(ir, sums), NEW reg \in DOMAIN ir.vals, ir.users[reg] = <<>>
  PROVE  ReplacedAll(Localised(reg), reg, Null) = ir
<1>1. /\ ir = [vals |-> ir.vals, users |-> ir.users, body |-> ir.body]
      /\ ir.vals \in Seq(ToSet(ir.vals)) /\ DOMAIN ir.users = DOMAIN ir.vals
      /\ Len(ir.vals) \in Nat /\ DOMAIN ir.vals = 1..Len(ir.vals)
      /\ ir.users \in Seq(Seq(DOMAIN ir.vals))
  BY ShapedFacts DEF Sound, Typed, Shaped, AreLists
<1>2. Localised(reg) = ir
  BY DEF Localised
<1>3. PICK s : s = Substituted(ir, ir.users[reg], reg, Null)
  OBVIOUS
<1>4. ir.users[reg] \in Seq({}) /\ ToSet(ir.users[reg]) = {}
  BY EmptySeq, TimesInNone
<1>5. Substitutes(s, ir, ir.users[reg], reg, Null)
  BY <1>1, <1>3, <1>4, SubstitutedIs
<1>6. s.vals = ir.vals
  <2>1. Len(s.vals) \in Nat /\ DOMAIN s.vals = 1..Len(s.vals) /\ s.vals = [k \in 1..Len(s.vals) |-> s.vals[k]]
    BY <1>5, LenProperties DEF Substitutes
  <2>2. ir.vals = [k \in 1..Len(ir.vals) |-> ir.vals[k]]
    BY <1>1, LenProperties
  <2>3. DOMAIN s.vals = DOMAIN ir.vals /\ \A k \in DOMAIN ir.vals : s.vals[k] = ir.vals[k]
    BY <1>4, <1>5 DEF Substitutes
  <2> QED
    BY <1>1, <2>1, <2>2, <2>3
<1>7. PICK r : r = [ir.users EXCEPT ![reg] = <<>>]
  OBVIOUS
<1>8. r = ir.users
  <2>1. ir.users = [k \in 1..Len(ir.users) |-> ir.users[k]]
    BY <1>1, LenProperties
  <2> QED
    BY <1>1, <1>7, <2>1
<1>9. ReplacedAll(ir, reg, Null) = [s EXCEPT !.users = r]
  BY <1>3, <1>7 DEF ReplacedAll
<1>10. s = ir
  BY <1>1, <1>5, <1>6 DEF Substitutes
<1>11. [s EXCEPT !.users = r] = ir
  <2>1. PICK a, b, c : ir = [vals |-> a, users |-> b, body |-> c]
    BY <1>1
  <2>2. ir.users = b
    BY <2>1
  <2> QED
    BY <1>8, <1>10, <2>1, <2>2
<1> QED
  BY <1>2, <1>9, <1>11

(* The loop and replace_all_uses_with together replace the register by its *)
(* variable, whose users were set before.                                  *)
LEMMA LocalisedReplaces ==
  ASSUME NEW sums, Sound(ir, sums), NEW reg \in DOMAIN ir.vals, ir.users[reg] # <<>>,
         NEW p, p = Prepended(ir, "alloc", <<"register", reg>>),
         NEW q, q = ReplacedAll(Localised(reg), reg, Null)
  PROVE  Replaces(q, p, reg, Newest(p))
<1>1. PICK n, list : n = Newest(p) /\ list = ir.users[reg]
  OBVIOUS
<1>2. PICK word : word = <<"register", reg>>
  OBVIOUS
<1>3. FromInsertion(p, ir, 1, "alloc", <<>>, word, sums)
  BY <1>2, PrependedIs
<1>4. Sound(p, sums) /\ reg \in DOMAIN p.vals /\ n \in DOMAIN p.vals /\ n # reg /\ p.users[reg] = list /\ n \notin DOMAIN ir.vals
  <2>1. ToSet(<<>>) = {}
    BY TimesInNone
  <2> QED
    BY <1>1, <1>3, <2>1 DEF FromInsertion, Extends, Grown
<1>5. /\ p = [vals |-> p.vals, users |-> p.users, body |-> p.body]
      /\ p.vals \in Seq(ToSet(p.vals)) /\ DOMAIN p.users = DOMAIN p.vals
      /\ AreLists(p.users, DOMAIN p.vals)
      /\ list \in Seq(DOMAIN p.vals)
      /\ Typed(p) /\ Linked(p) /\ \A i \in DOMAIN p.vals : IsValue(p.vals[i], DOMAIN p.vals)
  BY <1>4, ShapedFacts DEF Sound, Typed, Shaped
<1>6. PICK users : users = AddUsers(p.users, n, list)
  OBVIOUS
<1>7. PICK m : m = [p EXCEPT !.users = users]
  OBVIOUS
<1>8. PICK s : s = Substituted(m, list, reg, n)
  OBVIOUS
<1>9. Localised(reg) = s
  BY <1>1, <1>6, <1>7, <1>8 DEF Localised
<1>10. m = [vals |-> p.vals, users |-> users, body |-> p.body] /\ m.vals = p.vals /\ m.users = users /\ m.body = p.body
  <2>1. PICK a, b, c : p = [vals |-> a, users |-> b, body |-> c]
    BY <1>5
  <2>2. p.vals = a /\ p.body = c
    BY <2>1
  <2>3. m = [vals |-> a, users |-> users, body |-> c]
    BY <1>7, <2>1
  <2> QED
    BY <2>2, <2>3
<1>11. Substitutes(s, m, list, reg, n)
  BY <1>5, <1>8, <1>10, SubstitutedIs
<1>12. /\ s = [vals |-> s.vals, users |-> users, body |-> p.body]
       /\ DOMAIN s.vals = DOMAIN p.vals
       /\ s.vals \in Seq(ToSet(s.vals))
       /\ \A i \in DOMAIN p.vals : s.vals[i] = IF i \in ToSet(list) THEN WithArg(p.vals[i], reg, n) ELSE p.vals[i]
  BY <1>10, <1>11 DEF Substitutes
<1>13. s.users = users /\ s.body = p.body
  BY <1>12
<1>14. AddsUsers(users, p.users, DOMAIN p.vals, n, list)
  <2>1. PICK lists, D : lists = p.users /\ D = DOMAIN p.vals
    OBVIOUS
  <2>2. AreLists(lists, D) /\ n \in DOMAIN lists /\ list \in Seq(D) /\ users = AddUsers(lists, n, list)
    BY <1>4, <1>5, <1>6, <2>1
  <2>3. AddsUsers(users, lists, D, n, list)
    BY <2>2, AddUsersIs
  <2> QED
    BY <2>1, <2>3
<1>15. users[reg] = list
  BY <1>4, <1>5, <1>14 DEF AddsUsers
<1>16. PICK t : t = Substituted(s, list, reg, Null)
  OBVIOUS
<1>17. PICK lists : lists = [users EXCEPT ![reg] = <<>>]
  OBVIOUS
<1>18. q = [t EXCEPT !.users = lists]
  BY <1>9, <1>13, <1>15, <1>16, <1>17 DEF ReplacedAll
<1>19. Substitutes(t, s, list, reg, Null)
  BY <1>5, <1>12, <1>13, <1>16, SubstitutedIs
<1>20. \A i \in DOMAIN p.vals : t.vals[i] = s.vals[i]
  <2> SUFFICES ASSUME NEW i \in DOMAIN p.vals, i \in ToSet(list) PROVE t.vals[i] = s.vals[i]
    BY <1>12, <1>19 DEF Substitutes
  <2>1. s.vals[i] = WithArg(p.vals[i], reg, n)
    BY <1>12
  <2>2. IsValue(p.vals[i], DOMAIN p.vals)
    BY <1>5
  <2>3. IsValue(s.vals[i], DOMAIN p.vals) /\ s.vals[i].args = ReplaceAll(p.vals[i].args, reg, n)
    BY <1>4, <2>1, <2>2, WithArgIs
  <2>4. reg \notin ToSet(s.vals[i].args)
    <3>1. PICK D, args : D = DOMAIN p.vals /\ args = p.vals[i].args
      OBVIOUS
    <3>2. args \in Seq(D) /\ n \in D /\ reg # n
      BY <1>4, <2>2, <3>1 DEF IsValue
    <3>3. Times(ReplaceAll(args, reg, n), reg) = 0 /\ ReplaceAll(args, reg, n) \in Seq(D)
      BY <3>2, TimesReplaced
    <3> QED
      BY <2>3, <3>1, <3>3, TimesIsCounted
  <2>5. t.vals[i] = WithArg(s.vals[i], reg, Null)
    BY <1>12, <1>19 DEF Substitutes
  <2> QED
    BY <2>3, <2>4, <2>5, NothingReplacedIn
<1>21. PICK x : x = [vals |-> t.vals, users |-> p.users, body |-> p.body]
  OBVIOUS
<1>22. Substitutes(x, p, list, reg, n)
  <2>1. x.vals = t.vals
    BY <1>21
  <2> QED
    BY <1>12, <1>19, <1>20, <1>21, <2>1 DEF Substitutes
<1>23. q = [vals |-> t.vals, users |-> lists, body |-> p.body] /\ q.vals = t.vals /\ q.users = lists /\ q.body = p.body
  <2>1. t = [vals |-> t.vals, users |-> users, body |-> p.body]
    BY <1>13, <1>19 DEF Substitutes
  <2>2. PICK a, b, c : t = [vals |-> a, users |-> b, body |-> c]
    BY <2>1
  <2>3. t.vals = a /\ t.body = c
    BY <2>2
  <2>4. t.body = p.body
    BY <2>1
  <2>5. q = [vals |-> a, users |-> lists, body |-> c]
    BY <1>18, <2>2
  <2> QED
    BY <2>3, <2>4, <2>5
<1>24. MovesUsers(lists, p.users, DOMAIN p.vals, reg, n, list)
  <2>1. PICK us, D : us = p.users /\ D = DOMAIN p.vals
    OBVIOUS
  <2>2. /\ AreLists(us, D) /\ reg \in DOMAIN us /\ n \in DOMAIN us /\ reg # n /\ list \in Seq(D)
        /\ lists = [AddUsers(us, n, list) EXCEPT ![reg] = <<>>]
    BY <1>4, <1>5, <1>6, <1>17, <2>1
  <2>3. MovesUsers(lists, us, D, reg, n, list)
    BY <2>2, MovedUsers
  <2> QED
    BY <2>1, <2>3
<1>25. Shaped(q)
  BY <1>5, <1>12, <1>19, <1>23, <1>24 DEF Shaped, Substitutes, MovesUsers
<1>26. Replaces(q, p, reg, n)
  <2>1. q.users[reg] = <<>> /\ q.users[n] = p.users[n] \o p.users[reg] /\ \A u \in DOMAIN p.vals \ {reg, n} : q.users[u] = p.users[u]
    BY <1>4, <1>5, <1>23, <1>24 DEF MovesUsers
  <2>2. Substitutes(x, p, p.users[reg], reg, n)
    BY <1>4, <1>22
  <2>3. q.vals = x.vals
    BY <1>21, <1>23
  <2> QED
    BY <1>4, <1>5, <1>23, <1>25, <2>1, <2>2, <2>3, SubstitutesReplaces
<1> QED
  BY <1>1, <1>26

(* The register is gone, and there are no new ones.                        *)
LEMMA LocaliseKeeps ==
  ASSUME NEW sums, Sound(ir, sums), NEW reg \in 1..Registers, NEW q, q = Destroyed(ReplacedAll(Localised(reg), reg, Null), reg)
  PROVE  /\ Sound(q, sums)
         /\ Op(q, reg) = "freed"
         /\ \A v \in DOMAIN q.vals : Op(q, v) = "reg" => v \in DOMAIN ir.vals /\ Op(ir, v) = "reg"
<1>1. reg \in DOMAIN ir.vals /\ Op(ir, reg) \in {"reg", "freed"}
  BY DEF Sound, RegistersFirst
<1>2. PICK m : m = ReplacedAll(Localised(reg), reg, Null)
  OBVIOUS
<1>3. /\ Sound(m, sums) /\ reg \in DOMAIN m.vals /\ m.users[reg] = <<>> /\ Op(m, reg) \in {"reg", "freed"}
      /\ \A v \in DOMAIN m.vals : Op(m, v) = "reg" => v \in DOMAIN ir.vals /\ Op(ir, v) = "reg"
  <2>1. CASE ir.users[reg] = <<>>
    <3>1. m = ir
      BY <1>1, <1>2, <2>1, NothingLocalised
    <3> QED
      BY <1>1, <2>1, <3>1
  <2>2. CASE ir.users[reg] # <<>>
    <3>1. PICK p, n : p = Prepended(ir, "alloc", <<"register", reg>>) /\ n = Newest(p)
      OBVIOUS
    <3>2. PICK word : word = <<"register", reg>>
      OBVIOUS
    <3>3. FromInsertion(p, ir, 1, "alloc", <<>>, word, sums)
      BY <3>1, <3>2, PrependedIs
    <3>4. Op(p, n) = "alloc" /\ n \in ToSet(p.body) /\ n \notin DOMAIN ir.vals /\ DOMAIN p.vals = DOMAIN ir.vals \cup {n}
      <4>1. "alloc" \in InstOps
        BY DEF InstOps
      <4>2. n = Len(ir.vals) + 1
        BY <3>1, <3>3, <4>1, InsertedFacts
      <4>3. Op(p, n) = "alloc" /\ n \in ToSet(p.body) /\ n \notin DOMAIN ir.vals
        BY <3>1, <3>3, <4>1, InsertedFacts
      <4>4. DOMAIN p.vals = DOMAIN ir.vals \cup {n}
        BY <3>3, <4>2 DEF FromInsertion, Extends, Grown
      <4> QED
        BY <4>3, <4>4
    <3>5. Sound(p, sums) /\ reg \in DOMAIN p.vals /\ \A v \in DOMAIN ir.vals : Op(p, v) = Op(ir, v)
      BY <1>1, <3>3 DEF FromInsertion, Extends, Grown, Op
    <3>6. CanReplace(p, reg, n, sums)
      <4>1. Op(p, reg) # "const" /\ reg # n
        BY <1>1, <3>4, <3>5
      <4> QED
        BY <3>4, <3>5, <4>1, CanReplaceByAlloc
    <3>7. Replaces(m, p, reg, n)
      BY <1>1, <1>2, <2>2, <3>1, LocalisedReplaces
    <3>8. Sound(m, sums)
      BY <3>5, <3>6, <3>7, ReplacedSound
    <3>9. \A v \in DOMAIN p.vals : Op(m, v) = Op(p, v)
      BY <3>5, <3>6, <3>7, ReplacedFacts DEF Sound, CanReplace
    <3>10. DOMAIN m.vals = DOMAIN p.vals /\ m.users[reg] = <<>>
      BY <3>7 DEF Replaces
    <3>11. \A v \in DOMAIN m.vals : Op(m, v) = "reg" => v \in DOMAIN ir.vals /\ Op(ir, v) = "reg"
      BY <3>4, <3>5, <3>9, <3>10
    <3> QED
      BY <1>1, <3>5, <3>8, <3>9, <3>10, <3>11
  <2> QED
    BY <2>1, <2>2
<1>4. reg \notin ToSet(m.body)
  BY <1>3 DEF Sound, Bodied, InstOps
<1>5. FromRemoval(q, m, reg, sums)
  BY <1>2, <1>3, <1>4, DestroyedOutside
<1>6. DOMAIN q.vals = DOMAIN m.vals /\ Op(q, reg) = "freed" /\ \A v \in DOMAIN m.vals : v # reg => Op(q, v) = Op(m, v)
  BY <1>5 DEF FromRemoval, Erases, Op, Freed
<1> QED
  BY <1>3, <1>5, <1>6 DEF FromRemoval

-----------------------------------------------------------------------------
(* The Verifier and the TriviallyDeadInstPruner.                           *)

(* The Verifier finds nothing in a sound program.                          *)
LEMMA NothingToReport ==
  ASSUME NEW sums, Sound(ir, sums)
  PROVE  ~\E i \in ToSet(ir.body) : \E user \in ToSet(ir.users[i]) : ~dominates(i, user)
<1> SUFFICES ASSUME NEW i \in ToSet(ir.body), NEW user \in ToSet(ir.users[i]) PROVE dominates(i, user)
  OBVIOUS
<1>1. i \in DOMAIN ir.vals /\ ir.body \in Seq(DOMAIN ir.vals) /\ IsInjective(ir.body)
  BY TypedFacts DEF Sound, Typed, Bodied
<1>2. user \in DOMAIN ir.vals
  BY <1>1, ShapedFacts DEF Sound, Typed
<1>3. i \in ToSet(Args(ir, user))
  BY <1>1, <1>2, UsersOfOperands DEF Sound
<1>4. Before(ir.body, i, user)
  BY <1>2, <1>3 DEF Sound, Ordered
<1>5. user \in ToSet(ir.body)
  BY <1>1, <1>4, BeforeIsAnOrder
<1>6. Position(ir, i) \in DOMAIN ir.body /\ ir.body[Position(ir, i)] = i
  <2>1. DOMAIN ir.body = 1..Len(ir.body)
    BY <1>1, LenProperties
  <2> QED
    BY <1>1, <2>1, RemovedFromBlock
<1> QED
  BY <1>4, <1>5, <1>6, BeforePlace DEF dominates

(* What the pruner would remove, and what it has left behind: nothing dead *)
(* after what is still queued, which is the beginning of the block.        *)
DeadIn(p, i) == p.users[i] = <<>> /\ Op(p, i) \notin {"store", "ret"}

Pruned(p, queue) ==
  /\ queue \in Seq(DOMAIN p.vals)
  /\ Len(queue) <= Len(p.body)
  /\ \A k \in 1..Len(queue) : queue[k] = p.body[k]
  /\ \A k \in DOMAIN p.body : k > Len(queue) => ~DeadIn(p, p.body[k])

LEMMA BeginPrunes ==
  ASSUME NEW sums, Sound(ir, sums), BeginPruning
  PROVE  Pruned(ir, work_queue')
<1>1. Len(ir.body) \in Nat /\ DOMAIN ir.body = 1..Len(ir.body)
  BY TypedFacts DEF Sound
<1> QED
  BY <1>1 DEF BeginPruning, InitialQueue, Pruned, Sound, Typed

LEMMA PruneKeeps ==
  ASSUME NEW sums, Sound(ir, sums), Pruned(ir, work_queue), Prune
  PROVE  Continues(ir', ir, sums) /\ Pruned(ir', work_queue')
<1>1. PICK queue, m, i : queue = work_queue /\ m = Len(queue) /\ i = Last(queue)
  OBVIOUS
<1>2. /\ queue \in Seq(DOMAIN ir.vals) /\ queue # <<>> /\ work_queue' = Front(queue)
      /\ ir' = IF IsDead(i) THEN Removed(ir, i) ELSE ir
  BY <1>1 DEF Prune, Pruned
<1>3. /\ m \in Nat /\ m >= 1
      /\ Front(queue) \in Seq(DOMAIN ir.vals) /\ Len(Front(queue)) = m - 1
      /\ i = queue[m]
      /\ \A k \in 1..(m - 1) : Front(queue)[k] = queue[k]
  <2>1. m \in Nat /\ m # 0
    BY <1>1, <1>2, LenProperties, EmptySeq
  <2>2. /\ Front(queue) \in Seq(DOMAIN ir.vals) /\ Len(Front(queue)) = Len(queue) - 1
        /\ Last(queue) = queue[Len(queue)]
        /\ \A k \in 1..(Len(queue) - 1) : Front(queue)[k] = queue[k]
    BY <1>2, FrontAndLast
  <2> QED
    BY <1>1, <2>1, <2>2
<1>4. /\ Len(ir.body) \in Nat /\ DOMAIN ir.body = 1..Len(ir.body) /\ m <= Len(ir.body)
      /\ \A k \in 1..m : queue[k] = ir.body[k]
      /\ \A k \in DOMAIN ir.body : k > m => ~DeadIn(ir, ir.body[k])
  BY <1>1, TypedFacts DEF Pruned, Sound
<1>5. i = ir.body[m] /\ i \in ToSet(ir.body) /\ i \in DOMAIN ir.vals /\ i # Null
  <2>1. m \in DOMAIN ir.body /\ i = ir.body[m]
    BY <1>3, <1>4
  <2>2. i \in DOMAIN ir.vals
    BY <2>1, TypedFacts DEF Sound
  <2> QED
    BY <2>1, <2>2, ShapedFacts DEF ToSet, Sound, Typed
<1>6. IsDead(i) <=> DeadIn(ir, i)
  BY <1>5 DEF IsDead, DeadIn, Is, Op
<1>7. CASE DeadIn(ir, i)
  <2>1. PICK q : q = ir'
    OBVIOUS
  <2>2. q = Removed(ir, i) /\ ir.users[i] = <<>>
    BY <1>2, <1>6, <1>7, <2>1 DEF DeadIn
  <2>3. PICK at : at = Position(ir, i)
    OBVIOUS
  <2>4. /\ FromRemoval(q, ir, i, sums)
        /\ at \in 1..Len(ir.body) /\ ir.body[at] = i
        /\ Len(q.body) = Len(ir.body) - 1
        /\ \A k \in 1..(Len(ir.body) - 1) : q.body[k] = IF k < at THEN ir.body[k] ELSE ir.body[k+1]
    BY <1>5, <2>2, <2>3, RemovedIs
  <2>5. at = m
    <3>1. IsInjective(ir.body)
      BY DEF Sound, Bodied
    <3> QED
      BY <1>3, <1>4, <1>5, <2>4, <3>1, SMTT(20) DEF IsInjective
  <2>6. Sound(q, sums) /\ DOMAIN q.vals = DOMAIN ir.vals
    BY <2>4 DEF FromRemoval, Erases
  <2>7. DOMAIN q.body = 1..(Len(ir.body) - 1)
    BY <2>4, <2>6, TypedFacts DEF Sound
  <2>8. \A k \in 1..(m - 1) : Front(queue)[k] = q.body[k]
    BY <1>3, <1>4, <2>4, <2>5, SMTT(20)
  <2>9. ASSUME NEW k \in DOMAIN q.body, k > m - 1 PROVE ~DeadIn(q, q.body[k])
    <3>1. q.body[k] = ir.body[k+1] /\ k + 1 \in DOMAIN ir.body /\ k + 1 > m
      BY <1>3, <1>4, <2>4, <2>5, <2>7, <2>9, SMTT(20)
    <3>2. PICK u : u = ir.body[k+1]
      OBVIOUS
    <3>3. ~DeadIn(ir, u) /\ u \in DOMAIN ir.vals /\ u \in ToSet(ir.body)
      BY <1>4, <3>1, <3>2, TypedFacts DEF Sound, ToSet
    <3>4. u # i
      <4>1. IsInjective(ir.body)
        BY DEF Sound, Bodied
      <4> QED
        BY <1>3, <1>4, <1>5, <3>1, <3>2, <4>1 DEF IsInjective
    <3>5. u \notin ToSet(Args(ir, i))
      <4>1. SUFFICES ASSUME u \in ToSet(Args(ir, i)) PROVE FALSE
        OBVIOUS
      <4>2. Before(ir.body, u, i)
        BY <1>5, <3>3, <4>1 DEF Sound, Ordered
      <4>3. k + 1 < Position(ir, i)
        BY <1>5, <3>1, <3>2, <4>2, BeforePlace
      <4> QED
        BY <1>3, <2>3, <2>5, <2>7, <3>1, <4>3
    <3>6. q.users[u] = ir.users[u] /\ Op(q, u) = Op(ir, u)
      BY <2>4, <3>3, <3>4, <3>5 DEF FromRemoval, Erases, Op
    <3> QED
      BY <3>1, <3>2, <3>3, <3>6 DEF DeadIn
  <2>10. Pruned(q, Front(queue))
    BY <1>3, <1>4, <2>4, <2>6, <2>8, <2>9 DEF Pruned
  <2>11. Continues(q, ir, sums)
    <3>1. Keeps(q, ir, {i}) /\ {i} \in SUBSET ToSet(ir.body)
      BY <1>5, <2>4, RemovalKeeps
    <3> QED
      BY <2>6, <3>1, KeepingContinues
  <2> QED
    BY <1>2, <2>1, <2>10, <2>11
<1>8. CASE ~DeadIn(ir, i)
  <2>1. ir' = ir
    BY <1>2, <1>6, <1>8
  <2>2. \A k \in DOMAIN ir.body : k > m - 1 => ~DeadIn(ir, ir.body[k])
    <3> SUFFICES ASSUME NEW k \in DOMAIN ir.body, k > m - 1 PROVE ~DeadIn(ir, ir.body[k])
      OBVIOUS
    <3>1. k = m \/ k > m
      BY <1>3, <1>4
    <3> QED
      BY <1>4, <1>5, <1>8, <3>1
  <2>3. Pruned(ir, Front(queue))
    BY <1>3, <1>4, <2>2 DEF Pruned
  <2>4. Continues(ir, ir, sums)
    BY DEF Continues
  <2> QED
    BY <1>2, <2>1, <2>3, <2>4
<1> QED
  BY <1>7, <1>8

-----------------------------------------------------------------------------
(* The removal of a list of instructions.                                  *)

(* The programs between the removals.                                      *)
IsAfter(f, p, list, n) == f = [k \in 0..n |-> IF k = 0 THEN p ELSE Removed(f[k-1], list[k])]

LEMMA AfterExists ==
  ASSUME NEW p, NEW list, NEW n \in Nat
  PROVE  \E f : IsAfter(f, p, list, n)
<1> DEFINE G == {m \in 0..n : \E f : IsAfter(f, p, list, m)}
<1>1. 0 \in G
  <2> DEFINE f == [k \in 0..0 |-> p]
  <2>1. \A k \in 0..0 : k = 0
    OBVIOUS
  <2>2. f = [k \in 0..0 |-> IF k = 0 THEN p ELSE Removed(f[k-1], list[k])]
    BY <2>1
  <2>3. IsAfter(f, p, list, 0)
    BY <2>2 DEF IsAfter
  <2> QED
    BY <2>3
<1>2. ASSUME NEW m \in 0..(n-1), m \in G PROVE m + 1 \in G
  <2>1. PICK f : IsAfter(f, p, list, m)
    BY <1>2
  <2> DEFINE g == [k \in 0..(m+1) |-> IF k = m + 1 THEN Removed(f[m], list[m+1]) ELSE f[k]]
             F(k) == IF k = 0 THEN p ELSE Removed(g[k-1], list[k])
  <2>2. m \in Nat /\ m + 1 \in 0..n
    OBVIOUS
  <2>3. \A k \in 0..m : f[k] = IF k = 0 THEN p ELSE Removed(f[k-1], list[k])
    BY <2>1 DEF IsAfter
  <2>4. \A k \in 0..m : g[k] = f[k]
    BY <2>2
  <2>5. g[m+1] = Removed(f[m], list[m+1])
    BY <2>2
  <2>6. ASSUME NEW k \in 0..(m+1) PROVE g[k] = F(k)
    <3>1. CASE k = m + 1
      <4>1. g[k-1] = f[m] /\ k # 0
        BY <2>2, <2>4, <3>1
      <4> HIDE DEF g
      <4> QED
        BY <2>5, <3>1, <4>1
    <3>2. CASE k = 0
      <4>1. g[k] = f[0] /\ f[0] = p
        BY <2>2, <2>3, <2>4, <3>2
      <4> HIDE DEF g
      <4> QED
        BY <3>2, <4>1
    <3>3. CASE k \in 1..m
      <4>1. g[k] = f[k] /\ g[k-1] = f[k-1] /\ k # 0 /\ f[k] = Removed(f[k-1], list[k])
        BY <2>2, <2>3, <2>4, <3>3
      <4> HIDE DEF g
      <4> QED
        BY <4>1
    <3> QED
      BY <2>2, <3>1, <3>2, <3>3
  <2>7. g = [k \in 0..(m+1) |-> g[k]]
    OBVIOUS
  <2>8. g = [k \in 0..(m+1) |-> F(k)]
    <3> HIDE DEF g, F
    <3> QED
      BY <2>6, <2>7
  <2>9. IsAfter(g, p, list, m + 1)
    BY <2>8, Zenon DEF IsAfter
  <2> QED
    BY <2>2, <2>9
<1>3. n \in 0..n
  OBVIOUS
<1>4. 0..n \subseteq G
  <2> HIDE DEF G
  <2> QED
    BY <1>1, <1>2, IntervalInduction
<1> QED
  BY <1>3, <1>4

LEMMA RemovedAllIs ==
  ASSUME NEW p, NEW list, Len(list) \in Nat
  PROVE  \E f : /\ RemovedAll(p, list) = f[Len(list)]
                /\ f[0] = p
                /\ \A k \in 1..Len(list) : f[k] = Removed(f[k-1], list[k])
<1> DEFINE f == CHOOSE g : IsAfter(g, p, list, Len(list))
<1>1. IsAfter(f, p, list, Len(list))
  BY AfterExists, Zenon
<1>2. RemovedAll(p, list) = f[Len(list)]
  BY Zenon DEF RemovedAll, IsAfter
<1> HIDE DEF f
<1>3. \A k \in 0..Len(list) : f[k] = IF k = 0 THEN p ELSE Removed(f[k-1], list[k])
  BY <1>1 DEF IsAfter
<1>4. f[0] = p
  BY <1>3
<1>5. \A k \in 1..Len(list) : f[k] = Removed(f[k-1], list[k])
  BY <1>3
<1> QED
  BY <1>2, <1>4, <1>5

(* Instructions of the block without users, each once, can be removed.     *)
Removable(p, list) ==
  /\ list \in Seq(DOMAIN p.vals)
  /\ IsInjective(list)
  /\ \A i \in ToSet(list) : i \in ToSet(p.body) /\ p.users[i] = <<>>

LEMMA RemovedAllKeeps ==
  ASSUME NEW sums, NEW p, Sound(p, sums), NEW list, Removable(p, list), NEW q, q = RemovedAll(p, list)
  PROVE  Continues(q, p, sums)
<1>1. Len(list) \in Nat /\ DOMAIN list = 1..Len(list)
  BY LenProperties DEF Removable
<1>2. PICK f : /\ RemovedAll(p, list) = f[Len(list)]
               /\ f[0] = p
               /\ \A k \in 1..Len(list) : f[k] = Removed(f[k-1], list[k])
  BY <1>1, RemovedAllIs
<1> DEFINE Good(m) == /\ Sound(f[m], sums)
                      /\ Keeps(f[m], p, ToSet(list))
                      /\ \A j \in (m+1)..Len(list) : list[j] \in ToSet(f[m].body) /\ f[m].users[list[j]] = <<>>
           G == {m \in 0..Len(list) : Good(m)}
<1>3. 0 \in G
  <2>1. \A j \in 1..Len(list) : list[j] \in ToSet(list)
    BY <1>1 DEF ToSet
  <2>2. Keeps(p, p, ToSet(list))
    BY DEF Keeps
  <2>3. \A j \in (0+1)..Len(list) : list[j] \in ToSet(p.body) /\ p.users[list[j]] = <<>>
    BY <2>1 DEF Removable
  <2> QED
    BY <1>1, <1>2, <2>2, <2>3
<1>4. ASSUME NEW m \in 0..(Len(list) - 1), m \in G PROVE m + 1 \in G
  <2>1. PICK s, r, i : s = f[m] /\ r = f[m+1] /\ i = list[m+1]
    OBVIOUS
  <2>2. m \in Nat /\ m + 1 \in 1..Len(list) /\ m + 1 \in 0..Len(list) /\ m + 1 \in (m+1)..Len(list) /\ (m + 1) - 1 = m
    BY <1>1
  <2>3. r = Removed(s, i)
    BY <1>2, <2>1, <2>2
  <2>4. /\ Sound(s, sums) /\ Keeps(s, p, ToSet(list))
        /\ \A j \in (m+1)..Len(list) : list[j] \in ToSet(s.body) /\ s.users[list[j]] = <<>>
    BY <1>4, <2>1
  <2>5. i \in ToSet(s.body) /\ s.users[i] = <<>> /\ i \in ToSet(list)
    BY <1>1, <2>1, <2>2, <2>4 DEF ToSet
  <2>6. FromRemoval(r, s, i, sums)
    BY <2>3, <2>4, <2>5, RemovedIs
  <2>7. Keeps(r, p, ToSet(list))
    <3>1. Keeps(r, s, {i})
      BY <2>6, RemovalKeeps
    <3>2. Keeps(r, p, ToSet(list) \cup {i})
      BY <2>4, <3>1, KeepsOn
    <3> QED
      BY <2>5, <3>2 DEF Keeps
  <2>8. ASSUME NEW j \in ((m+1)+1)..Len(list) PROVE list[j] \in ToSet(r.body) /\ r.users[list[j]] = <<>>
    <3>1. j \in (m+1)..Len(list) /\ j \in DOMAIN list /\ m + 1 \in DOMAIN list /\ j # m + 1
      BY <1>1, <2>2
    <3>2. PICK u : u = list[j]
      OBVIOUS
    <3>3. u \in ToSet(s.body) /\ s.users[u] = <<>>
      BY <2>4, <3>1, <3>2
    <3>4. u # i
      BY <2>1, <3>1, <3>2 DEF Removable, IsInjective
    <3>5. u \in DOMAIN s.vals /\ i \in DOMAIN s.vals
      BY <2>4, <2>5, <3>3, TypedFacts DEF Sound
    <3>6. u \notin ToSet(Args(s, i))
      BY <2>4, <3>3, <3>5, UsersOfOperands DEF Sound
    <3> QED
      BY <2>6, <3>2, <3>3, <3>4, <3>5, <3>6 DEF FromRemoval, Erases
  <2>9. Sound(r, sums)
    BY <2>6 DEF FromRemoval
  <2> QED
    BY <2>1, <2>2, <2>7, <2>8, <2>9
<1>5. 0..Len(list) \subseteq G
  <2> HIDE DEF G
  <2> QED
    BY <1>1, <1>3, <1>4, IntervalInduction
<1>6. Sound(q, sums) /\ Keeps(q, p, ToSet(list))
  <2>1. Len(list) \in 0..Len(list)
    BY <1>1
  <2>2. Good(Len(list))
    BY <1>5, <2>1
  <2> QED
    BY <1>2, <2>2
<1>7. ToSet(list) \subseteq ToSet(p.body)
  BY DEF Removable
<1> QED
  BY <1>6, <1>7, KeepingContinues

-----------------------------------------------------------------------------
(* The ConstantFolder.                                                     *)

(* What is at two places occurs twice.                                     *)
LEMMA TimesTwice ==
  ASSUME NEW S, NEW s \in Seq(S), NEW j \in DOMAIN s, NEW k \in DOMAIN s, j # k, s[j] = s[k]
  PROVE  Times(s, s[j]) \in Nat /\ Times(s, s[j]) >= 2
<1> DEFINE T == {l \in DOMAIN s : s[l] = s[j]}
<1>1. IsFiniteSet(T) /\ Times(s, s[j]) \in Nat
  BY TimesIsCounted
<1>2. {j, k} \subseteq T
  OBVIOUS
<1>3. Cardinality({j, k}) <= Cardinality(T)
  BY <1>1, <1>2, FS_Subset
<1>4. Cardinality({j, k}) = 2
  <2>1. IsFiniteSet({j}) /\ Cardinality({j}) = 1 /\ k \notin {j}
    BY FS_Singleton
  <2>2. {j, k} = {j} \cup {k}
    OBVIOUS
  <2>3. PICK A : A = {j}
    OBVIOUS
  <2>4. Cardinality(A \cup {k}) = Cardinality(A) + 1
    BY <2>1, <2>3, FS_AddElement
  <2>5. Cardinality(A) = 1 /\ A \cup {k} = {j, k}
    BY <2>1, <2>2, <2>3
  <2>6. Cardinality(A \cup {k}) = 2
    BY <2>4, <2>5
  <2> QED
    BY <2>5, <2>6, Zenon
<1>5. Times(s, s[j]) = Cardinality(T)
  BY DEF Times
<1> QED
  BY <1>1, <1>3, <1>4, <1>5

(* SelectLastInSeq finds the last place among those that pass.             *)
LEMMA GreatestPlace ==
  ASSUME NEW n \in Nat, NEW I \in SUBSET (1..n)
  PROVE  /\ I = {} => (IF I # {} THEN Max(I) ELSE 0) = 0
         /\ I # {} => (IF I # {} THEN Max(I) ELSE 0) \in I
<1>1. ASSUME I # {} PROVE \E x \in I : \A y \in I : x >= y
  <2> DEFINE T == {n - x : x \in I}
  <2>5. \A x \in I : n - x \in Nat
    OBVIOUS
  <2>6. T \subseteq Nat
    BY <2>5
  <2>7. PICK x \in I : TRUE
    BY <1>1
  <2>8. n - x \in T
    OBVIOUS
  <2>1. T \subseteq Nat /\ T # {}
    BY <2>6, <2>8
  <2>2. PICK t \in T : \A u \in T : t <= u
    BY <2>1, LeastElement
  <2>3. PICK z \in I : t = n - z
    BY <2>2
  <2>4. ASSUME NEW y \in I PROVE z >= y
    <3>1. n - y \in T
      OBVIOUS
    <3>2. n - z <= n - y
      BY <2>2, <2>3, <3>1
    <3>3. z \in Nat /\ y \in Nat
      OBVIOUS
    <3> HIDE DEF T
    <3> QED
      BY <3>2, <3>3
  <2> QED
    BY <2>4
<1>2. ASSUME I # {} PROVE Max(I) \in I
  <2>1. \E x : x \in I /\ \A y \in I : x >= y
    BY <1>1, <1>2
  <2> QED
    BY <2>1 DEF Max
<1> QED
  BY <1>2

(* The queue without its end, and with the users of what was folded.       *)
LEMMA PrefixThen ==
  ASSUME NEW S, NEW s \in Seq(S), NEW m \in 1..Len(s), NEW t \in Seq(S), NEW r, r = SubSeq(s, 1, m - 1) \o t
  PROVE  /\ r \in Seq(S)
         /\ Len(t) \in Nat /\ DOMAIN t = 1..Len(t)
         /\ DOMAIN r = 1..(m - 1 + Len(t))
         /\ \A k \in 1..(m - 1 + Len(t)) : r[k] = IF k < m THEN s[k] ELSE t[k - (m - 1)]
<1>1. Len(s) \in Nat /\ \A k \in 1..Len(s) : s[k] \in S
  BY LenProperties, ElementOfSeq
<1>2. Len(t) \in Nat /\ DOMAIN t = 1..Len(t)
  BY LenProperties
<1>3. PICK a, n : a = SubSeq(s, 1, m - 1) /\ n = m - 1
  OBVIOUS
<1>4. n \in Nat /\ m = n + 1 /\ \A k \in 1..n : s[k] \in S
  BY <1>1, <1>3
<1>5. /\ a \in Seq(S) /\ Len(a) = IF 1 <= n THEN n - 1 + 1 ELSE 0
      /\ \A k \in 1..(n - 1 + 1) : a[k] = s[1 + k - 1]
  BY <1>3, <1>4, SubSeqProperties
<1>6. Len(a) = n /\ \A k \in 1..n : a[k] = s[k]
  BY <1>4, <1>5
<1>7. /\ a \o t \in Seq(S) /\ Len(a \o t) = Len(a) + Len(t)
      /\ \A k \in 1..(Len(a) + Len(t)) : (a \o t)[k] = IF k <= Len(a) THEN a[k] ELSE t[k - Len(a)]
  BY <1>5, ConcatProperties
<1>8. r = a \o t
  BY <1>3
<1>9. DOMAIN r = 1..(n + Len(t))
  BY <1>6, <1>7, <1>8, LenProperties
<1>10. ASSUME NEW k \in 1..(n + Len(t)) PROVE r[k] = IF k < m THEN s[k] ELSE t[k - n]
  <2>1. r[k] = IF k <= n THEN a[k] ELSE t[k - n]
    BY <1>6, <1>7, <1>8
  <2>2. CASE k <= n
    <3>1. k \in 1..n /\ k < m
      BY <1>2, <1>4, <2>2
    <3> QED
      BY <1>6, <2>1, <2>2, <3>1
  <2>3. CASE ~(k <= n)
    <3>1. ~(k < m)
      BY <1>2, <1>4, <2>3
    <3> QED
      BY <2>1, <2>3, <3>1
  <2> QED
    BY <2>2, <2>3
<1> QED
  BY <1>2, <1>3, <1>7, <1>8, <1>9, <1>10

-----------------------------------------------------------------------------

(* While folding: what was folded has no users. Of what is not in sums,    *)
(* what was folded is in the list once and is not queued any more, and     *)
(* what is queued is queued once, before all that computes and is behind   *)
(* it in the queue, unless its first operand is a constant already.        *)
ConstantFirst(p, b) == Op(p, Args(p, b)[1]) = "const"

Folding(p, queue, list, sums) ==
  /\ queue \in Seq(DOMAIN p.vals) /\ list \in Seq(DOMAIN p.vals)
  /\ \A r \in ToSet(list) : InBody(p, r, Binaries) /\ ConstantFirst(p, r) /\ p.users[r] = <<>>
  /\ \A j, k \in DOMAIN list : list[j] = list[k] => j = k \/ list[j] \in sums
  /\ ToSet(list) \cap ToSet(queue) \subseteq sums
  /\ \A j, k \in DOMAIN queue : j < k /\ queue[j] \notin sums /\ Op(p, queue[j]) \in Binaries /\ Op(p, queue[k]) \in Binaries =>
       /\ queue[j] # queue[k]
       /\ ConstantFirst(p, queue[j]) \/ Before(p.body, queue[j], queue[k])

LEMMA BeginFolds ==
  ASSUME NEW sums, Sound(ir, sums), remove_list = <<>>, BeginFolding
  PROVE  Folding(ir, fold_queue', remove_list', sums)
<1>1. fold_queue' = ir.body /\ remove_list' = <<>>
  BY DEF BeginFolding
<1>2. ir.body \in Seq(DOMAIN ir.vals) /\ IsInjective(ir.body)
  BY DEF Sound, Typed, Bodied
<1>3. <<>> \in Seq(DOMAIN ir.vals) /\ ToSet(<<>>) = {} /\ DOMAIN <<>> = {}
  BY EmptySeq, TimesInNone
<1>4. \A j, k \in DOMAIN ir.body : j < k => ir.body[j] # ir.body[k] /\ Before(ir.body, ir.body[j], ir.body[k])
  <2>1. DOMAIN ir.body = 1..Len(ir.body)
    BY TypedFacts DEF Sound
  <2> QED
    BY <1>2, <2>1 DEF Before, IsInjective
<1> QED
  BY <1>1, <1>2, <1>3, <1>4 DEF Folding

(* A step folds an instruction whose operands are constants, and queues    *)
(* its users, which are behind it in the block.                            *)
LEMMA NextFoldIs ==
  ASSUME fold_queue \in Seq(DOMAIN ir.vals), NextFold # 0
  PROVE  NextFold \in 1..Len(fold_queue) /\ Foldable(fold_queue[NextFold])
<1> DEFINE I == {k \in 1..Len(fold_queue) : Foldable(fold_queue[k])}
<1>1. NextFold = IF I # {} THEN Max(I) ELSE 0
  BY DEF NextFold, SelectLastInSeq
<1>2. Len(fold_queue) \in Nat
  BY LenProperties
<1>3. I \in SUBSET (1..Len(fold_queue))
  OBVIOUS
<1>4. NextFold \in I
  BY <1>1, <1>2, <1>3, GreatestPlace
<1> QED
  BY <1>4

LEMMA FoldNextKeeps ==
  ASSUME NEW sums, Sound(ir, sums), Folding(ir, fold_queue, remove_list, sums), FoldNext
  PROVE  Continues(ir', ir, sums) /\ Folding(ir', fold_queue', remove_list', sums)
<1>1. PICK m, i, queue, list, D :
         m = NextFold /\ i = fold_queue[NextFold] /\ queue = fold_queue /\ list = remove_list /\ D = DOMAIN ir.vals
  OBVIOUS
<1>2. PICK folded, c : folded = Constant(ir, fold_binary(i)) /\ c = Newest(folded)
  OBVIOUS
<1>3. PICK q : q = ir'
  OBVIOUS
<1>4. /\ q = ReplacedAll(folded, i, c)
      /\ fold_queue' = SubSeq(queue, 1, m - 1) \o ir.users[i]
      /\ remove_list' = Append(list, i)
      /\ m # 0
  BY <1>1, <1>2, <1>3 DEF FoldNext
<1>5. m \in 1..Len(queue) /\ Foldable(i) /\ queue \in Seq(D) /\ list \in Seq(D) /\ i = queue[m]
  BY <1>1, <1>4, NextFoldIs DEF Folding
<1>6. Len(queue) \in Nat /\ DOMAIN queue = 1..Len(queue) /\ \A k \in 1..Len(queue) : queue[k] \in D
  BY <1>5, LenProperties, ElementOfSeq
<1>7. i \in D /\ Op(ir, i) \in Binaries /\ Op(ir, Args(ir, i)[1]) = "const" /\ Op(ir, Args(ir, i)[2]) = "const"
  BY <1>1, <1>5, <1>6, SMTT(20) DEF Foldable, IsConstant, Is, Op, Args
<1>8. FromConstant(folded, ir, fold_binary(i), sums)
  BY <1>2, ConstantIs
<1>9. /\ Sound(folded, sums) /\ c = Len(ir.vals) + 1 /\ folded.body = ir.body
      /\ DOMAIN folded.vals = D \cup {c} /\ c \notin D
      /\ Op(folded, c) = "const" /\ Args(folded, c) = <<>>
      /\ \A v \in D : Op(folded, v) = Op(ir, v) /\ Args(folded, v) = Args(ir, v) /\ folded.users[v] = ir.users[v]
      /\ folded.users[c] = <<>>
  <2>1. ToSet(<<>>) = {}
    BY TimesInNone
  <2> QED
    BY <1>1, <1>2, <1>8, <2>1 DEF FromConstant, Extends, Grown, Op, Args
<1>10. /\ ToSet(ir.body) \subseteq D
       /\ \A v \in D : ToSet(Args(ir, v)) \subseteq D
       /\ \A v \in D : Op(ir, v) \in Binaries => DOMAIN Args(ir, v) = 1..2 /\ Args(ir, v)[1] \in D /\ Args(ir, v)[2] \in D
  BY <1>1, TypedFacts DEF Sound, Arity
<1>11. CanReplace(folded, i, c, sums)
  <2>1. \A b \in D \cup {c} : ~Owns(folded, b, c, sums)
    BY <1>9, <1>10 DEF Owns, Binaries
  <2> QED
    BY <1>7, <1>9, <1>10, <2>1 DEF CanReplace, Mute, Binaries
<1>12. FromReplacement(q, folded, i, c, sums)
  BY <1>4, <1>9, <1>11, ReplacedAllIs
<1>13. /\ Sound(q, sums) /\ DOMAIN q.vals = D \cup {c} /\ q.body = ir.body
       /\ q.users[i] = <<>>
       /\ \A v \in D : v # i => q.users[v] = ir.users[v]
  BY <1>7, <1>9, <1>12 DEF FromReplacement, Replaces
<1>14. /\ \A v \in D \cup {c} : Op(q, v) = Op(folded, v)
       /\ \A v \in D \cup {c} : \A k \in DOMAIN Args(folded, v) : Args(q, v)[k] = IF Args(folded, v)[k] = i THEN c ELSE Args(folded, v)[k]
  <2>1. Typed(folded) /\ i \in DOMAIN folded.vals /\ c \in DOMAIN folded.vals /\ i # c /\ Replaces(q, folded, i, c)
    <3>1. Typed(folded)
      BY <1>9 DEF Sound
    <3>2. i \in DOMAIN folded.vals /\ c \in DOMAIN folded.vals /\ i # c
      BY <1>11 DEF CanReplace
    <3> QED
      BY <1>12, <3>1, <3>2 DEF FromReplacement
  <2> QED
    BY <1>9, <2>1, ReplacedFacts
<1>15. \A v \in D : Op(q, v) = Op(ir, v)
  BY <1>9, <1>14
<1>16. ASSUME NEW b \in D, Op(ir, b) \in Binaries, ConstantFirst(ir, b) \/ Args(ir, b)[1] = i PROVE ConstantFirst(q, b)
  <2>1. Args(q, b)[1] = IF Args(ir, b)[1] = i THEN c ELSE Args(ir, b)[1]
    BY <1>9, <1>10, <1>14, <1>16
  <2>2. CASE Args(ir, b)[1] = i
    BY <1>9, <1>14, <2>1, <2>2 DEF ConstantFirst
  <2>3. CASE Args(ir, b)[1] # i
    BY <1>10, <1>15, <1>16, <2>1, <2>3 DEF ConstantFirst
  <2> QED
    BY <2>2, <2>3
<1>17. PICK U : U = ir.users[i]
  OBVIOUS
<1>18. U \in Seq(D) /\ Len(U) \in Nat /\ DOMAIN U = 1..Len(U) /\ \A k \in 1..Len(U) : U[k] \in D /\ U[k] \in ToSet(U)
  <2>1. U \in Seq(D)
    BY <1>1, <1>7, <1>17, ShapedFacts DEF Sound, Typed
  <2> QED
    BY <2>1, LenProperties, ElementOfSeq DEF ToSet
<1>19. ASSUME NEW u \in D, u \in ToSet(U)
       PROVE  /\ i \in ToSet(Args(ir, u)) /\ Before(ir.body, i, u)
              /\ Op(ir, u) \in Binaries /\ u \notin sums => /\ Args(ir, u)[1] = i
                                                            /\ ~ConstantFirst(ir, u)
                                                            /\ Times(U, u) = 1
  <2>1. i \in ToSet(Args(ir, u))
    BY <1>1, <1>7, <1>17, <1>19, UsersOfOperands DEF Sound
  <2>2. i \in ToSet(ir.body)
    BY <1>1, <1>7 DEF Sound, Bodied, Binaries, InstOps
  <2>3. Before(ir.body, i, u)
    BY <1>1, <2>1, <2>2 DEF Sound, Ordered
  <2>4. ASSUME Op(ir, u) \in Binaries, u \notin sums PROVE Args(ir, u)[1] = i /\ ~ConstantFirst(ir, u) /\ Times(U, u) = 1
    <3>1. Op(ir, Args(ir, u)[2]) = "const"
      <4>1. Owns(ir, u, Args(ir, u)[2], sums)
        BY <2>4 DEF Owns
      <4> QED
        BY <1>1, <1>10, <2>4, <4>1 DEF Sound, OwnConstants
    <3>2. Args(ir, u)[2] # i
      BY <1>7, <3>1 DEF Binaries
    <3>3. DOMAIN Args(ir, u) = 1..2
      BY <1>10, <2>4
    <3>4. Args(ir, u)[1] = i
      <4>1. PICK k \in 1..2 : Args(ir, u)[k] = i
        BY <2>1, <3>3 DEF ToSet
      <4> QED
        BY <3>2, <4>1
    <3>5. ~ConstantFirst(ir, u)
      BY <1>7, <3>4 DEF ConstantFirst, Binaries
    <3>6. Times(U, u) = 1
      <4>1. Times(U, u) = Times(Args(ir, u), i)
        BY <1>1, <1>7, <1>17 DEF Sound, Linked
      <4>2. Args(ir, u) \in Seq(D) /\ Len(Args(ir, u)) = 2
        BY <1>1, <2>4, TypedFacts DEF Sound, Arity
      <4>3. Times(Args(ir, u), i) = (IF Args(ir, u)[1] = i THEN 1 ELSE 0) + (IF Args(ir, u)[2] = i THEN 1 ELSE 0)
        BY <4>2, TimesInFew
      <4> QED
        BY <3>2, <3>4, <4>1, <4>3
    <3> QED
      BY <3>4, <3>5, <3>6
  <2> QED
    BY <2>1, <2>3, <2>4
<1>20. PICK n, next : n = m - 1 /\ next = SubSeq(queue, 1, m - 1) \o U
  OBVIOUS
<1>21. n \in Nat /\ m = n + 1 /\ n < Len(queue)
  BY <1>5, <1>6, <1>20
<1>22. /\ next \in Seq(D)
       /\ DOMAIN next = 1..(n + Len(U))
       /\ \A k \in 1..(n + Len(U)) : next[k] = IF k < m THEN queue[k] ELSE U[k - n]
  BY <1>5, <1>18, <1>20, PrefixThen
<1>23. ASSUME NEW k \in DOMAIN next
       PROVE  \/ k <= n /\ k \in DOMAIN queue /\ k < m /\ next[k] = queue[k] /\ next[k] \in D
              \/ k > n /\ k - n \in DOMAIN U /\ next[k] = U[k - n] /\ next[k] \in ToSet(U) /\ next[k] \in D
  <2>1. CASE k <= n
    BY <1>6, <1>21, <1>22, <2>1
  <2>2. CASE k > n
    <3>1. k - n \in 1..Len(U) /\ ~(k < m)
      BY <1>18, <1>21, <1>22, <2>2
    <3> QED
      BY <1>18, <1>22, <2>2, <3>1
  <2> QED
    BY <1>21, <1>22, <2>1, <2>2
<1>24. \A j, k \in DOMAIN queue : j < k /\ queue[j] \notin sums /\ Op(ir, queue[j]) \in Binaries /\ Op(ir, queue[k]) \in Binaries =>
         /\ queue[j] # queue[k]
         /\ ConstantFirst(ir, queue[j]) \/ Before(ir.body, queue[j], queue[k])
  BY <1>1 DEF Folding
<1>25. m \in DOMAIN queue /\ Op(ir, queue[m]) \in Binaries
  BY <1>5, <1>6, <1>7
<1>26. ir.body \in Seq(D) /\ IsInjective(ir.body)
  BY <1>1 DEF Sound, Typed, Bodied
<1>27. ASSUME NEW j \in DOMAIN next, NEW k \in DOMAIN next, j < k, next[j] \notin sums,
              Op(q, next[j]) \in Binaries, Op(q, next[k]) \in Binaries
       PROVE  next[j] # next[k] /\ (ConstantFirst(q, next[j]) \/ Before(q.body, next[j], next[k]))
  <2>1. next[j] \in D /\ next[k] \in D
    BY <1>23
  <2>2. Op(ir, next[j]) \in Binaries /\ Op(ir, next[k]) \in Binaries
    BY <1>15, <1>27, <2>1
  <2>3. CASE j <= n /\ k <= n
    <3>1. j \in DOMAIN queue /\ k \in DOMAIN queue /\ next[j] = queue[j] /\ next[k] = queue[k]
      BY <1>22, <1>23, <1>21, <2>3
    <3>2. next[j] # next[k] /\ (ConstantFirst(ir, next[j]) \/ Before(ir.body, next[j], next[k]))
      BY <1>24, <1>27, <2>2, <3>1
    <3> QED
      BY <1>13, <1>16, <2>1, <2>2, <3>2
  <2>4. CASE j <= n /\ k > n
    <3>1. j \in DOMAIN queue /\ next[j] = queue[j] /\ j < m /\ next[k] \in ToSet(U)
      BY <1>21, <1>22, <1>23, <2>4
    <3>2. next[j] # i /\ (ConstantFirst(ir, next[j]) \/ Before(ir.body, next[j], i))
      BY <1>5, <1>24, <1>25, <1>27, <2>2, <3>1
    <3>3. Before(ir.body, i, next[k])
      BY <1>19, <2>1, <3>1
    <3>4. next[j] # next[k]
      <4>1. SUFFICES ASSUME next[j] = next[k] PROVE FALSE
        OBVIOUS
      <4>2. ~ConstantFirst(ir, next[k]) /\ Before(ir.body, next[k], i)
        BY <1>19, <1>27, <2>1, <2>2, <3>1, <3>2, <4>1
      <4> QED
        BY <1>26, <3>3, <4>2, BeforeIsAnOrder
    <3>5. ConstantFirst(ir, next[j]) \/ Before(ir.body, next[j], next[k])
      BY <1>26, <3>2, <3>3, BeforeIsAnOrder
    <3> QED
      BY <1>13, <1>16, <2>1, <2>2, <3>4, <3>5
  <2>5. CASE j > n /\ k > n
    <3>1. j - n \in DOMAIN U /\ k - n \in DOMAIN U /\ next[j] = U[j - n] /\ next[k] = U[k - n] /\ next[j] \in ToSet(U)
      BY <1>21, <1>22, <1>23, <2>5
    <3>2. Times(U, next[j]) = 1 /\ Args(ir, next[j])[1] = i
      BY <1>19, <1>27, <2>1, <2>2, <3>1
    <3>3. next[j] # next[k]
      <4>1. SUFFICES ASSUME next[j] = next[k] PROVE FALSE
        OBVIOUS
      <4>2. j - n # k - n
        BY <1>21, <1>22, <1>27
      <4>3. Times(U, U[j - n]) >= 2
        BY <1>18, <3>1, <4>1, <4>2, TimesTwice
      <4> QED
        BY <3>1, <3>2, <4>3
    <3>4. ConstantFirst(q, next[j])
      BY <1>16, <2>1, <2>2, <3>2
    <3> QED
      BY <3>3, <3>4
  <2> QED
    BY <1>21, <1>22, <1>27, <2>3, <2>4, <2>5
<1>28. PICK list2 : list2 = Append(list, i)
  OBVIOUS
<1>29. /\ \A r \in ToSet(list) : r \in D /\ InBody(ir, r, Binaries) /\ ConstantFirst(ir, r) /\ ir.users[r] = <<>>
       /\ \A j, k \in DOMAIN list : list[j] = list[k] => j = k \/ list[j] \in sums
       /\ ToSet(list) \cap ToSet(queue) \subseteq sums
  <2>1. ASSUME NEW r \in ToSet(list) PROVE r \in D
    <3>1. PICK k \in DOMAIN list : list[k] = r
      BY DEF ToSet
    <3> QED
      BY <1>5, <3>1, LenProperties, ElementOfSeq
  <2> QED
    BY <1>1, <2>1 DEF Folding
<1>30. i \in ToSet(list) => i \in sums
  <2>1. i \in ToSet(queue)
    BY <1>5, <1>25 DEF ToSet
  <2> QED
    BY <1>29, <2>1
<1>31. /\ list2 \in Seq(D) /\ ToSet(list2) = ToSet(list) \cup {i}
       /\ \A j, k \in DOMAIN list2 : list2[j] = list2[k] => j = k \/ list2[j] \in sums
  <2>1. list2 \in Seq(D) /\ ToSet(list2) = ToSet(list) \cup {i}
    BY <1>5, <1>7, <1>28, AppendOne
  <2>2. /\ DOMAIN list = 1..Len(list) /\ Len(list) \in Nat /\ DOMAIN list2 = 1..(Len(list) + 1)
        /\ list2[Len(list) + 1] = i /\ \A j \in 1..Len(list) : list2[j] = list[j] /\ list2[j] \in ToSet(list)
    BY <1>5, <1>7, <1>28, AppendOne DEF ToSet
  <2>3. ASSUME NEW j \in DOMAIN list2, NEW k \in DOMAIN list2, list2[j] = list2[k], j # k PROVE list2[j] \in sums
    <3>1. CASE j \in 1..Len(list) /\ k \in 1..Len(list)
      BY <1>29, <2>2, <2>3, <3>1
    <3>2. CASE j = Len(list) + 1 /\ k \in 1..Len(list)
      BY <1>30, <2>2, <2>3, <3>2
    <3>3. CASE k = Len(list) + 1 /\ j \in 1..Len(list)
      BY <1>30, <2>2, <2>3, <3>3
    <3> QED
      BY <2>2, <2>3, <3>1, <3>2, <3>3
  <2> QED
    BY <2>1, <2>3
<1>32. ASSUME NEW r \in ToSet(list2) PROVE InBody(q, r, Binaries) /\ ConstantFirst(q, r) /\ q.users[r] = <<>>
  <2>1. CASE r = i
    <3>1. InBody(q, r, Binaries)
      BY <1>7, <1>13, <1>15, <2>1, <1>1 DEF Sound, Bodied, InBody, Binaries, InstOps
    <3>2. ConstantFirst(q, r)
      BY <1>7, <1>16, <2>1 DEF ConstantFirst
    <3> QED
      BY <1>13, <2>1, <3>1, <3>2
  <2>2. CASE r \in ToSet(list) /\ r # i
    BY <1>13, <1>15, <1>16, <1>29, <2>2 DEF InBody
  <2> QED
    BY <1>31, <2>1, <2>2
<1>33. ToSet(list2) \cap ToSet(next) \subseteq sums
  <2>1. SUFFICES ASSUME NEW k \in DOMAIN next, next[k] \in ToSet(list2), next[k] \notin sums PROVE FALSE
    BY DEF ToSet
  <2>2. next[k] \in D
    BY <1>23
  <2>3. Op(ir, next[k]) \in Binaries
    BY <1>7, <1>29, <1>31, <2>1 DEF InBody
  <2>4. CASE k <= n
    <3>1. k \in DOMAIN queue /\ next[k] = queue[k] /\ k < m
      BY <1>21, <1>22, <1>23, <2>4
    <3>2. next[k] # i
      BY <1>5, <1>24, <1>25, <2>1, <2>3, <3>1
    <3>3. next[k] \in ToSet(queue)
      BY <3>1 DEF ToSet
    <3> QED
      BY <1>29, <1>31, <2>1, <3>2, <3>3
  <2>5. CASE k > n
    <3>1. next[k] \in ToSet(U)
      BY <1>21, <1>22, <1>23, <2>5
    <3>2. ~ConstantFirst(ir, next[k])
      BY <1>19, <2>1, <2>2, <2>3, <3>1
    <3>3. ConstantFirst(ir, next[k])
      BY <1>7, <1>29, <1>31, <2>1 DEF ConstantFirst
    <3> QED
      BY <3>2, <3>3
  <2> QED
    BY <1>21, <1>22, <2>4, <2>5
<1>34. Folding(q, next, list2, sums)
  <2>1. next \in Seq(DOMAIN q.vals) /\ list2 \in Seq(DOMAIN q.vals)
    BY <1>13, <1>22, <1>31, SeqOfMore
  <2> QED
    BY <1>27, <1>31, <1>32, <1>33, <2>1 DEF Folding
<1>35. Continues(q, ir, sums)
  <2>1. Keeps(q, ir, {})
    BY <1>1, <1>13, <1>15 DEF Keeps
  <2> QED
    BY <1>13, <2>1, KeepingContinues
<1> QED
  BY <1>3, <1>4, <1>17, <1>20, <1>28, <1>34, <1>35

(* When the queue has run empty, all that was folded is removed, unless an *)
(* instruction of sums is there twice.                                     *)
Twice(list, sums) == \E i \in sums : Times(list, i) > 1

LEMMA EndFoldingKeeps ==
  ASSUME NEW sums, Sound(ir, sums), Folding(ir, fold_queue, remove_list, sums), EndFolding
  PROVE  /\ Continues(ir', ir, sums)
         /\ \/ running' = None /\ fold_queue' = <<>> /\ remove_list' = <<>>
            \/ running' = "aborted" /\ Twice(remove_list', sums)
<1>1. CASE ~FailsToRemove
  <2>1. ir' = RemovedAll(ir, remove_list) /\ running' = None /\ fold_queue' = <<>> /\ remove_list' = <<>>
    BY <1>1 DEF EndFolding
  <2>2. Removable(ir, remove_list)
    BY <1>1 DEF FailsToRemove, Removable, Folding, InBody
  <2> QED
    BY <2>1, <2>2, RemovedAllKeeps
<1>2. CASE FailsToRemove
  <2>1. PICK list : list = remove_list
    OBVIOUS
  <2>2. ir' = ir /\ running' = "aborted" /\ remove_list' = list
    BY <1>2, <2>1 DEF EndFolding, folderVars
  <2>3. list \in Seq(DOMAIN ir.vals) /\ ~IsInjective(list)
    BY <1>2, <2>1 DEF FailsToRemove, Folding
  <2>4. PICK j, k \in DOMAIN list : j # k /\ list[j] = list[k]
    BY <2>3 DEF IsInjective
  <2>5. list[j] \in sums
    BY <2>1, <2>4 DEF Folding
  <2>6. Times(list, list[j]) >= 2 /\ Times(list, list[j]) \in Nat
    BY <2>3, <2>4, TimesTwice
  <2>7. Times(list, list[j]) > 1
    BY <2>6
  <2>8. Twice(list, sums)
    BY <2>5, <2>7 DEF Twice
  <2>9. Keeps(ir', ir, {})
    BY <2>2 DEF Keeps
  <2> QED
    BY <2>2, <2>8, <2>9, KeepingContinues
<1> QED
  BY <1>1, <1>2

-----------------------------------------------------------------------------
(* The AllocPromoter: the stores to a variable are among its users, and a  *)
(* store is there twice only if it stores the variable's address.          *)

(* The elements of list that are in a set, as the promoter collects them.  *)
IsAmong(f, list, n) ==
  f = [k \in 0..n |->
         IF k = 0 THEN <<>>
         ELSE IF Is(ir, list[k], {"store"}) THEN Append(f[k-1], list[k]) ELSE f[k-1]]

LEMMA AmongExists ==
  ASSUME NEW list, NEW n \in Nat
  PROVE  \E f : IsAmong(f, list, n)
<1> DEFINE G == {m \in 0..n : \E f : IsAmong(f, list, m)}
           Next1(s, k) == IF Is(ir, list[k], {"store"}) THEN Append(s, list[k]) ELSE s
<1>1. 0 \in G
  <2> DEFINE f == [k \in 0..0 |-> <<>>]
  <2>1. \A k \in 0..0 : k = 0
    OBVIOUS
  <2>2. f = [k \in 0..0 |-> IF k = 0 THEN <<>> ELSE IF Is(ir, list[k], {"store"}) THEN Append(f[k-1], list[k]) ELSE f[k-1]]
    BY <2>1
  <2>3. IsAmong(f, list, 0)
    BY <2>2 DEF IsAmong
  <2> QED
    BY <2>3
<1>2. ASSUME NEW m \in 0..(n-1), m \in G PROVE m + 1 \in G
  <2>1. PICK f : IsAmong(f, list, m)
    BY <1>2
  <2> DEFINE g == [k \in 0..(m+1) |-> IF k = m + 1 THEN Next1(f[m], m + 1) ELSE f[k]]
             F(k) == IF k = 0 THEN <<>> ELSE Next1(g[k-1], k)
  <2>2. m \in Nat /\ m + 1 \in 0..n
    OBVIOUS
  <2> HIDE DEF Next1
  <2>3. \A k \in 0..m : f[k] = IF k = 0 THEN <<>> ELSE Next1(f[k-1], k)
    BY <2>1 DEF IsAmong, Next1
  <2>4. \A k \in 0..m : g[k] = f[k]
    BY <2>2
  <2>5. g[m+1] = Next1(f[m], m + 1)
    BY <2>2
  <2>6. ASSUME NEW k \in 0..(m+1) PROVE g[k] = F(k)
    <3>1. CASE k = m + 1
      <4>1. g[k-1] = f[m] /\ k # 0
        BY <2>2, <2>4, <3>1
      <4> HIDE DEF g
      <4> QED
        BY <2>5, <3>1, <4>1
    <3>2. CASE k = 0
      <4>1. g[k] = f[0] /\ f[0] = <<>>
        BY <2>2, <2>3, <2>4, <3>2
      <4> HIDE DEF g
      <4> QED
        BY <3>2, <4>1
    <3>3. CASE k \in 1..m
      <4>1. g[k] = f[k] /\ g[k-1] = f[k-1] /\ k # 0 /\ f[k] = Next1(f[k-1], k)
        BY <2>2, <2>3, <2>4, <3>3
      <4> HIDE DEF g
      <4> QED
        BY <4>1
    <3> QED
      BY <2>2, <3>1, <3>2, <3>3
  <2>7. g = [k \in 0..(m+1) |-> g[k]]
    OBVIOUS
  <2>8. g = [k \in 0..(m+1) |-> F(k)]
    <3> HIDE DEF g, F
    <3> QED
      BY <2>6, <2>7
  <2>9. IsAmong(g, list, m + 1)
    BY <2>8, Zenon DEF IsAmong, Next1
  <2> QED
    BY <2>2, <2>9
<1>3. n \in 0..n
  OBVIOUS
<1>4. 0..n \subseteq G
  <2> HIDE DEF G
  <2> QED
    BY <1>1, <1>2, IntervalInduction
<1> QED
  BY <1>3, <1>4

LEMMA AmongIs ==
  ASSUME NEW alloc, NEW list, list = ir.users[alloc], Len(list) \in Nat
  PROVE  \E f : /\ StoresUsing(alloc) = f[Len(list)]
                /\ f[0] = <<>>
                /\ \A k \in 1..Len(list) : f[k] = IF Is(ir, list[k], {"store"}) THEN Append(f[k-1], list[k]) ELSE f[k-1]
<1> DEFINE f == CHOOSE g : IsAmong(g, ir.users[alloc], Len(ir.users[alloc]))
<1>1. IsAmong(f, list, Len(list))
  BY AmongExists, Zenon
<1>2. StoresUsing(alloc) = f[Len(list)]
  BY Zenon DEF StoresUsing, IsAmong
<1> HIDE DEF f
<1>3. \A k \in 0..Len(list) : f[k] = IF k = 0 THEN <<>> ELSE IF Is(ir, list[k], {"store"}) THEN Append(f[k-1], list[k]) ELSE f[k-1]
  BY <1>1 DEF IsAmong
<1>4. f[0] = <<>>
  BY <1>3
<1>5. \A k \in 1..Len(list) : f[k] = IF Is(ir, list[k], {"store"}) THEN Append(f[k-1], list[k]) ELSE f[k-1]
  BY <1>3
<1> QED
  BY <1>2, <1>4, <1>5

(* A store of a variable's address into that variable.                     *)
SelfStore(p, i) ==
  /\ InBody(p, i, {"store"})
  /\ Args(p, i)[1] = Args(p, i)[2]
  /\ Op(p, Args(p, i)[1]) = "alloc"

(* The stores to a variable, once for each time they use it.               *)
StoresOf(p, r, a) ==
  /\ r \in Seq(DOMAIN p.vals)
  /\ ToSet(r) = {i \in ToSet(p.users[a]) : Op(p, i) = "store"}
  /\ Op(p, a) = "alloc" => IsInjective(r) \/ \E i : SelfStore(p, i)

LEMMA StoresUsingIs ==
  ASSUME NEW sums, Sound(ir, sums), NEW a \in DOMAIN ir.vals
  PROVE  StoresOf(ir, StoresUsing(a), a)
<1>1. PICK list, D : list = ir.users[a] /\ D = DOMAIN ir.vals
  OBVIOUS
<1>2. list \in Seq(D) /\ Len(list) \in Nat /\ DOMAIN list = 1..Len(list) /\ \A k \in 1..Len(list) : list[k] \in D /\ list[k] # Null
  <2>1. list \in Seq(D) /\ Null \notin D
    BY <1>1, ShapedFacts DEF Sound, Typed
  <2> QED
    BY <2>1, LenProperties, ElementOfSeq
<1>3. PICK f : /\ StoresUsing(a) = f[Len(list)]
               /\ f[0] = <<>>
               /\ \A k \in 1..Len(list) : f[k] = IF Is(ir, list[k], {"store"}) THEN Append(f[k-1], list[k]) ELSE f[k-1]
  <2>1. list = ir.users[a] /\ Len(list) \in Nat
    BY <1>1, <1>2
  <2> QED
    BY <2>1, AmongIs
<1>4. \A k \in 1..Len(list) : Is(ir, list[k], {"store"}) <=> Op(ir, list[k]) = "store"
  BY <1>2 DEF Is, Op
<1>5. ASSUME Op(ir, a) = "alloc", NEW j \in DOMAIN list, NEW k \in DOMAIN list, j # k, list[j] = list[k], Op(ir, list[k]) = "store"
      PROVE  SelfStore(ir, list[k])
  <2>1. PICK e : e = list[k]
    OBVIOUS
  <2>2. e \in D /\ Op(ir, e) = "store"
    BY <1>2, <1>5, <2>1
  <2>3. Times(list, e) >= 2 /\ Times(list, e) \in Nat
    BY <1>2, <1>5, <2>1, TimesTwice
  <2>4. Times(list, e) = Times(Args(ir, e), a)
    BY <1>1, <2>2 DEF Sound, Linked
  <2>5. Args(ir, e) \in Seq(D) /\ Len(Args(ir, e)) = 2
    BY <1>1, <2>2, TypedFacts DEF Sound, Arity
  <2>6. Times(Args(ir, e), a) = (IF Args(ir, e)[1] = a THEN 1 ELSE 0) + (IF Args(ir, e)[2] = a THEN 1 ELSE 0)
    BY <2>5, TimesInFew
  <2>7. Args(ir, e)[1] = a /\ Args(ir, e)[2] = a
    BY <2>3, <2>4, <2>6
  <2>8. e \in ToSet(ir.body)
    BY <1>1, <2>2 DEF Sound, Bodied, InstOps
  <2> QED
    BY <1>5, <2>1, <2>2, <2>7, <2>8 DEF SelfStore, InBody
<1> DEFINE Good(m) == /\ f[m] \in Seq(D)
                      /\ ToSet(f[m]) = {list[j] : j \in {l \in 1..m : Op(ir, list[l]) = "store"}}
                      /\ Op(ir, a) = "alloc" => IsInjective(f[m]) \/ \E i : SelfStore(ir, i)
           G == {m \in 0..Len(list) : Good(m)}
<1>6. 0 \in G
  <2>1. <<>> \in Seq(D) /\ ToSet(<<>>) = {} /\ IsInjective(<<>>)
    BY EmptySeq, TimesInNone DEF IsInjective
  <2>2. {list[j] : j \in {l \in 1..0 : Op(ir, list[l]) = "store"}} = {}
    OBVIOUS
  <2>3. f[0] = <<>>
    BY <1>3
  <2>4. f[0] \in Seq(D) /\ ToSet(f[0]) = {} /\ IsInjective(f[0])
    BY <2>1, <2>3
  <2>5. Good(0)
    BY <2>2, <2>4
  <2>6. 0 \in 0..Len(list)
    BY <1>2
  <2> HIDE DEF Good
  <2> QED
    BY <2>5, <2>6
<1>7. ASSUME NEW m \in 0..(Len(list) - 1), m \in G PROVE m + 1 \in G
  <2>1. PICK s, r, e : s = f[m] /\ r = f[m+1] /\ e = list[m+1]
    OBVIOUS
  <2>2. m \in Nat /\ m + 1 \in 1..Len(list) /\ m + 1 \in 0..Len(list) /\ (m + 1) - 1 = m
    BY <1>2
  <2>3. r = IF Op(ir, e) = "store" THEN Append(s, e) ELSE s
    BY <1>3, <1>4, <2>1, <2>2
  <2>4. /\ s \in Seq(D)
        /\ ToSet(s) = {list[j] : j \in {l \in 1..m : Op(ir, list[l]) = "store"}}
        /\ Op(ir, a) = "alloc" => IsInjective(s) \/ \E i : SelfStore(ir, i)
    BY <1>7, <2>1
  <2>5. e \in D
    BY <1>2, <2>1, <2>2
  <2>6. CASE Op(ir, e) = "store"
    <3>1. r \in Seq(D) /\ ToSet(r) = ToSet(s) \cup {e}
      BY <2>3, <2>4, <2>5, <2>6, AppendOne
    <3>2. {list[j] : j \in {l \in 1..(m+1) : Op(ir, list[l]) = "store"}} =
            {list[j] : j \in {l \in 1..m : Op(ir, list[l]) = "store"}} \cup {e}
      BY <2>1, <2>2, <2>6
    <3>3. ASSUME Op(ir, a) = "alloc", ~\E i : SelfStore(ir, i) PROVE IsInjective(r)
      <4>1. e \notin ToSet(s)
        <5>1. SUFFICES ASSUME e \in ToSet(s) PROVE FALSE
          OBVIOUS
        <5>2. PICK j \in 1..m : list[j] = e
          BY <2>4, <5>1
        <5>3. j \in DOMAIN list /\ m + 1 \in DOMAIN list /\ j # m + 1
          BY <1>2, <2>2
        <5>4. SelfStore(ir, list[m+1])
          BY <1>5, <2>1, <2>6, <3>3, <5>2, <5>3
        <5> QED
          BY <3>3, <5>4
      <4> QED
        BY <2>3, <2>4, <2>5, <2>6, <3>3, <4>1, AppendNewInjective
    <3> QED
      BY <2>1, <2>2, <2>4, <3>1, <3>2, <3>3
  <2>7. CASE Op(ir, e) # "store"
    <3>1. {list[j] : j \in {l \in 1..(m+1) : Op(ir, list[l]) = "store"}} =
            {list[j] : j \in {l \in 1..m : Op(ir, list[l]) = "store"}}
      BY <2>1, <2>2, <2>7
    <3> QED
      BY <2>1, <2>2, <2>3, <2>4, <2>7, <3>1
  <2> QED
    BY <2>6, <2>7
<1>8. 0..Len(list) \subseteq G
  <2> HIDE DEF G
  <2> QED
    BY <1>2, <1>6, <1>7, IntervalInduction
<1>9. Good(Len(list))
  <2>1. Len(list) \in 0..Len(list)
    BY <1>2
  <2> QED
    BY <1>8, <2>1
<1>10. {list[j] : j \in {l \in 1..Len(list) : Op(ir, list[l]) = "store"}} = {i \in ToSet(list) : Op(ir, i) = "store"}
  BY <1>2 DEF ToSet
<1> QED
  BY <1>1, <1>3, <1>9, <1>10 DEF StoresOf

-----------------------------------------------------------------------------
(* The stores of all variables, one variable after the other.              *)

(* The concatenation of sequences, one by one.                             *)
IsFlattening(f, seqs, n) == f = [k \in 1..n |-> IF k = 1 THEN seqs[k] ELSE f[k-1] \o seqs[k]]

LEMMA FlatteningExists ==
  ASSUME NEW seqs, NEW n \in Nat
  PROVE  \E f : IsFlattening(f, seqs, n)
<1> DEFINE G == {m \in 0..n : \E f : IsFlattening(f, seqs, m)}
<1>1. 0 \in G
  <2> DEFINE f == [k \in 1..0 |-> <<>>]
  <2>1. f = [k \in 1..0 |-> IF k = 1 THEN seqs[k] ELSE f[k-1] \o seqs[k]]
    OBVIOUS
  <2>2. IsFlattening(f, seqs, 0)
    BY <2>1 DEF IsFlattening
  <2> QED
    BY <2>2
<1>2. ASSUME NEW m \in 0..(n-1), m \in G PROVE m + 1 \in G
  <2>1. PICK f : IsFlattening(f, seqs, m)
    BY <1>2
  <2> DEFINE g == [k \in 1..(m+1) |-> IF k = m + 1 THEN (IF k = 1 THEN seqs[k] ELSE f[m] \o seqs[k]) ELSE f[k]]
             F(k) == IF k = 1 THEN seqs[k] ELSE g[k-1] \o seqs[k]
  <2>2. m \in Nat /\ m + 1 \in 0..n
    OBVIOUS
  <2>3. \A k \in 1..m : f[k] = IF k = 1 THEN seqs[k] ELSE f[k-1] \o seqs[k]
    BY <2>1 DEF IsFlattening
  <2>4. \A k \in 1..m : g[k] = f[k]
    BY <2>2
  <2>5. g[m+1] = IF m + 1 = 1 THEN seqs[m+1] ELSE f[m] \o seqs[m+1]
    BY <2>2
  <2>6. ASSUME NEW k \in 1..(m+1) PROVE g[k] = F(k)
    <3>1. CASE k = m + 1 /\ k # 1
      <4>1. k - 1 \in 1..m /\ k - 1 = m /\ m + 1 # 1
        BY <2>2, <3>1
      <4>2. g[k-1] = f[m]
        BY <2>4, <4>1
      <4>3. g[k] = f[m] \o seqs[k]
        BY <2>5, <3>1, <4>1
      <4> HIDE DEF g
      <4> QED
        BY <3>1, <4>2, <4>3
    <3>2. CASE k = 1
      <4>1. g[k] = seqs[k]
        BY <2>2, <2>3, <2>4, <2>5, <3>2
      <4> HIDE DEF g
      <4> QED
        BY <3>2, <4>1
    <3>3. CASE k \in 2..m
      <4>1. k \in 1..m /\ k - 1 \in 1..m /\ k # 1
        BY <2>2, <3>3
      <4>2. g[k] = f[k] /\ g[k-1] = f[k-1]
        BY <2>4, <4>1
      <4>3. f[k] = f[k-1] \o seqs[k]
        BY <2>3, <4>1
      <4> HIDE DEF g
      <4> QED
        BY <4>1, <4>2, <4>3
    <3> QED
      BY <2>2, <3>1, <3>2, <3>3
  <2>7. g = [k \in 1..(m+1) |-> g[k]]
    OBVIOUS
  <2>8. g = [k \in 1..(m+1) |-> F(k)]
    <3> HIDE DEF g, F
    <3> QED
      BY <2>6, <2>7
  <2>9. IsFlattening(g, seqs, m + 1)
    BY <2>8, Zenon DEF IsFlattening
  <2> QED
    BY <2>2, <2>9
<1>3. n \in 0..n
  OBVIOUS
<1>4. 0..n \subseteq G
  <2> HIDE DEF G
  <2> QED
    BY <1>1, <1>2, IntervalInduction
<1> QED
  BY <1>3, <1>4

LEMMA FlattenSeqIs ==
  ASSUME NEW seqs, Len(seqs) \in Nat, Len(seqs) # 0
  PROVE  \E f : /\ FlattenSeq(seqs) = f[Len(seqs)]
                /\ f[1] = seqs[1]
                /\ \A k \in 2..Len(seqs) : f[k] = f[k-1] \o seqs[k]
<1> DEFINE f == CHOOSE g : IsFlattening(g, seqs, Len(seqs))
<1>1. IsFlattening(f, seqs, Len(seqs))
  BY FlatteningExists, Zenon
<1>2. FlattenSeq(seqs) = f[Len(seqs)]
  BY Zenon DEF FlattenSeq, IsFlattening
<1> HIDE DEF f
<1>3. \A k \in 1..Len(seqs) : f[k] = IF k = 1 THEN seqs[k] ELSE f[k-1] \o seqs[k]
  BY <1>1 DEF IsFlattening
<1>4. f[1] = seqs[1]
  <2>1. 1 \in 1..Len(seqs)
    OBVIOUS
  <2> QED
    BY <1>3, <2>1
<1>5. ASSUME NEW k \in 2..Len(seqs) PROVE f[k] = f[k-1] \o seqs[k]
  <2>1. k \in 1..Len(seqs) /\ k # 1
    OBVIOUS
  <2> QED
    BY <1>3, <2>1
<1> QED
  BY <1>2, <1>4, <1>5

(* Sequences without repetitions that have nothing in common have none     *)
(* together.                                                               *)
LEMMA InjectiveBoth ==
  ASSUME NEW S, NEW s \in Seq(S), NEW t \in Seq(S), IsInjective(s), IsInjective(t), ToSet(s) \cap ToSet(t) = {}
  PROVE  IsInjective(s \o t)
<1>1. PICK m, n : m = Len(s) /\ n = Len(t)
  OBVIOUS
<1>2. m \in Nat /\ n \in Nat /\ DOMAIN s = 1..m /\ DOMAIN t = 1..n
  BY <1>1, LenProperties
<1>3. PICK r : r = s \o t
  OBVIOUS
<1>4. /\ DOMAIN r = 1..(m + n)
      /\ \A k \in 1..(m + n) : r[k] = IF k <= m THEN s[k] ELSE t[k - m]
  BY <1>1, <1>3, ConcatProperties, LenProperties
<1>5. ASSUME NEW j \in DOMAIN r, NEW k \in DOMAIN r, r[j] = r[k] PROVE j = k
  <2>1. j \in 1..(m+n) /\ k \in 1..(m+n)
    BY <1>4
  <2>2. CASE j <= m /\ k <= m
    <3>1. j \in 1..m /\ k \in 1..m /\ s[j] = s[k]
      BY <1>2, <1>4, <1>5, <2>1, <2>2
    <3> QED
      BY <1>2, <3>1 DEF IsInjective
  <2>3. CASE j > m /\ k > m
    <3>1. j - m \in 1..n /\ k - m \in 1..n /\ t[j - m] = t[k - m]
      BY <1>2, <1>4, <1>5, <2>1, <2>3
    <3>2. j - m = k - m
      BY <1>2, <3>1 DEF IsInjective
    <3> QED
      BY <1>2, <2>1, <3>2
  <2>4. CASE j <= m /\ k > m
    <3>1. j \in 1..m /\ k - m \in 1..n /\ s[j] = t[k - m]
      BY <1>2, <1>4, <1>5, <2>1, <2>4
    <3> QED
      BY <1>2, <3>1 DEF ToSet
  <2>5. CASE j > m /\ k <= m
    <3>1. k \in 1..m /\ j - m \in 1..n /\ s[k] = t[j - m]
      BY <1>2, <1>4, <1>5, <2>1, <2>5
    <3> QED
      BY <1>2, <3>1 DEF ToSet
  <2> QED
    BY <1>2, <2>1, <2>2, <2>3, <2>4, <2>5
<1> QED
  BY <1>3, <1>5 DEF IsInjective

(* Sequences that are apart.                                               *)
AreParts(seqs, S) ==
  /\ Len(seqs) \in Nat /\ DOMAIN seqs = 1..Len(seqs)
  /\ \A k \in DOMAIN seqs : seqs[k] \in Seq(S)

AreApart(seqs) ==
  /\ \A k \in DOMAIN seqs : IsInjective(seqs[k])
  /\ \A j, k \in DOMAIN seqs : j # k => ToSet(seqs[j]) \cap ToSet(seqs[k]) = {}

FlattenedFrom(r, seqs, S) ==
  /\ r \in Seq(S)
  /\ \A e \in ToSet(r) : \E k \in DOMAIN seqs : e \in ToSet(seqs[k])
  /\ AreApart(seqs) => IsInjective(r)

LEMMA FlattenedIs ==
  ASSUME NEW S, NEW seqs, AreParts(seqs, S), seqs = [k \in DOMAIN seqs |-> seqs[k]]
  PROVE  FlattenedFrom(FlattenSeq(seqs), seqs, S)
<1>1. PICK n : n = Len(seqs)
  OBVIOUS
<1>2. n \in Nat /\ DOMAIN seqs = 1..n /\ \A k \in 1..n : seqs[k] \in Seq(S)
  BY <1>1 DEF AreParts
<1>3. CASE n = 0
  <2>1. FlattenSeq(seqs) = seqs
    BY <1>1, <1>3 DEF FlattenSeq
  <2>2. seqs \in Seq(S)
    <3>1. \A k \in 1..n : seqs[k] \in S
      BY <1>3
    <3> QED
      BY <1>2, <3>1, IsASeq
  <2>3. IsInjective(seqs) /\ ToSet(seqs) = {}
    BY <1>2, <1>3 DEF IsInjective, ToSet
  <2> QED
    BY <2>1, <2>2, <2>3 DEF FlattenedFrom
<1>4. CASE n # 0
  <2>1. PICK f : /\ FlattenSeq(seqs) = f[n]
                 /\ f[1] = seqs[1]
                 /\ \A k \in 2..n : f[k] = f[k-1] \o seqs[k]
    <3>1. Len(seqs) \in Nat /\ Len(seqs) # 0
      BY <1>1, <1>2, <1>4
    <3>2. \E f : /\ FlattenSeq(seqs) = f[Len(seqs)]
                 /\ f[1] = seqs[1]
                 /\ \A k \in 2..Len(seqs) : f[k] = f[k-1] \o seqs[k]
      BY <3>1, FlattenSeqIs
    <3> QED
      BY <1>1, <3>2, Zenon
  <2> DEFINE Good(m) == /\ f[m] \in Seq(S)
                        /\ \A e \in ToSet(f[m]) : \E k \in 1..m : e \in ToSet(seqs[k])
                        /\ AreApart(seqs) => IsInjective(f[m])
             G == {m \in 0..(n-1) : Good(m+1)}
  <2>2. 0 \in G
    <3>1. Good(1)
      <4>1. 1 \in 1..n /\ 1 \in 1..1
        BY <1>2, <1>4
      <4>2. PICK s : s = f[1]
        OBVIOUS
      <4>3. s = seqs[1] /\ s \in Seq(S)
        BY <1>2, <2>1, <4>1, <4>2
      <4>4. \A e \in ToSet(s) : \E k \in 1..1 : e \in ToSet(seqs[k])
        BY <4>1, <4>3
      <4>5. AreApart(seqs) => IsInjective(s)
        BY <1>2, <4>1, <4>3 DEF AreApart
      <4> QED
        BY <4>2, <4>3, <4>4, <4>5
    <3>2. 0 \in 0..(n-1) /\ 0 + 1 = 1
      BY <1>2, <1>4
    <3> HIDE DEF Good
    <3> QED
      BY <3>1, <3>2
  <2>3. ASSUME NEW m \in 0..((n-1)-1), m \in G PROVE m + 1 \in G
    <3>1. PICK s, r, t : s = f[m+1] /\ r = f[m+2] /\ t = seqs[m+2]
      OBVIOUS
    <3>2. m + 2 \in 2..n /\ m + 2 \in 1..n /\ (m + 2) - 1 = m + 1 /\ m \in Nat /\ (m+1)+1 = m + 2 /\ m + 1 \in 0..(n-1)
      BY <1>2
    <3>3. r = s \o t /\ t \in Seq(S)
      BY <1>2, <2>1, <3>1, <3>2
    <3>4. /\ s \in Seq(S)
          /\ \A e \in ToSet(s) : \E k \in 1..(m+1) : e \in ToSet(seqs[k])
          /\ AreApart(seqs) => IsInjective(s)
      BY <2>3, <3>1
    <3>5. r \in Seq(S) /\ ToSet(r) = ToSet(s) \cup ToSet(t)
      BY <3>3, <3>4, ConcatenateTwo
    <3>6. ASSUME NEW e \in ToSet(r) PROVE \E k \in 1..(m+2) : e \in ToSet(seqs[k])
      <4>1. CASE e \in ToSet(s)
        <5>1. PICK k \in 1..(m+1) : e \in ToSet(seqs[k])
          BY <3>4, <4>1
        <5>2. k \in 1..(m+2)
          BY <3>2
        <5> QED
          BY <5>1, <5>2
      <4>2. CASE e \in ToSet(t)
        <5>1. m + 2 \in 1..(m+2)
          BY <3>2
        <5> QED
          BY <3>1, <4>2, <5>1
      <4> QED
        BY <3>5, <4>1, <4>2
    <3>7. ASSUME AreApart(seqs) PROVE IsInjective(r)
      <4>1. IsInjective(s) /\ IsInjective(t)
        BY <1>2, <3>1, <3>2, <3>4, <3>7 DEF AreApart
      <4>2. ASSUME NEW e \in ToSet(s), e \in ToSet(t) PROVE FALSE
        <5>1. PICK k \in 1..(m+1) : e \in ToSet(seqs[k])
          BY <3>4
        <5>2. k \in DOMAIN seqs /\ m + 2 \in DOMAIN seqs /\ k # m + 2
          BY <1>2, <3>2
        <5>3. ToSet(seqs[k]) \cap ToSet(seqs[m+2]) = {}
          BY <3>7, <5>2 DEF AreApart
        <5> QED
          BY <3>1, <4>2, <5>1, <5>3
      <4>3. ToSet(s) \cap ToSet(t) = {}
        BY <4>2
      <4> QED
        BY <3>3, <3>4, <4>1, <4>3, InjectiveBoth
    <3>8. Good(m + 2)
      BY <3>1, <3>5, <3>6, <3>7
    <3> HIDE DEF Good
    <3> QED
      BY <3>2, <3>8
  <2>4. 0..(n-1) \subseteq G
    <3>1. n - 1 \in Nat
      BY <1>2, <1>4
    <3> HIDE DEF G
    <3> QED
      BY <2>2, <2>3, <3>1, IntervalInduction
  <2>5. Good(n)
    <3>1. n - 1 \in 0..(n-1) /\ (n-1)+1 = n
      BY <1>2, <1>4
    <3> HIDE DEF Good
    <3> QED
      BY <2>4, <3>1
  <2> QED
    BY <1>2, <2>1, <2>5 DEF FlattenedFrom
<1> QED
  BY <1>3, <1>4

-----------------------------------------------------------------------------
(* The walk that replaces the loads: a load is replaced by a value that is *)
(* known before it.                                                        *)

(* A value a load may be replaced by, known before position k of the body. *)
Definition(p, d, k, sums) ==
  /\ d \in DOMAIN p.vals
  /\ Op(p, d) \notin Mute
  /\ \A b \in DOMAIN p.vals : ~Owns(p, b, d, sums)
  /\ d \in ToSet(p.body) => \E j \in DOMAIN p.body : j <= k /\ p.body[j] = d

(* What promoting loads leaves alone.                                      *)
Promotes(q, p, sums) ==
  /\ Sound(q, sums)
  /\ DOMAIN q.vals = DOMAIN p.vals
  /\ q.body = p.body
  /\ \A v \in DOMAIN p.vals : Op(q, v) = Op(p, v)
  /\ \A v \in DOMAIN p.vals : \A k \in DOMAIN Args(p, v) :
       Op(p, Args(p, v)[k]) # "load" => Args(q, v)[k] = Args(p, v)[k]

(* What the walk has made of the program before position k.                *)
Follows(w, k, sums) ==
  /\ w = [ir |-> w.ir, defs |-> w.defs, changed |-> w.changed]
  /\ Promotes(w.ir, ir, sums)
  /\ \A a \in DOMAIN w.defs : Definition(w.ir, w.defs[a], k, sums)

(* A load may be replaced by such a value, and what is such a value stays  *)
(* one.                                                                    *)
LEMMA DefinitionReplaces ==
  ASSUME NEW sums, NEW p, Sound(p, sums), NEW k \in DOMAIN p.body, Op(p, p.body[k]) = "load", NEW d, Definition(p, d, k - 1, sums)
  PROVE  CanReplace(p, p.body[k], d, sums)
<1>1. PICK i : i = p.body[k]
  OBVIOUS
<1>2. /\ k \in 1..Len(p.body) /\ Len(p.body) \in Nat /\ DOMAIN p.body = 1..Len(p.body)
      /\ i \in DOMAIN p.vals /\ p.body \in Seq(DOMAIN p.vals) /\ IsInjective(p.body) /\ i \in ToSet(p.body)
  <2>1. Len(p.body) \in Nat /\ DOMAIN p.body = 1..Len(p.body)
    BY TypedFacts DEF Sound
  <2>2. p.body \in Seq(DOMAIN p.vals) /\ i \in DOMAIN p.vals
    BY <1>1, TypedFacts DEF Sound, Typed
  <2>3. IsInjective(p.body)
    BY DEF Sound, Bodied
  <2>4. i \in ToSet(p.body)
    BY <1>1 DEF ToSet
  <2> QED
    BY <2>1, <2>2, <2>3, <2>4
<1>3. ASSUME d \in ToSet(p.body) PROVE Before(p.body, d, i)
  <2>1. PICK j \in DOMAIN p.body : j <= k - 1 /\ p.body[j] = d
    BY <1>3 DEF Definition
  <2>2. j < k
    BY <1>2, <2>1
  <2> QED
    BY <1>1, <2>1, <2>2 DEF Before
<1>4. i # d
  <2>1. SUFFICES ASSUME i = d PROVE FALSE
    OBVIOUS
  <2>2. Before(p.body, i, i)
    BY <1>2, <1>3, <2>1
  <2> QED
    BY <1>2, <2>2, BeforeIsAnOrder
<1>5. ASSUME NEW u \in DOMAIN p.vals, i \in ToSet(Args(p, u)), d \in ToSet(p.body) PROVE Before(p.body, d, u)
  <2>1. Before(p.body, i, u)
    BY <1>2, <1>5 DEF Sound, Ordered
  <2> QED
    BY <1>2, <1>3, <1>5, <2>1, BeforeIsAnOrder
<1> QED
  BY <1>1, <1>2, <1>4, <1>5 DEF CanReplace, Definition

LEMMA ReplacementPromotes ==
  ASSUME NEW sums, NEW p, Sound(p, sums), NEW i, NEW d, CanReplace(p, i, d, sums), Op(p, i) = "load", NEW q, FromReplacement(q, p, i, d, sums)
  PROVE  Promotes(q, p, sums) /\ \A e, k : Definition(p, e, k, sums) => Definition(q, e, k, sums)
<1>1. Typed(p) /\ i \in DOMAIN p.vals /\ d \in DOMAIN p.vals /\ i # d
  BY DEF Sound, CanReplace
<1>2. Sound(q, sums) /\ Replaces(q, p, i, d)
  BY DEF FromReplacement
<1>3. /\ \A v \in DOMAIN p.vals : Op(q, v) = Op(p, v)
      /\ \A v \in DOMAIN p.vals : DOMAIN Args(q, v) = DOMAIN Args(p, v)
      /\ \A v \in DOMAIN p.vals : \A k \in DOMAIN Args(p, v) : Args(q, v)[k] = IF Args(p, v)[k] = i THEN d ELSE Args(p, v)[k]
  BY <1>1, <1>2, ReplacedFacts
<1>4. DOMAIN q.vals = DOMAIN p.vals /\ q.body = p.body
  BY <1>2 DEF Replaces
<1>5. Promotes(q, p, sums)
  BY <1>2, <1>3, <1>4 DEF Promotes
<1>6. ASSUME NEW b \in DOMAIN p.vals, NEW e \in DOMAIN p.vals, Owns(q, b, e, sums) PROVE Owns(p, b, e, sums)
  <2>1. Op(p, b) \in Binaries /\ b \notin sums /\ Args(q, b)[2] = e
    BY <1>3, <1>6 DEF Owns
  <2>2. PICK c : c = Args(p, b)[2]
    OBVIOUS
  <2>3. 2 \in DOMAIN Args(p, b) /\ c \in DOMAIN p.vals
    <3>1. Arity(Op(p, b)) = 2
      BY <2>1 DEF Arity
    <3>2. 2 \in 1..2
      OBVIOUS
    <3> QED
      BY <1>1, <2>2, <3>1, <3>2, TypedFacts
  <2>4. Op(p, c) = "const"
    BY <2>1, <2>2, <2>3 DEF Owns, Sound, OwnConstants
  <2>5. c # i
    BY <2>4
  <2>6. e = c
    BY <1>3, <2>1, <2>2, <2>3, <2>5
  <2> QED
    BY <2>1, <2>2, <2>6 DEF Owns
<1>7. ASSUME NEW e, NEW k, Definition(p, e, k, sums) PROVE Definition(q, e, k, sums)
  <2>1. e \in DOMAIN p.vals /\ Op(p, e) \notin Mute /\ \A b \in DOMAIN p.vals : ~Owns(p, b, e, sums)
    BY <1>7 DEF Definition
  <2>2. \A b \in DOMAIN p.vals : ~Owns(q, b, e, sums)
    BY <1>6, <2>1
  <2>3. Op(q, e) \notin Mute
    BY <1>3, <2>1
  <2> QED
    BY <1>4, <1>7, <2>1, <2>2, <2>3 DEF Definition
<1> QED
  BY <1>5, <1>7

LEMMA PromotesOn ==
  ASSUME NEW sums, NEW p, Typed(p), NEW q, NEW r, Promotes(q, p, sums), Promotes(r, q, sums)
  PROVE  Promotes(r, p, sums)
<1>1. /\ Sound(r, sums)
      /\ DOMAIN q.vals = DOMAIN p.vals /\ DOMAIN r.vals = DOMAIN p.vals
      /\ r.body = p.body
      /\ \A v \in DOMAIN p.vals : Op(r, v) = Op(p, v) /\ Op(q, v) = Op(p, v)
  BY DEF Promotes
<1>2. ASSUME NEW v \in DOMAIN p.vals, NEW k \in DOMAIN Args(p, v), Op(p, Args(p, v)[k]) # "load" PROVE Args(r, v)[k] = Args(p, v)[k]
  <2>1. Args(q, v)[k] = Args(p, v)[k]
    BY <1>2 DEF Promotes
  <2>2. DOMAIN Args(p, v) = 1..Arity(Op(p, v)) /\ DOMAIN Args(q, v) = 1..Arity(Op(q, v))
    BY <1>1, TypedFacts DEF Promotes, Sound
  <2>3. k \in DOMAIN Args(q, v) /\ Args(p, v)[k] \in DOMAIN p.vals
    BY <1>1, <2>2, TypedFacts
  <2>4. Op(q, Args(q, v)[k]) # "load"
    BY <1>1, <1>2, <2>1, <2>3
  <2> QED
    BY <1>1, <2>1, <2>3, <2>4 DEF Promotes
<1> QED
  BY <1>1, <1>2 DEF Promotes

LEMMA DefinitionLater ==
  ASSUME NEW sums, NEW p, NEW d, NEW k \in Int, Definition(p, d, k - 1, sums), DOMAIN p.body \subseteq Int
  PROVE  Definition(p, d, k, sums)
<1>1. \A j \in DOMAIN p.body : j <= k - 1 => j <= k
  OBVIOUS
<1> QED
  BY <1>1 DEF Definition

(* A store makes what it stores the value to replace by.                   *)
LEMMA StoreDefines ==
  ASSUME NEW sums, NEW p, Sound(p, sums), NEW k \in DOMAIN p.body, Op(p, p.body[k]) = "store"
  PROVE  Definition(p, Args(p, p.body[k])[2], k, sums)
<1>1. PICK i, d : i = p.body[k] /\ d = Args(p, i)[2]
  OBVIOUS
<1>2. /\ i \in DOMAIN p.vals /\ i \in ToSet(p.body) /\ d \in DOMAIN p.vals /\ d \in ToSet(Args(p, i)) /\ Op(p, i) = "store"
      /\ DOMAIN p.body = 1..Len(p.body) /\ Len(p.body) \in Nat
  <2>1. i \in DOMAIN p.vals /\ i \in ToSet(p.body) /\ DOMAIN p.body = 1..Len(p.body) /\ Len(p.body) \in Nat
    BY <1>1, TypedFacts DEF Sound, ToSet
  <2>2. Arity(Op(p, i)) = 2 /\ 2 \in 1..2
    BY <1>1 DEF Arity
  <2>3. d \in DOMAIN p.vals /\ d \in ToSet(Args(p, i))
    BY <1>1, <2>1, <2>2, TypedFacts DEF Sound
  <2> QED
    BY <1>1, <2>1, <2>3
<1>3. Op(p, d) \notin Mute
  BY <1>2, OperandsSpeak
<1>4. ASSUME NEW b \in DOMAIN p.vals, Owns(p, b, d, sums) PROVE FALSE
  <2>1. i = b
    BY <1>2, <1>4 DEF Sound, OwnConstants
  <2> QED
    BY <1>2, <1>4, <2>1 DEF Owns, Binaries
<1>5. ASSUME d \in ToSet(p.body) PROVE \E j \in DOMAIN p.body : j <= k /\ p.body[j] = d
  <2>1. Before(p.body, d, i)
    BY <1>2, <1>5 DEF Sound, Ordered
  <2>2. PICK j, m \in DOMAIN p.body : j < m /\ p.body[j] = d /\ p.body[m] = i
    BY <2>1 DEF Before
  <2>3. m = k
    BY <1>1, <2>2 DEF Sound, Bodied, IsInjective
  <2>4. j <= k
    BY <1>2, <2>2, <2>3
  <2> QED
    BY <2>2, <2>4
<1> QED
  BY <1>1, <1>2, <1>3, <1>4, <1>5 DEF Definition

LEMMA VisitedFollows ==
  ASSUME NEW sums, Sound(ir, sums), NEW k \in DOMAIN ir.body, NEW w, Follows(w, k - 1, sums)
  PROVE  Follows(Visited(w, ir.body[k]), k, sums)
<1>1. PICK i, p, defs, c : i = ir.body[k] /\ w = [ir |-> p, defs |-> defs, changed |-> c]
  BY DEF Follows
<1>2. w.ir = p /\ w.defs = defs /\ w.changed = c
  BY <1>1
<1>3. Promotes(p, ir, sums) /\ \A a \in DOMAIN defs : Definition(p, defs[a], k - 1, sums)
  BY <1>2 DEF Follows
<1>4. /\ Sound(p, sums) /\ p.body = ir.body /\ i = p.body[k] /\ k \in DOMAIN p.body
      /\ k \in Int /\ DOMAIN p.body \subseteq Int
      /\ i \in DOMAIN ir.vals /\ Op(p, i) = Op(ir, i) /\ i # Null
  <2>1. Sound(p, sums) /\ p.body = ir.body
    BY <1>3 DEF Promotes
  <2>2. DOMAIN ir.body = 1..Len(ir.body) /\ Len(ir.body) \in Nat /\ i \in DOMAIN ir.vals
    BY <1>1, TypedFacts DEF Sound
  <2>3. Null \notin DOMAIN ir.vals
    BY ShapedFacts DEF Sound, Typed
  <2> QED
    BY <1>1, <1>3, <2>1, <2>2, <2>3 DEF Promotes
<1>5. \A a \in DOMAIN defs : Definition(p, defs[a], k, sums)
  BY <1>3, <1>4, DefinitionLater
<1>6. \A op : Is(ir, i, {op}) <=> Op(ir, i) = op
  BY <1>4 DEF Is, Op
<1>7. PICK owner : owner = Owner(i)
  OBVIOUS
<1>8. CASE Is(ir, i, {"load"}) /\ owner \in DOMAIN defs
  <2>1. PICK d, q : d = defs[owner] /\ q = ReplacedAll(p, i, d)
    OBVIOUS
  <2>2. Visited(w, i) = [ir |-> q, defs |-> defs, changed |-> TRUE]
    BY <1>1, <1>7, <1>8, <2>1 DEF Visited
  <2>3. Op(p, i) = "load" /\ Definition(p, d, k - 1, sums)
    BY <1>3, <1>4, <1>6, <1>8, <2>1
  <2>4. CanReplace(p, i, d, sums)
    BY <1>4, <2>3, DefinitionReplaces
  <2>5. FromReplacement(q, p, i, d, sums)
    BY <1>4, <2>1, <2>4, ReplacedAllIs
  <2>6. Promotes(q, p, sums) /\ \A e, m : Definition(p, e, m, sums) => Definition(q, e, m, sums)
    BY <1>4, <2>3, <2>4, <2>5, ReplacementPromotes
  <2>7. Promotes(q, ir, sums)
    BY <1>3, <2>6, PromotesOn DEF Sound
  <2> QED
    BY <1>1, <1>5, <2>2, <2>6, <2>7 DEF Follows
<1>9. CASE ~(Is(ir, i, {"load"}) /\ owner \in DOMAIN defs) /\ Is(ir, i, {"store"}) /\ owner # Null
  <2>1. PICK d : d = Args(p, i)[2]
    OBVIOUS
  <2>2. Visited(w, i) = [ir |-> p, defs |-> Defined(defs, owner, d), changed |-> c]
    BY <1>1, <1>7, <1>9, <2>1 DEF Visited, Args
  <2>3. Definition(p, d, k, sums)
    BY <1>4, <1>6, <1>9, <2>1, StoreDefines
  <2>4. \A a \in DOMAIN Defined(defs, owner, d) : Definition(p, Defined(defs, owner, d)[a], k, sums)
    BY <1>5, <2>3 DEF Defined
  <2> QED
    BY <1>1, <1>3, <2>2, <2>4 DEF Follows
<1>10. CASE ~(Is(ir, i, {"load"}) /\ owner \in DOMAIN defs) /\ ~(Is(ir, i, {"store"}) /\ owner # Null)
  <2>1. Visited(w, i) = w
    BY <1>1, <1>7, <1>10 DEF Visited
  <2> QED
    BY <1>1, <1>2, <1>3, <1>5, <2>1 DEF Follows
<1> QED
  BY <1>8, <1>9, <1>10

-----------------------------------------------------------------------------
(* The two steps of a round.                                               *)

(* The walk, step by step.                                                 *)
AtFirst == [ir |-> ir, defs |-> << >>, changed |-> FALSE]

IsWalk(f, n) == f = [k \in 0..n |-> IF k = 0 THEN AtFirst ELSE Visited(f[k-1], ir.body[k])]

LEMMA WalkExists ==
  ASSUME NEW n \in Nat
  PROVE  \E f : IsWalk(f, n)
<1> DEFINE G == {m \in 0..n : \E f : IsWalk(f, m)}
<1>1. 0 \in G
  <2> DEFINE f == [k \in 0..0 |-> AtFirst]
  <2>1. \A k \in 0..0 : k = 0
    OBVIOUS
  <2> HIDE DEF AtFirst
  <2>2. f = [k \in 0..0 |-> IF k = 0 THEN AtFirst ELSE Visited(f[k-1], ir.body[k])]
    BY <2>1
  <2>3. IsWalk(f, 0)
    BY <2>2 DEF IsWalk
  <2> QED
    BY <2>3
<1>2. ASSUME NEW m \in 0..(n-1), m \in G PROVE m + 1 \in G
  <2>1. PICK f : IsWalk(f, m)
    BY <1>2
  <2> DEFINE g == [k \in 0..(m+1) |-> IF k = m + 1 THEN Visited(f[m], ir.body[m+1]) ELSE f[k]]
             F(k) == IF k = 0 THEN AtFirst ELSE Visited(g[k-1], ir.body[k])
  <2>2. m \in Nat /\ m + 1 \in 0..n
    OBVIOUS
  <2>3. \A k \in 0..m : f[k] = IF k = 0 THEN AtFirst ELSE Visited(f[k-1], ir.body[k])
    BY <2>1 DEF IsWalk
  <2>4. \A k \in 0..m : g[k] = f[k]
    BY <2>2
  <2>5. g[m+1] = Visited(f[m], ir.body[m+1])
    BY <2>2
  <2>6. ASSUME NEW k \in 0..(m+1) PROVE g[k] = F(k)
    <3>1. CASE k = m + 1
      <4>1. g[k-1] = f[m] /\ k # 0
        BY <2>2, <2>4, <3>1
      <4> HIDE DEF g
      <4> QED
        BY <2>5, <3>1, <4>1
    <3>2. CASE k = 0
      <4>1. g[k] = f[0] /\ f[0] = AtFirst
        BY <2>2, <2>3, <2>4, <3>2
      <4> HIDE DEF g
      <4> QED
        BY <3>2, <4>1
    <3>3. CASE k \in 1..m
      <4>1. k \in 0..m /\ k - 1 \in 0..m /\ k # 0
        BY <2>2, <3>3
      <4>2. g[k] = f[k] /\ g[k-1] = f[k-1]
        BY <2>4, <4>1
      <4>3. f[k] = Visited(f[k-1], ir.body[k])
        BY <2>3, <4>1
      <4> HIDE DEF g
      <4> QED
        BY <4>1, <4>2, <4>3
    <3> QED
      BY <2>2, <3>1, <3>2, <3>3
  <2>7. g = [k \in 0..(m+1) |-> g[k]]
    OBVIOUS
  <2>8. g = [k \in 0..(m+1) |-> F(k)]
    <3> HIDE DEF g, F
    <3> QED
      BY <2>6, <2>7
  <2>9. IsWalk(g, m + 1)
    BY <2>8, Zenon DEF IsWalk
  <2> QED
    BY <2>2, <2>9
<1>3. n \in 0..n
  OBVIOUS
<1>4. 0..n \subseteq G
  <2> HIDE DEF G
  <2> QED
    BY <1>1, <1>2, IntervalInduction
<1> QED
  BY <1>3, <1>4

LEMMA WalkedIs ==
  ASSUME Len(ir.body) \in Nat
  PROVE  \E f : /\ Walked = f[Len(ir.body)]
                /\ f[0] = AtFirst
                /\ \A k \in 1..Len(ir.body) : f[k] = Visited(f[k-1], ir.body[k])
<1> DEFINE f == CHOOSE g : IsWalk(g, Len(ir.body))
<1>1. IsWalk(f, Len(ir.body))
  BY WalkExists, Zenon
<1>2. Walked = f[Len(ir.body)]
  BY Zenon DEF Walked, IsWalk, AtFirst
<1> HIDE DEF f
<1>3. \A k \in 0..Len(ir.body) : f[k] = IF k = 0 THEN AtFirst ELSE Visited(f[k-1], ir.body[k])
  BY <1>1 DEF IsWalk
<1>4. f[0] = AtFirst
  BY <1>3
<1>5. \A k \in 1..Len(ir.body) : f[k] = Visited(f[k-1], ir.body[k])
  BY <1>3
<1> QED
  BY <1>2, <1>4, <1>5

LEMMA WalkedPromotes ==
  ASSUME NEW sums, Sound(ir, sums)
  PROVE  Promotes(Walked.ir, ir, sums)
<1>1. PICK n : n = Len(ir.body)
  OBVIOUS
<1>2. n \in Nat /\ DOMAIN ir.body = 1..n
  BY <1>1, TypedFacts DEF Sound
<1>3. PICK f : /\ Walked = f[n]
               /\ f[0] = AtFirst
               /\ \A k \in 1..n : f[k] = Visited(f[k-1], ir.body[k])
  BY <1>1, <1>2, WalkedIs
<1> DEFINE G == {m \in 0..n : Follows(f[m], m, sums)}
<1>4. 0 \in G
  <2>1. Promotes(ir, ir, sums)
    BY DEF Promotes
  <2>2. DOMAIN << >> = {}
    OBVIOUS
  <2>3. AtFirst.ir = ir /\ AtFirst.defs = << >> /\ AtFirst.changed = FALSE
    BY DEF AtFirst
  <2>4. Follows(AtFirst, 0, sums)
    BY <2>1, <2>2, <2>3 DEF Follows, AtFirst
  <2>5. 0 \in 0..n
    BY <1>2
  <2> QED
    BY <1>3, <2>4, <2>5
<1>5. ASSUME NEW m \in 0..(n-1), m \in G PROVE m + 1 \in G
  <2>1. m + 1 \in 1..n /\ m + 1 \in 0..n /\ (m + 1) - 1 = m
    BY <1>2
  <2>2. Follows(f[m], (m + 1) - 1, sums)
    BY <1>5, <2>1
  <2>3. f[m+1] = Visited(f[m], ir.body[m+1])
    BY <1>3, <2>1
  <2>4. Follows(f[m+1], m + 1, sums)
    BY <1>2, <2>1, <2>2, <2>3, VisitedFollows
  <2> QED
    BY <2>1, <2>4
<1>6. n \in G
  <2>1. 0..n \subseteq G
    <3> HIDE DEF G
    <3> QED
      BY <1>2, <1>4, <1>5, IntervalInduction
  <2> QED
    BY <1>2, <2>1
<1> QED
  BY <1>3, <1>6 DEF Follows

(* The stores to remove: in the block, and each once or there is one that  *)
(* stores its variable's address.                                          *)
Storing(p, list) ==
  /\ list \in Seq(DOMAIN p.vals)
  /\ \A i \in ToSet(list) : InBody(p, i, {"store"})
  /\ IsInjective(list) \/ \E i : SelfStore(p, i)

StoresPerAlloc ==
  [k \in DOMAIN ir.body |-> IF ir.body[k] \in vars_map THEN StoresUsing(ir.body[k]) ELSE <<>>]

LEMMA StoresInBody ==
  ASSUME NEW sums, NEW p, Sound(p, sums), NEW i \in DOMAIN p.vals, Op(p, i) = "store"
  PROVE  InBody(p, i, {"store"})
BY DEF Sound, Bodied, InstOps, InBody

LEMMA StoresCollected ==
  ASSUME NEW sums, Sound(ir, sums), NEW list, list = FlattenSeq(StoresPerAlloc)
  PROVE  Storing(ir, list)
<1>1. PICK n, D, seqs : n = Len(ir.body) /\ D = DOMAIN ir.vals /\ seqs = StoresPerAlloc
  OBVIOUS
<1>2. n \in Nat /\ DOMAIN ir.body = 1..n /\ \A k \in 1..n : ir.body[k] \in D /\ ir.body[k] \in ToSet(ir.body)
  BY <1>1, TypedFacts DEF Sound, ToSet
<1>3. /\ DOMAIN seqs = 1..n
      /\ \A k \in 1..n : seqs[k] = IF ir.body[k] \in vars_map THEN StoresUsing(ir.body[k]) ELSE <<>>
      /\ seqs = [k \in DOMAIN seqs |-> seqs[k]]
  <2> HIDE DEF vars_map, StoresUsing
  <2>1. seqs = [k \in 1..n |-> IF ir.body[k] \in vars_map THEN StoresUsing(ir.body[k]) ELSE <<>>]
    BY <1>1, <1>2 DEF StoresPerAlloc
  <2> QED
    BY <2>1
<1>4. ASSUME NEW k \in 1..n, ir.body[k] \in vars_map
      PROVE  /\ StoresOf(ir, seqs[k], ir.body[k])
             /\ Op(ir, ir.body[k]) = "alloc"
             /\ \A e \in ToSet(seqs[k]) : Args(ir, e)[1] = ir.body[k]
  <2>1. PICK a : a = ir.body[k]
    OBVIOUS
  <2>2. a \in vars_map /\ a \in D /\ seqs[k] = StoresUsing(a)
    BY <1>2, <1>3, <1>4, <2>1
  <2>3. Op(ir, a) = "alloc" /\ is_promotable(a)
    BY <2>2 DEF vars_map, Is, Op
  <2>4. \A e \in ToSet(seqs[k]) : Args(ir, e)[1] = a
    BY <2>2, <2>3 DEF is_promotable, Args
  <2>5. StoresOf(ir, seqs[k], a)
    BY <1>1, <2>2, StoresUsingIs
  <2> QED
    BY <2>1, <2>3, <2>4, <2>5
<1>5. ASSUME NEW k \in 1..n, ir.body[k] \notin vars_map PROVE seqs[k] = <<>>
  BY <1>3, <1>5
<1>6. \A k \in 1..n : seqs[k] \in Seq(D)
  <2>1. <<>> \in Seq(D)
    BY EmptySeq
  <2> QED
    BY <1>1, <1>4, <1>5, <2>1 DEF StoresOf
<1>7. Len(seqs) = n
  <2>1. seqs \in Seq(Seq(D))
    <3>1. \A k \in 1..n : seqs[k] \in Seq(D)
      BY <1>6
    <3>2. PICK S : S = Seq(D)
      OBVIOUS
    <3>3. \A k \in 1..n : seqs[k] \in S
      BY <3>1, <3>2
    <3>4. seqs = [k \in 1..n |-> seqs[k]]
      BY <1>3
    <3>5. seqs \in Seq(S)
      BY <1>2, <3>3, <3>4, IsASeq
    <3> QED
      BY <3>2, <3>5
  <2>2. DOMAIN seqs = 1..Len(seqs) /\ Len(seqs) \in Nat
    BY <2>1, LenProperties
  <2>3. PICK m : m = Len(seqs)
    OBVIOUS
  <2>4. m \in Nat /\ 1..n = 1..m
    BY <1>3, <2>2, <2>3
  <2>5. m \in 1..m => m \in 1..n
    BY <2>4
  <2>6. n \in 1..n => n \in 1..m
    BY <2>4
  <2>7. m = n
    BY <1>2, <2>4, <2>5, <2>6
  <2> QED
    BY <2>3, <2>7
<1>8. FlattenedFrom(list, seqs, D)
  <2>1. AreParts(seqs, D)
    BY <1>2, <1>3, <1>6, <1>7 DEF AreParts
  <2> QED
    BY <1>1, <1>3, <2>1, FlattenedIs
<1>9. ASSUME NEW e \in ToSet(list) PROVE InBody(ir, e, {"store"})
  <2>1. PICK k \in 1..n : e \in ToSet(seqs[k])
    BY <1>3, <1>8 DEF FlattenedFrom
  <2>2. ir.body[k] \in vars_map
    BY <1>5, <2>1, TimesInNone
  <2>3. Op(ir, e) = "store" /\ e \in ToSet(ir.users[ir.body[k]])
    BY <1>4, <2>1, <2>2 DEF StoresOf
  <2>4. e \in D
    BY <1>1, <1>2, <2>3, ShapedFacts DEF Sound, Typed
  <2> QED
    BY <1>1, <2>3, <2>4, StoresInBody
<1>10. ASSUME ~\E i : SelfStore(ir, i) PROVE IsInjective(list)
  <2>1. ASSUME NEW k \in 1..n PROVE IsInjective(seqs[k])
    <3>1. IsInjective(<<>>)
      BY DEF IsInjective
    <3> QED
      BY <1>4, <1>5, <1>10, <3>1 DEF StoresOf
  <2>2. ASSUME NEW j \in 1..n, NEW k \in 1..n, j # k, NEW e \in ToSet(seqs[j]), e \in ToSet(seqs[k]) PROVE FALSE
    <3>1. ir.body[j] \in vars_map /\ ir.body[k] \in vars_map
      BY <1>5, <2>2, TimesInNone
    <3>2. ir.body[j] = ir.body[k]
      BY <1>4, <2>2, <3>1
    <3> QED
      BY <1>2, <2>2, <3>2 DEF Sound, Bodied, IsInjective
  <2>3. AreApart(seqs)
    BY <1>3, <2>1, <2>2 DEF AreApart
  <2> QED
    BY <1>8, <2>3 DEF FlattenedFrom
<1> QED
  BY <1>1, <1>8, <1>9, <1>10 DEF Storing, FlattenedFrom

(* Promoting leaves such a store and the registers alone.                  *)
LEMMA SelfStorePromoted ==
  ASSUME NEW sums, NEW p, Sound(p, sums), NEW q, Promotes(q, p, sums), NEW i, SelfStore(p, i)
  PROVE  SelfStore(q, i)
<1>1. i \in DOMAIN p.vals /\ Op(p, i) = "store" /\ i \in ToSet(q.body) /\ Op(q, i) = "store"
  <2>1. i \in DOMAIN p.vals
    BY TypedFacts DEF SelfStore, InBody, Sound
  <2> QED
    BY <2>1 DEF SelfStore, InBody, Promotes
<1>2. 1 \in DOMAIN Args(p, i) /\ 2 \in DOMAIN Args(p, i) /\ Args(p, i)[1] \in DOMAIN p.vals
  <2>1. Arity(Op(p, i)) = 2 /\ 1 \in 1..2 /\ 2 \in 1..2
    BY <1>1 DEF Arity
  <2> QED
    BY <1>1, <2>1, TypedFacts DEF Sound
<1>3. Args(p, i)[1] = Args(p, i)[2] /\ Op(p, Args(p, i)[1]) = "alloc"
  BY DEF SelfStore
<1>4. Args(q, i)[1] = Args(p, i)[1] /\ Args(q, i)[2] = Args(p, i)[2]
  BY <1>1, <1>2, <1>3 DEF Promotes
<1>5. Op(q, Args(q, i)[1]) = "alloc"
  BY <1>2, <1>3, <1>4 DEF Promotes
<1> QED
  BY <1>1, <1>3, <1>4, <1>5 DEF SelfStore, InBody

LEMMA PromotedContinues ==
  ASSUME NEW sums, NEW p, Sound(p, sums), NEW q, Promotes(q, p, sums)
  PROVE  Continues(q, p, sums)
BY DEF Sound, RegistersFirst, Promotes, Continues

(* A round ends in another sound program, or aborts because of such a      *)
(* store.                                                                  *)
LEMMA PromoteLoadsKeeps ==
  ASSUME NEW sums, Sound(ir, sums), PromoteLoads
  PROVE  Continues(ir', ir, sums) /\ Storing(ir', stores')
<1>1. ir' = Walked.ir /\ stores' = FlattenSeq(StoresPerAlloc)
  BY Zenon DEF PromoteLoads, StoresPerAlloc
<1>2. Promotes(ir', ir, sums)
  BY <1>1, WalkedPromotes
<1>3. Continues(ir', ir, sums)
  BY <1>2, PromotedContinues
<1>4. Storing(ir, stores')
  BY <1>1, StoresCollected
<1>5. \A i : SelfStore(ir, i) => SelfStore(ir', i)
  BY <1>2, SelfStorePromoted
<1>6. \A i : InBody(ir, i, {"store"}) => InBody(ir', i, {"store"})
  BY <1>2, TypedFacts DEF Promotes, InBody, Sound
<1>7. DOMAIN (ir').vals = DOMAIN ir.vals
  BY <1>2 DEF Promotes
<1>8. Storing(ir', stores')
  BY <1>4, <1>5, <1>6, <1>7 DEF Storing
<1> QED
  BY <1>3, <1>8

LEMMA RemoveStoresKeeps ==
  ASSUME NEW sums, Sound(ir, sums), Storing(ir, stores), RemoveStores
  PROVE  \/ running' = "aborted" /\ ir' = ir /\ \E i : SelfStore(ir, i)
         \/ Continues(ir', ir, sums) /\ running' \in {"alloc-promoter", None} /\ stores' = <<>>
<1>1. ASSUME NEW i \in ToSet(stores) PROVE i \in ToSet(ir.body) /\ i \in DOMAIN ir.vals /\ ir.users[i] = <<>>
  <2>1. i \in ToSet(ir.body) /\ Op(ir, i) = "store"
    BY DEF Storing, InBody
  <2>2. i \in DOMAIN ir.vals
    BY <2>1, TypedFacts DEF Sound
  <2> QED
    BY <2>1, <2>2 DEF Sound, Unusable, Mute
<1>2. CASE Aborts
  <2>1. ~IsInjective(stores)
    BY <1>1, <1>2 DEF Aborts
  <2>2. \E i : SelfStore(ir, i)
    BY <2>1 DEF Storing
  <2>3. running' = "aborted" /\ ir' = ir
    BY <1>2 DEF RemoveStores
  <2> QED
    BY <2>2, <2>3
<1>3. CASE ~Aborts
  <2>1. ir' = RemovedAll(ir, stores) /\ running' \in {"alloc-promoter", None} /\ stores' = <<>>
    BY <1>3 DEF RemoveStores
  <2>2. Removable(ir, stores)
    BY <1>1, <1>3 DEF Removable, Storing, Aborts
  <2>3. Continues(ir', ir, sums)
    BY <2>1, <2>2, RemovedAllKeeps
  <2> QED
    BY <2>1, <2>3
<1> QED
  BY <1>2, <1>3

-----------------------------------------------------------------------------
(* The frontend. Each part of a translation appends instructions that use  *)
(* the value made last.                                                    *)

(* What an address or a sum may start with.                                *)
Movable == {"reg", "load", "add", "sub"}

(* What a translation may take as an operand: a constant while it is new.  *)
Ready(p, u) ==
  /\ u \in DOMAIN p.vals
  /\ Op(p, u) \in Movable \cup {"const"}
  /\ Op(p, u) = "const" => p.users[u] = <<>>

(* Where a translated program's addresses come from: never from a constant *)
(* or a variable.                                                          *)
Pointed(p) ==
  \A v \in DOMAIN p.vals :
    /\ Op(p, v) \notin {"alloc", "freed"}
    /\ Op(p, v) \in Binaries \cup {"load", "store"} => Op(p, Args(p, v)[1]) \in Movable

(* The additions whose second operand is not a constant.                   *)
SumsOf(p) == {b \in DOMAIN p.vals : Op(p, b) \in Binaries /\ Op(p, Args(p, b)[2]) # "const"}

(* A program being translated; nothing uses the values of S yet.           *)
Building(p, S) ==
  /\ Sound(p, SumsOf(p))
  /\ Pointed(p)
  /\ \A v \in DOMAIN p.vals : Op(p, v) \in {"load", "add", "sub"} /\ v \notin S => p.users[v] # <<>>

(* q has the values of p, and in Onward no new use of an unused constant.  *)
Upward(q, p) ==
  /\ DOMAIN p.vals \subseteq DOMAIN q.vals
  /\ \A u \in DOMAIN p.vals : Op(q, u) = Op(p, u)

Onward(q, p) ==
  /\ Upward(q, p)
  /\ \A u \in DOMAIN p.vals : Op(p, u) = "const" /\ p.users[u] = <<>> => q.users[u] = <<>>

(* A translation that ends in a new value n for the next to use.           *)
Produces(q, p, S, n) ==
  /\ Building(q, S)
  /\ Onward(q, p)
  /\ n = Newest(q)
  /\ n \notin DOMAIN p.vals
  /\ Ready(q, n)

(* Those relations, from one part of a translation to the next.            *)
LEMMA BuildingMore ==
  ASSUME NEW p, NEW S, Building(p, S), NEW T, \A v \in S \ T : v \in DOMAIN p.vals => Op(p, v) \notin {"load", "add", "sub"}
  PROVE  Building(p, T)
BY DEF Building

LEMMA OnwardOn ==
  ASSUME NEW p, NEW q, NEW r, Onward(q, p), Onward(r, q)
  PROVE  Onward(r, p)
BY DEF Onward, Upward

LEMMA ReadyOn ==
  ASSUME NEW p, NEW q, Onward(q, p), NEW u, Ready(p, u)
  PROVE  Ready(q, u) /\ Op(q, u) = Op(p, u)
BY DEF Onward, Upward, Ready

LEMMA MoreSums ==
  ASSUME NEW p, NEW sums, Sound(p, sums), NEW more, sums \subseteq more
  PROVE  Sound(p, more)
<1>1. \A b, c \in DOMAIN p.vals : Owns(p, b, c, more) => Owns(p, b, c, sums)
  BY DEF Owns
<1>2. OwnConstants(p, more)
  BY <1>1 DEF Sound, OwnConstants
<1> QED
  BY <1>2 DEF Sound

LEMMA SumsStay ==
  ASSUME NEW p, Typed(p), NEW q, DOMAIN p.vals \subseteq DOMAIN q.vals,
         \A v \in DOMAIN p.vals : Op(q, v) = Op(p, v) /\ Args(q, v) = Args(p, v)
  PROVE  SumsOf(p) \subseteq SumsOf(q)
<1> SUFFICES ASSUME NEW b \in SumsOf(p) PROVE b \in SumsOf(q)
  OBVIOUS
<1>1. b \in DOMAIN p.vals /\ Op(p, b) \in Binaries /\ Op(p, Args(p, b)[2]) # "const"
  BY DEF SumsOf
<1>2. Args(p, b)[2] \in DOMAIN p.vals
  BY <1>1, TypedFacts DEF Arity
<1> QED
  BY <1>1, <1>2 DEF SumsOf

LEMMA ReadyFits ==
  ASSUME NEW sums, NEW p, Sound(p, sums), NEW op \in {"load", "add", "sub", "store", "ret"}, NEW args, args \in Seq(DOMAIN p.vals),
         Len(args) = Arity(op), \A u \in ToSet(args) : Ready(p, u),
         op \in Binaries => Op(p, args[1]) \in Movable /\ (Op(p, args[2]) = "const" \/ Newest(p) + 1 \in sums)
  PROVE  Fits(p, op, args, sums)
<1>1. op \in Ops \ {"reg", "freed"}
  BY DEF Ops
<1>2. \A u \in ToSet(args) : Op(p, u) \notin Mute
  BY DEF Ready, Movable, Mute
<1>3. ASSUME NEW b \in DOMAIN p.vals, NEW c \in DOMAIN p.vals, Owns(p, b, c, sums), c \in ToSet(args) PROVE FALSE
  <2>1. Op(p, c) = "const" /\ p.users[c] = <<>>
    BY <1>3 DEF Sound, OwnConstants, Ready
  <2>2. c \notin ToSet(Args(p, b))
    BY <2>1, UsersOfOperands DEF Sound
  <2>3. Arity(Op(p, b)) = 2 /\ 2 \in 1..2
    BY <1>3 DEF Owns, Arity
  <2>4. c \in ToSet(Args(p, b))
    BY <1>3, <2>3, TypedFacts DEF Owns, Sound
  <2> QED
    BY <2>2, <2>4
<1>4. ASSUME op \in Binaries, Newest(p) + 1 \notin sums
      PROVE  Op(p, args[2]) = "const" /\ args[1] # args[2] /\ p.users[args[2]] = <<>>
  <2>1. Op(p, args[1]) \in Movable /\ Op(p, args[2]) = "const"
    BY <1>4
  <2>2. args[1] # args[2]
    BY <2>1 DEF Movable
  <2>3. Len(args) = 2
    BY <1>4 DEF Arity
  <2>4. args[2] \in ToSet(args)
    BY <2>3, LenProperties DEF ToSet
  <2> QED
    BY <2>1, <2>2, <2>4 DEF Ready
<1> QED
  BY <1>1, <1>2, <1>3, <1>4 DEF Fits

(* The instruction appended, of operands that are ready.                   *)
Appends(q, p, S, op, args) ==
  /\ Building(q, (S \ ToSet(args)) \cup {Newest(q)})
  /\ Upward(q, p)
  /\ \A u \in DOMAIN p.vals \ ToSet(args) : q.users[u] = p.users[u]
  /\ Newest(q) \notin DOMAIN p.vals
  /\ Newest(q) \in DOMAIN q.vals
  /\ Op(q, Newest(q)) = op

LEMMA AppendsIt ==
  ASSUME NEW p, NEW S, Building(p, S),
         NEW op \in {"load", "add", "sub", "store", "ret"}, NEW args, args \in Seq(DOMAIN p.vals),
         Len(args) = Arity(op), \A u \in ToSet(args) : Ready(p, u),
         op \in Binaries \cup {"load", "store"} => Op(p, args[1]) \in Movable,
         NEW q, q = Appended(p, op, args)
  PROVE  Appends(q, p, S, op, args)
<1>0. PICK sums : sums = SumsOf(p) \cup (IF op \in Binaries /\ Op(p, args[2]) # "const" THEN {Newest(p) + 1} ELSE {})
  OBVIOUS
<1>1. Fits(p, op, args, sums) /\ op \in InstOps \ {"alloc"} /\ Sound(p, sums)
  <2>1. Sound(p, sums)
    BY <1>0, MoreSums DEF Building
  <2>2. op \in Binaries => Op(p, args[1]) \in Movable /\ (Op(p, args[2]) = "const" \/ Newest(p) + 1 \in sums)
    BY <1>0
  <2>3. Fits(p, op, args, sums)
    BY <2>1, <2>2, ReadyFits
  <2> QED
    BY <2>1, <2>3 DEF InstOps
<1>2. PICK n, k : n = Len(p.vals) + 1 /\ k = Len(p.body) + 1
  OBVIOUS
<1>3. FromInsertion(q, p, k, op, args, 0, sums)
  BY <1>1, <1>2, AppendedIs
<1>4. Sound(q, sums) /\ Extends(q, p, n, op, args, 0) /\ n = Newest(q)
  BY <1>2, <1>3 DEF FromInsertion
<1>5. /\ DOMAIN q.vals = DOMAIN p.vals \cup {n} /\ n \notin DOMAIN p.vals /\ n \in DOMAIN q.vals
      /\ Op(q, n) = op /\ Args(q, n) = args
      /\ \A v \in DOMAIN p.vals : Op(q, v) = Op(p, v) /\ Args(q, v) = Args(p, v)
      /\ ToSet(args) \subseteq DOMAIN p.vals
      /\ DOMAIN args = 1..Arity(op)
  <2>1. Typed(p)
    BY <1>1 DEF Sound
  <2>2. Joined(q, p, n, op, args)
    BY <1>1, <1>4, <2>1, GrownFacts
  <2> QED
    BY <2>2 DEF Joined
<1>6. /\ \A u \in DOMAIN p.vals : u \notin ToSet(args) => q.users[u] = p.users[u]
      /\ \A u \in DOMAIN p.vals : Times(q.users[u], n) = Times(args, u)
  BY <1>4 DEF Extends, Grown
<1>7. ASSUME NEW v \in DOMAIN q.vals
      PROVE  /\ Op(q, v) \notin {"alloc", "freed"}
             /\ Op(q, v) \in Binaries \cup {"load", "store"} => Op(q, Args(q, v)[1]) \in Movable
  <2>1. CASE v = n
    <3>1. Op(q, v) \notin {"alloc", "freed"}
      BY <1>5, <2>1
    <3>2. ASSUME op \in Binaries \cup {"load", "store"} PROVE Op(q, args[1]) \in Movable
      <4>1. 1 \in 1..Arity(op)
        BY <3>2 DEF Arity, Binaries
      <4>2. args[1] \in DOMAIN p.vals
        BY <1>5, <4>1 DEF ToSet
      <4> QED
        BY <1>5, <3>2, <4>2
    <3> QED
      BY <1>5, <2>1, <3>1, <3>2
  <2>2. CASE v \in DOMAIN p.vals
    <3>1. Op(q, v) \notin {"alloc", "freed"} /\ Op(q, v) = Op(p, v) /\ Args(q, v) = Args(p, v)
      BY <1>5, <2>2 DEF Building, Pointed
    <3>2. ASSUME Op(q, v) \in Binaries \cup {"load", "store"} PROVE Op(q, Args(q, v)[1]) \in Movable
      <4>1. Op(p, Args(p, v)[1]) \in Movable
        BY <2>2, <3>1, <3>2 DEF Building, Pointed
      <4>2. 1 \in 1..Arity(Op(p, v))
        BY <3>1, <3>2 DEF Arity, Binaries
      <4>3. Args(p, v)[1] \in DOMAIN p.vals
        BY <1>1, <2>2, <4>2, TypedFacts DEF Sound
      <4> QED
        BY <1>5, <3>1, <4>1, <4>3
    <3> QED
      BY <3>1, <3>2
  <2> QED
    BY <1>5, <2>1, <2>2
<1>8. ASSUME NEW v \in DOMAIN q.vals, Op(q, v) \in {"load", "add", "sub"}, v \notin (S \ ToSet(args)) \cup {n} PROVE q.users[v] # <<>>
  <2>1. v \in DOMAIN p.vals /\ Op(p, v) \in {"load", "add", "sub"}
    BY <1>5, <1>8
  <2>2. CASE v \in ToSet(args)
    <3>1. Times(args, v) # 0
      BY <2>2, TimesIsCounted
    <3>2. Times(q.users[v], n) # 0
      BY <1>6, <2>1, <3>1
    <3> QED
      BY <3>2, TimesInNone
  <2>3. CASE v \notin ToSet(args)
    <3>1. v \notin S
      BY <1>8, <2>3
    <3>2. p.users[v] # <<>>
      BY <2>1, <3>1 DEF Building
    <3> QED
      BY <1>6, <2>1, <2>3, <3>2
  <2> QED
    BY <2>2, <2>3
<1>9. Sound(q, SumsOf(q))
  <2>1. SumsOf(p) \subseteq SumsOf(q)
    BY <1>1, <1>5, SumsStay DEF Sound
  <2>2. ASSUME op \in Binaries, Op(p, args[2]) # "const" PROVE n \in SumsOf(q)
    <3>1. args[2] \in DOMAIN p.vals
      BY <1>5, <2>2 DEF Arity, ToSet
    <3> QED
      BY <1>5, <2>2, <3>1 DEF SumsOf
  <2>3. n = Newest(p) + 1
    BY <1>2 DEF Newest
  <2>4. sums \subseteq SumsOf(q)
    BY <1>0, <2>1, <2>2, <2>3
  <2> QED
    BY <1>4, <2>4, MoreSums
<1>10. Building(q, (S \ ToSet(args)) \cup {n})
  BY <1>7, <1>8, <1>9 DEF Building, Pointed
<1>11. Upward(q, p)
  BY <1>5 DEF Upward
<1> QED
  BY <1>4, <1>5, <1>6, <1>10, <1>11 DEF Appends

LEMMA ConstantProduces ==
  ASSUME NEW p, NEW S, Building(p, S), NEW w, NEW q, q = Constant(p, w)
  PROVE  Produces(q, p, S, Newest(q)) /\ Op(q, Newest(q)) = "const" /\ Newest(q) = Newest(p) + 1
<1>1. PICK n : n = Len(p.vals) + 1
  OBVIOUS
<1>2. FromConstant(q, p, w, SumsOf(p)) /\ Typed(p)
  BY ConstantIs DEF Building, Sound
<1>3. Sound(q, SumsOf(p)) /\ Extends(q, p, n, "const", <<>>, w) /\ n = Newest(q)
  BY <1>1, <1>2 DEF FromConstant
<1>4. /\ DOMAIN q.vals = DOMAIN p.vals \cup {n} /\ n \notin DOMAIN p.vals
      /\ q.vals[n] = [op |-> "const", args |-> <<>>, word |-> w]
      /\ \A v \in DOMAIN p.vals : q.vals[v] = p.vals[v]
      /\ q.users[n] = <<>>
      /\ \A u \in DOMAIN p.vals : q.users[u] = p.users[u]
  BY <1>3, TimesInNone DEF Extends, Grown
<1>5. Op(q, n) = "const" /\ \A v \in DOMAIN p.vals : Op(q, v) = Op(p, v) /\ Args(q, v) = Args(p, v)
  BY <1>4 DEF Op, Args
<1>6. ASSUME NEW v \in DOMAIN q.vals
      PROVE  /\ Op(q, v) \notin {"alloc", "freed"}
             /\ Op(q, v) \in Binaries \cup {"load", "store"} => Op(q, Args(q, v)[1]) \in Movable
  <2>1. CASE v = n
    BY <1>5, <2>1 DEF Binaries
  <2>2. CASE v \in DOMAIN p.vals
    <3>1. Op(q, v) \notin {"alloc", "freed"} /\ Op(q, v) = Op(p, v) /\ Args(q, v) = Args(p, v)
      BY <1>5, <2>2 DEF Building, Pointed
    <3>2. ASSUME Op(q, v) \in Binaries \cup {"load", "store"} PROVE Op(q, Args(q, v)[1]) \in Movable
      <4>1. Op(p, Args(p, v)[1]) \in Movable
        BY <2>2, <3>1, <3>2 DEF Building, Pointed
      <4>2. 1 \in 1..Arity(Op(p, v))
        BY <3>1, <3>2 DEF Arity, Binaries
      <4>3. Args(p, v)[1] \in DOMAIN p.vals
        BY <2>2, <4>2, TypedFacts DEF Sound, Building
      <4> QED
        BY <1>5, <3>1, <4>1, <4>3
    <3> QED
      BY <3>1, <3>2
  <2> QED
    BY <1>4, <2>1, <2>2
<1>7. Building(q, S)
  <2>1. ASSUME NEW v \in DOMAIN q.vals, Op(q, v) \in {"load", "add", "sub"}, v \notin S PROVE q.users[v] # <<>>
    BY <1>4, <1>5, <2>1 DEF Building
  <2>2. SumsOf(p) \subseteq SumsOf(q)
    BY <1>2, <1>4, <1>5, SumsStay
  <2>3. Sound(q, SumsOf(q))
    BY <1>3, <2>2, MoreSums
  <2> QED
    BY <1>6, <2>1, <2>3 DEF Building, Pointed
<1>8. Onward(q, p)
  BY <1>4, <1>5 DEF Onward, Upward
<1>9. Ready(q, n)
  BY <1>4, <1>5 DEF Ready
<1>10. Newest(q) = Newest(p) + 1
  BY <1>1, <1>3 DEF Newest
<1> QED
  BY <1>3, <1>4, <1>5, <1>7, <1>8, <1>9, <1>10 DEF Produces

(* The parts of a translation, from Frontend.cc.                           *)
LEMMA AppendsMovable ==
  ASSUME NEW p, NEW S, NEW op \in {"load", "add", "sub"}, NEW args, NEW q, Appends(q, p, S, op, args),
         \A u \in ToSet(args) : u \in DOMAIN p.vals => Op(p, u) # "const"
  PROVE  Produces(q, p, (S \ ToSet(args)) \cup {Newest(q)}, Newest(q))
<1>1. Onward(q, p)
  BY DEF Appends, Onward, Upward
<1>2. Ready(q, Newest(q))
  BY DEF Appends, Ready, Movable
<1> QED
  BY <1>1, <1>2 DEF Appends, Produces

LEMMA ProducesFewer ==
  ASSUME NEW p, NEW S, NEW T, NEW n, NEW q, Produces(q, p, S, n),
         \A v \in S \ T : v \in DOMAIN q.vals => Op(q, v) \notin {"load", "add", "sub"}
  PROVE  Produces(q, p, T, n)
BY BuildingMore DEF Produces

LEMMA ProducesOn ==
  ASSUME NEW p, NEW q, NEW S, NEW m, Produces(q, p, S, m), NEW r, NEW T, NEW n, Produces(r, q, T, n)
  PROVE  Produces(r, p, T, n) /\ m # n /\ Op(r, m) = Op(q, m) /\ Ready(r, m) /\ m \in DOMAIN q.vals
<1>1. Onward(r, p)
  BY OnwardOn DEF Produces
<1>2. m \in DOMAIN q.vals /\ Ready(q, m)
  BY DEF Produces, Ready
<1>3. Op(r, m) = Op(q, m) /\ Ready(r, m)
  BY <1>2, ReadyOn DEF Produces
<1>4. n \notin DOMAIN p.vals
  BY DEF Produces, Onward, Upward
<1> QED
  BY <1>1, <1>2, <1>3, <1>4 DEF Produces

LEMMA RegistersReady ==
  ASSUME NEW p, NEW S, Building(p, S), NEW r \in 1..Registers
  PROVE  Ready(p, r) /\ Op(p, r) = "reg"
BY DEF Building, Pointed, Sound, RegistersFirst, Ready, Movable

IsLoad(q, p, S) == Produces(q, p, S \cup {Newest(q)}, Newest(q)) /\ Op(q, Newest(q)) = "load"

LEMMA LoadAppended ==
  ASSUME NEW p, NEW S, Building(p, S), NEW u, Ready(p, u), Op(p, u) \in Movable,
         NEW q, q = Appended(p, "load", <<u>>)
  PROVE  Produces(q, p, (S \ {u}) \cup {Newest(q)}, Newest(q)) /\ Op(q, Newest(q)) = "load"
<1>1. PICK args : args = <<u>>
  OBVIOUS
<1>2. args \in Seq(DOMAIN p.vals) /\ Len(args) = 1 /\ ToSet(args) = {u} /\ args[1] = u
  BY <1>1, OneOperand DEF Ready
<1>3. Arity("load") = 1
  BY DEF Arity, Binaries
<1>4. Appends(q, p, S, "load", args)
  BY <1>1, <1>2, <1>3, AppendsIt DEF Binaries
<1>5. Op(p, u) # "const"
  BY DEF Movable
<1>6. Produces(q, p, (S \ ToSet(args)) \cup {Newest(q)}, Newest(q))
  BY <1>2, <1>4, <1>5, AppendsMovable
<1> QED
  BY <1>2, <1>4, <1>6 DEF Appends

LEMMA phys_srcProduces ==
  ASSUME NEW p, NEW S, Building(p, S), NEW r \in 1..Registers, NEW q, q = phys_src(p, r)
  PROVE  IsLoad(q, p, S)
<1>1. Ready(p, r) /\ Op(p, r) = "reg"
  BY RegistersReady
<1>2. Produces(q, p, (S \ {r}) \cup {Newest(q)}, Newest(q)) /\ Op(q, Newest(q)) = "load"
  BY <1>1, LoadAppended DEF phys_src, Movable
<1>3. Op(q, r) = "reg"
  BY <1>1, <1>2 DEF Produces, Onward, Upward, Ready
<1>4. \A v \in ((S \ {r}) \cup {Newest(q)}) \ (S \cup {Newest(q)}) : FALSE
  OBVIOUS
<1>5. Produces(q, p, S \cup {Newest(q)}, Newest(q))
  BY <1>2, <1>4, ProducesFewer
<1> QED
  BY <1>2, <1>5 DEF IsLoad

LEMMA BinaryAppended ==
  ASSUME NEW p, NEW S, Building(p, S), NEW op \in Binaries, NEW u, Ready(p, u), Op(p, u) \in Movable,
         NEW c, Ready(p, c),
         NEW q, q = Appended(p, op, <<u, c>>)
  PROVE  /\ Building(q, (S \ {u, c}) \cup {Newest(q)})
         /\ Upward(q, p)
         /\ \A v \in DOMAIN p.vals \ {u, c} : q.users[v] = p.users[v]
         /\ Newest(q) \notin DOMAIN p.vals
         /\ Ready(q, Newest(q))
         /\ Op(q, Newest(q)) = op
<1>1. PICK args : args = <<u, c>>
  OBVIOUS
<1>2. args \in Seq(DOMAIN p.vals) /\ Len(args) = 2 /\ ToSet(args) = {u, c} /\ args[1] = u /\ args[2] = c
  <2>1. u \in DOMAIN p.vals /\ c \in DOMAIN p.vals
    BY DEF Ready
  <2>2. PICK D : D = DOMAIN p.vals
    OBVIOUS
  <2>3. u \in D /\ c \in D
    BY <2>1, <2>2
  <2>4. <<u, c>> \in Seq(D) /\ Len(<<u, c>>) = 2 /\ ToSet(<<u, c>>) = {u, c} /\ <<u, c>>[1] = u /\ <<u, c>>[2] = c
    BY <2>3, TwoOperands, Zenon
  <2> QED
    BY <1>1, <2>2, <2>4
<1>3. Arity(op) = 2
  BY DEF Arity
<1>4. op \in {"load", "add", "sub", "store", "ret"}
  BY DEF Binaries
<1>5. Appends(q, p, S, op, args)
  BY <1>1, <1>2, <1>3, <1>4, AppendsIt
<1>6. Ready(q, Newest(q))
  BY <1>5 DEF Appends, Ready, Movable, Binaries
<1> QED
  BY <1>2, <1>5, <1>6 DEF Appends

LEMMA WithConstantProduces ==
  ASSUME NEW p, NEW S, Building(p, S), NEW op \in Binaries, NEW u, u = Newest(p), Ready(p, u), Op(p, u) \in Movable,
         NEW w, NEW q, q = WithConstant(p, op, w)
  PROVE  Produces(q, p, (S \ {u}) \cup {Newest(q)}, Newest(q)) /\ Op(q, Newest(q)) = op
<1>1. PICK m, c : m = Constant(p, w) /\ c = Newest(p) + 1
  OBVIOUS
<1>2. Produces(m, p, S, c) /\ Op(m, c) = "const"
  BY <1>1, ConstantProduces
<1>3. Building(m, S) /\ Onward(m, p) /\ c \notin DOMAIN p.vals /\ Ready(m, c)
  BY <1>2 DEF Produces
<1>4. Ready(m, u) /\ Op(m, u) = Op(p, u)
  BY <1>3, ReadyOn
<1>5. q = Appended(m, op, <<u, c>>)
  BY <1>1 DEF WithConstant
<1>6. /\ Building(q, (S \ {u, c}) \cup {Newest(q)})
      /\ Upward(q, m)
      /\ \A v \in DOMAIN m.vals \ {u, c} : q.users[v] = m.users[v]
      /\ Newest(q) \notin DOMAIN m.vals
      /\ Ready(q, Newest(q))
      /\ Op(q, Newest(q)) = op
  BY <1>2, <1>3, <1>4, <1>5, BinaryAppended
<1>7. Building(q, (S \ {u}) \cup {Newest(q)})
  BY <1>6, BuildingMore
<1>8. ASSUME NEW v \in DOMAIN p.vals, Op(p, v) = "const", p.users[v] = <<>> PROVE q.users[v] = <<>>
  <2>1. v \in DOMAIN m.vals /\ m.users[v] = <<>>
    BY <1>3, <1>8 DEF Onward, Upward
  <2>2. v # u /\ v # c
    BY <1>3, <1>8 DEF Movable
  <2> QED
    BY <1>6, <2>1, <2>2
<1>9. Onward(q, p)
  BY <1>3, <1>6, <1>8 DEF Onward, Upward
<1>10. Newest(q) \notin DOMAIN p.vals
  BY <1>3, <1>6 DEF Onward, Upward
<1> QED
  BY <1>6, <1>7, <1>9, <1>10 DEF Produces

LEMMA DisplacedProduces ==
  ASSUME NEW p, NEW S, Building(p, S), NEW o, o.reg \in 1..Registers, NEW q, q = Displaced(p, o)
  PROVE  Produces(q, p, S \cup {Newest(q)}, Newest(q)) /\ Op(q, Newest(q)) = "add"
<1>1. PICK m, l : m = phys_src(p, o.reg) /\ l = Newest(m)
  OBVIOUS
<1>2. Produces(m, p, S \cup {l}, l) /\ Op(m, l) = "load"
  BY <1>1, phys_srcProduces DEF IsLoad
<1>3. Building(m, S \cup {l}) /\ Ready(m, l) /\ Op(m, l) \in Movable /\ "add" \in Binaries
  BY <1>2 DEF Produces, Movable, Binaries
<1>4. q = WithConstant(m, "add", o.disp)
  BY <1>1 DEF Displaced
<1>5. Produces(q, m, ((S \cup {l}) \ {l}) \cup {Newest(q)}, Newest(q)) /\ Op(q, Newest(q)) = "add"
  BY <1>1, <1>3, <1>4, WithConstantProduces
<1>6. Produces(q, m, S \cup {Newest(q)}, Newest(q))
  <2>1. \A v \in (((S \cup {l}) \ {l}) \cup {Newest(q)}) \ (S \cup {Newest(q)}) : FALSE
    OBVIOUS
  <2> QED
    BY <1>5, <2>1, ProducesFewer
<1> QED
  BY <1>2, <1>5, <1>6, ProducesOn

LEMMA load_opProduces ==
  ASSUME NEW p, NEW S, Building(p, S), NEW o, IsOperand(o, {"reg", "mem", "imm"}), NEW q, q = load_op(p, o)
  PROVE  /\ Produces(q, p, S \cup {Newest(q)}, Newest(q))
         /\ o.type # "imm" => Op(q, Newest(q)) = "load"
<1>1. CASE o.type = "imm"
  <2>1. q = Constant(p, o.disp)
    BY <1>1 DEF load_op
  <2>2. Produces(q, p, S, Newest(q))
    BY <2>1, ConstantProduces
  <2>3. Produces(q, p, S \cup {Newest(q)}, Newest(q))
    BY <2>2, ProducesFewer
  <2> QED
    BY <1>1, <2>3
<1>2. CASE o.type = "reg"
  <2>1. q = phys_src(p, o.reg) /\ o.reg \in 1..Registers
    BY <1>2 DEF load_op, IsOperand
  <2> QED
    BY <2>1, phys_srcProduces DEF IsLoad
<1>3. CASE o.type = "mem"
  <2>1. PICK m, a : m = Displaced(p, o) /\ a = Newest(m)
    OBVIOUS
  <2>2. q = Appended(m, "load", <<a>>) /\ o.reg \in 1..Registers
    BY <1>3, <2>1 DEF load_op, IsOperand
  <2>3. Produces(m, p, S \cup {a}, a) /\ Op(m, a) = "add"
    BY <2>1, <2>2, DisplacedProduces
  <2>4. Building(m, S \cup {a}) /\ Ready(m, a) /\ Op(m, a) \in Movable
    BY <2>3 DEF Produces, Movable
  <2>5. Produces(q, m, ((S \cup {a}) \ {a}) \cup {Newest(q)}, Newest(q)) /\ Op(q, Newest(q)) = "load"
    BY <2>2, <2>4, LoadAppended
  <2>6. Produces(q, m, S \cup {Newest(q)}, Newest(q))
    <3>1. \A v \in (((S \cup {a}) \ {a}) \cup {Newest(q)}) \ (S \cup {Newest(q)}) : FALSE
      OBVIOUS
    <3> QED
      BY <2>5, <3>1, ProducesFewer
  <2> QED
    BY <2>3, <2>5, <2>6, ProducesOn
<1> QED
  BY <1>1, <1>2, <1>3 DEF IsOperand

(* A translation after which nothing new is unused.                        *)
Consumes(q, p, S) == Building(q, S) /\ Upward(q, p)

LEMMA StoreAppended ==
  ASSUME NEW p, NEW S, Building(p, S), NEW u, Ready(p, u), Op(p, u) \in Movable, NEW v, Ready(p, v),
         NEW q, q = Appended(p, "store", <<u, v>>)
  PROVE  Consumes(q, p, S \ {u, v})
<1>1. PICK args : args = <<u, v>>
  OBVIOUS
<1>2. args \in Seq(DOMAIN p.vals) /\ Len(args) = 2 /\ ToSet(args) = {u, v} /\ args[1] = u /\ args[2] = v
  <2>1. u \in DOMAIN p.vals /\ v \in DOMAIN p.vals
    BY DEF Ready
  <2>2. PICK D : D = DOMAIN p.vals
    OBVIOUS
  <2>3. u \in D /\ v \in D
    BY <2>1, <2>2
  <2>4. <<u, v>> \in Seq(D) /\ Len(<<u, v>>) = 2 /\ ToSet(<<u, v>>) = {u, v} /\ <<u, v>>[1] = u /\ <<u, v>>[2] = v
    BY <2>3, TwoOperands, Zenon
  <2> QED
    BY <1>1, <2>2, <2>4
<1>3. Arity("store") = 2 /\ "store" \notin Binaries
  BY DEF Arity, Binaries
<1>4. Appends(q, p, S, "store", args)
  BY <1>1, <1>2, <1>3, AppendsIt
<1>5. Building(q, S \ {u, v})
  <2>1. Building(q, (S \ {u, v}) \cup {Newest(q)}) /\ Op(q, Newest(q)) = "store"
    BY <1>2, <1>4 DEF Appends
  <2> QED
    BY <2>1, BuildingMore
<1> QED
  BY <1>4, <1>5 DEF Appends, Consumes

LEMMA ConsumesMore ==
  ASSUME NEW p, NEW q, NEW S, Consumes(q, p, S), NEW T, S \subseteq T
  PROVE  Consumes(q, p, T)
BY BuildingMore DEF Consumes

LEMMA ConsumesAfter ==
  ASSUME NEW p, NEW q, Upward(q, p), NEW r, NEW S, Consumes(r, q, S)
  PROVE  Consumes(r, p, S)
BY DEF Consumes, Upward

LEMMA ReadyUp ==
  ASSUME NEW p, NEW q, Upward(q, p), NEW u, Ready(p, u), Op(p, u) \in Movable
  PROVE  Ready(q, u) /\ Op(q, u) = Op(p, u)
BY DEF Upward, Ready, Movable

LEMMA store_opConsumes ==
  ASSUME NEW p, NEW S, Building(p, S), NEW o, IsOperand(o, {"reg", "mem"}), NEW v, Ready(p, v),
         NEW q, q = store_op(p, o, v)
  PROVE  Consumes(q, p, S \ {v})
<1>1. CASE o.type = "reg"
  <2>1. q = Appended(p, "store", <<o.reg, v>>) /\ o.reg \in 1..Registers
    BY <1>1 DEF store_op, IsOperand
  <2>2. Ready(p, o.reg) /\ Op(p, o.reg) \in Movable
    BY <2>1, RegistersReady DEF Movable
  <2>3. Consumes(q, p, S \ {o.reg, v})
    BY <2>1, <2>2, StoreAppended
  <2>4. S \ {o.reg, v} \subseteq S \ {v}
    OBVIOUS
  <2> QED
    BY <2>3, <2>4, ConsumesMore
<1>2. CASE o.type = "mem"
  <2>1. PICK m, a : m = Displaced(p, o) /\ a = Newest(m)
    OBVIOUS
  <2>2. q = Appended(m, "store", <<a, v>>) /\ o.reg \in 1..Registers
    BY <1>2, <2>1 DEF store_op, IsOperand
  <2>3. Produces(m, p, S \cup {a}, a) /\ Op(m, a) = "add"
    BY <2>1, <2>2, DisplacedProduces
  <2>4. Building(m, S \cup {a}) /\ Ready(m, a) /\ Op(m, a) \in Movable /\ Onward(m, p)
    BY <2>3 DEF Produces, Movable
  <2>5. Ready(m, v)
    BY <2>4, ReadyOn
  <2>6. Consumes(q, m, (S \cup {a}) \ {a, v})
    BY <2>2, <2>4, <2>5, StoreAppended
  <2>7. Consumes(q, m, S \ {v})
    <3>1. (S \cup {a}) \ {a, v} \subseteq S \ {v}
      OBVIOUS
    <3> QED
      BY <2>6, <3>1, ConsumesMore
  <2> QED
    BY <2>4, <2>7, ConsumesAfter DEF Onward
<1> QED
  BY <1>1, <1>2 DEF IsOperand

(* The translations of the instructions.                                   *)
LEMMA movConsumes ==
  ASSUME NEW p, Building(p, {}), NEW dst, IsOperand(dst, {"reg", "mem"}), NEW src, IsOperand(src, {"reg", "mem", "imm"}),
         NEW q, q = translate_mov(p, dst, src)
  PROVE  Consumes(q, p, {})
<1>1. PICK m, v : m = load_op(p, src) /\ v = Newest(m)
  OBVIOUS
<1>2. q = store_op(m, dst, v)
  BY <1>1 DEF translate_mov
<1>3. Produces(m, p, {} \cup {v}, v)
  BY <1>1, load_opProduces
<1>4. Building(m, {} \cup {v}) /\ Ready(m, v) /\ Upward(m, p)
  BY <1>3 DEF Produces, Onward
<1>5. Consumes(q, m, ({} \cup {v}) \ {v})
  BY <1>2, <1>4, store_opConsumes
<1>6. ({} \cup {v}) \ {v} = {}
  OBVIOUS
<1> QED
  BY <1>4, <1>5, <1>6, ConsumesAfter

LEMMA addConsumes ==
  ASSUME NEW p, Building(p, {}), NEW dst, IsOperand(dst, {"reg", "mem"}), NEW src, IsOperand(src, {"reg", "mem", "imm"}),
         NEW q, q = translate_add(p, dst, src)
  PROVE  Consumes(q, p, {})
<1>1. PICK l, u, m, v, s, a : /\ l = load_op(p, dst) /\ u = Newest(l)
                              /\ m = load_op(l, src) /\ v = Newest(m)
                              /\ s = Appended(m, "add", <<u, v>>) /\ a = Newest(s)
  OBVIOUS
<1>2. q = store_op(s, dst, a)
  BY <1>1 DEF translate_add
<1>3. IsOperand(dst, {"reg", "mem", "imm"}) /\ dst.type # "imm" /\ "add" \in Binaries
  BY DEF IsOperand, Binaries
<1>4. Produces(l, p, {u}, u) /\ Op(l, u) = "load"
  <2>1. {} \cup {u} = {u}
    OBVIOUS
  <2> QED
    BY <1>1, <1>3, <2>1, load_opProduces
<1>5. Produces(m, l, {u, v}, v)
  <2>1. {u} \cup {v} = {u, v}
    OBVIOUS
  <2> QED
    BY <1>1, <1>4, <2>1, load_opProduces DEF Produces
<1>6. Building(m, {u, v}) /\ Ready(m, v) /\ Ready(m, u) /\ Op(m, u) \in Movable /\ Upward(m, p)
  BY <1>4, <1>5, ProducesOn DEF Produces, Onward, Movable
<1>7. Building(s, {a}) /\ Upward(s, m) /\ Ready(s, a)
  <2>1. ({u, v} \ {u, v}) \cup {a} = {a}
    OBVIOUS
  <2> QED
    BY <1>1, <1>3, <1>6, <2>1, BinaryAppended
<1>8. Consumes(q, s, {a} \ {a})
  BY <1>2, <1>7, store_opConsumes
<1>9. {a} \ {a} = {}
  OBVIOUS
<1> QED
  BY <1>6, <1>7, <1>8, <1>9, ConsumesAfter

LEMMA pushConsumes ==
  ASSUME NEW p, Building(p, {}), NEW src, IsOperand(src, {"reg", "mem", "imm"}), NEW q, q = translate_push(p, src)
  PROVE  Consumes(q, p, {})
<1>1. PICK l, u, m, a, n, v, s : /\ l = phys_src(p, Rsp) /\ u = Newest(l)
                                 /\ m = WithConstant(l, "sub", Stride) /\ a = Newest(m)
                                 /\ n = load_op(m, src) /\ v = Newest(n)
                                 /\ s = Appended(n, "store", <<a, v>>)
  OBVIOUS
<1>2. q = Appended(s, "store", <<Rsp, a>>)
  BY <1>1 DEF translate_push
<1>3. Rsp \in 1..Registers
  BY StraightCodeAssumption DEF Rsp
<1>4. Produces(l, p, {} \cup {u}, u) /\ Op(l, u) = "load"
  BY <1>1, <1>3, phys_srcProduces DEF IsLoad
<1>5. Building(l, {u}) /\ Ready(l, u) /\ Op(l, u) \in Movable /\ "sub" \in Binaries
  <2>1. {} \cup {u} = {u}
    OBVIOUS
  <2> QED
    BY <1>4, <2>1 DEF Produces, Movable, Binaries
<1>6. Produces(m, l, {a}, a) /\ Op(m, a) = "sub"
  <2>1. ({u} \ {u}) \cup {a} = {a}
    OBVIOUS
  <2> QED
    BY <1>1, <1>5, <2>1, WithConstantProduces
<1>7. Produces(m, p, {a}, a)
  BY <1>4, <1>6, ProducesOn
<1>8. Produces(n, m, {a, v}, v)
  <2>1. {a} \cup {v} = {a, v}
    OBVIOUS
  <2> QED
    BY <1>1, <1>6, <2>1, load_opProduces DEF Produces
<1>9. Building(n, {a, v}) /\ Ready(n, v) /\ Ready(n, a) /\ Op(n, a) = "sub" /\ Upward(n, p)
  BY <1>6, <1>7, <1>8, ProducesOn DEF Produces, Onward
<1>10. Consumes(s, n, {})
  <2>1. {a, v} \ {a, v} = {}
    OBVIOUS
  <2>2. Op(n, a) \in Movable
    BY <1>9 DEF Movable
  <2> QED
    BY <1>1, <1>9, <2>1, <2>2, StoreAppended
<1>11. Building(s, {}) /\ Upward(s, n)
  BY <1>10 DEF Consumes
<1>12. Ready(s, a) /\ Ready(s, Rsp) /\ Op(s, Rsp) \in Movable
  BY <1>3, <1>9, <1>11, ReadyUp, RegistersReady DEF Movable
<1>13. Consumes(q, s, {} \ {Rsp, a})
  BY <1>2, <1>11, <1>12, StoreAppended
<1>14. {} \ {Rsp, a} = {}
  OBVIOUS
<1> QED
  BY <1>9, <1>11, <1>13, <1>14, ConsumesAfter

LEMMA popConsumes ==
  ASSUME NEW p, Building(p, {}), NEW dst, IsOperand(dst, {"reg", "mem"}), NEW q, q = translate_pop(p, dst)
  PROVE  Consumes(q, p, {})
<1>1. PICK l, u, t, v, m, n, c, s, a : /\ l = phys_src(p, Rsp) /\ u = Newest(l)
                                       /\ t = Appended(l, "load", <<u>>) /\ v = Newest(t)
                                       /\ m = store_op(t, dst, v)
                                       /\ n = Constant(m, Stride) /\ c = Newest(n)
                                       /\ s = Appended(n, "add", <<u, c>>) /\ a = Newest(s)
  OBVIOUS
<1>2. q = Appended(s, "store", <<Rsp, a>>)
  BY <1>1 DEF translate_pop
<1>3. Rsp \in 1..Registers
  BY StraightCodeAssumption DEF Rsp
<1>4. Produces(l, p, {} \cup {u}, u) /\ Op(l, u) = "load"
  BY <1>1, <1>3, phys_srcProduces DEF IsLoad
<1>5. Building(l, {u}) /\ Ready(l, u) /\ Op(l, u) \in Movable /\ "add" \in Binaries
  <2>1. {} \cup {u} = {u}
    OBVIOUS
  <2> QED
    BY <1>4, <2>1 DEF Produces, Movable, Binaries
<1>6. Produces(t, l, {v}, v) /\ Op(t, v) = "load"
  <2>1. ({u} \ {u}) \cup {v} = {v}
    OBVIOUS
  <2> QED
    BY <1>1, <1>5, <2>1, LoadAppended
<1>7. Produces(t, p, {v}, v) /\ Ready(t, u) /\ Op(t, u) = "load"
  BY <1>4, <1>6, ProducesOn
<1>8. Consumes(m, t, {})
  <2>1. {v} \ {v} = {}
    OBVIOUS
  <2> QED
    BY <1>1, <1>7, <2>1, store_opConsumes DEF Produces
<1>9. Building(m, {}) /\ Upward(m, t) /\ Ready(m, u) /\ Op(m, u) = "load"
  BY <1>7, <1>8, ReadyUp DEF Consumes, Movable
<1>10. Produces(n, m, {}, c) /\ Op(n, c) = "const"
  BY <1>1, <1>9, ConstantProduces
<1>11. Building(n, {}) /\ Ready(n, c) /\ Onward(n, m)
  BY <1>10 DEF Produces
<1>12. Ready(n, u) /\ Op(n, u) \in Movable
  BY <1>9, <1>11, ReadyOn DEF Movable
<1>13. Building(s, {a}) /\ Upward(s, n) /\ Ready(s, a)
  <2>1. ({} \ {u, c}) \cup {a} = {a}
    OBVIOUS
  <2> QED
    BY <1>1, <1>5, <1>10, <1>11, <1>12, <2>1, BinaryAppended DEF Binaries
<1>14. Ready(s, Rsp) /\ Op(s, Rsp) \in Movable
  BY <1>3, <1>13, RegistersReady DEF Movable
<1>15. Consumes(q, s, {})
  <2>1. Consumes(q, s, {a} \ {Rsp, a})
    BY <1>2, <1>13, <1>14, StoreAppended
  <2>2. {a} \ {Rsp, a} = {}
    OBVIOUS
  <2> QED
    BY <2>1, <2>2
<1>16. Consumes(q, n, {})
  BY <1>13, <1>15, ConsumesAfter
<1>17. Consumes(q, m, {})
  BY <1>11, <1>16, ConsumesAfter DEF Onward
<1>18. Consumes(q, t, {})
  BY <1>9, <1>17, ConsumesAfter
<1> QED
  BY <1>7, <1>18, ConsumesAfter DEF Produces, Onward

LEMMA retConsumes ==
  ASSUME NEW p, Building(p, {}), NEW q, q = translate_ret(p)
  PROVE  Consumes(q, p, {})
<1>1. PICK l, u, args : l = phys_src(p, Rax) /\ u = Newest(l) /\ args = <<u>>
  OBVIOUS
<1>2. q = Appended(l, "ret", args)
  BY <1>1 DEF translate_ret
<1>3. Rax \in 1..Registers
  BY StraightCodeAssumption DEF Rax
<1>4. Produces(l, p, {} \cup {u}, u)
  BY <1>1, <1>3, phys_srcProduces DEF IsLoad
<1>5. Building(l, {u}) /\ Ready(l, u) /\ Upward(l, p)
  <2>1. {} \cup {u} = {u}
    OBVIOUS
  <2> QED
    BY <1>4, <2>1 DEF Produces, Onward
<1>6. args \in Seq(DOMAIN l.vals) /\ Len(args) = 1 /\ ToSet(args) = {u}
  BY <1>1, <1>5, OneOperand DEF Ready
<1>7. Arity("ret") = 1 /\ "ret" \notin Binaries \cup {"load", "store"}
  BY DEF Arity, Binaries
<1>8. Appends(q, l, {u}, "ret", args)
  BY <1>2, <1>5, <1>6, <1>7, AppendsIt
<1>9. Building(q, {}) /\ Upward(q, l)
  <2>1. Building(q, ({u} \ {u}) \cup {Newest(q)}) /\ Op(q, Newest(q)) = "ret" /\ Upward(q, l)
    BY <1>6, <1>8 DEF Appends
  <2> QED
    BY <2>1, BuildingMore
<1> QED
  BY <1>5, <1>9 DEF Consumes, Upward

LEMMA TranslatedBuilds ==
  ASSUME NEW p, Building(p, {}), NEW inst, Translatable(inst)
  PROVE  Building(Translated(p, inst), {})
<1>1. PICK q : q = Translated(p, inst)
  OBVIOUS
<1>2. CASE inst.opcode = "mov"
  <2>1. q = translate_mov(p, inst.dst, inst.src)
    BY <1>1, <1>2 DEF Translated
  <2>2. IsOperand(inst.dst, {"reg", "mem"}) /\ IsOperand(inst.src, {"reg", "mem", "imm"})
    BY <1>2 DEF Translatable
  <2> QED
    BY <1>1, <2>1, <2>2, movConsumes DEF Consumes
<1>3. CASE inst.opcode = "add"
  <2>1. q = translate_add(p, inst.dst, inst.src)
    BY <1>1, <1>3 DEF Translated
  <2>2. IsOperand(inst.dst, {"reg", "mem"}) /\ IsOperand(inst.src, {"reg", "mem", "imm"})
    BY <1>3 DEF Translatable
  <2> QED
    BY <1>1, <2>1, <2>2, addConsumes DEF Consumes
<1>4. CASE inst.opcode = "push"
  <2>1. q = translate_push(p, inst.src)
    BY <1>1, <1>4 DEF Translated
  <2>2. IsOperand(inst.src, {"reg", "mem", "imm"})
    BY <1>4 DEF Translatable
  <2> QED
    BY <1>1, <2>1, <2>2, pushConsumes DEF Consumes
<1>5. CASE inst.opcode = "pop"
  <2>1. q = translate_pop(p, inst.dst)
    BY <1>1, <1>5 DEF Translated
  <2>2. IsOperand(inst.dst, {"reg", "mem"})
    BY <1>5 DEF Translatable
  <2> QED
    BY <1>1, <2>1, <2>2, popConsumes DEF Consumes
<1>6. CASE inst.opcode = "ret"
  <2>1. q = translate_ret(p)
    BY <1>1, <1>6 DEF Translated
  <2> QED
    BY <1>1, <2>1, retConsumes DEF Consumes
<1>7. CASE inst.opcode = "inc"
  <2>1. PICK src : src = ImmOp(1)
    OBVIOUS
  <2>2. q = translate_add(p, inst.dst, src)
    BY <1>1, <1>7, <2>1 DEF Translated, translate_inc
  <2>3. IsOperand(src, {"reg", "mem", "imm"})
    BY <2>1 DEF IsOperand, ImmOp
  <2>4. IsOperand(inst.dst, {"reg", "mem"})
    BY <1>7 DEF Translatable, IsOperand
  <2> QED
    BY <1>1, <2>2, <2>3, <2>4, addConsumes DEF Consumes
<1> QED
  BY <1>2, <1>3, <1>4, <1>5, <1>6, <1>7 DEF Translatable

-----------------------------------------------------------------------------
(* The whole translation, from a program that has the registers only.      *)

LEMMA NoCodeBuilds == Building(NoCode, {})
<1>1. PICK n, p : n = Registers /\ p = NoCode
  OBVIOUS
<1>2. n \in Nat /\ n >= 2
  BY <1>1, StraightCodeAssumption
<1>3. /\ p.vals = [r \in 1..n |-> [op |-> "reg", args |-> <<>>, word |-> 0]]
      /\ p.users = [r \in 1..n |-> <<>>]
      /\ p.body = <<>>
      /\ p = [vals |-> p.vals, users |-> p.users, body |-> p.body]
  BY <1>1 DEF NoCode
<1>4. DOMAIN p.vals = 1..n /\ DOMAIN p.users = 1..n
  BY <1>3
<1>5. \A v \in 1..n : p.vals[v] = [op |-> "reg", args |-> <<>>, word |-> 0] /\ p.users[v] = <<>>
  BY <1>3
<1>6. \A v \in 1..n : Op(p, v) = "reg" /\ Args(p, v) = <<>>
  BY <1>5 DEF Op, Args
<1>7. Shaped(p)
  <2>1. p.vals \in Seq(ToSet(p.vals))
    <3>1. \A v \in 1..n : p.vals[v] \in ToSet(p.vals)
      BY <1>4 DEF ToSet
    <3>2. PICK S, f : S = ToSet(p.vals) /\ f = p.vals
      OBVIOUS
    <3>3. f = [v \in 1..n |-> f[v]] /\ \A v \in 1..n : f[v] \in S
      BY <1>3, <3>1, <3>2
    <3>4. f \in Seq(S)
      BY <1>2, <3>3, IsASeq
    <3> QED
      BY <3>2, <3>4
  <2>2. p.users \in Seq(Seq(DOMAIN p.vals))
    <3>1. PICK S, f : S = Seq(DOMAIN p.vals) /\ f = p.users
      OBVIOUS
    <3>2. <<>> \in S
      BY <3>1, EmptySeq
    <3>3. f = [v \in 1..n |-> f[v]] /\ \A v \in 1..n : f[v] \in S
      BY <1>3, <1>5, <3>1, <3>2
    <3>4. f \in Seq(S)
      BY <1>2, <3>3, IsASeq
    <3> QED
      BY <3>1, <3>4
  <2> QED
    BY <1>3, <1>4, <2>1, <2>2 DEF Shaped, AreLists
<1>8. Typed(p)
  <2>1. p.body \in Seq(DOMAIN p.vals)
    BY <1>3, EmptySeq
  <2>2. ASSUME NEW v \in DOMAIN p.vals PROVE IsValue(p.vals[v], DOMAIN p.vals)
    <3>1. PICK x : x = p.vals[v]
      OBVIOUS
    <3>2. x = [op |-> "reg", args |-> <<>>, word |-> 0]
      BY <1>4, <1>5, <3>1
    <3>3. x.op = "reg" /\ x.args = <<>> /\ x.word = 0
      BY <3>2
    <3>4. Arity("reg") = 0 /\ "reg" \in Ops
      BY DEF Arity, Binaries, Ops
    <3>5. <<>> \in Seq(DOMAIN p.vals) /\ Len(<<>>) = 0
      BY EmptySeq
    <3> QED
      BY <3>1, <3>2, <3>3, <3>4, <3>5 DEF IsValue
  <2> QED
    BY <1>7, <2>1, <2>2 DEF Typed
<1>9. Linked(p)
  <2>1. ASSUME NEW u \in DOMAIN p.vals, NEW v \in DOMAIN p.vals PROVE Times(p.users[u], v) = Times(Args(p, v), u)
    <3>1. p.users[u] = <<>> /\ Args(p, v) = <<>>
      BY <1>4, <1>5, <1>6
    <3>2. Times(<<>>, v) = 0 /\ Times(<<>>, u) = 0
      BY TimesInNone
    <3> QED
      BY <3>1, <3>2
  <2> QED
    BY <2>1 DEF Linked
<1>10. Unusable(p)
  BY <1>4, <1>5 DEF Unusable
<1>11. ToSet(p.body) = {}
  BY <1>3, TimesInNone
<1>12. Bodied(p)
  <2>1. IsInjective(p.body)
    BY <1>3 DEF IsInjective
  <2>2. \A v \in DOMAIN p.vals : Op(p, v) \notin InstOps
    BY <1>4, <1>6 DEF InstOps
  <2> QED
    BY <1>11, <2>1, <2>2 DEF Bodied
<1>13. Ordered(p) /\ AllocsFirst(p)
  BY <1>11 DEF Ordered, AllocsFirst
<1>14. OwnConstants(p, SumsOf(p))
  BY <1>4, <1>6 DEF OwnConstants, Owns, Binaries
<1>15. RegistersFirst(p)
  BY <1>1, <1>4, <1>6 DEF RegistersFirst
<1>16. Sound(p, SumsOf(p))
  BY <1>8, <1>9, <1>10, <1>12, <1>13, <1>14, <1>15 DEF Sound
<1>17. Pointed(p) /\ \A v \in DOMAIN p.vals : Op(p, v) \notin {"load", "add", "sub"}
  BY <1>4, <1>6 DEF Pointed, Binaries
<1> QED
  BY <1>1, <1>16, <1>17 DEF Building

(* The programs between the instructions.                                  *)
IsLifting(f, code, n) == f = [k \in 0..n |-> IF k = 0 THEN NoCode ELSE Translated(f[k-1], code[k])]

LEMMA LiftingExists ==
  ASSUME NEW code, NEW n \in Nat
  PROVE  \E f : IsLifting(f, code, n)
<1> DEFINE G == {m \in 0..n : \E f : IsLifting(f, code, m)}
<1>1. 0 \in G
  <2> DEFINE f == [k \in 0..0 |-> NoCode]
  <2>1. \A k \in 0..0 : k = 0
    OBVIOUS
  <2>2. f = [k \in 0..0 |-> IF k = 0 THEN NoCode ELSE Translated(f[k-1], code[k])]
    BY <2>1
  <2>3. IsLifting(f, code, 0)
    BY <2>2 DEF IsLifting
  <2> QED
    BY <2>3
<1>2. ASSUME NEW m \in 0..(n-1), m \in G PROVE m + 1 \in G
  <2>1. PICK f : IsLifting(f, code, m)
    BY <1>2
  <2> DEFINE g == [k \in 0..(m+1) |-> IF k = m + 1 THEN Translated(f[m], code[m+1]) ELSE f[k]]
             F(k) == IF k = 0 THEN NoCode ELSE Translated(g[k-1], code[k])
  <2>2. m \in Nat /\ m + 1 \in 0..n
    OBVIOUS
  <2>3. \A k \in 0..m : f[k] = IF k = 0 THEN NoCode ELSE Translated(f[k-1], code[k])
    BY <2>1 DEF IsLifting
  <2>4. \A k \in 0..m : g[k] = f[k]
    BY <2>2
  <2>5. g[m+1] = Translated(f[m], code[m+1])
    BY <2>2
  <2>6. ASSUME NEW k \in 0..(m+1) PROVE g[k] = F(k)
    <3>1. CASE k = m + 1
      <4>1. g[k-1] = f[m] /\ k # 0
        BY <2>2, <2>4, <3>1
      <4> HIDE DEF g
      <4> QED
        BY <2>5, <3>1, <4>1
    <3>2. CASE k = 0
      <4>1. g[k] = f[0] /\ f[0] = NoCode
        BY <2>2, <2>3, <2>4, <3>2
      <4> HIDE DEF g
      <4> QED
        BY <3>2, <4>1
    <3>3. CASE k \in 1..m
      <4>1. k \in 0..m /\ k - 1 \in 0..m /\ k # 0
        BY <2>2, <3>3
      <4>2. g[k] = f[k] /\ g[k-1] = f[k-1]
        BY <2>4, <4>1
      <4>3. f[k] = Translated(f[k-1], code[k])
        BY <2>3, <4>1
      <4> HIDE DEF g
      <4> QED
        BY <4>1, <4>2, <4>3
    <3> QED
      BY <2>2, <3>1, <3>2, <3>3
  <2>7. g = [k \in 0..(m+1) |-> g[k]]
    OBVIOUS
  <2>8. g = [k \in 0..(m+1) |-> F(k)]
    <3> HIDE DEF g, F
    <3> QED
      BY <2>6, <2>7
  <2>9. IsLifting(g, code, m + 1)
    BY <2>8, Zenon DEF IsLifting
  <2> QED
    BY <2>2, <2>9
<1>3. n \in 0..n
  OBVIOUS
<1>4. 0..n \subseteq G
  <2> HIDE DEF G
  <2> QED
    BY <1>1, <1>2, IntervalInduction
<1> QED
  BY <1>3, <1>4

(* The lifted program is sound, and all it computes is used.               *)
LEMMA LiftedBuilds ==
  ASSUME NEW code \in Codes
  PROVE  Building(Lifted(code), {})
<1>1. PICK n : n = Len(code)
  OBVIOUS
<1>2. n \in Nat /\ DOMAIN code = 1..n /\ \A k \in 1..n : Translatable(code[k])
  BY <1>1, PassesAssumption, LenProperties
<1>3. PICK f : /\ Lifted(code) = f[n]
               /\ \A k \in 0..n : f[k] = IF k = 0 THEN NoCode ELSE Translated(f[k-1], code[k])
  <2> DEFINE f == CHOOSE g : IsLifting(g, code, Len(code))
  <2>1. IsLifting(f, code, Len(code))
    BY <1>1, <1>2, LiftingExists, Zenon
  <2>2. Lifted(code) = f[Len(code)]
    BY Zenon DEF Lifted, IsLifting
  <2> HIDE DEF f
  <2>3. \A k \in 0..n : f[k] = IF k = 0 THEN NoCode ELSE Translated(f[k-1], code[k])
    BY <1>1, <2>1 DEF IsLifting
  <2> QED
    BY <1>1, <2>2, <2>3
<1> DEFINE G == {m \in 0..n : Building(f[m], {})}
<1>4. 0 \in G
  <2>1. 0 \in 0..n
    BY <1>2
  <2>2. f[0] = NoCode
    BY <1>3, <2>1
  <2> QED
    BY <2>1, <2>2, NoCodeBuilds
<1>5. ASSUME NEW m \in 0..(n-1), m \in G PROVE m + 1 \in G
  <2>1. m + 1 \in 1..n /\ m + 1 \in 0..n /\ (m + 1) - 1 = m /\ m + 1 # 0
    BY <1>2
  <2>2. f[m+1] = Translated(f[m], code[m+1])
    BY <1>3, <2>1
  <2>3. Building(f[m+1], {})
    BY <1>2, <1>5, <2>1, <2>2, TranslatedBuilds
  <2> QED
    BY <2>1, <2>3
<1>6. 0..n \subseteq G
  <2> HIDE DEF G
  <2> QED
    BY <1>2, <1>4, <1>5, IntervalInduction
<1>7. n \in 0..n
  BY <1>2
<1> QED
  BY <1>3, <1>6, <1>7

-----------------------------------------------------------------------------
(* The inductive invariant: the program is sound, and what each pass keeps *)
(* fits it while the pass runs.                                            *)

(* What the maps and queues of each pass hold while it runs, and that they *)
(* are empty otherwise.                                                    *)
SimulatorInv ==
  /\ running = "stack-simulator" => MapsIn(ir, load_map, store_map, alloc_map)
  /\ running \notin {"stack-simulator", "threw"} => load_map = NoMap /\ store_map = NoMap /\ alloc_map = NoMap

LocaliserInv == phys_regs \in Seq(1..Registers)

PrunerInv == running = "trivially-dead-inst-pruner" => Pruned(ir, work_queue)

PromoterInv == running = "alloc-promoter stores" => Storing(ir, stores)

FolderInv ==
  /\ running = "constant-folder" => Folding(ir, fold_queue, remove_list, meaning.sums)
  /\ running \notin {"constant-folder", "threw", "aborted"} => remove_list = <<>>

AbortInv == running = "aborted" => IF remove_list = <<>> THEN \E i : SelfStore(ir, i) ELSE Twice(remove_list, meaning.sums)

(* The inductive invariant.                                                *)
IInv ==
  /\ Sound(ir, meaning.sums)
  /\ SimulatorInv
  /\ LocaliserInv
  /\ PrunerInv
  /\ PromoterInv
  /\ FolderInv
  /\ AbortInv
  /\ reported = FALSE

(* The sums of the code are its additions whose second operand is not a    *)
(* constant.                                                               *)
LEMMA BuiltSound ==
  ASSUME NEW S, Building(ir, S), meaning = Meaning(ir)
  PROVE  Sound(ir, meaning.sums)
<1>1. Sound(ir, SumsOf(ir))
  BY DEF Building
<1>2. meaning.sums = {i \in {j \in ToSet(ir.body) : Is(ir, j, Binaries)} : ~Is(ir, ir.vals[i].args[2], {"const"})}
  BY DEF Meaning
<1>3. ASSUME NEW i \in SumsOf(ir) PROVE i \in meaning.sums
  <2>1. i \in DOMAIN ir.vals /\ Op(ir, i) \in Binaries /\ Op(ir, Args(ir, i)[2]) # "const"
    BY DEF SumsOf
  <2>2. i \in ToSet(ir.body)
    BY <1>1, <2>1 DEF Sound, Bodied, Binaries, InstOps
  <2>3. i # Null
    BY <1>1, <2>1, ShapedFacts DEF Sound, Typed
  <2>4. Is(ir, i, Binaries) /\ ~Is(ir, ir.vals[i].args[2], {"const"})
    BY <2>1, <2>3 DEF Is, Op, Args
  <2> QED
    BY <1>2, <2>2, <2>4
<1> QED
  BY <1>1, <1>3, MoreSums

(* It holds at first, and each step keeps it.                              *)
LEMMA InitInv ==
  ASSUME Init
  PROVE  IInv
<1>1. Sound(ir, meaning.sums)
  <2>1. PICK code \in Codes : ir = Lifted(code)
    BY DEF Init
  <2>2. Building(ir, {})
    BY <2>1, LiftedBuilds
  <2> QED
    BY <2>2, BuiltSound DEF Init
<1>2. running = None /\ load_map = NoMap /\ store_map = NoMap /\ alloc_map = NoMap /\ phys_regs = <<>> /\ remove_list = <<>> /\ reported = FALSE
  BY DEF Init, SimulatorInit, LocaliserInit, FolderInit
<1>3. phys_regs \in Seq(1..Registers)
  BY <1>2, EmptySeq
<1> QED
  BY <1>1, <1>2, <1>3 DEF IInv, SimulatorInv, LocaliserInv, PrunerInv, PromoterInv, FolderInv, AbortInv, None

LEMMA RunPassKeeps ==
  ASSUME IInv, NEW p \in Passes, RunPass(p)
  PROVE  IInv'
<1>1. /\ Sound(ir, meaning.sums) /\ running = None /\ reported = FALSE /\ reported' = reported /\ meaning' = meaning
      /\ load_map = NoMap /\ store_map = NoMap /\ alloc_map = NoMap
      /\ phys_regs \in Seq(1..Registers) /\ remove_list = <<>>
  BY DEF IInv, SimulatorInv, LocaliserInv, FolderInv, RunPass, None
<1>2. CASE p = "stack-simulator"
  <2>1. Begin /\ phys_regs' = phys_regs /\ remove_list' = remove_list
    BY <1>2 DEF RunPass, folderVars
  <2>2. ir' = ir /\ running' = "stack-simulator"
    BY <2>1 DEF Begin
  <2>3. MapsIn(ir, load_map', store_map', alloc_map')
    BY <1>1, <2>1, BeginSimulates
  <2> QED
    BY <1>1, <2>1, <2>2, <2>3 DEF IInv, SimulatorInv, LocaliserInv, PrunerInv, PromoterInv, FolderInv, AbortInv
<1>3. CASE p = "register-localiser"
  <2>1. BeginLocalising /\ load_map' = load_map /\ store_map' = store_map /\ alloc_map' = alloc_map /\ remove_list' = remove_list
    BY <1>3 DEF RunPass, folderVars, simulatorVars
  <2>2. ir' = ir /\ running' = "register-localiser" /\ phys_regs' = [r \in 1..Registers |-> r]
    BY <2>1 DEF BeginLocalising
  <2>3. phys_regs' \in Seq(1..Registers)
    <3>1. Registers \in Nat /\ \A r \in 1..Registers : r \in 1..Registers
      BY StraightCodeAssumption
    <3> QED
      BY <2>2, <3>1, IsASeq
  <2> QED
    BY <1>1, <2>1, <2>2, <2>3 DEF IInv, SimulatorInv, LocaliserInv, PrunerInv, PromoterInv, FolderInv, AbortInv
<1>4. CASE p = "trivially-dead-inst-pruner"
  <2>1. BeginPruning /\ load_map' = load_map /\ store_map' = store_map /\ alloc_map' = alloc_map /\ remove_list' = remove_list /\ phys_regs' = phys_regs
    BY <1>4 DEF RunPass, folderVars, simulatorVars
  <2>2. ir' = ir /\ running' = "trivially-dead-inst-pruner"
    BY <2>1 DEF BeginPruning
  <2>3. Pruned(ir, work_queue')
    BY <1>1, <2>1, BeginPrunes
  <2> QED
    BY <1>1, <2>1, <2>2, <2>3 DEF IInv, SimulatorInv, LocaliserInv, PrunerInv, PromoterInv, FolderInv, AbortInv
<1>5. CASE p = "alloc-promoter"
  <2>1. BeginPromoting /\ load_map' = load_map /\ store_map' = store_map /\ alloc_map' = alloc_map /\ remove_list' = remove_list /\ phys_regs' = phys_regs
    BY <1>5 DEF RunPass, folderVars, simulatorVars
  <2>2. ir' = ir /\ running' = "alloc-promoter"
    BY <2>1 DEF BeginPromoting
  <2> QED
    BY <1>1, <2>1, <2>2 DEF IInv, SimulatorInv, LocaliserInv, PrunerInv, PromoterInv, FolderInv, AbortInv
<1>6. CASE p = "constant-folder"
  <2>1. BeginFolding /\ load_map' = load_map /\ store_map' = store_map /\ alloc_map' = alloc_map /\ phys_regs' = phys_regs
    BY <1>6 DEF RunPass, simulatorVars
  <2>2. ir' = ir /\ running' = "constant-folder"
    BY <2>1 DEF BeginFolding
  <2>3. Folding(ir, fold_queue', remove_list', meaning.sums)
    BY <1>1, <2>1, BeginFolds
  <2> QED
    BY <1>1, <2>1, <2>2, <2>3 DEF IInv, SimulatorInv, LocaliserInv, PrunerInv, PromoterInv, FolderInv, AbortInv
<1> QED
  BY <1>2, <1>3, <1>4, <1>5, <1>6 DEF Passes

LEMMA SimulatorNextKeeps ==
  ASSUME IInv, SimulatorNext, UNCHANGED <<phys_regs, work_queue, promoterVars, folderVars>>, UNCHANGED <<explicit, reported, meaning>>
  PROVE  IInv'
<1>1. /\ Sound(ir, meaning.sums) /\ running = "stack-simulator" /\ reported = FALSE /\ reported' = reported /\ meaning' = meaning
      /\ MapsIn(ir, load_map, store_map, alloc_map)
      /\ phys_regs \in Seq(1..Registers) /\ remove_list = <<>> /\ phys_regs' = phys_regs /\ remove_list' = remove_list
  <2>1. running = "stack-simulator"
    BY DEF SimulatorNext, ReplaceStore, ReplaceLoad, End
  <2> QED
    BY <2>1 DEF IInv, SimulatorInv, LocaliserInv, FolderInv, folderVars
<1>2. ASSUME NEW i \in DOMAIN store_map, ReplaceStore(i) PROVE IInv'
  <2>1. Sound(ir', meaning.sums) /\ MapsIn(ir', load_map', store_map', alloc_map')
    BY <1>1, <1>2, ReplaceStoreKeeps
  <2>2. running' = "stack-simulator"
    BY <1>1, <1>2 DEF ReplaceStore
  <2> QED
    BY <1>1, <2>1, <2>2 DEF IInv, SimulatorInv, LocaliserInv, PrunerInv, PromoterInv, FolderInv, AbortInv
<1>3. ASSUME NEW i \in DOMAIN load_map, ReplaceLoad(i) PROVE IInv'
  <2>1. Sound(ir', meaning.sums) /\ MapsIn(ir', load_map', store_map', alloc_map')
    BY <1>1, <1>3, ReplaceLoadKeeps
  <2>2. running' \in {"stack-simulator", "threw"}
    BY <1>1, <1>3 DEF ReplaceLoad
  <2> QED
    BY <1>1, <2>1, <2>2 DEF IInv, SimulatorInv, LocaliserInv, PrunerInv, PromoterInv, FolderInv, AbortInv
<1>4. ASSUME End PROVE IInv'
  BY <1>1, <1>4 DEF End, IInv, SimulatorInv, LocaliserInv, PrunerInv, PromoterInv, FolderInv, AbortInv, None
<1> QED
  BY <1>2, <1>3, <1>4 DEF SimulatorNext

LEMMA LocaliserNextKeeps ==
  ASSUME IInv, LocaliserNext, UNCHANGED <<simulatorVars, work_queue, promoterVars, folderVars>>, UNCHANGED <<explicit, reported, meaning>>
  PROVE  IInv'
<1>1. /\ Sound(ir, meaning.sums) /\ running = "register-localiser" /\ reported = FALSE /\ reported' = reported /\ meaning' = meaning
      /\ load_map = NoMap /\ store_map = NoMap /\ alloc_map = NoMap
      /\ load_map' = load_map /\ store_map' = store_map /\ alloc_map' = alloc_map
      /\ phys_regs \in Seq(1..Registers) /\ remove_list = <<>> /\ remove_list' = remove_list
  <2>1. running = "register-localiser"
    BY DEF LocaliserNext, Localise, EndLocalising
  <2> QED
    BY <2>1 DEF IInv, SimulatorInv, LocaliserInv, FolderInv, folderVars, simulatorVars
<1>2. ASSUME Localise PROVE IInv'
  <2>1. phys_regs # <<>> /\ phys_regs' = Tail(phys_regs) /\ running' = running
    BY <1>2 DEF Localise
  <2>2. PICK reg : reg = Head(phys_regs)
    OBVIOUS
  <2>3. reg \in 1..Registers /\ phys_regs' \in Seq(1..Registers)
    BY <1>1, <2>1, <2>2, HeadTailProperties
  <2>4. ir' = Destroyed(ReplacedAll(Localised(reg), reg, Null), reg)
    BY <1>2, <2>2 DEF Localise
  <2>5. Sound(ir', meaning.sums)
    BY <1>1, <2>3, <2>4, LocaliseKeeps
  <2> QED
    BY <1>1, <2>1, <2>3, <2>5 DEF IInv, SimulatorInv, LocaliserInv, PrunerInv, PromoterInv, FolderInv, AbortInv
<1>3. ASSUME EndLocalising PROVE IInv'
  BY <1>1, <1>3 DEF EndLocalising, IInv, SimulatorInv, LocaliserInv, PrunerInv, PromoterInv, FolderInv, AbortInv, None
<1> QED
  BY <1>2, <1>3 DEF LocaliserNext

LEMMA PrunerNextKeeps ==
  ASSUME IInv, PrunerNext, UNCHANGED <<simulatorVars, phys_regs, promoterVars, folderVars>>, UNCHANGED <<explicit, reported, meaning>>
  PROVE  IInv'
<1>1. /\ Sound(ir, meaning.sums) /\ running = "trivially-dead-inst-pruner" /\ reported = FALSE /\ reported' = reported /\ meaning' = meaning
      /\ load_map = NoMap /\ store_map = NoMap /\ alloc_map = NoMap
      /\ load_map' = load_map /\ store_map' = store_map /\ alloc_map' = alloc_map
      /\ phys_regs \in Seq(1..Registers) /\ phys_regs' = phys_regs /\ remove_list = <<>> /\ remove_list' = remove_list
      /\ Pruned(ir, work_queue)
  <2>1. running = "trivially-dead-inst-pruner"
    BY DEF PrunerNext, Prune, EndPruning
  <2> QED
    BY <2>1 DEF IInv, SimulatorInv, LocaliserInv, PrunerInv, FolderInv, folderVars, simulatorVars
<1>2. ASSUME Prune PROVE IInv'
  <2>1. Sound(ir', meaning.sums) /\ Pruned(ir', work_queue')
    BY <1>1, <1>2, PruneKeeps DEF Continues
  <2>2. running' = running
    BY <1>2 DEF Prune
  <2> QED
    BY <1>1, <2>1, <2>2 DEF IInv, SimulatorInv, LocaliserInv, PrunerInv, PromoterInv, FolderInv, AbortInv
<1>3. ASSUME EndPruning PROVE IInv'
  BY <1>1, <1>3 DEF EndPruning, IInv, SimulatorInv, LocaliserInv, PrunerInv, PromoterInv, FolderInv, AbortInv, None
<1> QED
  BY <1>2, <1>3 DEF PrunerNext

LEMMA PromoterNextKeeps ==
  ASSUME IInv, PromoterNext, UNCHANGED <<simulatorVars, phys_regs, work_queue, folderVars>>, UNCHANGED <<explicit, reported, meaning>>
  PROVE  IInv'
<1>1. /\ Sound(ir, meaning.sums) /\ running \in {"alloc-promoter", "alloc-promoter stores"} /\ reported = FALSE /\ reported' = reported /\ meaning' = meaning
      /\ load_map = NoMap /\ store_map = NoMap /\ alloc_map = NoMap
      /\ load_map' = load_map /\ store_map' = store_map /\ alloc_map' = alloc_map
      /\ phys_regs \in Seq(1..Registers) /\ phys_regs' = phys_regs /\ remove_list = <<>> /\ remove_list' = remove_list
  <2>1. running \in {"alloc-promoter", "alloc-promoter stores"}
    BY DEF PromoterNext, PromoteLoads, RemoveStores
  <2> QED
    BY <2>1 DEF IInv, SimulatorInv, LocaliserInv, FolderInv, folderVars, simulatorVars
<1>2. ASSUME PromoteLoads PROVE IInv'
  <2>1. Sound(ir', meaning.sums) /\ Storing(ir', stores')
    BY <1>1, <1>2, PromoteLoadsKeeps DEF Continues
  <2>2. running' = "alloc-promoter stores"
    BY <1>2 DEF PromoteLoads
  <2> QED
    BY <1>1, <2>1, <2>2 DEF IInv, SimulatorInv, LocaliserInv, PrunerInv, PromoterInv, FolderInv, AbortInv
<1>3. ASSUME RemoveStores PROVE IInv'
  <2>1. running = "alloc-promoter stores"
    BY <1>3 DEF RemoveStores
  <2>2. Storing(ir, stores)
    BY <2>1 DEF IInv, PromoterInv
  <2>3. \/ running' = "aborted" /\ ir' = ir /\ \E i : SelfStore(ir, i)
        \/ Continues(ir', ir, meaning.sums) /\ running' \in {"alloc-promoter", None} /\ stores' = <<>>
    BY <1>1, <1>3, <2>2, RemoveStoresKeeps
  <2>4. CASE running' = "aborted" /\ ir' = ir /\ \E i : SelfStore(ir, i)
    BY <1>1, <2>4 DEF IInv, SimulatorInv, LocaliserInv, PrunerInv, PromoterInv, FolderInv, AbortInv
  <2>5. CASE Continues(ir', ir, meaning.sums) /\ running' \in {"alloc-promoter", None}
    BY <1>1, <2>5 DEF Continues, IInv, SimulatorInv, LocaliserInv, PrunerInv, PromoterInv, FolderInv, AbortInv, None
  <2> QED
    BY <2>3, <2>4, <2>5
<1> QED
  BY <1>2, <1>3 DEF PromoterNext

LEMMA FolderNextKeeps ==
  ASSUME IInv, FolderNext, UNCHANGED <<simulatorVars, phys_regs, work_queue, promoterVars>>, UNCHANGED <<explicit, reported, meaning>>
  PROVE  IInv'
<1>1. /\ Sound(ir, meaning.sums) /\ running = "constant-folder" /\ reported = FALSE /\ reported' = reported /\ meaning' = meaning
      /\ load_map = NoMap /\ store_map = NoMap /\ alloc_map = NoMap
      /\ load_map' = load_map /\ store_map' = store_map /\ alloc_map' = alloc_map
      /\ phys_regs \in Seq(1..Registers) /\ phys_regs' = phys_regs
      /\ Folding(ir, fold_queue, remove_list, meaning.sums)
  <2>1. running = "constant-folder"
    BY DEF FolderNext, FoldNext, EndFolding
  <2> QED
    BY <2>1 DEF IInv, SimulatorInv, LocaliserInv, FolderInv, simulatorVars
<1>2. ASSUME FoldNext PROVE IInv'
  <2>1. Sound(ir', meaning.sums) /\ Folding(ir', fold_queue', remove_list', meaning.sums)
    BY <1>1, <1>2, FoldNextKeeps DEF Continues
  <2>2. running' = running
    BY <1>2 DEF FoldNext
  <2> QED
    BY <1>1, <2>1, <2>2 DEF IInv, SimulatorInv, LocaliserInv, PrunerInv, PromoterInv, FolderInv, AbortInv
<1>3. ASSUME EndFolding PROVE IInv'
  <2>1. Sound(ir', meaning.sums)
    BY <1>1, <1>3, EndFoldingKeeps DEF Continues
  <2>2. \/ running' = None /\ remove_list' = <<>>
        \/ running' = "aborted" /\ Twice(remove_list', meaning.sums)
    BY <1>1, <1>3, EndFoldingKeeps
  <2>3. CASE running' = None /\ remove_list' = <<>>
    BY <1>1, <2>1, <2>3 DEF IInv, SimulatorInv, LocaliserInv, PrunerInv, PromoterInv, FolderInv, AbortInv, None
  <2>4. CASE running' = "aborted" /\ Twice(remove_list', meaning.sums)
    <3>1. remove_list' # <<>>
      BY <2>4, TimesInNone DEF Twice
    <3> QED
      BY <1>1, <2>1, <2>4, <3>1 DEF IInv, SimulatorInv, LocaliserInv, PrunerInv, PromoterInv, FolderInv, AbortInv
  <2> QED
    BY <2>2, <2>3, <2>4
<1> QED
  BY <1>2, <1>3 DEF FolderNext

LEMMA VerifyKeeps ==
  ASSUME IInv, Verify
  PROVE  IInv'
<1>1. reported' = FALSE
  BY NothingToReport DEF IInv, Verify
<1>2. ir' = ir /\ running' = running /\ load_map' = load_map /\ store_map' = store_map /\ alloc_map' = alloc_map
      /\ phys_regs' = phys_regs /\ work_queue' = work_queue /\ stores' = stores /\ fold_queue' = fold_queue /\ remove_list' = remove_list
      /\ meaning' = meaning
  BY DEF Verify, passVars, simulatorVars, promoterVars, folderVars
<1> QED
  BY <1>1, <1>2 DEF IInv, SimulatorInv, LocaliserInv, PrunerInv, PromoterInv, FolderInv, AbortInv

LEMMA StutterKeeps ==
  ASSUME IInv, UNCHANGED vars
  PROVE  IInv'
<1>1. ir' = ir /\ running' = running /\ load_map' = load_map /\ store_map' = store_map /\ alloc_map' = alloc_map
      /\ phys_regs' = phys_regs /\ work_queue' = work_queue /\ stores' = stores /\ fold_queue' = fold_queue /\ remove_list' = remove_list
      /\ reported' = reported /\ meaning' = meaning
  BY DEF vars, passVars, simulatorVars, promoterVars, folderVars
<1> QED
  BY <1>1 DEF IInv, SimulatorInv, LocaliserInv, PrunerInv, PromoterInv, FolderInv, AbortInv

(* Whatever code is lifted, and in whatever order the passes run and the   *)
(* Verifier between them, the program stays sound.                         *)
THEOREM Invariance == Spec => []IInv
<1>1. Init => IInv
  BY InitInv
<1>2. IInv /\ [Next]_vars => IInv'
  <2>1. ASSUME IInv, Next PROVE IInv'
    <3>1. ASSUME InPass PROVE IInv'
      <4>1. UNCHANGED <<explicit, reported, meaning>>
        BY <3>1 DEF InPass
      <4>2. CASE SimulatorNext /\ UNCHANGED <<phys_regs, work_queue, promoterVars, folderVars>>
        BY <2>1, <4>1, <4>2, SimulatorNextKeeps
      <4>3. CASE LocaliserNext /\ UNCHANGED <<simulatorVars, work_queue, promoterVars, folderVars>>
        BY <2>1, <4>1, <4>3, LocaliserNextKeeps
      <4>4. CASE PrunerNext /\ UNCHANGED <<simulatorVars, phys_regs, promoterVars, folderVars>>
        BY <2>1, <4>1, <4>4, PrunerNextKeeps
      <4>5. CASE PromoterNext /\ UNCHANGED <<simulatorVars, phys_regs, work_queue, folderVars>>
        BY <2>1, <4>1, <4>5, PromoterNextKeeps
      <4>6. CASE FolderNext /\ UNCHANGED <<simulatorVars, phys_regs, work_queue, promoterVars>>
        BY <2>1, <4>1, <4>6, FolderNextKeeps
      <4> QED
        BY <3>1, <4>2, <4>3, <4>4, <4>5, <4>6 DEF InPass
    <3>2. ASSUME NEW p \in Passes, RunPass(p) PROVE IInv'
      BY <2>1, <3>2, RunPassKeeps
    <3> QED
      BY <2>1, <3>1, <3>2, VerifyKeeps DEF Next
  <2> QED
    BY <2>1, StutterKeeps
<1> QED
  BY <1>1, <1>2, PTL DEF Spec

(* In a sound program no operand is null or freed, and the user lists have *)
(* one entry for each use.                                                 *)
LEMMA SoundUsersMatch ==
  ASSUME NEW sums, Sound(ir, sums)
  PROVE  UsersMatch
<1>1. \A u \in DOMAIN ir.vals : ir.users[u] \in Seq(DOMAIN ir.vals)
  BY ShapedFacts DEF Sound, Typed
<1>2. ASSUME NEW v \in Live, NEW u \in ToSet(ir.vals[v].args)
      PROVE  u \in Live /\ Times(ir.users[u], v) = Times(ir.vals[v].args, u)
  <2>1. v \in DOMAIN ir.vals /\ u \in ToSet(Args(ir, v))
    BY <1>2 DEF Live, Args
  <2>2. u \in DOMAIN ir.vals /\ Op(ir, u) \notin Mute
    BY <2>1, OperandsSpeak
  <2>3. u \in Live
    BY <2>2 DEF Live, Op, Mute
  <2>4. Times(ir.users[u], v) = Times(Args(ir, v), u)
    BY <2>1, <2>2 DEF Sound, Linked
  <2> QED
    BY <2>3, <2>4 DEF Args
<1>3. ASSUME NEW v \in Live, NEW i \in ToSet(ir.users[v])
      PROVE  i \in Live /\ Contains(ir.vals[i].args, v)
  <2>1. v \in DOMAIN ir.vals /\ i \in DOMAIN ir.vals
    BY <1>3, ShapedFacts DEF Live, Sound, Typed
  <2>2. v \in ToSet(Args(ir, i))
    BY <1>3, <2>1, UsersOfOperands DEF Sound
  <2>3. i \in ToSet(ir.body) /\ Op(ir, i) \in InstOps \ {"alloc"}
    BY <2>1, <2>2, UsersInBody
  <2>4. i \in Live
    BY <2>1, <2>3 DEF Live, Op, InstOps
  <2>5. Args(ir, i) \in Seq(DOMAIN ir.vals)
    BY <2>1, TypedFacts DEF Sound
  <2>6. Contains(Args(ir, i), v)
    BY <2>2, <2>5, TimesIsCounted
  <2> QED
    BY <2>4, <2>6 DEF Args
<1> QED
  BY <1>2, <1>3 DEF UsersMatch

LEMMA SelfStoreNotInjective ==
  ASSUME NEW sums, Sound(ir, sums), NEW i, SelfStore(ir, i)
  PROVE  i \in ToSet(ir.body) /\ Is(ir, i, {"store"}) /\ ~IsInjective(ir.vals[i].args)
<1>1. i \in ToSet(ir.body) /\ Op(ir, i) = "store" /\ Args(ir, i)[1] = Args(ir, i)[2]
  BY DEF SelfStore, InBody
<1>2. i \in DOMAIN ir.vals /\ i # Null
  BY <1>1, TypedFacts, ShapedFacts DEF Sound, Typed
<1>3. DOMAIN Args(ir, i) = 1..2
  BY <1>1, <1>2, TypedFacts DEF Sound, Arity
<1>4. ~IsInjective(Args(ir, i))
  BY <1>1, <1>3 DEF IsInjective
<1> QED
  BY <1>1, <1>2, <1>4 DEF Is, Op, Args

(* The user lists match the operands after every step of every pass, for   *)
(* any code and number of registers: Value::add_user and remove_user are   *)
(* called for every operand the passes set.                                *)
THEOREM UsersMatchAlways == Spec => []UsersMatch
<1>1. IInv => UsersMatch
  BY SoundUsersMatch DEF IInv
<1> QED
  BY <1>1, Invariance, PTL

(* The Verifier never logs "Instruction does not dominate all uses!": what *)
(* a pass inserts or replaces by is always before what uses it.            *)
THEOREM VerifiedAlways == Spec => []Verified
<1>1. IInv => Verified
  BY DEF IInv, Verified
<1> QED
  BY <1>1, Invariance, PTL

(* The TriviallyDeadInstPruner's one walk from the last instruction to the *)
(* first leaves none that is dead, although it removes without looking at  *)
(* the operands again.                                                     *)
THEOREM DeadGoneAlways == Spec => []DeadGone
<1>1. IInv => DeadGone
  <2> SUFFICES ASSUME IInv, running = "trivially-dead-inst-pruner", work_queue = <<>>,
                      NEW i \in ToSet(ir.body), ir.users[i] = <<>>
               PROVE  Is(ir, i, {"store", "ret"})
    BY DEF DeadGone
  <2>1. Sound(ir, meaning.sums) /\ Pruned(ir, work_queue)
    BY DEF IInv, PrunerInv
  <2>2. PICK k \in DOMAIN ir.body : ir.body[k] = i
    BY DEF ToSet
  <2>3. k > Len(work_queue)
    <3>1. DOMAIN ir.body = 1..Len(ir.body) /\ Len(ir.body) \in Nat
      BY <2>1, TypedFacts DEF Sound
    <3>2. Len(work_queue) = 0
      BY EmptySeq
    <3> QED
      BY <3>1, <3>2
  <2>4. ~DeadIn(ir, i)
    BY <2>1, <2>2, <2>3 DEF Pruned
  <2>5. i # Null
    BY <2>1, TypedFacts, ShapedFacts DEF Sound, Typed
  <2> QED
    BY <2>4, <2>5 DEF DeadIn, Is, Op
<1> QED
  BY <1>1, Invariance, PTL

(* For any code, what a pass removes twice or while it is used had two     *)
(* values to compute with: the AllocPromoter removes such a store only if  *)
(* it stores a variable's address into that variable, and the              *)
(* ConstantFolder removes twice only an addition of two values that are    *)
(* not in the code. Nothing else is ever queued by a fold that was queued  *)
(* before, or is used once it is on remove_list.                           *)
THEOREM AbortsOnTwoValuesAlways == Spec => []AbortsOnTwoValues
<1>1. ASSUME IInv PROVE AbortsOnTwoValues
  <2> SUFFICES ASSUME running = "aborted"
               PROVE  IF remove_list = <<>>
                      THEN \E i \in ToSet(ir.body) : Is(ir, i, {"store"}) /\ ~IsInjective(ir.vals[i].args)
                      ELSE \E i \in meaning.sums : Times(remove_list, i) > 1
    BY DEF AbortsOnTwoValues
  <2>1. CASE remove_list = <<>>
    <3>1. PICK i : SelfStore(ir, i)
      BY <1>1, <2>1 DEF IInv, AbortInv
    <3> QED
      BY <1>1, <2>1, <3>1, SelfStoreNotInjective DEF IInv
  <2>2. CASE remove_list # <<>>
    BY <1>1, <2>2 DEF IInv, AbortInv, Twice
  <2> QED
    BY <2>1, <2>2
<1> QED
  BY <1>1, Invariance, PTL

-----------------------------------------------------------------------------
(* Where the StackSimulator finds that an address comes from.              *)

(* find_root_value is defined by recursion over the operands, which ends   *)
(* since they come first.                                                  *)
Walks == Binaries \cup {"load", "store"}

IsRoots(root) == root = [v \in DOMAIN ir.vals |-> IF Is(ir, v, Walks) THEN root[ir.vals[v].args[1]] ELSE v]

(* How far a value is from the beginning of the body.                      *)
Height == [v \in DOMAIN ir.vals |-> IF v \in ToSet(ir.body) THEN Position(ir, v) ELSE 0]

LEMMA HeightFalls ==
  ASSUME NEW sums, Sound(ir, sums)
  PROVE  /\ Len(ir.body) \in Nat
         /\ Height \in [DOMAIN ir.vals -> 0..Len(ir.body)]
         /\ \A v \in DOMAIN ir.vals : Is(ir, v, Walks) =>
              Args(ir, v)[1] \in DOMAIN ir.vals /\ Height[Args(ir, v)[1]] < Height[v]
<1>1. Len(ir.body) \in Nat /\ DOMAIN ir.body = 1..Len(ir.body) /\ ir.body \in Seq(DOMAIN ir.vals) /\ IsInjective(ir.body)
  BY TypedFacts DEF Sound, Typed, Bodied
<1>2. ASSUME NEW v \in ToSet(ir.body) PROVE Position(ir, v) \in 1..Len(ir.body) /\ ir.body[Position(ir, v)] = v
  BY <1>1, <1>2, RemovedFromBlock
<1>3. ASSUME NEW v \in DOMAIN ir.vals PROVE (IF v \in ToSet(ir.body) THEN Position(ir, v) ELSE 0) \in 0..Len(ir.body)
  BY <1>1, <1>2
<1>4. Height \in [DOMAIN ir.vals -> 0..Len(ir.body)]
  BY <1>3 DEF Height
<1>5. ASSUME NEW v \in DOMAIN ir.vals, Is(ir, v, Walks)
      PROVE  Args(ir, v)[1] \in DOMAIN ir.vals /\ Height[Args(ir, v)[1]] < Height[v]
  <2>1. PICK u : u = Args(ir, v)[1]
    OBVIOUS
  <2>2. Op(ir, v) \in Walks
    BY <1>5 DEF Is, Op
  <2>3. u \in DOMAIN ir.vals /\ u \in ToSet(Args(ir, v))
    <3>1. 1 \in 1..Arity(Op(ir, v))
      BY <2>2 DEF Arity, Walks, Binaries
    <3> QED
      BY <2>1, <3>1, TypedFacts DEF Sound
  <2>4. v \in ToSet(ir.body)
    BY <2>2 DEF Sound, Bodied, InstOps, Walks, Binaries
  <2>5. PICK k, l : k = Height[u] /\ l = Height[v]
    OBVIOUS
  <2>6. l = Position(ir, v) /\ l \in 1..Len(ir.body)
    BY <1>2, <2>4, <2>5 DEF Height
  <2>7. CASE u \notin ToSet(ir.body)
    <3>1. k = 0
      BY <2>3, <2>5, <2>7 DEF Height
    <3> QED
      BY <1>1, <2>1, <2>3, <2>5, <2>6, <3>1
  <2>8. CASE u \in ToSet(ir.body)
    <3>1. k = Position(ir, u) /\ k \in 1..Len(ir.body) /\ ir.body[k] = u
      BY <1>2, <2>3, <2>5, <2>8 DEF Height
    <3>2. Before(ir.body, u, v)
      BY <2>3, <2>8 DEF Sound, Ordered
    <3>3. k < Position(ir, v)
      BY <1>1, <2>4, <3>1, <3>2, BeforePlace
    <3> QED
      BY <2>1, <2>3, <2>5, <2>6, <3>3
  <2> QED
    BY <2>7, <2>8
<1> QED
  BY <1>1, <1>4, <1>5

LEMMA RootsExist ==
  ASSUME NEW sums, Sound(ir, sums)
  PROVE  \E root : IsRoots(root)
<1>1. PICK D, M, Maps : D = DOMAIN ir.vals /\ M = Len(ir.body) /\ Maps = [D -> D]
  OBVIOUS
<1> DEFINE F == [g \in Maps |-> [v \in D |-> IF Is(ir, v, Walks) THEN g[Args(ir, v)[1]] ELSE v]]
<1>2. \A v \in D : Is(ir, v, Walks) => Args(ir, v)[1] \in D /\ Height[Args(ir, v)[1]] < Height[v]
  BY <1>1, HeightFalls
<1>3. \A g \in Maps : F[g] = [v \in D |-> IF Is(ir, v, Walks) THEN g[Args(ir, v)[1]] ELSE v]
  OBVIOUS
<1>4. F \in [Maps -> Maps]
  <2>1. ASSUME NEW g \in Maps PROVE [v \in D |-> IF Is(ir, v, Walks) THEN g[Args(ir, v)[1]] ELSE v] \in Maps
    <3>1. \A v \in D : (IF Is(ir, v, Walks) THEN g[Args(ir, v)[1]] ELSE v) \in D
      BY <1>1, <1>2
    <3> QED
      BY <1>1, <3>1
  <2> QED
    BY <2>1
<1>5. ASSUME NEW g \in Maps, NEW h \in Maps, NEW x \in D, \A y \in D : Height[y] < Height[x] => g[y] = h[y]
      PROVE  F[g][x] = F[h][x]
  <2>1. F[g][x] = IF Is(ir, x, Walks) THEN g[Args(ir, x)[1]] ELSE x
    BY <1>3
  <2>2. F[h][x] = IF Is(ir, x, Walks) THEN h[Args(ir, x)[1]] ELSE x
    BY <1>3
  <2> HIDE DEF F
  <2> QED
    BY <1>2, <1>5, <2>1, <2>2
<1>6. IsRecursion(F, Maps, D, M, Height)
  <2>1. M \in Nat /\ Height \in [D -> 0..M]
    BY <1>1, HeightFalls
  <2> HIDE DEF F
  <2> QED
    BY <1>4, <1>5, <2>1 DEF IsRecursion
<1>7. 1 \in D
  <2>1. 1 \in 1..Registers
    BY StraightCodeAssumption
  <2> QED
    BY <1>1, <2>1 DEF Sound, RegistersFirst
<1>8. PICK f \in Maps : F[f] = f
  <2> HIDE DEF F
  <2> QED
    BY <1>1, <1>6, <1>7, RecursionExists
<1>9. f = [v \in D |-> IF Is(ir, v, Walks) THEN f[Args(ir, v)[1]] ELSE v]
  BY <1>3, <1>8
<1>10. IsRoots(f)
  BY <1>1, <1>9, Zenon DEF IsRoots, Args
<1> QED
  BY <1>10

LEMMA RootIs ==
  ASSUME NEW sums, Sound(ir, sums)
  PROVE  \E root : /\ \A v : find_root_value(v) = root[v]
                   /\ \A v \in DOMAIN ir.vals : root[v] = IF Is(ir, v, Walks) THEN root[Args(ir, v)[1]] ELSE v
<1> DEFINE root == CHOOSE r : IsRoots(r)
<1>1. IsRoots(root)
  BY RootsExist, Zenon
<1>2. \A v : find_root_value(v) = root[v]
  BY Zenon DEF find_root_value, IsRoots, Walks
<1> HIDE DEF root
<1>3. \A v \in DOMAIN ir.vals : root[v] = IF Is(ir, v, Walks) THEN root[Args(ir, v)[1]] ELSE v
  BY <1>1 DEF IsRoots, Args
<1> QED
  BY <1>2, <1>3

(* What is found is a value, and a register where every address comes from *)
(* one.                                                                    *)
LEMMA RootFound ==
  ASSUME NEW sums, Sound(ir, sums), NEW v \in DOMAIN ir.vals
  PROVE  /\ find_root_value(v) \in DOMAIN ir.vals
         /\ Pointed(ir) /\ Op(ir, v) \in Movable \cup {"store"} => Op(ir, find_root_value(v)) = "reg"
<1>1. PICK root : /\ \A u : find_root_value(u) = root[u]
                  /\ \A u \in DOMAIN ir.vals : root[u] = IF Is(ir, u, Walks) THEN root[Args(ir, u)[1]] ELSE u
  BY RootIs
<1>2. PICK n, H : n = Len(ir.body) /\ H = Height
  OBVIOUS
<1>3. /\ n \in Nat /\ H \in [DOMAIN ir.vals -> 0..n]
      /\ \A u \in DOMAIN ir.vals : Is(ir, u, Walks) => Args(ir, u)[1] \in DOMAIN ir.vals /\ H[Args(ir, u)[1]] < H[u]
  BY <1>2, HeightFalls
<1>4. \A u \in DOMAIN ir.vals : Is(ir, u, Walks) <=> Op(ir, u) \in Walks
  BY ShapedFacts DEF Sound, Typed, Is, Op
<1> DEFINE Found(u) == /\ root[u] \in DOMAIN ir.vals
                       /\ Pointed(ir) /\ Op(ir, u) \in Movable \cup {"store"} => Op(ir, root[u]) = "reg"
           G == {m \in 0..n : \A u \in DOMAIN ir.vals : H[u] <= m => Found(u)}
<1>5. ASSUME NEW u \in DOMAIN ir.vals, Is(ir, u, Walks) => Found(Args(ir, u)[1]) PROVE Found(u)
  <2>1. CASE Is(ir, u, Walks)
    <3>1. PICK w : w = Args(ir, u)[1]
      OBVIOUS
    <3>2. root[u] = root[w] /\ Found(w)
      BY <1>1, <1>5, <2>1, <3>1
    <3>3. Pointed(ir) => Op(ir, w) \in Movable
      BY <1>4, <2>1, <3>1 DEF Pointed, Walks
    <3> QED
      BY <3>2, <3>3
  <2>2. CASE ~Is(ir, u, Walks)
    <3>1. root[u] = u
      BY <1>1, <2>2
    <3>2. Op(ir, u) \in Movable \cup {"store"} => Op(ir, u) = "reg"
      BY <1>4, <2>2 DEF Movable, Walks, Binaries
    <3> QED
      BY <3>1, <3>2
  <2> QED
    BY <2>1, <2>2
<1>6. 0 \in G
  <2>1. ASSUME NEW u \in DOMAIN ir.vals, H[u] <= 0 PROVE Found(u)
    <3>1. ~Is(ir, u, Walks)
      <4>1. SUFFICES ASSUME Is(ir, u, Walks) PROVE FALSE
        OBVIOUS
      <4>2. PICK w, k, l : w = Args(ir, u)[1] /\ k = H[w] /\ l = H[u]
        OBVIOUS
      <4>3. k \in 0..n /\ l \in 0..n /\ k < l /\ l <= 0
        BY <1>3, <2>1, <4>1, <4>2
      <4> QED
        BY <1>3, <4>3
    <3> HIDE DEF Found
    <3> QED
      BY <1>5, <3>1
  <2>2. 0 \in 0..n
    BY <1>3
  <2> HIDE DEF Found
  <2> QED
    BY <2>1, <2>2
<1>7. ASSUME NEW m \in 0..(n-1), m \in G PROVE m + 1 \in G
  <2> HIDE DEF Found
  <2>1. ASSUME NEW u \in DOMAIN ir.vals, H[u] <= m + 1 PROVE Found(u)
    <3>1. ASSUME Is(ir, u, Walks) PROVE Found(Args(ir, u)[1])
      <4>1. PICK w, k, l : w = Args(ir, u)[1] /\ k = H[w] /\ l = H[u]
        OBVIOUS
      <4>2. w \in DOMAIN ir.vals /\ k \in 0..n /\ l \in 0..n /\ k < l /\ l <= m + 1
        BY <1>3, <2>1, <3>1, <4>1
      <4>3. k <= m
        BY <1>3, <4>2
      <4> QED
        BY <1>7, <4>1, <4>2, <4>3
    <3> QED
      BY <1>5, <3>1
  <2>2. m + 1 \in 0..n
    BY <1>3
  <2> QED
    BY <2>1, <2>2
<1>8. n \in G
  <2>1. 0..n \subseteq G
    <3> HIDE DEF G
    <3> QED
      BY <1>3, <1>6, <1>7, IntervalInduction
  <2> QED
    BY <1>3, <2>1
<1>9. Found(v)
  <2>1. PICK l : l = H[v]
    OBVIOUS
  <2>2. l \in 0..n /\ l <= n
    BY <1>3, <2>1
  <2> HIDE DEF Found
  <2> QED
    BY <1>8, <2>1, <2>2
<1> QED
  BY <1>1, <1>9

-----------------------------------------------------------------------------
(* Before the StackSimulator and the RegisterLocaliser have run, what the  *)
(* code says of its loads and stores can be read off the program, and the  *)
(* other passes find nothing to do.                                        *)

(* What Meaning says of displacements, read off the program.               *)
Displaces(p, op) == {i \in ToSet(p.body) : Op(p, i) = op /\ Op(p, Args(p, i)[1]) \in Binaries}
OffsetOf(p, i) == p.vals[Args(p, Args(p, i)[1])[2]].word
StoredIn(p) == \A i \in Displaces(p, "load") : \E j \in Displaces(p, "store") : OffsetOf(p, j) = OffsetOf(p, i)

LEMMA MeaningStored ==
  ASSUME NEW sums, NEW p, Sound(p, sums)
  PROVE  Meaning(p).stored <=> StoredIn(p)
<1> DEFINE ofKind(ops) == {i \in ToSet(p.body) : Is(p, i, ops)}
           pointer(i) == p.vals[i].args[1]
           displaced == {i \in ofKind({"load", "store"}) : Is(p, pointer(i), Binaries)}
           offset(i) == p.vals[p.vals[pointer(i)].args[2]].word
           writes == displaced \cap ofKind({"store"})
           reads == displaced \ writes
<1>1. Meaning(p).stored <=> \A i \in reads : \E j \in writes : offset(j) = offset(i)
  BY DEF Meaning
<1>2. ASSUME NEW i \in ToSet(p.body) PROVE i \in DOMAIN p.vals /\ i # Null
  BY TypedFacts, ShapedFacts DEF Sound, Typed
<1>3. ASSUME NEW i \in ToSet(p.body), Op(p, i) \in {"load", "store"} PROVE pointer(i) = Args(p, i)[1] /\ pointer(i) # Null
  <2>1. 1 \in 1..Arity(Op(p, i))
    BY <1>3 DEF Arity, Binaries
  <2>2. Args(p, i)[1] \in DOMAIN p.vals
    BY <1>2, <2>1, TypedFacts DEF Sound
  <2>3. Null \notin DOMAIN p.vals
    BY ShapedFacts DEF Sound, Typed
  <2> QED
    BY <2>2, <2>3 DEF Args
<1>4. \A i : i \in writes <=> i \in Displaces(p, "store")
  BY <1>2, <1>3 DEF Displaces, Is, Op
<1>5. \A i : i \in reads <=> i \in Displaces(p, "load")
  BY <1>2, <1>3 DEF Displaces, Is, Op
<1>6. \A i : offset(i) = OffsetOf(p, i)
  BY DEF OffsetOf, Args
<1> HIDE DEF writes, reads, offset
<1> QED
  BY <1>1, <1>4, <1>5, <1>6 DEF StoredIn

(* That is what the StackSimulator collects from a translated program,     *)
(* whose addresses all come from registers; and once there are no          *)
(* registers it collects nothing.                                          *)
LEMMA OnStackOfPointed ==
  ASSUME NEW sums, Sound(ir, sums), Pointed(ir), NEW op \in {"load", "store"}
  PROVE  OnStack(op) = Displaces(ir, op) /\ \A i \in OnStack(op) : Offset(i) = OffsetOf(ir, i)
<1>1. ASSUME NEW i \in ToSet(ir.body)
      PROVE  /\ Is(ir, i, {op}) <=> Op(ir, i) = op
             /\ Op(ir, i) = op => is_phys_reg(find_root_value(i))
             /\ Op(ir, i) = op => (Is(ir, Pointer(i), Binaries) <=> Op(ir, Args(ir, i)[1]) \in Binaries)
  <2>1. i \in DOMAIN ir.vals /\ Null \notin DOMAIN ir.vals
    BY TypedFacts, ShapedFacts DEF Sound, Typed
  <2>2. Is(ir, i, {op}) <=> Op(ir, i) = op
    BY <2>1 DEF Is, Op
  <2>3. ASSUME Op(ir, i) = op PROVE is_phys_reg(find_root_value(i))
    <3>1. Op(ir, i) \in Movable \cup {"store"}
      BY <2>3 DEF Movable
    <3>2. find_root_value(i) \in DOMAIN ir.vals /\ Op(ir, find_root_value(i)) = "reg"
      BY <2>1, <3>1, RootFound
    <3> QED
      BY <2>1, <3>2 DEF is_phys_reg, Is, Op
  <2>4. ASSUME Op(ir, i) = op PROVE Is(ir, Pointer(i), Binaries) <=> Op(ir, Args(ir, i)[1]) \in Binaries
    <3>1. 1 \in 1..Arity(Op(ir, i))
      BY <2>4 DEF Arity, Binaries
    <3>2. Args(ir, i)[1] \in DOMAIN ir.vals
      BY <2>1, <3>1, TypedFacts DEF Sound
    <3> QED
      BY <2>1, <3>2 DEF Is, Op, Pointer, Args
  <2> QED
    BY <2>2, <2>3, <2>4
<1>2. OnStack(op) = Displaces(ir, op)
  BY <1>1 DEF OnStack, Displaces
<1>3. \A i : Offset(i) = OffsetOf(ir, i)
  BY DEF Offset, OffsetOf, Pointer, Args
<1> QED
  BY <1>2, <1>3

LEMMA OnStackOfVariables ==
  ASSUME NEW sums, Sound(ir, sums), \A r \in 1..Registers : Op(ir, r) # "reg", NEW op
  PROVE  OnStack(op) = {}
<1> SUFFICES ASSUME NEW i \in OnStack(op) PROVE FALSE
  OBVIOUS
<1>1. i \in ToSet(ir.body) /\ is_phys_reg(find_root_value(i))
  BY DEF OnStack
<1>2. find_root_value(i) \in DOMAIN ir.vals
  BY <1>1, TypedFacts, RootFound DEF Sound
<1>3. Op(ir, find_root_value(i)) = "reg"
  BY <1>1 DEF is_phys_reg, Is, Op
<1> QED
  BY <1>2, <1>3 DEF Sound, RegistersFirst

(* Nothing is done by the other passes before these two.                   *)
LEMMA PruneIdles ==
  ASSUME Building(ir, {}), Pruned(ir, work_queue), Prune
  PROVE  ir' = ir
<1>1. PICK queue, i : queue = work_queue /\ i = Last(queue)
  OBVIOUS
<1>2. queue \in Seq(DOMAIN ir.vals) /\ queue # <<>> /\ ir' = IF IsDead(i) THEN Removed(ir, i) ELSE ir
  BY <1>1 DEF Prune, Pruned
<1>3. i = queue[Len(queue)] /\ Len(queue) \in Nat \ {0}
  BY <1>1, <1>2, FrontAndLast
<1>4. Sound(ir, SumsOf(ir)) /\ i = ir.body[Len(queue)] /\ Len(queue) \in 1..Len(ir.body) /\ DOMAIN ir.body = 1..Len(ir.body)
  <2>1. Sound(ir, SumsOf(ir)) /\ Len(queue) <= Len(ir.body) /\ \A k \in 1..Len(queue) : queue[k] = ir.body[k]
    BY <1>1 DEF Building, Pruned
  <2>2. Len(ir.body) \in Nat /\ DOMAIN ir.body = 1..Len(ir.body)
    BY <2>1, TypedFacts DEF Sound
  <2> QED
    BY <1>3, <2>1, <2>2
<1>5. i \in ToSet(ir.body) /\ i \in DOMAIN ir.vals /\ i # Null
  <2>1. i \in ToSet(ir.body)
    BY <1>4 DEF ToSet
  <2> QED
    BY <1>4, <2>1, TypedFacts, ShapedFacts DEF Sound, Typed
<1>6. Op(ir, i) \in InstOps /\ Op(ir, i) # "alloc"
  BY <1>4, <1>5 DEF Sound, Bodied, Building, Pointed
<1>7. ~IsDead(i)
  BY <1>5, <1>6 DEF IsDead, Is, Op, InstOps, Building
<1> QED
  BY <1>2, <1>7

LEMMA NoVariables ==
  ASSUME Building(ir, {})
  PROVE  vars_map = {}
<1> SUFFICES ASSUME NEW a \in vars_map PROVE FALSE
  OBVIOUS
<1>1. a \in ToSet(ir.body) /\ Op(ir, a) = "alloc"
  BY DEF vars_map, Is, Op
<1>2. a \in DOMAIN ir.vals
  BY <1>1, TypedFacts DEF Sound, Building
<1> QED
  BY <1>1, <1>2 DEF Building, Pointed

LEMMA NothingWalked ==
  ASSUME Building(ir, {})
  PROVE  Walked.ir = ir
<1>1. PICK n : n = Len(ir.body)
  OBVIOUS
<1>2. n \in Nat
  BY <1>1, TypedFacts DEF Sound, Building
<1>3. PICK f : /\ Walked = f[n]
               /\ f[0] = AtFirst
               /\ \A k \in 1..n : f[k] = Visited(f[k-1], ir.body[k])
  BY <1>1, <1>2, WalkedIs
<1>4. \A i : Owner(i) = Null
  BY NoVariables DEF Owner
<1>5. \A i : Visited(AtFirst, i) = AtFirst
  <2>1. AtFirst.defs = << >> /\ DOMAIN << >> = {}
    BY DEF AtFirst
  <2> QED
    BY <1>4, <2>1 DEF Visited
<1> DEFINE G == {m \in 0..n : f[m] = AtFirst}
<1>6. 0 \in G
  BY <1>2, <1>3
<1>7. ASSUME NEW m \in 0..(n-1), m \in G PROVE m + 1 \in G
  <2>1. m + 1 \in 1..n /\ m + 1 \in 0..n /\ (m + 1) - 1 = m
    BY <1>2
  <2>2. f[m+1] = Visited(f[m], ir.body[m+1])
    BY <1>3, <2>1
  <2> QED
    BY <1>5, <1>7, <2>1, <2>2
<1>8. n \in G
  <2>1. 0..n \subseteq G
    <3> HIDE DEF G
    <3> QED
      BY <1>2, <1>6, <1>7, IntervalInduction
  <2> QED
    BY <1>2, <2>1
<1> QED
  BY <1>3, <1>8 DEF AtFirst

LEMMA NothingCollected ==
  ASSUME Building(ir, {}), NEW list, list = FlattenSeq(StoresPerAlloc)
  PROVE  list = <<>>
<1>1. PICK seqs, D, n : seqs = StoresPerAlloc /\ D = DOMAIN ir.vals /\ n = Len(ir.body)
  OBVIOUS
<1>2. n \in Nat /\ DOMAIN ir.body = 1..n
  BY <1>1, TypedFacts DEF Sound, Building
<1>3. seqs = [k \in 1..n |-> <<>>]
  <2> HIDE DEF vars_map, StoresUsing
  <2> QED
    BY <1>1, <1>2, NoVariables DEF StoresPerAlloc
<1>4. DOMAIN seqs = 1..n /\ \A k \in 1..n : seqs[k] = <<>>
  BY <1>3
<1>5. AreParts(seqs, D)
  <2>1. PICK S : S = Seq(D)
    OBVIOUS
  <2>2. <<>> \in S
    BY <2>1, EmptySeq
  <2>3. seqs = [k \in 1..n |-> seqs[k]] /\ \A k \in 1..n : seqs[k] \in S
    BY <1>3, <2>2
  <2>4. seqs \in Seq(S)
    BY <1>2, <2>3, IsASeq
  <2>5. Len(seqs) \in Nat /\ DOMAIN seqs = 1..Len(seqs)
    BY <2>4, LenProperties
  <2> QED
    BY <1>4, <2>1, <2>3, <2>5 DEF AreParts
<1>6. seqs = [k \in DOMAIN seqs |-> seqs[k]]
  BY <1>3, <1>4
<1>7. FlattenedFrom(list, seqs, D)
  BY <1>1, <1>5, <1>6, FlattenedIs
<1>8. list \in Seq(D) /\ ToSet(list) = {}
  BY <1>4, <1>7, TimesInNone DEF FlattenedFrom
<1>9. DOMAIN list = {}
  BY <1>8 DEF ToSet
<1> QED
  <2>1. Len(list) \in Nat /\ DOMAIN list = 1..Len(list)
    BY <1>8, LenProperties
  <2>2. Len(list) = 0
    <3>1. PICK m : m = Len(list)
      OBVIOUS
    <3>2. m \in Nat /\ 1..m = {}
      BY <1>9, <2>1, <3>1
    <3>3. 1 \notin 1..m
      BY <3>2
    <3>4. m = 0
      BY <3>2, <3>3
    <3> QED
      BY <3>1, <3>4
  <2> QED
    BY <1>8, <2>2, EmptySeq

LEMMA PromoteLoadsIdles ==
  ASSUME Building(ir, {}), PromoteLoads
  PROVE  ir' = ir /\ stores' = <<>>
<1>1. ir' = Walked.ir /\ stores' = FlattenSeq(StoresPerAlloc)
  BY Zenon DEF PromoteLoads, StoresPerAlloc
<1> QED
  BY <1>1, NothingWalked, NothingCollected

LEMMA RemoveNothing ==
  ASSUME NEW p
  PROVE  RemovedAll(p, <<>>) = p
<1>1. PICK list : list = <<>>
  OBVIOUS
<1>2. Len(list) = 0 /\ Len(list) \in Nat
  BY <1>1
<1>3. PICK f : RemovedAll(p, list) = f[Len(list)] /\ f[0] = p
  BY <1>2, RemovedAllIs
<1> QED
  BY <1>1, <1>2, <1>3

LEMMA RemoveStoresIdles ==
  ASSUME stores = <<>>, RemoveStores
  PROVE  ir' = ir /\ running' \in {"alloc-promoter", None}
<1>1. ~Aborts
  <2>1. IsInjective(<<>>) /\ ToSet(<<>>) = {}
    BY TimesInNone DEF IsInjective
  <2> QED
    BY <2>1 DEF Aborts
<1> QED
  BY <1>1, RemoveNothing DEF RemoveStores

LEMMA NothingFolded ==
  ASSUME NEW sums, Building(ir, {}), Folding(ir, fold_queue, remove_list, sums)
  PROVE  ~FoldNext /\ remove_list = <<>>
<1>1. Sound(ir, SumsOf(ir)) /\ Pointed(ir) /\ fold_queue \in Seq(DOMAIN ir.vals) /\ remove_list \in Seq(DOMAIN ir.vals)
  BY DEF Building, Folding
<1>2. ASSUME NEW i \in DOMAIN ir.vals, Op(ir, i) \in Binaries PROVE Op(ir, Args(ir, i)[1]) # "const"
  BY <1>1, <1>2 DEF Pointed, Movable
<1>3. ASSUME FoldNext PROVE FALSE
  <2>1. NextFold # 0
    BY <1>3 DEF FoldNext
  <2>2. PICK i : i = fold_queue[NextFold]
    OBVIOUS
  <2>3. NextFold \in 1..Len(fold_queue) /\ Foldable(i)
    BY <1>1, <2>1, <2>2, NextFoldIs
  <2>4. i \in DOMAIN ir.vals
    BY <1>1, <2>2, <2>3, ElementOfSeq
  <2>5. Op(ir, i) \in Binaries /\ Op(ir, Args(ir, i)[1]) = "const"
    BY <2>3 DEF Foldable, IsConstant, Is, Op, Args
  <2> QED
    BY <1>2, <2>4, <2>5
<1>4. ToSet(remove_list) = {}
  <2> SUFFICES ASSUME NEW r \in ToSet(remove_list) PROVE FALSE
    OBVIOUS
  <2>1. r \in ToSet(ir.body) /\ Op(ir, r) \in Binaries /\ Op(ir, Args(ir, r)[1]) = "const"
    BY DEF Folding, InBody, ConstantFirst
  <2> QED
    BY <1>1, <1>2, <2>1, TypedFacts DEF Sound
<1>5. remove_list = <<>>
  <2>1. Len(remove_list) \in Nat /\ DOMAIN remove_list = 1..Len(remove_list)
    BY <1>1, LenProperties
  <2>2. DOMAIN remove_list = {}
    BY <1>4 DEF ToSet
  <2>3. Len(remove_list) = 0
    <3>1. PICK m : m = Len(remove_list)
      OBVIOUS
    <3>2. m \in Nat /\ 1..m = {}
      BY <2>1, <2>2, <3>1
    <3>3. 1 \notin 1..m
      BY <3>2
    <3>4. m = 0
      BY <3>2, <3>3
    <3> QED
      BY <3>1, <3>4
  <2> QED
    BY <1>1, <2>3, EmptySeq
<1> QED
  BY <1>3, <1>5

LEMMA EndFoldingIdles ==
  ASSUME NEW sums, Building(ir, {}), Folding(ir, fold_queue, remove_list, sums), EndFolding
  PROVE  ir' = ir
<1>1. remove_list = <<>>
  BY NothingFolded
<1>2. ir' = RemovedAll(ir, remove_list)
  <2>1. ~FailsToRemove
    <3>1. IsInjective(<<>>) /\ ToSet(<<>>) = {}
      BY TimesInNone DEF IsInjective
    <3> QED
      BY <1>1, <3>1 DEF FailsToRemove
  <2> QED
    BY <2>1 DEF EndFolding
<1> QED
  BY <1>1, <1>2, RemoveNothing

-----------------------------------------------------------------------------
(* When the StackSimulator throws: a second invariant, on top of the       *)
(* first.                                                                  *)

(* Neither of the two passes has begun.                                    *)
Unstarted == "stack-simulator" \in explicit /\ "register-localiser" \in explicit

(* The offsets that have a variable or will have one, and whether those    *)
(* are all that is loaded from.                                            *)
Offsets == DOMAIN alloc_map \cup {store_map[j].offset : j \in DOMAIN store_map}
Covered == \A i \in DOMAIN load_map : load_map[i] \in Offsets

(* Until one of the two passes runs, the program is the translated one.    *)
IdleInv ==
  Unstarted =>
    /\ Building(ir, {})
    /\ meaning.stored <=> StoredIn(ir)
    /\ running = "alloc-promoter stores" => stores = <<>>

(* A pass is not run again.                                                *)
OrderInv ==
  /\ running \in {"stack-simulator", "threw"} => "stack-simulator" \notin explicit
  /\ running = "register-localiser" => "register-localiser" \notin explicit

(* While the StackSimulator runs on the translated program, no store is    *)
(* forgotten. After the RegisterLocaliser it has nothing to do.            *)
CoverInv ==
  running = "stack-simulator" =>
    IF "register-localiser" \in explicit THEN meaning.stored <=> Covered ELSE load_map = NoMap

(* The RegisterLocaliser comes to every register.                          *)
RegistersInv ==
  /\ "register-localiser" \notin explicit /\ "stack-simulator" \in explicit =>
       \A r \in 1..Registers : Op(ir, r) = "reg" => r \in ToSet(phys_regs)
  /\ running # "register-localiser" => phys_regs = <<>>

(* The StackSimulator ends if all that is loaded from is stored to, and    *)
(* throws otherwise.                                                       *)
OutcomeInv ==
  /\ "register-localiser" \in explicit /\ "stack-simulator" \notin explicit /\ running \notin {"stack-simulator", "threw"} =>
       meaning.stored
  /\ running = "threw" => ~meaning.stored

(* The invariant, which is inductive together with IInv.                   *)
UnstoredInv == IdleInv /\ OrderInv /\ CoverInv /\ RegistersInv /\ OutcomeInv

LEMMA InitUnstored ==
  ASSUME Init
  PROVE  UnstoredInv
<1>1. PICK code \in Codes : ir = Lifted(code)
  BY DEF Init
<1>2. Building(ir, {}) /\ Sound(ir, SumsOf(ir))
  BY <1>1, LiftedBuilds DEF Building
<1>3. meaning.stored <=> StoredIn(ir)
  BY <1>2, MeaningStored DEF Init
<1>4. running = None /\ explicit = Passes /\ phys_regs = <<>>
  BY DEF Init, LocaliserInit
<1> QED
  BY <1>2, <1>3, <1>4 DEF UnstoredInv, IdleInv, OrderInv, CoverInv, RegistersInv, OutcomeInv, None, Passes

(* The passes and states that need no more than that the program           *)
(* continues.                                                              *)
Elsewhere == {None, "trivially-dead-inst-pruner", "alloc-promoter", "alloc-promoter stores", "constant-folder", "aborted"}

LEMMA ElsewhereKeepsUnstored ==
  ASSUME NEW sums, UnstoredInv, running \in Elsewhere, running' \in Elsewhere,
         explicit' \subseteq explicit, {"stack-simulator", "register-localiser"} \cap explicit \subseteq explicit',
         phys_regs' = phys_regs, meaning' = meaning, Continues(ir', ir, sums),
         Unstarted => ir' = ir /\ (running' = "alloc-promoter stores" => stores' = <<>>)
  PROVE  UnstoredInv'
<1>1. running \notin {"stack-simulator", "register-localiser", "threw"} /\ running' \notin {"stack-simulator", "register-localiser", "threw"}
  BY DEF Elsewhere, None
<1>2. Unstarted' <=> Unstarted
  BY DEF Unstarted
<1>3. IdleInv'
  BY <1>2 DEF UnstoredInv, IdleInv
<1>4. OrderInv' /\ CoverInv'
  BY <1>1 DEF OrderInv, CoverInv
<1>5. RegistersInv'
  BY <1>1 DEF UnstoredInv, RegistersInv, Continues
<1>6. OutcomeInv'
  BY <1>1 DEF UnstoredInv, OutcomeInv
<1> QED
  BY <1>3, <1>4, <1>5, <1>6 DEF UnstoredInv

LEMMA SameContinues ==
  ASSUME NEW sums, NEW p, Sound(p, sums)
  PROVE  Continues(p, p, sums)
BY DEF Continues

(* The steps of the passes.                                                *)
LEMMA BeginUnstored ==
  ASSUME IInv, UnstoredInv, RunPass("stack-simulator")
  PROVE  UnstoredInv'
<1>1. /\ Sound(ir, meaning.sums) /\ running = None /\ "stack-simulator" \in explicit
      /\ store_map = NoMap /\ alloc_map = NoMap /\ alloc_map' = alloc_map
      /\ meaning' = meaning /\ phys_regs' = phys_regs /\ phys_regs = <<>>
      /\ "stack-simulator" \notin explicit'
      /\ "register-localiser" \in explicit' <=> "register-localiser" \in explicit
      /\ running' = "stack-simulator" /\ ir' = ir
      /\ load_map' = [i \in OnStack("load") |-> Offset(i)]
      /\ store_map' = [i \in OnStack("store") |-> [offset |-> Offset(i), inst |-> Pointer(i)]]
  BY DEF IInv, SimulatorInv, UnstoredInv, RegistersInv, RunPass, Begin, None
<1>2. ASSUME "register-localiser" \in explicit
      PROVE  meaning.stored <=> Covered'
  <2>1. Pointed(ir) /\ (meaning.stored <=> StoredIn(ir))
    BY <1>1, <1>2 DEF UnstoredInv, IdleInv, Unstarted, Building
  <2>2. OnStack("load") = Displaces(ir, "load") /\ \A i \in OnStack("load") : Offset(i) = OffsetOf(ir, i)
    BY <1>1, <2>1, OnStackOfPointed
  <2>3. OnStack("store") = Displaces(ir, "store") /\ \A i \in OnStack("store") : Offset(i) = OffsetOf(ir, i)
    BY <1>1, <2>1, OnStackOfPointed
  <2>4. Offsets' = {OffsetOf(ir, j) : j \in Displaces(ir, "store")}
    <3>1. DOMAIN (alloc_map') = {}
      BY <1>1 DEF NoMap
    <3>2. DOMAIN (store_map') = OnStack("store") /\ \A j \in OnStack("store") : store_map'[j].offset = Offset(j)
      BY <1>1
    <3> QED
      BY <2>3, <3>1, <3>2 DEF Offsets
  <2>5. DOMAIN (load_map') = Displaces(ir, "load") /\ \A i \in Displaces(ir, "load") : load_map'[i] = OffsetOf(ir, i)
    BY <1>1, <2>2
  <2>6. Covered' <=> \A i \in Displaces(ir, "load") : OffsetOf(ir, i) \in {OffsetOf(ir, j) : j \in Displaces(ir, "store")}
    BY <2>4, <2>5 DEF Covered
  <2> QED
    BY <2>1, <2>6 DEF StoredIn
<1>3. ASSUME "register-localiser" \notin explicit
      PROVE  load_map' = NoMap
  <2>1. ASSUME NEW r \in 1..Registers, Op(ir, r) = "reg" PROVE FALSE
    <3>1. r \in ToSet(<<>>)
      BY <1>1, <1>3, <2>1 DEF UnstoredInv, RegistersInv
    <3> QED
      BY <3>1, TimesInNone
  <2>2. OnStack("load") = {}
    BY <1>1, <2>1, OnStackOfVariables
  <2> QED
    BY <1>1, <2>2 DEF NoMap
<1> QED
  BY <1>1, <1>2, <1>3 DEF UnstoredInv, IdleInv, Unstarted, OrderInv, CoverInv, RegistersInv, OutcomeInv

LEMMA BeginLocalisingUnstored ==
  ASSUME IInv, UnstoredInv, RunPass("register-localiser")
  PROVE  UnstoredInv'
<1>1. /\ running = None /\ "register-localiser" \notin explicit'
      /\ meaning' = meaning /\ running' = "register-localiser" /\ phys_regs' = [r \in 1..Registers |-> r]
  BY DEF RunPass, BeginLocalising
<1>2. \A r \in 1..Registers : r \in ToSet(phys_regs')
  BY <1>1 DEF ToSet
<1> QED
  BY <1>1, <1>2 DEF UnstoredInv, IdleInv, Unstarted, OrderInv, CoverInv, RegistersInv, OutcomeInv

LEMMA RunPassUnstored ==
  ASSUME IInv, UnstoredInv, NEW p \in Passes, RunPass(p)
  PROVE  UnstoredInv'
<1>1. CASE p \notin {"stack-simulator", "register-localiser"}
  <2>1. /\ running = None /\ ir' = ir /\ phys_regs' = phys_regs /\ meaning' = meaning
        /\ explicit' = explicit \ {p} /\ running' \in Elsewhere /\ running' # "alloc-promoter stores"
    BY <1>1 DEF RunPass, BeginPruning, BeginPromoting, BeginFolding, Elsewhere
  <2>2. Continues(ir', ir, meaning.sums)
    BY <2>1, SameContinues DEF IInv
  <2> QED
    BY <1>1, <2>1, <2>2, ElsewhereKeepsUnstored DEF Elsewhere
<1> QED
  BY <1>1, BeginUnstored, BeginLocalisingUnstored

LEMMA SimulatorNextUnstored ==
  ASSUME IInv, UnstoredInv, SimulatorNext, UNCHANGED <<phys_regs, work_queue, promoterVars, folderVars>>, UNCHANGED <<explicit, reported, meaning>>
  PROVE  UnstoredInv'
<1>1. /\ running = "stack-simulator" /\ meaning' = meaning /\ explicit' = explicit /\ phys_regs' = phys_regs
      /\ "stack-simulator" \notin explicit /\ phys_regs = <<>>
      /\ "register-localiser" \in explicit => (meaning.stored <=> Covered)
      /\ "register-localiser" \notin explicit => load_map = NoMap
  BY DEF SimulatorNext, ReplaceStore, ReplaceLoad, End, UnstoredInv, OrderInv, CoverInv, RegistersInv
<1>2. ASSUME running' \in {"stack-simulator", "threw", None}, CoverInv', OutcomeInv'
      PROVE  UnstoredInv'
  <2>1. IdleInv' /\ OrderInv' /\ RegistersInv'
    <3>1. running' # "register-localiser" => phys_regs' = <<>>
      BY <1>1
    <3>2. running' # "register-localiser"
      BY <1>2 DEF None
    <3> QED
      BY <1>1, <3>1, <3>2 DEF IdleInv, Unstarted, OrderInv, RegistersInv
  <2> QED
    BY <1>2, <2>1 DEF UnstoredInv
<1>3. ASSUME NEW i \in DOMAIN store_map, ReplaceStore(i)
      PROVE  running' = "stack-simulator" /\ load_map' = load_map /\ Offsets' = Offsets
  <2>1. PICK o : o = store_map[i].offset
    OBVIOUS
  <2>2. /\ running' = running /\ load_map' = load_map
        /\ DOMAIN (alloc_map') = DOMAIN alloc_map \cup {o}
        /\ store_map' = [k \in DOMAIN store_map \ {i} |-> store_map[k]]
    BY <1>3, <2>1 DEF ReplaceStore, Without
  <2>3. \A x : x \in Offsets' <=> x \in DOMAIN alloc_map \cup {o} \/ \E j \in DOMAIN store_map \ {i} : x = store_map[j].offset
    BY <2>2 DEF Offsets
  <2>4. \A x : x \in Offsets <=> x \in DOMAIN alloc_map \/ \E j \in DOMAIN store_map : x = store_map[j].offset
    BY DEF Offsets
  <2>5. \A x : x \in Offsets' <=> x \in Offsets
    BY <1>3, <2>1, <2>3, <2>4
  <2>6. Offsets' = Offsets
    BY <2>5 DEF Offsets
  <2> QED
    BY <1>1, <2>2, <2>6
<1>4. ASSUME NEW i \in DOMAIN load_map, ReplaceLoad(i)
      PROVE  /\ "register-localiser" \in explicit
             /\ \/ /\ running' = "stack-simulator" /\ load_map' = Without(load_map, i) /\ Offsets' = Offsets
                   /\ load_map[i] \in Offsets
                \/ running' = "threw" /\ load_map[i] \notin Offsets
  <2>1. "register-localiser" \in explicit
    BY <1>1, <1>4 DEF NoMap
  <2>2. store_map = NoMap
    BY <1>4 DEF ReplaceLoad, StoresDone
  <2>3. Offsets = DOMAIN alloc_map
    <3>1. DOMAIN store_map = {}
      BY <2>2 DEF NoMap
    <3> QED
      BY <3>1 DEF Offsets
  <2>4. CASE load_map[i] \in DOMAIN alloc_map
    <3>1. running' = running /\ load_map' = Without(load_map, i) /\ store_map' = store_map /\ alloc_map' = alloc_map
      BY <1>4, <2>4 DEF ReplaceLoad
    <3> QED
      BY <1>1, <2>1, <2>3, <2>4, <3>1 DEF Offsets
  <2>5. CASE load_map[i] \notin DOMAIN alloc_map
    BY <1>4, <2>1, <2>3, <2>5 DEF ReplaceLoad
  <2> QED
    BY <2>4, <2>5
<1>5. ASSUME NEW i \in DOMAIN store_map, ReplaceStore(i) PROVE UnstoredInv'
  <2>1. Covered' <=> Covered
    BY <1>3, <1>5 DEF Covered
  <2>2. CoverInv' /\ OutcomeInv'
    BY <1>1, <1>3, <1>5, <2>1 DEF CoverInv, OutcomeInv
  <2> QED
    BY <1>2, <1>3, <1>5, <2>2
<1>6. ASSUME NEW i \in DOMAIN load_map, ReplaceLoad(i) PROVE UnstoredInv'
  <2>1. CASE running' = "stack-simulator" /\ load_map' = Without(load_map, i) /\ Offsets' = Offsets /\ load_map[i] \in Offsets
    <3>1. DOMAIN (load_map') = DOMAIN load_map \ {i} /\ \A k \in DOMAIN load_map \ {i} : load_map'[k] = load_map[k]
      BY <2>1 DEF Without
    <3>2. Covered' <=> Covered
      BY <1>6, <2>1, <3>1 DEF Covered
    <3>3. CoverInv' /\ OutcomeInv'
      BY <1>1, <1>4, <1>6, <2>1, <3>2 DEF CoverInv, OutcomeInv
    <3> QED
      BY <1>2, <2>1, <3>3
  <2>2. CASE running' = "threw" /\ load_map[i] \notin Offsets
    <3>1. ~Covered
      BY <1>6, <2>2 DEF Covered
    <3>2. CoverInv' /\ OutcomeInv'
      BY <1>1, <1>4, <1>6, <2>2, <3>1 DEF CoverInv, OutcomeInv
    <3> QED
      BY <1>2, <2>2, <3>2
  <2> QED
    BY <1>4, <1>6, <2>1, <2>2
<1>7. ASSUME End PROVE UnstoredInv'
  <2>1. load_map = NoMap /\ running' = None
    BY <1>7 DEF End
  <2>2. Covered
    BY <2>1 DEF Covered, NoMap
  <2>3. CoverInv' /\ OutcomeInv'
    BY <1>1, <2>1, <2>2 DEF CoverInv, OutcomeInv, None
  <2> QED
    BY <1>2, <2>1, <2>3
<1> QED
  BY <1>5, <1>6, <1>7 DEF SimulatorNext

(* What is not the head of a sequence is in its tail.                      *)
LEMMA HeadOrTail ==
  ASSUME NEW S, NEW s \in Seq(S), s # <<>>, NEW x \in ToSet(s), x # Head(s)
  PROVE  x \in ToSet(Tail(s))
<1>1. PICK k \in DOMAIN s : s[k] = x
  BY DEF ToSet
<1>2. Head(s) = s[1] /\ Len(s) \in Nat \ {0} /\ DOMAIN s = 1..Len(s)
  BY HeadTailProperties, LenProperties, EmptySeq
<1>3. Tail(s) \in Seq(S) /\ Len(Tail(s)) = Len(s) - 1 /\ \A j \in 1..Len(Tail(s)) : Tail(s)[j] = s[j + 1]
  BY HeadTailProperties
<1>4. k - 1 \in 1..Len(Tail(s)) /\ (k - 1) + 1 = k
  BY <1>1, <1>2, <1>3
<1>5. DOMAIN Tail(s) = 1..Len(Tail(s))
  BY <1>3, LenProperties
<1> QED
  BY <1>1, <1>3, <1>4, <1>5 DEF ToSet

LEMMA LocaliserNextUnstored ==
  ASSUME IInv, UnstoredInv, LocaliserNext, UNCHANGED <<simulatorVars, work_queue, promoterVars, folderVars>>, UNCHANGED <<explicit, reported, meaning>>
  PROVE  UnstoredInv'
<1>1. /\ Sound(ir, meaning.sums) /\ running = "register-localiser" /\ meaning' = meaning /\ explicit' = explicit
      /\ "register-localiser" \notin explicit /\ phys_regs \in Seq(1..Registers)
      /\ "stack-simulator" \in explicit => \A r \in 1..Registers : Op(ir, r) = "reg" => r \in ToSet(phys_regs)
  BY DEF LocaliserNext, Localise, EndLocalising, UnstoredInv, OrderInv, RegistersInv, IInv, LocaliserInv
<1>2. CASE Localise
  <2>1. phys_regs # <<>> /\ phys_regs' = Tail(phys_regs) /\ running' = running
    BY <1>2 DEF Localise
  <2>2. PICK reg : reg = Head(phys_regs)
    OBVIOUS
  <2>3. ir' = Destroyed(ReplacedAll(Localised(reg), reg, Null), reg)
    BY <1>2, <2>2 DEF Localise
  <2>4. reg \in 1..Registers
    BY <1>1, <2>1, <2>2, HeadTailProperties
  <2>5. /\ Op(ir', reg) = "freed"
        /\ \A v \in DOMAIN ir'.vals : Op(ir', v) = "reg" => v \in DOMAIN ir.vals /\ Op(ir, v) = "reg"
        /\ Sound(ir', meaning.sums)
    BY <1>1, <2>3, <2>4, LocaliseKeeps
  <2>6. ASSUME NEW r \in 1..Registers, Op(ir', r) = "reg", "stack-simulator" \in explicit
        PROVE  r \in ToSet(phys_regs')
    <3>1. r \in DOMAIN ir'.vals /\ r # reg
      BY <2>5, <2>6 DEF Sound, RegistersFirst
    <3>2. r \in ToSet(phys_regs)
      BY <1>1, <2>5, <2>6, <3>1
    <3> QED
      BY <1>1, <2>1, <2>2, <3>1, <3>2, HeadOrTail
  <2> QED
    BY <1>1, <2>1, <2>6 DEF UnstoredInv, IdleInv, Unstarted, OrderInv, CoverInv, RegistersInv, OutcomeInv
<1>3. CASE EndLocalising
  BY <1>1, <1>3 DEF EndLocalising, None, UnstoredInv, IdleInv, Unstarted, OrderInv, CoverInv, RegistersInv, OutcomeInv
<1> QED
  BY <1>2, <1>3 DEF LocaliserNext

LEMMA PrunerNextUnstored ==
  ASSUME IInv, UnstoredInv, PrunerNext, UNCHANGED <<simulatorVars, phys_regs, promoterVars, folderVars>>, UNCHANGED <<explicit, reported, meaning>>
  PROVE  UnstoredInv'
<1>1. running = "trivially-dead-inst-pruner" /\ Sound(ir, meaning.sums)
  BY DEF PrunerNext, Prune, EndPruning, IInv
<1>2. Unstarted => Building(ir, {})
  BY DEF UnstoredInv, IdleInv
<1>3. CASE Prune
  <2>1. Pruned(ir, work_queue)
    BY <1>1 DEF IInv, PrunerInv
  <2>2. Continues(ir', ir, meaning.sums)
    BY <1>1, <1>3, <2>1, PruneKeeps
  <2>3. Unstarted => ir' = ir
    BY <1>2, <1>3, <2>1, PruneIdles
  <2>4. running' = running
    BY <1>3 DEF Prune
  <2> QED
    BY <1>1, <2>2, <2>3, <2>4, ElsewhereKeepsUnstored DEF Elsewhere
<1>4. CASE EndPruning
  <2>1. ir' = ir /\ running' = None
    BY <1>4 DEF EndPruning
  <2>2. Continues(ir', ir, meaning.sums)
    BY <1>1, <2>1, SameContinues
  <2> QED
    BY <1>1, <2>1, <2>2, ElsewhereKeepsUnstored DEF Elsewhere, None
<1> QED
  BY <1>3, <1>4 DEF PrunerNext

LEMMA PromoterNextUnstored ==
  ASSUME IInv, UnstoredInv, PromoterNext, UNCHANGED <<simulatorVars, phys_regs, work_queue, folderVars>>, UNCHANGED <<explicit, reported, meaning>>
  PROVE  UnstoredInv'
<1>1. running \in {"alloc-promoter", "alloc-promoter stores"} /\ Sound(ir, meaning.sums)
  BY DEF PromoterNext, PromoteLoads, RemoveStores, IInv
<1>2. Unstarted => Building(ir, {}) /\ (running = "alloc-promoter stores" => stores = <<>>)
  BY DEF UnstoredInv, IdleInv
<1>3. CASE PromoteLoads
  <2>1. Continues(ir', ir, meaning.sums)
    BY <1>1, <1>3, PromoteLoadsKeeps
  <2>2. Unstarted => ir' = ir /\ stores' = <<>>
    BY <1>2, <1>3, PromoteLoadsIdles
  <2>3. running' = "alloc-promoter stores"
    BY <1>3 DEF PromoteLoads
  <2> QED
    BY <1>1, <2>1, <2>2, <2>3, ElsewhereKeepsUnstored DEF Elsewhere
<1>4. CASE RemoveStores
  <2>1. running = "alloc-promoter stores"
    BY <1>4 DEF RemoveStores
  <2>2. Storing(ir, stores)
    BY <2>1 DEF IInv, PromoterInv
  <2>3. Continues(ir', ir, meaning.sums) /\ running' \in {"aborted", "alloc-promoter", None}
    BY <1>1, <1>4, <2>2, RemoveStoresKeeps, SameContinues
  <2>4. Unstarted => ir' = ir
    BY <1>2, <1>4, <2>1, RemoveStoresIdles
  <2> QED
    BY <1>1, <2>3, <2>4, ElsewhereKeepsUnstored DEF Elsewhere, None
<1> QED
  BY <1>3, <1>4 DEF PromoterNext

LEMMA FolderNextUnstored ==
  ASSUME IInv, UnstoredInv, FolderNext, UNCHANGED <<simulatorVars, phys_regs, work_queue, promoterVars>>, UNCHANGED <<explicit, reported, meaning>>
  PROVE  UnstoredInv'
<1>1. running = "constant-folder" /\ Sound(ir, meaning.sums)
  BY DEF FolderNext, FoldNext, EndFolding, IInv
<1>2. Unstarted => Building(ir, {})
  BY DEF UnstoredInv, IdleInv
<1>3. Folding(ir, fold_queue, remove_list, meaning.sums)
  BY <1>1 DEF IInv, FolderInv
<1>4. CASE FoldNext
  <2>1. Continues(ir', ir, meaning.sums) /\ running' = running
    BY <1>1, <1>3, <1>4, FoldNextKeeps DEF FoldNext
  <2>2. ~Unstarted
    BY <1>2, <1>3, <1>4, NothingFolded
  <2> QED
    BY <1>1, <2>1, <2>2, ElsewhereKeepsUnstored DEF Elsewhere
<1>5. CASE EndFolding
  <2>1. Continues(ir', ir, meaning.sums) /\ running' \in {None, "aborted"}
    BY <1>1, <1>3, <1>5, EndFoldingKeeps
  <2>2. Unstarted => ir' = ir
    BY <1>2, <1>3, <1>5, EndFoldingIdles
  <2> QED
    BY <1>1, <2>1, <2>2, ElsewhereKeepsUnstored DEF Elsewhere, None
<1> QED
  BY <1>4, <1>5 DEF FolderNext

LEMMA StillUnstored ==
  ASSUME UnstoredInv,
         UNCHANGED <<ir, running, load_map, store_map, alloc_map, phys_regs, stores, explicit, meaning>>
  PROVE  UnstoredInv'
BY DEF UnstoredInv, IdleInv, Unstarted, OrderInv, CoverInv, Covered, Offsets, RegistersInv, OutcomeInv

(* Both invariants hold together.                                          *)
THEOREM UnstoredInvariance == Spec => []UnstoredInv
<1>1. Init => UnstoredInv
  BY InitUnstored
<1>2. IInv /\ UnstoredInv /\ [Next]_vars => UnstoredInv'
  <2>1. ASSUME IInv, UnstoredInv, Next PROVE UnstoredInv'
    <3>1. ASSUME InPass PROVE UnstoredInv'
      <4>1. UNCHANGED <<explicit, reported, meaning>>
        BY <3>1 DEF InPass
      <4>2. CASE SimulatorNext /\ UNCHANGED <<phys_regs, work_queue, promoterVars, folderVars>>
        BY <2>1, <4>1, <4>2, SimulatorNextUnstored
      <4>3. CASE LocaliserNext /\ UNCHANGED <<simulatorVars, work_queue, promoterVars, folderVars>>
        BY <2>1, <4>1, <4>3, LocaliserNextUnstored
      <4>4. CASE PrunerNext /\ UNCHANGED <<simulatorVars, phys_regs, promoterVars, folderVars>>
        BY <2>1, <4>1, <4>4, PrunerNextUnstored
      <4>5. CASE PromoterNext /\ UNCHANGED <<simulatorVars, phys_regs, work_queue, folderVars>>
        BY <2>1, <4>1, <4>5, PromoterNextUnstored
      <4>6. CASE FolderNext /\ UNCHANGED <<simulatorVars, phys_regs, work_queue, promoterVars>>
        BY <2>1, <4>1, <4>6, FolderNextUnstored
      <4> QED
        BY <3>1, <4>2, <4>3, <4>4, <4>5, <4>6 DEF InPass
    <3>2. ASSUME NEW p \in Passes, RunPass(p) PROVE UnstoredInv'
      BY <2>1, <3>2, RunPassUnstored
    <3>3. ASSUME Verify PROVE UnstoredInv'
      <4>1. UNCHANGED <<ir, running, load_map, store_map, alloc_map, phys_regs, stores, explicit, meaning>>
        BY <3>3 DEF Verify, passVars, simulatorVars, promoterVars
      <4> QED
        BY <2>1, <4>1, StillUnstored
    <3> QED
      BY <2>1, <3>1, <3>2, <3>3 DEF Next
  <2>2. ASSUME UnstoredInv, UNCHANGED vars PROVE UnstoredInv'
    <3>1. UNCHANGED <<ir, running, load_map, store_map, alloc_map, phys_regs, stores, explicit, meaning>>
      BY <2>2 DEF vars, passVars, simulatorVars, promoterVars
    <3> QED
      BY <2>2, <3>1, StillUnstored
  <2> QED
    BY <2>1, <2>2
<1> QED
  BY <1>1, <1>2, Invariance, PTL DEF Spec

(* The StackSimulator throws exactly when some load's displacement is no   *)
(* store's, whatever ran before it and in whatever order its maps are      *)
(* walked.                                                                 *)
THEOREM ThrowsOnUnstoredAlways == Spec => []ThrowsOnUnstored
<1>1. UnstoredInv => ThrowsOnUnstored
  BY DEF UnstoredInv, OutcomeInv, ThrowsOnUnstored, None
<1> QED
  BY <1>1, UnstoredInvariance, PTL
=============================================================================
