--------------------------- MODULE LoweringProofs ---------------------------
(***************************************************************************)
(* Proofs about Lowering: whatever the function, what the passes leave to  *)
(* the backend can be emitted, and the blocks still end as the control     *)
(* flow analysis knows them.                                               *)
(***************************************************************************)
EXTENDS LoweredCode, SequencesExt, SequenceTheorems, WellFoundedInduction, TLAPS

(* Induction over an interval of numbers and the existence of functions    *)
(* that are defined by recursion, stated with sets and functions instead   *)
(* of operators, and facts about sequences.                                *)

(* A set of natural numbers has a least element.                           *)
LEMMA LeastElement ==
  ASSUME NEW T, T \subseteq Nat, T # {}
  PROVE  \E m \in T : \A k \in T : m <= k
<1> DEFINE R == OpToRel(<, Nat)
<1>1. IsWellFoundedOn(R, Nat)
  BY NatLessThanWellFounded
<1>2. PICK m \in T : \A k \in T : ~(<<k, m>> \in R)
  <2> HIDE DEF R
  <2> QED
    BY <1>1, WFMin
<1>3. ASSUME NEW k \in T PROVE m <= k
  <2>1. k \in Nat /\ m \in Nat
    OBVIOUS
  <2>2. ~(<<k, m>> \in R)
    BY <1>2
  <2>3. k < m => <<k, m>> \in R
    BY <2>1, Zenon DEF OpToRel
  <2> HIDE DEF R
  <2> QED
    BY <2>1, <2>2, <2>3
<1> QED
  BY <1>3

(* Induction up to n, for the set G of the numbers a fact is good for.     *)
LEMMA IntervalInduction ==
  ASSUME NEW n \in Nat, NEW G, 0 \in G,
         \A k \in 0..(n-1) : k \in G => k + 1 \in G
  PROVE  0..n \subseteq G
<1> SUFFICES ASSUME (0..n) \ G # {} PROVE FALSE
  OBVIOUS
<1>1. PICK m \in (0..n) \ G : \A k \in (0..n) \ G : m <= k
  <2>1. (0..n) \ G \subseteq Nat
    OBVIOUS
  <2> QED
    BY <2>1, LeastElement
<1>2. m # 0 /\ m - 1 \in 0..(n-1) /\ (m - 1) + 1 = m
  BY <1>1
<1>3. m - 1 \in G
  BY <1>1, <1>2
<1> QED
  BY <1>1, <1>2, <1>3

(* A function that gives each number but the first from the one before.    *)
IsIteration(f, n, T, base, step) ==
  /\ f \in [0..n -> T]
  /\ f[0] = base
  /\ \A k \in 1..n : f[k] = step[<<k, f[k-1]>>]

LEMMA IterationExists ==
  ASSUME NEW n \in Nat, NEW T, NEW base \in T,
         NEW step, \A k \in 1..n, x \in T : step[<<k, x>>] \in T
  PROVE  \E f : IsIteration(f, n, T, base, step)
<1> DEFINE G == {m \in 0..n : \E f : IsIteration(f, m, T, base, step)}
<1>1. 0 \in G
  <2>1. IsIteration([k \in 0..0 |-> base], 0, T, base, step)
    BY DEF IsIteration
  <2> QED
    BY <2>1
<1>2. ASSUME NEW m \in 0..(n-1), m \in G PROVE m + 1 \in G
  <2>1. PICK f : IsIteration(f, m, T, base, step)
    BY <1>2
  <2> DEFINE g == [k \in 0..(m+1) |-> IF k = m + 1 THEN step[<<m+1, f[m]>>] ELSE f[k]]
  <2>2. g \in [0..(m+1) -> T]
    <3>1. step[<<m+1, f[m]>>] \in T
      BY <2>1 DEF IsIteration
    <3>2. \A k \in 0..(m+1) : k # m + 1 => k \in 0..m
      OBVIOUS
    <3> QED
      BY <2>1, <3>1, <3>2 DEF IsIteration
  <2>3. g[0] = base
    BY <2>1 DEF IsIteration
  <2>4. ASSUME NEW k \in 1..(m+1) PROVE g[k] = step[<<k, g[k-1]>>]
    <3>1. k - 1 \in 0..m /\ g[k-1] = f[k-1]
      OBVIOUS
    <3>2. CASE k = m + 1
      <4>1. k - 1 = m /\ g[k] = step[<<k, f[m]>>]
        BY <3>2
      <4> HIDE DEF g
      <4> QED
        BY <3>1, <4>1
    <3>3. CASE k # m + 1
      <4>1. k \in 1..m /\ g[k] = f[k]
        BY <3>3
      <4> HIDE DEF g
      <4> QED
        BY <2>1, <3>1, <4>1 DEF IsIteration
    <3> QED
      BY <3>2, <3>3
  <2>5. IsIteration(g, m + 1, T, base, step)
    <3> HIDE DEF g
    <3> QED
      BY <2>2, <2>3, <2>4 DEF IsIteration
  <2> QED
    BY <2>5
<1>3. 0..n \subseteq G
  <2> HIDE DEF G
  <2> QED
    BY <1>1, <1>2, IntervalInduction
<1> QED
  BY <1>3

LEMMA AppendOne ==
  ASSUME NEW S, NEW s \in Seq(S), NEW x \in S
  PROVE  /\ Append(s, x) \in Seq(S)
         /\ Len(s) \in Nat
         /\ Len(Append(s, x)) = Len(s) + 1
         /\ DOMAIN s = 1..Len(s)
         /\ DOMAIN Append(s, x) = 1..(Len(s) + 1)
         /\ \A k \in 1..Len(s) : Append(s, x)[k] = s[k]
         /\ Append(s, x)[Len(s) + 1] = x
         /\ Append(s, x) # <<>>
         /\ Last(Append(s, x)) = x
         /\ ToSet(Append(s, x)) = ToSet(s) \cup {x}
<1>1. /\ Append(s, x) \in Seq(S)
      /\ Append(s, x) # <<>>
      /\ Len(Append(s, x)) = Len(s) + 1
      /\ \A i \in 1..Len(s) : Append(s, x)[i] = s[i]
      /\ Append(s, x)[Len(s) + 1] = x
  BY AppendProperties
<1>2. /\ Len(s) \in Nat /\ DOMAIN s = 1..Len(s)
      /\ DOMAIN Append(s, x) = 1..(Len(s) + 1)
  BY <1>1, LenProperties
<1>3. \A k \in DOMAIN Append(s, x) : k \in DOMAIN s \/ k = Len(s) + 1
  BY <1>2
<1>4. Len(s) + 1 \in DOMAIN Append(s, x) /\ DOMAIN s \subseteq DOMAIN Append(s, x)
  BY <1>2
<1>5. ToSet(Append(s, x)) = ToSet(s) \cup {x}
  BY <1>1, <1>2, <1>3, <1>4 DEF ToSet
<1> QED
  BY <1>1, <1>2, <1>5 DEF Last

LEMMA ConcatenateTwo ==
  ASSUME NEW S, NEW s \in Seq(S), NEW t \in Seq(S)
  PROVE  s \o t \in Seq(S) /\ ToSet(s \o t) = ToSet(s) \cup ToSet(t)
<1>1. /\ s \o t \in Seq(S)
      /\ Len(s \o t) = Len(s) + Len(t)
      /\ \A i \in 1..(Len(s) + Len(t)) : (s \o t)[i] = IF i <= Len(s) THEN s[i] ELSE t[i - Len(s)]
  BY ConcatProperties
<1>2. /\ Len(s) \in Nat /\ Len(t) \in Nat
      /\ DOMAIN s = 1..Len(s) /\ DOMAIN t = 1..Len(t)
      /\ DOMAIN (s \o t) = 1..(Len(s) + Len(t))
  BY <1>1, LenProperties
<1>3. ASSUME NEW k \in DOMAIN s PROVE s[k] \in ToSet(s \o t)
  <2>1. k \in DOMAIN (s \o t) /\ (s \o t)[k] = s[k]
    BY <1>1, <1>2
  <2> QED
    BY <2>1 DEF ToSet
<1>4. ASSUME NEW k \in DOMAIN t PROVE t[k] \in ToSet(s \o t)
  <2>1. Len(s) + k \in DOMAIN (s \o t) /\ (s \o t)[Len(s) + k] = t[k]
    BY <1>1, <1>2
  <2> QED
    BY <2>1 DEF ToSet
<1>5. ASSUME NEW k \in DOMAIN (s \o t) PROVE (s \o t)[k] \in ToSet(s) \cup ToSet(t)
  <2>1. CASE k <= Len(s)
    <3>1. k \in DOMAIN s /\ (s \o t)[k] = s[k]
      BY <1>1, <1>2, <2>1
    <3> QED
      BY <3>1 DEF ToSet
  <2>2. CASE k > Len(s)
    <3>1. k - Len(s) \in DOMAIN t /\ (s \o t)[k] = t[k - Len(s)]
      BY <1>1, <1>2, <2>2
    <3> QED
      BY <3>1 DEF ToSet
  <2> QED
    BY <1>2, <2>1, <2>2
<1> QED
  BY <1>1, <1>3, <1>4, <1>5 DEF ToSet

-----------------------------------------------------------------------------

Spliced(s, k, new) == SubSeq(s, 1, k - 1) \o new \o SubSeq(s, k, Len(s))

(* A sequence, whatever is in it.                                          *)
IsSeq(s) == s \in Seq(ToSet(s))

LEMMA SeqIsSeq ==
  ASSUME NEW S, NEW s \in Seq(S)
  PROVE  IsSeq(s) /\ Len(s) \in Nat /\ DOMAIN s = 1..Len(s)
<1>1. Len(s) \in Nat /\ DOMAIN s = 1..Len(s)
  OBVIOUS
<1>2. s \in [1..Len(s) -> ToSet(s)]
  BY <1>1 DEF ToSet
<1> QED
  BY <1>1, <1>2 DEF IsSeq

LEMMA SeqOfMore ==
  ASSUME NEW S, NEW T, S \subseteq T, NEW s \in Seq(S)
  PROVE  s \in Seq(T)
  OBVIOUS

(* Inserting moves what stands at the place and after it.                  *)
LEMMA SeqParts ==
  ASSUME NEW T, NEW s \in Seq(T), NEW k \in 1..Len(s)
  PROVE  /\ Len(s) \in Nat \ {0} /\ DOMAIN s = 1..Len(s)
         /\ SubSeq(s, 1, k - 1) \in Seq(T) /\ Len(SubSeq(s, 1, k - 1)) = k - 1
         /\ \A j \in 1..(k - 1) : SubSeq(s, 1, k - 1)[j] = s[j]
         /\ SubSeq(s, k, Len(s)) \in Seq(T) /\ Len(SubSeq(s, k, Len(s))) = Len(s) - k + 1
         /\ \A j \in k..Len(s) : SubSeq(s, k, Len(s))[j - k + 1] = s[j]
         /\ SubSeq(s, k + 1, Len(s)) \in Seq(T) /\ Len(SubSeq(s, k + 1, Len(s))) = Len(s) - k
         /\ \A j \in (k + 1)..Len(s) : SubSeq(s, k + 1, Len(s))[j - k] = s[j]
<1>1. Len(s) \in Nat \ {0} /\ DOMAIN s = 1..Len(s) /\ k \in Int
  OBVIOUS
<1>2. \A i \in 1..Len(s) : s[i] \in T
  OBVIOUS
<1>3. \A i \in 1..(k - 1) : s[i] \in T
  BY <1>1, <1>2
<1>4. \A i \in k..Len(s) : s[i] \in T
  BY <1>1, <1>2
<1>5. \A i \in (k + 1)..Len(s) : s[i] \in T
  BY <1>1, <1>2
<1>6. /\ SubSeq(s, 1, k - 1) \in Seq(T) /\ Len(SubSeq(s, 1, k - 1)) = k - 1
      /\ \A j \in 1..(k - 1) : SubSeq(s, 1, k - 1)[j] = s[j]
  <2>1. k - 1 \in Int /\ 1 \in Int
    BY <1>1
  <2>2. /\ SubSeq(s, 1, k - 1) \in Seq(T)
        /\ Len(SubSeq(s, 1, k - 1)) = IF 1 <= k - 1 THEN k - 1 - 1 + 1 ELSE 0
        /\ \A i \in 1..(k - 1 - 1 + 1) : SubSeq(s, 1, k - 1)[i] = s[1 + i - 1]
    BY <1>3, <2>1, SubSeqProperties
  <2>3. \A j \in 1..(k - 1) : j \in 1..(k - 1 - 1 + 1) /\ 1 + j - 1 = j
    BY <1>1
  <2> QED
    BY <1>1, <2>2, <2>3
<1>7. /\ SubSeq(s, k, Len(s)) \in Seq(T) /\ Len(SubSeq(s, k, Len(s))) = Len(s) - k + 1
      /\ \A j \in k..Len(s) : SubSeq(s, k, Len(s))[j - k + 1] = s[j]
  <2>1. Len(s) \in Int
    BY <1>1
  <2>2. /\ SubSeq(s, k, Len(s)) \in Seq(T)
        /\ Len(SubSeq(s, k, Len(s))) = IF k <= Len(s) THEN Len(s) - k + 1 ELSE 0
        /\ \A i \in 1..(Len(s) - k + 1) : SubSeq(s, k, Len(s))[i] = s[k + i - 1]
    BY <1>1, <1>4, <2>1, SubSeqProperties
  <2>3. \A j \in k..Len(s) : j - k + 1 \in 1..(Len(s) - k + 1) /\ k + (j - k + 1) - 1 = j
    BY <1>1
  <2> QED
    BY <1>1, <2>2, <2>3
<1>8. /\ SubSeq(s, k + 1, Len(s)) \in Seq(T) /\ Len(SubSeq(s, k + 1, Len(s))) = Len(s) - k
      /\ \A j \in (k + 1)..Len(s) : SubSeq(s, k + 1, Len(s))[j - k] = s[j]
  <2>1. Len(s) \in Int /\ k + 1 \in Int
    BY <1>1
  <2>2. /\ SubSeq(s, k + 1, Len(s)) \in Seq(T)
        /\ Len(SubSeq(s, k + 1, Len(s))) = IF k + 1 <= Len(s) THEN Len(s) - (k + 1) + 1 ELSE 0
        /\ \A i \in 1..(Len(s) - (k + 1) + 1) : SubSeq(s, k + 1, Len(s))[i] = s[(k + 1) + i - 1]
    BY <1>5, <2>1, SubSeqProperties
  <2>3. \A j \in (k + 1)..Len(s) : j - k \in 1..(Len(s) - (k + 1) + 1) /\ (k + 1) + (j - k) - 1 = j
    BY <1>1
  <2>4. Len(SubSeq(s, k + 1, Len(s))) = Len(s) - k
    <3> DEFINE n == Len(SubSeq(s, k + 1, Len(s)))
    <3>1. n = IF k + 1 <= Len(s) THEN Len(s) - (k + 1) + 1 ELSE 0
      BY <2>2
    <3> HIDE DEF n
    <3>0. k <= Len(s) /\ Len(s) \in Int /\ k \in Int
      BY <1>1
    <3>2. n = Len(s) - k
      <4>1. CASE k = Len(s)
        BY <3>0, <3>1, <4>1
      <4>2. CASE k < Len(s)
        BY <3>0, <3>1, <4>2
      <4> QED
        BY <3>0, <4>1, <4>2
    <3> QED
      BY <3>2 DEF n
  <2>5. \A j \in (k + 1)..Len(s) : SubSeq(s, k + 1, Len(s))[j - k] = s[j]
    <3> DEFINE rest == SubSeq(s, k + 1, Len(s))
    <3> HIDE DEF rest
    <3> SUFFICES \A j \in (k + 1)..Len(s) : rest[j - k] = s[j]
      BY DEF rest
    <3>1. \A i \in 1..(Len(s) - (k + 1) + 1) : rest[i] = s[(k + 1) + i - 1]
      BY <2>2 DEF rest
    <3> QED
      BY <2>3, <3>1
  <2> QED
    BY <2>2, <2>4, <2>5
<1> QED
  BY <1>1, <1>6, <1>7, <1>8

IsConcat(u, s, t) == u = s \o t
Joined(T, u, s, t) ==
  /\ u \in Seq(T)
  /\ Len(u) = Len(s) + Len(t)
  /\ \A j \in 1..Len(s) : u[j] = s[j]
  /\ \A j \in 1..Len(t) : u[Len(s) + j] = t[j]

LEMMA ConcatPlaces ==
  ASSUME NEW T, NEW s \in Seq(T), NEW t \in Seq(T), NEW u, IsConcat(u, s, t)
  PROVE  Joined(T, u, s, t)
<1>0. u = s \o t
  BY DEF IsConcat
<1>1. Len(s) \in Nat /\ Len(t) \in Nat
  OBVIOUS
<1>2. /\ s \o t \in Seq(T)
      /\ Len(s \o t) = Len(s) + Len(t)
      /\ \A i \in 1..(Len(s) + Len(t)) : (s \o t)[i] = IF i <= Len(s) THEN s[i] ELSE t[i - Len(s)]
  BY ConcatProperties
<1>3. \A j \in 1..Len(s) : j \in 1..(Len(s) + Len(t)) /\ j <= Len(s)
  BY <1>1
<1>4. \A j \in 1..Len(t) : /\ Len(s) + j \in 1..(Len(s) + Len(t))
                           /\ ~(Len(s) + j <= Len(s)) /\ Len(s) + j - Len(s) = j
  BY <1>1
<1> QED
  BY <1>0, <1>1, <1>2, <1>3, <1>4 DEF Joined

(* Inserting moves what stands at the place and after it.                  *)
LEMMA SplicedPlaces ==
  ASSUME NEW s, IsSeq(s), NEW k \in 1..Len(s), NEW S, NEW new \in Seq(S)
  PROVE  /\ IsSeq(Spliced(s, k, new))
         /\ Len(s) \in Nat \ {0} /\ Len(new) \in Nat
         /\ DOMAIN s = 1..Len(s) /\ DOMAIN new = 1..Len(new)
         /\ Len(Spliced(s, k, new)) = Len(s) + Len(new)
         /\ DOMAIN Spliced(s, k, new) = 1..(Len(s) + Len(new))
         /\ \A j \in 1..(k - 1) : Spliced(s, k, new)[j] = s[j]
         /\ \A j \in 1..Len(new) : Spliced(s, k, new)[k - 1 + j] = new[j]
         /\ \A j \in k..Len(s) : Spliced(s, k, new)[Len(new) + j] = s[j]
<1> DEFINE T == ToSet(s) \cup S
           first == SubSeq(s, 1, k - 1)
           rest == SubSeq(s, k, Len(s))
           both == first \o new
           all == both \o rest
<1>1. s \in Seq(T) /\ new \in Seq(T) /\ Len(new) \in Nat /\ DOMAIN new = 1..Len(new)
  BY SeqOfMore DEF IsSeq
<1>0. Spliced(s, k, new) = all
  BY DEF Spliced
<1> HIDE DEF T
<1>2. Len(s) \in Nat \ {0} /\ DOMAIN s = 1..Len(s)
  BY <1>1, SeqParts
<1>3. /\ first \in Seq(T) /\ Len(first) = k - 1
      /\ \A j \in 1..(k - 1) : first[j] = s[j]
  BY <1>1, SeqParts
<1>4. /\ rest \in Seq(T) /\ Len(rest) = Len(s) - k + 1
      /\ \A j \in k..Len(s) : rest[j - k + 1] = s[j]
  BY <1>1, SeqParts
<1> HIDE DEF first, rest
<1>51. IsConcat(both, first, new) /\ IsConcat(all, both, rest)
  BY DEF IsConcat
<1> HIDE DEF both, all
<1>5. Joined(T, both, first, new)
  BY <1>1, <1>3, <1>51, ConcatPlaces
<1>52. both \in Seq(T)
  BY <1>5 DEF Joined
<1>6. Joined(T, all, both, rest)
  BY <1>4, <1>51, <1>52, ConcatPlaces
<1> USE DEF Joined
<1>7. Len(all) = Len(s) + Len(new)
  BY <1>1, <1>2, <1>3, <1>4, <1>5, <1>6
<1>8. \A j \in 1..(k - 1) : all[j] = s[j]
  BY <1>1, <1>2, <1>3, <1>5, <1>6
<1>9. \A j \in 1..Len(new) : all[k - 1 + j] = new[j]
  <2> TAKE j \in 1..Len(new)
  <2>1. k - 1 + j \in 1..Len(both) /\ k - 1 + j = Len(first) + j
    BY <1>1, <1>2, <1>3, <1>5
  <2>2. both[Len(first) + j] = new[j] /\ all[k - 1 + j] = both[k - 1 + j]
    BY <1>5, <1>6, <2>1
  <2> QED
    BY <2>1, <2>2
<1>10. \A j \in k..Len(s) : all[Len(new) + j] = s[j]
  <2> TAKE j \in k..Len(s)
  <2>1. j - k + 1 \in 1..Len(rest) /\ Len(both) + (j - k + 1) = Len(new) + j
    BY <1>1, <1>2, <1>3, <1>4, <1>5
  <2>2. all[Len(both) + (j - k + 1)] = rest[j - k + 1]
    BY <1>6, <2>1
  <2> QED
    BY <1>4, <2>1, <2>2
<1>11. IsSeq(all) /\ DOMAIN all = 1..Len(all)
  BY <1>6, SeqIsSeq
<1> QED
  BY <1>0, <1>1, <1>2, <1>7, <1>8, <1>9, <1>10, <1>11

LEMMA RemovedPlaces ==
  ASSUME NEW s, IsSeq(s), NEW k \in 1..Len(s)
  PROVE  /\ IsSeq(RemoveAt(s, k))
         /\ Len(s) \in Nat \ {0} /\ DOMAIN s = 1..Len(s)
         /\ Len(RemoveAt(s, k)) = Len(s) - 1
         /\ DOMAIN RemoveAt(s, k) = 1..(Len(s) - 1)
         /\ \A j \in 1..(k - 1) : RemoveAt(s, k)[j] = s[j]
         /\ \A j \in (k + 1)..Len(s) : RemoveAt(s, k)[j - 1] = s[j]
<1> DEFINE T == ToSet(s)
           first == SubSeq(s, 1, k - 1)
           rest == SubSeq(s, k + 1, Len(s))
           all == first \o rest
<1>1. s \in Seq(T)
  BY DEF IsSeq
<1>0. RemoveAt(s, k) = all
  BY DEF RemoveAt
<1> HIDE DEF T
<1>2. Len(s) \in Nat \ {0} /\ DOMAIN s = 1..Len(s)
  BY <1>1, SeqParts
<1>3. /\ first \in Seq(T) /\ Len(first) = k - 1
      /\ \A j \in 1..(k - 1) : first[j] = s[j]
  BY <1>1, SeqParts
<1>4. /\ rest \in Seq(T) /\ Len(rest) = Len(s) - k
      /\ \A j \in (k + 1)..Len(s) : rest[j - k] = s[j]
  BY <1>1, SeqParts
<1> HIDE DEF first, rest
<1>51. IsConcat(all, first, rest)
  BY DEF IsConcat
<1> HIDE DEF all
<1>5. Joined(T, all, first, rest)
  BY <1>3, <1>4, <1>51, ConcatPlaces
<1> USE DEF Joined
<1>6. Len(all) = Len(s) - 1
  BY <1>2, <1>3, <1>4, <1>5
<1>7. \A j \in 1..(k - 1) : all[j] = s[j]
  BY <1>3, <1>5
<1>8. \A j \in (k + 1)..Len(s) : all[j - 1] = s[j]
  <2> TAKE j \in (k + 1)..Len(s)
  <2>1. j - k \in 1..Len(rest) /\ Len(first) + (j - k) = j - 1
    BY <1>2, <1>3, <1>4
  <2> QED
    BY <1>4, <1>5, <2>1
<1>9. IsSeq(all) /\ DOMAIN all = 1..Len(all)
  BY <1>5, SeqIsSeq
<1> QED
  BY <1>0, <1>2, <1>6, <1>7, <1>8, <1>9

-----------------------------------------------------------------------------
(* What MoveInserter makes, and what is left of the function: an           *)
(* instruction keeps its name, its operation and the block it is in.       *)
IsRecord(inst) == inst = Instr(inst.id, inst.op, inst.args, inst.dst)

Made(inst) ==
  /\ IsRecord(inst)
  /\ inst.id[1] # "inst"
  /\ inst.op \notin {"load", "store", "phi", "alloc", "branch", "ret"}
  /\ inst.op = "move" => 1 \in DOMAIN inst.args

Original(inst, b) ==
  /\ IsRecord(inst)
  /\ inst.id[1] = "inst"
  /\ \E k \in DOMAIN source[b] :
       /\ inst.id = source[b][k].id
       /\ inst.op = source[b][k].op
       /\ DOMAIN inst.args = DOMAIN source[b][k].args

Known(inst, b) == Made(inst) \/ Original(inst, b)

Distinct(s) ==
  \A j \in DOMAIN s, k \in DOMAIN s : s[j].id = s[k].id /\ s[j].id[1] = "inst" => j = k

BlockShape(s, b) ==
  /\ IsSeq(s)
  /\ Len(s) > 0
  /\ \A k \in DOMAIN s : Known(s[k], b)
  /\ Distinct(s)

Ends(s, b) ==
  /\ Len(s) > 0
  /\ Last(s).op = Last(source[b]).op
  /\ Last(s).dst = Last(source[b]).dst
  /\ \A k \in DOMAIN s : IsTerminator(s[k]) => k = Len(s)

(* t is s with instructions of S put in.                                   *)
Extends(s, t, S) == \E k \in 1..Len(s), new \in Seq(S) : t = Spliced(s, k, new)

LEMMA ExtendedPlaces ==
  ASSUME NEW s, IsSeq(s), NEW S, NEW k \in 1..Len(s), NEW new \in Seq(S),
         NEW t, t = Spliced(s, k, new)
  PROVE  /\ IsSeq(t) /\ Len(s) \in Nat \ {0} /\ Len(new) \in Nat /\ Len(t) = Len(s) + Len(new)
         /\ DOMAIN s = 1..Len(s) /\ DOMAIN t = 1..Len(t)
         /\ \A j \in 1..Len(t) :
              \/ j < k /\ t[j] = s[j]
              \/ k <= j /\ j < k + Len(new) /\ t[j] \in S
              \/ k + Len(new) <= j /\ t[j] = s[j - Len(new)]
         /\ ToSet(s) \subseteq ToSet(t)
         /\ ToSet(new) \subseteq ToSet(t)
         /\ ToSet(t) \subseteq ToSet(s) \cup S
<1>1. /\ IsSeq(t)
      /\ Len(s) \in Nat \ {0} /\ Len(new) \in Nat
      /\ DOMAIN s = 1..Len(s) /\ DOMAIN new = 1..Len(new)
      /\ Len(t) = Len(s) + Len(new)
      /\ DOMAIN t = 1..(Len(s) + Len(new))
      /\ \A j \in 1..(k - 1) : t[j] = s[j]
      /\ \A j \in 1..Len(new) : t[k - 1 + j] = new[j]
      /\ \A j \in k..Len(s) : t[Len(new) + j] = s[j]
  BY SplicedPlaces
<1>2. \A j \in 1..Len(t) :
        \/ j < k /\ t[j] = s[j]
        \/ k <= j /\ j < k + Len(new) /\ t[j] \in S
        \/ k + Len(new) <= j /\ t[j] = s[j - Len(new)]
  <2> TAKE j \in 1..Len(t)
  <2>1. CASE j < k
    BY <1>1, <2>1
  <2>2. CASE k <= j /\ j < k + Len(new)
    <3>1. j - k + 1 \in 1..Len(new) /\ k - 1 + (j - k + 1) = j
      BY <1>1, <2>2
    <3>2. new[j - k + 1] \in S
      BY <3>1
    <3> QED
      BY <1>1, <2>2, <3>1, <3>2
  <2>3. CASE k + Len(new) <= j
    <3>1. j - Len(new) \in k..Len(s) /\ Len(new) + (j - Len(new)) = j
      BY <1>1, <2>3
    <3> QED
      BY <1>1, <2>3, <3>1
  <2> QED
    BY <1>1, <2>1, <2>2, <2>3
<1>3. ToSet(s) \subseteq ToSet(t)
  <2> SUFFICES ASSUME NEW j \in 1..Len(s) PROVE \E i \in 1..Len(t) : t[i] = s[j]
    BY <1>1 DEF ToSet
  <2>1. CASE j < k
    BY <1>1, <2>1
  <2>2. CASE k <= j
    <3>1. j \in k..Len(s) /\ Len(new) + j \in 1..Len(t)
      BY <1>1, <2>2
    <3> QED
      BY <1>1, <3>1
  <2> QED
    BY <1>1, <2>1, <2>2
<1>4. ToSet(new) \subseteq ToSet(t)
  <2> SUFFICES ASSUME NEW j \in 1..Len(new) PROVE \E i \in 1..Len(t) : t[i] = new[j]
    BY <1>1 DEF ToSet
  <2>1. k - 1 + j \in 1..Len(t)
    BY <1>1
  <2> QED
    BY <1>1, <2>1
<1>5. ToSet(t) \subseteq ToSet(s) \cup S
  <2> SUFFICES ASSUME NEW j \in 1..Len(t) PROVE t[j] \in S \/ \E i \in 1..Len(s) : t[j] = s[i]
    BY <1>1 DEF ToSet
  <2>1. k + Len(new) <= j => j - Len(new) \in 1..Len(s)
    BY <1>1
  <2>2. j < k => j \in 1..Len(s)
    BY <1>1
  <2> QED
    BY <1>2, <2>1, <2>2
<1> QED
  BY <1>1, <1>2, <1>3, <1>4, <1>5

Plain(S) == \A inst \in S : Made(inst) /\ ~IsTerminator(inst)

LEMMA ExtendedBlock ==
  ASSUME NEW s, NEW t, NEW b, NEW S, BlockShape(s, b), Extends(s, t, S), Plain(S)
  PROVE  /\ BlockShape(t, b)
         /\ Ends(s, b) => Ends(t, b)
         /\ ToSet(s) \subseteq ToSet(t)
         /\ ToSet(t) \subseteq ToSet(s) \cup S
<1>1. IsSeq(s) /\ Distinct(s) /\ \A k \in DOMAIN s : Known(s[k], b)
  BY DEF BlockShape
<1>2. PICK k \in 1..Len(s), new \in Seq(S) : t = Spliced(s, k, new)
  BY DEF Extends
<1>3. /\ IsSeq(t) /\ Len(s) \in Nat \ {0} /\ Len(new) \in Nat /\ Len(t) = Len(s) + Len(new)
      /\ DOMAIN s = 1..Len(s) /\ DOMAIN t = 1..Len(t)
      /\ \A j \in 1..Len(t) :
           \/ j < k /\ t[j] = s[j]
           \/ k <= j /\ j < k + Len(new) /\ t[j] \in S
           \/ k + Len(new) <= j /\ t[j] = s[j - Len(new)]
      /\ ToSet(s) \subseteq ToSet(t)
      /\ ToSet(t) \subseteq ToSet(s) \cup S
  BY <1>1, <1>2, ExtendedPlaces
<1>4. ASSUME NEW j \in DOMAIN t PROVE Known(t[j], b)
  <2>1. k + Len(new) <= j => j - Len(new) \in 1..Len(s)
    BY <1>3
  <2>2. j < k => j \in 1..Len(s)
    BY <1>3
  <2> QED
    BY <1>1, <1>3, <2>1, <2>2 DEF Known, Plain
<1>5. Distinct(t)
  <2> SUFFICES ASSUME NEW i \in DOMAIN t, NEW j \in DOMAIN t,
                      t[i].id = t[j].id, t[i].id[1] = "inst"
               PROVE  i = j
    BY DEF Distinct
  <2>1. t[i] \notin S /\ t[j] \notin S
    BY DEF Made, Plain
  <2>2. /\ ((i < k /\ t[i] = s[i]) \/ (k + Len(new) <= i /\ t[i] = s[i - Len(new)]))
        /\ ((j < k /\ t[j] = s[j]) \/ (k + Len(new) <= j /\ t[j] = s[j - Len(new)]))
    BY <1>3, <2>1
  <2>3. CASE i < k /\ t[i] = s[i] /\ j < k /\ t[j] = s[j]
    BY <1>1, <1>3, <2>3 DEF Distinct
  <2>4. CASE i < k /\ t[i] = s[i] /\ k + Len(new) <= j /\ t[j] = s[j - Len(new)]
    <3>1. i \in 1..Len(s) /\ j - Len(new) \in 1..Len(s) /\ i # j - Len(new)
      BY <1>3, <2>4
    <3> QED
      BY <1>1, <1>3, <2>4, <3>1 DEF Distinct
  <2>5. CASE k + Len(new) <= i /\ t[i] = s[i - Len(new)] /\ j < k /\ t[j] = s[j]
    <3>1. j \in 1..Len(s) /\ i - Len(new) \in 1..Len(s) /\ j # i - Len(new)
      BY <1>3, <2>5
    <3> QED
      BY <1>1, <1>3, <2>5, <3>1 DEF Distinct
  <2>6. CASE k + Len(new) <= i /\ t[i] = s[i - Len(new)] /\ k + Len(new) <= j /\ t[j] = s[j - Len(new)]
    <3>1. j - Len(new) \in 1..Len(s) /\ i - Len(new) \in 1..Len(s)
      BY <1>3, <2>6
    <3>2. i - Len(new) = j - Len(new)
      BY <1>1, <1>3, <2>6, <3>1 DEF Distinct
    <3> QED
      BY <1>3, <3>2
  <2> QED
    BY <2>2, <2>3, <2>4, <2>5, <2>6
<1>6. ASSUME Ends(s, b) PROVE Ends(t, b)
  <2>1. Last(t) = Last(s)
    BY <1>3 DEF Last
  <2>2. ASSUME NEW j \in DOMAIN t, IsTerminator(t[j]) PROVE j = Len(t)
    <3>1. t[j] \notin S
      BY <2>2 DEF Plain
    <3>2. ((j < k /\ t[j] = s[j]) \/ (k + Len(new) <= j /\ t[j] = s[j - Len(new)]))
      BY <1>3, <3>1
    <3>3. CASE j < k /\ t[j] = s[j]
      <4>1. j \in DOMAIN s /\ j # Len(s)
        BY <1>3, <3>3
      <4> QED
        BY <1>6, <2>2, <3>3, <4>1 DEF Ends
    <3>4. CASE k + Len(new) <= j /\ t[j] = s[j - Len(new)]
      <4>1. j - Len(new) \in DOMAIN s
        BY <1>3, <3>4
      <4>2. j - Len(new) = Len(s)
        BY <1>6, <2>2, <3>4, <4>1 DEF Ends
      <4> QED
        BY <1>3, <4>2
    <3> QED
      BY <3>2, <3>3, <3>4
  <2>3. Len(t) > 0
    BY <1>3
  <2> QED
    BY <1>6, <2>1, <2>2, <2>3 DEF Ends
<1>7. Len(t) > 0
  BY <1>3
<1> QED
  BY <1>3, <1>4, <1>5, <1>6, <1>7 DEF BlockShape

(* Taking out an instruction that is not the last, named by its place.     *)
LEMMA ShortenedBlock ==
  ASSUME NEW s, NEW t, NEW b, NEW k \in 1..Len(s), BlockShape(s, b), k # Len(s),
         s[k].id[1] = "inst", t = RemoveAt(s, k)
  PROVE  /\ BlockShape(t, b)
         /\ Ends(s, b) => Ends(t, b)
         /\ ToSet(t) \subseteq ToSet(s)
         /\ \A inst \in ToSet(s) : inst.id # s[k].id => inst \in ToSet(t)
         /\ \A inst \in ToSet(t) : inst.id # s[k].id
<1>1. IsSeq(s) /\ Distinct(s) /\ \A j \in DOMAIN s : Known(s[j], b)
  BY DEF BlockShape
<1>2. /\ IsSeq(t)
      /\ Len(s) \in Nat \ {0} /\ DOMAIN s = 1..Len(s)
      /\ Len(t) = Len(s) - 1
      /\ DOMAIN t = 1..(Len(s) - 1)
      /\ \A j \in 1..(k - 1) : t[j] = s[j]
      /\ \A j \in (k + 1)..Len(s) : t[j - 1] = s[j]
  BY <1>1, RemovedPlaces
<1> DEFINE n == Len(s)
<1>12. n \in Nat /\ k \in Nat /\ 1 <= k /\ k < n
  <2>1. Len(s) \in Nat
    BY <1>2
  <2> QED
    BY <2>1
<1> HIDE DEF n
<1>13. /\ DOMAIN s = 1..n
       /\ Len(t) = n - 1
       /\ DOMAIN t = 1..(n - 1)
       /\ \A j \in 1..(k - 1) : t[j] = s[j]
       /\ \A j \in (k + 1)..n : t[j - 1] = s[j]
  BY <1>2 DEF n
<1>3. \A j \in DOMAIN t : (j < k /\ t[j] = s[j]) \/ (k <= j /\ t[j] = s[j + 1])
  <2> TAKE j \in DOMAIN t
  <2>1. CASE j < k
    BY <1>12, <1>13, <2>1
  <2>2. CASE k <= j
    <3>1. j + 1 \in (k + 1)..n /\ (j + 1) - 1 = j
      BY <1>12, <1>13, <2>2
    <3> QED
      BY <1>12, <1>13, <2>2, <3>1
  <2> QED
    BY <1>12, <1>13, <2>1, <2>2
<1>4. \A j \in DOMAIN t : j \in DOMAIN s /\ j + 1 \in DOMAIN s
  BY <1>12, <1>13
<1>5. \A j \in DOMAIN t : Known(t[j], b)
  BY <1>1, <1>3, <1>4
<1>6. Distinct(t)
  <2> SUFFICES ASSUME NEW i \in DOMAIN t, NEW j \in DOMAIN t,
                      t[i].id = t[j].id, t[i].id[1] = "inst"
               PROVE  i = j
    BY DEF Distinct
  <2>1. CASE i < k /\ t[i] = s[i] /\ j < k /\ t[j] = s[j]
    BY <1>1, <1>4, <2>1 DEF Distinct
  <2>2. CASE i < k /\ t[i] = s[i] /\ k <= j /\ t[j] = s[j + 1]
    <3>1. i # j + 1
      BY <1>12, <1>13, <2>2
    <3> QED
      BY <1>1, <1>4, <2>2, <3>1 DEF Distinct
  <2>3. CASE k <= i /\ t[i] = s[i + 1] /\ j < k /\ t[j] = s[j]
    <3>1. j # i + 1
      BY <1>12, <1>13, <2>3
    <3> QED
      BY <1>1, <1>4, <2>3, <3>1 DEF Distinct
  <2>4. CASE k <= i /\ t[i] = s[i + 1] /\ k <= j /\ t[j] = s[j + 1]
    <3>1. i + 1 = j + 1
      BY <1>1, <1>4, <2>4 DEF Distinct
    <3> QED
      BY <1>12, <1>13, <3>1
  <2> QED
    BY <1>3, <2>1, <2>2, <2>3, <2>4
<1>7. Len(t) > 0
  BY <1>12, <1>13
<1>8. ASSUME Ends(s, b) PROVE Ends(t, b)
  <2>1. Last(t) = Last(s)
    <3>1. n \in (k + 1)..n
      BY <1>12, <1>13
    <3> QED
      BY <1>12, <1>13, <3>1 DEF Last, n
  <2>2. ASSUME NEW j \in DOMAIN t, IsTerminator(t[j]) PROVE j = Len(t)
    <3>1. CASE j < k /\ t[j] = s[j]
      <4>1. j # n
        BY <1>12, <1>13, <3>1
      <4> QED
        BY <1>4, <1>8, <2>2, <3>1, <4>1 DEF Ends, n
    <3>2. CASE k <= j /\ t[j] = s[j + 1]
      <4>1. j + 1 = n
        BY <1>4, <1>8, <2>2, <3>2 DEF Ends, n
      <4>2. j \in Nat /\ Len(t) = n - 1
        BY <1>12, <1>13
      <4> QED
        BY <1>12, <4>1, <4>2
    <3> QED
      BY <1>3, <3>1, <3>2
  <2> QED
    BY <1>7, <1>8, <2>1, <2>2 DEF Ends, n
<1>9. ToSet(t) \subseteq ToSet(s)
  BY <1>3, <1>4 DEF ToSet
<1>10. ASSUME NEW j \in DOMAIN s, s[j].id # s[k].id PROVE \E i \in DOMAIN t : t[i] = s[j]
  <2>1. CASE j < k
    BY <1>12, <1>13, <2>1
  <2>2. CASE k < j
    <3>1. j - 1 \in DOMAIN t /\ j \in (k + 1)..n
      BY <1>12, <1>13, <2>2
    <3> QED
      BY <1>12, <1>13, <3>1
  <2> QED
    BY <1>12, <1>13, <1>10, <2>1, <2>2
<1>11. ASSUME NEW j \in DOMAIN t, t[j].id = s[k].id PROVE FALSE
  <2>1. CASE j < k /\ t[j] = s[j]
    BY <1>1, <1>12, <1>13, <1>4, <1>11, <2>1 DEF Distinct
  <2>2. CASE k <= j /\ t[j] = s[j + 1]
    <3>1. j + 1 # k
      BY <1>12, <1>13, <2>2
    <3> QED
      BY <1>1, <1>12, <1>13, <1>4, <1>11, <2>2, <3>1 DEF Distinct
  <2> QED
    BY <1>3, <2>1, <2>2
<1>14. \A inst \in ToSet(s) : inst.id # s[k].id => inst \in ToSet(t)
  BY <1>10 DEF ToSet
<1>15. \A inst \in ToSet(t) : inst.id # s[k].id
  BY <1>11 DEF ToSet
<1>16. IsSeq(t)
  BY <1>2
<1>17. BlockShape(t, b)
  BY <1>5, <1>6, <1>7, <1>16 DEF BlockShape
<1> QED
  BY <1>8, <1>9, <1>14, <1>15, <1>17

(* One instruction more at the end.                                        *)
LEMMA AppendedBlock ==
  ASSUME NEW s, NEW t, NEW b, NEW inst, BlockShape(s, b), Made(inst), t = Append(s, inst)
  PROVE  /\ BlockShape(t, b)
         /\ Len(s) \in Nat /\ Len(t) = Len(s) + 1
         /\ DOMAIN s = 1..Len(s) /\ DOMAIN t = 1..(Len(s) + 1)
         /\ \A k \in 1..Len(s) : t[k] = s[k]
         /\ t[Len(s) + 1] = inst
         /\ ToSet(t) = ToSet(s) \cup {inst}
<1> DEFINE T == ToSet(s) \cup {inst}
<1>1. s \in Seq(T) /\ inst \in T
  BY SeqOfMore DEF BlockShape, IsSeq
<1> HIDE DEF T
<1>2. /\ t \in Seq(T)
      /\ Len(s) \in Nat
      /\ Len(t) = Len(s) + 1
      /\ DOMAIN s = 1..Len(s)
      /\ DOMAIN t = 1..(Len(s) + 1)
      /\ \A k \in 1..Len(s) : t[k] = s[k]
      /\ t[Len(s) + 1] = inst
      /\ ToSet(t) = ToSet(s) \cup {inst}
  BY <1>1, AppendOne
<1>3. IsSeq(t)
  BY <1>2, SeqIsSeq
<1>4. \A k \in DOMAIN t : k \in DOMAIN s \/ t[k] = inst
  BY <1>2
<1>5. \A k \in DOMAIN t : Known(t[k], b)
  BY <1>2, <1>4 DEF BlockShape, Known
<1>6. Distinct(t)
  <2> SUFFICES ASSUME NEW i \in DOMAIN t, NEW j \in DOMAIN t,
                      t[i].id = t[j].id, t[i].id[1] = "inst"
               PROVE  i = j
    BY DEF Distinct
  <2>1. i \in DOMAIN s /\ j \in DOMAIN s
    BY <1>4 DEF Made
  <2>2. s[i].id = s[j].id /\ s[i].id[1] = "inst"
    BY <1>2, <2>1
  <2> QED
    BY <2>1, <2>2 DEF BlockShape, Distinct
<1> QED
  BY <1>2, <1>3, <1>5, <1>6 DEF BlockShape

(* The same instructions with other operands.                              *)
Readdressed(s, t) ==
  /\ IsSeq(t)
  /\ DOMAIN t = DOMAIN s
  /\ \A k \in DOMAIN s :
       /\ IsRecord(t[k])
       /\ t[k].id = s[k].id /\ t[k].op = s[k].op /\ t[k].dst = s[k].dst
       /\ DOMAIN t[k].args = DOMAIN s[k].args

LEMMA ReaddressedBlock ==
  ASSUME NEW s, NEW t, NEW b, BlockShape(s, b), Readdressed(s, t)
  PROVE  /\ BlockShape(t, b)
         /\ Ends(s, b) => Ends(t, b)
<1>1. Len(s) \in Nat /\ DOMAIN s = 1..Len(s) /\ Len(t) \in Nat /\ DOMAIN t = 1..Len(t)
  BY SeqIsSeq DEF BlockShape, Readdressed, IsSeq
<1>2. Len(t) = Len(s)
  BY <1>1 DEF Readdressed
<1>3. \A k \in DOMAIN t : Known(t[k], b)
  BY DEF BlockShape, Readdressed, Known, Made, Original
<1>4. Distinct(t)
  BY DEF BlockShape, Readdressed, Distinct
<1>5. ASSUME Ends(s, b) PROVE Ends(t, b)
  <2>1. Len(s) \in DOMAIN s
    BY <1>1, <1>5 DEF Ends
  <2>2. Last(t).op = Last(s).op /\ Last(t).dst = Last(s).dst
    BY <1>2, <2>1 DEF Readdressed, Last
  <2>3. \A k \in DOMAIN t : k \in DOMAIN s /\ t[k].op = s[k].op
    BY DEF Readdressed
  <2> QED
    BY <1>2, <1>5, <2>2, <2>3 DEF Ends, IsTerminator
<1> QED
  BY <1>2, <1>3, <1>4, <1>5 DEF BlockShape, Readdressed

-----------------------------------------------------------------------------
(* work_queue has every instruction of every block.                        *)
LEMMA FlattenMembers ==
  ASSUME NEW n \in Nat \ {0}, NEW X, NEW q \in Seq(Seq(X)), Len(q) = n
  PROVE  /\ FlattenSeq(q) \in Seq(X)
         /\ \A b \in 1..n : ToSet(q[b]) \subseteq ToSet(FlattenSeq(q))
<1> DEFINE Lists == Seq(X)
           step == [x \in (1..(n - 1)) \X Lists |-> x[2] \o q[x[1] + 1]]
           IsUpTo(f) == f = [i \in 1..Len(q) |-> IF i = 1 THEN q[i] ELSE f[i-1] \o q[i]]
           upTo == CHOOSE f : IsUpTo(f)
<1>0. \A b \in 1..n : q[b] \in Lists
  OBVIOUS
<1>1. \A k \in 1..(n - 1), x \in Lists : step[<<k, x>>] = x \o q[k + 1] /\ q[k + 1] \in Lists
  <2> TAKE k \in 1..(n - 1), x \in Lists
  <2>1. k + 1 \in 1..n
    OBVIOUS
  <2> QED
    BY <1>0, <2>1
<1>2. \A k \in 1..(n - 1), x \in Lists : step[<<k, x>>] \in Lists
  BY <1>1, ConcatenateTwo
<1>3. PICK f : IsIteration(f, n - 1, Lists, q[1], step)
  <2>1. n - 1 \in Nat /\ q[1] \in Lists
    BY <1>0
  <2> HIDE DEF step, Lists
  <2> QED
    BY <1>2, <2>1, IterationExists
<1>4. /\ f[0] = q[1]
      /\ \A k \in 0..(n - 1) : f[k] \in Lists
      /\ \A k \in 1..(n - 1) : f[k] = f[k - 1] \o q[k + 1]
  <2>1. /\ f \in [0..(n - 1) -> Lists] /\ f[0] = q[1]
        /\ \A k \in 1..(n - 1) : f[k] = step[<<k, f[k-1]>>]
    BY <1>3 DEF IsIteration
  <2>2. \A k \in 1..(n - 1) : f[k - 1] \in Lists
    BY <2>1
  <2> HIDE DEF step, Lists
  <2> QED
    BY <1>1, <2>1, <2>2
<1> DEFINE g == [i \in 1..n |-> f[i - 1]]
<1>5. IsUpTo(g)
  <2> SUFFICES ASSUME NEW i \in 1..n PROVE g[i] = IF i = 1 THEN q[i] ELSE g[i-1] \o q[i]
    OBVIOUS
  <2>1. CASE i = 1
    BY <1>4, <2>1
  <2>2. CASE i # 1
    <3>1. i - 1 \in 1..(n - 1) /\ i - 1 \in 1..n /\ (i - 1) + 1 = i
      BY <2>2
    <3>2. f[i - 1] = f[(i - 1) - 1] \o q[(i - 1) + 1]
      BY <1>4, <3>1
    <3> QED
      BY <2>2, <3>1, <3>2
  <2> QED
    BY <2>1, <2>2
<1>6. IsUpTo(upTo)
  <2> HIDE DEF g, IsUpTo
  <2> QED
    BY <1>5
<1>7. FlattenSeq(q) = upTo[n]
  BY DEF FlattenSeq
<1>8. \A i \in 1..n : upTo[i] = IF i = 1 THEN q[i] ELSE upTo[i-1] \o q[i]
  <2> HIDE DEF upTo
  <2> QED
    BY <1>6
<1> HIDE DEF upTo, IsUpTo, step, g
<1> DEFINE Has(m) == upTo[m + 1] \in Lists /\ \A b \in 1..(m + 1) : ToSet(q[b]) \subseteq ToSet(upTo[m + 1])
           G == {m \in 0..(n - 1) : Has(m)}
<1>9. 0 \in G
  <2>1. upTo[1] = q[1]
    BY <1>8
  <2>2. \A b \in 1..(0 + 1) : b = 1
    OBVIOUS
  <2> HIDE DEF Lists
  <2>3. Has(0)
    BY <1>0, <2>1, <2>2
  <2> QED
    BY <2>3
<1>10. ASSUME NEW m \in 0..((n - 1) - 1), m \in G PROVE m + 1 \in G
  <2>1. /\ m + 1 \in 1..n /\ (m + 1) + 1 \in 1..n /\ (m + 1) + 1 # 1 /\ m + 1 \in 0..(n - 1)
        /\ ((m + 1) + 1) - 1 = m + 1
    OBVIOUS
  <2>2. upTo[(m + 1) + 1] = upTo[m + 1] \o q[(m + 1) + 1]
    BY <1>8, <2>1
  <2>3. Has(m)
    BY <1>10
  <2>4. q[(m + 1) + 1] \in Lists
    BY <1>0, <2>1
  <2>5. /\ upTo[(m + 1) + 1] \in Lists
        /\ ToSet(upTo[(m + 1) + 1]) = ToSet(upTo[m + 1]) \cup ToSet(q[(m + 1) + 1])
    BY <2>2, <2>3, <2>4, ConcatenateTwo
  <2>6. \A b \in 1..((m + 1) + 1) : b \in 1..(m + 1) \/ b = (m + 1) + 1
    OBVIOUS
  <2> HIDE DEF Lists
  <2>7. Has(m + 1)
    BY <2>3, <2>5, <2>6
  <2> QED
    BY <2>1, <2>7
<1>11. 0..(n - 1) \subseteq G
  <2>1. n - 1 \in Nat
    OBVIOUS
  <2> HIDE DEF G
  <2> QED
    BY <1>9, <1>10, <2>1, IntervalInduction
<1>12. Has(n - 1) /\ (n - 1) + 1 = n
  <2>1. n - 1 \in 0..(n - 1) /\ (n - 1) + 1 = n
    OBVIOUS
  <2> HIDE DEF Has
  <2> QED
    BY <1>11, <2>1
<1> QED
  BY <1>7, <1>12

-----------------------------------------------------------------------------
(* What holds of the code between two visits, if U is still to be visited: *)
(* an instruction that does not stay is in U, and an operand is a constant *)
(* or a physical register, or a virtual register that is written, or an    *)
(* instruction whose value is in memory or that is in U.                   *)
WrittenIn(c) == {inst.args[1] : inst \in {i \in InstrsOf(c) : i.op = "move"}}

Waits(inst, U) ==
  inst.id[1] = "inst" /\ inst.op \notin {"alloc", "branch", "ret"} => inst.id \in U

Sound(c, U, v) ==
  \/ v[1] \in {"const", "phys"}
  \/ v[1] = "virt" /\ (PhisHaveValues => v \in WrittenIn(c))
  \/ \E def \in InstrsOf(source) : def.id = v /\ HasValue(def) /\ (def.op = "alloc" \/ v \in U)

Shaped(c) == DOMAIN c = Block /\ \A b \in Block : BlockShape(c[b], b)
EndsWell(c) == \A b \in Block : Ends(c[b], b)
AllWait(c, U) == \A inst \in InstrsOf(c) : Waits(inst, U)
AllSound(c, U) == \A inst \in InstrsOf(c) : \A n \in DOMAIN inst.args : Sound(c, U, inst.args[n])

LEMMA InstrsIn ==
  ASSUME NEW c, NEW b \in Block, NEW inst \in ToSet(c[b])
  PROVE  inst \in InstrsOf(c)
BY DEF InstrsOf

LEMMA InstrsFrom ==
  ASSUME NEW c, NEW inst \in InstrsOf(c)
  PROVE  \E b \in Block : inst \in ToSet(c[b])
BY DEF InstrsOf

LEMMA KnownInstrs ==
  ASSUME NEW c, Shaped(c), NEW b \in Block, NEW inst \in ToSet(c[b])
  PROVE  Known(inst, b)
BY DEF Shaped, BlockShape, ToSet

LEMMA AllSoundOfMore ==
  ASSUME NEW c, NEW U, NEW V, U \subseteq V, AllSound(c, U)
  PROVE  AllSound(c, V)
<1> SUFFICES ASSUME NEW inst \in InstrsOf(c), NEW n \in DOMAIN inst.args
             PROVE  Sound(c, V, inst.args[n])
  BY DEF AllSound
<1>1. Sound(c, U, inst.args[n])
  BY DEF AllSound
<1> QED
  BY <1>1 DEF Sound

LEMMA AllWaitOfMore ==
  ASSUME NEW c, NEW U, NEW V, U \subseteq V, AllWait(c, U)
  PROVE  AllWait(c, V)
BY DEF AllWait, Waits

(* An instruction that gives no value, or one in memory, is no operand     *)
(* that waits to be replaced.                                              *)
LEMMA AllSoundWithout ==
  ASSUME NEW c, NEW U, NEW id, AllSound(c, U),
         \A def \in InstrsOf(source) : def.id = id => ~HasValue(def) \/ def.op = "alloc"
  PROVE  AllSound(c, U \ {id})
<1> SUFFICES ASSUME NEW inst \in InstrsOf(c), NEW n \in DOMAIN inst.args
             PROVE  Sound(c, U \ {id}, inst.args[n])
  BY DEF AllSound
<1>1. Sound(c, U, inst.args[n])
  BY DEF AllSound
<1> QED
  BY <1>1 DEF Sound

(* MoveInserter inserts instructions, in one block or in several.          *)
Grown(c, d, S) ==
  /\ Shaped(d)
  /\ EndsWell(c) => EndsWell(d)
  /\ InstrsOf(c) \subseteq InstrsOf(d)
  /\ InstrsOf(d) \subseteq InstrsOf(c) \cup S

LEMMA GrownCode ==
  ASSUME NEW c, NEW d, NEW S, Shaped(c), DOMAIN d = Block, Plain(S),
         \A b \in Block : d[b] = c[b] \/ Extends(c[b], d[b], S)
  PROVE  Grown(c, d, S)
<1>1. ASSUME NEW b \in Block
      PROVE  /\ BlockShape(d[b], b)
             /\ Ends(c[b], b) => Ends(d[b], b)
             /\ ToSet(c[b]) \subseteq ToSet(d[b])
             /\ ToSet(d[b]) \subseteq ToSet(c[b]) \cup S
  <2>1. BlockShape(c[b], b)
    BY DEF Shaped
  <2>2. CASE d[b] = c[b]
    BY <2>1, <2>2
  <2>3. CASE Extends(c[b], d[b], S)
    BY <2>1, <2>3, ExtendedBlock
  <2> QED
    BY <2>2, <2>3
<1>2. InstrsOf(c) \subseteq InstrsOf(d)
  BY <1>1, InstrsIn, InstrsFrom
<1>3. InstrsOf(d) \subseteq InstrsOf(c) \cup S
  BY <1>1, InstrsIn, InstrsFrom
<1> QED
  BY <1>1, <1>2, <1>3 DEF Shaped, EndsWell, Grown

LEMMA WrittenOfMore ==
  ASSUME NEW c, NEW d, InstrsOf(c) \subseteq InstrsOf(d)
  PROVE  WrittenIn(c) \subseteq WrittenIn(d)
BY DEF WrittenIn

LEMMA GrownWaits ==
  ASSUME NEW c, NEW d, NEW S, NEW U, Grown(c, d, S), Plain(S), AllWait(c, U)
  PROVE  AllWait(d, U)
BY DEF AllWait, Waits, Made, Plain, Grown

OperandsSound(S, c, U) == \A inst \in S : \A n \in DOMAIN inst.args : Sound(c, U, inst.args[n])

LEMMA GrownSound ==
  ASSUME NEW c, NEW d, NEW S, NEW U, AllSound(c, U), Grown(c, d, S), OperandsSound(S, d, U)
  PROVE  AllSound(d, U)
<1> SUFFICES ASSUME NEW inst \in InstrsOf(d), NEW n \in DOMAIN inst.args
             PROVE  Sound(d, U, inst.args[n])
  BY DEF AllSound
<1>1. Sound(c, U, inst.args[n]) \/ Sound(d, U, inst.args[n])
  BY DEF AllSound, Grown, OperandsSound
<1>2. WrittenIn(c) \subseteq WrittenIn(d)
  BY WrittenOfMore DEF Grown
<1> QED
  BY <1>1, <1>2 DEF Sound

LEMMA SoundInGrown ==
  ASSUME NEW c, NEW d, NEW S, NEW U, NEW v, Sound(c, U, v), Grown(c, d, S)
  PROVE  Sound(d, U, v)
BY WrittenOfMore DEF Grown, Sound

(* replace_all_uses_with a register: no operand is the value any more, and *)
(* what is written stays written.                                          *)
Replaces(x, y, v, w) ==
  /\ IsRecord(y)
  /\ y.id = x.id /\ y.op = x.op /\ y.dst = x.dst
  /\ DOMAIN y.args = DOMAIN x.args
  /\ \A n \in DOMAIN x.args : y.args[n] = IF x.args[n] = v THEN w ELSE x.args[n]

LEMMA SubstitutedInstrs ==
  ASSUME NEW c, Shaped(c), NEW v, NEW w, NEW d, d = Substituted(c, v, w)
  PROVE  /\ DOMAIN d = Block
         /\ \A b \in Block : Readdressed(c[b], d[b])
         /\ \A b \in Block : \A k \in DOMAIN c[b] : Replaces(c[b][k], d[b][k], v, w)
         /\ \A y \in InstrsOf(d) : \E x \in InstrsOf(c) : Replaces(x, y, v, w)
         /\ \A x \in InstrsOf(c) : \E y \in InstrsOf(d) : Replaces(x, y, v, w)
<1> DEFINE Other(x) == [x EXCEPT !.args = [n \in DOMAIN @ |-> IF @[n] = v THEN w ELSE @[n]]]
<1>1. DOMAIN d = Block
  BY DEF Substituted
<1>2. ASSUME NEW x, IsRecord(x) PROVE Replaces(x, Other(x), v, w)
  BY <1>2 DEF IsRecord, Replaces, Instr
<1>3. \A b \in Block : d[b] = [k \in DOMAIN c[b] |-> Other(c[b][k])]
  BY DEF Substituted
<1> HIDE DEF Other
<1>4. ASSUME NEW b \in Block
      PROVE  /\ IsSeq(c[b]) /\ Len(c[b]) \in Nat /\ DOMAIN c[b] = 1..Len(c[b])
             /\ \A k \in DOMAIN c[b] : IsRecord(c[b][k])
  <2>1. BlockShape(c[b], b)
    BY DEF Shaped
  <2>2. IsSeq(c[b]) /\ \A k \in DOMAIN c[b] : Known(c[b][k], b)
    BY <2>1 DEF BlockShape
  <2>3. \A k \in DOMAIN c[b] : IsRecord(c[b][k])
    BY <2>2 DEF Known, Made, Original
  <2> QED
    BY <2>2, <2>3, SeqIsSeq DEF IsSeq
<1>5. ASSUME NEW b \in Block
      PROVE  /\ IsSeq(d[b]) /\ DOMAIN d[b] = DOMAIN c[b]
             /\ \A k \in DOMAIN c[b] : d[b][k] = Other(c[b][k])
  <2> DEFINE n == Len(c[b])
             R == {Other(c[b][k]) : k \in 1..n}
             e == [k \in 1..n |-> Other(c[b][k])]
  <2>1. n \in Nat /\ DOMAIN c[b] = 1..n
    BY <1>4
  <2>2. d[b] = e
    BY <1>3, <2>1
  <2> HIDE DEF n
  <2>3. e \in [1..n -> R]
    OBVIOUS
  <2> HIDE DEF e, R
  <2>4. e \in Seq(R)
    BY <2>1, <2>3
  <2>5. IsSeq(e)
    BY <2>4, SeqIsSeq
  <2> USE DEF e
  <2> QED
    BY <2>1, <2>2, <2>5
<1>6. \A b \in Block : \A k \in DOMAIN c[b] : Replaces(c[b][k], d[b][k], v, w)
  BY <1>2, <1>4, <1>5
<1>7. \A b \in Block : Readdressed(c[b], d[b])
  BY <1>5, <1>6 DEF Readdressed, Replaces
<1>8. ASSUME NEW y \in InstrsOf(d) PROVE \E x \in InstrsOf(c) : Replaces(x, y, v, w)
  <2>1. PICK b \in Block : y \in ToSet(d[b])
    BY InstrsFrom
  <2>2. PICK k \in DOMAIN d[b] : y = d[b][k]
    BY <2>1 DEF ToSet
  <2>3. k \in DOMAIN c[b] /\ Replaces(c[b][k], y, v, w)
    BY <1>5, <1>6, <2>2
  <2>4. c[b][k] \in ToSet(c[b])
    BY <2>3 DEF ToSet
  <2> QED
    BY <2>3, <2>4, InstrsIn
<1>9. ASSUME NEW x \in InstrsOf(c) PROVE \E y \in InstrsOf(d) : Replaces(x, y, v, w)
  <2>1. PICK b \in Block : x \in ToSet(c[b])
    BY InstrsFrom
  <2>2. PICK k \in DOMAIN c[b] : x = c[b][k]
    BY <2>1 DEF ToSet
  <2>3. k \in DOMAIN d[b] /\ Replaces(x, d[b][k], v, w)
    BY <1>5, <1>6, <2>2
  <2>4. d[b][k] \in ToSet(d[b])
    BY <2>3 DEF ToSet
  <2> QED
    BY <2>3, <2>4, InstrsIn
<1> QED
  BY <1>1, <1>6, <1>7, <1>8, <1>9

(* What the proofs use of IsFunction(source).                              *)
LEMMA SourceIds ==
  ASSUME source \in Functions,
         NEW b \in Block, NEW x, Original(x, b), NEW c \in Block, NEW y, Original(y, c), x.id = y.id
  PROVE  b = c /\ x.op = y.op
<1>1. IsFunction(source)
  BY LoweringAssumption
<1>2. PICK k \in DOMAIN source[b] : x.id = source[b][k].id /\ x.op = source[b][k].op
  BY DEF Original
<1>3. PICK j \in DOMAIN source[c] : y.id = source[c][j].id /\ y.op = source[c][j].op
  BY DEF Original
<1>4. source[b][k].id = source[c][j].id
  BY <1>2, <1>3
<1>5. \A k1 \in DOMAIN source[b], j1 \in DOMAIN source[c] :
        source[b][k1].id = source[c][j1].id => b = c /\ k1 = j1
  BY <1>1 DEF IsFunction
<1>6. b = c /\ k = j
  BY <1>4, <1>5
<1> QED
  BY <1>2, <1>3, <1>6

LEMMA SourceOf ==
  ASSUME NEW b \in Block, NEW x, Original(x, b)
  PROVE  \E def \in InstrsOf(source) :
           def.id = x.id /\ def.op = x.op /\ DOMAIN def.args = DOMAIN x.args
<1>1. PICK k \in DOMAIN source[b] :
        x.id = source[b][k].id /\ x.op = source[b][k].op /\ DOMAIN x.args = DOMAIN source[b][k].args
  BY DEF Original
<1>2. source[b][k] \in ToSet(source[b])
  BY DEF ToSet
<1> QED
  BY <1>1, <1>2, InstrsIn

LEMMA MovesAreMade ==
  ASSUME source \in Functions, NEW c, Shaped(c), NEW x \in InstrsOf(c), x.op \in {"move", "constraint"}
  PROVE  Made(x)
<1>1. PICK b \in Block : x \in ToSet(c[b])
  BY InstrsFrom
<1>2. Known(x, b)
  BY <1>1, KnownInstrs
<1>3. IsFunction(source)
  BY LoweringAssumption
<1>4. ~Original(x, b)
  BY <1>3, SourceOf DEF IsFunction
<1> QED
  BY <1>2, <1>4 DEF Known

LEMMA SubstitutedCode ==
  ASSUME source \in Functions, NEW c, Shaped(c), NEW v, NEW w, NEW d, d = Substituted(c, v, w),
         v[1] = "inst", w[1] = "virt", PhisHaveValues => w \in WrittenIn(c),
         \A def \in InstrsOf(source) : def.id = v => def.op # "alloc",
         NEW U, NEW V, AllWait(c, U), AllSound(c, V)
  PROVE  /\ Shaped(d)
         /\ EndsWell(c) => EndsWell(d)
         /\ AllWait(d, U)
         /\ AllSound(d, V \ {v})
<1>1. /\ DOMAIN d = Block
      /\ \A b \in Block : Readdressed(c[b], d[b])
      /\ \A y \in InstrsOf(d) : \E x \in InstrsOf(c) : Replaces(x, y, v, w)
      /\ \A x \in InstrsOf(c) : \E y \in InstrsOf(d) : Replaces(x, y, v, w)
  BY SubstitutedInstrs
<1>2. Shaped(d)
  BY <1>1, ReaddressedBlock DEF Shaped
<1>3. EndsWell(c) => EndsWell(d)
  BY <1>1, ReaddressedBlock DEF Shaped, EndsWell
<1>4. AllWait(d, U)
  BY <1>1 DEF AllWait, Waits, Replaces
<1>5. ASSUME NEW u \in WrittenIn(c), u[1] = "virt" PROVE u \in WrittenIn(d)
  <2>1. PICK x \in InstrsOf(c) : x.op = "move" /\ u = x.args[1]
    BY DEF WrittenIn
  <2>2. PICK y \in InstrsOf(d) : Replaces(x, y, v, w)
    BY <1>1
  <2>3. 1 \in DOMAIN x.args
    <3>1. Made(x)
      BY <2>1, MovesAreMade
    <3> QED
      BY <2>1, <3>1 DEF Made
  <2>4. y.op = "move" /\ y.args[1] = u
    BY <1>5, <2>1, <2>2, <2>3 DEF Replaces
  <2> QED
    BY <2>4 DEF WrittenIn
<1>6. ASSUME NEW y \in InstrsOf(d), NEW n \in DOMAIN y.args PROVE Sound(d, V \ {v}, y.args[n])
  <2>1. PICK x \in InstrsOf(c) : Replaces(x, y, v, w)
    BY <1>1
  <2>2. /\ n \in DOMAIN x.args
        /\ y.args[n] = IF x.args[n] = v THEN w ELSE x.args[n]
    BY <2>1 DEF Replaces
  <2>3. CASE x.args[n] = v
    BY <1>5, <2>2, <2>3 DEF Sound
  <2>4. CASE x.args[n] # v
    <3>1. Sound(c, V, y.args[n])
      BY <2>2, <2>4 DEF AllSound
    <3> QED
      BY <1>5, <2>2, <2>4, <3>1 DEF Sound
  <2> QED
    BY <2>3, <2>4
<1> QED
  BY <1>2, <1>3, <1>4, <1>6 DEF AllSound

(* remove_from_parent of an instruction that is not the last of its block. *)
Removes(c, d, b, k, id) ==
  /\ k \in DOMAIN c[b] /\ k # Len(c[b])
  /\ c[b][k].id = id /\ id[1] = "inst"
  /\ d = Removed(c, b, id)

Leaves(c, d, U, V) ==
  /\ Shaped(d)
  /\ EndsWell(c) => EndsWell(d)
  /\ AllWait(d, U)
  /\ AllSound(d, V)

LEMMA RemovedPlace ==
  ASSUME NEW c, Shaped(c), NEW d, NEW b \in Block, NEW k, NEW id, Removes(c, d, b, k, id)
  PROVE  /\ d[b] = RemoveAt(c[b], k)
         /\ DOMAIN d = Block
         /\ \A a \in Block \ {b} : d[a] = c[a]
<1>1. /\ k \in DOMAIN c[b]
      /\ c[b][k].id = id /\ id[1] = "inst"
      /\ d = Removed(c, b, id)
  BY DEF Removes
<1>2. Distinct(c[b]) /\ DOMAIN c = Block
  BY DEF Shaped, BlockShape
<1>3. (CHOOSE j \in DOMAIN c[b] : c[b][j].id = id) = k
  BY <1>1, <1>2 DEF Distinct
<1> QED
  BY <1>1, <1>2, <1>3 DEF Removed

LEMMA RemovedCode ==
  ASSUME source \in Functions, NEW c, Shaped(c), NEW d, NEW b \in Block, NEW k, NEW id,
         Removes(c, d, b, k, id), NEW U, NEW V, AllWait(c, U), AllSound(c, V)
  PROVE  Leaves(c, d, U \ {id}, V)
<1>0. /\ k \in DOMAIN c[b] /\ k # Len(c[b])
      /\ c[b][k].id = id /\ id[1] = "inst"
  BY DEF Removes
<1>1. BlockShape(c[b], b) /\ DOMAIN c = Block
  BY DEF Shaped
<1>3. k \in 1..Len(c[b])
  BY <1>0, <1>1, SeqIsSeq DEF BlockShape, IsSeq
<1>5. /\ d[b] = RemoveAt(c[b], k)
      /\ DOMAIN d = Block
      /\ \A a \in Block \ {b} : d[a] = c[a]
  BY RemovedPlace
<1>6. /\ BlockShape(d[b], b)
      /\ Ends(c[b], b) => Ends(d[b], b)
      /\ ToSet(d[b]) \subseteq ToSet(c[b])
      /\ \A inst \in ToSet(c[b]) : inst.id # id => inst \in ToSet(d[b])
      /\ \A inst \in ToSet(d[b]) : inst.id # id
  <2> DEFINE s == c[b]
             t == d[b]
  <2>1. BlockShape(s, b) /\ k \in 1..Len(s) /\ k # Len(s) /\ s[k].id[1] = "inst" /\ t = RemoveAt(s, k)
    BY <1>0, <1>1, <1>3, <1>5
  <2>2. s[k].id = id
    BY <1>0
  <2> HIDE DEF s, t
  <2>3. /\ BlockShape(t, b)
        /\ Ends(s, b) => Ends(t, b)
        /\ ToSet(t) \subseteq ToSet(s)
        /\ \A inst \in ToSet(s) : inst.id # s[k].id => inst \in ToSet(t)
        /\ \A inst \in ToSet(t) : inst.id # s[k].id
    BY <2>1, ShortenedBlock
  <2> QED
    BY <2>2, <2>3 DEF s, t
<1>7. \A inst \in InstrsOf(c) : inst.id # id => inst \in InstrsOf(d)
  BY <1>0, <1>5, <1>6, InstrsFrom, InstrsIn
<1>8. InstrsOf(d) \subseteq InstrsOf(c)
  BY <1>0, <1>5, <1>6, InstrsFrom, InstrsIn
<1>9. ASSUME NEW inst \in InstrsOf(d) PROVE inst.id # id
  <2>1. PICK a \in Block : inst \in ToSet(d[a])
    BY InstrsFrom
  <2>2. CASE a = b
    BY <1>0, <1>6, <2>1, <2>2
  <2>3. CASE a # b
    <3>1. inst \in ToSet(c[a])
      BY <1>0, <1>5, <2>1, <2>3
    <3>2. Known(inst, a)
      BY <3>1, KnownInstrs
    <3>3. c[b][k] \in ToSet(c[b])
      BY <1>0 DEF ToSet
    <3>4. Original(c[b][k], b)
      BY <1>0, <3>3, KnownInstrs DEF Known, Made
    <3>5. inst.id = id => Original(inst, a)
      BY <1>0, <3>2 DEF Known, Made
    <3>6. c[b][k].id = id
      BY <1>0
    <3> QED
      BY <2>3, <3>4, <3>5, <3>6, SourceIds
  <2> QED
    BY <2>2, <2>3
<1>10. AllWait(d, U \ {id})
  BY <1>0, <1>8, <1>9 DEF AllWait, Waits
<1>11. WrittenIn(c) \subseteq WrittenIn(d)
  <2> SUFFICES ASSUME NEW x \in InstrsOf(c), x.op = "move" PROVE x \in InstrsOf(d)
    BY DEF WrittenIn
  <2>1. Made(x)
    BY MovesAreMade
  <2> QED
    BY <1>0, <1>7, <2>1 DEF Made
<1>12. AllSound(d, V)
  <2> SUFFICES ASSUME NEW inst \in InstrsOf(d), NEW n \in DOMAIN inst.args
               PROVE  Sound(d, V, inst.args[n])
    BY DEF AllSound
  <2>1. Sound(c, V, inst.args[n])
    BY <1>0, <1>8 DEF AllSound
  <2> QED
    BY <1>0, <1>11, <2>1 DEF Sound
<1> QED
  BY <1>0, <1>5, <1>6, <1>10, <1>12 DEF Shaped, EndsWell, Leaves

(* The instruction a visit replaces is not the last of its block.          *)
LEMMA NotLast ==
  ASSUME source \in Functions, NEW b \in Block, NEW s, BlockShape(s, b), Ends(s, b),
         NEW k \in DOMAIN s, ~IsTerminator(s[k])
  PROVE  k # Len(s)
<1>1. IsFunction(source)
  BY LoweringAssumption
<1>2. /\ source[b] \in Seq(ToSet(source[b])) /\ source[b] # <<>>
      /\ \A j \in DOMAIN source[b] : IsTerminator(source[b][j]) <=> j = Len(source[b])
  BY <1>1 DEF IsFunction
<1>3. Len(source[b]) \in DOMAIN source[b]
  BY <1>2
<1>4. IsTerminator(Last(source[b]))
  BY <1>2, <1>3 DEF Last
<1>5. IsTerminator(Last(s))
  BY <1>4 DEF Ends, IsTerminator
<1> QED
  BY <1>5 DEF Last

(* The end of a visit to an instruction whose value r takes over.          *)
LEMMA ReplacedCode ==
  ASSUME source \in Functions, NEW c, Shaped(c), EndsWell(c), NEW U, AllWait(c, U), AllSound(c, U),
         NEW b \in Block, NEW x \in ToSet(c[b]), x.id[1] = "inst", ~IsTerminator(x),
         \A def \in InstrsOf(source) : def.id = x.id => def.op # "alloc",
         NEW r, r[1] = "virt", PhisHaveValues => r \in WrittenIn(c),
         NEW d, d = Removed(Substituted(c, x.id, r), b, x.id)
  PROVE  Shaped(d) /\ EndsWell(d) /\ AllWait(d, U \ {x.id}) /\ AllSound(d, U \ {x.id})
<1> DEFINE id == x.id
           e == Substituted(c, id, r)
<1>0. id = x.id /\ e = Substituted(c, id, r) /\ d = Removed(e, b, id)
  OBVIOUS
<1> HIDE DEF id, e
<1>1. Shaped(e) /\ EndsWell(e) /\ AllWait(e, U) /\ AllSound(e, U \ {id})
  BY <1>0, SubstitutedCode
<1>2. PICK k \in DOMAIN c[b] : x = c[b][k]
  BY DEF ToSet
<1>3. k \in DOMAIN e[b] /\ e[b][k].id = id /\ e[b][k].op = x.op
  <2>1. /\ \A a \in Block : Readdressed(c[a], e[a])
        /\ \A a \in Block : \A j \in DOMAIN c[a] : Replaces(c[a][j], e[a][j], id, r)
    BY <1>0, SubstitutedInstrs
  <2> QED
    BY <1>0, <1>2, <2>1 DEF Readdressed, Replaces
<1>4. k # Len(e[b])
  <2>1. BlockShape(e[b], b) /\ Ends(e[b], b)
    BY <1>1 DEF Shaped, EndsWell
  <2>2. ~IsTerminator(e[b][k])
    BY <1>3 DEF IsTerminator
  <2> QED
    BY <1>3, <2>1, <2>2, NotLast
<1>5. id[1] = "inst" /\ d = Removed(e, b, id)
  BY <1>0
<1>6. Removes(e, d, b, k, id)
  BY <1>3, <1>4, <1>5 DEF Removes
<1>7. Leaves(e, d, U \ {id}, U \ {id})
  BY <1>1, <1>6, RemovedCode
<1> QED
  BY <1>0, <1>1, <1>7 DEF Leaves

(* Instructions inserted in one block.                                     *)
LEMMA InsertedCode ==
  ASSUME NEW c, Shaped(c), NEW b \in Block, NEW k \in DOMAIN c[b],
         NEW S, Plain(S), NEW new \in Seq(S),
         NEW d, d = Inserted(c, b, k, new)
  PROVE  /\ Grown(c, d, S)
         /\ ToSet(new) \subseteq InstrsOf(d)
         /\ ToSet(c[b]) \subseteq ToSet(d[b])
<1>1. BlockShape(c[b], b) /\ DOMAIN c = Block
  BY DEF Shaped
<1>2. IsSeq(c[b])
  BY <1>1 DEF BlockShape
<1>3. k \in 1..Len(c[b])
  BY <1>2, SeqIsSeq DEF IsSeq
<1>4. DOMAIN d = Block /\ d[b] = Spliced(c[b], k, new) /\ \A a \in Block \ {b} : d[a] = c[a]
  BY <1>1 DEF Inserted, Spliced
<1>5. Extends(c[b], d[b], S)
  BY <1>3, <1>4 DEF Extends
<1>6. \A a \in Block : d[a] = c[a] \/ Extends(c[a], d[a], S)
  BY <1>4, <1>5
<1>7. Grown(c, d, S)
  BY <1>4, <1>6, GrownCode
<1>8. ToSet(new) \subseteq ToSet(d[b]) /\ ToSet(c[b]) \subseteq ToSet(d[b])
  BY <1>2, <1>3, <1>4, ExtendedPlaces
<1> QED
  BY <1>7, <1>8, InstrsIn

-----------------------------------------------------------------------------
(* The inductive invariant.  While moves are inserted, what is left of the *)
(* function is what work_queue has, but for the instructions that stay.    *)
LoweringInv ==
  /\ source \in Functions
  /\ IsSeq(work)
  /\ \A id \in ToSet(work) : id[1] = "inst"
  /\ stage \in {"insert", "allocate"} =>
       Shaped(code) /\ AllWait(code, ToSet(work)) /\ AllSound(code, ToSet(work))
  /\ stage = "allocate" => work = <<>>
  /\ EndsWell(code)
  /\ OnlyEmittable

(* What a visit finds.                                                     *)
LEMMA VisitFinds ==
  ASSUME LoweringInv, NEW b \in Block, NEW k \in DOMAIN code[b], Visiting(b, k)
  PROVE  /\ source \in Functions
         /\ Shaped(code) /\ EndsWell(code)
         /\ AllWait(code, ToSet(work)) /\ AllSound(code, ToSet(work))
         /\ IsSeq(Tail(work))
         /\ ToSet(work) \ {code[b][k].id} \subseteq ToSet(Tail(work))
         /\ ToSet(Tail(work)) \subseteq ToSet(work)
         /\ code[b][k].id[1] = "inst"
         /\ code[b][k] \in ToSet(code[b])
         /\ HasItsOperands(code[b][k]) /\ code[b][k].op \notin {"move", "constraint"}
         /\ \A def \in InstrsOf(source) : def.id = code[b][k].id => def.op = code[b][k].op
         /\ \A n \in DOMAIN code[b][k].args : Sound(code, ToSet(work), code[b][k].args[n])
<1> DEFINE inst == code[b][k]
<1>1. /\ source \in Functions
      /\ Shaped(code) /\ EndsWell(code)
      /\ AllWait(code, ToSet(work)) /\ AllSound(code, ToSet(work))
      /\ IsSeq(work) /\ work # <<>> /\ inst.id = Head(work)
  BY DEF LoweringInv, Visiting
<1>2. /\ IsSeq(Tail(work))
      /\ Head(work) \in ToSet(work)
      /\ ToSet(work) \ {Head(work)} \subseteq ToSet(Tail(work))
      /\ ToSet(Tail(work)) \subseteq ToSet(work)
  <2> DEFINE T == ToSet(work)
  <2>1. work \in Seq(T) /\ T = ToSet(work)
    BY <1>1 DEF IsSeq
  <2> HIDE DEF T
  <2>2. /\ Len(work) \in Nat \ {0} /\ DOMAIN work = 1..Len(work)
        /\ Tail(work) \in Seq(T) /\ Len(Tail(work)) = Len(work) - 1
        /\ DOMAIN Tail(work) = 1..(Len(work) - 1)
        /\ Head(work) = work[1]
        /\ \A j \in 1..(Len(work) - 1) : Tail(work)[j] = work[j + 1]
    BY <1>1, <2>1
  <2>3. IsSeq(Tail(work))
    BY <2>2, SeqIsSeq
  <2>4. 1 \in DOMAIN work
    BY <2>2
  <2>5. ASSUME NEW j \in DOMAIN work, j # 1 PROVE \E i \in DOMAIN Tail(work) : Tail(work)[i] = work[j]
    <3>1. j - 1 \in 1..(Len(work) - 1) /\ (j - 1) + 1 = j
      BY <2>2, <2>5
    <3> QED
      BY <2>2, <3>1
  <2>6. \A j \in DOMAIN Tail(work) : j + 1 \in DOMAIN work /\ Tail(work)[j] = work[j + 1]
    BY <2>2
  <2>7. Head(work) = work[1]
    BY <2>2
  <2> QED
    BY <2>3, <2>4, <2>5, <2>6, <2>7 DEF ToSet
<1>3. inst.id[1] = "inst"
  BY <1>1, <1>2 DEF LoweringInv
<1>4. inst \in ToSet(code[b])
  BY DEF ToSet
<1>5. Original(inst, b)
  BY <1>1, <1>3, <1>4, KnownInstrs DEF Known, Made
<1>6. inst \in InstrsOf(code)
  BY <1>4, InstrsIn
<1>7. IsFunction(source)
  BY <1>1, LoweringAssumption
<1>8. PICK def \in InstrsOf(source) :
        def.id = inst.id /\ def.op = inst.op /\ DOMAIN def.args = DOMAIN inst.args
  BY <1>5, SourceOf
<1>9. HasItsOperands(inst) /\ inst.op \notin {"move", "constraint"}
  <2>1. HasItsOperands(def) /\ def.op \notin {"move", "constraint"}
    BY <1>7 DEF IsFunction
  <2> QED
    BY <1>8, <2>1 DEF HasItsOperands
<1>10. ASSUME NEW other \in InstrsOf(source), other.id = inst.id PROVE other.op = inst.op
  <2>1. PICK a \in Block : other \in ToSet(source[a])
    BY InstrsFrom
  <2>2. Original(other, a)
    <3>1. other = Instr(other.id, other.op, other.args, other.dst) /\ other.id = Inst(other.id[2])
      BY <1>7 DEF IsFunction
    <3>2. IsRecord(other) /\ other.id[1] = "inst"
      BY <1>3, <1>10, <3>1 DEF IsRecord
    <3>3. PICK j \in DOMAIN source[a] : other = source[a][j]
      BY <2>1 DEF ToSet
    <3> QED
      BY <3>2, <3>3 DEF Original
  <2> QED
    BY <1>1, <1>5, <1>10, <2>2, SourceIds
<1>11. \A n \in DOMAIN inst.args : Sound(code, ToSet(work), inst.args[n])
  BY <1>1, <1>6 DEF AllSound
<1> QED
  BY <1>1, <1>2, <1>3, <1>4, <1>9, <1>10, <1>11

(* What a visit has to leave.                                              *)
LEMMA VisitLeaves ==
  ASSUME LoweringInv, NEW b \in Block, NEW k \in DOMAIN code[b], Visiting(b, k),
         NEW d, Visited(d),
         Shaped(d), EndsWell(d), AllWait(d, ToSet(work) \ {code[b][k].id}),
         AllSound(d, ToSet(work) \ {code[b][k].id})
  PROVE  LoweringInv'
<1> DEFINE U == ToSet(Tail(work))
<1>1. /\ source \in Functions
      /\ IsSeq(Tail(work))
      /\ ToSet(work) \ {code[b][k].id} \subseteq U
      /\ U \subseteq ToSet(work)
  BY VisitFinds
<1>2. AllWait(d, U) /\ AllSound(d, U)
  <2> HIDE DEF U
  <2> QED
    BY <1>1, AllWaitOfMore, AllSoundOfMore
<1>3. code' = d /\ work' = Tail(work) /\ source' = source /\ stage' = stage /\ stage = "insert"
  BY DEF Visited, Visiting
<1>4. Shaped(code)'
  BY <1>3 DEF Shaped, BlockShape, Known, Made, Original
<1>5. EndsWell(code)'
  BY <1>3 DEF EndsWell, Ends
<1>6. AllWait(code, ToSet(work))'
  BY <1>2, <1>3 DEF AllWait, Waits, InstrsOf
<1>7. AllSound(code, ToSet(work))'
  BY <1>2, <1>3 DEF AllSound, Sound, InstrsOf, PhisHaveValues, WrittenIn
<1>8. source' \in Functions /\ IsSeq(work)' /\ \A id \in ToSet(work)' : id[1] = "inst"
  BY <1>1, <1>3 DEF LoweringInv
<1>9. OnlyEmittable'
  BY <1>3 DEF OnlyEmittable
<1> QED
  BY <1>3, <1>4, <1>5, <1>6, <1>7, <1>8, <1>9 DEF LoweringInv

LEMMA MovesAreSound ==
  ASSUME NEW to, NEW val
  PROVE  /\ Made(Move(to, val)) /\ ~IsTerminator(Move(to, val))
         /\ Move(to, val).op = "move"
         /\ DOMAIN Move(to, val).args = 1..2
         /\ Move(to, val).args[1] = to /\ Move(to, val).args[2] = val
BY DEF Made, IsTerminator, Move, Instr, IsRecord, NoId

LEMMA WrittenByMove ==
  ASSUME NEW c, NEW to, NEW val, Move(to, val) \in InstrsOf(c)
  PROVE  to \in WrittenIn(c)
BY MovesAreSound DEF WrittenIn

(* A visit that inserts instructions and hands a value over to a register. *)
LEMMA HandingOverKeepsInv ==
  ASSUME LoweringInv, NEW b \in Block, NEW k \in DOMAIN code[b], Visiting(b, k),
         ~IsTerminator(code[b][k]), code[b][k].op # "alloc",
         NEW S, Plain(S), NEW c, Grown(code, c, S), OperandsSound(S, c, ToSet(work)),
         code[b][k] \in ToSet(c[b]),
         NEW r, r[1] = "virt", PhisHaveValues => r \in WrittenIn(c),
         Visited(Removed(Substituted(c, code[b][k].id, r), b, code[b][k].id))
  PROVE  LoweringInv'
<1> DEFINE inst == code[b][k]
           id == inst.id
           U == ToSet(work)
           d == Removed(Substituted(c, id, r), b, id)
<1>2. Visiting(b, k)
  OBVIOUS
<1>3. /\ source \in Functions
      /\ Shaped(code) /\ EndsWell(code)
      /\ AllWait(code, U) /\ AllSound(code, U)
      /\ id[1] = "inst"
      /\ inst \in ToSet(code[b])
      /\ HasItsOperands(inst) /\ inst.op \notin {"move", "constraint"}
      /\ \A def \in InstrsOf(source) : def.id = id => def.op = inst.op
      /\ \A n \in DOMAIN inst.args : Sound(code, U, inst.args[n])
  BY <1>2, VisitFinds
<1>4. Shaped(c) /\ EndsWell(c) /\ AllWait(c, U) /\ AllSound(c, U)
  <2>1. OperandsSound(S, c, U)
    OBVIOUS
  <2> HIDE DEF U
  <2>2. AllWait(c, U)
    BY <1>3, GrownWaits
  <2>3. AllSound(c, U)
    BY <1>3, <2>1, GrownSound
  <2> QED
    BY <1>3, <2>2, <2>3 DEF Grown
<1>5. Shaped(d) /\ EndsWell(d) /\ AllWait(d, U \ {id}) /\ AllSound(d, U \ {id})
  <2>1. \A def \in InstrsOf(source) : def.id = id => def.op # "alloc"
    BY <1>3
  <2> HIDE DEF U
  <2> QED
    BY <1>3, <1>4, <2>1, ReplacedCode
<1>6. Visited(d)
  OBVIOUS
<1> HIDE DEF d
<1> QED
  BY <1>2, <1>5, <1>6, VisitLeaves

LEMMA OperationKeepsInv ==
  ASSUME LoweringInv, VisitOperation
  PROVE  LoweringInv'
<1>1. PICK b \in Block : \E k \in DOMAIN code[b] :
        LET inst == code[b][k]
            new == New(inst.id)
            moves == << Move(Phys(0), inst.args[1]),
                        Move(Phys(1), inst.args[2]),
                        Instr(new, inst.op, <<Phys(0), Phys(1)>>, <<>>),
                        Move(Virt(new), Phys(0)) >>
        IN  /\ Visiting(b, k)
            /\ inst.op \notin {"load", "store", "phi", "branch", "cond", "ret", "alloc"}
            /\ Visited(Removed(Substituted(Inserted(code, b, k, moves), inst.id, Virt(new)), b, inst.id))
  BY DEF VisitOperation
<1>2. PICK k \in DOMAIN code[b] :
        /\ Visiting(b, k)
        /\ code[b][k].op \notin {"load", "store", "phi", "branch", "cond", "ret", "alloc"}
        /\ Visited(Removed(Substituted(Inserted(code, b, k,
             << Move(Phys(0), code[b][k].args[1]),
                Move(Phys(1), code[b][k].args[2]),
                Instr(New(code[b][k].id), code[b][k].op, <<Phys(0), Phys(1)>>, <<>>),
                Move(Virt(New(code[b][k].id)), Phys(0)) >>),
             code[b][k].id, Virt(New(code[b][k].id))), b, code[b][k].id))
  BY <1>1
<1> DEFINE inst == code[b][k]
           id == inst.id
           new == New(id)
           r == Virt(new)
           m1 == Move(Phys(0), inst.args[1])
           m2 == Move(Phys(1), inst.args[2])
           op == Instr(new, inst.op, <<Phys(0), Phys(1)>>, <<>>)
           m3 == Move(r, Phys(0))
           S == {m1, m2, op, m3}
           moves == <<m1, m2, op, m3>>
           c == Inserted(code, b, k, moves)
           U == ToSet(work)
<1>3. /\ source \in Functions
      /\ Shaped(code) /\ EndsWell(code)
      /\ AllWait(code, U) /\ AllSound(code, U)
      /\ id[1] = "inst"
      /\ inst \in ToSet(code[b])
      /\ HasItsOperands(inst) /\ inst.op \notin {"move", "constraint"}
      /\ \A def \in InstrsOf(source) : def.id = id => def.op = inst.op
      /\ \A n \in DOMAIN inst.args : Sound(code, U, inst.args[n])
  BY <1>2, VisitFinds
<1>4. Sound(code, U, inst.args[1]) /\ Sound(code, U, inst.args[2])
  <2>1. DOMAIN inst.args = 1..2
    BY <1>2, <1>3 DEF HasItsOperands
  <2> QED
    BY <1>3, <2>1
<1>5. Plain(S)
  <2>1. Made(op) /\ ~IsTerminator(op)
    BY <1>2, <1>3 DEF Made, IsTerminator, Instr, IsRecord, New
  <2> QED
    BY <2>1, MovesAreSound DEF Plain
<1>6. r[1] = "virt" /\ Sound(code, U, Phys(0)) /\ Sound(code, U, Phys(1))
  BY DEF Virt, Phys, Sound
<1>7. moves \in Seq(S) /\ m3 \in ToSet(moves)
  <2> HIDE DEF m1, m2, op, m3
  <2>1. moves \in Seq(S) /\ 4 \in DOMAIN moves /\ moves[4] = m3
    OBVIOUS
  <2> QED
    BY <2>1 DEF ToSet
<1>8. /\ Grown(code, c, S)
      /\ ToSet(moves) \subseteq InstrsOf(c)
      /\ ToSet(code[b]) \subseteq ToSet(c[b])
  <2> HIDE DEF S, moves
  <2> QED
    BY <1>3, <1>5, <1>7, InsertedCode
<1>9. r \in WrittenIn(c)
  <2> HIDE DEF moves, c
  <2> QED
    BY <1>7, <1>8, WrittenByMove
<1>10. ASSUME NEW x \in S, NEW n \in DOMAIN x.args PROVE Sound(c, U, x.args[n])
  <2>0. Sound(c, U, r)
    BY <1>6, <1>9 DEF Sound
  <2> HIDE DEF U, c, S
  <2>9. \A v : Sound(code, U, v) => Sound(c, U, v)
    BY <1>8, SoundInGrown
  <2> USE DEF S
  <2>1. CASE x \in {m1, m2}
    <3>1. n \in 1..2
      BY <2>1, MovesAreSound
    <3>2. x.args[2] \in {inst.args[1], inst.args[2]} /\ x.args[1] \in {Phys(0), Phys(1)}
      BY <2>1, MovesAreSound
    <3> QED
      BY <1>4, <1>6, <2>9, <3>1, <3>2
  <2>2. CASE x = op
    BY <1>6, <2>2, <2>9 DEF Instr
  <2>3. CASE x = m3
    <3>1. n \in 1..2 /\ x.args[1] = r /\ x.args[2] = Phys(0)
      BY <2>3, MovesAreSound
    <3> QED
      BY <1>6, <2>0, <2>9, <3>1
  <2> QED
    BY <2>1, <2>2, <2>3
<1>11. ~IsTerminator(inst) /\ inst.op # "alloc"
  BY <1>2 DEF IsTerminator
<1>12. inst \in ToSet(c[b])
  BY <1>3, <1>8
<1>13. Visited(Removed(Substituted(c, id, r), b, id)) /\ Visiting(b, k)
  BY <1>2
<1>14. OperandsSound(S, c, U)
  BY <1>10 DEF OperandsSound
<1> HIDE DEF S, c, r
<1> QED
  BY <1>5, <1>6, <1>8, <1>9, <1>14, <1>11, <1>12, <1>13, HandingOverKeepsInv

LEMMA LoadKeepsInv ==
  ASSUME LoweringInv, VisitLoad
  PROVE  LoweringInv'
<1>1. PICK b \in Block : \E k \in DOMAIN code[b] :
        LET inst == code[b][k]
            r == Virt(New(inst.id))
            moved == Inserted(code, b, k, << Move(r, inst.args[1]) >>)
        IN  /\ Visiting(b, k)
            /\ inst.op = "load"
            /\ Visited(Removed(Substituted(moved, inst.id, r), b, inst.id))
  BY DEF VisitLoad
<1>2. PICK k \in DOMAIN code[b] :
        /\ Visiting(b, k)
        /\ code[b][k].op = "load"
        /\ Visited(Removed(Substituted(Inserted(code, b, k,
             << Move(Virt(New(code[b][k].id)), code[b][k].args[1]) >>),
             code[b][k].id, Virt(New(code[b][k].id))), b, code[b][k].id))
  BY <1>1
<1> DEFINE inst == code[b][k]
           id == inst.id
           r == Virt(New(id))
           move == Move(r, inst.args[1])
           S == {move}
           moves == <<move>>
           c == Inserted(code, b, k, moves)
           U == ToSet(work)
<1>3. /\ source \in Functions
      /\ Shaped(code) /\ EndsWell(code)
      /\ AllWait(code, U) /\ AllSound(code, U)
      /\ id[1] = "inst"
      /\ inst \in ToSet(code[b])
      /\ HasItsOperands(inst) /\ inst.op \notin {"move", "constraint"}
      /\ \A def \in InstrsOf(source) : def.id = id => def.op = inst.op
      /\ \A n \in DOMAIN inst.args : Sound(code, U, inst.args[n])
  BY <1>2, VisitFinds
<1>4. Sound(code, U, inst.args[1])
  BY <1>2, <1>3 DEF HasItsOperands
<1>5. Plain(S)
  BY MovesAreSound DEF Plain
<1>6. r[1] = "virt"
  BY DEF Virt
<1>7. moves \in Seq(S) /\ move \in ToSet(moves)
  BY DEF ToSet
<1>8. /\ Grown(code, c, S)
      /\ ToSet(moves) \subseteq InstrsOf(c)
      /\ ToSet(code[b]) \subseteq ToSet(c[b])
  <2> HIDE DEF S, moves
  <2> QED
    BY <1>3, <1>5, <1>7, InsertedCode
<1>9. r \in WrittenIn(c)
  <2> HIDE DEF moves, c
  <2> QED
    BY <1>7, <1>8, WrittenByMove
<1>10. ASSUME NEW x \in S, NEW n \in DOMAIN x.args PROVE Sound(c, U, x.args[n])
  <2>0. Sound(c, U, r)
    BY <1>6, <1>9 DEF Sound
  <2> HIDE DEF U, c, S
  <2>9. \A v : Sound(code, U, v) => Sound(c, U, v)
    BY <1>8, SoundInGrown
  <2> USE DEF S
  <2>1. n \in 1..2 /\ x.args[1] = r /\ x.args[2] = inst.args[1]
    BY MovesAreSound
  <2> QED
    BY <1>4, <2>0, <2>1, <2>9
<1>11. ~IsTerminator(inst) /\ inst.op # "alloc"
  BY <1>2 DEF IsTerminator
<1>12. inst \in ToSet(c[b])
  BY <1>3, <1>8
<1>13. Visited(Removed(Substituted(c, id, r), b, id)) /\ Visiting(b, k)
  BY <1>2
<1>14. OperandsSound(S, c, U)
  BY <1>10 DEF OperandsSound
<1> HIDE DEF S, c, r
<1> QED
  BY <1>5, <1>6, <1>8, <1>9, <1>14, <1>11, <1>12, <1>13, HandingOverKeepsInv

(* An instruction that gives no value is just removed.                     *)
LEMMA RemovesOne ==
  ASSUME source \in Functions, NEW c, Shaped(c), EndsWell(c), NEW b \in Block, NEW x \in ToSet(c[b]),
         x.id[1] = "inst", ~IsTerminator(x), NEW d, d = Removed(c, b, x.id)
  PROVE  \E k : Removes(c, d, b, k, x.id)
<1>1. PICK k \in DOMAIN c[b] : x = c[b][k]
  BY DEF ToSet
<1>2. BlockShape(c[b], b) /\ Ends(c[b], b)
  BY DEF Shaped, EndsWell
<1>3. k # Len(c[b])
  BY <1>1, <1>2, NotLast
<1> QED
  BY <1>1, <1>3 DEF Removes

LEMMA StoreKeepsInv ==
  ASSUME LoweringInv, VisitStore
  PROVE  LoweringInv'
<1>1. PICK b \in Block : \E k \in DOMAIN code[b] :
        LET inst == code[b][k]
        IN  /\ Visiting(b, k)
            /\ inst.op = "store"
            /\ Visited(Removed(Inserted(code, b, k, << Move(inst.args[1], inst.args[2]) >>), b, inst.id))
  BY DEF VisitStore
<1>2. PICK k \in DOMAIN code[b] :
        /\ Visiting(b, k)
        /\ code[b][k].op = "store"
        /\ Visited(Removed(Inserted(code, b, k, << Move(code[b][k].args[1], code[b][k].args[2]) >>),
                           b, code[b][k].id))
  BY <1>1
<1> DEFINE inst == code[b][k]
           id == inst.id
           move == Move(inst.args[1], inst.args[2])
           S == {move}
           moves == <<move>>
           c == Inserted(code, b, k, moves)
           d == Removed(c, b, id)
           U == ToSet(work)
<1>3. /\ source \in Functions
      /\ Shaped(code) /\ EndsWell(code)
      /\ AllWait(code, U) /\ AllSound(code, U)
      /\ id[1] = "inst"
      /\ inst \in ToSet(code[b])
      /\ HasItsOperands(inst) /\ inst.op \notin {"move", "constraint"}
      /\ \A def \in InstrsOf(source) : def.id = id => def.op = inst.op
      /\ \A n \in DOMAIN inst.args : Sound(code, U, inst.args[n])
  BY <1>2, VisitFinds
<1>4. Sound(code, U, inst.args[1]) /\ Sound(code, U, inst.args[2])
  <2>1. DOMAIN inst.args = 1..2
    BY <1>2, <1>3 DEF HasItsOperands
  <2> QED
    BY <1>3, <2>1
<1>5. Plain(S)
  BY MovesAreSound DEF Plain
<1>6. moves \in Seq(S)
  OBVIOUS
<1>7. Grown(code, c, S) /\ ToSet(code[b]) \subseteq ToSet(c[b])
  <2> HIDE DEF S, moves
  <2> QED
    BY <1>3, <1>5, <1>6, InsertedCode
<1>8. OperandsSound(S, c, U)
  <2> SUFFICES ASSUME NEW x \in S, NEW n \in DOMAIN x.args PROVE Sound(c, U, x.args[n])
    BY DEF OperandsSound
  <2> HIDE DEF U, c, S
  <2>1. \A v : Sound(code, U, v) => Sound(c, U, v)
    BY <1>7, SoundInGrown
  <2> USE DEF S
  <2>2. n \in 1..2 /\ x.args[1] = inst.args[1] /\ x.args[2] = inst.args[2]
    BY MovesAreSound
  <2> QED
    BY <1>4, <2>1, <2>2
<1>9. Shaped(c) /\ EndsWell(c) /\ AllWait(c, U) /\ AllSound(c, U)
  <2> HIDE DEF U, c, S
  <2>1. AllWait(c, U)
    BY <1>3, <1>5, <1>7, GrownWaits
  <2>2. AllSound(c, U)
    BY <1>3, <1>7, <1>8, GrownSound
  <2> QED
    BY <1>3, <1>7, <2>1, <2>2 DEF Grown
<1>10. AllSound(c, U \ {id})
  <2>1. \A def \in InstrsOf(source) : def.id = id => ~HasValue(def)
    BY <1>2, <1>3 DEF HasValue
  <2> HIDE DEF U, c, id
  <2> QED
    BY <1>9, <2>1, AllSoundWithout
<1>11. PICK j : Removes(c, d, b, j, id)
  <2>1. inst \in ToSet(c[b]) /\ ~IsTerminator(inst)
    BY <1>2, <1>3, <1>7 DEF IsTerminator
  <2> HIDE DEF c
  <2> QED
    BY <1>3, <1>9, <2>1, RemovesOne
<1>12. Leaves(c, d, U \ {id}, U \ {id})
  <2> HIDE DEF c, d, U, id
  <2> QED
    BY <1>3, <1>9, <1>10, <1>11, RemovedCode
<1>13. Visited(d) /\ Visiting(b, k)
  BY <1>2
<1>14. Shaped(d) /\ EndsWell(d) /\ AllWait(d, U \ {id}) /\ AllSound(d, U \ {id})
  BY <1>9, <1>12 DEF Leaves
<1> HIDE DEF d
<1> QED
  BY <1>13, <1>14, VisitLeaves

LEMMA PhiKeepsInv ==
  ASSUME LoweringInv, VisitPhi
  PROVE  LoweringInv'
<1>1. PICK b \in Block : \E k \in DOMAIN code[b] :
        LET inst == code[b][k]
        IN  /\ Visiting(b, k)
            /\ inst.op = "phi"
            /\ Visited(Removed(Substituted(PhiMoves(inst), inst.id, Virt(inst.id)), b, inst.id))
  BY DEF VisitPhi
<1>2. PICK k \in DOMAIN code[b] :
        /\ Visiting(b, k)
        /\ code[b][k].op = "phi"
        /\ Visited(Removed(Substituted(PhiMoves(code[b][k]), code[b][k].id, Virt(code[b][k].id)),
                           b, code[b][k].id))
  BY <1>1
<1> DEFINE inst == code[b][k]
           id == inst.id
           r == Virt(id)
           S == {Move(r, inst.args[p]) : p \in DOMAIN inst.args}
           c == PhiMoves(inst)
           U == ToSet(work)
<1>3. /\ source \in Functions
      /\ Shaped(code) /\ EndsWell(code)
      /\ AllWait(code, U) /\ AllSound(code, U)
      /\ id[1] = "inst"
      /\ inst \in ToSet(code[b])
      /\ HasItsOperands(inst) /\ inst.op \notin {"move", "constraint"}
      /\ \A def \in InstrsOf(source) : def.id = id => def.op = inst.op
      /\ \A n \in DOMAIN inst.args : Sound(code, U, inst.args[n])
  BY <1>2, VisitFinds
<1>4. DOMAIN inst.args \subseteq Block
  BY <1>2, <1>3 DEF HasItsOperands
<1>5. Plain(S)
  BY MovesAreSound DEF Plain
<1>6. r[1] = "virt"
  BY DEF Virt
<1>7. ASSUME NEW p \in DOMAIN inst.args
      PROVE  /\ Extends(code[p], c[p], S)
             /\ Move(r, inst.args[p]) \in ToSet(c[p])
  <2> DEFINE n == Len(code[p])
             new == << Move(r, inst.args[p]) >>
  <2>1. p \in Block /\ DOMAIN code = Block
    BY <1>3, <1>4 DEF Shaped
  <2>2. BlockShape(code[p], p) /\ Ends(code[p], p)
    BY <1>3, <2>1 DEF Shaped, EndsWell
  <2>3. n \in 1..Len(code[p]) /\ IsSeq(code[p])
    <3>1. IsSeq(code[p]) /\ Len(code[p]) > 0
      BY <2>2 DEF BlockShape, Ends
    <3> QED
      BY <3>1, SeqIsSeq DEF IsSeq
  <2>4. c[p] = Spliced(code[p], n, new)
    BY <2>1 DEF PhiMoves, Inserted, Terminator, Spliced
  <2>5. new \in Seq(S) /\ Move(r, inst.args[p]) \in ToSet(new)
    BY DEF ToSet
  <2> HIDE DEF n, new, S, c
  <2>6. Extends(code[p], c[p], S)
    BY <2>3, <2>4, <2>5 DEF Extends
  <2>7. ToSet(new) \subseteq ToSet(c[p])
    BY <2>3, <2>4, <2>5, <2>2, <1>5, ExtendedPlaces
  <2> QED
    BY <2>5, <2>6, <2>7
<1>8. DOMAIN c = Block /\ \A p \in Block : c[p] = code[p] \/ Extends(code[p], c[p], S)
  <2>1. DOMAIN c = Block /\ \A p \in Block : p \notin DOMAIN inst.args => c[p] = code[p]
    BY DEF PhiMoves
  <2> HIDE DEF c, S
  <2> QED
    BY <1>7, <2>1
<1>9. Grown(code, c, S)
  <2> HIDE DEF c, S
  <2> QED
    BY <1>3, <1>5, <1>8, GrownCode
<1>10. PhisHaveValues => r \in WrittenIn(c)
  <2> SUFFICES ASSUME PhisHaveValues PROVE r \in WrittenIn(c)
    OBVIOUS
  <2>1. Original(inst, b)
    BY <1>3, KnownInstrs DEF Known, Made
  <2>2. PICK p : p \in DOMAIN inst.args
    BY <1>2, <2>1, SourceOf DEF PhisHaveValues
  <2>3. Move(r, inst.args[p]) \in InstrsOf(c)
    BY <1>4, <1>7, <2>2, InstrsIn
  <2> HIDE DEF c
  <2> QED
    BY <2>3, WrittenByMove
<1>11. OperandsSound(S, c, U)
  <2> SUFFICES ASSUME NEW x \in S, NEW n \in DOMAIN x.args PROVE Sound(c, U, x.args[n])
    BY DEF OperandsSound
  <2>1. Sound(c, U, r)
    BY <1>6, <1>10 DEF Sound
  <2>2. PICK p \in DOMAIN inst.args : x = Move(r, inst.args[p])
    OBVIOUS
  <2>3. n \in 1..2 /\ x.args[1] = r /\ x.args[2] = inst.args[p]
    BY <2>2, MovesAreSound
  <2>4. Sound(code, U, inst.args[p])
    BY <1>3
  <2> HIDE DEF U, c, S
  <2>5. \A v : Sound(code, U, v) => Sound(c, U, v)
    BY <1>9, SoundInGrown
  <2> QED
    BY <2>1, <2>3, <2>4, <2>5
<1>12. ~IsTerminator(inst) /\ inst.op # "alloc"
  BY <1>2 DEF IsTerminator
<1>13. inst \in ToSet(c[b])
  <2>1. BlockShape(code[b], b)
    BY <1>3 DEF Shaped
  <2> HIDE DEF c, S
  <2>2. ToSet(code[b]) \subseteq ToSet(c[b])
    BY <1>5, <1>8, <2>1, ExtendedBlock
  <2> QED
    BY <1>3, <2>2
<1>14. Visited(Removed(Substituted(c, id, r), b, id)) /\ Visiting(b, k)
  BY <1>2
<1> HIDE DEF S, c, r
<1> QED
  BY <1>5, <1>6, <1>9, <1>10, <1>11, <1>12, <1>13, <1>14, HandingOverKeepsInv

(* The branch at the end of a block gives way to one behind it.            *)
LEMMA RewrittenLast ==
  ASSUME NEW s, NEW b, BlockShape(s, b), Ends(s, b), NEW inst, Made(inst),
         inst.op = Last(s).op, inst.dst = Last(s).dst,
         NEW t, t = RemoveAt(Append(s, inst), Len(s))
  PROVE  Ends(t, b)
<1> DEFINE u == Append(s, inst)
           n == Len(s)
<1>0. u = Append(s, inst) /\ n = Len(s)
  OBVIOUS
<1>3. t = RemoveAt(u, n)
  OBVIOUS
<1> HIDE DEF u, n
<1>1. /\ BlockShape(u, b)
      /\ n \in Nat /\ Len(u) = n + 1
      /\ DOMAIN s = 1..n /\ DOMAIN u = 1..(n + 1)
      /\ \A k \in 1..n : u[k] = s[k]
      /\ u[n + 1] = inst
  <2>1. BlockShape(u, b)
    BY <1>0, AppendedBlock
  <2>2. Len(s) \in Nat /\ Len(u) = Len(s) + 1 /\ DOMAIN s = 1..Len(s) /\ DOMAIN u = 1..(Len(s) + 1)
    BY <1>0, AppendedBlock
  <2>3. (\A k \in 1..Len(s) : u[k] = s[k]) /\ u[Len(s) + 1] = inst
    BY <1>0, AppendedBlock
  <2> QED
    BY <1>0, <2>1, <2>2, <2>3
<1>2. n > 0 /\ IsSeq(u)
  BY <1>0, <1>1 DEF Ends, BlockShape
<1>4. n \in 1..Len(u)
  BY <1>1, <1>2
<1>5. Len(t) = Len(u) - 1 /\ DOMAIN t = 1..(Len(u) - 1)
  BY <1>2, <1>3, <1>4, RemovedPlaces
<1>6. /\ \A j \in 1..(n - 1) : t[j] = u[j]
      /\ \A j \in (n + 1)..Len(u) : t[j - 1] = u[j]
  BY <1>2, <1>3, <1>4, RemovedPlaces
<1>7. Len(t) = n /\ DOMAIN t = 1..n
  BY <1>1, <1>5
<1>8. t[n] = inst
  <2>1. n + 1 \in (n + 1)..Len(u) /\ (n + 1) - 1 = n
    BY <1>1
  <2>2. t[(n + 1) - 1] = u[n + 1]
    BY <1>6, <2>1
  <2> QED
    BY <1>1, <2>1, <2>2
<1>9. Last(t).op = Last(source[b]).op /\ Last(t).dst = Last(source[b]).dst
  BY <1>7, <1>8 DEF Ends, Last
<1>10. ASSUME NEW j \in DOMAIN t, IsTerminator(t[j]), j # n PROVE FALSE
  <2>1. j \in 1..(n - 1) /\ j \in 1..n
    BY <1>1, <1>7, <1>10
  <2>2. t[j] = s[j]
    BY <1>1, <1>6, <2>1
  <2>3. j \in DOMAIN s /\ IsTerminator(s[j])
    BY <1>1, <1>10, <2>1, <2>2
  <2> QED
    BY <1>0, <1>10, <2>3 DEF Ends
<1> QED
  BY <1>2, <1>7, <1>9, <1>10 DEF Ends

(* An instruction that stays need not wait.                                *)
LEMMA StayingWaits ==
  ASSUME source \in Functions, NEW c, Shaped(c), NEW U, AllWait(c, U), NEW id,
         \A def \in InstrsOf(source) : def.id = id => def.op \in {"alloc", "branch", "ret"}
  PROVE  AllWait(c, U \ {id})
<1> SUFFICES ASSUME NEW inst \in InstrsOf(c), inst.id[1] = "inst", inst.op \notin {"alloc", "branch", "ret"}
             PROVE  inst.id \in U \ {id}
  BY DEF AllWait, Waits
<1>1. inst.id \in U
  BY DEF AllWait, Waits
<1>2. PICK b \in Block : inst \in ToSet(c[b])
  BY InstrsFrom
<1>3. Original(inst, b)
  BY <1>2, KnownInstrs DEF Known, Made
<1> QED
  BY <1>1, <1>3, SourceOf

LEMMA RetKeepsInv ==
  ASSUME LoweringInv, VisitRet
  PROVE  LoweringInv'
<1>1. PICK b \in Block : \E k \in DOMAIN code[b] :
        LET inst == code[b][k]
            r == Virt(New(inst.id))
        IN  /\ Visiting(b, k)
            /\ inst.op = "ret"
            /\ Visited(Inserted(code, b, k, << Constraint(r), Move(r, inst.args[1]) >>))
  BY DEF VisitRet
<1>2. PICK k \in DOMAIN code[b] :
        /\ Visiting(b, k)
        /\ code[b][k].op = "ret"
        /\ Visited(Inserted(code, b, k,
             << Constraint(Virt(New(code[b][k].id))),
                Move(Virt(New(code[b][k].id)), code[b][k].args[1]) >>))
  BY <1>1
<1> DEFINE inst == code[b][k]
           id == inst.id
           r == Virt(New(id))
           fixed == Constraint(r)
           move == Move(r, inst.args[1])
           S == {fixed, move}
           moves == <<fixed, move>>
           d == Inserted(code, b, k, moves)
           U == ToSet(work)
<1>3. /\ source \in Functions
      /\ Shaped(code) /\ EndsWell(code)
      /\ AllWait(code, U) /\ AllSound(code, U)
      /\ id[1] = "inst"
      /\ inst \in ToSet(code[b])
      /\ HasItsOperands(inst) /\ inst.op \notin {"move", "constraint"}
      /\ \A def \in InstrsOf(source) : def.id = id => def.op = inst.op
      /\ \A n \in DOMAIN inst.args : Sound(code, U, inst.args[n])
  BY <1>2, VisitFinds
<1>4. Sound(code, U, inst.args[1])
  BY <1>2, <1>3 DEF HasItsOperands
<1>5. /\ Made(fixed) /\ ~IsTerminator(fixed) /\ fixed.op = "constraint"
      /\ DOMAIN fixed.args = 1..1 /\ fixed.args[1] = r
  BY DEF Made, IsTerminator, Constraint, Instr, IsRecord, NoId
<1>6. Plain(S)
  <2> HIDE DEF fixed, move
  <2> QED
    BY <1>5, MovesAreSound DEF Plain, move
<1>7. moves \in Seq(S) /\ move \in ToSet(moves)
  <2> HIDE DEF fixed, move
  <2>1. moves \in Seq(S) /\ 2 \in DOMAIN moves /\ moves[2] = move
    OBVIOUS
  <2> QED
    BY <2>1 DEF ToSet
<1>8. Grown(code, d, S) /\ ToSet(moves) \subseteq InstrsOf(d)
  <2> HIDE DEF S, moves
  <2> QED
    BY <1>3, <1>6, <1>7, InsertedCode
<1>9. r \in WrittenIn(d) /\ r[1] = "virt"
  <2>1. r[1] = "virt"
    BY DEF Virt
  <2> HIDE DEF moves, d
  <2> QED
    BY <1>7, <1>8, <2>1, WrittenByMove
<1>10. OperandsSound(S, d, U)
  <2> SUFFICES ASSUME NEW x \in S, NEW n \in DOMAIN x.args PROVE Sound(d, U, x.args[n])
    BY DEF OperandsSound
  <2>1. Sound(d, U, r)
    BY <1>9 DEF Sound
  <2> HIDE DEF U, d, S, fixed
  <2>2. \A v : Sound(code, U, v) => Sound(d, U, v)
    BY <1>8, SoundInGrown
  <2> USE DEF S
  <2>3. CASE x = fixed
    <3>1. n = 1
      BY <1>5, <2>3
    <3> QED
      BY <1>5, <2>1, <2>3, <3>1
  <2>4. CASE x = move
    <3>1. n \in 1..2 /\ x.args[1] = r /\ x.args[2] = inst.args[1]
      BY <2>4, MovesAreSound
    <3> QED
      BY <1>4, <2>1, <2>2, <3>1
  <2> QED
    BY <2>3, <2>4
<1>11. Shaped(d) /\ EndsWell(d) /\ AllWait(d, U) /\ AllSound(d, U)
  <2> HIDE DEF U, d, S
  <2>1. AllWait(d, U)
    BY <1>3, <1>6, <1>8, GrownWaits
  <2>2. AllSound(d, U)
    BY <1>3, <1>8, <1>10, GrownSound
  <2> QED
    BY <1>3, <1>8, <2>1, <2>2 DEF Grown
<1>12. AllWait(d, U \ {id}) /\ AllSound(d, U \ {id})
  <2>1. \A def \in InstrsOf(source) : def.id = id => ~HasValue(def) /\ def.op \in {"alloc", "branch", "ret"}
    BY <1>2, <1>3 DEF HasValue, IsTerminator
  <2> HIDE DEF U, d, id
  <2>2. AllWait(d, U \ {id})
    BY <1>3, <1>11, <2>1, StayingWaits
  <2>3. AllSound(d, U \ {id})
    BY <1>11, <2>1, AllSoundWithout
  <2> QED
    BY <2>2, <2>3
<1>13. Visited(d) /\ Visiting(b, k)
  BY <1>2
<1> HIDE DEF d
<1> QED
  BY <1>11, <1>12, <1>13, VisitLeaves

LEMMA OtherKeepsInv ==
  ASSUME LoweringInv, VisitOther
  PROVE  LoweringInv'
<1>1. PICK b \in Block : \E k \in DOMAIN code[b] : Visiting(b, k) /\ code[b][k].op \in {"alloc", "branch"}
  BY DEF VisitOther
<1>2. PICK k \in DOMAIN code[b] : Visiting(b, k) /\ code[b][k].op \in {"alloc", "branch"}
  BY <1>1
<1> DEFINE id == code[b][k].id
           U == ToSet(work)
<1>3. /\ source \in Functions
      /\ Shaped(code) /\ EndsWell(code)
      /\ AllWait(code, U) /\ AllSound(code, U)
      /\ \A def \in InstrsOf(source) : def.id = id => def.op = code[b][k].op
  BY <1>2, VisitFinds
<1>4. AllWait(code, U \ {id}) /\ AllSound(code, U \ {id})
  <2>1. \A def \in InstrsOf(source) : def.id = id =>
          (~HasValue(def) \/ def.op = "alloc") /\ def.op \in {"alloc", "branch", "ret"}
    BY <1>2, <1>3 DEF HasValue, IsTerminator
  <2> HIDE DEF U, id
  <2>2. AllWait(code, U \ {id})
    BY <1>3, <2>1, StayingWaits
  <2>3. AllSound(code, U \ {id})
    BY <1>3, <2>1, AllSoundWithout
  <2> QED
    BY <2>2, <2>3
<1>5. Visited(code)
  BY DEF VisitOther
<1> QED
  BY <1>2, <1>3, <1>4, <1>5, VisitLeaves

LEMMA CondKeepsInv ==
  ASSUME LoweringInv, VisitCondBranch
  PROVE  LoweringInv'
<1>1. PICK b \in Block : \E k \in DOMAIN code[b] :
        LET inst == code[b][k]
            r == Virt(inst.args[1])
            moved == Inserted(code, b, k, << Move(r, inst.args[1]) >>)
        IN  /\ Visiting(b, k)
            /\ inst.op = "cond"
            /\ Visited(Removed([moved EXCEPT ![b] = Append(@, NewCondBranch(inst.id, r, inst.dst))], b, inst.id))
  BY DEF VisitCondBranch
<1>2. PICK k \in DOMAIN code[b] :
        /\ Visiting(b, k)
        /\ code[b][k].op = "cond"
        /\ Visited(Removed([Inserted(code, b, k, << Move(Virt(code[b][k].args[1]), code[b][k].args[1]) >>)
             EXCEPT ![b] = Append(@, NewCondBranch(code[b][k].id, Virt(code[b][k].args[1]), code[b][k].dst))],
             b, code[b][k].id))
  BY <1>1
<1> DEFINE inst == code[b][k]
           id == inst.id
           r == Virt(inst.args[1])
           move == Move(r, inst.args[1])
           S == {move}
           moves == <<move>>
           c == Inserted(code, b, k, moves)
           branch == NewCondBranch(id, r, inst.dst)
           e == [c EXCEPT ![b] = Append(@, branch)]
           d == Removed(e, b, id)
           U == ToSet(work)
<1>3. /\ source \in Functions
      /\ Shaped(code) /\ EndsWell(code)
      /\ AllWait(code, U) /\ AllSound(code, U)
      /\ id[1] = "inst"
      /\ inst \in ToSet(code[b])
      /\ HasItsOperands(inst) /\ inst.op \notin {"move", "constraint"}
      /\ \A def \in InstrsOf(source) : def.id = id => def.op = inst.op
      /\ \A n \in DOMAIN inst.args : Sound(code, U, inst.args[n])
  BY <1>2, VisitFinds
<1>4. Sound(code, U, inst.args[1])
  BY <1>2, <1>3 DEF HasItsOperands
<1>5. Plain(S)
  BY MovesAreSound DEF Plain
<1>6. moves \in Seq(S) /\ move \in ToSet(moves)
  BY DEF ToSet
<1>7. Grown(code, c, S) /\ ToSet(moves) \subseteq InstrsOf(c) /\ ToSet(code[b]) \subseteq ToSet(c[b])
  <2>1. c = Inserted(code, b, k, moves) /\ Shaped(code)
    BY <1>3
  <2> HIDE DEF S, moves, c
  <2>2. Grown(code, c, S)
    BY <1>5, <1>6, <2>1, InsertedCode
  <2>3. ToSet(moves) \subseteq InstrsOf(c) /\ ToSet(code[b]) \subseteq ToSet(c[b])
    BY <1>5, <1>6, <2>1, InsertedCode
  <2> QED
    BY <2>2, <2>3
<1>8. r \in WrittenIn(c) /\ r[1] = "virt"
  <2>1. r[1] = "virt"
    BY DEF Virt
  <2> HIDE DEF moves, c
  <2> QED
    BY <1>6, <1>7, <2>1, WrittenByMove
<1>9. OperandsSound(S, c, U)
  <2> SUFFICES ASSUME NEW x \in S, NEW n \in DOMAIN x.args PROVE Sound(c, U, x.args[n])
    BY DEF OperandsSound
  <2>1. Sound(c, U, r)
    BY <1>8 DEF Sound
  <2> HIDE DEF U, c, S
  <2>2. \A v : Sound(code, U, v) => Sound(c, U, v)
    BY <1>7, SoundInGrown
  <2> USE DEF S
  <2>3. n \in 1..2 /\ x.args[1] = r /\ x.args[2] = inst.args[1]
    BY MovesAreSound
  <2> QED
    BY <1>4, <2>1, <2>2, <2>3
<1>10. Shaped(c) /\ EndsWell(c) /\ AllWait(c, U) /\ AllSound(c, U)
  <2> HIDE DEF U, c, S
  <2>1. AllWait(c, U)
    BY <1>3, <1>5, <1>7, GrownWaits
  <2>2. AllSound(c, U)
    BY <1>3, <1>7, <1>9, GrownSound
  <2> QED
    BY <1>3, <1>7, <2>1, <2>2 DEF Grown
<1>11. /\ Made(branch) /\ IsTerminator(branch) /\ branch.op = "cond" /\ branch.dst = inst.dst
       /\ branch.id[1] # "inst" /\ DOMAIN branch.args = 1..1 /\ branch.args[1] = r
  BY DEF Made, IsTerminator, NewCondBranch, New, Instr, IsRecord
<1>12. DOMAIN c = Block /\ BlockShape(c[b], b) /\ Ends(c[b], b)
  BY <1>10 DEF Shaped, EndsWell
<1>13. DOMAIN e = Block /\ e[b] = Append(c[b], branch) /\ \A a \in Block \ {b} : e[a] = c[a]
  BY <1>12
<1> HIDE DEF branch, c, e, S, r, U
<1>14. /\ BlockShape(e[b], b)
       /\ ToSet(e[b]) = ToSet(c[b]) \cup {branch}
  <2>1. BlockShape(c[b], b) /\ Made(branch) /\ e[b] = Append(c[b], branch)
    BY <1>11, <1>12, <1>13
  <2>2. BlockShape(e[b], b)
    BY <2>1, AppendedBlock
  <2>3. ToSet(e[b]) = ToSet(c[b]) \cup {branch}
    <3> DEFINE s == c[b]
               t == e[b]
    <3>1. BlockShape(s, b) /\ Made(branch) /\ t = Append(s, branch)
      BY <2>1
    <3> HIDE DEF s, t
    <3>2. ToSet(t) = ToSet(s) \cup {branch}
      BY <3>1, AppendedBlock, Zenon
    <3> QED
      BY <3>2 DEF s, t
  <2> QED
    BY <2>2, <2>3
<1>15. Shaped(e)
  BY <1>10, <1>13, <1>14 DEF Shaped
<1>16. InstrsOf(c) \subseteq InstrsOf(e) /\ InstrsOf(e) \subseteq InstrsOf(c) \cup {branch}
  <2>1. \A a \in Block : ToSet(c[a]) \subseteq ToSet(e[a]) /\ ToSet(e[a]) \subseteq ToSet(c[a]) \cup {branch}
    BY <1>13, <1>14
  <2> QED
    BY <2>1, InstrsIn, InstrsFrom
<1>17. AllWait(e, U)
  BY <1>10, <1>11, <1>16 DEF AllWait, Waits
<1>18. WrittenIn(c) \subseteq WrittenIn(e)
  BY <1>16, WrittenOfMore
<1>19. AllSound(e, U)
  <2> SUFFICES ASSUME NEW x \in InstrsOf(e), NEW n \in DOMAIN x.args PROVE Sound(e, U, x.args[n])
    BY DEF AllSound
  <2>1. CASE x \in InstrsOf(c)
    <3>1. Sound(c, U, x.args[n])
      BY <1>10, <2>1 DEF AllSound
    <3> QED
      BY <1>18, <3>1 DEF Sound
  <2>2. CASE x = branch
    <3>1. n = 1
      BY <1>11, <2>2
    <3>2. x.args[n] = r
      BY <1>11, <2>2, <3>1
    <3> QED
      BY <1>8, <1>18, <3>2 DEF Sound
  <2> QED
    BY <1>16, <2>1, <2>2
<1>20. AllSound(e, U \ {id})
  <2>1. \A def \in InstrsOf(source) : def.id = id => ~HasValue(def)
    BY <1>2, <1>3 DEF HasValue, IsTerminator
  <2> HIDE DEF id
  <2> QED
    BY <1>19, <2>1, AllSoundWithout
<1>21. /\ Len(c[b]) \in DOMAIN c[b] /\ c[b][Len(c[b])] = inst
       /\ Len(c[b]) \in Nat /\ Len(e[b]) = Len(c[b]) + 1
       /\ Len(c[b]) \in DOMAIN e[b] /\ e[b][Len(c[b])] = inst
  <2>1. PICK j \in DOMAIN c[b] : c[b][j] = inst
    BY <1>3, <1>7 DEF ToSet
  <2>2. IsTerminator(c[b][j])
    BY <1>2, <2>1 DEF IsTerminator
  <2>3. j = Len(c[b])
    BY <1>12, <2>2 DEF Ends
  <2>4. /\ Len(c[b]) \in Nat /\ Len(e[b]) = Len(c[b]) + 1
        /\ DOMAIN c[b] = 1..Len(c[b]) /\ DOMAIN e[b] = 1..(Len(c[b]) + 1)
    BY <1>11, <1>12, <1>13, AppendedBlock
  <2>5. \A i \in 1..Len(c[b]) : e[b][i] = c[b][i]
    BY <1>11, <1>12, <1>13, AppendedBlock
  <2>6. j \in DOMAIN e[b] /\ e[b][j] = inst
    BY <2>1, <2>4, <2>5
  <2> QED
    BY <2>1, <2>3, <2>4, <2>6
<1>22. Removes(e, d, b, Len(c[b]), id)
  BY <1>3, <1>21 DEF Removes
<1>23. d[b] = RemoveAt(e[b], Len(c[b])) /\ \A a \in Block \ {b} : d[a] = e[a]
  <2> HIDE DEF d, id
  <2> QED
    BY <1>15, <1>22, RemovedPlace
<1>24. Leaves(e, d, U \ {id}, U \ {id})
  <2> HIDE DEF d, id
  <2> QED
    BY <1>3, <1>15, <1>17, <1>20, <1>22, RemovedCode
<1>25. EndsWell(d)
  <2>1. inst.op = Last(c[b]).op /\ inst.dst = Last(c[b]).dst
    BY <1>21 DEF Last
  <2>2. d[b] = RemoveAt(Append(c[b], branch), Len(c[b]))
    BY <1>13, <1>23
  <2> HIDE DEF d
  <2>3. Ends(d[b], b)
    BY <1>2, <1>11, <1>12, <2>1, <2>2, RewrittenLast
  <2> QED
    BY <1>10, <1>13, <1>23, <2>3 DEF EndsWell
<1>26. Visited(d) /\ Visiting(b, k)
  BY <1>2 DEF branch, c, e, r
<1>27. Shaped(d) /\ AllWait(d, U \ {id}) /\ AllSound(d, U \ {id})
  BY <1>24 DEF Leaves
<1> HIDE DEF d
<1> QED
  BY <1>25, <1>26, <1>27, VisitLeaves DEF U

-----------------------------------------------------------------------------
LEMMA EndInsertKeepsInv ==
  ASSUME LoweringInv, EndInsert
  PROVE  LoweringInv'
<1>1. code' = code /\ work' = work /\ source' = source /\ stage = "insert" /\ stage' = "allocate" /\ work = <<>>
  BY DEF EndInsert
<1>2. /\ source \in Functions /\ IsSeq(work) /\ \A id \in ToSet(work) : id[1] = "inst"
      /\ Shaped(code) /\ EndsWell(code) /\ AllWait(code, ToSet(work)) /\ AllSound(code, ToSet(work))
  BY <1>1 DEF LoweringInv
<1>3. Shaped(code)'
  BY <1>1, <1>2 DEF Shaped, BlockShape, Known, Made, Original
<1>4. EndsWell(code)'
  BY <1>1, <1>2 DEF EndsWell, Ends
<1>5. AllWait(code, ToSet(work))'
  BY <1>1, <1>2 DEF AllWait, Waits, InstrsOf
<1>6. AllSound(code, ToSet(work))'
  BY <1>1, <1>2 DEF AllSound, Sound, InstrsOf, PhisHaveValues, WrittenIn
<1>7. OnlyEmittable'
  BY <1>1 DEF OnlyEmittable
<1>8. source' \in Functions /\ IsSeq(work)' /\ \A id \in ToSet(work)' : id[1] = "inst"
  BY <1>1, <1>2
<1> QED
  BY <1>1, <1>3, <1>4, <1>5, <1>6, <1>7, <1>8 DEF LoweringInv

(* A step that leaves the code alone once it is allocated.                 *)
LEMMA RunningKeepsInv ==
  ASSUME LoweringInv, UNCHANGED <<source, code, work>>, stage' = stage \/ stage' = "run"
  PROVE  LoweringInv'
<1>1. /\ source \in Functions /\ IsSeq(work) /\ EndsWell(code) /\ OnlyEmittable
      /\ \A id \in ToSet(work) : id[1] = "inst"
  BY DEF LoweringInv
<1>2. EndsWell(code)'
  BY <1>1 DEF EndsWell, Ends
<1>3. OnlyEmittable'
  BY <1>1 DEF OnlyEmittable, InstrsOf, PhisHaveValues, Emittable
<1>4. source' \in Functions /\ IsSeq(work)' /\ \A id \in ToSet(work)' : id[1] = "inst"
  BY <1>1
<1>5. stage' = "allocate" => work' = <<>>
  BY DEF LoweringInv
<1>6. ASSUME stage' \in {"insert", "allocate"}
      PROVE  Shaped(code)' /\ AllWait(code, ToSet(work))' /\ AllSound(code, ToSet(work))'
  <2>1. Shaped(code) /\ AllWait(code, ToSet(work)) /\ AllSound(code, ToSet(work))
    BY <1>6 DEF LoweringInv
  <2>2. Shaped(code)'
    BY <2>1 DEF Shaped, BlockShape, Known, Made, Original
  <2>3. AllWait(code, ToSet(work))'
    BY <2>1 DEF AllWait, Waits, InstrsOf
  <2>4. AllSound(code, ToSet(work))'
    BY <2>1 DEF AllSound, Sound, InstrsOf, PhisHaveValues, WrittenIn
  <2> QED
    BY <2>2, <2>3, <2>4
<1> QED
  BY <1>2, <1>3, <1>4, <1>5, <1>6 DEF LoweringInv

(* RegAllocator changes nothing but the operands of what is no constraint. *)
Placed == [b \in Block |-> [k \in DOMAIN code[b] |->
  IF code[b][k].op = "constraint" THEN code[b][k]
  ELSE [code[b][k] EXCEPT !.args = [n \in DOMAIN @ |-> Place(@[n])]]]]

Places(x, y) ==
  /\ IsRecord(y)
  /\ y.id = x.id /\ y.op = x.op /\ y.dst = x.dst
  /\ DOMAIN y.args = DOMAIN x.args
  /\ x.op # "constraint" => \A n \in DOMAIN x.args : y.args[n] = Place(x.args[n])

LEMMA PlacedInstrs ==
  ASSUME Shaped(code), NEW d, d = Placed
  PROVE  /\ \A b \in Block : Readdressed(code[b], d[b])
         /\ \A y \in InstrsOf(d) : \E x \in InstrsOf(code) : Places(x, y)
<1> DEFINE Other(x) == IF x.op = "constraint" THEN x
                       ELSE [x EXCEPT !.args = [n \in DOMAIN @ |-> Place(@[n])]]
<1>1. ASSUME NEW x, IsRecord(x) PROVE Places(x, Other(x))
  BY <1>1 DEF IsRecord, Places, Instr
<1>2. \A b \in Block : d[b] = [k \in DOMAIN code[b] |-> Other(code[b][k])]
  BY DEF Placed
<1> HIDE DEF Other
<1>3. ASSUME NEW b \in Block
      PROVE  /\ Len(code[b]) \in Nat /\ DOMAIN code[b] = 1..Len(code[b])
             /\ \A k \in DOMAIN code[b] : IsRecord(code[b][k])
  <2>1. IsSeq(code[b]) /\ \A k \in DOMAIN code[b] : Known(code[b][k], b)
    BY DEF Shaped, BlockShape
  <2>2. \A k \in DOMAIN code[b] : IsRecord(code[b][k])
    BY <2>1 DEF Known, Made, Original
  <2> QED
    BY <2>1, <2>2, SeqIsSeq DEF IsSeq
<1>4. ASSUME NEW b \in Block
      PROVE  /\ IsSeq(d[b]) /\ DOMAIN d[b] = DOMAIN code[b]
             /\ \A k \in DOMAIN code[b] : d[b][k] = Other(code[b][k])
  <2> DEFINE n == Len(code[b])
             R == {Other(code[b][k]) : k \in 1..n}
             e == [k \in 1..n |-> Other(code[b][k])]
  <2>1. n \in Nat /\ DOMAIN code[b] = 1..n
    BY <1>3
  <2>2. d[b] = e
    BY <1>2, <2>1
  <2> HIDE DEF n
  <2>3. e \in [1..n -> R]
    OBVIOUS
  <2> HIDE DEF e, R
  <2>4. e \in Seq(R)
    BY <2>1, <2>3
  <2>5. IsSeq(e)
    BY <2>4, SeqIsSeq
  <2> USE DEF e
  <2> QED
    BY <2>1, <2>2, <2>5
<1>5. \A b \in Block : \A k \in DOMAIN code[b] : Places(code[b][k], d[b][k])
  BY <1>1, <1>3, <1>4
<1>6. \A b \in Block : Readdressed(code[b], d[b])
  BY <1>4, <1>5 DEF Readdressed, Places
<1>7. ASSUME NEW y \in InstrsOf(d) PROVE \E x \in InstrsOf(code) : Places(x, y)
  <2>1. PICK b \in Block : y \in ToSet(d[b])
    BY InstrsFrom
  <2>2. PICK k \in DOMAIN d[b] : y = d[b][k]
    BY <2>1 DEF ToSet
  <2>3. k \in DOMAIN code[b] /\ Places(code[b][k], y)
    BY <1>4, <1>5, <2>2
  <2>4. code[b][k] \in ToSet(code[b])
    BY <2>3 DEF ToSet
  <2> QED
    BY <2>3, <2>4, InstrsIn
<1> QED
  BY <1>6, <1>7

LEMMA AllocateKeepsInv ==
  ASSUME LoweringInv, Allocate
  PROVE  LoweringInv'
<1> DEFINE d == Placed
<1>1. /\ stage = "allocate" /\ stage' = "allocated" /\ source' = source /\ work' = work
      /\ code' = d
  BY DEF Allocate, Placed
<1>2. /\ source \in Functions /\ IsSeq(work) /\ \A id \in ToSet(work) : id[1] = "inst"
      /\ Shaped(code) /\ EndsWell(code) /\ work = <<>>
      /\ AllWait(code, ToSet(work)) /\ AllSound(code, ToSet(work))
  BY <1>1 DEF LoweringInv
<1>3. AllWait(code, {}) /\ AllSound(code, {})
  <2>1. ToSet(work) = {}
    BY <1>2 DEF ToSet
  <2> QED
    BY <1>2, <2>1
<1>4. /\ \A b \in Block : Readdressed(code[b], d[b])
      /\ \A y \in InstrsOf(d) : \E x \in InstrsOf(code) : Places(x, y)
  <2> HIDE DEF d
  <2>1. d = Placed
    BY DEF d
  <2> QED
    BY <1>2, <2>1, PlacedInstrs
<1> HIDE DEF d
<1>5. EndsWell(d)
  BY <1>2, <1>4, ReaddressedBlock DEF Shaped, EndsWell
<1>6. EndsWell(code)'
  BY <1>1, <1>5 DEF EndsWell, Ends
<1>7. ASSUME PhisHaveValues, NEW y \in InstrsOf(d)
      PROVE  /\ y.op \notin {"load", "store", "phi"}
             /\ y.op \notin {"constraint", "ret"} => \A n \in DOMAIN y.args : Emittable(y.args[n])
  <2>1. PICK x \in InstrsOf(code) : Places(x, y)
    BY <1>4
  <2>2. PICK b \in Block : x \in ToSet(code[b])
    BY InstrsFrom
  <2>3. Made(x) \/ x.id[1] = "inst"
    BY <1>2, <2>2, KnownInstrs DEF Known, Original
  <2>4. x.op \notin {"load", "store", "phi"}
    BY <1>3, <2>3 DEF AllWait, Waits, Made
  <2>5. ASSUME y.op # "constraint", NEW n \in DOMAIN y.args PROVE Emittable(y.args[n])
    <3> DEFINE v == x.args[n]
    <3>1. y.args[n] = Place(v) /\ n \in DOMAIN x.args
      BY <2>1, <2>5 DEF Places
    <3>2. Sound(code, {}, v)
      BY <1>3, <3>1 DEF AllSound
    <3> HIDE DEF v
    <3>3. CASE v[1] \in {"const", "phys"}
      BY <3>1, <3>3 DEF Place, Emittable
    <3>4. CASE v[1] = "virt" /\ v \in WrittenIn(code)
      <4>1. v \in Written
        BY <3>4 DEF Written, WrittenIn
      <4>2. y.args[n] = Phys(0) \/ y.args[n] = Slot(v)
        BY <3>1, <3>4, <4>1 DEF Place
      <4> QED
        BY <4>2 DEF Emittable, Phys, Slot
    <3>5. CASE \E def \in InstrsOf(source) : def.id = v /\ def.op = "alloc"
      <4>1. PICK def \in InstrsOf(source) : def.id = v /\ def.op = "alloc"
        BY <3>5
      <4>2. IsFunction(source)
        BY <1>2, LoweringAssumption
      <4>3. v[1] = "inst"
        BY <4>1, <4>2 DEF IsFunction, Inst
      <4> QED
        BY <3>1, <4>1, <4>3 DEF Place, Emittable
    <3> QED
      BY <1>7, <3>2, <3>3, <3>4, <3>5 DEF Sound
  <2>6. y.op = x.op
    BY <2>1 DEF Places
  <2> QED
    BY <2>4, <2>5, <2>6
<1>8. OnlyEmittable'
  BY <1>1, <1>7 DEF OnlyEmittable, InstrsOf, PhisHaveValues, Emittable
<1>9. source' \in Functions /\ IsSeq(work)' /\ \A id \in ToSet(work)' : id[1] = "inst"
  BY <1>1, <1>2
<1> QED
  BY <1>1, <1>6, <1>8, <1>9 DEF LoweringInv

LEMMA SourceShape ==
  ASSUME source \in Functions
  PROVE  Shaped(source) /\ EndsWell(source)
<1>1. IsFunction(source)
  BY LoweringAssumption
<1>2. ASSUME NEW b \in Block PROVE BlockShape(source[b], b) /\ Ends(source[b], b)
  <2>1. /\ source[b] \in Seq(ToSet(source[b])) /\ source[b] # <<>>
        /\ \A k \in DOMAIN source[b] : IsTerminator(source[b][k]) <=> k = Len(source[b])
    BY <1>1 DEF IsFunction
  <2>2. IsSeq(source[b])
    BY <2>1 DEF IsSeq
  <2>3. Len(source[b]) > 0
    <3> DEFINE T == ToSet(source[b])
               s == source[b]
    <3>1. s \in Seq(T) /\ s # <<>>
      BY <2>1
    <3> HIDE DEF T, s
    <3>2. Len(s) > 0
      BY <3>1
    <3> QED
      BY <3>2 DEF s
  <2>4. ASSUME NEW k \in DOMAIN source[b] PROVE Known(source[b][k], b)
    <3>1. source[b][k] \in InstrsOf(source)
      BY InstrsIn DEF ToSet
    <3>2. IsRecord(source[b][k]) /\ source[b][k].id = Inst(source[b][k].id[2])
      BY <1>1, <3>1 DEF IsFunction, IsRecord
    <3>3. source[b][k].id[1] = "inst"
      BY <3>2 DEF Inst
    <3> QED
      BY <3>2, <3>3 DEF Known, Original
  <2>5. Distinct(source[b])
    BY <1>1 DEF IsFunction, Distinct
  <2> QED
    BY <2>1, <2>2, <2>3, <2>4, <2>5 DEF BlockShape, Ends
<1> QED
  BY <1>1, <1>2 DEF IsFunction, Shaped, EndsWell

LEMMA InitInv ==
  ASSUME LoweringInit
  PROVE  LoweringInv
<1> DEFINE X == {inst.id : inst \in InstrsOf(source)}
           q == [b \in Block |-> [k \in DOMAIN source[b] |-> source[b][k].id]]
<1>1. source \in Functions /\ code = source /\ work = FlattenSeq(q) /\ stage = "insert"
  BY DEF LoweringInit
<1>2. IsFunction(source) /\ Blocks \in Nat \ {0}
  BY <1>1, LoweringAssumption
<1>3. Shaped(source) /\ EndsWell(source)
  BY <1>1, SourceShape
<1>4. ASSUME NEW b \in Block PROVE q[b] \in Seq(X)
  <2> DEFINE n == Len(source[b])
             e == [k \in 1..n |-> source[b][k].id]
  <2>1. n \in Nat /\ DOMAIN source[b] = 1..n
    BY <1>3, SeqIsSeq DEF Shaped, BlockShape, IsSeq
  <2>2. \A k \in 1..n : source[b][k].id \in X
    BY <2>1, InstrsIn DEF ToSet
  <2>3. q[b] = e
    BY <2>1
  <2> HIDE DEF n, X
  <2>4. e \in [1..n -> X]
    BY <2>2
  <2> HIDE DEF e, q
  <2>5. e \in Seq(X)
    BY <2>1, <2>4
  <2> QED
    BY <2>3, <2>5
<1>5. q \in Seq(Seq(X)) /\ Len(q) = Blocks
  <2> DEFINE Lists == Seq(X)
  <2>1. q \in [1..Blocks -> Lists]
    BY <1>4 DEF Block
  <2> HIDE DEF q, Lists
  <2>2. q \in Seq(Lists) /\ Len(q) = Blocks
    BY <1>2, <2>1
  <2> QED
    BY <2>2 DEF Lists
<1>6. work \in Seq(X) /\ \A b \in 1..Blocks : ToSet(q[b]) \subseteq ToSet(work)
  <2> HIDE DEF q, X
  <2> QED
    BY <1>1, <1>2, <1>5, FlattenMembers
<1>7. IsSeq(work)
  <2> HIDE DEF X
  <2> QED
    BY <1>6, SeqIsSeq
<1>8. \A id \in ToSet(work) : id[1] = "inst"
  <2>1. \A id \in X : id[1] = "inst"
    BY <1>2 DEF IsFunction, Inst
  <2> HIDE DEF X
  <2>2. \A id \in ToSet(work) : id \in X
    BY <1>6 DEF ToSet
  <2> QED
    BY <2>1, <2>2
<1>9. ASSUME NEW inst \in InstrsOf(source) PROVE inst.id \in ToSet(work)
  <2>1. PICK b \in Block : inst \in ToSet(source[b])
    BY InstrsFrom
  <2>2. PICK k \in DOMAIN source[b] : inst = source[b][k]
    BY <2>1 DEF ToSet
  <2>3. k \in DOMAIN q[b] /\ q[b][k] = inst.id
    BY <2>2
  <2> HIDE DEF q
  <2>4. inst.id \in ToSet(q[b])
    BY <2>3 DEF ToSet
  <2> QED
    BY <1>6, <2>4 DEF Block
<1>10. AllWait(source, ToSet(work))
  BY <1>9 DEF AllWait, Waits
<1>11. AllSound(source, ToSet(work))
  <2> SUFFICES ASSUME NEW inst \in InstrsOf(source), NEW n \in DOMAIN inst.args
               PROVE  Sound(source, ToSet(work), inst.args[n])
    BY DEF AllSound
  <2>1. \/ inst.args[n] = Const(inst.args[n][2])
        \/ \E def \in InstrsOf(source) : HasValue(def) /\ inst.args[n] = def.id
    BY <1>2 DEF IsFunction
  <2> QED
    BY <1>9, <2>1 DEF Sound, Const
<1>12. OnlyEmittable
  BY <1>1 DEF OnlyEmittable
<1> QED
  BY <1>1, <1>3, <1>7, <1>8, <1>10, <1>11, <1>12 DEF LoweringInv

LEMMA StepKeepsInv ==
  ASSUME LoweringInv, [Next]_vars
  PROVE  LoweringInv'
<1>1. CASE VisitOperation
  BY <1>1, OperationKeepsInv
<1>2. CASE VisitLoad
  BY <1>2, LoadKeepsInv
<1>3. CASE VisitStore
  BY <1>3, StoreKeepsInv
<1>4. CASE VisitPhi
  BY <1>4, PhiKeepsInv
<1>5. CASE VisitCondBranch
  BY <1>5, CondKeepsInv
<1>6. CASE VisitRet
  BY <1>6, RetKeepsInv
<1>7. CASE VisitOther
  BY <1>7, OtherKeepsInv
<1>8. CASE EndInsert
  BY <1>8, EndInsertKeepsInv
<1>9. CASE Allocate
  BY <1>9, AllocateKeepsInv
<1>10. CASE Start
  BY <1>10, RunningKeepsInv DEF Start
<1>11. CASE RunBlock
  BY <1>11, RunningKeepsInv DEF RunBlock, loweringVars
<1>12. CASE UNCHANGED vars
  BY <1>12, RunningKeepsInv DEF vars, loweringVars
<1> QED
  BY <1>1, <1>2, <1>3, <1>4, <1>5, <1>6, <1>7, <1>8, <1>9, <1>10, <1>11, <1>12 DEF Next, LoweringNext

-----------------------------------------------------------------------------
(* The inductive invariant holds of every function the backend can be      *)
(* given, whatever order its blocks are laid out in.                       *)
THEOREM LoweringInvHolds == Spec => []LoweringInv
<1>1. Init => LoweringInv
  BY InitInv DEF Init
<1>2. LoweringInv /\ [Next]_vars => LoweringInv'
  BY StepKeepsInv
<1> QED
  BY <1>1, <1>2, PTL DEF Spec

(* Whatever is inserted, replaced and removed, at every step of            *)
(* MoveInserter and RegAllocator and for every function: each block ends   *)
(* in the terminator it had, to the same blocks in the same order, and     *)
(* nothing is put behind it.                                               *)
THEOREM TerminatorsAreKept == Spec => []TerminatorsKept
<1>1. LoweringInv => TerminatorsKept
  BY DEF LoweringInv, EndsWell, Ends, TerminatorsKept
<1> QED
  BY <1>1, LoweringInvHolds, PTL

(* What RegAllocator leaves never meets the assert(false) of               *)
(* InstTranslator: no load, store or phi is left, and every operand that   *)
(* is emitted is a constant, a physical register, a stack slot or an       *)
(* alloc, if no phi of the function is without incoming values.            *)
THEOREM OnlyEmittableIsEmitted == Spec => []OnlyEmittable
<1>1. LoweringInv => OnlyEmittable
  BY DEF LoweringInv
<1> QED
  BY <1>1, LoweringInvHolds, PTL
=============================================================================
