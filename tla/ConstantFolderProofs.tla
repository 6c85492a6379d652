------------------------ MODULE ConstantFolderProofs ------------------------
(***************************************************************************)
(* The work queue of ConstantFolder misses nothing, what it removes is not *)
(* an operand any more, in straight functions it removes nothing twice,    *)
(* and it changes no value: for any number of instructions, any width and  *)
(* any function.                                                           *)
(***************************************************************************)
EXTENDS ConstantFolder, FiniteSetTheorems, SequencesExt, SequenceTheorems, WellFoundedInduction, TLAPS

(* Induction over an interval, stated with a set instead of an operator,   *)
(* and facts about sequences.                                              *)

(* A set of natural numbers has a least element.                           *)
LEMMA LeastElement ==
  ASSUME NEW T, T \subseteq Nat, T # {}
  PROVE  \E m \in T : \A k \in T : m <= k
<1> DEFINE R == OpToRel(<, Nat)
<1>1. IsWellFoundedOn(R, Nat)
  BY NatLessThanWellFounded
<1>2. PICK m \in T : \A k \in T : ~(<<k, m>> \in R)
  <2> HIDE DEF R
  <2> QED
    BY <1>1, WFMin
<1>3. ASSUME NEW k \in T PROVE m <= k
  <2>1. k \in Nat /\ m \in Nat
    OBVIOUS
  <2>2. ~(<<k, m>> \in R)
    BY <1>2
  <2>3. k < m => <<k, m>> \in R
    BY <2>1, Zenon DEF OpToRel
  <2> HIDE DEF R
  <2> QED
    BY <2>1, <2>2, <2>3
<1> QED
  BY <1>3

(* Induction up to n, for the set G of the numbers a fact is good for.     *)
LEMMA IntervalInduction ==
  ASSUME NEW n \in Nat, NEW G, 0 \in G,
         \A k \in 0..(n-1) : k \in G => k + 1 \in G
  PROVE  0..n \subseteq G
<1> SUFFICES ASSUME (0..n) \ G # {} PROVE FALSE
  OBVIOUS
<1>1. PICK m \in (0..n) \ G : \A k \in (0..n) \ G : m <= k
  <2>1. (0..n) \ G \subseteq Nat
    OBVIOUS
  <2> QED
    BY <2>1, LeastElement
<1>2. m # 0 /\ m - 1 \in 0..(n-1) /\ (m - 1) + 1 = m
  BY <1>1
<1>3. m - 1 \in G
  BY <1>1, <1>2
<1> QED
  BY <1>1, <1>2, <1>3

(* A non-empty sequence is its front and its last element.                 *)
LEMMA FrontAndLast ==
  ASSUME NEW S, NEW s \in Seq(S), s # <<>>
  PROVE  /\ Len(s) \in Nat \ {0}
         /\ Front(s) \in Seq(S)
         /\ Len(Front(s)) = Len(s) - 1
         /\ DOMAIN Front(s) = 1..(Len(s) - 1)
         /\ \A k \in 1..(Len(s) - 1) : Front(s)[k] = s[k]
         /\ Last(s) = s[Len(s)]
         /\ Last(s) \in S
         /\ ToSet(s) = ToSet(Front(s)) \cup {Last(s)}
<1>1. Len(s) \in Nat \ {0} /\ DOMAIN s = 1..Len(s)
  BY EmptySeq, LenProperties
<1>2. \A k \in 1..(Len(s) - 1) : s[k] \in S
  BY <1>1, ElementOfSeq
<1>3. /\ Front(s) \in Seq(S)
      /\ Len(Front(s)) = Len(s) - 1
      /\ \A k \in 1..(Len(s) - 1) : Front(s)[k] = s[k]
  BY <1>1, <1>2, SubSeqProperties DEF Front
<1>4. DOMAIN Front(s) = 1..(Len(s) - 1)
  BY <1>3, LenProperties
<1>5. Last(s) \in S /\ Last(s) = s[Len(s)]
  BY <1>1, ElementOfSeq DEF Last
<1>6. ASSUME NEW k \in DOMAIN s PROVE s[k] \in ToSet(Front(s)) \cup {Last(s)}
  <2>1. k = Len(s) \/ k \in 1..(Len(s) - 1)
    BY <1>1
  <2> QED
    BY <2>1, <1>3, <1>4 DEF ToSet, Last
<1>7. ASSUME NEW k \in DOMAIN Front(s) PROVE Front(s)[k] \in ToSet(s)
  <2>1. k \in DOMAIN s /\ Front(s)[k] = s[k]
    BY <1>1, <1>3, <1>4
  <2> QED
    BY <2>1 DEF ToSet
<1>8. Last(s) \in ToSet(s)
  BY <1>1, <1>5 DEF ToSet
<1>9. ToSet(s) = ToSet(Front(s)) \cup {Last(s)}
  BY <1>6, <1>7, <1>8 DEF ToSet
<1> QED
  BY <1>1, <1>3, <1>4, <1>5, <1>9

-----------------------------------------------------------------------------

(* While folding, every instruction exists, what can be folded is queued   *)
(* or folded, and what is folded is no operand.  The operands keep their   *)
(* number, whatever they are replaced by.                                  *)
WellFormed ==
  \A j \in Inst :
    /\ prog[j] = [op |-> prog[j].op, args |-> prog[j].args]
    /\ IsFiniteSet(DOMAIN prog[j].args)
    /\ Computes(j) => DOMAIN prog[j].args = 1..2

IInv ==
  /\ DOMAIN prog = Inst
  /\ WellFormed
  /\ queue \in Seq(Inst)
  /\ removeList \in Seq(Inst)
  /\ present \subseteq Inst
  /\ phase = "fold" => present = Inst
  /\ phase = "remove" => removeList # <<>>
  /\ NothingMissed
  /\ RemovedUnused

-----------------------------------------------------------------------------
(* What appending and taking away does to the elements of a sequence.      *)
LEMMA ToSetConcat ==
  ASSUME NEW S, NEW s \in Seq(S), NEW t \in Seq(S)
  PROVE  s \o t \in Seq(S) /\ ToSet(s) \cup ToSet(t) \subseteq ToSet(s \o t)
<1>1. /\ s \o t \in Seq(S)
      /\ Len(s \o t) = Len(s) + Len(t)
      /\ \A i \in 1..(Len(s) + Len(t)) : (s \o t)[i] = IF i <= Len(s) THEN s[i] ELSE t[i - Len(s)]
  BY ConcatProperties
<1>2. /\ Len(s) \in Nat /\ Len(t) \in Nat
      /\ DOMAIN s = 1..Len(s) /\ DOMAIN t = 1..Len(t)
      /\ DOMAIN (s \o t) = 1..(Len(s) + Len(t))
  BY <1>1, LenProperties
<1>3. ASSUME NEW k \in DOMAIN s PROVE s[k] \in ToSet(s \o t)
  <2>1. k \in DOMAIN (s \o t) /\ (s \o t)[k] = s[k]
    BY <1>1, <1>2
  <2> QED
    BY <2>1 DEF ToSet
<1>4. ASSUME NEW k \in DOMAIN t PROVE t[k] \in ToSet(s \o t)
  <2>1. Len(s) + k \in DOMAIN (s \o t) /\ (s \o t)[Len(s) + k] = t[k]
    BY <1>1, <1>2
  <2> QED
    BY <2>1 DEF ToSet
<1> QED
  BY <1>1, <1>3, <1>4 DEF ToSet

LEMMA ToSetAppend ==
  ASSUME NEW S, NEW s \in Seq(S), NEW x \in S
  PROVE  Append(s, x) \in Seq(S) /\ ToSet(Append(s, x)) = ToSet(s) \cup {x}
<1>1. /\ Append(s, x) \in Seq(S)
      /\ Len(Append(s, x)) = Len(s) + 1
      /\ \A i \in 1..Len(s) : Append(s, x)[i] = s[i]
      /\ Append(s, x)[Len(s) + 1] = x
  BY AppendProperties
<1>2. /\ Len(s) \in Nat /\ DOMAIN s = 1..Len(s)
      /\ DOMAIN Append(s, x) = 1..(Len(s) + 1)
  BY <1>1, LenProperties
<1>3. \A k \in DOMAIN Append(s, x) : k \in DOMAIN s \/ k = Len(s) + 1
  BY <1>2
<1>4. Len(s) + 1 \in DOMAIN Append(s, x) /\ DOMAIN s \subseteq DOMAIN Append(s, x)
  BY <1>2
<1> QED
  BY <1>1, <1>2, <1>3, <1>4 DEF ToSet

LEMMA ToSetTail ==
  ASSUME NEW S, NEW s \in Seq(S), s # <<>>
  PROVE  Tail(s) \in Seq(S) /\ ToSet(Tail(s)) \subseteq ToSet(s)
<1>1. /\ Tail(s) \in Seq(S)
      /\ Len(Tail(s)) = Len(s) - 1
      /\ \A i \in 1..Len(Tail(s)) : Tail(s)[i] = s[i+1]
  BY HeadTailProperties
<1>2. /\ Len(s) \in Nat /\ DOMAIN s = 1..Len(s)
      /\ DOMAIN Tail(s) = 1..(Len(s) - 1)
  BY <1>1, LenProperties
<1>3. \A k \in DOMAIN Tail(s) : k + 1 \in DOMAIN s /\ Tail(s)[k] = s[k+1]
  BY <1>1, <1>2
<1> QED
  BY <1>1, <1>3 DEF ToSet

-----------------------------------------------------------------------------
(* A constant is no reference to an instruction.                           *)
LEMMA ConstIsNoRef == \A w, i : Const(w) # Ref(i)
BY DEF Const, Ref

(* Finitely many operands use an instruction.                              *)
LEMMA FinitelyManyUses ==
  ASSUME IInv, NEW i
  PROVE  IsFiniteSet(Uses(i))
<1> DEFINE Slots(j) == {n \in DOMAIN prog[j].args : prog[j].args[n] = Ref(i)}
           UsesBy(j) == {<<j, k>> : k \in Slots(j)}
<1>1. Uses(i) = UNION {UsesBy(j) : j \in present}
  BY DEF Uses
<1>2. IsFiniteSet(Inst)
  BY FS_Interval, FolderAssumption DEF Inst
<1>3. present \in SUBSET Inst
  BY DEF IInv
<1>4. IsFiniteSet(present)
  BY <1>2, <1>3, FS_Subset
<1>5. ASSUME NEW j \in Inst PROVE IsFiniteSet(UsesBy(j))
  <2> DEFINE pair == [n \in Slots(j) |-> <<j, n>>]
  <2>1. IsFiniteSet(DOMAIN prog[j].args) /\ Slots(j) \in SUBSET DOMAIN prog[j].args
    BY DEF IInv, WellFormed
  <2>2. IsFiniteSet(Slots(j))
    BY <2>1, FS_Subset
  <2>3. pair \in Surjection(Slots(j), UsesBy(j))
    BY DEF Surjection
  <2> HIDE DEF pair, UsesBy, Slots
  <2> QED
    BY <2>2, <2>3, FS_Surjection
<1>6. IsFiniteSet({UsesBy(j) : j \in present})
  <2> DEFINE by == [j \in present |-> UsesBy(j)]
  <2>1. by \in Surjection(present, {UsesBy(j) : j \in present})
    BY DEF Surjection
  <2> HIDE DEF by, UsesBy
  <2> QED
    BY <2>1, <1>4, FS_Surjection
<1>7. \A T \in {UsesBy(j) : j \in present} : IsFiniteSet(T)
  BY <1>3, <1>5
<1> HIDE DEF UsesBy
<1> QED
  BY <1>1, <1>6, <1>7, FS_UNION

(* The queued users are instructions, and every user is among them.        *)
LEMMA QueuedUsers ==
  ASSUME IInv, NEW i, NEW users \in Queued(i)
  PROVE  /\ users \in Seq(Inst)
         /\ \A j \in present : \A k \in DOMAIN prog[j].args : prog[j].args[k] = Ref(i) => j \in ToSet(users)
<1> DEFINE c == Cardinality(Uses(i))
<1>1. c \in Nat
  BY FinitelyManyUses, FS_CardinalityType
<1>2. PICK s \in [1..c -> Uses(i)] : ToSet(s) = Uses(i) /\ users = [k \in DOMAIN s |-> s[k][1]]
  BY DEF Queued, Orders
<1>3. \A u \in Uses(i) : u[1] \in Inst
  BY DEF Uses, IInv
<1>4. users \in [1..c -> Inst]
  BY <1>2, <1>3
<1>5. users \in Seq(Inst)
  BY <1>1, <1>4, SeqDef
<1>6. ASSUME NEW j \in present, NEW k \in DOMAIN prog[j].args, prog[j].args[k] = Ref(i)
      PROVE  j \in ToSet(users)
  <2>1. <<j, k>> \in ToSet(s)
    BY <1>2, <1>6 DEF Uses
  <2>2. PICK n \in DOMAIN s : s[n] = <<j, k>>
    BY <2>1 DEF ToSet
  <2>3. n \in DOMAIN users /\ users[n] = j
    BY <2>2, <1>2
  <2> QED
    BY <2>3 DEF ToSet
<1> QED
  BY <1>5, <1>6

(* No operand uses an instruction without uses.                            *)
LEMMA NoUses ==
  ASSUME NEW i
  PROVE  Uses(i) = {} <=> \A j \in present : \A k \in DOMAIN prog[j].args : prog[j].args[k] # Ref(i)
<1> DEFINE UsesBy(j) == {<<j, k>> : k \in {n \in DOMAIN prog[j].args : prog[j].args[n] = Ref(i)}}
<1>1. Uses(i) = UNION {UsesBy(j) : j \in present}
  BY DEF Uses
<1>2. \A j \in present : UsesBy(j) = {} <=> \A k \in DOMAIN prog[j].args : prog[j].args[k] # Ref(i)
  OBVIOUS
<1> HIDE DEF UsesBy
<1> QED
  BY <1>1, <1>2

-----------------------------------------------------------------------------
LEMMA InitInv == Init => IInv
<1> SUFFICES ASSUME Init PROVE IInv
  OBVIOUS
<1>1. prog \in [Inst -> Instruction]
  BY FolderAssumption DEF Init
<1>2. ASSUME NEW I \in Instruction
      PROVE  /\ I = [op |-> I.op, args |-> I.args]
             /\ IsFiniteSet(DOMAIN I.args)
             /\ I.op \in BinaryOps \cup ComparePreds => DOMAIN I.args = 1..2
  <2>1. CASE I \in [op : BinaryOps \cup ComparePreds, args : Value \X Value]
    <3>1. I.args \in Value \X Value /\ I = [op |-> I.op, args |-> I.args]
      BY <2>1
    <3>2. DOMAIN I.args = 1..2
      BY <3>1
    <3>3. IsFiniteSet(1..2)
      <4>1. 1 \in Int /\ 2 \in Int
        OBVIOUS
      <4> QED
        BY <4>1, FS_Interval
    <3> QED
      BY <3>1, <3>2, <3>3
  <2>2. CASE I \in [op : {"phi", "load"}, args : Seq(Value)]
    <3>1. I.args \in Seq(Value) /\ I = [op |-> I.op, args |-> I.args]
      BY <2>2
    <3>2. DOMAIN I.args = 1..Len(I.args) /\ Len(I.args) \in Nat
      BY <3>1, LenProperties
    <3>3. I.op \notin BinaryOps \cup ComparePreds
      BY <2>2 DEF BinaryOps, ComparePreds
    <3>4. IsFiniteSet(1..Len(I.args))
      BY <3>2, FS_Interval
    <3> QED
      BY <3>1, <3>2, <3>3, <3>4
  <2> QED
    BY <2>1, <2>2 DEF Instruction
<1>3. DOMAIN prog = Inst /\ WellFormed
  BY <1>1, <1>2 DEF WellFormed, Computes
<1>4. queue \in [1..N -> Inst] /\ ToSet(queue) = Inst
  BY DEF Init, InitialQueue, ToSet, Inst
<1>5. queue \in Seq(Inst)
  BY <1>4, FolderAssumption, SeqDef
<1>6. removeList \in Seq(Inst) /\ ToSet(removeList) = {}
  BY EmptySeq DEF Init, ToSet
<1>7. NothingMissed
  BY <1>4 DEF NothingMissed
<1>8. RemovedUnused
  BY <1>6 DEF RemovedUnused
<1> QED
  BY <1>3, <1>5, <1>6, <1>7, <1>8 DEF IInv, Init

(* An instruction that cannot be folded leaves the queue.                  *)
LEMMA SkipInv == IInv /\ Skip => IInv'
<1> SUFFICES ASSUME IInv, Skip PROVE IInv'
  OBVIOUS
<1>1. queue' \in Seq(Inst) /\ ToSet(queue) \subseteq ToSet(queue') \cup {Last(queue)}
  BY FrontAndLast DEF IInv, Skip, Rest
<1>2. NothingMissed'
  <2>1. \A j \in Inst : Foldable(j)' = Foldable(j)
    BY DEF Skip, Foldable, Computes, IsConst
  <2> QED
    BY <1>1, <2>1 DEF IInv, Skip, NothingMissed
<1>3. RemovedUnused'
  BY DEF IInv, Skip, RemovedUnused, Uses
<1> QED
  BY <1>1, <1>2, <1>3 DEF IInv, Skip, WellFormed, Computes

(* A fold queues all whose operands it changes, and gives no operand back  *)
(* to what was folded before: an incoming value of the phi it folds is an  *)
(* operand still.                                                          *)
LEMMA FoldInv == IInv /\ Fold => IInv'
<1> SUFFICES ASSUME IInv, Fold PROVE IInv'
  OBVIOUS
<1> DEFINE i == Last(queue)
<1>1. PICK users \in Queued(i) : queue' = Front(queue) \o users
  BY DEF Fold
<1>2. PICK v \in Folded(i) : v # Ref(i) /\ prog' = Replaced(i, v)
  BY DEF Fold
<1>3. /\ phase = "fold" /\ phase' = "fold" /\ queue # <<>>
      /\ Foldable(i) /\ removeList' = Append(removeList, i)
      /\ present = Inst /\ present' = Inst
  BY DEF Fold, IInv
<1>4. /\ i \in Inst /\ Front(queue) \in Seq(Inst)
      /\ ToSet(queue) \subseteq ToSet(Front(queue)) \cup {i}
  BY <1>3, FrontAndLast DEF IInv
<1>5. /\ users \in Seq(Inst)
      /\ \A j \in Inst : \A k \in DOMAIN prog[j].args : prog[j].args[k] = Ref(i) => j \in ToSet(users)
  BY <1>1, <1>3, QueuedUsers
<1>6. queue' \in Seq(Inst) /\ ToSet(Front(queue)) \cup ToSet(users) \subseteq ToSet(queue')
  BY <1>1, <1>4, <1>5, ToSetConcat
<1>7. removeList' \in Seq(Inst) /\ ToSet(removeList') = ToSet(removeList) \cup {i}
  BY <1>3, <1>4, ToSetAppend DEF IInv
<1> DEFINE Arg(j, k) == IF prog[j].args[k] = Ref(i) THEN v ELSE prog[j].args[k]
<1>8. DOMAIN prog' = Inst
  BY <1>2 DEF Replaced
<1>9. ASSUME NEW j \in Inst
      PROVE  /\ prog'[j] = [op |-> prog'[j].op, args |-> prog'[j].args]
             /\ prog'[j].op = prog[j].op
             /\ DOMAIN prog'[j].args = DOMAIN prog[j].args
             /\ \A k \in DOMAIN prog[j].args : prog'[j].args[k] = Arg(j, k)
  <2>1. prog[j] = [op |-> prog[j].op, args |-> prog[j].args]
    BY DEF IInv, WellFormed
  <2>2. prog'[j] = [prog[j] EXCEPT !.args = [k \in DOMAIN prog[j].args |-> Arg(j, k)]]
    BY <1>2 DEF Replaced
  <2>3. prog'[j] = [op |-> prog[j].op, args |-> [k \in DOMAIN prog[j].args |-> Arg(j, k)]]
    BY <2>1, <2>2
  <2> QED
    BY <2>3
<1>10. WellFormed'
  BY <1>9 DEF IInv, WellFormed, Computes
<1>11. NothingMissed'
  <2> SUFFICES ASSUME NEW j \in Inst, Foldable(j)'
               PROVE  j \in ToSet(queue') \cup ToSet(removeList')
    BY DEF NothingMissed
  <2>1. CASE \E k \in DOMAIN prog[j].args : prog[j].args[k] = Ref(i)
    BY <2>1, <1>5, <1>6
  <2>2. CASE \A k \in DOMAIN prog[j].args : prog[j].args[k] # Ref(i)
    <3>1. \A k \in DOMAIN prog[j].args : prog'[j].args[k] = prog[j].args[k]
      BY <2>2, <1>9
    <3>2. prog'[j].op = prog[j].op /\ DOMAIN prog'[j].args = DOMAIN prog[j].args
      BY <1>9
    <3>3. Computes(j) => DOMAIN prog[j].args = 1..2
      BY DEF IInv, WellFormed
    <3>4. Foldable(j)
      BY <3>1, <3>2, <3>3 DEF Foldable, Computes, IsConst
    <3> QED
      BY <3>4, <1>3, <1>4, <1>6, <1>7 DEF IInv, NothingMissed
  <2> QED
    BY <2>1, <2>2
<1>12. RemovedUnused'
  <2> SUFFICES ASSUME NEW x \in ToSet(removeList') PROVE Uses(x)' = {}
    BY DEF RemovedUnused
  <2>1. ASSUME x # i, NEW j \in Inst, NEW k \in DOMAIN prog[j].args
        PROVE  prog[j].args[k] # Ref(x)
    BY <2>1, <1>3, <1>7, NoUses DEF IInv, RemovedUnused
  <2>2. v # Ref(x)
    <3>1. CASE x = i
      BY <3>1, <1>2
    <3>2. CASE x # i /\ prog[i].op = "phi"
      <4>1. DOMAIN prog[i].args = {1} /\ v = prog[i].args[1]
        BY <3>2, <1>2, <1>3 DEF Foldable, Folded, Computes, BinaryOps, ComparePreds
      <4> QED
        BY <4>1, <3>2, <2>1, <1>4
    <3>3. CASE prog[i].op # "phi"
      <4>1. \E w : v = Const(w)
        BY <3>3, <1>2 DEF Folded
      <4> QED
        BY <4>1, ConstIsNoRef
    <3> QED
      BY <3>1, <3>2, <3>3
  <2>3. ASSUME NEW j \in Inst, NEW k \in DOMAIN prog'[j].args
        PROVE  prog'[j].args[k] # Ref(x)
    <3>1. k \in DOMAIN prog[j].args /\ prog'[j].args[k] = Arg(j, k)
      BY <1>9
    <3>2. prog[j].args[k] # Ref(i) => prog[j].args[k] # Ref(x)
      BY <3>1, <2>1
    <3> QED
      BY <3>1, <3>2, <2>2
  <2> DEFINE UsesBy(j) == {<<j, k>> : k \in {n \in DOMAIN prog'[j].args : prog'[j].args[n] = Ref(x)}}
  <2>4. Uses(x)' = UNION {UsesBy(j) : j \in present'}
    BY DEF Uses
  <2>5. \A j \in present' : UsesBy(j) = {}
    BY <1>3, <2>3
  <2> HIDE DEF UsesBy
  <2> QED
    BY <2>4, <2>5
<1> QED
  BY <1>3, <1>6, <1>7, <1>8, <1>10, <1>11, <1>12 DEF IInv

(* Once the queue is empty only the list of the folded is left.            *)
LEMMA RemovalInv == IInv /\ (BeginRemoval \/ RemoveNext) => IInv'
<1> SUFFICES ASSUME IInv, BeginRemoval \/ RemoveNext PROVE IInv'
  OBVIOUS
<1>1. CASE BeginRemoval
  <2>1. phase = "fold" /\ phase' # "fold" /\ (phase' = "remove" => removeList' # <<>>)
    BY <1>1 DEF BeginRemoval
  <2>2. UNCHANGED <<prog, queue, removeList, present>>
    BY <1>1 DEF BeginRemoval
  <2>3. RemovedUnused'
    BY <2>1, <2>2 DEF IInv, RemovedUnused, Uses
  <2> QED
    BY <2>1, <2>2, <2>3 DEF IInv, WellFormed, Computes, NothingMissed
<1>2. CASE RemoveNext
  <2>1. /\ phase = "remove" /\ phase' # "fold" /\ removeList # <<>>
        /\ removeList' = Tail(removeList) /\ present' \subseteq present
        /\ UNCHANGED <<prog, queue>>
    BY <1>2 DEF IInv, RemoveNext
  <2>2. removeList' \in Seq(Inst) /\ ToSet(removeList') \subseteq ToSet(removeList)
    BY <2>1, ToSetTail DEF IInv
  <2>3. phase' = "remove" => removeList' # <<>>
    <3>1. phase' = "remove" => Len(removeList) # 1
      BY <1>2 DEF RemoveNext
    <3>2. Len(removeList) \in Nat /\ Len(removeList) # 0 /\ Len(removeList') = Len(removeList) - 1
      BY <2>1, EmptySeq, LenProperties, HeadTailProperties DEF IInv
    <3> QED
      BY <3>1, <3>2, EmptySeq, LenProperties
  <2>4. \A x : Uses(x)' \subseteq Uses(x)
    BY <2>1 DEF Uses
  <2>5. RemovedUnused'
    BY <2>1, <2>2, <2>4 DEF IInv, RemovedUnused
  <2> QED
    BY <2>1, <2>2, <2>3, <2>5 DEF IInv, WellFormed, Computes, NothingMissed
<1> QED
  BY <1>1, <1>2

(* Steps that leave the function and its lists alone.                      *)
LEMMA IdleInv == IInv /\ (ReplaceByItself \/ UNCHANGED vars) => IInv'
<1> SUFFICES ASSUME IInv, ReplaceByItself \/ UNCHANGED vars PROVE IInv'
  OBVIOUS
<1>1. /\ UNCHANGED <<prog, queue, removeList, present>>
      /\ phase' = "replaced itself" \/ phase' = phase
  BY DEF ReplaceByItself, vars
<1>2. NothingMissed'
  <2>1. \A j \in Inst : Foldable(j)' = Foldable(j)
    BY <1>1 DEF Foldable, Computes, IsConst
  <2> QED
    BY <1>1, <2>1 DEF IInv, NothingMissed
<1>3. RemovedUnused'
  <2>1. prog' = prog /\ present' = present
    BY <1>1
  <2>2. \A i : Uses(i)' = Uses(i)
    BY <2>1 DEF Uses
  <2> QED
    BY <1>1, <2>2 DEF IInv, RemovedUnused
<1> QED
  BY <1>1, <1>2, <1>3 DEF IInv, WellFormed, Computes

-----------------------------------------------------------------------------
(* Straight functions: every instruction is on the queue twice at most, in *)
(* its first turn, which the instructions 1..m of the initial queue still  *)
(* have, and, if it has an operand that can be folded, after that operand  *)
(* has been: it then has no operand any more that is an instruction.       *)
NoRefs(j) == \A k \in DOMAIN prog[j].args : IsConst(prog[j].args[k])

Forward(j) ==
  /\ prog[j].op # "phi"
  /\ \A k \in DOMAIN prog[j].args : \A i \in j..N : prog[j].args[k] # Ref(i)
  /\ \A k \in DOMAIN prog[j].args, n \in DOMAIN prog[j].args :
       ~IsConst(prog[j].args[k]) /\ ~IsConst(prog[j].args[n]) => k = n

FirstTurns(m, q) ==
  /\ m <= Len(q)
  /\ \A k \in 1..m : q[k] = k

Requeued(m, q) ==
  /\ \A k \in (m + 1)..Len(q) : q[k] > m /\ NoRefs(q[k])
  /\ \A k \in (m + 1)..Len(q), n \in (m + 1)..Len(q) : q[k] = q[n] => k = n

FoldedOnce(m, q) ==
  \A i \in ToSet(removeList) : i > m /\ NoRefs(i) /\ \A k \in (m + 1)..Len(q) : q[k] # i

OnceInv ==
  Straight =>
    /\ phase # "removed twice"
    /\ phase \in {"fold", "remove"} => IsInjective(removeList)
    /\ phase = "remove" => ToSet(removeList) \subseteq present
    /\ phase = "fold" =>
         /\ \A j \in Inst : Forward(j)
         /\ \E m \in 0..N : FirstTurns(m, queue) /\ Requeued(m, queue) /\ FoldedOnce(m, queue)

LEMMA FrontPlaces ==
  ASSUME NEW S, NEW s \in Seq(S), s # <<>>
  PROVE  /\ Len(s) \in Nat \ {0} /\ Front(s) \in Seq(S) /\ Len(Front(s)) = Len(s) - 1
         /\ \A k \in 1..(Len(s) - 1) : Front(s)[k] = s[k]
         /\ Last(s) = s[Len(s)]
<1>1. Len(s) \in Nat \ {0} /\ DOMAIN s = 1..Len(s)
  BY EmptySeq, LenProperties
<1>2. \A k \in 1..(Len(s) - 1) : s[k] \in S
  BY <1>1, ElementOfSeq
<1>3. /\ Front(s) \in Seq(S)
      /\ Len(Front(s)) = Len(s) - 1
      /\ \A k \in 1..(Len(s) - 1) : Front(s)[k] = s[k]
  BY <1>1, <1>2, SubSeqProperties DEF Front
<1> QED
  BY <1>1, <1>3 DEF Last

(* What the queue is once its last entry i is taken.                       *)
Taken(m, i) ==
  /\ m \in 0..N /\ i > m
  /\ FirstTurns(m, Front(queue))
  /\ Requeued(m, Front(queue))
  /\ FoldedOnce(m, Front(queue))
  /\ i \notin ToSet(removeList)
  /\ \A k \in (m + 1)..Len(Front(queue)) : Front(queue)[k] # i

LEMMA TakesOne ==
  ASSUME IInv, queue # <<>>, NEW m \in 0..N,
         FirstTurns(m, queue), Requeued(m, queue), FoldedOnce(m, queue)
  PROVE  \E n : Taken(n, Last(queue))
<1> DEFINE q == Front(queue)
           L == Len(queue)
           i == Last(queue)
<1>1. /\ L \in Nat \ {0} /\ q \in Seq(Inst) /\ Len(q) = L - 1
      /\ \A k \in 1..(L - 1) : q[k] = queue[k]
      /\ i = queue[L]
  BY FrontPlaces DEF IInv
<1>2. N \in Nat /\ m <= L
  BY FolderAssumption DEF FirstTurns
<1>3. \A k \in 1..m : queue[k] = k
  BY DEF FirstTurns
<1>4. \A k \in (m + 1)..L : queue[k] > m /\ NoRefs(queue[k])
  BY DEF Requeued
<1>5. \A k \in (m + 1)..L, n \in (m + 1)..L : queue[k] = queue[n] => k = n
  BY DEF Requeued
<1>6. \A r \in ToSet(removeList) : r \in Inst /\ r > m /\ NoRefs(r) /\ \A k \in (m + 1)..L : queue[k] # r
  <2>1. ToSet(removeList) \subseteq Inst
    BY ElementOfSeq, LenProperties DEF ToSet, IInv
  <2> QED
    BY <2>1 DEF FoldedOnce
<1> HIDE DEF q, L, i
<1>7. CASE m = L
  <2>1. m - 1 \in 0..N /\ i = m /\ i > m - 1 /\ Len(q) = m - 1
    BY <1>1, <1>2, <1>3, <1>7
  <2>2. \A k \in 1..(m - 1) : q[k] = k
    BY <1>1, <1>2, <1>3, <1>7
  <2>3. ((m - 1) + 1)..Len(q) = {}
    BY <1>1, <1>2, <2>1
  <2>4. \A r \in ToSet(removeList) : r > m - 1 /\ r # i
    BY <1>6, <2>1, <1>2 DEF Inst
  <2>5. m - 1 <= Len(q)
    BY <1>2, <2>1
  <2>6. FirstTurns(m - 1, q)
    BY <2>2, <2>5 DEF FirstTurns
  <2>7. Requeued(m - 1, q)
    BY <2>3 DEF Requeued
  <2>8. FoldedOnce(m - 1, q)
    BY <1>6, <2>3, <2>4 DEF FoldedOnce
  <2>9. i \notin ToSet(removeList)
    BY <2>4
  <2>10. \A k \in ((m - 1) + 1)..Len(q) : q[k] # i
    BY <2>3
  <2>11. Taken(m - 1, i)
    BY <2>1, <2>6, <2>7, <2>8, <2>9, <2>10 DEF Taken, q
  <2> QED
    BY <2>11 DEF i
<1>8. CASE m # L
  <2>1. L \in (m + 1)..L /\ m <= L - 1
    BY <1>1, <1>2, <1>8
  <2>2. \A k \in (m + 1)..(L - 1) : k \in (m + 1)..L /\ k \in 1..(L - 1) /\ k # L
    BY <1>1, <1>2
  <2>3. \A k \in (m + 1)..(L - 1) : q[k] = queue[k]
    BY <1>1, <2>2
  <2>4. i > m /\ i = queue[L]
    BY <1>1, <1>4, <2>1
  <2>5. FirstTurns(m, q)
    <3>1. \A k \in 1..m : k \in 1..(L - 1)
      BY <1>1, <1>2, <2>1
    <3> QED
      BY <1>1, <1>3, <2>1, <3>1 DEF FirstTurns
  <2>6. Requeued(m, q)
    <3>1. \A k \in (m + 1)..Len(q) : q[k] > m /\ NoRefs(q[k])
      BY <1>1, <1>4, <2>2, <2>3
    <3>2. \A k \in (m + 1)..Len(q), n \in (m + 1)..Len(q) : q[k] = q[n] => k = n
      BY <1>1, <1>5, <2>2, <2>3
    <3> QED
      BY <3>1, <3>2 DEF Requeued
  <2>7. FoldedOnce(m, q)
    BY <1>1, <1>6, <2>2, <2>3 DEF FoldedOnce
  <2>8. i \notin ToSet(removeList)
    BY <1>6, <2>1, <2>4
  <2>9. \A k \in (m + 1)..Len(q) : q[k] # i
    BY <1>1, <1>5, <2>1, <2>2, <2>3, <2>4
  <2>10. Taken(m, i)
    BY <2>4, <2>5, <2>6, <2>7, <2>8, <2>9 DEF Taken, q
  <2> QED
    BY <2>10 DEF i
<1> QED
  BY <1>7, <1>8

(* An instruction with one operand that is i is queued once for it.        *)
LEMMA QueuedOnce ==
  ASSUME IInv, \A j \in Inst : Forward(j), NEW i \in Inst, NEW users \in Queued(i)
  PROVE  /\ users \in Seq(Inst)
         /\ \A k \in 1..Len(users) : \E n \in DOMAIN prog[users[k]].args : prog[users[k]].args[n] = Ref(i)
         /\ \A k \in 1..Len(users), n \in 1..Len(users) : users[k] = users[n] => k = n
<1> DEFINE c == Cardinality(Uses(i))
<1>1. c \in Nat /\ IsFiniteSet(Uses(i))
  BY FinitelyManyUses, FS_CardinalityType
<1>2. PICK s \in [1..c -> Uses(i)] : ToSet(s) = Uses(i) /\ users = [k \in DOMAIN s |-> s[k][1]]
  BY DEF Queued, Orders
<1>3. users \in Seq(Inst)
  BY QueuedUsers
<1>4. \A u \in Uses(i) : u[1] \in Inst /\ u = <<u[1], u[2]>> /\ u[2] \in DOMAIN prog[u[1]].args /\ prog[u[1]].args[u[2]] = Ref(i)
  BY DEF Uses, IInv
<1>5. \A u \in Uses(i), w \in Uses(i) : u[1] = w[1] => u = w
  <2> SUFFICES ASSUME NEW u \in Uses(i), NEW w \in Uses(i), u[1] = w[1] PROVE u = w
    OBVIOUS
  <2>1. ~IsConst(Ref(i))
    BY DEF IsConst
  <2>2. u[2] = w[2]
    BY <1>4, <2>1 DEF Forward
  <2> QED
    BY <1>4, <2>2
<1>6. \A k \in 1..c, n \in 1..c : s[k] = s[n] => k = n
  <2>1. s \in Surjection(1..c, Uses(i))
    BY <1>2 DEF Surjection, ToSet
  <2>2. IsFiniteSet(1..c) /\ Cardinality(1..c) = c
    BY <1>1, FS_Interval
  <2>3. s \in Injection(1..c, Uses(i))
    BY <2>1, <2>2, FS_SurjSameCardinalityImpliesInj
  <2> QED
    BY <2>3 DEF Injection, IsInjective
<1> HIDE DEF c
<1>7. Len(users) = c
  <2>1. users \in [1..c -> Inst]
    BY <1>2, <1>4
  <2> QED
    BY <1>1, <1>3, <2>1, LenProperties
<1>8. \A k \in 1..c : s[k] \in Uses(i) /\ users[k] = s[k][1]
  BY <1>2
<1> QED
  BY <1>3, <1>4, <1>5, <1>6, <1>7, <1>8

LEMMA OnceInit == IInv /\ Init => OnceInv
<1> SUFFICES ASSUME IInv, Init, Straight PROVE OnceInv
  BY DEF OnceInv
<1>1. prog = source /\ queue = [i \in 1..N |-> i] /\ removeList = <<>> /\ phase = "fold" /\ N \in Nat
  BY FolderAssumption DEF Init, InitialQueue, Inst
<1>2. ASSUME NEW j \in Inst PROVE Forward(j)
  BY <1>1 DEF Straight, Forward
<1>3. Len(queue) = N
  BY <1>1, LenProperties DEF IInv
<1>4. FirstTurns(N, queue)
  BY <1>1, <1>3 DEF FirstTurns
<1>5. (N + 1)..Len(queue) = {}
  BY <1>1, <1>3
<1>6. Requeued(N, queue)
  BY <1>5 DEF Requeued
<1>7. ToSet(removeList) = {} /\ IsInjective(removeList)
  BY <1>1 DEF ToSet, IsInjective
<1>8. FoldedOnce(N, queue)
  BY <1>7 DEF FoldedOnce
<1>9. N \in 0..N
  BY <1>1
<1> QED
  BY <1>1, <1>2, <1>4, <1>6, <1>7, <1>8, <1>9 DEF OnceInv

LEMMA OnceSkip == IInv /\ OnceInv /\ Skip => OnceInv'
<1> SUFFICES ASSUME IInv, OnceInv, Skip, Straight' PROVE OnceInv'
  BY DEF OnceInv
<1>1. /\ phase = "fold" /\ phase' = "fold" /\ queue # <<>> /\ queue' = Front(queue)
      /\ UNCHANGED <<source, prog, removeList>>
  BY DEF Skip, Rest
<1>2. Straight
  BY <1>1 DEF Straight
<1>3. PICK m \in 0..N : FirstTurns(m, queue) /\ Requeued(m, queue) /\ FoldedOnce(m, queue)
  BY <1>1, <1>2 DEF OnceInv
<1>4. PICK n : Taken(n, Last(queue))
  BY <1>1, <1>3, TakesOne
<1>5. n \in 0..N /\ FirstTurns(n, Front(queue)) /\ Requeued(n, Front(queue)) /\ FoldedOnce(n, Front(queue))
  BY <1>4 DEF Taken
<1>6. FirstTurns(n, queue)'
  BY <1>1, <1>5 DEF FirstTurns
<1>7. Requeued(n, queue)'
  BY <1>1, <1>5 DEF Requeued, NoRefs
<1>8. FoldedOnce(n, queue)'
  BY <1>1, <1>5 DEF FoldedOnce, NoRefs
<1>9. IsInjective(removeList) /\ \A j \in Inst : Forward(j)
  BY <1>1, <1>2 DEF OnceInv
<1>10. IsInjective(removeList)' /\ \A j \in Inst : Forward(j)'
  BY <1>1, <1>9 DEF Forward, IsInjective
<1> QED
  BY <1>1, <1>5, <1>6, <1>7, <1>8, <1>10 DEF OnceInv

(* The users a fold queues lost their one operand to a constant: none of   *)
(* them was queued again, or folded, before.                               *)
LEMMA OnceFold == IInv /\ OnceInv /\ Fold => OnceInv'
<1> SUFFICES ASSUME IInv, OnceInv, Fold, Straight' PROVE OnceInv'
  BY DEF OnceInv
<1> DEFINE i == Last(queue)
           q == Front(queue)
<1>1. /\ phase = "fold" /\ phase' = "fold" /\ queue # <<>>
      /\ Foldable(i) /\ removeList' = Append(removeList, i)
      /\ source' = source
  BY DEF Fold
<1>2. PICK users \in Queued(i) : queue' = q \o users
  BY DEF Fold
<1>3. PICK v \in Folded(i) : v # Ref(i) /\ prog' = Replaced(i, v)
  BY DEF Fold
<1>4. Straight
  BY <1>1 DEF Straight
<1>5. PICK m0 \in 0..N : FirstTurns(m0, queue) /\ Requeued(m0, queue) /\ FoldedOnce(m0, queue)
  BY <1>1, <1>4 DEF OnceInv
<1>6. IsInjective(removeList) /\ \A j \in Inst : Forward(j)
  BY <1>1, <1>4 DEF OnceInv
<1>7. PICK m : Taken(m, i)
  BY <1>1, <1>5, TakesOne
<1>8. i \in Inst /\ q \in Seq(Inst) /\ N \in Nat
  BY <1>1, FrontAndLast, FolderAssumption DEF IInv
<1>9. /\ users \in Seq(Inst)
      /\ \A k \in 1..Len(users) : \E n \in DOMAIN prog[users[k]].args : prog[users[k]].args[n] = Ref(i)
      /\ \A k \in 1..Len(users), n \in 1..Len(users) : users[k] = users[n] => k = n
  BY <1>6, <1>8, QueuedOnce
<1> DEFINE A == Len(q)
           B == Len(users)
<1>10. /\ A \in Nat /\ B \in Nat /\ Len(queue') = A + B
       /\ \A k \in 1..A : queue'[k] = q[k]
       /\ \A k \in (A + 1)..(A + B) : queue'[k] = users[k - A]
  BY <1>2, <1>8, <1>9, LenProperties, ConcatProperties
<1>11. IsConst(v)
  <2>1. prog[i].op # "phi"
    BY <1>6, <1>8 DEF Forward
  <2>2. \E w : v = Const(w)
    BY <1>3, <2>1 DEF Folded
  <2> QED
    BY <2>2, ConstIsNoRef DEF IsConst
<1> DEFINE Arg(j, k) == IF prog[j].args[k] = Ref(i) THEN v ELSE prog[j].args[k]
<1>12. ASSUME NEW j \in Inst
       PROVE  /\ prog'[j].op = prog[j].op
              /\ DOMAIN prog'[j].args = DOMAIN prog[j].args
              /\ \A k \in DOMAIN prog[j].args : prog'[j].args[k] = Arg(j, k)
  <2>1. prog[j] = [op |-> prog[j].op, args |-> prog[j].args]
    BY DEF IInv, WellFormed
  <2>2. prog'[j] = [prog[j] EXCEPT !.args = [k \in DOMAIN prog[j].args |-> Arg(j, k)]]
    BY <1>3 DEF Replaced
  <2>3. prog'[j] = [op |-> prog[j].op, args |-> [k \in DOMAIN prog[j].args |-> Arg(j, k)]]
    BY <2>1, <2>2
  <2> QED
    BY <2>3
<1> DEFINE Uses1(j) == \E n \in DOMAIN prog[j].args : prog[j].args[n] = Ref(i)
<1>13. ~IsConst(Ref(i)) /\ \A x : IsConst(x)' <=> IsConst(x)
  BY <1>8 DEF IsConst
<1>14. ASSUME NEW j \in Inst PROVE Forward(j)'
  <2>1. Forward(j)
    BY <1>6
  <2>2. v # Ref(j) /\ \A n \in Inst : v # Ref(n)
    BY <1>11 DEF IsConst
  <2>3. \A k \in DOMAIN prog'[j].args : \A n \in j..N : prog'[j].args[k] # Ref(n)
    BY <1>8, <1>12, <2>1, <2>2 DEF Forward, Inst
  <2>4. \A k \in DOMAIN prog'[j].args, n \in DOMAIN prog'[j].args :
          ~IsConst(prog'[j].args[k]) /\ ~IsConst(prog'[j].args[n]) => k = n
    BY <1>11, <1>12, <2>1 DEF Forward
  <2>5. prog'[j].op # "phi"
    BY <1>12, <2>1 DEF Forward
  <2> QED
    BY <1>13, <2>3, <2>4, <2>5 DEF Forward
<1> DEFINE NoRefsNow(j) == \A k \in DOMAIN prog'[j].args : IsConst(prog'[j].args[k])
<1>15. ASSUME NEW j \in Inst, NoRefs(j) PROVE NoRefsNow(j) /\ ~Uses1(j)
  <2>1. ~Uses1(j)
    BY <1>13, <1>15 DEF NoRefs
  <2>2. \A k \in DOMAIN prog'[j].args : IsConst(prog'[j].args[k])
    BY <1>11, <1>12, <1>15 DEF NoRefs
  <2> QED
    BY <2>1, <2>2
<1>16. ASSUME NEW j \in Inst, Uses1(j) PROVE NoRefsNow(j) /\ j > i
  <2>1. PICK n \in DOMAIN prog[j].args : prog[j].args[n] = Ref(i)
    BY <1>16
  <2>2. \A k \in DOMAIN prog[j].args : ~IsConst(prog[j].args[k]) => k = n
    BY <1>6, <1>13, <2>1 DEF Forward
  <2>3. \A k \in DOMAIN prog'[j].args : IsConst(prog'[j].args[k])
    BY <1>11, <1>12, <2>1, <2>2
  <2>4. i \notin j..N
    BY <1>6, <2>1 DEF Forward
  <2>5. j > i
    BY <1>8, <2>4 DEF Inst
  <2> QED
    BY <2>3, <2>5
<1>17. NoRefs(i)
  <2>1. prog[i].op # "phi"
    BY <1>6, <1>8 DEF Forward
  <2>2. Computes(i) /\ \A k \in 1..2 : IsConst(prog[i].args[k])
    BY <1>1, <2>1 DEF Foldable
  <2>3. DOMAIN prog[i].args = 1..2
    BY <1>8, <2>2 DEF IInv, WellFormed
  <2> QED
    BY <2>2, <2>3 DEF NoRefs
<1>18. /\ m \in 0..N /\ i > m /\ m <= A
       /\ \A k \in 1..m : q[k] = k
       /\ \A k \in (m + 1)..A : q[k] > m /\ NoRefs(q[k]) /\ q[k] # i
       /\ \A k \in (m + 1)..A, n \in (m + 1)..A : q[k] = q[n] => k = n
       /\ \A r \in ToSet(removeList) : r > m /\ NoRefs(r) /\ \A k \in (m + 1)..A : q[k] # r
       /\ i \notin ToSet(removeList)
  BY <1>7 DEF Taken, FirstTurns, Requeued, FoldedOnce
<1>19. ToSet(removeList) \subseteq Inst /\ ToSet(removeList') = ToSet(removeList) \cup {i}
  <2>1. ToSet(removeList') = ToSet(removeList) \cup {i}
    BY <1>1, <1>8, ToSetAppend DEF IInv
  <2>2. ToSet(removeList) \subseteq Inst
    BY ElementOfSeq, LenProperties DEF ToSet, IInv
  <2> QED
    BY <2>1, <2>2
<1> HIDE DEF A, B, q, i
<1>20. \A k \in (m + 1)..A : q[k] \in Inst
  <2>1. \A k \in 1..A : q[k] \in Inst
    BY <1>8, ElementOfSeq DEF A
  <2> QED
    BY <1>10, <1>18, <2>1
<1>21. \A k \in 1..B : users[k] \in Inst /\ Uses1(users[k])
  BY <1>9, ElementOfSeq DEF B
<1> HIDE DEF Uses1, NoRefsNow
<1>22. FirstTurns(m, queue)'
  <2>1. m <= Len(queue') /\ \A k \in 1..m : k \in 1..A
    BY <1>10, <1>18
  <2>2. \A k \in 1..m : queue'[k] = k
    BY <1>10, <1>18, <2>1
  <2> QED
    BY <2>1, <2>2 DEF FirstTurns
<1>23. ASSUME NEW k \in (m + 1)..(A + B)
       PROVE  \/ k \in (m + 1)..A /\ queue'[k] = q[k]
              \/ k - A \in 1..B /\ queue'[k] = users[k - A]
  <2>1. CASE k <= A
    BY <1>10, <1>18, <2>1
  <2>2. CASE k > A
    BY <1>10, <1>18, <2>2
  <2> QED
    BY <1>10, <1>18, <2>1, <2>2
<1>24. Requeued(m, queue)'
  <2>1. ASSUME NEW k \in (m + 1)..(A + B) PROVE queue'[k] > m /\ NoRefsNow(queue'[k])
    <3>1. CASE k \in (m + 1)..A /\ queue'[k] = q[k]
      BY <1>15, <1>18, <1>20, <3>1
    <3>2. CASE k - A \in 1..B /\ queue'[k] = users[k - A]
      <4>1. users[k - A] \in Inst /\ Uses1(users[k - A])
        BY <1>21, <3>2
      <4>2. NoRefsNow(users[k - A]) /\ users[k - A] > i
        BY <1>16, <4>1
      <4> QED
        BY <1>8, <1>18, <3>2, <4>1, <4>2 DEF Inst
    <3> QED
      BY <1>23, <3>1, <3>2
  <2>2. ASSUME NEW k \in (m + 1)..(A + B), NEW n \in (m + 1)..(A + B), queue'[k] = queue'[n] PROVE k = n
    <3>1. CASE k \in (m + 1)..A /\ queue'[k] = q[k] /\ n \in (m + 1)..A /\ queue'[n] = q[n]
      BY <1>18, <2>2, <3>1
    <3>2. CASE k - A \in 1..B /\ queue'[k] = users[k - A] /\ n - A \in 1..B /\ queue'[n] = users[n - A]
      <4>1. k - A = n - A
        BY <1>9, <2>2, <3>2 DEF B
      <4> QED
        BY <1>10, <1>18, <4>1
    <3>3. ASSUME NEW a \in (m + 1)..A, NEW b \in 1..B, q[a] = users[b] PROVE FALSE
      BY <1>15, <1>18, <1>20, <1>21, <3>3
    <3> QED
      BY <1>23, <2>2, <3>1, <3>2, <3>3
  <2> QED
    BY <1>10, <1>13, <2>1, <2>2 DEF Requeued, NoRefs, NoRefsNow
<1>25. FoldedOnce(m, queue)'
  <2> SUFFICES ASSUME NEW r \in ToSet(removeList')
               PROVE  r > m /\ NoRefsNow(r) /\ \A k \in (m + 1)..(A + B) : queue'[k] # r
    BY <1>10, <1>13 DEF FoldedOnce, NoRefs, NoRefsNow
  <2>1. /\ r \in Inst /\ r > m /\ NoRefs(r)
        /\ \A k \in (m + 1)..A : q[k] # r
    BY <1>8, <1>17, <1>18, <1>19
  <2>2. NoRefsNow(r) /\ ~Uses1(r)
    BY <1>15, <2>1
  <2>3. \A b \in 1..B : users[b] # r
    BY <1>21, <2>2
  <2> QED
    BY <1>23, <2>1, <2>2, <2>3
<1>26. IsInjective(removeList)'
  <2> DEFINE R == Len(removeList)
  <2>1. /\ R \in Nat /\ DOMAIN removeList = 1..R /\ DOMAIN removeList' = 1..(R + 1)
        /\ \A k \in 1..R : removeList'[k] = removeList[k]
        /\ removeList'[R + 1] = i
    BY <1>1, <1>8, AppendProperties, LenProperties DEF IInv, i
  <2> HIDE DEF R
  <2>2. \A k \in 1..R : removeList[k] # i
    BY <1>18, <2>1 DEF ToSet
  <2>3. \A k \in 1..(R + 1) : k \in 1..R \/ k = R + 1
    BY <2>1
  <2>4. \A k \in 1..R, n \in 1..R : removeList[k] = removeList[n] => k = n
    BY <1>6, <2>1 DEF IsInjective
  <2> QED
    BY <2>1, <2>2, <2>3, <2>4 DEF IsInjective
<1> QED
  BY <1>1, <1>14, <1>18, <1>22, <1>24, <1>25, <1>26 DEF OnceInv

(* What is on remove_list once is there when its turn comes.               *)
LEMMA OnceRemoval == IInv /\ OnceInv /\ RemoveNext => OnceInv'
<1> SUFFICES ASSUME IInv, OnceInv, RemoveNext, Straight' PROVE OnceInv'
  BY DEF OnceInv
<1> DEFINE i == Head(removeList)
           t == Tail(removeList)
<1>1. /\ phase = "remove" /\ phase' # "fold" /\ removeList # <<>> /\ removeList \in Seq(Inst)
      /\ removeList' = t /\ present' = present \ {i}
      /\ source' = source
  BY DEF IInv, RemoveNext
<1>2. Straight
  BY <1>1 DEF Straight
<1>3. IsInjective(removeList) /\ ToSet(removeList) \subseteq present
  BY <1>1, <1>2 DEF OnceInv
<1>4. /\ Len(removeList) \in Nat \ {0} /\ DOMAIN removeList = 1..Len(removeList)
      /\ i = removeList[1] /\ DOMAIN t = 1..(Len(removeList) - 1)
      /\ \A k \in 1..(Len(removeList) - 1) : t[k] = removeList[k + 1]
  BY <1>1, EmptySeq, LenProperties, HeadTailProperties
<1> HIDE DEF i, t
<1>5. i \in present
  BY <1>3, <1>4 DEF ToSet
<1>6. phase' # "removed twice"
  BY <1>5 DEF RemoveNext, i
<1>7. IsInjective(t)
  BY <1>3, <1>4 DEF IsInjective
<1>8. ToSet(t) \subseteq present \ {i}
  <2> SUFFICES ASSUME NEW k \in DOMAIN t PROVE t[k] \in present /\ t[k] # i
    BY DEF ToSet
  <2>1. t[k] = removeList[k + 1] /\ k + 1 \in DOMAIN removeList /\ 1 \in DOMAIN removeList /\ k + 1 # 1
    BY <1>4
  <2> QED
    BY <1>3, <1>4, <2>1 DEF IsInjective, ToSet
<1>9. IsInjective(removeList)' /\ (ToSet(removeList) \subseteq present)'
  <2>1. IsInjective(removeList')
    BY <1>1, <1>7
  <2> QED
    BY <1>1, <1>8, <2>1 DEF IsInjective
<1> QED
  BY <1>1, <1>6, <1>9 DEF OnceInv

LEMMA OnceIdle == IInv /\ OnceInv /\ (BeginRemoval \/ ReplaceByItself \/ UNCHANGED vars) => OnceInv'
<1> SUFFICES ASSUME IInv, OnceInv, BeginRemoval \/ ReplaceByItself \/ UNCHANGED vars, Straight' PROVE OnceInv'
  BY DEF OnceInv
<1>1. UNCHANGED <<source, prog, queue, removeList, present>>
  BY DEF BeginRemoval, ReplaceByItself, vars
<1>2. /\ phase' # "removed twice" \/ phase' = phase
      /\ phase' = "fold" => phase = "fold"
      /\ phase' = "remove" => phase \in {"fold", "remove"}
  BY DEF BeginRemoval, ReplaceByItself, vars
<1>3. Straight
  BY <1>1 DEF Straight
<1>4. phase = "fold" => ToSet(removeList) \subseteq present
  BY ElementOfSeq, LenProperties DEF ToSet, IInv
<1>5. phase' = "fold" =>
        /\ \A j \in Inst : Forward(j)'
        /\ \E m \in 0..N : FirstTurns(m, queue)' /\ Requeued(m, queue)' /\ FoldedOnce(m, queue)'
  <2> SUFFICES ASSUME phase' = "fold"
               PROVE  /\ \A j \in Inst : Forward(j)'
                      /\ \E m \in 0..N : FirstTurns(m, queue)' /\ Requeued(m, queue)' /\ FoldedOnce(m, queue)'
    OBVIOUS
  <2>1. \A j \in Inst : Forward(j)
    BY <1>2, <1>3 DEF OnceInv
  <2>2. PICK m \in 0..N : FirstTurns(m, queue) /\ Requeued(m, queue) /\ FoldedOnce(m, queue)
    BY <1>2, <1>3 DEF OnceInv
  <2>3. FirstTurns(m, queue)' /\ Requeued(m, queue)' /\ FoldedOnce(m, queue)'
    BY <1>1, <2>2 DEF FirstTurns, Requeued, FoldedOnce, NoRefs
  <2> QED
    BY <1>1, <2>1, <2>3 DEF Forward
<1>6. phase' \in {"fold", "remove"} => IsInjective(removeList)'
  BY <1>1, <1>2, <1>3 DEF OnceInv, IsInjective
<1>7. phase' = "remove" => (ToSet(removeList) \subseteq present)'
  BY <1>1, <1>2, <1>3, <1>4 DEF OnceInv
<1>8. phase' # "removed twice"
  BY <1>2, <1>3 DEF OnceInv
<1> QED
  BY <1>5, <1>6, <1>7, <1>8 DEF OnceInv

-----------------------------------------------------------------------------
(* What instructions compute, round by round.  A value that is there stays *)
(* as it is in later rounds, since a round keeps what the one before has.  *)
Extends(f, g) == \A i \in Inst : f[i] # -1 => g[i] = f[i]

IsRounds(f, m, p, known, taken) ==
  f = [k \in 0..m |-> IF k = 0 THEN [i \in Inst |-> -1] ELSE Step(p, known, taken, f[k-1])]

LEMMA RoundsExist ==
  ASSUME NEW p, NEW known, NEW taken
  PROVE  IsRounds(Rounds(p, known, taken), N, p, known, taken)
<1> DEFINE none == [i \in Inst |-> -1]
           Next1(x) == Step(p, known, taken, x)
           Are(f, m) == f = [k \in 0..m |-> IF k = 0 THEN none ELSE Next1(f[k-1])]
           G == {m \in 0..N : \E f : Are(f, m)}
<1> HIDE DEF none, Next1
<1>1. 0 \in G
  <2> DEFINE f == [k \in 0..0 |-> none]
  <2>1. Are(f, 0)
    OBVIOUS
  <2>2. 0 \in 0..N
    BY FolderAssumption
  <2> HIDE DEF f, Are
  <2> QED
    BY <2>1, <2>2
<1>2. ASSUME NEW m \in 0..(N-1), m \in G PROVE m + 1 \in G
  <2>1. PICK f : Are(f, m)
    BY <1>2
  <2> DEFINE g == [k \in 0..(m+1) |-> IF k = m + 1 THEN Next1(f[m]) ELSE f[k]]
             h == [k \in 0..(m+1) |-> IF k = 0 THEN none ELSE Next1(g[k-1])]
  <2>2. ASSUME NEW k \in 0..(m+1) PROVE g[k] = h[k]
    <3>1. CASE k = m + 1
      <4>1. m \in 0..(m+1) /\ m # m + 1 /\ m + 1 # 0 /\ (m + 1) - 1 = m /\ m + 1 \in 0..(m+1)
        OBVIOUS
      <4>2. g[m] = f[m]
        BY <4>1
      <4>3. g[m+1] = Next1(f[m])
        BY <4>1
      <4>4. h[m+1] = Next1(g[m])
        BY <4>1
      <4> HIDE DEF g, h
      <4> QED
        BY <3>1, <4>2, <4>3, <4>4
    <3>2. CASE k = 0
      <4>1. 0 \in 0..(m+1) /\ 0 # m + 1 /\ 0 \in 0..m
        OBVIOUS
      <4>2. g[0] = f[0] /\ h[0] = none
        BY <4>1
      <4>3. f[0] = none
        BY <2>1, <4>1
      <4> HIDE DEF g, h
      <4> QED
        BY <3>2, <4>2, <4>3
    <3>3. CASE k # 0 /\ k # m + 1
      <4>1. k \in 0..m /\ k - 1 \in 0..m /\ k - 1 \in 0..(m+1) /\ k - 1 # m + 1
        BY <3>3
      <4>2. g[k] = f[k] /\ g[k-1] = f[k-1]
        BY <3>3, <4>1
      <4>3. f[k] = Next1(f[k-1])
        BY <2>1, <3>3, <4>1
      <4>4. h[k] = Next1(g[k-1])
        BY <3>3
      <4> HIDE DEF g, h, Are
      <4> QED
        BY <4>2, <4>3, <4>4
    <3> QED
      BY <3>1, <3>2, <3>3
  <2>3. g = h
    BY <2>2
  <2>4. Are(g, m + 1)
    BY <2>3
  <2>5. m + 1 \in 0..N
    BY FolderAssumption
  <2> HIDE DEF g, Are
  <2> QED
    BY <2>4, <2>5
<1>3. N \in G
  <2> HIDE DEF G
  <2>1. 0..N \subseteq G
    BY <1>1, <1>2, FolderAssumption, IntervalInduction
  <2> QED
    BY <2>1, FolderAssumption
<1>4. \E f : Are(f, N)
  <2> HIDE DEF Are
  <2> QED
    BY <1>3
<1>5. Rounds(p, known, taken) = CHOOSE f : Are(f, N)
  BY Zenon DEF Rounds, none, Next1
<1>6. Are(Rounds(p, known, taken), N)
  <2> HIDE DEF Are
  <2> QED
    BY <1>4, <1>5, Zenon
<1> QED
  BY <1>6, Zenon DEF IsRounds, none, Next1

LEMMA EachRound ==
  ASSUME NEW p, NEW known, NEW taken
  PROVE  /\ \A i \in Inst : Rounds(p, known, taken)[0][i] = -1
         /\ \A k \in 1..N : Rounds(p, known, taken)[k] = Step(p, known, taken, Rounds(p, known, taken)[k-1])
<1> DEFINE r == Rounds(p, known, taken)
           Next1(x) == Step(p, known, taken, x)
<1>1. r = [k \in 0..N |-> IF k = 0 THEN [i \in Inst |-> -1] ELSE Next1(r[k-1])]
  BY RoundsExist DEF IsRounds
<1> HIDE DEF r, Next1
<1>2. r[0] = [i \in Inst |-> -1]
  BY <1>1, FolderAssumption
<1>3. \A k \in 1..N : r[k] = Next1(r[k-1])
  BY <1>1, FolderAssumption
<1> QED
  BY <1>2, <1>3 DEF r, Next1

LEMMA StepKeeps ==
  ASSUME NEW p, NEW known, NEW taken, NEW f, NEW g, Extends(f, g)
  PROVE  Extends(Step(p, known, taken, f), Step(p, known, taken, g))
<1> SUFFICES ASSUME NEW j \in Inst, Step(p, known, taken, f)[j] # -1
             PROVE  Step(p, known, taken, g)[j] = Step(p, known, taken, f)[j]
  BY DEF Extends
<1>1. \A v : Operand(f, v) # -1 => Operand(g, v) = Operand(f, v)
  BY DEF Extends, Operand, IsConst, Ref
<1> QED
  BY <1>1 DEF Step, Computed

LEMMA RoundsGrow ==
  ASSUME NEW p, NEW known, NEW taken, NEW k \in 1..N
  PROVE  Extends(Rounds(p, known, taken)[k-1], Rounds(p, known, taken)[k])
<1> DEFINE r == Rounds(p, known, taken)
           Next1(x) == Step(p, known, taken, x)
           G == {m \in 0..N : m # 0 => Extends(r[m-1], r[m])}
<1>1. /\ \A i \in Inst : r[0][i] = -1
      /\ \A m \in 1..N : r[m] = Next1(r[m-1])
  BY EachRound
<1>2. \A f, g : Extends(f, g) => Extends(Next1(f), Next1(g))
  BY StepKeeps
<1> HIDE DEF r, Next1
<1>3. 0 \in G
  BY FolderAssumption
<1>4. ASSUME NEW m \in 0..(N-1), m \in G PROVE m + 1 \in G
  <2>1. m + 1 \in 1..N /\ (m + 1) - 1 = m /\ (m # 0 => m \in 1..N) /\ m + 1 \in 0..N
    BY FolderAssumption
  <2>2. r[m+1] = Next1(r[m])
    BY <1>1, <2>1
  <2>3. CASE m = 0
    BY <1>1, <2>1, <2>3 DEF Extends
  <2>4. CASE m # 0
    <3>1. r[m] = Next1(r[m-1]) /\ Extends(r[m-1], r[m])
      BY <1>1, <1>4, <2>1, <2>4
    <3>2. Extends(Next1(r[m-1]), Next1(r[m]))
      BY <1>2, <3>1
    <3>3. Extends(r[m], r[m+1])
      BY <2>2, <3>1, <3>2
    <3> QED
      BY <2>1, <3>3
  <2> QED
    BY <2>3, <2>4
<1>5. 0..N \subseteq G
  <2> HIDE DEF G
  <2> QED
    BY <1>3, <1>4, FolderAssumption, IntervalInduction
<1>6. k \in G /\ k # 0
  BY <1>5, FolderAssumption
<1> QED
  BY <1>6 DEF r

-----------------------------------------------------------------------------
(* The operators are those the pass knows, and the operands are lists.     *)
Listed(p) ==
  \A j \in Inst :
    /\ p[j].op \in BinaryOps \cup ComparePreds \cup {"phi", "load"}
    /\ \E n \in Nat : p[j].args = [k \in 1..n |-> p[j].args[k]]

(* What replaces an instruction has its value, where it has one: the round *)
(* that gives it the value has the operands' values, and the replacement   *)
(* has the same from that round on.                                        *)
LEMMA FoldedValue ==
  ASSUME NEW known, NEW taken, NEW i \in Inst, Foldable(i), NEW v \in Folded(i),
         NEW k \in 1..N, Rounds(prog, known, taken)[k][i] # -1
  PROVE  Operand(Rounds(prog, known, taken)[k], v) = Rounds(prog, known, taken)[k][i]
<1> DEFINE r == Rounds(prog, known, taken)
           was == Step(prog, known, taken, r[k-1])[i]
<1>1. r[k] = Step(prog, known, taken, r[k-1])
  BY EachRound
<1>2. r[k][i] = was /\ was # -1
  BY <1>1
<1>3. Extends(r[k-1], r[k])
  BY RoundsGrow
<1> HIDE DEF r
<1>4. CASE prog[i].op = "phi"
  <2>1. v = prog[i].args[1] /\ DOMAIN prog[i].args = {1}
    BY <1>4 DEF Foldable, Folded, Computes, BinaryOps, ComparePreds
  <2>2. Chosen(prog[i], taken[i]) = prog[i].args[1]
    BY <2>1 DEF Chosen
  <2>3. prog[i].args # <<>>
    BY <2>1
  <2>4. was = Operand(r[k-1], v)
    BY <1>4, <2>1, <2>2, <2>3 DEF Step
  <2> QED
    BY <1>2, <1>3, <2>4 DEF Operand, Extends, IsConst, Ref, r
<1>5. CASE prog[i].op # "phi"
  <2> DEFINE a == prog[i].args[1]
             b == prog[i].args[2]
  <2>1. /\ Computes(i) /\ IsConst(a) /\ IsConst(b)
        /\ prog[i].op # "load"
    BY <1>5 DEF Foldable, Computes, BinaryOps, ComparePreds
  <2>2. was = Computed(prog[i].op, a[2], b[2])
    BY <1>5, <2>1 DEF Step, Operand
  <2>3. Defined(prog[i].op, b[2]) /\ was = Result(prog[i].op, a[2], b[2])
    BY <1>2, <2>2 DEF Computed
  <2>4. v = Const(was)
    BY <1>5, <2>3 DEF Folded
  <2>5. IsConst(v) /\ v[2] = was
    BY <2>4, ConstIsNoRef DEF IsConst, Const
  <2> HIDE DEF was
  <2> QED
    BY <1>2, <2>5 DEF Operand, r
<1> QED
  BY <1>4, <1>5

LEMMA ReplacedMeaning ==
  ASSUME NEW known, NEW taken, NEW i \in Inst, Foldable(i), NEW v \in Folded(i), v # Ref(i),
         DOMAIN prog = Inst, WellFormed, Listed(prog)
  PROVE  \A k \in 0..N :
           Extends(Rounds(prog, known, taken)[k], Rounds(Replaced(i, v), known, taken)[k])
<1> DEFINE p == prog
           q == Replaced(i, v)
           r == Rounds(p, known, taken)
           s == Rounds(q, known, taken)
           Becomes(x) == IF x = Ref(i) THEN v ELSE x
           G == {k \in 0..N : Extends(r[k], s[k])}
<1>1. /\ \A m \in Inst : r[0][m] = -1
      /\ \A k \in 1..N : r[k] = Step(p, known, taken, r[k-1])
  BY EachRound
<1>2. \A k \in 1..N : s[k] = Step(q, known, taken, s[k-1])
  BY EachRound
<1>3. \A k \in 1..N : r[k][i] # -1 => Operand(r[k], v) = r[k][i]
  BY FoldedValue
<1>4. ASSUME NEW j \in Inst
      PROVE  /\ q[j].op = p[j].op
             /\ DOMAIN q[j].args = DOMAIN p[j].args
             /\ \A k \in DOMAIN p[j].args : q[j].args[k] = Becomes(p[j].args[k])
             /\ q[j].args = <<>> <=> p[j].args = <<>>
  <2>1. p[j] = [op |-> p[j].op, args |-> p[j].args]
    BY DEF WellFormed
  <2>2. q[j] = [p[j] EXCEPT !.args = [k \in DOMAIN p[j].args |-> Becomes(p[j].args[k])]]
    BY DEF Replaced
  <2> DEFINE new == [k \in DOMAIN p[j].args |-> Becomes(p[j].args[k])]
  <2>3. q[j] = [op |-> p[j].op, args |-> new]
    BY <2>1, <2>2
  <2>4. q[j].op = p[j].op /\ q[j].args = new
    BY <2>3
  <2>5. new = <<>> <=> DOMAIN p[j].args = {}
    OBVIOUS
  <2>6. p[j].args = <<>> <=> DOMAIN p[j].args = {}
    <3>1. PICK n \in Nat : p[j].args = [k \in 1..n |-> p[j].args[k]]
      BY DEF Listed
    <3> QED
      BY <3>1
  <2> QED
    BY <2>4, <2>5, <2>6
<1> HIDE DEF p, q, r, s, Becomes
<1>5. ASSUME NEW k \in 0..N, k \in G, NEW x, Operand(r[k], x) # -1
      PROVE  Operand(s[k], Becomes(x)) = Operand(r[k], x)
  <2>0. Extends(r[k], s[k])
    BY <1>5
  <2>1. CASE x = Ref(i)
    <3>1. ~IsConst(x) /\ Operand(r[k], x) = r[k][i] /\ Becomes(x) = v
      BY <2>1 DEF Operand, IsConst, Ref, Becomes
    <3>2. k \in 1..N
      BY <1>1, <1>5, <3>1
    <3>3. Operand(r[k], v) = r[k][i]
      BY <1>3, <1>5, <3>1, <3>2
    <3>4. Operand(s[k], v) = Operand(r[k], v)
      BY <1>5, <2>0, <3>1, <3>3 DEF Operand, Extends, IsConst, Ref
    <3> QED
      BY <3>1, <3>3, <3>4
  <2>2. CASE x # Ref(i)
    BY <1>5, <2>0, <2>2 DEF Operand, Extends, IsConst, Ref, Becomes
  <2> QED
    BY <2>1, <2>2
<1>6. 0 \in G
  BY <1>1, FolderAssumption DEF Extends
<1>7. ASSUME NEW m \in 0..(N-1), m \in G PROVE m + 1 \in G
  <2>1. m \in 0..N /\ m + 1 \in 1..N /\ (m + 1) - 1 = m /\ m + 1 \in 0..N
    BY FolderAssumption
  <2>2. r[m+1] = Step(p, known, taken, r[m]) /\ s[m+1] = Step(q, known, taken, s[m])
    BY <1>1, <1>2, <2>1
  <2>3. ASSUME NEW j \in Inst, Step(p, known, taken, r[m])[j] # -1
        PROVE  Step(q, known, taken, s[m])[j] = Step(p, known, taken, r[m])[j]
    <3>1. /\ q[j].op = p[j].op
          /\ DOMAIN q[j].args = DOMAIN p[j].args
          /\ \A k \in DOMAIN p[j].args : q[j].args[k] = Becomes(p[j].args[k])
          /\ q[j].args = <<>> <=> p[j].args = <<>>
      BY <1>4
    <3>2. \A x : Operand(r[m], x) # -1 => Operand(s[m], Becomes(x)) = Operand(r[m], x)
      BY <1>5, <1>7, <2>1
    <3>3. CASE p[j].op = "load"
      BY <3>1, <3>3 DEF Step
    <3>4. CASE p[j].op = "phi"
      <4>1. p[j].args # <<>> /\ q[j].args # <<>>
        BY <2>3, <3>1, <3>4 DEF Step
      <4> DEFINE c == IF taken[j] \in DOMAIN p[j].args THEN taken[j] ELSE 1
      <4>2. c \in DOMAIN p[j].args
        <5>1. PICK n \in Nat : p[j].args = [k \in 1..n |-> p[j].args[k]]
          BY DEF Listed, p
        <5>2. DOMAIN p[j].args = 1..n /\ n # 0
          BY <4>1, <5>1
        <5> QED
          BY <5>2
      <4>3. Chosen(p[j], taken[j]) = p[j].args[c] /\ Chosen(q[j], taken[j]) = q[j].args[c]
        BY <3>1 DEF Chosen
      <4> HIDE DEF c
      <4>4. Step(p, known, taken, r[m])[j] = Operand(r[m], p[j].args[c])
        BY <3>4, <4>1, <4>3 DEF Step
      <4>5. Step(q, known, taken, s[m])[j] = Operand(s[m], q[j].args[c])
        BY <3>1, <3>4, <4>1, <4>3 DEF Step
      <4> QED
        BY <2>3, <3>1, <3>2, <4>2, <4>4, <4>5
    <3>5. CASE p[j].op \notin {"load", "phi"}
      <4> DEFINE a == p[j].args[1]
                 b == p[j].args[2]
                 c == q[j].args[1]
                 d == q[j].args[2]
      <4>1. Step(p, known, taken, r[m])[j] = Computed(p[j].op, Operand(r[m], a), Operand(r[m], b))
        BY <3>5 DEF Step
      <4>2. Step(q, known, taken, s[m])[j] = Computed(p[j].op, Operand(s[m], c), Operand(s[m], d))
        BY <3>1, <3>5 DEF Step
      <4>3. Operand(r[m], a) # -1 /\ Operand(r[m], b) # -1
        BY <2>3, <4>1 DEF Computed
      <4>4. c = Becomes(a) /\ d = Becomes(b)
        <5>1. Computes(j) /\ DOMAIN p[j].args = 1..2
          BY <3>5 DEF Listed, WellFormed, Computes, p
        <5> QED
          BY <3>1, <5>1
      <4>5. Operand(s[m], c) = Operand(r[m], a) /\ Operand(s[m], d) = Operand(r[m], b)
        BY <3>2, <4>3, <4>4
      <4> HIDE DEF a, b, c, d
      <4> QED
        BY <4>1, <4>2, <4>5
    <3> QED
      BY <3>3, <3>4, <3>5
  <2> QED
    BY <2>1, <2>2, <2>3 DEF Extends
<1>8. 0..N \subseteq G
  <2> HIDE DEF G
  <2> QED
    BY <1>6, <1>7, FolderAssumption, IntervalInduction
<1> QED
  BY <1>8 DEF p, q, r, s

(* Whatever loads give and however phis are entered, a value an            *)
(* instruction had in the source it has in the same round now.             *)
KeptSoFar ==
  \A known, taken : \A k \in 0..N :
    Extends(Rounds(source, known, taken)[k], Rounds(prog, known, taken)[k])

LEMMA ListedStays ==
  ASSUME NEW i, NEW v, DOMAIN prog = Inst, WellFormed, Listed(prog)
  PROVE  Listed(Replaced(i, v))
<1> DEFINE Becomes(x) == IF x = Ref(i) THEN v ELSE x
<1> SUFFICES ASSUME NEW j \in Inst
             PROVE  /\ Replaced(i, v)[j].op \in BinaryOps \cup ComparePreds \cup {"phi", "load"}
                    /\ \E n \in Nat : Replaced(i, v)[j].args = [k \in 1..n |-> Replaced(i, v)[j].args[k]]
  BY DEF Listed
<1> DEFINE new == [k \in DOMAIN prog[j].args |-> Becomes(prog[j].args[k])]
<1>1. prog[j] = [op |-> prog[j].op, args |-> prog[j].args]
  BY DEF WellFormed
<1>2. Replaced(i, v)[j] = [prog[j] EXCEPT !.args = new]
  BY DEF Replaced
<1>3. Replaced(i, v)[j] = [op |-> prog[j].op, args |-> new]
  BY <1>1, <1>2
<1>4. Replaced(i, v)[j].op = prog[j].op /\ Replaced(i, v)[j].args = new
  BY <1>3
<1>5. PICK n \in Nat : prog[j].args = [k \in 1..n |-> prog[j].args[k]]
  BY DEF Listed
<1>6. DOMAIN prog[j].args = 1..n
  BY <1>5
<1>7. new = [k \in 1..n |-> new[k]]
  BY <1>6
<1> HIDE DEF new
<1> QED
  BY <1>4, <1>7 DEF Listed

LEMMA KeptInit == Init => Listed(prog) /\ KeptSoFar
<1> SUFFICES ASSUME Init PROVE Listed(prog) /\ KeptSoFar
  OBVIOUS
<1>1. prog \in [Inst -> Instruction]
  BY FolderAssumption DEF Init
<1>2. ASSUME NEW I \in Instruction
      PROVE  /\ I.op \in BinaryOps \cup ComparePreds \cup {"phi", "load"}
             /\ \E n \in Nat : I.args = [k \in 1..n |-> I.args[k]]
  <2>1. CASE I \in [op : BinaryOps \cup ComparePreds, args : Value \X Value]
    <3>1. I.args \in Value \X Value /\ I.op \in BinaryOps \cup ComparePreds
      BY <2>1
    <3>2. I.args = [k \in 1..2 |-> I.args[k]]
      BY <3>1
    <3> QED
      BY <3>1, <3>2
  <2>2. CASE I \in [op : {"phi", "load"}, args : Seq(Value)]
    <3>1. I.args \in Seq(Value) /\ I.op \in {"phi", "load"}
      BY <2>2
    <3>2. Len(I.args) \in Nat /\ I.args \in [1..Len(I.args) -> Value]
      BY <3>1, LenProperties
    <3>3. I.args = [k \in 1..Len(I.args) |-> I.args[k]]
      BY <3>2
    <3> QED
      BY <3>1, <3>2, <3>3
  <2> QED
    BY <2>1, <2>2 DEF Instruction
<1>3. Listed(prog)
  BY <1>1, <1>2 DEF Listed
<1>4. KeptSoFar
  BY DEF Init, KeptSoFar, Extends
<1> QED
  BY <1>3, <1>4

LEMMA KeptStep == IInv /\ Listed(prog) /\ KeptSoFar /\ [Next]_vars => Listed(prog)' /\ KeptSoFar'
<1> SUFFICES ASSUME IInv, Listed(prog), KeptSoFar, [Next]_vars
             PROVE  Listed(prog') /\ KeptSoFar'
  BY DEF Listed
<1>1. CASE Fold
  <2> DEFINE i == Last(queue)
  <2>1. PICK v \in Folded(i) : v # Ref(i) /\ prog' = Replaced(i, v)
    BY <1>1 DEF Fold
  <2>2. Foldable(i) /\ source' = source /\ queue # <<>>
    BY <1>1 DEF Fold
  <2>3. i \in Inst
    BY <2>2, FrontAndLast DEF IInv
  <2> HIDE DEF i
  <2>4. Listed(prog')
    BY <2>1, ListedStays DEF IInv
  <2>5. ASSUME NEW known, NEW taken, NEW k \in 0..N
        PROVE  Extends(Rounds(source, known, taken)[k], Rounds(prog', known, taken)[k])
    <3>1. Extends(Rounds(prog, known, taken)[k], Rounds(Replaced(i, v), known, taken)[k])
      BY <2>1, <2>2, <2>3, ReplacedMeaning DEF IInv
    <3>2. Extends(Rounds(source, known, taken)[k], Rounds(prog, known, taken)[k])
      BY DEF KeptSoFar
    <3> QED
      BY <2>1, <3>1, <3>2 DEF Extends
  <2>6. KeptSoFar'
    BY <2>2, <2>5 DEF KeptSoFar, Extends
  <2> QED
    BY <2>4, <2>6
<1>2. CASE UNCHANGED <<source, prog>>
  BY <1>2 DEF KeptSoFar, Extends, Listed
<1> QED
  BY <1>1, <1>2 DEF Next, vars, Skip, ReplaceByItself, BeginRemoval, RemoveNext

-----------------------------------------------------------------------------
LEMMA StepInv == IInv /\ [Next]_vars => IInv'
BY SkipInv, FoldInv, RemovalInv, IdleInv DEF Next

(* The invariant of the work queue and the removal list is kept by every   *)
(* step of ConstantFolder::run_on (ConstantFolder.cc:46-140).              *)
THEOREM FolderInvariant == Spec => []IInv
<1> QED
  BY InitInv, StepInv, PTL DEF Spec

(* When the work queue is empty, no binary or compare of constants and no  *)
(* phi of one value is left: queueing the users of what is folded reaches  *)
(* everything the initial scan does not (ConstantFolder.cc:47-78).         *)
THEOREM NothingIsMissed == Spec => []NothingMissed
<1>1. IInv => NothingMissed
  BY DEF IInv
<1> QED
  BY <1>1, FolderInvariant, PTL

(* Whatever is on remove_list has no users, so the assertion of            *)
(* BasicBlock::remove on them cannot fail (ConstantFolder.cc:85, 138-140). *)
THEOREM RemovedAreUnused == Spec => []RemovedUnused
<1>1. IInv => RemovedUnused
  BY DEF IInv
<1> QED
  BY <1>1, FolderInvariant, PTL

(* Without phis, with definitions laid out before uses and no instruction  *)
(* of two others, the pass removes every instruction once: an instruction  *)
(* is queued again only by its one operand, after its own first turn, and  *)
(* can be folded only then (ConstantFolder.cc:47-78, 138-140).             *)
THEOREM StraightAreRemovedOnce == Spec => []StraightRemovedOnce
<1>1. Init => IInv /\ OnceInv
  BY InitInv, OnceInit
<1>2. IInv /\ OnceInv /\ [Next]_vars => IInv' /\ OnceInv'
  BY StepInv, OnceSkip, OnceFold, OnceRemoval, OnceIdle DEF Next
<1>3. OnceInv => StraightRemovedOnce
  BY DEF OnceInv, StraightRemovedOnce
<1> QED
  BY <1>1, <1>2, <1>3, PTL DEF Spec

(* After the pass no instruction, folded or not, computes another word     *)
(* than in the source: what replaces an instruction has the value it had,  *)
(* for any words, any number of rounds of folding, and cycles of phis      *)
(* (ConstantFolder.cc:14-44, 56-98).                                       *)
THEOREM ValuesAreKept == Spec => []ValuesKept
<1>1. Init => IInv /\ Listed(prog) /\ KeptSoFar
  BY InitInv, KeptInit
<1>2. IInv /\ Listed(prog) /\ KeptSoFar /\ [Next]_vars => IInv' /\ Listed(prog)' /\ KeptSoFar'
  BY StepInv, KeptStep
<1>3. KeptSoFar => ValuesKept
  <2> SUFFICES ASSUME KeptSoFar, NEW known, NEW taken, NEW i \in Inst,
                      Meaning(source, known, taken)[i] # -1
               PROVE  Meaning(prog, known, taken)[i] = Meaning(source, known, taken)[i]
    BY DEF ValuesKept
  <2>1. N \in 0..N
    BY FolderAssumption
  <2>2. Extends(Rounds(source, known, taken)[N], Rounds(prog, known, taken)[N])
    BY <2>1 DEF KeptSoFar
  <2> QED
    BY <2>2 DEF Extends, Meaning
<1> QED
  BY <1>1, <1>2, <1>3, PTL DEF Spec
=============================================================================
