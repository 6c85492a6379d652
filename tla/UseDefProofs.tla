---------------------------- MODULE UseDefProofs ----------------------------
(***************************************************************************)
(* The user lists of UseDef are exact, and so the entry-by-entry           *)
(* bookkeeping implements ValueGraph, for any finite number of blocks and  *)
(* any sets of instructions and globals.                                   *)
(***************************************************************************)
EXTENDS UseDef, FiniteSetTheorems, TLAPS

(* Inside replace_all_uses_with, an instruction the loop has not reached   *)
(* is still exact; one it has reached no longer uses the replaced value,   *)
(* and the entries it will yet gain in the replacement's list are the ones *)
(* still pending.                                                          *)
Unreached(i) == pending[i] = users[orig][i]

ReachedOK(i) ==
  /\ pending[i] < users[orig][i]
  /\ UseCount(oper[i], orig) = 0
  /\ users[repl][i] + pending[i] = UseCount(oper[i], repl)
  /\ \A v \in Value \ {orig, repl} : users[v][i] = UseCount(oper[i], v)

ExactFor(i) == \A v \in Value : users[v][i] = UseCount(oper[i], v)

LoopOK ==
  /\ orig # repl
  /\ \A i \in Inst : (Unreached(i) /\ ExactFor(i)) \/ ReachedOK(i)

IInv ==
  /\ TypeOK
  /\ NoDangling
  /\ \A i \in Inst \ live : oper[i] = NoOperands
  /\ IF Idle THEN \A i \in Inst : ExactFor(i) ELSE LoopOK

-----------------------------------------------------------------------------
(* The slots of an operand list that use a value are finitely many, so     *)
(* their number is a natural number.                                       *)
LEMMA SlotFinite == IsFiniteSet(Slot)
<1>1. IsFiniteSet(({1} \cup {2}) \cup {3})
  BY FS_Singleton, FS_Union
<1>2. 1..3 = ({1} \cup {2}) \cup {3}
  OBVIOUS
<1> QED
  BY <1>1, <1>2, FS_Union, ValuesAssumption DEF Slot

LEMMA SlotsUsingFinite ==
  ASSUME NEW f, NEW v
  PROVE  IsFiniteSet(SlotsUsing(f, v)) /\ UseCount(f, v) \in Nat
<1>1. SlotsUsing(f, v) \subseteq Slot
  BY DEF SlotsUsing
<1>2. IsFiniteSet(SlotsUsing(f, v))
  BY <1>1, SlotFinite, FS_Subset
<1> QED
  BY <1>2, FS_CardinalityType DEF UseCount

(* No entry is held in v's list exactly when no slot uses v.               *)
LEMMA UseCountZero ==
  ASSUME NEW f, NEW v
  PROVE  UseCount(f, v) = 0 <=> SlotsUsing(f, v) = {}
BY SlotsUsingFinite, FS_EmptySet DEF UseCount

LEMMA NoOperandsUseNothing ==
  ASSUME NEW v \in Value
  PROVE  UseCount(NoOperands, v) = 0
<1>1. SlotsUsing(NoOperands, v) = {}
  BY ValuesAssumption DEF SlotsUsing, NoOperands
<1> QED
  BY <1>1, UseCountZero

(* The operand lists the constructors build hold live values, blocks and   *)
(* Nil.                                                                    *)
LEMMA OperandListsType ==
  ASSUME NEW V \in SUBSET Value, NEW f \in OperandLists(V)
  PROVE  f \in [Slot -> V \cup Block \cup {Nil}] /\ f \in Operands
BY DEF OperandLists, Operands3, NoOperands, Operands, Value

(* Setting the empty slot b of a phi adds one use of b and one of v.       *)
LEMMA SetSlotCount ==
  ASSUME NEW f \in Operands, NEW b \in Block, NEW v \in Leaf, f[b] = Nil,
         NEW x \in Value
  PROVE  UseCount([f EXCEPT ![b] = v], x)
           = UseCount(f, x) + (IF x \in {b, v} THEN 1 ELSE 0)
<1> DEFINE g == [f EXCEPT ![b] = v]
<1>1. b \in Slot /\ v # Nil /\ v # b /\ v \in Value /\ b \in Value /\ Nil \notin Value
  BY ValuesAssumption DEF Slot, Leaf, Value
<1>2. CASE x \in {b, v}
  <2>1. b \notin SlotsUsing(f, x)
    BY <1>1, <1>2 DEF SlotsUsing
  <2>2. SlotsUsing(g, x) = SlotsUsing(f, x) \cup {b}
    BY <1>1, <1>2 DEF SlotsUsing, Operands
  <2> QED
    BY <1>2, <2>1, <2>2, SlotsUsingFinite, FS_AddElement DEF UseCount
<1>3. CASE x \notin {b, v}
  <2>1. SlotsUsing(g, x) = SlotsUsing(f, x)
    BY <1>1, <1>3 DEF SlotsUsing, Operands
  <2> QED
    BY <1>3, <2>1, SlotsUsingFinite DEF UseCount
<1> QED
  BY <1>2, <1>3

(* Clearing the slot b of a phi takes away one use of b and one of the     *)
(* value it held.                                                          *)
LEMMA ClearSlotCount ==
  ASSUME NEW f \in Operands, NEW b \in Block, f[b] # Nil, NEW x \in Value
  PROVE  UseCount([f EXCEPT ![b] = Nil], x)
           = Monus(UseCount(f, x), IF x \in {b, f[b]} THEN 1 ELSE 0)
<1> DEFINE g == [f EXCEPT ![b] = Nil]
<1>1. b \in Slot /\ Nil \notin Value
  BY ValuesAssumption DEF Slot
<1>2. CASE x \in {b, f[b]}
  <2>1. b \in SlotsUsing(f, x)
    BY <1>1, <1>2 DEF SlotsUsing
  <2>2. SlotsUsing(g, x) = SlotsUsing(f, x) \ {b}
    BY <1>1, <1>2 DEF SlotsUsing, Operands
  <2>3. UseCount(g, x) = UseCount(f, x) - 1 /\ UseCount(g, x) \in Nat
    BY <2>1, <2>2, SlotsUsingFinite, FS_RemoveElement DEF UseCount
  <2> QED
    BY <1>2, <2>3, SlotsUsingFinite DEF Monus
<1>3. CASE x \notin {b, f[b]}
  <2>1. SlotsUsing(g, x) = SlotsUsing(f, x)
    BY <1>1, <1>3 DEF SlotsUsing, Operands
  <2>2. UseCount(g, x) = UseCount(f, x) /\ UseCount(f, x) \in Nat
    BY <2>1, SlotsUsingFinite DEF UseCount
  <2> QED
    BY <1>3, <2>2 DEF Monus
<1> QED
  BY <1>2, <1>3

(* Substituting w for v leaves no use of v, moves its uses to w and leaves *)
(* every other value's uses alone.                                         *)
LEMMA SubstitutedCount ==
  ASSUME NEW f \in Operands, NEW v \in Leaf, NEW w \in Leaf, v # w
  PROVE  /\ Substituted(f, v, w) \in Operands
         /\ SlotsUsing(Substituted(f, v, w), v) = {}
         /\ UseCount(Substituted(f, v, w), v) = 0
         /\ UseCount(Substituted(f, v, w), w) = UseCount(f, w) + UseCount(f, v)
         /\ \A x \in Value \ {v, w} :
              UseCount(Substituted(f, v, w), x) = UseCount(f, x)
<1> DEFINE g == Substituted(f, v, w)
<1>1. v \in Value /\ w \in Value /\ Nil \notin Value /\ Slot \cap Leaf = {}
  BY ValuesAssumption DEF Leaf, Value, Slot
<1>2. g \in Operands
  BY <1>1 DEF Substituted, Operands
<1>3. SlotsUsing(g, v) = {}
  BY <1>1 DEF Substituted, SlotsUsing
<1>4. UseCount(g, v) = 0
  BY <1>3, UseCountZero
<1>5. UseCount(g, w) = UseCount(f, w) + UseCount(f, v)
  <2>1. SlotsUsing(g, w) = SlotsUsing(f, w) \cup SlotsUsing(f, v)
    BY <1>1 DEF Substituted, SlotsUsing
  <2>2. SlotsUsing(f, w) \cap SlotsUsing(f, v) = {}
    BY <1>1 DEF SlotsUsing
  <2> QED
    BY <2>1, <2>2, SlotsUsingFinite, FS_Union, FS_EmptySet DEF UseCount
<1>6. ASSUME NEW x \in Value \ {v, w} PROVE UseCount(g, x) = UseCount(f, x)
  <2>1. SlotsUsing(g, x) = SlotsUsing(f, x)
    BY <1>1 DEF Substituted, SlotsUsing
  <2> QED
    BY <2>1 DEF UseCount
<1> QED
  BY <1>2, <1>3, <1>4, <1>5, <1>6

(* Substituting in an operand list that does not use the value changes     *)
(* nothing.                                                                *)
LEMMA SubstitutedUnused ==
  ASSUME NEW f \in Operands, NEW v, NEW w, SlotsUsing(f, v) = {}
  PROVE  Substituted(f, v, w) = f
BY DEF Substituted, SlotsUsing, Operands

(* Entries are added to and taken from the lists of one user only.         *)
LEMMA AddUserEffect ==
  ASSUME users \in [Value -> [Inst -> Nat]], NEW i \in Inst, NEW n \in [Value -> Nat]
  PROVE  /\ AddUser(i, n) \in [Value -> [Inst -> Nat]]
         /\ \A v \in Value : AddUser(i, n)[v][i] = users[v][i] + n[v]
         /\ \A v \in Value, j \in Inst \ {i} : AddUser(i, n)[v][j] = users[v][j]
<1>1. \A v \in Value : [users[v] EXCEPT ![i] = @ + n[v]] \in [Inst -> Nat]
  OBVIOUS
<1> QED
  BY <1>1 DEF AddUser

LEMMA RemoveUserEffect ==
  ASSUME users \in [Value -> [Inst -> Nat]], NEW i \in Inst, NEW n \in [Value -> Nat]
  PROVE  /\ RemoveUser(i, n) \in [Value -> [Inst -> Nat]]
         /\ \A v \in Value : RemoveUser(i, n)[v][i] = Monus(users[v][i], n[v])
         /\ \A v \in Value, j \in Inst \ {i} : RemoveUser(i, n)[v][j] = users[v][j]
<1>1. \A v \in Value : [users[v] EXCEPT ![i] = Monus(@, n[v])] \in [Inst -> Nat]
  BY DEF Monus
<1> QED
  BY <1>1 DEF RemoveUser

(* The counts the operations add and remove are natural numbers.           *)
LEMMA CountsType ==
  /\ \A f : EntriesOf(f) \in [Value -> Nat]
  /\ \A S : OneEntryIn(S) \in [Value -> Nat]
BY SlotsUsingFinite DEF EntriesOf, OneEntryIn

-----------------------------------------------------------------------------
(* What the operations on one instruction outside a replacement have in    *)
(* common: it gets operand list g, its entries become the ones g calls     *)
(* for, and nobody else's change.                                          *)
LEMMA OneInstructionPreserves ==
  ASSUME IInv, Idle, NEW i \in Inst, NEW g \in Operands,
         live' = live \cup {i},
         oper' = [oper EXCEPT ![i] = g],
         \A s \in Slot : g[s] \in live' \cup Block \cup {Nil},
         users' \in [Value -> [Inst -> Nat]],
         \A v \in Value : users'[v][i] = UseCount(g, v),
         \A v \in Value, j \in Inst \ {i} : users'[v][j] = users[v][j],
         UNCHANGED <<orig, repl, pending>>
  PROVE  IInv'
<1>1. live' \subseteq Leaf /\ oper \in [Inst -> Operands] /\ oper' \in [Inst -> Operands]
  BY DEF IInv, TypeOK, Leaf
<1>2. oper'[i] = g /\ \A j \in Inst \ {i} : oper'[j] = oper[j]
  BY <1>1
<1>3. TypeOK'
  BY <1>1 DEF IInv, TypeOK
<1>4. NoDangling'
  <2>1. \A j \in Inst \cap live', s \in Slot : oper'[j][s] \in live' \cup Block \cup {Nil}
    BY <1>2 DEF IInv, NoDangling
  <2>2. \A v \in Value, j \in Inst \ live' : users'[v][j] = 0
    BY DEF IInv, NoDangling
  <2>3. Idle'
    BY DEF Idle
  <2> QED
    BY <2>1, <2>2, <2>3 DEF NoDangling
<1>5. \A j \in Inst \ live' : oper'[j] = NoOperands
  BY <1>2 DEF IInv
<1>6. ASSUME NEW j \in Inst PROVE ExactFor(j)'
  <2>1. CASE j = i
    BY <1>2, <2>1 DEF ExactFor
  <2>2. CASE j # i
    BY <1>2, <2>2 DEF ExactFor, IInv
  <2> QED
    BY <2>1, <2>2
<1> QED
  BY <1>3, <1>4, <1>5, <1>6 DEF IInv, Idle

(* The constructors keep the invariant: the new instruction uses live      *)
(* values only and is registered once per use.                             *)
LEMMA ConstructPreserves ==
  ASSUME IInv, NEW i \in Plain, Construct(i)
  PROVE  IInv'
<1>1. PICK f \in OperandLists(live) :
        /\ oper' = [oper EXCEPT ![i] = f]
        /\ users' = AddUser(i, EntriesOf(f))
  BY DEF Construct
<1>2. /\ Idle /\ i \in Inst /\ i \notin live /\ live' = live \cup {i}
      /\ live \subseteq Value /\ users \in [Value -> [Inst -> Nat]]
      /\ \A v \in Value : users[v][i] = 0
      /\ UNCHANGED <<orig, repl, pending>>
  BY DEF Construct, IInv, TypeOK, NoDangling, Inst, Leaf, Value
<1>3. f \in [Slot -> live \cup Block \cup {Nil}] /\ f \in Operands
  BY <1>2, OperandListsType
<1>4. /\ users' \in [Value -> [Inst -> Nat]]
      /\ \A v \in Value : users'[v][i] = users[v][i] + EntriesOf(f)[v]
      /\ \A v \in Value, j \in Inst \ {i} : users'[v][j] = users[v][j]
  BY <1>1, <1>2, CountsType, AddUserEffect
<1>5. \A v \in Value : users'[v][i] = UseCount(f, v)
  BY <1>2, <1>4, SlotsUsingFinite DEF EntriesOf
<1>6. \A s \in Slot : f[s] \in live' \cup Block \cup {Nil}
  BY <1>2, <1>3
<1> QED
  BY <1>1, <1>2, <1>3, <1>4, <1>5, <1>6, OneInstructionPreserves

(* A phi starts without incoming values, a global has no operands.         *)
LEMMA CreateEmptyPreserves ==
  ASSUME IInv, NEW x, (x \in Phi /\ ConstructPhi(x)) \/ (x \in Global /\ AddGlobal(x))
  PROVE  IInv'
<1>1. x \in Leaf /\ x \notin live /\ live' = live \cup {x}
      /\ UNCHANGED <<oper, users, orig, repl, pending>> /\ orig = Nil
  BY DEF Leaf, Inst, ConstructPhi, AddGlobal, Idle
<1>2. TypeOK'
  BY <1>1 DEF IInv, TypeOK
<1>3. NoDangling'
  <2>1. ASSUME NEW j \in Inst \cap live', NEW s \in Slot
        PROVE  oper'[j][s] \in live' \cup Block \cup {Nil}
    <3>1. CASE j \in live
      BY <3>1, <1>1 DEF IInv, NoDangling
    <3>2. CASE j \notin live
      BY <3>2, <1>1 DEF IInv, NoOperands
    <3> QED
      BY <3>1, <3>2
  <2> QED
    BY <1>1, <2>1 DEF IInv, NoDangling, Idle
<1> QED
  BY <1>1, <1>2, <1>3 DEF IInv, ExactFor, Idle

(* add_incoming registers the phi with the block and with the value.       *)
LEMMA AddIncomingPreserves ==
  ASSUME IInv, NEW i \in Phi, NEW b \in Block, NEW v \in Leaf, AddIncoming(i, b, v)
  PROVE  IInv'
<1> DEFINE g == [oper[i] EXCEPT ![b] = v]
<1> DEFINE one == OneEntryIn({b, v})
<1>1. /\ Idle /\ i \in Inst /\ live' = live \cup {i} /\ v \in live /\ b \in Slot
      /\ oper[i] \in Operands /\ oper[i][b] = Nil /\ v \in Value
      /\ users \in [Value -> [Inst -> Nat]]
      /\ oper' = [oper EXCEPT ![i] = g]
      /\ users' = AddUser(i, one)
      /\ UNCHANGED <<orig, repl, pending>>
  BY DEF AddIncoming, IInv, TypeOK, Inst, Leaf, Value, Slot
<1>2. g \in Operands
  BY <1>1 DEF Operands
<1>3. /\ users' \in [Value -> [Inst -> Nat]]
      /\ \A x \in Value : users'[x][i] = users[x][i] + one[x]
      /\ \A x \in Value, j \in Inst \ {i} : users'[x][j] = users[x][j]
  <2>1. one \in [Value -> Nat]
    BY CountsType
  <2> HIDE DEF one, g
  <2> QED
    BY <1>1, <2>1, AddUserEffect
<1>4. ASSUME NEW x \in Value PROVE users'[x][i] = UseCount(g, x)
  <2>1. UseCount(g, x) = UseCount(oper[i], x) + (IF x \in {b, v} THEN 1 ELSE 0)
    BY <1>1, SetSlotCount
  <2> QED
    BY <1>1, <1>3, <2>1 DEF IInv, ExactFor, OneEntryIn
<1>5. ASSUME NEW s \in Slot PROVE g[s] \in live' \cup Block \cup {Nil}
  <2>1. oper[i][s] \in live \cup Block \cup {Nil}
    BY <1>1 DEF AddIncoming, IInv, NoDangling
  <2>2. g[s] = v \/ g[s] = oper[i][s]
    BY <1>1 DEF Operands
  <2> QED
    BY <1>1, <2>1, <2>2
<1> HIDE DEF g, one
<1> QED
  BY <1>1, <1>2, <1>3, <1>4, <1>5, OneInstructionPreserves

(* remove_incoming takes the phi off the block's and the value's lists.    *)
LEMMA RemoveIncomingPreserves ==
  ASSUME IInv, NEW i \in Phi, NEW b \in Block, RemoveIncoming(i, b)
  PROVE  IInv'
<1> DEFINE g == [oper[i] EXCEPT ![b] = Nil]
<1> DEFINE one == OneEntryIn({b, oper[i][b]})
<1>1. /\ Idle /\ i \in Inst /\ live' = live \cup {i} /\ b \in Slot
      /\ oper[i] \in Operands /\ oper[i][b] # Nil
      /\ users \in [Value -> [Inst -> Nat]]
      /\ oper' = [oper EXCEPT ![i] = g]
      /\ users' = RemoveUser(i, one)
      /\ UNCHANGED <<orig, repl, pending>>
  BY DEF RemoveIncoming, IInv, TypeOK, Inst, Slot
<1>2. g \in Operands
  BY <1>1 DEF Operands
<1>3. /\ users' \in [Value -> [Inst -> Nat]]
      /\ \A x \in Value : users'[x][i] = Monus(users[x][i], one[x])
      /\ \A x \in Value, j \in Inst \ {i} : users'[x][j] = users[x][j]
  <2>1. one \in [Value -> Nat]
    BY CountsType
  <2> HIDE DEF one, g
  <2> QED
    BY <1>1, <2>1, RemoveUserEffect
<1>4. ASSUME NEW x \in Value PROVE users'[x][i] = UseCount(g, x)
  <2>1. UseCount(g, x)
          = Monus(UseCount(oper[i], x), IF x \in {b, oper[i][b]} THEN 1 ELSE 0)
    BY <1>1, ClearSlotCount
  <2> QED
    BY <1>1, <1>3, <2>1 DEF IInv, ExactFor, OneEntryIn
<1>5. ASSUME NEW s \in Slot PROVE g[s] \in live' \cup Block \cup {Nil}
  <2>1. oper[i][s] \in live \cup Block \cup {Nil}
    BY <1>1 DEF RemoveIncoming, IInv, NoDangling
  <2>2. g[s] = Nil \/ g[s] = oper[i][s]
    BY <1>1 DEF Operands
  <2> QED
    BY <1>1, <2>1, <2>2
<1> HIDE DEF g, one
<1> QED
  BY <1>1, <1>2, <1>3, <1>4, <1>5, OneInstructionPreserves

-----------------------------------------------------------------------------
(* A value nothing has an entry for in its list is nobody's operand.       *)
LEMMA NoUsersMeansUnused ==
  ASSUME IInv, Idle, NEW x \in Value, HasNoUsers(x), NEW i \in Inst
  PROVE  SlotsUsing(oper[i], x) = {}
<1>1. users[x][i] = 0
  BY DEF HasNoUsers, NoUsers
<1>2. UseCount(oper[i], x) = 0
  BY <1>1 DEF IInv, ExactFor
<1> QED
  BY <1>2, UseCountZero

(* Removing an instruction without users leaves no operand and no entry    *)
(* that refers to it.                                                      *)
LEMMA DestroyPreserves ==
  ASSUME IInv, NEW i \in Inst, Destroy(i)
  PROVE  IInv'
<1> DEFINE n == EntriesOf(oper[i])
<1>1. /\ Idle /\ i \in live /\ HasNoUsers(i) /\ live' = live \ {i}
      /\ oper \in [Inst -> Operands] /\ i \in Value /\ live \subseteq Leaf
      /\ users \in [Value -> [Inst -> Nat]]
      /\ oper' = [oper EXCEPT ![i] = NoOperands]
      /\ users' = [RemoveUser(i, n) EXCEPT ![i] = NoUsers]
      /\ UNCHANGED <<orig, repl, pending>>
  BY DEF Destroy, IInv, TypeOK, Value, Unregistered
<1>2. /\ RemoveUser(i, n) \in [Value -> [Inst -> Nat]]
      /\ \A v \in Value : RemoveUser(i, n)[v][i] = Monus(users[v][i], n[v])
      /\ \A v \in Value, j \in Inst \ {i} : RemoveUser(i, n)[v][j] = users[v][j]
  <2>1. n \in [Value -> Nat]
    BY CountsType
  <2> HIDE DEF n
  <2> QED
    BY <1>1, <2>1, RemoveUserEffect
<1>3. NoUsers \in [Inst -> Nat] /\ \A j \in Inst : NoUsers[j] = 0
  BY DEF NoUsers
<1>4. \A v \in Value : RemoveUser(i, n)[v][i] = 0
  BY <1>1, <1>2, SlotsUsingFinite DEF IInv, ExactFor, EntriesOf, Monus
<1>5. /\ users' \in [Value -> [Inst -> Nat]]
      /\ \A v \in Value : users'[v][i] = 0
      /\ \A v \in Value \ {i}, j \in Inst \ {i} : users'[v][j] = users[v][j]
      /\ \A j \in Inst : users'[i][j] = 0
  <2> HIDE DEF n
  <2> QED
    BY <1>1, <1>2, <1>3, <1>4
<1>6. /\ oper' \in [Inst -> Operands]
      /\ oper'[i] = NoOperands
      /\ \A j \in Inst \ {i} : oper'[j] = oper[j]
  BY <1>1 DEF Operands, NoOperands
<1>7. TypeOK'
  BY <1>1, <1>5, <1>6 DEF IInv, TypeOK
<1>8. NoDangling'
  <2>1. ASSUME NEW j \in Inst \cap live', NEW s \in Slot
        PROVE  oper'[j][s] \in live' \cup Block \cup {Nil}
    <3>1. SlotsUsing(oper[j], i) = {}
      BY <1>1, NoUsersMeansUnused
    <3>2. oper[j][s] # i
      BY <3>1 DEF SlotsUsing
    <3> QED
      BY <1>1, <1>6, <3>2 DEF IInv, NoDangling
  <2>2. \A v \in Value, j \in Inst \ live' : users'[v][j] = 0
    BY <1>1, <1>5 DEF IInv, NoDangling
  <2> QED
    BY <1>1, <2>1, <2>2 DEF NoDangling, Idle
<1>9. \A j \in Inst \ live' : oper'[j] = NoOperands
  BY <1>1, <1>6 DEF IInv
<1>10. ASSUME NEW j \in Inst, NEW v \in Value
       PROVE  users'[v][j] = UseCount(oper'[j], v)
  <2>1. CASE j = i
    BY <2>1, <1>5, <1>6, NoOperandsUseNothing
  <2>2. CASE j # i /\ v = i
    BY <2>2, <1>1, <1>5, <1>6, NoUsersMeansUnused, UseCountZero
  <2>3. CASE j # i /\ v # i
    BY <2>3, <1>1, <1>5, <1>6 DEF IInv, ExactFor
  <2> QED
    BY <2>1, <2>2, <2>3
<1> QED
  BY <1>1, <1>7, <1>8, <1>9, <1>10 DEF IInv, ExactFor, Idle

(* remove_global asserts that nothing uses the global.                     *)
LEMMA RemoveGlobalPreserves ==
  ASSUME IInv, NEW g \in Global, RemoveGlobal(g)
  PROVE  IInv'
<1>1. /\ Idle /\ HasNoUsers(g) /\ live' = live \ {g} /\ g \in Value /\ g \notin Inst
      /\ users \in [Value -> [Inst -> Nat]] /\ users' = [users EXCEPT ![g] = NoUsers]
      /\ UNCHANGED <<oper, orig, repl, pending>>
  BY ValuesAssumption DEF RemoveGlobal, IInv, TypeOK, Value
<1>2. users' = users
  BY <1>1 DEF HasNoUsers
<1>3. TypeOK'
  BY <1>1, <1>2 DEF IInv, TypeOK
<1>4. NoDangling'
  <2>1. ASSUME NEW j \in Inst \cap live', NEW s \in Slot
        PROVE  oper'[j][s] \in live' \cup Block \cup {Nil}
    <3>1. SlotsUsing(oper[j], g) = {}
      BY <1>1, NoUsersMeansUnused
    <3>2. oper[j][s] # g
      BY <3>1 DEF SlotsUsing
    <3> QED
      BY <1>1, <3>2 DEF IInv, NoDangling
  <2> QED
    BY <1>1, <1>2, <2>1 DEF IInv, NoDangling, Idle
<1> QED
  BY <1>1, <1>2, <1>3, <1>4 DEF IInv, ExactFor, Idle

(* When the loop starts nobody has been reached.                           *)
LEMMA StartReplacePreserves ==
  ASSUME IInv, NEW v \in Leaf, NEW w \in Leaf, StartReplace(v, w)
  PROVE  IInv'
<1>1. /\ Idle /\ v \in live /\ w \in live /\ v # w /\ v \in Value /\ v # Nil
      /\ orig' = v /\ repl' = w /\ pending' = users[v]
      /\ UNCHANGED <<live, oper, users>>
  BY ValuesAssumption DEF StartReplace, Leaf, Value
<1>2. TypeOK'
  BY <1>1 DEF IInv, TypeOK
<1>3. NoDangling'
  BY <1>1 DEF IInv, NoDangling
<1>4. LoopOK'
  BY <1>1 DEF IInv, LoopOK, Unreached, ExactFor
<1> QED
  BY <1>1, <1>2, <1>3, <1>4 DEF IInv, Idle

(* One turn of the loop: i becomes or stays reached.                       *)
LEMMA ReplaceUsePreserves ==
  ASSUME IInv, NEW i \in Inst, ReplaceUse(i)
  PROVE  IInv'
<1> DEFINE g == Substituted(oper[i], orig, repl)
<1>1. /\ ~Idle /\ pending[i] > 0 /\ orig # repl /\ orig \in live /\ repl \in live
      /\ orig \in Leaf /\ repl \in Leaf /\ orig \in Value /\ repl \in Value
      /\ oper \in [Inst -> Operands] /\ users \in [Value -> [Inst -> Nat]]
      /\ pending \in [Inst -> Nat]
      /\ oper' = [oper EXCEPT ![i] = g]
      /\ users' = [users EXCEPT ![repl][i] = @ + 1]
      /\ pending' = [pending EXCEPT ![i] = @ - 1]
      /\ UNCHANGED <<live, orig, repl>>
  BY DEF ReplaceUse, HasEntryLeft, Visit, IInv, TypeOK, NoDangling, LoopOK, Idle, Leaf, Value
<1>2. /\ g \in Operands
      /\ UseCount(g, orig) = 0
      /\ UseCount(g, repl) = UseCount(oper[i], repl) + UseCount(oper[i], orig)
      /\ \A x \in Value \ {orig, repl} : UseCount(g, x) = UseCount(oper[i], x)
  BY <1>1, SubstitutedCount
<1>3. oper'[i] = g /\ \A j \in Inst \ {i} : oper'[j] = oper[j]
  BY <1>1
<1>4. /\ users' \in [Value -> [Inst -> Nat]]
      /\ users'[repl][i] = users[repl][i] + 1
      /\ \A v \in Value, j \in Inst : v # repl \/ j # i => users'[v][j] = users[v][j]
  <2> HIDE DEF g
  <2>1. [users[repl] EXCEPT ![i] = @ + 1] \in [Inst -> Nat]
    BY <1>1
  <2> QED
    BY <1>1, <2>1
<1>5. /\ pending' \in [Inst -> Nat]
      /\ pending'[i] = pending[i] - 1
      /\ \A j \in Inst \ {i} : pending'[j] = pending[j]
  <2> HIDE DEF g
  <2> QED
    BY <1>1
<1>6. TypeOK'
  BY <1>1, <1>2, <1>4, <1>5 DEF IInv, TypeOK
<1>7. i \in live
  BY <1>1 DEF IInv, LoopOK, Unreached, ReachedOK, NoDangling
<1>8. NoDangling'
  <2>1. ASSUME NEW j \in Inst \cap live', NEW s \in Slot
        PROVE  oper'[j][s] \in live' \cup Block \cup {Nil}
    <3>1. oper[j][s] \in live \cup Block \cup {Nil}
      BY <1>1 DEF IInv, NoDangling
    <3>2. CASE j = i
      BY <3>1, <3>2, <1>1, <1>3 DEF Substituted
    <3>3. CASE j # i
      BY <3>1, <3>3, <1>1, <1>3
    <3> QED
      BY <3>2, <3>3
  <2>2. \A v \in Value, j \in Inst \ live' : users'[v][j] = 0
    BY <1>1, <1>4, <1>7 DEF IInv, NoDangling
  <2> QED
    BY <1>1, <2>1, <2>2 DEF NoDangling, Idle
<1>9. \A j \in Inst \ live' : oper'[j] = NoOperands
  BY <1>1, <1>3, <1>7 DEF IInv
<1>10. ReachedOK(i)'
  <2>1. /\ \A x : UseCount(oper[i], x) \in Nat
        /\ users[orig][i] \in Nat /\ users[repl][i] \in Nat /\ pending[i] \in Nat
    BY <1>1, SlotsUsingFinite
  <2>2. users'[orig][i] = users[orig][i]
    BY <1>1, <1>4
  <2>3. CASE Unreached(i) /\ ExactFor(i)
    <3>1. /\ pending[i] = UseCount(oper[i], orig)
          /\ users[repl][i] = UseCount(oper[i], repl)
          /\ pending[i] = users[orig][i]
          /\ \A x \in Value \ {orig, repl} : users[x][i] = UseCount(oper[i], x)
      BY <1>1, <2>3 DEF Unreached, ExactFor
    <3> HIDE DEF g
    <3> QED
      BY <1>1, <1>2, <1>3, <1>4, <1>5, <2>1, <2>2, <3>1, SMTT(20) DEF ReachedOK
  <2>4. CASE ReachedOK(i)
    <3>1. /\ pending[i] < users[orig][i]
          /\ UseCount(oper[i], orig) = 0
          /\ users[repl][i] + pending[i] = UseCount(oper[i], repl)
          /\ \A x \in Value \ {orig, repl} : users[x][i] = UseCount(oper[i], x)
      BY <2>4 DEF ReachedOK
    <3> HIDE DEF g
    <3>2. pending'[i] < users'[orig][i] /\ UseCount(oper'[i], orig) = 0
      BY <1>2, <1>3, <1>5, <2>1, <2>2, <3>1
    <3>3. users'[repl][i] + pending'[i] = UseCount(oper'[i], repl)
      <4>1. UseCount(oper'[i], repl) = UseCount(oper[i], repl) + 0
        BY <1>2, <1>3, <3>1
      <4>2. /\ users'[repl][i] = users[repl][i] + 1
            /\ pending'[i] = pending[i] - 1
        BY <1>4, <1>5
      <4> QED
        BY <4>1, <4>2, <2>1, <3>1
    <3>4. \A x \in Value \ {orig, repl} : users'[x][i] = UseCount(oper'[i], x)
      BY <1>2, <1>3, <1>4, <3>1
    <3> QED
      BY <1>1, <3>2, <3>3, <3>4 DEF ReachedOK
  <2> QED
    BY <1>1, <2>3, <2>4 DEF IInv, LoopOK
<1>11. ASSUME NEW j \in Inst \ {i}
       PROVE  ((Unreached(j) /\ ExactFor(j)) \/ ReachedOK(j))'
  <2>1. (Unreached(j) /\ ExactFor(j)) \/ ReachedOK(j)
    BY <1>1 DEF IInv, LoopOK
  <2>2. /\ oper'[j] = oper[j] /\ pending'[j] = pending[j]
        /\ \A v \in Value : users'[v][j] = users[v][j]
    BY <1>3, <1>4, <1>5
  <2> QED
    BY <1>1, <2>1, <2>2 DEF Unreached, ExactFor, ReachedOK
<1>12. LoopOK'
  BY <1>1, <1>10, <1>11 DEF LoopOK
<1> QED
  BY <1>1, <1>6, <1>8, <1>9, <1>12 DEF IInv, Idle

(* When the loop is done no operand is the replaced value.                 *)
LEMMA LoopDoneUnused ==
  ASSUME IInv, ~Idle, LoopDone, NEW i \in Inst
  PROVE  /\ SlotsUsing(oper[i], orig) = {}
         /\ \A v \in Value \ {orig} : users[v][i] = UseCount(oper[i], v)
<1>1. /\ pending[i] = 0 /\ orig \in Value /\ repl \in Value /\ orig # repl
      /\ users[repl][i] \in Nat
      /\ (Unreached(i) /\ ExactFor(i)) \/ ReachedOK(i)
  BY DEF IInv, LoopOK, LoopDone, NoUsers, TypeOK, NoDangling, Leaf, Value
<1>2. CASE Unreached(i) /\ ExactFor(i)
  BY <1>1, <1>2, UseCountZero DEF Unreached, ExactFor
<1>3. CASE ReachedOK(i)
  BY <1>1, <1>3, UseCountZero DEF ReachedOK
<1> QED
  BY <1>1, <1>2, <1>3

(* The clear makes the replaced value's list agree with its uses: none.    *)
LEMMA EndReplacePreserves ==
  ASSUME IInv, EndReplace
  PROVE  IInv'
<1>1. /\ ~Idle /\ LoopDone /\ orig \in Value /\ orig' = Nil /\ repl' = Nil
      /\ users \in [Value -> [Inst -> Nat]]
      /\ users' = [users EXCEPT ![orig] = NoUsers]
      /\ UNCHANGED <<live, oper, pending>>
  BY DEF EndReplace, IInv, TypeOK, Idle, Leaf, Value
<1>2. /\ users' \in [Value -> [Inst -> Nat]]
      /\ \A i \in Inst : users'[orig][i] = 0
      /\ \A v \in Value \ {orig} : users'[v] = users[v]
  BY <1>1 DEF NoUsers
<1>3. TypeOK'
  BY <1>1, <1>2 DEF IInv, TypeOK
<1>4. NoDangling'
  BY <1>1, <1>2 DEF IInv, NoDangling, Idle
<1>5. ASSUME NEW i \in Inst, NEW v \in Value PROVE users'[v][i] = UseCount(oper'[i], v)
  <2>1. oper'[i] = oper[i]
    BY <1>1
  <2>2. CASE v = orig
    BY <2>1, <2>2, <1>1, <1>2, LoopDoneUnused, UseCountZero
  <2>3. CASE v # orig
    BY <2>1, <2>3, <1>1, <1>2, LoopDoneUnused
  <2> QED
    BY <2>2, <2>3
<1> QED
  BY <1>1, <1>3, <1>4, <1>5 DEF IInv, ExactFor, Idle

-----------------------------------------------------------------------------
(* Nothing exists at first.                                                *)
LEMMA InitEstablishes == Init => IInv
<1> SUFFICES ASSUME Init PROVE IInv
  OBVIOUS
<1>1. /\ live = {} /\ orig = Nil /\ repl = Nil /\ pending = NoUsers
      /\ oper = [i \in Inst |-> NoOperands] /\ users = [v \in Value |-> NoUsers]
  BY DEF Init
<1>2. NoUsers \in [Inst -> Nat] /\ NoOperands \in Operands
  BY DEF NoUsers, NoOperands, Operands
<1>3. TypeOK
  BY <1>1, <1>2 DEF TypeOK
<1>4. NoDangling
  BY <1>1 DEF NoDangling, NoUsers, Idle
<1>5. \A i \in Inst : ExactFor(i)
  BY <1>1, NoOperandsUseNothing DEF ExactFor, NoUsers
<1> QED
  BY <1>1, <1>3, <1>4, <1>5 DEF IInv, Idle

(* IInv is inductive: one lemma above per operation.                       *)
LEMMA NextPreserves == IInv /\ [Next]_vars => IInv'
<1> SUFFICES ASSUME IInv, [Next]_vars PROVE IInv'
  OBVIOUS
<1>1. CASE \E i \in Plain : Construct(i)
  BY <1>1, ConstructPreserves
<1>2. CASE \E i \in Phi : ConstructPhi(i)
  BY <1>2, CreateEmptyPreserves
<1>3. CASE \E g \in Global : AddGlobal(g) \/ RemoveGlobal(g)
  BY <1>3, CreateEmptyPreserves, RemoveGlobalPreserves
<1>4. CASE \E i \in Phi, b \in Block :
             RemoveIncoming(i, b) \/ \E v \in Leaf : AddIncoming(i, b, v)
  BY <1>4, RemoveIncomingPreserves, AddIncomingPreserves
<1>5. CASE \E i \in Inst : Destroy(i)
  BY <1>5, DestroyPreserves
<1>6. CASE \E v \in Leaf, w \in Leaf : StartReplace(v, w)
  BY <1>6, StartReplacePreserves
<1>7. CASE Replacing
  BY <1>7, EndReplacePreserves, ReplaceUsePreserves DEF Replacing
<1>8. CASE UNCHANGED vars
  BY <1>8 DEF vars, IInv, TypeOK, NoDangling, Idle, ExactFor, LoopOK, Unreached, ReachedOK
<1> QED
  BY <1>1, <1>2, <1>3, <1>4, <1>5, <1>6, <1>7, <1>8 DEF Next

(* IInv holds in every state of every behaviour.                           *)
LEMMA Invariance == Spec => []IInv
BY InitEstablishes, NextPreserves, PTL DEF Spec

(* The variables keep their types: in particular no user list ever holds   *)
(* a negative number of entries.                                           *)
THEOREM TypeCorrect == Spec => []TypeOK
<1>1. IInv => TypeOK
  BY DEF IInv
<1> QED
  BY <1>1, Invariance, PTL

(* The user lists the constructors, destructors and phi operations         *)
(* (Instructions.cc) and replace_all_uses_with (Value.cc) keep by hand     *)
(* are, between calls, exactly the operand slots in use.                   *)
THEOREM UsersAreExact == Spec => []UsersExact
<1>1. IInv => UsersExact
  BY DEF IInv, UsersExact, ExactFor
<1> QED
  BY <1>1, Invariance, PTL

(* Neither an operand nor a user list refers to a destroyed value, at any  *)
(* point of any sequence of operations.                                    *)
THEOREM NothingDangles == Spec => []NoDangling
<1>1. IInv => NoDangling
  BY DEF IInv
<1> QED
  BY <1>1, Invariance, PTL

(* The m_users.clear() at the end of replace_all_uses_with forgets no use. *)
THEOREM ClearLosesNothing == Spec => []NothingLostByClear
<1>1. IInv => NothingLostByClear
  BY LoopDoneUnused DEF NothingLostByClear
<1> QED
  BY <1>1, Invariance, PTL

-----------------------------------------------------------------------------
(* An operation outside replace_all_uses_with that changes at most the     *)
(* operand list of i looks the same through the refinement mapping.        *)
LEMMA IdleMapping == (Idle => operBar = oper) /\ (Idle' => operBar' = oper')
BY DEF operBar, Idle

(* The abstract graph speaks of the same values and operand lists.         *)
LEMMA GraphValues ==
  /\ Graph!Inst = Inst /\ Graph!Slot = Slot /\ Graph!NoOperands = NoOperands
  /\ \A a, b, c : Graph!Operands3(a, b, c) = Operands3(a, b, c)
  /\ \A V : Graph!OperandLists(V) = OperandLists(V)
  /\ \A f, v : Graph!SlotsUsing(f, v) = SlotsUsing(f, v)
  /\ \A f, v, w : Graph!Substituted(f, v, w) = Substituted(f, v, w)
<1>1. Graph!Inst = Inst /\ Graph!Slot = Slot
  BY DEF Graph!Inst, Graph!Slot, Inst, Slot
<1>2. Graph!NoOperands = NoOperands
  BY <1>1 DEF Graph!NoOperands, NoOperands
<1>3. ASSUME NEW a, NEW b, NEW c PROVE Graph!Operands3(a, b, c) = Operands3(a, b, c)
  BY <1>1 DEF Graph!Operands3, Operands3
<1>4. ASSUME NEW V PROVE Graph!OperandLists(V) = OperandLists(V)
  BY <1>2, <1>3 DEF Graph!OperandLists, OperandLists
<1>5. ASSUME NEW f, NEW v PROVE Graph!SlotsUsing(f, v) = SlotsUsing(f, v)
  BY <1>1 DEF Graph!SlotsUsing, SlotsUsing
<1>6. ASSUME NEW f, NEW v, NEW w PROVE Graph!Substituted(f, v, w) = Substituted(f, v, w)
  BY <1>1 DEF Graph!Substituted, Substituted
<1> QED
  BY <1>1, <1>2, <1>3, <1>4, <1>5, <1>6

(* Each operation is one step of the abstract graph; the turns of the loop *)
(* and its end are stutters, the substitution having happened at its start.*)
LEMMA StepRefines ==
  ASSUME IInv, IInv', [Next]_vars
  PROVE  [Graph!Next]_(Graph!vars)
<1> USE IdleMapping, GraphValues
<1>1. ASSUME NEW i \in Plain, Construct(i) PROVE Graph!Create(i)
  <2>1. PICK f \in OperandLists(live) : oper' = [oper EXCEPT ![i] = f]
    BY <1>1 DEF Construct
  <2>2. Idle /\ Idle' /\ i \in (Inst \cup Global) \ live /\ live' = live \cup {i}
    BY <1>1 DEF Construct, Idle, Inst
  <2> QED
    BY <2>1, <2>2 DEF Graph!Create
<1>2. ASSUME NEW x, (x \in Phi /\ ConstructPhi(x)) \/ (x \in Global /\ AddGlobal(x))
      PROVE  Graph!Create(x)
  BY <1>2 DEF ConstructPhi, AddGlobal, Idle, Inst, Graph!Create
<1>3. ASSUME NEW i \in Phi, NEW b \in Block, RemoveIncoming(i, b)
      PROVE  Graph!SetIncoming(i)
  BY <1>3 DEF RemoveIncoming, Idle, Graph!SetIncoming
<1>4. ASSUME NEW i \in Phi, NEW b \in Block, NEW v \in Leaf, AddIncoming(i, b, v)
      PROVE  Graph!SetIncoming(i)
  BY <1>4 DEF AddIncoming, Idle, Graph!SetIncoming
<1>5. ASSUME NEW i \in Inst, Destroy(i) PROVE Graph!Destroy(i)
  <2>1. /\ Idle /\ Idle' /\ i \in live /\ HasNoUsers(i) /\ live' = live \ {i}
        /\ i \in Value /\ oper \in [Inst -> Operands]
        /\ oper' = [oper EXCEPT ![i] = NoOperands]
    BY <1>5 DEF Destroy, Idle, Value, IInv, TypeOK
  <2>2. \A j \in live \cap Inst : SlotsUsing(oper[j], i) = {}
    BY <2>1, NoUsersMeansUnused
  <2> QED
    BY <2>1, <2>2 DEF Graph!Destroy, Graph!Unused
<1>6. ASSUME NEW g \in Global, RemoveGlobal(g) PROVE Graph!Destroy(g)
  <2>1. /\ Idle /\ Idle' /\ g \in live /\ HasNoUsers(g) /\ live' = live \ {g}
        /\ g \in Value /\ g \notin Inst /\ oper \in [Inst -> Operands] /\ oper' = oper
    BY <1>6, ValuesAssumption DEF RemoveGlobal, Idle, Value, IInv, TypeOK
  <2>2. \A j \in live \cap Inst : SlotsUsing(oper[j], g) = {}
    BY <2>1, NoUsersMeansUnused
  <2> QED
    BY <2>1, <2>2 DEF Graph!Destroy, Graph!Unused
<1>7. ASSUME NEW v \in Leaf, NEW w \in Leaf, StartReplace(v, w)
      PROVE  Graph!Replace(v, w)
  <2>1. /\ Idle /\ ~Idle' /\ {v, w} \subseteq live /\ live' = live
        /\ oper' = oper /\ orig' = v /\ repl' = w
    BY <1>7, ValuesAssumption DEF StartReplace, Idle, Leaf, Value
  <2>2. operBar' = [i \in Inst |-> Substituted(oper[i], v, w)]
    BY <2>1 DEF operBar
  <2> QED
    BY <2>1, <2>2 DEF Graph!Replace
<1>8. ASSUME NEW i \in Inst, ReplaceUse(i) PROVE UNCHANGED Graph!vars
  <2> DEFINE g == Substituted(oper[i], orig, repl)
  <2>1. /\ ~Idle /\ ~Idle' /\ orig # repl /\ orig \in Leaf /\ repl \in Leaf
        /\ oper \in [Inst -> Operands] /\ oper[i] \in Operands
        /\ oper' = [oper EXCEPT ![i] = g]
        /\ UNCHANGED <<live, orig, repl>>
    BY <1>8 DEF ReplaceUse, Idle, IInv, TypeOK, LoopOK, NoDangling
  <2>2. Substituted(g, orig, repl) = g
    BY <2>1, SubstitutedCount, SubstitutedUnused
  <2>3. ASSUME NEW j \in Inst
        PROVE  Substituted(oper'[j], orig, repl) = Substituted(oper[j], orig, repl)
    <3>1. CASE j = i
      BY <3>1, <2>1, <2>2
    <3>2. CASE j # i
      BY <3>2, <2>1
    <3> QED
      BY <3>1, <3>2
  <2> QED
    BY <2>1, <2>3 DEF operBar, Graph!vars
<1>9. ASSUME EndReplace PROVE UNCHANGED Graph!vars
  <2>1. /\ ~Idle /\ LoopDone /\ Idle' /\ oper \in [Inst -> Operands]
        /\ UNCHANGED <<live, oper>>
    BY <1>9 DEF EndReplace, Idle, IInv, TypeOK
  <2>2. \A i \in Inst : Substituted(oper[i], orig, repl) = oper[i]
    BY <2>1, LoopDoneUnused, SubstitutedUnused
  <2>3. operBar = oper
    BY <2>1, <2>2 DEF operBar
  <2> QED
    BY <2>1, <2>3 DEF Graph!vars
<1>10. CASE UNCHANGED vars
  BY <1>10 DEF vars, Graph!vars, operBar, Idle
<1> QED
  <2>1. CASE \E i \in Plain : Construct(i)
    BY <1>1, <2>1 DEF Graph!Next, Inst
  <2>2. CASE \E i \in Phi : ConstructPhi(i)
    BY <1>2, <2>2 DEF Graph!Next, Inst
  <2>3. CASE \E g \in Global : AddGlobal(g) \/ RemoveGlobal(g)
    BY <1>2, <1>6, <2>3 DEF Graph!Next
  <2>4. CASE \E i \in Phi, b \in Block :
               RemoveIncoming(i, b) \/ \E v \in Leaf : AddIncoming(i, b, v)
    BY <1>3, <1>4, <2>4 DEF Graph!Next
  <2>5. CASE \E i \in Inst : Destroy(i)
    BY <1>5, <2>5 DEF Graph!Next
  <2>6. CASE \E v \in Leaf, w \in Leaf : StartReplace(v, w)
    BY <1>7, <2>6 DEF Graph!Next, Leaf
  <2>7. CASE Replacing
    BY <1>8, <1>9, <2>7 DEF Replacing
  <2> QED
    BY <1>10, <2>1, <2>2, <2>3, <2>4, <2>5, <2>6, <2>7 DEF Next

(* The hand-kept lists and the entry-by-entry loop implement the abstract  *)
(* value graph: replacing is one substitution, removal takes an unused     *)
(* value.                                                                  *)
THEOREM ImplementsValueGraph == Spec => ImplementsGraph
<1>1. Init => Graph!Init
  BY GraphValues DEF Init, Graph!Init, operBar, Idle
<1>2. IInv /\ IInv' /\ [Next]_vars => [Graph!Next]_(Graph!vars)
  BY StepRefines
<1> QED
  BY <1>1, <1>2, Invariance, PTL DEF Spec, ImplementsGraph, Graph!Spec
=============================================================================
