------------------------------- MODULE UseDef -------------------------------
(***************************************************************************)
(* The def-use chains of bamf's intermediate representation as Value.cc,   *)
(* Instructions.cc, BasicBlock.cc and Program.cc keep them: every value    *)
(* has a list of its users, one entry per use, that constructors,          *)
(* destructors and the phi's operations maintain by hand, and              *)
(* replace_all_uses_with walks it entry by entry.                          *)
(*                                                                         *)
(* A user list is a bag, users[v][i] being the number of entries for i in  *)
(* v's m_users: nothing in the code depends on the order of the entries    *)
(* except the order replace_all_uses_with visits them in, and ReplaceUse   *)
(* visits them in any order.                                               *)
(*                                                                         *)
(* An operator named X_Y is X with the bug Y; no action uses it.           *)
(***************************************************************************)
EXTENDS IRValues

VARIABLES
  live,     \* instructions and globals that exist
  oper,     \* operand list of every instruction
  users,    \* m_users of every value
  orig,     \* the value replace_all_uses_with is running on, or Nil
  repl,     \* what it replaces that value by
  pending   \* the entries of orig's m_users the loop has not reached

vars == <<live, oper, users, orig, repl, pending>>

Leaf == Inst \cup Global
NoUsers == [i \in Inst |-> 0]
Idle == orig = Nil

Init ==
  /\ live = {}
  /\ oper = [i \in Inst |-> NoOperands]
  /\ users = [v \in Value |-> NoUsers]
  /\ orig = Nil
  /\ repl = Nil
  /\ pending = NoUsers

-----------------------------------------------------------------------------
(* add_user appends an entry; remove_user erases one entry if it finds one *)
Monus(a, b) == IF a > b THEN a - b ELSE 0

AddUser(i, n) == [v \in Value |-> [users[v] EXCEPT ![i] = @ + n[v]]]
RemoveUser(i, n) == [v \in Value |-> [users[v] EXCEPT ![i] = Monus(@, n[v])]]

(* The entries an instruction with operand list f holds in v's list.       *)
UseCount(f, v) == Cardinality(SlotsUsing(f, v))

EntriesOf(f) == [v \in Value |-> UseCount(f, v)]
OneEntryIn(S) == [v \in Value |-> IF v \in S THEN 1 ELSE 0]

(* A constructor registers the instruction with each of its operands.      *)
Construct(i) ==
  /\ Idle
  /\ i \in Plain \ live
  /\ \E f \in OperandLists(live) :
       /\ oper' = [oper EXCEPT ![i] = f]
       /\ users' = AddUser(i, EntriesOf(f))
  /\ live' = live \cup {i}
  /\ UNCHANGED <<orig, repl, pending>>

ConstructPhi(i) ==
  /\ Idle
  /\ i \in Phi \ live
  /\ live' = live \cup {i}
  /\ UNCHANGED <<oper, users, orig, repl, pending>>

AddGlobal(g) ==
  /\ Idle
  /\ g \in Global \ live
  /\ live' = live \cup {g}
  /\ UNCHANGED <<oper, users, orig, repl, pending>>

(* PhiInst::add_incoming for a block that has no entry yet.                *)
AddIncoming(i, b, v) ==
  /\ Idle
  /\ i \in Phi \cap live
  /\ v \in live
  /\ oper[i][b] = Nil
  /\ oper' = [oper EXCEPT ![i][b] = v]
  /\ users' = AddUser(i, OneEntryIn({b, v}))
  /\ UNCHANGED <<live, orig, repl, pending>>

RemoveIncoming(i, b) ==
  /\ Idle
  /\ i \in Phi \cap live
  /\ oper[i][b] # Nil
  /\ oper' = [oper EXCEPT ![i][b] = Nil]
  /\ users' = RemoveUser(i, OneEntryIn({b, oper[i][b]}))
  /\ UNCHANGED <<live, orig, repl, pending>>

(* BasicBlock::remove asserts that nothing uses the instruction and then   *)
(* destroys it; its destructor takes it off its operands' lists.           *)
HasNoUsers_Unchecked(x) == TRUE
HasNoUsers(x) == users[x] = NoUsers

Unregistered(i) == RemoveUser(i, EntriesOf(oper[i]))

Destroy(i) ==
  /\ Idle
  /\ i \in Inst \cap live
  /\ HasNoUsers(i)
  /\ live' = live \ {i}
  /\ oper' = [oper EXCEPT ![i] = NoOperands]
  /\ users' = [Unregistered(i) EXCEPT ![i] = NoUsers]
  /\ UNCHANGED <<orig, repl, pending>>

RemoveGlobal(g) ==
  /\ Idle
  /\ g \in Global \cap live
  /\ HasNoUsers(g)
  /\ live' = live \ {g}
  /\ users' = [users EXCEPT ![g] = NoUsers]
  /\ UNCHANGED <<oper, orig, repl, pending>>

-----------------------------------------------------------------------------
(* v.replace_all_uses_with(w) for two distinct values that are not blocks: *)
(* the loop over v's list, one entry a step, then the clear.               *)
StartReplace(v, w) ==
  /\ Idle
  /\ v \in live
  /\ w \in live \ {v}
  /\ orig' = v
  /\ repl' = w
  /\ pending' = users[v]
  /\ UNCHANGED <<live, oper, users>>

HasEntryLeft_PastEnd(i) == pending[i] >= 0
HasEntryLeft(i) == pending[i] > 0

Visit_NoAddUser(i) == users
Visit(i) == [users EXCEPT ![repl][i] = @ + 1]

ReplaceUse(i) ==
  /\ ~Idle
  /\ HasEntryLeft(i)
  /\ oper' = [oper EXCEPT ![i] = Substituted(@, orig, repl)]
  /\ users' = Visit(i)
  /\ pending' = [pending EXCEPT ![i] = @ - 1]
  /\ UNCHANGED <<live, orig, repl>>

LoopDone_FirstEntryOnly == pending # users[orig]
LoopDone_UntilListEmpty == users[orig] = NoUsers
LoopDone == pending = NoUsers

EndReplace ==
  /\ ~Idle
  /\ LoopDone
  /\ users' = [users EXCEPT ![orig] = NoUsers]
  /\ orig' = Nil
  /\ repl' = Nil
  /\ UNCHANGED <<live, oper, pending>>

Replacing == EndReplace \/ \E i \in Inst : ReplaceUse(i)

Next ==
  \/ \E i \in Plain : Construct(i)
  \/ \E i \in Phi : ConstructPhi(i)
  \/ \E g \in Global : AddGlobal(g) \/ RemoveGlobal(g)
  \/ \E i \in Phi, b \in Block :
       RemoveIncoming(i, b) \/ \E v \in Leaf : AddIncoming(i, b, v)
  \/ \E i \in Inst : Destroy(i)
  \/ \E v \in Leaf, w \in Leaf : StartReplace(v, w)
  \/ Replacing

Spec == Init /\ [][Next]_vars

(* replace_all_uses_with runs to its end: it is one call of one thread.    *)
FairSpec == Spec /\ WF_vars(Replacing)

-----------------------------------------------------------------------------
(* Operands are values or null, user lists are bags of instructions, and   *)
(* only leaf values are live, replaced or replace.                         *)
TypeOK ==
  /\ live \subseteq Leaf
  /\ oper \in [Inst -> Operands]
  /\ users \in [Value -> [Inst -> Nat]]
  /\ orig \in Leaf \cup {Nil}
  /\ repl \in Leaf \cup {Nil}
  /\ pending \in [Inst -> Nat]

(* Between calls, the user lists are exactly the uses: v's list has one    *)
(* entry for i per operand slot of i that holds v.  The constructors,      *)
(* destructors, add_incoming, remove_incoming and replace_all_uses_with    *)
(* each keep it by hand (Value.cc:26 asks for the code to be able to       *)
(* assert it).                                                             *)
UsersExact ==
  Idle => \A v \in Value, i \in Inst : users[v][i] = UseCount(oper[i], v)

(* No live instruction has a destroyed value as operand, and no live value *)
(* has a destroyed instruction in its list, also inside the loop of        *)
(* replace_all_uses_with: nothing dereferences freed memory.               *)
NoDangling ==
  /\ \A i \in Inst \cap live, s \in Slot : oper[i][s] \in live \cup Block \cup {Nil}
  /\ \A v \in Value, i \in Inst \ live : users[v][i] = 0
  /\ ~Idle => {orig, repl} \subseteq live

(* When the loop of replace_all_uses_with ends no operand refers to the    *)
(* replaced value any more, so clearing its list loses nothing.            *)
NothingLostByClear ==
  (~Idle /\ LoopDone) => \A i \in Inst : SlotsUsing(oper[i], orig) = {}

(* A replacement that has begun ends.                                      *)
ReplaceTerminates == ~Idle ~> Idle

(* The substitution the abstract graph makes when the loop starts.         *)
operBar == IF Idle THEN oper ELSE [i \in Inst |-> Substituted(oper[i], orig, repl)]

Graph == INSTANCE ValueGraph WITH oper <- operBar

(* The user lists implement the abstract value graph: removal guarded by   *)
(* an empty list is removal of an unused value, and the entry-by-entry     *)
(* loop is one substitution.                                               *)
ImplementsGraph == Graph!Spec
=============================================================================
