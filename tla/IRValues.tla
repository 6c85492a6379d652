------------------------------ MODULE IRValues ------------------------------
(***************************************************************************)
(* The values of bamf's intermediate representation and the operand lists  *)
(* its instructions are built with (include/bamf/ir).                      *)
(*                                                                         *)
(* An operand list is a function on Slot.  An instruction other than a phi *)
(* keeps its operands in the slots 1..3 (the members m_lhs, m_rhs, m_dst,  *)
(* m_cond, ... in the order its constructor registers them); a phi keeps   *)
(* one incoming value per predecessor block, in the slot named by that     *)
(* block (the map m_incoming).  Nil stands for a slot the instruction does *)
(* not have.                                                               *)
(*                                                                         *)
(* An operator named X_Y is X with the bug Y; no specification uses it.    *)
(***************************************************************************)
EXTENDS Integers, FiniteSets

CONSTANTS
  Plain,    \* identities of the instructions other than phis
  Phi,      \* identities of the phis
  Global,   \* identities of the global variables
  Block,    \* the basic blocks, which outlive every instruction here
  Nil       \* no value

Inst == Plain \cup Phi
Value == Inst \cup Global \cup Block
Slot == (1..3) \cup Block

ASSUME ValuesAssumption ==
  /\ IsFiniteSet(Block)
  /\ Plain \cap Phi = {}
  /\ (Inst \cup Global) \cap Block = {}
  /\ Inst \cap Global = {}
  /\ (1..3) \cap Value = {}
  /\ Nil \notin Value

-----------------------------------------------------------------------------
Operands == [Slot -> Value \cup {Nil}]

NoOperands == [s \in Slot |-> Nil]

Operands3(a, b, c) ==
  [s \in Slot |-> CASE s = 1 -> a [] s = 2 -> b [] s = 3 -> c [] OTHER -> Nil]

(* What the constructors of Instructions.cc take: nothing (AllocInst), one *)
(* value (LoadInst, RetInst), two (BinaryInst, CompareInst, StoreInst), a  *)
(* destination (BranchInst), a condition and two destinations              *)
(* (CondBranchInst).                                                       *)
OperandLists(V) ==
       {NoOperands}
  \cup {Operands3(v, Nil, Nil) : v \in V \cup Block}
  \cup {Operands3(v, w, Nil) : v \in V, w \in V}
  \cup {Operands3(v, b, c) : v \in V, b \in Block, c \in Block}

(* The slots of an operand list through which it uses v.  A phi uses a     *)
(* block by having an entry for it.                                        *)
SlotsUsing(f, v) == {s \in Slot : f[s] = v \/ (s = v /\ f[s] # Nil)}

(* replace_uses_of_with: every operand that is v becomes w.                *)
Substituted_NotRhs(f, v, w) ==
  [s \in Slot |-> IF f[s] = v /\ s # 2 THEN w ELSE f[s]]
Substituted(f, v, w) == [s \in Slot |-> IF f[s] = v THEN w ELSE f[s]]
=============================================================================
