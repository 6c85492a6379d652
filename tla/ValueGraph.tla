----------------------------- MODULE ValueGraph -----------------------------
(***************************************************************************)
(* What the def-use machinery of bamf's values promises to the passes that *)
(* use it: operands always refer to values that exist, replacing a value   *)
(* is one indivisible substitution, and a value goes away only when no     *)
(* instruction has it as an operand.  There are no user lists here; UseDef *)
(* keeps them the way the code does and implements this specification.     *)
(***************************************************************************)
EXTENDS IRValues

VARIABLES
  live,     \* instructions and globals that exist
  oper      \* operand list of every instruction

vars == <<live, oper>>

Init ==
  /\ live = {}
  /\ oper = [i \in Inst |-> NoOperands]

Create(x) ==
  /\ x \in (Inst \cup Global) \ live
  /\ live' = live \cup {x}
  /\ \/ UNCHANGED oper
     \/ /\ x \in Plain
        /\ \E f \in OperandLists(live) : oper' = [oper EXCEPT ![x] = f]

SetIncoming(i) ==
  /\ i \in Phi \cap live
  /\ \E b \in Block, v \in live \cup {Nil} : oper' = [oper EXCEPT ![i][b] = v]
  /\ UNCHANGED live

Replace(v, w) ==
  /\ {v, w} \subseteq live
  /\ oper' = [i \in Inst |-> Substituted(oper[i], v, w)]
  /\ UNCHANGED live

Unused(x) == \A i \in live \cap Inst : SlotsUsing(oper[i], x) = {}

Destroy(x) ==
  /\ x \in live
  /\ Unused(x)
  /\ live' = live \ {x}
  /\ oper' = [i \in Inst |-> IF i = x THEN NoOperands ELSE oper[i]]

Next ==
  \/ \E x \in Inst \cup Global : Create(x) \/ Destroy(x)
  \/ \E i \in Phi : SetIncoming(i)
  \/ \E v \in Inst \cup Global, w \in Inst \cup Global : Replace(v, w)

Spec == Init /\ [][Next]_vars
=============================================================================
