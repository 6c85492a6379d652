------------------------------ MODULE MCPasses ------------------------------
EXTENDS Passes

CONSTANT MaxInsts   \* machine instructions before the return

Rbp == 3

Inst(opcode, dst, src) == [opcode |-> opcode, dst |-> dst, src |-> src]

Moves ==
  {Inst("mov", RegOp(Rbp), RegOp(Rsp)),
   Inst("mov", RegOp(Rsp), RegOp(Rbp)),
   Inst("mov", MemOp(Rbp, -8), ImmOp(5)),
   Inst("mov", MemOp(Rbp, 0), ImmOp(6)),
   Inst("mov", RegOp(Rax), MemOp(Rbp, -8)),
   Inst("add", RegOp(Rbp), ImmOp(-8)),
   Inst("push", RegOp(Rax), RegOp(Rbp)),
   Inst("pop", RegOp(Rax), ImmOp(0))}
RetInst == Inst("ret", RegOp(Rax), ImmOp(0))

(* All that is short, what follows the push a function begins with, and    *)
(* what may come between a store and a load of its slot.                   *)
Short == UNION {[1..n -> Moves] : n \in 0..MaxInsts}
Pushed == {<<Inst("push", RegOp(Rax), RegOp(Rbp))>> \o c : c \in [1..MaxInsts -> Moves]}
Between ==
  {<<Inst("mov", MemOp(Rbp, -8), RegOp(Rax)), m, Inst("mov", RegOp(Rax), MemOp(Rbp, -8))>> : m \in Moves}

(* What a compiler makes: a frame with two variables in it.                *)
Locals ==
  {Inst("mov", MemOp(Rbp, -8), ImmOp(5)),
   Inst("mov", MemOp(Rbp, -16), RegOp(Rax)),
   Inst("mov", RegOp(Rax), MemOp(Rbp, -8)),
   Inst("mov", RegOp(Rax), MemOp(Rbp, -16)),
   Inst("add", MemOp(Rbp, -8), ImmOp(1))}
Frames ==
  {<<Inst("push", RegOp(Rax), RegOp(Rbp)), Inst("mov", RegOp(Rbp), RegOp(Rsp))>>
     \o f \o <<Inst("pop", RegOp(Rbp), ImmOp(0))>> : f \in [1..2 -> Locals]}

(* Additions of what a register or the memory holds, around others.        *)
Additions ==
  {Inst("add", RegOp(Rax), RegOp(Rax)),
   Inst("add", RegOp(Rax), RegOp(Rbp)),
   Inst("add", RegOp(Rbp), MemOp(Rbp, -8)),
   Inst("add", MemOp(Rbp, -8), RegOp(Rax)),
   Inst("inc", RegOp(Rax), ImmOp(0))}
Added ==
  {<<Inst("mov", RegOp(Rax), ImmOp(5)), Inst("inc", RegOp(Rax), ImmOp(0))>> \o a : a \in [1..2 -> Additions]}
    \cup {<<m, a>> : m \in Moves, a \in Additions} \cup {<<a, m>> : a \in Additions, m \in Moves}

Programs == {Append(c, RetInst) : c \in Short \cup Pushed \cup Between \cup Frames \cup Added}
=============================================================================
