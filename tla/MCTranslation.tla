--------------------------- MODULE MCTranslation ----------------------------
EXTENDS Translation

Regs == {"rax", "rsp"}
RegOps == {[type |-> "reg", reg |-> r] : r \in Regs}
MemOps == {[type |-> "mem", base |-> "rsp", disp |-> -Stride]}
ImmOps == {[type |-> "imm", imm |-> w] : w \in {0, 2^(W-1)}}

TwoOperands ==
  [opcode : {"cmp", "mov"}, dst : RegOps \cup MemOps, src : RegOps \cup ImmOps]
  \cup [opcode : {"add", "shl"}, dst : RegOps, src : RegOps \cup MemOps]
OneOperand == [opcode : {"push"}, src : RegOps \cup MemOps] \cup [opcode : {"pop", "inc"}, dst : RegOps]
NoOperand == [opcode : {"jg", "jge", "jle"}]

Insts == TwoOperands \cup OneOperand \cup NoOperand
=============================================================================
