-------------------------------- MODULE X86 ---------------------------------
(***************************************************************************)
(* What the machine instructions bamf translates do, as far as the         *)
(* translation promises it: registers, memory, and which way a conditional *)
(* jump goes after a comparison.  A jump is promised nothing where the     *)
(* processor's flags come from another instruction than cmp, since the     *)
(* translation does not set flags for those.                               *)
(***************************************************************************)
EXTENDS Words

CONSTANTS
  Registers,   \* rsp among them
  Stride,      \* bytes of a stack slot, 8 in the code
  Instructions \* the instructions that may run

Imm(w) == [type |-> "imm", imm |-> w]

NoComparison == <<>>

VARIABLES
  reg,      \* the registers
  ram,      \* the words of the memory, by address
  compared, \* the operands of the cmp the flags are from
  taken,    \* whether the last conditional jump was taken
  ran       \* the last instruction run

vars == <<reg, ram, compared, taken, ran>>

NoInstruction == [opcode |-> "none"]

Init ==
  /\ reg \in [Registers -> Word]
  /\ ram = [a \in Word |-> a]
  /\ compared = NoComparison
  /\ taken = FALSE
  /\ ran = NoInstruction

-----------------------------------------------------------------------------
Address(op) == Wrap(reg[op.base] + op.disp)
Operand(op) ==
  CASE op.type = "imm" -> op.imm
    [] op.type = "reg" -> reg[op.reg]
    [] op.type = "mem" -> ram[Address(op)]

Assign(op, w) ==
  /\ reg' = IF op.type = "reg" THEN [reg EXCEPT ![op.reg] = w] ELSE reg
  /\ ram' = IF op.type = "mem" THEN [ram EXCEPT ![Address(op)] = w] ELSE ram

Arithmetic(opcode, dst, src) ==
  /\ \E w \in IF Defined(opcode, Operand(src)) THEN {Result(opcode, Operand(dst), Operand(src))} ELSE Word :
       Assign(dst, w)
  /\ compared' = NoComparison
  /\ UNCHANGED taken

Cmp(lhs, rhs) ==
  /\ compared' = <<Operand(lhs), Operand(rhs)>>
  /\ UNCHANGED <<reg, ram, taken>>

Jumps(opcode, lhs, rhs) ==
  CASE opcode = "jg" -> Signed(lhs) > Signed(rhs)
    [] opcode = "jge" -> Signed(lhs) >= Signed(rhs)
    [] opcode = "jle" -> Signed(lhs) <= Signed(rhs)

Jcc(opcode) ==
  /\ taken' \in IF compared = NoComparison THEN BOOLEAN ELSE {Jumps(opcode, compared[1], compared[2])}
  /\ UNCHANGED <<reg, ram, compared>>

Mov(dst, src) == Assign(dst, Operand(src)) /\ UNCHANGED <<compared, taken>>

Push(src) ==
  /\ reg' = [reg EXCEPT !["rsp"] = Wrap(@ - Stride)]
  /\ ram' = [ram EXCEPT ![Wrap(reg["rsp"] - Stride)] = Operand(src)]
  /\ UNCHANGED <<compared, taken>>

(* pop rsp leaves the popped word in rsp; the translation is allowed to    *)
(* leave the incremented one.                                              *)
Pop(dst) ==
  /\ LET top == ram[reg["rsp"]]
         sp == Wrap(reg["rsp"] + Stride)
     IN  reg' \in IF dst = "rsp" THEN {[reg EXCEPT !["rsp"] = w] : w \in {top, sp}}
                  ELSE {[reg EXCEPT ![dst] = top, !["rsp"] = sp]}
  /\ UNCHANGED <<ram, compared, taken>>

Next ==
  \E i \in Instructions :
    /\ ran' = i
    /\ \/ i.opcode \in {"add", "shl"} /\ Arithmetic(i.opcode, i.dst, i.src)
       \/ i.opcode = "inc" /\ Arithmetic("add", i.dst, Imm(1))
       \/ i.opcode = "cmp" /\ Cmp(i.dst, i.src)
       \/ i.opcode \in {"jg", "jge", "jle"} /\ Jcc(i.opcode)
       \/ i.opcode = "mov" /\ Mov(i.dst, i.src)
       \/ i.opcode = "push" /\ Push(i.src)
       \/ i.opcode = "pop" /\ Pop(i.dst.reg)

Spec == Init /\ [][Next]_vars
=============================================================================
