---------------------------- MODULE Translation -----------------------------
(***************************************************************************)
(* The translate functions of src/x86/Frontend.cc: the loads, stores and   *)
(* operations they append for one instruction, run in their order on the   *)
(* globals that stand for the registers and flags.  X86 is what they       *)
(* promise.                                                                *)
(*                                                                         *)
(* Memory is words at addresses that do not overlap.                       *)
(*                                                                         *)
(* An operator named X_Y is X with the bug Y; no action uses it.           *)
(***************************************************************************)
EXTENDS Words

CONSTANTS
  Registers, Stride, Instructions,  \* as in X86
  MaxSteps                          \* bound on the instructions run

ASSUME TranslationAssumption ==
  /\ "rsp" \in Registers
  /\ Stride \in Nat
  /\ MaxSteps \in Nat

VARIABLES
  global,   \* the globals of the registers (m_phys_regs)
  flag,     \* m_of, m_sf, m_zf
  memory,   \* what loads and stores through pointers reach
  branched, \* whether the last CondBranchInst took its true destination
  ran,      \* the instruction translated last
  steps,    \* instructions run so far
  compared  \* history: the operands of the last cmp, if nothing the
            \* processor sets flags for came after it

vars == <<global, flag, memory, branched, ran, steps, compared>>

Init ==
  /\ global \in [Registers -> Word]
  /\ flag = [f \in {"of", "sf", "zf"} |-> 0]
  /\ memory = [a \in Word |-> a]
  /\ branched = FALSE
  /\ ran = [opcode |-> "none"]
  /\ steps = 0
  /\ compared = <<>>

-----------------------------------------------------------------------------
Displaced(op) == Result("add", global[op.base], Wrap(op.disp))

load_op(op) ==
  CASE op.type = "imm" -> op.imm
    [] op.type = "mem" -> memory[Displaced(op)]
    [] op.type = "reg" -> global[op.reg]

store_op(op, val) ==
  \/ op.type = "mem" /\ memory' = [memory EXCEPT ![Displaced(op)] = val] /\ UNCHANGED global
  \/ op.type = "reg" /\ global' = [global EXCEPT ![op.reg] = val] /\ UNCHANGED memory

translate_add(dst, src) ==
  /\ store_op(dst, Result("add", load_op(dst), load_op(src)))
  /\ compared' = <<>>
  /\ UNCHANGED <<flag, branched>>

(* The overflow flag as the sign of the operands' xor alone. *)
Overflow_OfOperands(lhs, rhs, cmp) == Result("xor", lhs, rhs)
Overflow(lhs, rhs, cmp) == Result("and", Result("xor", lhs, rhs), Result("xor", lhs, cmp))

translate_cmp(dst, src) ==
  LET lhs == load_op(dst)
      rhs == load_op(src)
      cmp == Result("sub", lhs, rhs)
  IN  /\ flag' = [of |-> Result("slt", Overflow(lhs, rhs, cmp), 0),
                  sf |-> Result("slt", cmp, 0),
                  zf |-> Result("eq", cmp, 0)]
      /\ compared' = <<lhs, rhs>>
      /\ UNCHANGED <<global, memory, branched>>

translate_inc(dst) == translate_add(dst, [type |-> "imm", imm |-> 1])

translate_jg ==
  branched' = (Result("and", Result("eq", flag.of, flag.sf), Result("eq", flag.zf, 0)) = 1)
translate_jge ==
  branched' = (Result("eq", flag.of, flag.sf) = 1)
translate_jle ==
  branched' = (Result("or", Result("ne", flag.of, flag.sf), flag.zf) = 1)

translate_mov(dst, src) ==
  /\ store_op(dst, load_op(src))
  /\ UNCHANGED <<flag, branched, compared>>

(* The operand is stored to before the stack pointer. *)
translate_pop(dst) ==
  LET sp == global["rsp"]
  IN  /\ global' = [[global EXCEPT ![dst] = memory[sp]] EXCEPT !["rsp"] = Result("add", sp, Stride)]
      /\ UNCHANGED <<memory, flag, branched, compared>>

translate_push(src) ==
  LET sp == global["rsp"]
  IN  /\ memory' = [memory EXCEPT ![Result("sub", sp, Stride)] = load_op(src)]
      /\ global' = [global EXCEPT !["rsp"] = Result("sub", sp, Stride)]
      /\ UNCHANGED <<flag, branched, compared>>

translate_shl(dst, src) ==
  /\ \E w \in IF Defined("shl", load_op(src)) THEN {Result("shl", load_op(dst), load_op(src))} ELSE Word :
       store_op(dst, w)
  /\ compared' = <<>>
  /\ UNCHANGED <<flag, branched>>

Next ==
  /\ steps < MaxSteps
  /\ steps' = steps + 1
  /\ \E i \in Instructions :
    /\ ran' = i
    /\ \/ i.opcode = "add" /\ translate_add(i.dst, i.src)
       \/ i.opcode = "cmp" /\ translate_cmp(i.dst, i.src)
       \/ i.opcode = "inc" /\ translate_inc(i.dst)
       \/ i.opcode = "jg" /\ translate_jg /\ UNCHANGED <<global, flag, memory, compared>>
       \/ i.opcode = "jge" /\ translate_jge /\ UNCHANGED <<global, flag, memory, compared>>
       \/ i.opcode = "jle" /\ translate_jle /\ UNCHANGED <<global, flag, memory, compared>>
       \/ i.opcode = "mov" /\ translate_mov(i.dst, i.src)
       \/ i.opcode = "pop" /\ translate_pop(i.dst.reg)
       \/ i.opcode = "push" /\ translate_push(i.src)
       \/ i.opcode = "shl" /\ translate_shl(i.dst, i.src)

Spec == Init /\ [][Next]_vars

-----------------------------------------------------------------------------
Processor == INSTANCE X86 WITH reg <- global, ram <- memory, taken <- branched

(* The flags a cmp leaves tell the operands' order as signed words, also   *)
(* where their difference overflows, whatever runs between the cmp and the *)
(* jump; and every instruction leaves the registers and the memory the     *)
(* processor would.                                                        *)
ImplementsX86 == Processor!Spec
=============================================================================
