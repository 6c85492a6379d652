----------------------------- MODULE Assembler ------------------------------
(***************************************************************************)
(* What an assembler emits, after the encodings in the processor's manual: *)
(* the bytes of an instruction and what they mean, for the decoder to be   *)
(* held against.  Not code of bamf.                                        *)
(***************************************************************************)
EXTENDS Integers, Sequences, SequencesExt

(* Operands: registers are 0 to 15, memory is at a base register plus a    *)
(* displacement and, in an Indexed one, an index register.  An immediate   *)
(* is the eight bytes of a word, the lowest first, or an address.          *)
RegOp(r) == [type |-> "Reg", reg |-> r]
ImmOp(bytes) == [type |-> "Imm", imm |-> bytes]
ToOp(address) == [type |-> "Imm", address |-> address]
MemOp(b, d) == [type |-> "MemBaseDisp", base |-> b, disp |-> d]
Indexed(b, x, d) == MemOp(b, d) @@ [index |-> x]

Rsp == 4

(* The manual's columns: opcode, /digit, Op/En, and the bytes of an        *)
(* immediate.                                                              *)
Form(opcode, bytes, digit, en, size) ==
  [opcode |-> opcode, bytes |-> bytes, digit |-> digit, en |-> en, size |-> size]

Forms ==
  {Form("add", <<3>>, 0, "RM", 0),    Form("add", <<131>>, 0, "MI", 1),
   Form("call", <<232>>, 0, "D", 4),  Form("cmp", <<131>>, 7, "MI", 1),
   Form("inc", <<255>>, 0, "M", 0),   Form("jg", <<15, 143>>, 0, "D", 4),
   Form("jge", <<125>>, 0, "D", 1),   Form("jle", <<15, 142>>, 0, "D", 4),
   Form("jmp", <<233>>, 0, "D", 4),   Form("jmp", <<235>>, 0, "D", 1),
   Form("mov", <<137>>, 0, "MR", 0),  Form("mov", <<139>>, 0, "RM", 0),
   Form("mov", <<184>>, 0, "OI", 0), Form("mov", <<199>>, 0, "MI", 4),
   Form("pop", <<88>>, 0, "O", 0),    Form("push", <<80>>, 0, "O", 0),
   Form("ret", <<195>>, 0, "ZO", 0),  Form("shl", <<209>>, 4, "M1", 0),
   Form("sub", <<131>>, 5, "MI", 1),  Form("xor", <<49>>, 0, "MR", 0)}

-----------------------------------------------------------------------------
(* An instruction is a form with its operand size, a register, an r/m      *)
(* operand and an immediate, of which it takes what its Op/En says; the    *)
(* immediate of a jump is the address it goes to.                          *)
Instruction(form, width, reg, rm, imm) ==
  [form |-> form, width |-> width, reg |-> reg, rm |-> rm, imm |-> imm]

En(a, ens) == a.form.en \in ens
HasRm(a) == En(a, {"RM", "MR", "MI", "M", "M1"})
HasOpcodeReg(a) == En(a, {"O", "OI"})
InMemory(a) == HasRm(a) /\ a.rm.type = "MemBaseDisp"

(* Four bytes of an immediate are two for an operand of 16 bits.           *)
ImmSize(a) ==
  IF En(a, {"OI"}) THEN a.width \div 8
  ELSE IF En(a, {"MI"}) /\ a.width = 16 /\ a.form.size = 4 THEN 2 ELSE a.form.size

LittleEndian(n, size) == [k \in 1..size |-> IF k > 4 THEN IF n < 0 THEN 255 ELSE 0
                                             ELSE (n \div 256^(k - 1)) % 256]

(* The prefix 66, or a REX prefix where one is needed.                     *)
Low(r) == r % 8
Prefix(a) ==
  LET w == IF a.width = 64 /\ ~En(a, {"O", "D", "ZO"}) THEN 8 ELSE 0
      r == IF En(a, {"RM", "MR"}) /\ a.reg > 7 THEN 4 ELSE 0
      b == IF (HasOpcodeReg(a) /\ a.reg > 7) \/ (HasRm(a) /\ a.rm.type = "Reg" /\ a.rm.reg > 7) THEN 1 ELSE 0
  IN  IF a.width = 16 THEN <<102>> ELSE IF w + r + b > 0 THEN <<64 + w + r + b>> ELSE <<>>

(* The ModRM byte with the SIB byte and the displacement.                  *)
RmBytes(a) ==
  LET field == 8 * (IF En(a, {"RM", "MR"}) THEN Low(a.reg) ELSE a.form.digit)
      disp == LittleEndian(a.rm.disp, 1)
  IN  IF a.rm.type = "Reg" THEN <<192 + field + Low(a.rm.reg)>>
      ELSE IF "index" \in DOMAIN a.rm THEN <<64 + field + 4, 8 * a.rm.index + a.rm.base>> \o disp
      ELSE IF a.rm.base = Rsp THEN <<64 + field + 4, 36>> \o disp
      ELSE <<64 + field + a.rm.base>> \o disp

Opcode(a) == IF HasOpcodeReg(a) THEN <<a.form.bytes[1] + Low(a.reg)>> ELSE a.form.bytes

Length(a) == Len(Prefix(a) \o Opcode(a)) + (IF HasRm(a) THEN Len(RmBytes(a)) ELSE 0) + ImmSize(a)

Bytes(a, at) ==
  Prefix(a) \o Opcode(a) \o (IF HasRm(a) THEN RmBytes(a) ELSE <<>>)
    \o LittleEndian(IF En(a, {"D"}) THEN a.imm - at - Length(a) ELSE a.imm, ImmSize(a))

(* An immediate is extended by its sign to the operand's size.             *)
Word(bytes) == bytes \o [k \in 1..(8 - Len(bytes)) |-> 0]
Immediate(a) == ImmOp(Word(LittleEndian(a.imm, a.width \div 8)))

Operands(a) ==
  CASE En(a, {"RM"}) -> <<RegOp(a.reg), a.rm>>
    [] En(a, {"MR"}) -> <<a.rm, RegOp(a.reg)>>
    [] En(a, {"MI"}) -> <<a.rm, Immediate(a)>>
    [] En(a, {"M1"}) -> <<a.rm, ImmOp(Word(<<1>>))>>
    [] En(a, {"M"}) -> <<a.rm>>
    [] En(a, {"OI"}) -> <<RegOp(a.reg), Immediate(a)>>
    [] En(a, {"O"}) -> <<RegOp(a.reg)>>
    [] En(a, {"D"}) -> <<ToOp(a.imm)>>
    [] En(a, {"ZO"}) -> <<>>

(* The address of the i-th instruction of a list, and a list's bytes.      *)
AddressOf(list, i) == FoldLeft(LAMBDA sum, a : sum + Length(a), 0, SubSeq(list, 1, i - 1))
Assembled(list) == FlattenSeq([i \in DOMAIN list |-> Bytes(list[i], AddressOf(list, i))])
=============================================================================
