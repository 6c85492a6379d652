------------------------------ MODULE Decoder -------------------------------
(***************************************************************************)
(* src/x86/Decoder.cc on src/support/Stream.cc, and the loop of            *)
(* tools/bamf-decomp that decodes a program to its end, one instruction a  *)
(* step.  The stream does not check its length when it is read: behind the *)
(* code is the rest of the file.                                           *)
(* An operator named X_Y is X with the bug Y.                              *)
(***************************************************************************)
EXTENDS Assembler

CONSTANT Codes  \* the programs: a list of instructions, how many of its
                \* bytes the end of the code cuts off, and the rest of the file

ASSUME DecoderAssumption ==
  \A c \in Codes :
    /\ c.cut \in 0..Len(Assembled(c.list))
    /\ Len(c.rest) >= 16
    /\ \A k \in DOMAIN c.rest : c.rest[k] \in 0..255

VARIABLES
  source,       \* the list the stream was made from, constant
  m_data,       \* the bytes, constant
  m_length,     \* how many of them are code, constant
  m_bytes_read,
  insts,        \* the instructions decoded
  phase         \* "decode", "undecodable", then the frontend's

decodeVars == <<source, m_data, m_length, m_bytes_read, insts>>

DecoderInit ==
  /\ \E c \in Codes :
       LET bytes == Assembled(c.list)
       IN  /\ source = c.list
           /\ m_length = Len(bytes) - c.cut
           /\ m_data = SubSeq(bytes, 1, m_length) \o c.rest
  /\ m_bytes_read = 0
  /\ insts = <<>>
  /\ phase = "decode"

-----------------------------------------------------------------------------
(* The tables the constructor builds.                                      *)
Row(opcode, address, operand, operands) ==
  [present |-> TRUE, opcode |-> opcode, address |-> address, operand |-> operand, operands |-> operands]
Absent == [present |-> FALSE]

Imm(width) == [type |-> "Imm", width |-> width]
One == [type |-> "Constant", width |-> 0]
Gpr == [type |-> "ModRmGpr"]
Rm == [type |-> "ModRmRm"]
OpcodeGpr == [type |-> "OpcodeGpr"]
Rel == [type |-> "Rel"]

m_table(op) ==
  CASE op = 3   -> Row("add", 64, 32, <<Gpr, Rm>>)
    [] op = 49  -> Row("xor", 0, 32, <<Rm, Gpr>>)
    [] op = 80  -> Row("push", 0, 64, <<OpcodeGpr>>)
    [] op = 88  -> Row("pop", 0, 64, <<OpcodeGpr>>)
    [] op = 125 -> Row("jge", 8, 0, <<Rel>>)
    [] op = 137 -> Row("mov", 64, 32, <<Rm, Gpr>>)
    [] op = 139 -> Row("mov", 64, 32, <<Gpr, Rm>>)
    [] op = 184 -> Row("mov", 0, 32, <<OpcodeGpr, Imm(0)>>)
    [] op = 195 -> Row("ret", 0, 0, <<>>)
    [] op = 199 -> Row("mov", 64, 32, <<Rm, Imm(32)>>)
    [] op = 232 -> Row("call", 32, 0, <<Rel>>)
    [] op = 233 -> Row("jmp", 32, 0, <<Rel>>)
    [] op = 235 -> Row("jmp", 8, 0, <<Rel>>)
    [] OTHER    -> Absent

m_table_0f(op) ==
  CASE op = 142 -> Row("jle", 32, 0, <<Rel>>)
    [] op = 143 -> Row("jg", 32, 0, <<Rel>>)
    [] OTHER    -> Absent

slashes(op, reg) ==
  CASE op = 131 /\ reg = 0 -> Row("add", 64, 32, <<Rm, Imm(8)>>)
    [] op = 131 /\ reg = 7 -> Row("cmp", 64, 32, <<Rm, Imm(8)>>)
    [] op = 209 /\ reg = 4 -> Row("shl", 32, 32, <<Rm, One>>)
    [] op = 255 /\ reg = 0 -> Row("inc", 0, 32, <<Rm>>)
    [] OTHER               -> Absent

(* The opcodes with a register in them have eight entries.                 *)
BaseOp(op) == IF op \in (80..95) \cup (184..191) THEN op - (op % 8) ELSE op

Operand66 == 102
Address67 == 103
Rex == 64..79
Escape == 15

-----------------------------------------------------------------------------
(* Stream::read of n bytes, the lowest first: the operands of | are        *)
(* evaluated as they are written, which C++ leaves to the compiler.        *)
Byte(at) == m_data[at + 1]
Read_RightFirst(at, n) == Reverse(SubSeq(m_data, at + 1, at + n))
Read(at, n) == SubSeq(m_data, at + 1, at + n)

AsSigned(byte) == IF byte >= 128 THEN byte - 256 ELSE byte
Signed(bytes) == FoldRight(LAMBDA byte, n : 256 * n + byte, Front(bytes), AsSigned(Last(bytes)))

(* One operand of an instruction whose first bytes are known: what it is   *)
(* and where the stream is after it.                                       *)
OpModRm(byte) == [mod |-> byte \div 64, reg |-> (byte \div 8) % 8, rm |-> byte % 8]

ReadsSib(m) == m.rm = 4

DecodedRm(m, at) ==
  LET disp == IF ReadsSib(m) THEN at + 1 ELSE at
  IN  IF m.mod = 3 THEN [op |-> RegOp(m.rm), at |-> disp]
      ELSE [op |-> MemOp(IF ReadsSib(m) THEN Byte(at) % 8 ELSE m.rm, AsSigned(Byte(disp))), at |-> disp + 1]

DecodedOperand(head, info, at) ==
  LET width == IF info.width = 0 THEN head.operand_width ELSE info.width
      size == IF info.type = "Rel" THEN head.address_width \div 8 ELSE width \div 8
  IN  CASE info.type = "Constant" -> [op |-> ImmOp(Word(<<1>>)), at |-> at]
        [] info.type = "Imm" -> [op |-> ImmOp(Word(Read(at, size))), at |-> at + size]
        [] info.type = "Rel" -> [op |-> ToOp(Signed(Read(at, size)) + at + size), at |-> at + size]
        [] info.type = "ModRmGpr" -> [op |-> RegOp(head.mod_rm.reg), at |-> at]
        [] info.type = "ModRmRm" -> DecodedRm(head.mod_rm, at)
        [] info.type = "OpcodeGpr" -> [op |-> RegOp(head.op - BaseOp(head.op)), at |-> at]

-----------------------------------------------------------------------------
(* What next_inst reads before the operands.                               *)
HasSlash(h) == ~h.is_0f /\ h.op \in {131, 209, 255}
HasModRm(row) == \E i \in DOMAIN row.operands : row.operands[i] \in {Gpr, Rm}

Info(h) ==
  CASE h.is_0f -> m_table_0f(h.op)
    [] HasSlash(h) -> slashes(h.op, h.mod_rm.reg)
    [] OTHER -> m_table(BaseOp(h.op))

Opening ==
  LET first == Byte(m_bytes_read)
      op_at == m_bytes_read + (IF first \in {Operand66, Address67} \cup Rex THEN 1 ELSE 0)
      is_0f == Byte(op_at) = Escape
      last == IF is_0f THEN op_at + 1 ELSE op_at
  IN  [prefix |-> first, is_0f |-> is_0f, op |-> Byte(last), mod_rm |-> OpModRm(Byte(last + 1)), at |-> last + 1]

AddressWidth(h) == IF h.prefix = Address67 THEN 32 ELSE Info(h).address
OperandWidth(h) ==
  CASE h.prefix = Operand66 -> 16
    [] h.prefix \in Rex /\ (h.prefix \div 8) % 2 = 1 -> 64
    [] OTHER -> Info(h).operand

(* "Unknown opcode", "Unsupported ModRM addressing mode" *)
Throws(h) ==
  \/ ~Info(h).present
  \/ Contains(Info(h).operands, Rm) /\ h.mod_rm.mod \in {0, 2}

(* What the operands are decoded from.                                     *)
Start(h) ==
  [op |-> h.op, mod_rm |-> h.mod_rm, address_width |-> AddressWidth(h), operand_width |-> OperandWidth(h)]

(* Where the stream is after the first so many operands.                   *)
Positions(h) ==
  LET at[k \in 0..Len(Info(h).operands)] ==
        IF k = 0 THEN IF HasModRm(Info(h)) THEN h.at + 1 ELSE h.at
        ELSE DecodedOperand(Start(h), Info(h).operands[k], at[k-1]).at
  IN  at

Decoded(h) ==
  LET infos == Info(h).operands
      at == Positions(h)
  IN  [opcode |-> Info(h).opcode,
       operands |-> [k \in DOMAIN infos |-> DecodedOperand(Start(h), infos[k], at[k-1]).op],
       operand_width |-> OperandWidth(h),
       offset |-> m_bytes_read, length |-> at[Len(infos)] - m_bytes_read]

has_next == m_bytes_read < m_length

next_inst ==
  /\ phase = "decode"
  /\ has_next
  /\ IF Throws(Opening)
     THEN phase' = "undecodable" /\ UNCHANGED <<m_bytes_read, insts>>
     ELSE /\ insts' = Append(insts, Decoded(Opening))
          /\ m_bytes_read' = m_bytes_read + Last(insts').length
          /\ UNCHANGED phase
  /\ UNCHANGED <<source, m_data, m_length>>

EndDecoding ==
  /\ phase = "decode"
  /\ ~has_next
  /\ phase' = "targets"
  /\ UNCHANGED decodeVars

-----------------------------------------------------------------------------
(* An instruction the decoder is made for: it has no register behind the   *)
(* eighth, no index, no stack pointer as an r/m register, for which a SIB  *)
(* byte is read that is not there, no immediate to be extended by its      *)
(* sign, which is not done, and no 16 bit one in the r/m form of mov.      *)
Plain(a) ==
  /\ a.form.opcode # "sub"
  /\ En(a, {"RM", "MR", "O", "OI"}) => a.reg < 8
  /\ HasRm(a) => IF InMemory(a) THEN "index" \notin DOMAIN a.rm ELSE a.rm.reg < 8 /\ a.rm.reg # Rsp
  /\ En(a, {"MI"}) => \/ a.width = 8 * a.form.size
                      \/ a.width > 8 * a.form.size /\ a.imm >= 0

(* The first so many instructions of the source, all plain and uncut.      *)
PlainUpTo(i) == AddressOf(source, i + 1) <= m_length /\ \A j \in 1..i : Plain(source[j])

(* Code that was assembled is decoded into the instructions it was         *)
(* assembled from, each at its address and up to the first that is not     *)
(* plain or that the end of the code cuts, whatever is behind it; plain    *)
(* code is decoded to its end.                                             *)
CodeDecoded ==
  /\ \A i \in DOMAIN insts :
       i \in DOMAIN source /\ PlainUpTo(i) =>
         /\ insts[i].opcode = source[i].form.opcode
         /\ insts[i].operands = Operands(source[i])
         /\ insts[i].offset = AddressOf(source, i)
         /\ insts[i].length = Length(source[i])
         /\ insts[i].operands # <<>> /\ ~En(source[i], {"D"}) => insts[i].operand_width = source[i].width
  /\ phase # "decode" /\ PlainUpTo(Len(source)) => Len(insts) = Len(source)
=============================================================================
