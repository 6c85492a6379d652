---------------------------- MODULE MCFrontend -----------------------------
EXTENDS Frontend

CONSTANT MaxInsts

FormOf(opcode, size) == CHOOSE f \in Forms : f.opcode = opcode /\ f.size = size
Make(opcode, size, imm) == Instruction(FormOf(opcode, size), 64, 0, RegOp(0), imm)

Ops == {Make("push", 0, 0), Make("ret", 0, 0)}
Jmps == {Make(opcode, 1, to) : opcode \in {"jge", "jmp"}, to \in 0..(2 * MaxInsts + 1)}

(* Control flow: jumps are two bytes long, so that they can be jumped into.*)
Lists == UNION {[1..n -> Ops \cup Jmps] : n \in 0..MaxInsts}
Returning == {Append(l, Make("ret", 0, 0)) : l \in [1..MaxInsts -> Ops \cup Jmps]}

(* Every form with every kind of operands, followed by a return.           *)
Rms == {RegOp(0), RegOp(3), RegOp(Rsp), RegOp(9), MemOp(0, 127), MemOp(5, -8), MemOp(Rsp, 8), Indexed(1, 2, -128)}
AnyForm == [form : Forms, width : {16, 32, 64}, reg : {0, 4, 7, 12}, rm : Rms, imm : {-2, 0, 100}]
Makeable(a) ==
  /\ En(a, {"O", "D", "ZO"}) => a.width = 64
  /\ ~En(a, {"RM", "MR", "O", "OI"}) => a.reg = 0
  /\ a.width = 16 => a.reg < 8 /\ (HasRm(a) /\ a.rm.type = "Reg" => a.rm.reg < 8)
  /\ ~HasRm(a) => a.rm = RegOp(0)
  /\ ~En(a, {"MI", "OI", "D"}) => a.imm = 0
Singles == {<<a, Make("ret", 0, 0)>> : a \in {b \in AnyForm : Makeable(b)}}

Zeros == [k \in 1..16 |-> 0]
Nops == [k \in 1..16 |-> 144]

(* The end of the code cuts a return, or a byte more than that.            *)
Programs ==
  [list : Lists \cup Returning \cup Singles, cut : {0}, rest : {Zeros}]
    \cup [list : Singles, cut : {1, 2}, rest : {Zeros, Nops}]
=============================================================================
