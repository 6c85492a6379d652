--------------------------- MODULE MCLoweredCode ----------------------------
EXTENDS LoweredCode

Alloc(i) == Instr(Inst(i), "alloc", <<>>, <<>>)
Load(i, a) == Instr(Inst(i), "load", <<a>>, <<>>)
Store(i, a, v) == Instr(Inst(i), "store", <<a, v>>, <<>>)
Phi2(i, p, v, q, w) == Instr(Inst(i), "phi", (p :> v) @@ (q :> w), <<>>)
Op(i, op, v, w) == Instr(Inst(i), op, <<v, w>>, <<>>)
Branch(i, b) == Instr(Inst(i), "branch", <<>>, <<b>>)
Cond(i, v, f, t) == Instr(Inst(i), "cond", <<v>>, <<f, t>>)
Ret(i, v) == Instr(Inst(i), "ret", <<v>>, <<>>)

Phis == {Inst(3), Inst(4)}
Entry(dst) == << Alloc(1), Load(2, Inst(1)), Branch(10, dst) >>

(* A block that is its own loop and has two phis, laid out before or after *)
(* the block behind it.                                                    *)
SelfLoops ==
  { 1 :> Entry(body)
    @@ body :> << Phi2(3, 1, Const(0), body, v), Phi2(4, 1, Inst(2), body, w),
                  Op(5, "add", x, Const(1)), Op(6, "slt", Inst(5), Inst(2)),
                  Cond(7, c, 5 - body, body) >>
    @@ (5 - body) :> << Branch(9, 4) >>
    @@ 4 :> << Ret(8, r) >> :
      body \in 2..3, v \in Phis \cup {Inst(5)}, w \in Phis \cup {Inst(5)}, x \in Phis,
      c \in {Inst(4), Inst(6)}, r \in Phis \cup {Inst(5)} }

(* A loop that is left from its header, laid out before or after its       *)
(* latch.                                                                  *)
WhileLoops ==
  { 1 :> Entry(head)
    @@ head :> << Phi2(3, 1, Const(0), 5 - head, v), Phi2(4, 1, Inst(2), 5 - head, w),
                  Op(6, "eq", Inst(3), x), Cond(7, c, 5 - head, 4) >>
    @@ (5 - head) :> << Op(5, "sub", Inst(4), Const(1)), Branch(9, head) >>
    @@ 4 :> << Ret(8, r) >> :
      head \in 2..3, v \in Phis \cup {Inst(5)}, w \in Phis \cup {Inst(5)},
      x \in {Inst(2), Inst(4)}, c \in {Inst(4), Inst(6)}, r \in Phis }

(* Two arms that meet, one of which stores; the meeting block is laid out  *)
(* after both or between them.                                             *)
Diamonds ==
  { 1 :> << Alloc(1), Load(2, Inst(1)), Op(6, "ne", Inst(2), Const(0)), Cond(7, c, 2, 7 - meet) >>
    @@ 2 :> << Op(5, "add", Inst(2), Const(1)), Branch(9, meet) >>
    @@ (7 - meet) :> << Store(10, Inst(1), Const(1)), Branch(11, meet) >>
    @@ meet :> << Phi2(3, 2, v, 7 - meet, Inst(2)), Phi2(4, 2, Const(1), 7 - meet, w),
                  Load(12, Inst(1)), Op(13, op, Inst(3), Inst(12)), Ret(8, r) >> :
      meet \in 3..4, v \in {Inst(2), Inst(5)}, w \in {Inst(6), Inst(2)}, c \in {Inst(2), Inst(6)},
      op \in {"xor", "slt"}, r \in {Inst(4), Inst(13)} }

Shapes == SelfLoops \cup WhileLoops \cup Diamonds
=============================================================================
