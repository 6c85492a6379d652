-------------------------- MODULE MCConstantFolder --------------------------
EXTENDS ConstantFolder

(* No instruction is computed from itself: every cycle has a phi.          *)
Acyclic(p) ==
  LET below[k \in 0..N] ==
        IF k = 0 THEN {i \in Inst : p[i].op \in {"phi", "load"}}
        ELSE {i \in Inst : i \in below[k-1] \/
               \A n \in DOMAIN p[i].args : \A j \in Inst : p[i].args[n] = Ref(j) => j \in below[k-1]}
  IN  below[N] = Inst

Argument == {Const(1)} \cup {Ref(i) : i \in Inst}
Binary(ops, args) == [op : ops, args : args \X args]
Phis(n) == [op : {"phi"}, args : [1..n -> Argument]]
Load == [op |-> "load", args |-> <<>>]

(* Every way to connect subtractions, loads and phis.                      *)
Connections ==
  {p \in [Inst -> Binary({"sub"}, Argument) \cup Phis(1) \cup Phis(2) \cup {Load}] : Acyclic(p)}

(* Straight code: no phis, and operands are laid out before what uses them. *)
StraightConnections ==
  {p \in Connections :
     \A i \in Inst : p[i].op # "phi" /\ \A j \in i..N : Ref(j) \notin ToSet(p[i].args)}

(* Every operation on words and a load, whose result another operation,    *)
(* laid out behind or before it, is made of.                               *)
Operation(args) == Binary(BinaryOps \cup ComparePreds, args)
Leaves == {Const(w) : w \in Word} \cup {Ref(3)}
OperationUsing(i) == {b \in Operation({Ref(i), Const(2)}) : Ref(i) \in {b.args[1], b.args[2]}}

Operations ==
  {<<a, b, Load>> : a \in Operation(Leaves), b \in OperationUsing(1)}
  \cup {<<b, a, Load>> : a \in Operation(Leaves), b \in OperationUsing(2)}

Functions == Connections \cup Operations
=============================================================================
