------------------------------- MODULE Words --------------------------------
(***************************************************************************)
(* Words of W bits (64 in the code) and what BinaryInst and CompareInst    *)
(* compute of them: fold_binary and fold_compare of ConstantFolder.cc.     *)
(*                                                                         *)
(* An operator named X_Y is X with the bug Y; no specification uses it.    *)
(***************************************************************************)
EXTENDS Integers

CONSTANT W

ASSUME WordsAssumption == W \in Nat \ {0}

Word == 0..(2^W - 1)

BinaryOps == {"add", "and", "or", "shl", "sub", "xor"}
ComparePreds == {"eq", "ne", "slt"}

Bit(w, k) == (w \div 2^k) % 2
Signed(w) == IF w < 2^(W-1) THEN w ELSE w - 2^W
Truth(p) == IF p THEN 1 ELSE 0

Bitwise2(F(_, _), a, b) ==
  LET low[k \in 0..W] ==
        IF k = 0 THEN 0 ELSE low[k-1] + 2^(k-1) * F(Bit(a, k-1), Bit(b, k-1))
  IN  low[W]

(* A shift by W or more is undefined. *)
Defined(op, b) == op = "shl" => b < W

Wrap(n) == n % 2^W

Result(op, a, b) ==
  CASE op = "add" -> Wrap(a + b)
    [] op = "sub" -> Wrap(a - b)
    [] op = "shl" -> Wrap(a * 2^b)
    [] op = "and" -> Bitwise2(LAMBDA x, y : x * y, a, b)
    [] op = "or"  -> Bitwise2(LAMBDA x, y : x + y - x * y, a, b)
    [] op = "xor" -> Bitwise2(LAMBDA x, y : (x + y) % 2, a, b)
    [] op = "eq"  -> Truth(a = b)
    [] op = "ne"  -> Truth(a # b)
    [] op = "slt" -> Truth(Signed(a) < Signed(b))
=============================================================================
