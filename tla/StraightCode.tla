---------------------------- MODULE StraightCode ----------------------------
(***************************************************************************)
(* A program of one function with one block, as Frontend.cc makes it of    *)
(* code without jumps, together with the operations of Value.cc and        *)
(* BasicBlock.cc the passes rewrite it with, and what it computes.         *)
(*                                                                         *)
(* A program p has its values in p.vals, numbered in the order they are    *)
(* made and never numbered again, the block in p.body, and in p.users[v]   *)
(* the list m_users of the value v.                                        *)
(*                                                                         *)
(* An operator named X_Y is X with the bug Y.                              *)
(***************************************************************************)
EXTENDS Integers, FiniteSets, Sequences, SequencesExt

CONSTANT Registers   \* how many registers there are

ASSUME StraightCodeAssumption == Registers \in Nat /\ Registers >= 2

(* build_registers makes the registers first: they are the values          *)
(* 1..Registers, and two of them have a part of their own.                 *)
Rax == 1
Rsp == 2
Null == 0

Stride == 8   \* what push subtracts and pop adds

VARIABLES
  ir,      \* the program
  running  \* the pass that runs, None between passes, "threw", "aborted"

None == "none"

Binaries == {"add", "sub"}

NoCode ==
  [vals  |-> [r \in 1..Registers |-> [op |-> "reg", args |-> <<>>, word |-> 0]],
   users |-> [r \in 1..Registers |-> <<>>],
   body  |-> <<>>]

-----------------------------------------------------------------------------
Newest(p) == Len(p.vals)
Is(p, v, ops) == v # Null /\ p.vals[v].op \in ops

(* How often a sequence has an element.                                    *)
Times(s, e) == Cardinality({k \in DOMAIN s : s[k] = e})

(* add_user for each of a list, and remove_user.                           *)
AddUsers(users, v, list) == [users EXCEPT ![v] = @ \o list]
RemoveUser(users, v, i) == [users EXCEPT ![v] = RemoveFirst(@, i)]

(* A constructor registers the new value with its operands.                *)
Registered(users, args, i) ==
  LET with[k \in 0..Len(args)] == IF k = 0 THEN users ELSE AddUsers(with[k-1], args[k], <<i>>)
  IN  with[Len(args)]

Made(p, op, args, word) ==
  [p EXCEPT !.vals = Append(@, [op |-> op, args |-> args, word |-> word]),
            !.users = Registered(Append(@, <<>>), args, Len(p.vals) + 1)]

Constant(p, w) == Made(p, "const", <<>>, w)

Position(p, i) == SelectInSeq(p.body, LAMBDA j : j = i)

(* BasicBlock::insert before position k, append and prepend.               *)
Inserted(p, k, op, args, word) ==
  [Made(p, op, args, word) EXCEPT !.body = InsertAt(@, k, Len(p.vals) + 1)]
Appended(p, op, args) == Inserted(p, Len(p.body) + 1, op, args, 0)
Prepended_AtEnd(p, op, word) == Inserted(p, Len(p.body), op, <<>>, word)
Prepended(p, op, word) == Inserted(p, 1, op, <<>>, word)

(* The destructor takes a value off its operands' lists.                   *)
Unregistered(users, args, i) ==
  LET left[k \in 0..Len(args)] ==
        IF k = 0 THEN users
        ELSE IF args[k] = Null THEN left[k-1] ELSE RemoveUser(left[k-1], args[k], i)
  IN  left[Len(args)]

Destroyed(p, i) ==
  [p EXCEPT !.vals[i] = [op |-> "freed", args |-> <<>>, word |-> 0],
            !.users = Unregistered(@, p.vals[i].args, i)]

Removed(p, i) == [Destroyed(p, i) EXCEPT !.body = RemoveFirst(@, i)]

RemovedAll(p, list) ==
  LET after[k \in 0..Len(list)] == IF k = 0 THEN p ELSE Removed(after[k-1], list[k])
  IN  after[Len(list)]

(* replace_uses_of_with of each of a list, and replace_all_uses_with for a *)
(* w or for null.                                                          *)
Substituted(p, list, v, w) ==
  [p EXCEPT !.vals = [i \in DOMAIN p.vals |-> IF Contains(list, i) THEN [p.vals[i] EXCEPT !.args = ReplaceAll(@, v, w)]
                                                             ELSE p.vals[i]]]

ReplacedAll(p, v, w) ==
  LET users == IF w = Null THEN p.users ELSE AddUsers(p.users, w, p.users[v])
  IN  [Substituted(p, p.users[v], v, w) EXCEPT !.users = [users EXCEPT ![v] = <<>>]]

-----------------------------------------------------------------------------
(* The translations of Frontend.cc.  An operand is a register, a constant  *)
(* or the memory at a register plus a displacement.                        *)
RegOp(r) == [type |-> "reg", reg |-> r, disp |-> 0]
ImmOp(w) == [type |-> "imm", reg |-> Null, disp |-> w]
MemOp(r, d) == [type |-> "mem", reg |-> r, disp |-> d]

phys_src(p, r) == Appended(p, "load", <<r>>)

(* What op does to the newest value and a new constant.                    *)
WithConstant(p, op, w) == Appended(Constant(p, w), op, <<Newest(p), Newest(p) + 1>>)

Displaced(p, o) == WithConstant(phys_src(p, o.reg), "add", o.disp)

load_op(p, o) ==
  CASE o.type = "imm" -> Constant(p, o.disp)
    [] o.type = "reg" -> phys_src(p, o.reg)
    [] o.type = "mem" -> LET q == Displaced(p, o) IN Appended(q, "load", <<Newest(q)>>)

store_op(p, o, v) ==
  IF o.type = "reg" THEN Appended(p, "store", <<o.reg, v>>)
  ELSE LET q == Displaced(p, o) IN Appended(q, "store", <<Newest(q), v>>)

translate_mov(p, dst, src) ==
  LET q == load_op(p, src) IN store_op(q, dst, Newest(q))

translate_add(p, dst, src) ==
  LET l == load_op(p, dst)
      r == load_op(l, src)
      q == Appended(r, "add", <<Newest(l), Newest(r)>>)
  IN  store_op(q, dst, Newest(q))

translate_inc(p, dst) == translate_add(p, dst, ImmOp(1))

translate_push(p, src) ==
  LET q == WithConstant(phys_src(p, Rsp), "sub", Stride)
      l == load_op(q, src)
      s == Appended(l, "store", <<Newest(q), Newest(l)>>)
  IN  Appended(s, "store", <<Rsp, Newest(q)>>)

translate_pop(p, dst) ==
  LET sp == phys_src(p, Rsp)
      top == Appended(sp, "load", <<Newest(sp)>>)
      q == Constant(store_op(top, dst, Newest(top)), Stride)
      s == Appended(q, "add", <<Newest(sp), Newest(q)>>)
  IN  Appended(s, "store", <<Rsp, Newest(s)>>)

translate_ret(p) ==
  LET q == phys_src(p, Rax) IN Appended(q, "ret", <<Newest(q)>>)

Translated(p, inst) ==
  CASE inst.opcode = "mov" -> translate_mov(p, inst.dst, inst.src)
    [] inst.opcode = "add" -> translate_add(p, inst.dst, inst.src)
    [] inst.opcode = "inc" -> translate_inc(p, inst.dst)
    [] inst.opcode = "push" -> translate_push(p, inst.src)
    [] inst.opcode = "pop" -> translate_pop(p, inst.dst)
    [] inst.opcode = "ret" -> translate_ret(p)

Lifted(code) ==
  LET upTo[k \in 0..Len(code)] == IF k = 0 THEN NoCode ELSE Translated(upTo[k-1], code[k])
  IN  upTo[Len(code)]

-----------------------------------------------------------------------------
(* Not code of bamf: what a program computes, from any contents of         *)
(* registers and memory.  A word is <<base, offset>>, the base in postfix: *)
(* Base(v) is the address of the register or variable v and Base(Null) is  *)
(* the base of the numbers, "at" what a place holds at first, and "plus"   *)
(* adds two bases.                                                         *)
Base(v) == << <<"base", v>> >>
Initially(place) == <<place[1] \o << <<"at", place[2]>> >>, 0>>
Held(mem, place) == IF place \in DOMAIN mem THEN mem[place] ELSE Initially(place)

Plus(w, x) ==
  LET base == IF w[1] = Base(Null) THEN x[1]
              ELSE IF x[1] = Base(Null) THEN w[1]
              ELSE w[1] \o x[1] \o << <<"plus", 0>> >>
  IN  <<base, w[2] + x[2]>>

Step(s, p, i) ==
  LET val == p.vals[i]
      arg(k) == s.words[val.args[k]]
      computes(w) == [s EXCEPT !.words = (i :> w) @@ @]
  IN  CASE val.op = "load" -> computes(Held(s.mem, arg(1)))
        [] val.op = "add" -> computes(Plus(arg(1), arg(2)))
        [] val.op = "sub" -> computes(<<arg(1)[1], arg(1)[2] - arg(2)[2]>>)
        [] val.op = "store" -> [s EXCEPT !.mem = (arg(1) :> arg(2)) @@ @]
        [] val.op = "ret" -> [s EXCEPT !.ret = arg(1)]
        [] val.op = "alloc" -> s

(* The words computed, the memory and the word returned.                   *)
Execution(p) ==
  LET known == [v \in {u \in DOMAIN p.vals : p.vals[u].op \in {"reg", "alloc", "const"}} |->
                  IF p.vals[v].op = "const" THEN <<Base(Null), p.vals[v].word>> ELSE <<Base(v), 0>>]
  IN  FoldLeft(LAMBDA s, i : Step(s, p, i), [words |-> known, mem |-> << >>, ret |-> <<Base(Null), 0>>], p.body)
=============================================================================
