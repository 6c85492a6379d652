------------------------------ MODULE Lowering ------------------------------
(***************************************************************************)
(* What a function goes through before machine code is emitted for it:     *)
(* src/backend/MoveInserter.cc gives every value a virtual register and    *)
(* turns phis into moves at the end of the predecessors, one visit per     *)
(* step; src/backend/RegAllocator.cc gives every virtual register a stack  *)
(* slot, or rax if it is returned.                                         *)
(*                                                                         *)
(* An operator named X_Y is X with the bug Y; no action uses it.           *)
(***************************************************************************)
EXTENDS Integers, FiniteSets, Sequences, SequencesExt

CONSTANTS
  Blocks,    \* number of blocks, numbered in layout order
  Functions  \* the functions to lower

Block == 1..Blocks

(* Values. Inst(i) is the i-th instruction of the function, New(v) what is *)
(* made when v is visited, Virt(v) the virtual register virt_reg keeps for *)
(* v (and Virt(New(v)) a fresh one for a load or a return), and Slot(r)    *)
(* the AllocInst that register r is spilled to.                            *)
Const(w) == <<"const", w>>
Inst(i) == <<"inst", i>>
New(v) == <<"new", v>>
Phys(n) == <<"phys", n>>
Virt(v) == <<"virt", v>>
Slot(r) == <<"slot", r>>

(* An instruction is a record: what it is as a value, its operation, its   *)
(* operands (a phi's by predecessor), and the blocks it goes to, a         *)
(* CondBranchInst's false destination first.                               *)
NoId == <<"none">>
Instr(id, op, args, dst) == [id |-> id, op |-> op, args |-> args, dst |-> dst]
Move(to, val) == Instr(NoId, "move", <<to, val>>, <<>>)
Constraint(r) == Instr(NoId, "constraint", <<r>>, <<>>)

IsTerminator(inst) == inst.op \in {"branch", "cond", "ret"}
HasValue(inst) == inst.op # "store" /\ ~IsTerminator(inst)

InstrsOf(c) == UNION {ToSet(c[b]) : b \in Block}

(* The operands the constructors of Instructions.hh give an instruction: a *)
(* phi's come later, by predecessor.                                       *)
HasItsOperands(inst) ==
  /\ inst.op \in {"alloc", "branch"} => DOMAIN inst.args = {}
  /\ inst.op \in {"load", "cond", "ret"} => DOMAIN inst.args = 1..1
  /\ inst.op = "phi" => DOMAIN inst.args \subseteq Block
  /\ inst.op \notin {"alloc", "branch", "load", "cond", "ret", "phi"} => DOMAIN inst.args = 1..2

(* A function as it comes to the backend: its instructions are objects of  *)
(* their own, a block ends in its one terminator, and an operand is a      *)
(* constant or an instruction of the function that has a value.            *)
IsFunction(f) ==
  /\ DOMAIN f = Block
  /\ \A b \in Block :
       /\ f[b] \in Seq(ToSet(f[b])) \ {<<>>}
       /\ \A k \in DOMAIN f[b] : IsTerminator(f[b][k]) <=> k = Len(f[b])
  /\ \A b \in Block, c \in Block : \A k \in DOMAIN f[b], j \in DOMAIN f[c] :
       f[b][k].id = f[c][j].id => b = c /\ k = j
  /\ \A inst \in InstrsOf(f) :
       /\ inst = Instr(inst.id, inst.op, inst.args, inst.dst)
       /\ inst.id = Inst(inst.id[2])
       /\ inst.op \notin {"move", "constraint"}
       /\ HasItsOperands(inst)
       /\ \A n \in DOMAIN inst.args :
            \/ inst.args[n] = Const(inst.args[n][2])
            \/ \E def \in InstrsOf(f) : HasValue(def) /\ inst.args[n] = def.id

ASSUME LoweringAssumption ==
  /\ Blocks \in Nat \ {0}
  /\ \A f \in Functions : IsFunction(f)

VARIABLES
  source,  \* the function as it was, constant
  code,    \* the instructions of every block
  work,    \* work_queue of MoveInserter
  stage    \* "insert", "allocate", "allocated"

loweringVars == <<source, code, work, stage>>

LoweringInit ==
  /\ source \in Functions
  /\ code = source
  /\ work = FlattenSeq([b \in Block |-> [k \in DOMAIN source[b] |-> source[b][k].id]])
  /\ stage = "insert"

-----------------------------------------------------------------------------
Terminator(b) == Len(code[b])

(* BasicBlock::insert for each of new, before the k-th instruction of b.   *)
Inserted(c, b, k, new) ==
  [c EXCEPT ![b] = SubSeq(@, 1, k - 1) \o new \o SubSeq(@, k, Len(@))]

(* remove_from_parent *)
Removed(c, b, id) ==
  [c EXCEPT ![b] = RemoveAt(@, CHOOSE k \in DOMAIN @ : @[k].id = id)]

(* replace_all_uses_with *)
Substituted_NotInPhis(c, v, w) ==
  [b \in Block |-> [k \in DOMAIN c[b] |->
    [c[b][k] EXCEPT !.args = [n \in DOMAIN @ |-> IF @[n] = v /\ c[b][k].op # "phi" THEN w ELSE @[n]]]]]
Substituted(c, v, w) ==
  [b \in Block |-> [k \in DOMAIN c[b] |->
    [c[b][k] EXCEPT !.args = [n \in DOMAIN @ |-> IF @[n] = v THEN w ELSE @[n]]]]]

(* The k-th instruction of b is the one MoveInserter visits. *)
Visiting(b, k) ==
  /\ stage = "insert"
  /\ work # <<>>
  /\ code[b][k].id = Head(work)

Visited(c) ==
  /\ code' = c
  /\ work' = Tail(work)
  /\ UNCHANGED <<source, stage>>

(* BinaryInst, CompareInst: the operands are moved to rax and rcx, the     *)
(* result is moved from rax.                                               *)
VisitOperation ==
  \E b \in Block : \E k \in DOMAIN code[b] :
    LET inst == code[b][k]
        new == New(inst.id)
        moves == << Move(Phys(0), inst.args[1]),
                    Move(Phys(1), inst.args[2]),
                    Instr(new, inst.op, <<Phys(0), Phys(1)>>, <<>>),
                    Move(Virt(new), Phys(0)) >>
    IN  /\ Visiting(b, k)
        /\ inst.op \notin {"load", "store", "phi", "branch", "cond", "ret", "alloc"}
        /\ Visited(Removed(Substituted(Inserted(code, b, k, moves), inst.id, Virt(new)), b, inst.id))

VisitLoad ==
  \E b \in Block : \E k \in DOMAIN code[b] :
    LET inst == code[b][k]
        r == Virt(New(inst.id))
        moved == Inserted(code, b, k, << Move(r, inst.args[1]) >>)
    IN  /\ Visiting(b, k)
        /\ inst.op = "load"
        /\ Visited(Removed(Substituted(moved, inst.id, r), b, inst.id))

VisitStore ==
  \E b \in Block : \E k \in DOMAIN code[b] :
    LET inst == code[b][k]
    IN  /\ Visiting(b, k)
        /\ inst.op = "store"
        /\ Visited(Removed(Inserted(code, b, k, << Move(inst.args[1], inst.args[2]) >>), b, inst.id))

(* Every predecessor gets a move before its terminator as it is now.       *)
PhiMoves_AtBlockStart(inst) ==
  [p \in Block |->
    IF p \in DOMAIN inst.args THEN Inserted(code, p, 1, << Move(Virt(inst.id), inst.args[p]) >>)[p]
    ELSE code[p]]
PhiMoves(inst) ==
  [p \in Block |->
    IF p \in DOMAIN inst.args THEN Inserted(code, p, Terminator(p), << Move(Virt(inst.id), inst.args[p]) >>)[p]
    ELSE code[p]]

VisitPhi ==
  \E b \in Block : \E k \in DOMAIN code[b] :
    LET inst == code[b][k]
    IN  /\ Visiting(b, k)
        /\ inst.op = "phi"
        /\ Visited(Removed(Substituted(PhiMoves(inst), inst.id, Virt(inst.id)), b, inst.id))

(* The condition gets a register of its own, or the phi's if it still is   *)
(* one; the branch is replaced by one at the end of the block.             *)
NewCondBranch_Swapped(id, r, dst) == Instr(New(id), "cond", <<r>>, <<dst[2], dst[1]>>)
NewCondBranch(id, r, dst) == Instr(New(id), "cond", <<r>>, dst)

VisitCondBranch ==
  \E b \in Block : \E k \in DOMAIN code[b] :
    LET inst == code[b][k]
        r == Virt(inst.args[1])
        moved == Inserted(code, b, k, << Move(r, inst.args[1]) >>)
    IN  /\ Visiting(b, k)
        /\ inst.op = "cond"
        /\ Visited(Removed([moved EXCEPT ![b] = Append(@, NewCondBranch(inst.id, r, inst.dst))], b, inst.id))

VisitRet ==
  \E b \in Block : \E k \in DOMAIN code[b] :
    LET inst == code[b][k]
        r == Virt(New(inst.id))
    IN  /\ Visiting(b, k)
        /\ inst.op = "ret"
        /\ Visited(Inserted(code, b, k, << Constraint(r), Move(r, inst.args[1]) >>))

(* AllocInst, BranchInst *)
VisitOther ==
  /\ \E b \in Block : \E k \in DOMAIN code[b] : Visiting(b, k) /\ code[b][k].op \in {"alloc", "branch"}
  /\ Visited(code)

EndInsert ==
  /\ stage = "insert"
  /\ work = <<>>
  /\ stage' = "allocate"
  /\ UNCHANGED <<source, code, work>>

-----------------------------------------------------------------------------
(* The registers some move writes; the others are never given a place.     *)
Written == {inst.args[1] : inst \in {i \in InstrsOf(code) : i.op = "move"}}
Constrained == {inst.args[1] : inst \in {i \in InstrsOf(code) : i.op = "constraint"}}

Place(v) ==
  IF v[1] = "virt" /\ v \in Written
  THEN IF v \in Constrained THEN Phys(0) ELSE Slot(v)
  ELSE v

(* RegAllocator::run_on *)
Allocate ==
  /\ stage = "allocate"
  /\ code' = [b \in Block |-> [k \in DOMAIN code[b] |->
       IF code[b][k].op = "constraint" THEN code[b][k]
       ELSE [code[b][k] EXCEPT !.args = [n \in DOMAIN @ |-> Place(@[n])]]]]
  /\ stage' = "allocated"
  /\ UNCHANGED <<source, work>>

LoweringNext ==
  \/ VisitOperation
  \/ VisitLoad
  \/ VisitStore
  \/ VisitPhi
  \/ VisitCondBranch
  \/ VisitRet
  \/ VisitOther
  \/ EndInsert
  \/ Allocate

-----------------------------------------------------------------------------
(* "assert(false)" in InstTranslator::emit_op (Backend.cc:72), for phis    *)
(* and in visit(LoadInst, PhiInst, StoreInst): what is emitted has no      *)
(* virtual register and no instruction but allocs for operands, whatever   *)
(* order uses and definitions were visited in.  A phi without incoming     *)
(* values has nothing that could be allocated for it.                      *)
Emittable(v) ==
  \/ v[1] \in {"const", "phys", "slot"}
  \/ \E inst \in InstrsOf(source) : inst.op = "alloc" /\ inst.id = v

PhisHaveValues == \A inst \in InstrsOf(source) : inst.op = "phi" => DOMAIN inst.args # {}

OnlyEmittable ==
  stage = "allocated" /\ PhisHaveValues =>
    \A inst \in InstrsOf(code) :
      /\ inst.op \notin {"load", "store", "phi"}
      /\ inst.op \notin {"constraint", "ret"} => \A n \in DOMAIN inst.args : Emittable(inst.args[n])

(* Every block still ends in its one terminator, to the same blocks in the *)
(* same order, with nothing inserted after it: the control flow analysis   *)
(* the backend depends on was made of the function before.                 *)
TerminatorsKept ==
  \A b \in Block :
    /\ Len(code[b]) > 0
    /\ Last(code[b]).op = Last(source[b]).op
    /\ Last(code[b]).dst = Last(source[b]).dst
    /\ \A k \in DOMAIN code[b] : IsTerminator(code[b][k]) => k = Len(code[b])
=============================================================================
