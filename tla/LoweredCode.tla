---------------------------- MODULE LoweredCode -----------------------------
(***************************************************************************)
(* What src/x86/Backend.cc emits for a lowered function, run beside the    *)
(* function itself: each step runs one block of both.  The function takes  *)
(* all phis of a block at once from the edge it came over; the machine     *)
(* moves words between rax, rcx and stack slots, in the order of the code. *)
(***************************************************************************)
EXTENDS Lowering, Words

CONSTANT Byte   \* bits that setcc writes, 8 in the code

ASSUME ByteAssumption == Byte \in 1..W

VARIABLES
  at,       \* the block that runs next
  from,     \* the block before it
  env,      \* the words the function's instructions gave
  mem,      \* the words its allocs hold
  machine,  \* the words registers, allocs and slots hold
  wide,     \* whether a compare met a left operand of more than a byte
  outcome   \* "running", "returned", "differs"

runVars == <<at, from, env, mem, machine, wide, outcome>>
vars == <<loweringVars, runVars>>

Ids(op) == {inst.id : inst \in {i \in InstrsOf(source) : i.op = op}}
Allocs == Ids("alloc")

Init ==
  /\ LoweringInit
  /\ at = 1
  /\ from = 1
  /\ env = <<>>
  /\ mem = <<>>
  /\ machine = <<>>
  /\ wide = FALSE
  /\ outcome = "running"

(* Neither a local variable nor a register nor a slot is initialised.      *)
Slots == {v \in UNION {Range(inst.args) : inst \in {i \in InstrsOf(code) : i.op # "phi"}} : v[1] = "slot"}

Start ==
  /\ stage = "allocated"
  /\ stage' = "run"
  /\ env' = [i \in {inst.id : inst \in InstrsOf(source)} |-> 0]
  /\ \E w \in Word :
       /\ mem' = [a \in Allocs |-> w]
       /\ machine' = [l \in {Phys(0), Phys(1)} \cup Allocs \cup Slots |-> w]
  /\ UNCHANGED <<source, code, work, at, from, wide, outcome>>

-----------------------------------------------------------------------------
Read(words, v) == IF v[1] = "const" THEN v[2] ELSE words[v]

(* The meaning of the function: an instruction after the other on the      *)
(* values (e) and the memory (m), the phis of a block before all of them.  *)
Evaluated(s, inst) ==
  CASE inst.op = "load" -> [s EXCEPT !.e[inst.id] = s.m[inst.args[1]]]
    [] inst.op = "store" -> [s EXCEPT !.m[inst.args[1]] = Read(s.e, inst.args[2])]
    [] inst.op \in BinaryOps \cup ComparePreds ->
         [s EXCEPT !.e[inst.id] = Result(inst.op, Read(s.e, inst.args[1]), Read(s.e, inst.args[2]))]
    [] OTHER -> s

PhisOf(b) == {inst \in ToSet(source[b]) : inst.op = "phi"}

Entered ==
  [i \in DOMAIN env |->
    IF \E phi \in PhisOf(at) : phi.id = i
    THEN Read(env, (CHOOSE phi \in PhisOf(at) : phi.id = i).args[from])
    ELSE env[i]]

(* The meaning of what the visit methods emit, for the operators they know *)
(* (all but shl, which is asserted not to come).  A move from stack to     *)
(* stack goes through rcx; a compare sets the low byte of rax, which holds *)
(* its left operand, and leaves the others.                                *)
OnStack(v) == v[1] = "slot" \/ v \in Allocs

Compared(lhs, t) == (lhs \div 2^Byte) * 2^Byte + t

Moved(words, dst, val) ==
  LET w == Read(words, val)
  IN  [l \in DOMAIN words |->
        IF l = dst \/ (l = Phys(1) /\ OnStack(dst) /\ OnStack(val)) THEN w ELSE words[l]]

Emitted(words, inst) ==
  LET lhs == words[Phys(0)]
      result == Result(inst.op, lhs, words[Phys(1)])
  IN  CASE inst.op = "move" -> Moved(words, inst.args[1], inst.args[2])
        [] inst.op \in BinaryOps -> [words EXCEPT ![Phys(0)] = result]
        [] inst.op \in ComparePreds -> [words EXCEPT ![Phys(0)] = Compared(lhs, result)]
        [] OTHER -> words

(* CondBranchInst takes its true destination for 1, the machine too. *)
Next2(t, words) ==
  IF t.op = "cond" /\ Read(words, t.args[1]) = 1 THEN t.dst[2] ELSE t.dst[1]

RunBlock ==
  /\ stage = "run"
  /\ outcome = "running"
  /\ LET ir == FoldLeft(Evaluated, [e |-> Entered, m |-> mem], source[at])
         ran == FoldLeft(Emitted, machine, code[at])
         was == Last(source[at])
         is == Last(code[at])
     IN  /\ env' = ir.e
         /\ mem' = ir.m
         /\ machine' = ran
         /\ wide' = (wide \/ \E inst \in ToSet(source[at]) :
                       inst.op \in ComparePreds /\ Read(ir.e, inst.args[1]) >= 2^Byte)
         /\ from' = at
         /\ IF was.op = "ret"
            THEN /\ at' = at
                 /\ outcome' = IF Read(ir.e, was.args[1]) = ran[Phys(0)] THEN "returned" ELSE "differs"
            ELSE /\ at' = Next2(was, ir.e)
                 /\ outcome' = IF Next2(is, ran) = at' THEN "running" ELSE "differs"
  /\ UNCHANGED loweringVars

Next ==
  \/ LoweringNext /\ UNCHANGED runVars
  \/ Start
  \/ RunBlock
  \/ outcome # "running" /\ UNCHANGED vars

Spec == Init /\ [][Next]_vars

-----------------------------------------------------------------------------
(* No phi takes the value of a phi before it in its block: its move would  *)
(* come after that phi's.                                                  *)
InOrder ==
  \A b \in Block : \A k \in DOMAIN source[b], j \in DOMAIN source[b] :
    j < k /\ source[b][j].op = "phi" /\ source[b][k].op = "phi" =>
      source[b][j].id \notin Range(source[b][k].args)

Dsts(b) == Range(Last(source[b]).dst)

(* No block branches on a phi of the block it branches to.                 *)
ConditionsRead ==
  \A b \in Block : \A s \in Dsts(b) :
    Last(source[b]).op = "cond" => Last(source[b]).args[1] \notin {phi.id : phi \in PhisOf(s)}

(* Where a block chooses between s and another block, no phi of s is used  *)
(* any more on the other way, until s is entered again.                    *)
ReachedAvoiding(b, s) ==
  LET reached[n \in Nat] ==
        IF n = 0 THEN {b} \ {s}
        ELSE reached[n-1] \cup ((UNION {Dsts(c) : c \in reached[n-1]}) \ {s})
  IN  reached[Blocks]

UsedOnEdge(id, b, c) == \E phi \in PhisOf(c) : b \in DOMAIN phi.args /\ phi.args[b] = id
UsedIn(id, b) == \E inst \in ToSet(source[b]) : inst.op # "phi" /\ id \in Range(inst.args)

EdgesSplit ==
  \A b \in Block : \A s \in Dsts(b), t \in Dsts(b) : s # t =>
    \A phi \in PhisOf(s) :
      /\ ~UsedOnEdge(phi.id, b, t)
      /\ \A c \in ReachedAvoiding(t, s) :
           ~UsedIn(phi.id, c) /\ \A d \in Dsts(c) : ~UsedOnEdge(phi.id, c, d)

(* Moves that are made one after another before the terminator, on every   *)
(* way out of the block, do what the phis do at once on their edge, and    *)
(* compares of values of a byte give 0 or 1: the machine then goes the way *)
(* of the function and returns its word.                                   *)
CodeCorrect == InOrder /\ ConditionsRead /\ EdgesSplit /\ ~wide => outcome # "differs"
=============================================================================
