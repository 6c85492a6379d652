------------------------------ MODULE Frontend ------------------------------
(***************************************************************************)
(* src/x86/Frontend.cc: the decoded instructions become a function.  The   *)
(* first loop makes a block for every address that is jumped to, the       *)
(* second puts every instruction into a block, one instruction a step.     *)
(* Then instructions and function run side by side, along any way the      *)
(* conditions may go.                                                      *)
(*                                                                         *)
(* What an instruction computes is X86's business: here it is an entry     *)
(* that names it.  An operator named X_Y is X with the bug Y.              *)
(***************************************************************************)
EXTENDS Decoder

VARIABLES
  blockAt, \* m_blocks: the block made for an address
  bodies,  \* the function's blocks
  block,   \* m_block
  next,    \* the instruction the running loop is at; phase is "targets",
           \* then "translate", and in the end "threw" or "run"
  pc,      \* the instruction the machine executes next, 0 if there is none
  place    \* the block and position the function executes next

buildVars == <<blockAt, bodies, block, next>>
runVars == <<pc, place>>
vars == <<decodeVars, phase, buildVars, runVars>>

Offset(i) == insts[i].offset
After(i) == Offset(i) + insts[i].length

Conditional == {"jg", "jge", "jle"}
Jumps(i) == insts[i].opcode \in Conditional \cup {"jmp"}
Target(i) == insts[i].operands[1].address

Entry(i) == [kind |-> "inst", inst |-> i]
Branch(b) == [kind |-> "branch", dst |-> <<b>>]
CondBranch(f, t) == [kind |-> "cond", dst |-> <<f, t>>]
Ret == [kind |-> "ret"]

Init ==
  /\ DecoderInit
  /\ blockAt = [a \in {0} |-> 1]
  /\ bodies = << <<>> >>
  /\ block = 1
  /\ next = 1
  /\ pc = 0
  /\ place = <<1, 1>>

-----------------------------------------------------------------------------
(* build_jump_targets: a block for the target, and for what follows a      *)
(* conditional jump, unless the address has one.                           *)
WithBlock(made, a) ==
  IF a \in DOMAIN made.at THEN made
  ELSE [at     |-> [x \in DOMAIN made.at \cup {a} |-> IF x = a THEN Len(made.bodies) + 1 ELSE made.at[x]],
        bodies |-> Append(made.bodies, <<>>)]

WithTargets(made, i) ==
  IF ~Jumps(i) THEN made
  ELSE IF insts[i].opcode = "jmp" THEN WithBlock(made, Target(i))
  ELSE WithBlock(WithBlock(made, Target(i)), After(i))

BuildJumpTargets ==
  /\ phase = "targets"
  /\ next <= Len(insts)
  /\ LET made == WithTargets([at |-> blockAt, bodies |-> bodies], next)
     IN  blockAt' = made.at /\ bodies' = made.bodies
  /\ next' = next + 1
  /\ UNCHANGED <<decodeVars, block, phase, runVars>>

EndJumpTargets ==
  /\ phase = "targets"
  /\ next > Len(insts)
  /\ phase' = "translate"
  /\ next' = 1
  /\ UNCHANGED <<decodeVars, blockAt, bodies, block, runVars>>

-----------------------------------------------------------------------------
EndsIn(body, kinds) == body # <<>> /\ Last(body).kind \in kinds

(* A block that runs into an address with a block of its own branches to   *)
(* it, also when it ends in a return.                                      *)
FallsInto(body) == EndsIn(body, {"inst", "ret"})

Linked ==
  IF Offset(next) \in DOMAIN blockAt /\ FallsInto(bodies[block])
  THEN [bodies EXCEPT ![block] = Append(@, Branch(blockAt[Offset(next)]))]
  ELSE bodies

Current == IF Offset(next) \in DOMAIN blockAt THEN blockAt[Offset(next)] ELSE block

(* A block that has its terminator takes no more instructions.             *)
Full_IfBranches(body) == EndsIn(body, {"branch", "cond"})
Full(body) == EndsIn(body, {"branch", "cond", "ret"})

Opened == IF Full(Linked[Current]) THEN Append(Linked, <<>>) ELSE Linked
Chosen == IF Full(Linked[Current]) THEN Len(Opened) ELSE Current

Translation_Inverted(i) ==
  CASE insts[i].opcode = "ret" -> <<Entry(i), Ret>>
    [] insts[i].opcode = "jmp" -> <<Entry(i), Branch(blockAt[Target(i)])>>
    [] insts[i].opcode \in Conditional -> <<Entry(i), CondBranch(blockAt[Target(i)], blockAt[After(i)])>>
    [] OTHER -> <<Entry(i)>>
Translation(i) ==
  CASE insts[i].opcode = "ret" -> <<Entry(i), Ret>>
    [] insts[i].opcode = "jmp" -> <<Entry(i), Branch(blockAt[Target(i)])>>
    [] insts[i].opcode \in Conditional -> <<Entry(i), CondBranch(blockAt[After(i)], blockAt[Target(i)])>>
    [] OTHER -> <<Entry(i)>>

(* "Unsupported machine instruction", and the assertion of translate_inc.  *)
Unsupported(i) ==
  \/ insts[i].opcode \in {"call", "xor"}
  \/ insts[i].opcode = "inc" /\ insts[i].operands[1].type # "Reg"

Translate ==
  /\ phase = "translate"
  /\ next <= Len(insts)
  /\ ~Unsupported(next)
  /\ block' = Chosen
  /\ bodies' = [Opened EXCEPT ![Chosen] = @ \o Translation(next)]
  /\ next' = next + 1
  /\ UNCHANGED <<decodeVars, blockAt, phase, runVars>>

ThrowUnsupported ==
  /\ phase = "translate"
  /\ next <= Len(insts)
  /\ Unsupported(next)
  /\ phase' = "threw"
  /\ UNCHANGED <<decodeVars, buildVars, runVars>>

-----------------------------------------------------------------------------
(* Not the frontend's: how the instructions run, and how the function it   *)
(* built runs.  Nowhere is where no instruction is.                        *)
Nowhere == 0
Returned == -1
InstAt(a) == IF \E i \in DOMAIN insts : Offset(i) = a
             THEN CHOOSE i \in DOMAIN insts : Offset(i) = a ELSE Nowhere

MachineGoes(i, taken) ==
  CASE insts[i].opcode = "ret" -> Returned
    [] insts[i].opcode = "jmp" \/ (insts[i].opcode \in Conditional /\ taken) -> InstAt(Target(i))
    [] OTHER -> InstAt(After(i))

Begin ==
  /\ phase = "translate"
  /\ next > Len(insts)
  /\ phase' = "run"
  /\ pc' = InstAt(0)
  /\ UNCHANGED <<decodeVars, buildVars, place>>

Ended == <<0, 0>>
FunctionGoes(b, k, taken) ==
  IF k \notin DOMAIN bodies[b] THEN <<b, k>>
  ELSE LET item == bodies[b][k]
       IN  CASE item.kind = "inst" -> <<b, k>>
             [] item.kind = "branch" -> <<item.dst[1], 1>>
             [] item.kind = "cond" -> <<IF taken THEN item.dst[2] ELSE item.dst[1], 1>>
             [] item.kind = "ret" -> Ended

Execute ==
  /\ phase = "run"
  /\ pc \in DOMAIN insts
  /\ \E taken \in BOOLEAN :
       /\ pc' = MachineGoes(pc, taken)
       /\ place' = FunctionGoes(place[1], place[2] + 1, taken)
  /\ UNCHANGED <<decodeVars, phase, buildVars>>

Next ==
  \/ next_inst /\ UNCHANGED <<buildVars, runVars>>
  \/ EndDecoding /\ UNCHANGED <<buildVars, runVars>>
  \/ BuildJumpTargets
  \/ EndJumpTargets
  \/ Translate
  \/ ThrowUnsupported
  \/ Begin
  \/ Execute

Spec == Init /\ [][Next]_vars

-----------------------------------------------------------------------------
(* Whichever way the conditions go, the function comes by the entries of   *)
(* the instructions the machine executes, in their order, returns when it  *)
(* returns, and runs off the end of a block when and only when the machine *)
(* leaves the code or jumps between instructions.                          *)
EntryAt ==
  IF place = Ended THEN Returned
  ELSE IF place[2] \in DOMAIN bodies[place[1]] THEN bodies[place[1]][place[2]].inst
  ELSE Nowhere

FlowKept == phase = "run" => EntryAt = pc

(* The passes read a block's last instruction and nothing else to know     *)
(* where it goes.  That is right for every block but those no instruction  *)
(* is at, the one the code runs off the end of, and those where a return   *)
(* stands before a jump target.                                            *)
BlocksClosed ==
  phase = "run" =>
    \A b \in DOMAIN bodies :
      /\ bodies[b] = <<>> => insts = <<>> \/ \E a \in DOMAIN blockAt : blockAt[a] = b /\ InstAt(a) = Nowhere
      /\ EndsIn(bodies[b], {"inst"}) => Last(bodies[b]).inst = Len(insts)
      /\ \A k \in 1..(Len(bodies[b]) - 1) : bodies[b][k].kind # "inst" =>
           /\ k = Len(bodies[b]) - 1
           /\ bodies[b][k].kind = "ret"
           /\ After(bodies[b][k-1].inst) \in DOMAIN blockAt
=============================================================================
