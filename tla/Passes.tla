------------------------------- MODULE Passes -------------------------------
(***************************************************************************)
(* src/pass/PassManager.cc running the passes of tools/bamf-perm that have *)
(* something to do in straight code, each once and in any order, and the   *)
(* Verifier between any two.  The passes rewrite one program, and each     *)
(* trusts what the ones before it left.                                    *)
(* An operator named X_Y is X with the bug Y.                              *)
(***************************************************************************)
EXTENDS StackSimulator, RegisterLocaliser, TriviallyDeadInstPruner, StraightPromoter, StraightFolder,
        FiniteSets

CONSTANT Codes   \* the machine code that is lifted, without jumps

(* Code without jumps, as far as StraightCode has its translations, which  *)
(* do not throw or assert on these operands. What is behind a return is in *)
(* a block of its own.                                                     *)
IsOperand(o, types) == o.type \in types /\ (o.type # "imm" => o.reg \in 1..Registers)

Translatable(inst) ==
  /\ inst.opcode \in {"mov", "add", "inc", "push", "pop", "ret"}
  /\ inst.opcode \in {"mov", "add", "pop"} => IsOperand(inst.dst, {"reg", "mem"})
  /\ inst.opcode = "inc" => IsOperand(inst.dst, {"reg"})
  /\ inst.opcode \in {"mov", "add", "push"} => IsOperand(inst.src, {"reg", "mem", "imm"})

ASSUME PassesAssumption ==
  \A c \in Codes :
    /\ c \in Seq(ToSet(c))
    /\ \A i \in DOMAIN c : Translatable(c[i]) /\ (c[i].opcode = "ret" => i = Len(c))

Passes ==
  {"stack-simulator", "register-localiser", "trivially-dead-inst-pruner", "alloc-promoter", "constant-folder"}

VARIABLES
  explicit,  \* the passes of m_explicit that have not run
  reported,  \* whether the Verifier has found fault
  meaning    \* what the code computes, constant: see Meaning

passVars == <<simulatorVars, phys_regs, work_queue, promoterVars, folderVars>>
vars == <<ir, running, passVars, explicit, reported, meaning>>

-----------------------------------------------------------------------------
(* What the code returns, its additions of two values that are not in the  *)
(* code, the places its displacements name, whether all that is loaded by  *)
(* a displacement is stored to by it, and whether it keeps to a frame:     *)
(* each displacement names one place and each place has one, a place is    *)
(* stored to before it is loaded, and pop reads places that have no        *)
(* displacement or were pushed, by an rsp that was only moved.             *)
Meaning(p) ==
  LET run == Execution(p)
      ofKind(ops) == {i \in ToSet(p.body) : Is(p, i, ops)}
      pointer(i) == p.vals[i].args[1]
      displaced == {i \in ofKind({"load", "store"}) : Is(p, pointer(i), Binaries)}
      offset(i) == p.vals[p.vals[pointer(i)].args[2]].word
      place(i) == run.words[pointer(i)]
      writes == displaced \cap ofKind({"store"})
      reads == displaced \ writes
      pushes == {i \in writes : Is(p, pointer(i), {"sub"})}
      pops == {i \in ofKind({"load"}) : Is(p, pointer(i), {"load"})}
      moved(w) == Is(p, w, Binaries) /\ Is(p, pointer(w), {"load"}) /\ pointer(pointer(w)) = Rsp
  IN  [ret    |-> run.ret,
       sums   |-> {i \in ofKind(Binaries) : ~Is(p, p.vals[i].args[2], {"const"})},
       slots  |-> [o \in {offset(i) : i \in displaced} |-> place(CHOOSE i \in displaced : offset(i) = o)],
       stored |-> \A i \in reads : \E j \in writes : offset(j) = offset(i),
       framed |->
         /\ \A i, j \in displaced : offset(i) = offset(j) <=> place(i) = place(j)
         /\ \A i \in reads : \E j \in writes : offset(j) = offset(i) /\ j < i
         /\ \A i \in pops : (\E j \in displaced : place(j) = place(i)) =>
              /\ \E j \in pushes : place(j) = place(i) /\ j < i
              /\ \A k \in ofKind({"store"}) : pointer(k) = Rsp => moved(p.vals[k].args[2])]

Init ==
  /\ \E code \in Codes : ir = Lifted(code)
  /\ running = None
  /\ SimulatorInit
  /\ LocaliserInit
  /\ PrunerInit
  /\ PromoterInit
  /\ FolderInit
  /\ explicit = Passes
  /\ reported = FALSE
  /\ meaning = Meaning(ir)

-----------------------------------------------------------------------------
(* Verifier.cc: in one block an instruction dominates those after it.      *)
dominates(i, j) == Position(ir, i) < Position(ir, j)

Verify ==
  /\ running = None
  /\ reported' = \E i \in ToSet(ir.body) : \E user \in ToSet(ir.users[i]) : ~dominates(i, user)
  /\ UNCHANGED <<ir, running, passVars, explicit, meaning>>

(* The next pass of m_explicit.  The passes that depend on the control     *)
(* flow have it analysed first; no pass here changes that.                 *)
RunPass(p) ==
  /\ running = None
  /\ p \in explicit
  /\ explicit' = explicit \ {p}
  /\ \/ p = "stack-simulator" /\ Begin
        /\ UNCHANGED <<phys_regs, work_queue, promoterVars, folderVars>>
     \/ p = "register-localiser" /\ BeginLocalising
        /\ UNCHANGED <<simulatorVars, work_queue, promoterVars, folderVars>>
     \/ p = "trivially-dead-inst-pruner" /\ BeginPruning
        /\ UNCHANGED <<simulatorVars, phys_regs, promoterVars, folderVars>>
     \/ p = "alloc-promoter" /\ BeginPromoting
        /\ UNCHANGED <<simulatorVars, phys_regs, work_queue, folderVars>>
     \/ p = "constant-folder" /\ BeginFolding
        /\ UNCHANGED <<simulatorVars, phys_regs, work_queue, promoterVars>>
  /\ UNCHANGED <<reported, meaning>>

InPass ==
  /\ \/ SimulatorNext /\ UNCHANGED <<phys_regs, work_queue, promoterVars, folderVars>>
     \/ LocaliserNext /\ UNCHANGED <<simulatorVars, work_queue, promoterVars, folderVars>>
     \/ PrunerNext /\ UNCHANGED <<simulatorVars, phys_regs, promoterVars, folderVars>>
     \/ PromoterNext /\ UNCHANGED <<simulatorVars, phys_regs, work_queue, folderVars>>
     \/ FolderNext /\ UNCHANGED <<simulatorVars, phys_regs, work_queue, promoterVars>>
  /\ UNCHANGED <<explicit, reported, meaning>>

Ended == running \in {"threw", "aborted"} \/ (running = None /\ explicit = {})

Next ==
  \/ \E p \in Passes : RunPass(p)
  \/ InPass
  \/ Verify

Spec == Init /\ [][Next]_vars

(* The manager runs the passes in one thread, to the end: weak fairness of *)
(* the passes, with what enables them written out.                         *)
FairSpec == Spec /\ (<>[](~Ended) => []<><<Next>>_vars)

-----------------------------------------------------------------------------
(* What a word of the rewritten program stands for: a variable, and what   *)
(* it holds at first, for the register or the place it was made for.       *)
PlaceOf(alloc) ==
  LET name == ir.vals[alloc].word
  IN  IF name[1] = "register" THEN <<Base(name[2]), 0>> ELSE meaning.slots[name[2]]

(* Its base is evaluated from left to right, on a stack of words.          *)
Put(stack, token) ==
  LET top == Last(stack)
  IN  CASE token[1] = "base" -> Append(stack, IF Is(ir, token[2], {"alloc"}) THEN PlaceOf(token[2])
                                              ELSE <<Base(token[2]), 0>>)
        [] token[1] = "at" -> Append(Front(stack), Initially(<<top[1], top[2] + token[2]>>))
        [] token[1] = "plus" -> Append(Front(Front(stack)), Plus(Last(Front(stack)), top))

StandsFor(word) ==
  LET base == Last(FoldLeft(Put, <<>>, word[1])) IN <<base[1], base[2] + word[2]>>

(* Between passes, in whatever order they ran so far, the program returns  *)
(* what the code does; the StackSimulator, which tells stack slots by the  *)
(* constant alone, has to have met framed code.                            *)
ResultKept ==
  running = None /\ (meaning.framed \/ "stack-simulator" \in explicit) =>
    StandsFor(Execution(ir).ret) = meaning.ret

Live == {v \in DOMAIN ir.vals : ir.vals[v].op # "freed"}

(* Also in the middle of a pass, no operand is null or freed, and the user *)
(* lists the passes decide by have one entry for each use.                 *)
UsersMatch ==
  \A v \in Live :
    /\ \A u \in ToSet(ir.vals[v].args) : u \in Live /\ Times(ir.users[u], v) = Times(ir.vals[v].args, u)
    /\ \A i \in ToSet(ir.users[v]) : i \in Live /\ Contains(ir.vals[i].args, v)

(* "Instruction does not dominate all uses!" (Verifier.cc:28) is never     *)
(* logged, wherever between the passes the Verifier runs.                  *)
Verified == ~reported

(* One walk from the last instruction to the first leaves none that is     *)
(* trivially dead, although nothing removed is followed to its operands.   *)
DeadGone ==
  running = "trivially-dead-inst-pruner" /\ work_queue = <<>> =>
    \A i \in ToSet(ir.body) : ir.users[i] = <<>> => Is(ir, i, {"store", "ret"})

(* The StackSimulator throws exactly when it meets a load from an offset   *)
(* that no store has, wherever the store is.                               *)
ThrowsOnUnstored ==
  /\ running = "threw" => ~meaning.stored
  /\ running = None /\ "stack-simulator" \notin explicit /\ "register-localiser" \in explicit => meaning.stored

(* What is removed twice or while it is used had two values to compute     *)
(* with. The AllocPromoter removes a store twice only if it stores a       *)
(* variable's address into that variable, as two pushes become with        *)
(* rbp = rsp between them: such a variable counts as promotable.  The      *)
(* ConstantFolder removes twice only what adds two values neither of which *)
(* is in the code, as add rax, rax does: each of them may queue it.        *)
AbortsOnTwoValues ==
  running = "aborted" =>
    IF remove_list = <<>>
    THEN \E i \in ToSet(ir.body) : Is(ir, i, {"store"}) /\ ~IsInjective(ir.vals[i].args)
    ELSE \E i \in meaning.sums : Times(remove_list, i) > 1

(* Every pass ends, the AllocPromoter's rounds among them.                 *)
PassesEnd == <>Ended
=============================================================================
