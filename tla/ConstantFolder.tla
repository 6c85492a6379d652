--------------------------- MODULE ConstantFolder ---------------------------
(***************************************************************************)
(* src/transforms/ConstantFolder.cc: binaries and compares of constants    *)
(* become constants, phis with one incoming value become that value, and   *)
(* everything folded is removed at the end.  One turn of the work queue's  *)
(* loop is one step, and so is one removal.                                *)
(*                                                                         *)
(* Who uses an instruction is read off the operands: UseDef is about the   *)
(* user lists.  An operator named X_Y is X with the bug Y.                 *)
(***************************************************************************)
EXTENDS Words, FiniteSets, Sequences, SequencesExt

CONSTANTS
  N,        \* number of instructions, numbered in layout order
  Programs  \* the functions to fold

Inst == 1..N
Const(w) == <<"const", w>>
Ref(i) == <<"inst", i>>
Value == {Const(w) : w \in Word} \cup {Ref(i) : i \in Inst}

(* "load" stands for an instruction the pass knows nothing of.             *)
Instruction ==
       [op : BinaryOps \cup ComparePreds, args : Value \X Value]
  \cup [op : {"phi", "load"}, args : Seq(Value)]

ASSUME FolderAssumption ==
  /\ N \in Nat
  /\ Programs \subseteq [Inst -> Instruction]

VARIABLES
  source,     \* the function as it was, constant
  prog,       \* the instructions
  queue,      \* work_queue
  removeList, \* remove_list
  present,    \* the instructions that still exist
  phase       \* "fold", "remove", or one of the ends

vars == <<source, prog, queue, removeList, present, phase>>

Ends == {"done", "replaced itself", "users left", "removed twice"}

(* Pushed in layout order, so popped last first. *)
InitialQueue_Reversed == [i \in Inst |-> N + 1 - i]
InitialQueue == [i \in Inst |-> i]

Init ==
  /\ source \in Programs
  /\ prog = source
  /\ queue = InitialQueue
  /\ removeList = <<>>
  /\ present = Inst
  /\ phase = "fold"

-----------------------------------------------------------------------------
Computes(i) == prog[i].op \in BinaryOps \cup ComparePreds
IsConst(v) == v \notin {Ref(i) : i \in Inst}

Foldable(i) ==
  \/ Computes(i) /\ \A k \in 1..2 : IsConst(prog[i].args[k])
  \/ prog[i].op = "phi" /\ DOMAIN prog[i].args = {1}

(* What i may be replaced by: any word where the result is undefined. *)
Folded_Swapped(i) ==
  IF prog[i].op = "phi" THEN {prog[i].args[1]}
  ELSE {Const(Result(prog[i].op, prog[i].args[2][2], prog[i].args[1][2]))}
Folded(i) ==
  IF prog[i].op = "phi" THEN {prog[i].args[1]}
  ELSE LET a == prog[i].args[1][2]
           b == prog[i].args[2][2]
       IN  IF Defined(prog[i].op, b) THEN {Const(Result(prog[i].op, a, b))}
           ELSE {Const(w) : w \in Word}

-----------------------------------------------------------------------------
(* The operands that are i, one per entry of i's user list.                *)
Uses(i) ==
  UNION {{<<j, k>> : k \in {n \in DOMAIN prog[j].args : prog[j].args[n] = Ref(i)}} : j \in present}

Orders(S) == {s \in [1..Cardinality(S) -> S] : ToSet(s) = S}

(* The users of a folded instruction are queued, in the order of its list. *)
Queued_None(i) == {<<>>}
Queued(i) == {[k \in DOMAIN s |-> s[k][1]] : s \in Orders(Uses(i))}

(* Every operand that is i becomes v. *)
Replaced_FirstOperand(i, v) ==
  [j \in Inst |-> [prog[j] EXCEPT !.args = [k \in DOMAIN @ |-> IF k = 1 /\ @[k] = Ref(i) THEN v ELSE @[k]]]]
Replaced(i, v) ==
  [j \in Inst |-> [prog[j] EXCEPT !.args = [k \in DOMAIN @ |-> IF @[k] = Ref(i) THEN v ELSE @[k]]]]

Rest_Requeued == <<Last(queue)>> \o Front(queue)
Rest == Front(queue)

Skip ==
  /\ phase = "fold"
  /\ queue # <<>>
  /\ ~Foldable(Last(queue))
  /\ queue' = Rest
  /\ UNCHANGED <<source, prog, removeList, present, phase>>

Fold ==
  /\ phase = "fold"
  /\ queue # <<>>
  /\ LET i == Last(queue)
     IN  /\ Foldable(i)
         /\ \E users \in Queued(i) : queue' = Front(queue) \o users
         /\ \E v \in Folded(i) : v # Ref(i) /\ prog' = Replaced(i, v)
         /\ removeList' = Append(removeList, i)
  /\ UNCHANGED <<source, present, phase>>

(* A phi whose only value is itself: replace_all_uses_with appends to the  *)
(* list it iterates over, which is undefined.                              *)
ReplaceByItself ==
  /\ phase = "fold"
  /\ queue # <<>>
  /\ Foldable(Last(queue))
  /\ Folded(Last(queue)) = {Ref(Last(queue))}
  /\ phase' = "replaced itself"
  /\ UNCHANGED <<source, prog, queue, removeList, present>>

BeginRemoval ==
  /\ phase = "fold"
  /\ queue = <<>>
  /\ phase' = IF removeList = <<>> THEN "done" ELSE "remove"
  /\ UNCHANGED <<source, prog, queue, removeList, present>>

(* remove_from_parent on an instruction that is gone is undefined; on one  *)
(* that has users it fails an assertion.                                   *)
RemoveNext ==
  /\ phase = "remove"
  /\ LET i == Head(removeList)
     IN  /\ present' = present \ {i}
         /\ phase' = IF i \notin present THEN "removed twice"
                     ELSE IF Uses(i) # {} THEN "users left"
                     ELSE IF Len(removeList) = 1 THEN "done" ELSE phase
  /\ removeList' = Tail(removeList)
  /\ UNCHANGED <<source, prog, queue>>

Next ==
  \/ Skip
  \/ Fold
  \/ ReplaceByItself
  \/ BeginRemoval
  \/ RemoveNext
  \/ phase \in Ends /\ UNCHANGED vars

Spec == Init /\ [][Next]_vars

(* The pass runs in one thread, to its end. *)
FairSpec == Spec /\ WF_vars(Next)

-----------------------------------------------------------------------------
(* Whatever can be folded and has not been is in the queue, however its    *)
(* operands came to be constants: once the queue is empty nothing is left  *)
(* to fold.                                                                *)
NothingMissed ==
  phase = "fold" =>
    \A i \in Inst : Foldable(i) => i \in ToSet(queue) \cup ToSet(removeList)

(* Nothing that is about to be removed is still an operand, whatever was   *)
(* replaced by what after it was folded: the assertion of                  *)
(* BasicBlock::remove holds.                                               *)
RemovedUnused ==
  phase \in {"fold", "remove"} => \A i \in ToSet(removeList) : Uses(i) = {}

(* What every instruction of p computes, given the words the unknown       *)
(* instructions give and the value each phi takes; -1 where the code's     *)
(* result is undefined or a cycle never gets a value.  Each round of Step  *)
(* computes all instructions from the values of the round before.          *)
Operand(val, v) == IF IsConst(v) THEN v[2] ELSE val[v[2]]
Computed(op, a, b) == IF a = -1 \/ b = -1 \/ ~Defined(op, b) THEN -1 ELSE Result(op, a, b)
Chosen(inst, way) == inst.args[IF way \in DOMAIN inst.args THEN way ELSE 1]

Step(p, known, taken, val) ==
  [i \in Inst |->
    CASE p[i].op = "load" -> known[i]
      [] p[i].op = "phi" ->
           IF p[i].args = <<>> THEN -1 ELSE Operand(val, Chosen(p[i], taken[i]))
      [] OTHER -> Computed(p[i].op, Operand(val, p[i].args[1]), Operand(val, p[i].args[2]))]

Rounds(p, known, taken) ==
  LET after[k \in 0..N] ==
        IF k = 0 THEN [i \in Inst |-> -1] ELSE Step(p, known, taken, after[k-1])
  IN  after

Meaning(p, known, taken) == Rounds(p, known, taken)[N]

(* After the pass no instruction, folded or not, computes another word     *)
(* than in the source, whatever loads return and whichever way phis are    *)
(* entered.                                                                *)
ValuesKept ==
  phase = "done" =>
    \A known \in {[i \in Inst |-> w] : w \in {0, 2^W - 1}}, taken \in [Inst -> 1..2] :
      LET was == Meaning(source, known, taken)
          is == Meaning(prog, known, taken)
      IN  \A i \in Inst : was[i] # -1 => is[i] = was[i]

(* In a function laid out with definitions before uses, without phis and   *)
(* with at most one operand of an instruction another instruction, every   *)
(* instruction is folded once and so removed once.                         *)
Straight ==
  \A i \in Inst :
    /\ source[i].op # "phi"
    /\ \A k \in DOMAIN source[i].args : \A j \in i..N : source[i].args[k] # Ref(j)
    /\ \E k \in 1..2 : \A n \in DOMAIN source[i].args : n = k \/ IsConst(source[i].args[n])

StraightRemovedOnce == phase = "removed twice" => ~Straight

(* Folding ends, also around cycles of phis. *)
FoldingEnds == <>(phase \in Ends)

(* "assert(has_parent());" (Instruction.cc:10): what is removed is there.  *)
RemovesWhatIsThere == phase # "removed twice"
=============================================================================
