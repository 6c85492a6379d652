---------------------------- MODULE StraightFolder ----------------------------
(***************************************************************************)
(* src/transforms/ConstantFolder.cc in one block, on the user lists other  *)
(* passes keep, where ConstantFolder.tla reads the uses off the operands.  *)
(* A step is the turns of the work queue's loop up to one that folds.      *)
(***************************************************************************)
EXTENDS StraightCode

VARIABLES
  fold_queue,   \* work_queue, popped at its end
  remove_list

folderVars == <<fold_queue, remove_list>>

FolderInit == fold_queue = <<>> /\ remove_list = <<>>

BeginFolding ==
  /\ running' = "constant-folder"
  /\ fold_queue' = ir.body
  /\ UNCHANGED <<ir, remove_list>>

-----------------------------------------------------------------------------
IsConstant(v) == Is(ir, v, {"const"})
Foldable(i) == Is(ir, i, Binaries) /\ \A k \in 1..2 : IsConstant(ir.vals[i].args[k])

fold_binary(i) ==
  LET word(k) == ir.vals[ir.vals[i].args[k]].word
  IN  IF Is(ir, i, {"add"}) THEN word(1) + word(2) ELSE word(1) - word(2)

(* Where the next instruction that is folded stands, 0 if there is none.   *)
NextFold == SelectLastInSeq(fold_queue, Foldable)

FoldNext ==
  /\ running = "constant-folder"
  /\ NextFold # 0
  /\ LET i == fold_queue[NextFold]
         folded == Constant(ir, fold_binary(i))
     IN  /\ ir' = ReplacedAll(folded, i, Newest(folded))
         /\ fold_queue' = SubSeq(fold_queue, 1, NextFold - 1) \o ir.users[i]
         /\ remove_list' = Append(remove_list, i)
  /\ UNCHANGED running

(* remove_from_parent fails on what is used or was removed before.         *)
FailsToRemove == ~IsInjective(remove_list) \/ \E i \in ToSet(remove_list) : ir.users[i] # <<>>

EndFolding ==
  /\ running = "constant-folder"
  /\ NextFold = 0
  /\ IF FailsToRemove
     THEN running' = "aborted" /\ UNCHANGED <<ir, folderVars>>
     ELSE /\ ir' = RemovedAll(ir, remove_list)
          /\ running' = None
          /\ fold_queue' = <<>>
          /\ remove_list' = <<>>

FolderNext == FoldNext \/ EndFolding
=============================================================================
