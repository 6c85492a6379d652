----------------------- MODULE TriviallyDeadInstPruner -----------------------
(***************************************************************************)
(* src/transforms/TriviallyDeadInstPruner.cc: instructions without users   *)
(* are removed, the last one first, one a step.                            *)
(* An operator named X_Y is X with the bug Y.                              *)
(***************************************************************************)
EXTENDS StraightCode

VARIABLE work_queue   \* the instructions not looked at yet

PrunerInit == work_queue = <<>>

InitialQueue_Reversed == Reverse(ir.body)
InitialQueue == ir.body

BeginPruning ==
  /\ running' = "trivially-dead-inst-pruner"
  /\ work_queue' = InitialQueue
  /\ UNCHANGED ir

IsDead_StoresToo(i) == ir.users[i] = <<>> /\ ~Is(ir, i, {"ret"})
IsDead(i) == ir.users[i] = <<>> /\ ~Is(ir, i, {"store", "ret"})

Prune ==
  /\ running = "trivially-dead-inst-pruner"
  /\ work_queue # <<>>
  /\ ir' = IF IsDead(Last(work_queue)) THEN Removed(ir, Last(work_queue)) ELSE ir
  /\ work_queue' = Front(work_queue)
  /\ UNCHANGED running

EndPruning ==
  /\ running = "trivially-dead-inst-pruner"
  /\ work_queue = <<>>
  /\ running' = None
  /\ UNCHANGED <<ir, work_queue>>

PrunerNext == Prune \/ EndPruning
=============================================================================
