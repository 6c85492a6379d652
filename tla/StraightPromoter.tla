-------------------------- MODULE StraightPromoter --------------------------
(***************************************************************************)
(* src/transforms/AllocPromoter.cc in one block, where AllocPromoter.tla   *)
(* has one variable in many: here there are several variables, whose       *)
(* addresses are values that may be stored and computed with.  A round of  *)
(* the loop in run_on takes two steps: the loads, then the stores.         *)
(* An operator named X_Y is X with the bug Y.                              *)
(***************************************************************************)
EXTENDS StraightCode

VARIABLES
  stores,   \* info.stores of all variables
  changed   \* whether the round changed anything, the loop condition

promoterVars == <<stores, changed>>

PromoterInit == stores = <<>> /\ changed = FALSE

StoresUsing(alloc) ==
  LET list == ir.users[alloc]
      among[k \in 0..Len(list)] ==
        IF k = 0 THEN <<>>
        ELSE IF Is(ir, list[k], {"store"}) THEN Append(among[k-1], list[k]) ELSE among[k-1]
  IN  among[Len(list)]

is_promotable_Always(alloc) == TRUE
is_promotable(alloc) == \A i \in ToSet(StoresUsing(alloc)) : ir.vals[i].args[1] = alloc

vars_map == {a \in ToSet(ir.body) : Is(ir, a, {"alloc"}) /\ StoresUsing(a) # <<>> /\ is_promotable(a)}

(* The variable an instruction is a user of.                               *)
Owner(i) ==
  LET owners == {a \in vars_map : Contains(ir.users[a], i)}
  IN  IF owners = {} THEN Null ELSE CHOOSE a \in owners : TRUE

(* The walk over the block: w.defs is the top of each variable's stack.    *)
Defined(defs, a, v) == [b \in DOMAIN defs \cup {a} |-> IF b = a THEN v ELSE defs[b]]

Visited(w, i) ==
  LET owner == Owner(i)
  IN  IF Is(ir, i, {"load"}) /\ owner \in DOMAIN w.defs
      THEN [w EXCEPT !.ir = ReplacedAll(w.ir, i, w.defs[owner]), !.changed = TRUE]
      ELSE IF Is(ir, i, {"store"}) /\ owner # Null
      THEN [w EXCEPT !.defs = Defined(w.defs, owner, w.ir.vals[i].args[2])]
      ELSE w

Walked ==
  LET upTo[k \in 0..Len(ir.body)] ==
        IF k = 0 THEN [ir |-> ir, defs |-> << >>, changed |-> FALSE] ELSE Visited(upTo[k-1], ir.body[k])
  IN  upTo[Len(ir.body)]

BeginPromoting ==
  /\ running' = "alloc-promoter"
  /\ UNCHANGED <<ir, promoterVars>>

(* A store is among the stores once for each of its uses of a variable.    *)
PromoteLoads ==
  /\ running = "alloc-promoter"
  /\ LET w == Walked
     IN  ir' = w.ir /\ changed' = w.changed
  /\ stores' = FlattenSeq([k \in DOMAIN ir.body |->
                            IF ir.body[k] \in vars_map THEN StoresUsing(ir.body[k]) ELSE <<>>])
  /\ running' = "alloc-promoter stores"

Again_WhileStores == \E i \in ToSet(ir.body) : Is(ir, i, {"store"})
Again == changed \/ stores # <<>>

(* A store removed twice, or one that fails the assertion before it is     *)
(* removed.                                                                *)
Aborts == ~IsInjective(stores) \/ \E i \in ToSet(stores) : ir.users[i] # <<>>

RemoveStores ==
  /\ running = "alloc-promoter stores"
  /\ IF Aborts
     THEN running' = "aborted" /\ UNCHANGED <<ir, promoterVars>>
     ELSE /\ ir' = RemovedAll(ir, stores)
          /\ running' = IF Again THEN "alloc-promoter" ELSE None
          /\ stores' = <<>>
          /\ changed' = FALSE

PromoterNext == PromoteLoads \/ RemoveStores
=============================================================================
