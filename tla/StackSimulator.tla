--------------------------- MODULE StackSimulator ---------------------------
(***************************************************************************)
(* src/frontend/StackSimulator.cc: memory at a register plus a constant    *)
(* becomes a variable for each constant.  The stores are rewritten one a   *)
(* step, then the loads, each in any order, since they are in unordered    *)
(* maps.                                                                   *)
(* An operator named X_Y is X with the bug Y.                              *)
(***************************************************************************)
EXTENDS StraightCode

VARIABLES
  load_map,   \* the loads still to replace and their offsets
  store_map,  \* the stores still to replace, their offsets and, as in
              \* replace_map, the instructions that add them
  alloc_map   \* the variable made for an offset

simulatorVars == <<load_map, store_map, alloc_map>>

NoMap == << >>

SimulatorInit ==
  /\ load_map = NoMap
  /\ store_map = NoMap
  /\ alloc_map = NoMap

-----------------------------------------------------------------------------
find_root_value(start) ==
  LET root[v \in DOMAIN ir.vals] ==
        IF Is(ir, v, Binaries \cup {"load", "store"}) THEN root[ir.vals[v].args[1]] ELSE v
  IN  root[start]

is_phys_reg(v) == Is(ir, v, {"reg"})

Pointer(i) == ir.vals[i].args[1]

(* The operator is not looked at: an offset subtracted is an offset added. *)
Offset(i) == ir.vals[ir.vals[Pointer(i)].args[2]].word

OnStack(op) ==
  {i \in ToSet(ir.body) :
     Is(ir, i, {op}) /\ is_phys_reg(find_root_value(i)) /\ Is(ir, Pointer(i), Binaries)}

Begin ==
  /\ running' = "stack-simulator"
  /\ load_map' = [i \in OnStack("load") |-> Offset(i)]
  /\ store_map' = [i \in OnStack("store") |-> [offset |-> Offset(i), inst |-> Pointer(i)]]
  /\ UNCHANGED <<ir, alloc_map>>

Without(map, key) == [k \in DOMAIN map \ {key} |-> map[k]]

(* The alloc of an offset is made with the first store to it.  A store     *)
(* that was freed is read again, for its block, which is still there.      *)
HasAlloc_Never(offset) == FALSE
HasAlloc(offset) == offset \in DOMAIN alloc_map

Stored(p, i, alloc) == Inserted(Removed(p, i), Position(p, i), "store", <<alloc, p.vals[i].args[2]>>, 0)

ReplaceStore(i) ==
  /\ running = "stack-simulator"
  /\ i \in DOMAIN store_map
  /\ LET offset == store_map[i].offset
         p == IF HasAlloc(offset) THEN ir ELSE Prepended(ir, "alloc", <<"svar", offset>>)
         alloc == IF HasAlloc(offset) THEN alloc_map[offset] ELSE Newest(p)
     IN  /\ ir' = ReplacedAll(Stored(p, i, alloc), store_map[i].inst, alloc)
         /\ alloc_map' = [o \in DOMAIN alloc_map \cup {offset} |-> IF o = offset THEN alloc ELSE alloc_map[o]]
  /\ store_map' = Without(store_map, i)
  /\ UNCHANGED <<running, load_map>>

Loaded(i, alloc) ==
  LET q == Inserted(ir, Position(ir, i), "load", <<alloc>>, 0)
  IN  Removed(ReplacedAll(q, i, Newest(q)), i)

StoresDone_OneIs == alloc_map # NoMap \/ store_map = NoMap
StoresDone == store_map = NoMap

ReplaceLoad(i) ==
  /\ running = "stack-simulator"
  /\ StoresDone
  /\ i \in DOMAIN load_map
  /\ IF load_map[i] \in DOMAIN alloc_map
     THEN /\ ir' = Loaded(i, alloc_map[load_map[i]])
          /\ load_map' = Without(load_map, i)
          /\ UNCHANGED <<running, store_map, alloc_map>>
     ELSE /\ running' = "threw"
          /\ UNCHANGED <<ir, simulatorVars>>

End ==
  /\ running = "stack-simulator"
  /\ store_map = NoMap
  /\ load_map = NoMap
  /\ running' = None
  /\ alloc_map' = NoMap
  /\ UNCHANGED <<ir, load_map, store_map>>

SimulatorNext ==
  \/ \E i \in DOMAIN store_map : ReplaceStore(i)
  \/ \E i \in DOMAIN load_map : ReplaceLoad(i)
  \/ End
=============================================================================
