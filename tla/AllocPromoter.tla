--------------------------- MODULE AllocPromoter ---------------------------
(***************************************************************************)
(* src/transforms/AllocPromoter.cc for one local variable: phis are put at *)
(* the dominance frontiers of the blocks that store to it, then a walk of  *)
(* the dominator tree replaces every load by the definition on top of a    *)
(* stack, and the stores are removed.  Every block of the walk is one      *)
(* step.                                                                   *)
(*                                                                         *)
(* After the pass, the same function runs: the steps of Execute follow any *)
(* path through the graph and compare what each load read from memory      *)
(* before the pass with the value that replaced it.                        *)
(*                                                                         *)
(* An operator named X_Y is X with the bug Y; no action uses it.           *)
(***************************************************************************)
EXTENDS Cfg

CONSTANT Functions   \* graphs ControlFlowAnalyser gets right, each with the
                     \* accesses to the variable: [Block -> Seq(Access)]

Access == {"load", "store", "escape"}     \* "escape" stores the address

ASSUME FunctionsAssumption ==
  \A f \in Functions :
    /\ f.graph \in CfgGraph
    /\ Reducible(f.graph, Dominated(f.graph))
    /\ f.body \in [Block -> Seq(Access)]

VARIABLES
  graph,    \* the control flow graph, constant
  dom,      \* its dominance relation, constant
  body,     \* the accesses, constant but for the removal of the stores
  phase,    \* "collect", "walk", "remove", "run"
  phis,     \* the blocks with a phi for the variable
  incoming, \* incoming values of each phi by predecessor
  entries,  \* how often each phi is in the user list of a predecessor
  replaced, \* the definition each load was replaced by
  defStack, \* def_stack
  work      \* work_queue

passVars == <<graph, dom, body, phase, phis, incoming, entries, replaced, defStack, work>>

(* A definition is named by its place: <<b, k>> is the value stored by the *)
(* k-th access of block b, <<b, 0>> the phi of block b.                    *)
Place == Block \X Nat
None == <<0, 0>>

PhiOf(b) == <<b, 0>>
Places(kind) == UNION {{b} \X {k \in DOMAIN body[b] : body[b][k] = kind} : b \in Block}

PassInit ==
  /\ \E f \in Functions : graph = f.graph /\ body = f.body
  /\ dom = Dominated(graph)
  /\ phase = "collect"
  /\ phis = {}
  /\ incoming = [b \in Block |-> [p \in Block |-> None]]
  /\ entries = [b \in Block |-> [p \in Block |-> 0]]
  /\ replaced = [b \in Block |-> [k \in DOMAIN body[b] |-> None]]
  /\ defStack = <<>>
  /\ work = <<>>

-----------------------------------------------------------------------------
(* The analyses AllocPromoter takes from ControlFlowAnalysis.              *)
Frontiers(b) == DominanceFrontier(graph, dom, b)

Idom(b) == ImmediateDominator(dom, b)
InTree(b) == b \in dom[b]
TreeSuccs(b) == {c \in Block \ {Entry} : InTree(c) /\ Idom(c) = b}

(* is_dead and is_promotable look at the stores that use the alloc.        *)
StoreBlocks == {p[1] : p \in Places("store")}
IsDead == Places("store") \cup Places("escape") = {}
IsPromotable == Places("escape") = {}

PhiBlocks == UNION {Frontiers(b) : b \in StoreBlocks}

(* One round of the loop in run_on: nothing to do, or insert the phis.     *)
BeginRound ==
  /\ phase = "collect"
  /\ IF ~IsDead /\ IsPromotable
     THEN /\ phase' = "walk"
          /\ phis' = phis \cup PhiBlocks
          /\ work' = <<Entry>>
     ELSE /\ phase' = "run"
          /\ UNCHANGED <<phis, work>>
  /\ UNCHANGED <<graph, dom, body, incoming, entries, replaced, defStack>>

(* The stack after the phi and the first k accesses of block b.            *)
StackAfter_PhiNotPushed(b, k) ==
  defStack \o [j \in 1..Cardinality({i \in 1..k : body[b][i] = "store"}) |-> <<b, j>>]
StackAfter(b, k) ==
  LET after[j \in 0..k] ==
        IF j = 0 THEN IF b \in phis THEN Append(defStack, PhiOf(b)) ELSE defStack
        ELSE IF body[b][j] = "store" THEN Append(after[j-1], <<b, j>>)
        ELSE after[j-1]
  IN  after[k]

Top(stack) == IF stack = <<>> THEN None ELSE Last(stack)

(* A load takes the definition on top of the stack, if there is one.       *)
ReachingDef_BlockEntry(b, k) == Top(StackAfter(b, 0))
ReachingDef(b, k) == Top(StackAfter(b, k))

Orders(S) == {s \in [1..Cardinality(S) -> S] : ToSet(s) = S}

IncomingDef_BlockEntry(b) == Top(StackAfter(b, 0))
IncomingDef(b) == Top(StackAfter(b, Len(body[b])))

(* add_incoming, once for each edge: a second call for a block sets the    *)
(* same value and makes another entry.                                     *)
EdgesTo(b, s) == Cardinality({k \in DOMAIN graph[b] : graph[b][k] = s})

WalkBlock ==
  /\ phase = "walk"
  /\ work # <<>>
  /\ LET b == Last(work)
         end == IncomingDef(b)
         filled == IF end = None THEN {} ELSE phis \cap ToSet(Succs(graph, b))
     IN  /\ replaced' = [replaced EXCEPT ![b] =
              [k \in DOMAIN body[b] |-> IF body[b][k] = "load" THEN ReachingDef(b, k) ELSE None]]
         /\ incoming' = [s \in Block |-> [incoming[s] EXCEPT ![b] = IF s \in filled THEN end ELSE @]]
         /\ entries' = [s \in Block |-> [entries[s] EXCEPT ![b] = @ + (IF s \in filled THEN EdgesTo(b, s) ELSE 0)]]
         /\ defStack' = StackAfter(b, Len(body[b]))
         /\ \E order \in Orders(TreeSuccs(b)) : work' = Front(work) \o order
  /\ UNCHANGED <<graph, dom, body, phase, phis>>

(* The stores of the variable are removed and the loop goes round again.   *)
WithoutStores_Kept == body
WithoutStores == [b \in Block |-> [k \in DOMAIN body[b] |->
                    IF body[b][k] = "store" THEN "removed" ELSE body[b][k]]]

RemoveStores ==
  /\ phase = "walk"
  /\ work = <<>>
  /\ body' = WithoutStores
  /\ defStack' = <<>>
  /\ phase' = "collect"
  /\ UNCHANGED <<graph, dom, phis, incoming, entries, replaced, work>>

Promote == BeginRound \/ WalkBlock \/ RemoveStores

-----------------------------------------------------------------------------
(* The meaning of the function before and after the pass.                  *)
VARIABLES
  at,       \* the block about to run
  from,     \* the block it was reached from
  mem,      \* what the variable holds before the pass: a place or None
  phiVal,   \* what each phi evaluated to
  wrong     \* some load got another value than the one memory held

runVars == <<at, from, mem, phiVal, wrong>>
vars == <<passVars, runVars>>

RunInit ==
  /\ at = Entry
  /\ from = Nil
  /\ mem = None
  /\ phiVal = [b \in Block |-> None]
  /\ wrong = FALSE

IsStore(b, k) == body[b][k] \in {"store", "removed"}

(* Memory before the k-th access of block b. *)
MemBefore(b, k) ==
  LET stores == {j \in 1..(k-1) : IsStore(b, j)}
  IN  IF stores = {} THEN mem ELSE <<b, Max(stores)>>

Promoted == \E b \in Block : \E k \in DOMAIN body[b] : body[b][k] = "removed"

(* What a definition is worth, with the given values of the phis.          *)
Eval(vals, d) == IF d # None /\ d[2] = 0 THEN vals[d[1]] ELSE d

Execute ==
  /\ phase = "run"
  /\ Promoted
  /\ LET arriving == IF at \in phis /\ from # Nil
                     THEN Eval(phiVal, incoming[at][from]) ELSE None
         vals == [phiVal EXCEPT ![at] = arriving]
         misread == \E k \in DOMAIN body[at] :
                      /\ body[at][k] = "load"
                      /\ MemBefore(at, k) # None
                      /\ Eval(vals, replaced[at][k]) # MemBefore(at, k)
     IN  /\ phiVal' = vals
         /\ wrong' = (wrong \/ misread)
         /\ mem' = MemBefore(at, Len(body[at]) + 1)
         /\ from' = at
         /\ at' \in ToSet(Succs(graph, at))
  /\ UNCHANGED passVars

Init == PassInit /\ RunInit

Next ==
  \/ Promote /\ UNCHANGED runVars
  \/ Execute

Spec == Init /\ [][Next]_vars

(* The pass runs in one thread, to its end.                                *)
FairSpec == Spec /\ WF_vars(Promote /\ UNCHANGED runVars)

-----------------------------------------------------------------------------
(* The stack is never popped, so it still holds the definitions of one     *)
(* subtree when the walk goes on to the next.  That does no harm when      *)
(* whatever reads the variable in the next subtree is behind a phi.        *)
StoresTo(b) == \E k \in DOMAIN body[b] : IsStore(b, k)
Defines(b) == b \in phis \/ StoresTo(b)
Reads(b) == \/ \E k \in DOMAIN body[b] : body[b][k] = "load"
            \/ \E s \in ToSet(Succs(graph, b)) : s \in phis

NoLeak ==
  \A b \in Block : \A c, d \in TreeSuccs(b) :
    c # d /\ (\E x \in dom[c] : Defines(x)) => d \in phis \/ \A y \in dom[d] : ~Reads(y)

(* The phis are themselves definitions; nothing puts phis at their         *)
(* frontiers.  That does no harm when there is one there already.          *)
FrontiersClosed == \A b \in phis : Frontiers(b) \subseteq phis

(* Where neither shortcut matters, the pass changes no value any load      *)
(* reads on any path through the function.                                 *)
PromotionCorrect == NoLeak /\ FrontiersClosed => ~wrong

(* A load keeps reading memory, whose stores are gone, only if no          *)
(* definition dominates it.                                                *)
DefBefore(b, k) ==
  \/ \E a \in Block \ {b} : b \in dom[a] /\ Defines(a)
  \/ b \in phis
  \/ \E j \in 1..(k-1) : IsStore(b, j)

DefinedLoadsReplaced ==
  phase = "run" /\ Promoted =>
    \A p \in Places("load") :
      InTree(p[1]) /\ DefBefore(p[1], p[2]) => replaced[p[1]][p[2]] # None

(* A phi has an incoming value for every reachable predecessor that a      *)
(* definition reaches through the dominator tree, and one entry in the     *)
(* user list of each block it has a value for.  Only where a block         *)
(* branches to the phi's twice are there more, one of which is left behind *)
(* when the phi is destroyed.                                              *)
PhisFilled ==
  phase = "run" /\ Promoted =>
    \A s \in phis, p \in Block :
      /\ IsEdge(graph, p, s) /\ InTree(p) /\ DefBefore(p, Len(body[p]) + 1) => incoming[s][p] # None
      /\ graph[p] # <<s, s>> => entries[s][p] = Cardinality({incoming[s][p]} \ {None})

(* The loop in run_on comes to an end.                                     *)
PassEnds == <>(phase = "run")

(* "Iteratively replace all uses of every load of a var with the reaching  *)
(* def of the var" (AllocPromoter.cc:94): a load's replacement is the      *)
(* definition memory held.                                                 *)
LoadsGetReachingDef == ~wrong
=============================================================================
