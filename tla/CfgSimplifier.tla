--------------------------- MODULE CfgSimplifier ----------------------------
(***************************************************************************)
(* src/transforms/ConstantBranchEvaluator.cc and then CfgSimplifier.cc on  *)
(* one function: branches on constants lose a destination, the control     *)
(* flow graph is computed once, and rounds over the blocks prune those it  *)
(* gives no predecessors and those that only branch.  A turn of a loop     *)
(* over blocks is one step.                                                *)
(*                                                                         *)
(* A block's user list is a vector that the bodies of the loops over it    *)
(* erase from: the loop goes on through the storage it began with.  A      *)
(* phi's values are named by the predecessors they first came from.        *)
(*                                                                         *)
(* An operator named X_Y is X with the bug Y; no action uses it.           *)
(***************************************************************************)
EXTENDS Cfg, Functions

CONSTANT Sources   \* the functions to simplify

(* dst is the graph; cond says what a conditional branch branches on, the  *)
(* constant 1, another constant or a variable; plain are the blocks with   *)
(* an instruction that is neither a phi nor the terminator; phis is the    *)
(* number of phis.                                                         *)
ASSUME SourcesAssumption ==
  \A f \in Sources :
    /\ f.dst \in CfgGraph
    /\ f.cond \in [Block -> {"one", "other", "variable"}]
    /\ f.plain \subseteq Block
    /\ f.phis \in [Block -> Nat]

VARIABLES
  source,      \* the function as it was, constant
  dst,         \* the destinations of every block's terminator
  phis,        \* the incoming values of every block's phis
  users,       \* the user lists of the blocks
  present,     \* the blocks that exist
  cfg,         \* the graph ControlFlowAnalyser saw last
  next,        \* the block the running loop is at
  removeQueue, \* remove_queue, popped at its end
  changed,     \* changed of the running round
  phase        \* "evaluate", "simplify", "remove", or one of the ends

vars == <<source, dst, phis, users, present, cfg, next, removeQueue, changed, phase>>

Ends == {"done", "replaced itself", "users left"}

(* A conditional branch and the branch that takes its place differ.        *)
Terminator(b, d) == <<"terminator", b, Len(d)>>
Phi(b, k) == <<"phi", b, k>>
IsPhi(u) == u[1] = "phi"

(* AllocPromoter adds b to the phis of a destination once for each edge to *)
(* it, and every time add_incoming registers the phi with b: where both    *)
(* edges go to one block, its phis are on the list twice.                  *)
PhisOf(f, s) == [k \in 1..f.phis[s] |-> Phi(s, k)]

PhiUsers(f, b) ==
  LET upTo[e \in 0..Len(f.dst[b])] == IF e = 0 THEN <<>> ELSE upTo[e-1] \o PhisOf(f, f.dst[b][e])
  IN  upTo[Len(f.dst[b])]

Init ==
  /\ source \in Sources
  /\ dst = source.dst
  /\ phis = [b \in Block |-> [k \in 1..source.phis[b] |-> [p \in ToSet(Preds(dst, b)) |-> p]]]
  /\ users = [b \in Block |-> LET from == Preds(dst, b)
                              IN  [k \in DOMAIN from |-> Terminator(from[k], dst[from[k]])] \o PhiUsers(source, b)]
  /\ present = Block
  /\ cfg = dst
  /\ next = 1
  /\ removeQueue = <<>>
  /\ changed = FALSE
  /\ phase = "evaluate"

-----------------------------------------------------------------------------
(* Value::remove_user, for each block of bs. *)
TakenOff(us, bs, u) ==
  LET left[k \in 0..Len(bs)] == IF k = 0 THEN us ELSE [left[k-1] EXCEPT ![bs[k]] = RemoveFirst(@, u)]
  IN  left[Len(bs)]

(* ConstantBranchEvaluator: the new branch is appended before the old one  *)
(* is removed; the phis of the destination not taken are left alone.       *)
Chosen_Inverted(f, b) ==
  IF Len(f.dst[b]) = 2 /\ f.cond[b] # "variable"
  THEN <<f.dst[b][IF f.cond[b] = "one" THEN 1 ELSE 2]>> ELSE f.dst[b]
Chosen(f, b) ==
  IF Len(f.dst[b]) = 2 /\ f.cond[b] # "variable"
  THEN <<f.dst[b][IF f.cond[b] = "one" THEN 2 ELSE 1]>> ELSE f.dst[b]

Evaluate ==
  /\ phase = "evaluate"
  /\ next <= N
  /\ LET was == dst[next]
         is == Chosen(source, next)
     IN  /\ dst' = [dst EXCEPT ![next] = is]
         /\ users' = IF is = was THEN users
                     ELSE TakenOff([users EXCEPT ![is[1]] = Append(@, Terminator(next, is))],
                                   was, Terminator(next, was))
  /\ next' = next + 1
  /\ UNCHANGED <<source, phis, present, cfg, removeQueue, changed, phase>>

(* The dependency on ControlFlowAnalyser runs before the pass, once.       *)
Analyse ==
  /\ phase = "evaluate"
  /\ next > N
  /\ cfg' = dst
  /\ next' = 1
  /\ phase' = "simplify"
  /\ UNCHANGED <<source, dst, phis, users, present, removeQueue, changed>>

-----------------------------------------------------------------------------
(* The storage of a user list and how much of it is in use. Erasing the    *)
(* first entry for u moves those behind it and leaves the last where it    *)
(* was.                                                                    *)
Erased(list, u) ==
  LET used == SubSeq(list.slots, 1, list.size)
  IN  IF ~Contains(used, u) THEN list
      ELSE [slots |-> RemoveFirst(used, u) \o SubSeq(list.slots, list.size, Len(list.slots)), size |-> list.size - 1]

(* PhiInst::remove_incoming(b) of the phi that is the i-th user of b.      *)
Pruned_Skipped(b, s, i) == s
Pruned_ValueStays(b, s, i) ==
  LET u == s.list.slots[i]
  IN  IF IsPhi(u) THEN [s EXCEPT !.list = Erased(@, u)] ELSE s
Pruned(b, s, i) ==
  LET u == s.list.slots[i]
  IN  IF IsPhi(u) /\ b \in DOMAIN s.phis[u[2]][u[3]]
      THEN [s EXCEPT !.phis[u[2]][u[3]] = Restrict(@, DOMAIN @ \ {b}), !.list = Erased(@, u)]
      ELSE s

(* replace_uses_of_with(b, d) of the i-th user of b, which Value then      *)
(* registers with d: a phi that names b registers itself there as well.    *)
(* If the phi has a value for d already, b's is dropped.                   *)
Rekeyed(f, b, d) ==
  [p \in (DOMAIN f \ {b}) \cup {d} |-> IF p = d /\ d \notin DOMAIN f THEN f[b] ELSE f[p]]

Redirected_NotRegistered(b, d, s, i) ==
  LET u == s.list.slots[i]
  IN  IF ~IsPhi(u)
      THEN [s EXCEPT !.dst[u[2]] = ReplaceAll(@, b, d)]
      ELSE s
Redirected(b, d, s, i) ==
  LET u == s.list.slots[i]
  IN  IF ~IsPhi(u)
      THEN [s EXCEPT !.dst[u[2]] = ReplaceAll(@, b, d),
                     !.users[d] = Append(@, u)]
      ELSE IF b \in DOMAIN s.phis[u[2]][u[3]]
      THEN [s EXCEPT !.phis[u[2]][u[3]] = Rekeyed(@, b, d),
                     !.list = Erased(@, u),
                     !.users[d] = @ \o <<u, u>>]
      ELSE [s EXCEPT !.users[d] = Append(@, u)]

(* A loop over the users of b, and the user list it leaves. *)
OverUsers(Step(_, _), b) ==
  LET after[i \in 0..Len(users[b])] ==
        IF i = 0 THEN [dst |-> dst, phis |-> phis, users |-> users, list |-> [slots |-> users[b], size |-> Len(users[b])]]
        ELSE Step(after[i-1], i)
  IN  after[Len(users[b])]

Candidate(b) == b \in present \ {Entry}

HasNoPreds(b) == Preds(cfg, b) = <<>>
OnlyBranches(b) == Len(phis[b]) = 0 /\ b \notin source.plain /\ Len(dst[b]) = 1

Visiting(b) ==
  /\ phase = "simplify"
  /\ next = b
  /\ next' = next + 1
  /\ UNCHANGED <<source, present, cfg>>

Queued(b) == removeQueue' = Append(removeQueue, b) /\ changed' = TRUE

PruneUnreached(b) ==
  /\ Visiting(b)
  /\ Candidate(b)
  /\ HasNoPreds(b)
  /\ LET left == OverUsers(LAMBDA s, i : Pruned(b, s, i), b)
     IN  /\ phis' = left.phis
         /\ users' = [users EXCEPT ![b] = SubSeq(left.list.slots, 1, left.list.size)]
  /\ Queued(b)
  /\ UNCHANGED <<dst, phase>>

PruneBranch(b) ==
  /\ Visiting(b)
  /\ Candidate(b)
  /\ ~HasNoPreds(b)
  /\ OnlyBranches(b)
  /\ dst[b] # <<b>>
  /\ LET left == OverUsers(LAMBDA s, i : Redirected(b, dst[b][1], s, i), b)
     IN  /\ dst' = left.dst
         /\ phis' = left.phis
         /\ users' = [left.users EXCEPT ![b] = <<>>]
  /\ Queued(b)
  /\ UNCHANGED phase

(* A block that only branches to itself is replaced by itself: the loop    *)
(* appends to the vector it runs over, which is undefined.                 *)
ReplaceByItself(b) ==
  /\ Visiting(b)
  /\ Candidate(b)
  /\ ~HasNoPreds(b)
  /\ OnlyBranches(b)
  /\ dst[b] = <<b>>
  /\ phase' = "replaced itself"
  /\ UNCHANGED <<dst, phis, users, removeQueue, changed>>

Keep(b) ==
  /\ Visiting(b)
  /\ Candidate(b) => ~HasNoPreds(b) /\ ~OnlyBranches(b)
  /\ UNCHANGED <<dst, phis, users, removeQueue, changed, phase>>

EndVisits ==
  /\ phase = "simplify"
  /\ next > N
  /\ phase' = "remove"
  /\ UNCHANGED <<source, dst, phis, users, present, cfg, next, removeQueue, changed>>

-----------------------------------------------------------------------------
(* Function::remove destroys the block's instructions, which take          *)
(* themselves off the lists of the blocks they name; before it the users   *)
(* of the block are asserted to be gone.                                   *)
Unregistered(b) ==
  LET left[k \in 0..Len(phis[b])] ==
        IF k = 0 THEN TakenOff(users, dst[b], Terminator(b, dst[b]))
        ELSE [c \in Block |-> IF c \in DOMAIN phis[b][k] THEN RemoveFirst(left[k-1][c], Phi(b, k)) ELSE left[k-1][c]]
  IN  left[Len(phis[b])]

RemoveBlock(b) ==
  /\ users' = Unregistered(b)
  /\ dst' = [dst EXCEPT ![b] = <<>>]
  /\ phis' = [phis EXCEPT ![b] = <<>>]
  /\ present' = present \ {b}

RemoveNext ==
  /\ phase = "remove"
  /\ removeQueue # <<>>
  /\ LET b == Last(removeQueue)
     IN  \/ /\ users[b] = <<>>
            /\ RemoveBlock(b)
            /\ removeQueue' = Front(removeQueue)
            /\ UNCHANGED phase
         \/ /\ users[b] # <<>>
            /\ phase' = "users left"
            /\ UNCHANGED <<dst, phis, users, present, removeQueue>>
  /\ UNCHANGED <<source, cfg, next, changed>>

Reset_Kept == changed
Reset == FALSE

EndRound ==
  /\ phase = "remove"
  /\ removeQueue = <<>>
  /\ phase' = IF changed THEN "simplify" ELSE "done"
  /\ next' = 1
  /\ changed' = Reset
  /\ UNCHANGED <<source, dst, phis, users, present, cfg, removeQueue>>

Next ==
  \/ Evaluate
  \/ Analyse
  \/ \E b \in Block : PruneUnreached(b) \/ PruneBranch(b) \/ ReplaceByItself(b) \/ Keep(b)
  \/ EndVisits
  \/ RemoveNext
  \/ EndRound
  \/ phase \in Ends /\ UNCHANGED vars

Spec == Init /\ [][Next]_vars

(* The passes run in one thread, to their ends: weak fairness of Next,     *)
(* with what enables it written out.                                       *)
FairSpec == Spec /\ (<>[](phase \notin Ends) => []<><<Next>>_vars)

-----------------------------------------------------------------------------
(* Where the function goes from a block, and from there through blocks     *)
(* that only branch.                                                       *)
Meant(b) ==
  IF Len(source.dst[b]) < 2 \/ source.cond[b] = "variable" THEN source.dst[b]
  ELSE IF source.cond[b] = "one" THEN <<source.dst[b][2]>> ELSE <<source.dst[b][1]>>

Passed(b) == b # Entry /\ b \notin source.plain /\ source.phis[b] = 0 /\ Len(Meant(b)) = 1

Through(b) ==
  LET after[k \in 0..N] == IF k = 0 THEN b ELSE IF Passed(after[k-1]) THEN Meant(after[k-1])[1] ELSE after[k-1]
  IN  after[N]

(* When a phi names a block that only branches, it comes to name its own   *)
(* block instead, and erases itself from the list the loop runs over,      *)
(* which then steps over the user behind it: a terminator that was         *)
(* appended behind the phi goes on to the block that is removed.           *)
NamedBy(b) == ToSet(PhiUsers(source, b))
NoPhiBehindBranch == \A b \in Block : Passed(b) => NamedBy(b) = {}

(* The simplified function takes the same way through the blocks that are  *)
(* left as the function did, and no way leads to a block that is gone.     *)
FlowKept ==
  phase = "done" /\ NoPhiBehindBranch =>
    \A b \in Reachable(dst) :
      /\ b \in present
      /\ dst[b] = [k \in DOMAIN Meant(b) |-> Through(Meant(b)[k])]

(* Between rounds the user lists of the blocks are exactly their uses by   *)
(* terminators and phis, and nothing names a block that is gone.  A phi    *)
(* uses a block it names once for each edge it was built with.             *)
User == {Terminator(b, dst[b]) : b \in Block} \cup UNION {{Phi(b, k) : k \in DOMAIN phis[b]} : b \in Block}

Times(list, u) == Cardinality({i \in DOMAIN list : list[i] = u})

Uses(b, u) ==
  IF u \notin User THEN 0
  ELSE IF ~IsPhi(u) THEN Times(dst[u[2]], b)
  ELSE IF b \in DOMAIN phis[u[2]][u[3]] THEN Times(source.dst[b], u[2]) ELSE 0

BetweenRounds == phase = "done" \/ (phase = "simplify" /\ next = 1)

BlockUsersExact ==
  BetweenRounds /\ NoPhiBehindBranch =>
    \A b \in Block :
      /\ b \notin present => \A u \in User : Uses(b, u) = 0
      /\ b \in present => \A u \in User \cup ToSet(users[b]) : Times(users[b], u) = Uses(b, u)

(* The phis have a value for every way into their block and for no other.  *)
(* Where a branch on a constant no longer goes to the block they keep the  *)
(* value.                                                                  *)
NoPhiLosesBranch ==
  \A b \in Block : \A s \in ToSet(source.dst[b]) \ ToSet(Meant(b)) : source.phis[s] = 0

PhisMatch ==
  phase = "done" /\ NoPhiBehindBranch /\ NoPhiLosesBranch =>
    \A b \in present : \A k \in DOMAIN phis[b] :
      /\ DOMAIN phis[b][k] = ToSet(Preds(dst, b))
      /\ \A p \in DOMAIN phis[b][k] : phis[b][k][p] = p

(* remove_incoming takes one entry off the list being run over: of more    *)
(* than two phis one is passed over, and of two entries of one phi the     *)
(* second stays, since the phi no longer names the block.                  *)
FewPhis(b) == Len(PhiUsers(source, b)) <= 2 /\ IsInjective(PhiUsers(source, b))

(* What CfgSimplifier.cc:59 asserts, that nothing uses a removed block,    *)
(* fails only for a block that more than two phis name or that goes to a   *)
(* block with phis on both sides: otherwise the loop over its users took   *)
(* each of them off the list.  A block is removed once, although the       *)
(* rounds go on looking at removed blocks, and it is not the entry.        *)
RemovedUnused ==
  /\ phase = "users left" /\ NoPhiBehindBranch => ~FewPhis(Last(removeQueue))
  /\ IsInjective(removeQueue)
  /\ ToSet(removeQueue) \subseteq present \ {Entry}

(* The rounds end, although they go on reading the first round's graph.    *)
SimplifyingEnds == <>(phase \in Ends)
=============================================================================
