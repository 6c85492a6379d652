# A TLA+ model of bamf

bamf is a binary analysis framework: it decodes x86 machine code, lifts it to
an SSA-like intermediate representation (IR), runs a list of passes over that,
and emits x86 again.  This directory models the parts of it whose correctness
depends on many steps being taken in the right order, checks them with TLC on
small instances, and proves for every instance what holds of the def-use chains, the
control flow analysis, the promotion of variables, constant folding, the
simplification of the control flow, the passes over straight code in any order, the
insertion of moves and the blocks the frontend makes.

Paths below are relative to the repository's root.

## 1. Inventory

| Component | State it keeps | Operations | What is hard about it | What makes it correct |
|---|---|---|---|---|
| Values and def-use chains (`src/ir/Value.cc`, `Instructions.cc`, `BasicBlock.cc`, `Program.cc`) | every value's `m_users`, one entry per use; every instruction's operands; a phi's `m_incoming` | constructors and destructors, `add_incoming`, `remove_incoming`, `replace_all_uses_with`, `BasicBlock::remove`, `remove_global` | two representations of one relation kept in step by hand; an iteration over a list that its body extends; freeing guarded by the list | the lists are exactly the uses, nothing refers to freed memory, a replacement is one substitution and ends |
| Graph (`include/bamf/graph/Graph.hh`) | edges, and two maps of edge lists | `connect`, `disconnect`, `emplace`, `remove`, `preds`, `succs` | doubled edges; `remove` leaves the edges of the other end | both maps list the same edges |
| Depth-first search (`DepthFirstSearch.hh`) | a state per vertex, the two orders | one recursive function | cycles, doubled edges, unreachable vertices | complete, topological up to cycles |
| Dominance computer (`DominanceComputer.hh`) | `doms`, `changed` | one sweep or more over the reverse post order | predecessors not yet processed, the loop condition, map lookups that throw | immediate dominators; ends |
| Control flow analysis (`src/analyses/`) | graph, dominator tree, frontiers | built once per run of the pass; read by others | the walk of a tree that comes out of an unordered map; results outlive the code they describe | frontiers by definition |
| AllocPromoter (`src/transforms/AllocPromoter.cc`) | a definition stack and the stores of each variable, a work queue | place phis, replace loads, remove stores | the stack is never popped; phis get no phis at their own frontiers; loads without definition | every load gets the value memory held |
| ConstantFolder | a work queue and a list of instructions to remove | folds binaries, compares, single phis | one instruction queued several times; a phi that is its own value | folds all that can be folded, each removed once |
| ConstantBranchEvaluator, CfgSimplifier, TriviallyDeadInstPruner | the function itself | rewrite terminators, remove blocks and instructions | mutation during iteration, phis of removed edges, an analysis that is out of date | no phi names an edge that is gone, nothing reachable is removed |
| Verifier | none | reports | its dominance test within a block | reports exactly the uses not dominated |
| PassManager (`src/pass/`, `include/bamf/pass/`) | the explicit passes, one instance per type, results per function | `add`, `run`, `make`, `get`, dependencies | results are never invalidated; any order of passes is possible (`tools/bamf-perm`) | a pass reads an analysis of the function as it is |
| x86 frontend (`src/x86/Frontend.cc`) | blocks by address, the current block | `build_jump_targets`, one translation per opcode | fallthrough, jumps to addresses no instruction starts at | every block ends in one terminator |
| RegisterLocaliser, StackSimulator (`src/frontend/`) | maps from loads and stores to offsets, allocs | replace registers and stack slots by allocs | unordered-map order, a store used after it was removed | accesses to one slot share one alloc |
| MoveInserter, RegAllocator, x86 backend (`src/backend/`, `src/x86/Backend.cc`) | virtual registers, spill slots, labels | one visit per instruction | phis become moves one after the other | a predecessor's moves act at once |
| Decoder and stream (`src/x86/Decoder.cc`, `src/support/Stream.cc`) | position, instruction table | `next_inst`, `read` | prefixes, a byte read too many or too few, the end of the code | what was assembled is decoded, each instruction at its address |
| Loading, printing, tools | none that outlives a call | I/O and formatting | nothing a model checker reaches | - |

The components meet in two places.  All passes share the IR: each mutates
operands and user lists that the next one trusts.  And passes that declare a
dependency on `ControlFlowAnalyser` read its result from the pass manager,
which holds the graph as it was when the analysis ran.

There is one thread.  The hard behaviours are those of steps inside one call
(a loop over a list being changed), of sequences of legal calls, and of orders
the code does not choose (layout, `std::unordered_map`).

## 2. Modules

| Module | Models | Notes |
|---|---|---|
| `IRValues` | values, operand lists and `replace_uses_of_with` | constants only; shared by the next two |
| `ValueGraph` | what the def-use chains promise: no lists, an atomic substitution, destruction of unused values | abstract specification |
| `UseDef` | the user lists as the code keeps them; `replace_all_uses_with` is one step per entry | implements `ValueGraph` |
| `UseDefProofs` | theorems about `UseDef` | see section 5 |
| `Cfg` | control flow graphs, and the textbook definitions of dominance, frontiers and reducibility | reference definitions |
| `DepthFirstSearch` | the recursion of `dfs`, a step per call and per return | |
| `DominanceComputer` | the sweep, one block a step, then the tree | extends the search it runs |
| `ControlFlowAnalyser` | the frontiers, one block a step | extends both: the whole analysis |
| `DominanceProofs` | theorems about the search, the dominators and the frontiers | see section 5 |
| `AllocPromoter` | the promotion of one variable, one block of the walk a step, and then any execution of the function | takes the frontiers and the tree from `Cfg`'s definitions, which `ControlFlowAnalyser` is checked to compute |
| `AllocPromoterProofs` | theorems about `AllocPromoter` | see section 5 |
| `Words` | machine words of `W` bits and what the IR's operators do to them | constants only; shared by four modules |
| `ConstantFolder` | the work queue, one turn a step, and the removals, one a step | uses are read off the operands, as `UseDef` justifies |
| `ConstantFolderProofs` | theorems about `ConstantFolder` | see section 5 |
| `CfgSimplifier` | `ConstantBranchEvaluator` and then the rounds of `CfgSimplifier`, one block a step | the user lists of blocks as vectors that change under the loops over them; the analysis as stale data |
| `CfgSimplifierProofs` | theorems about `CfgSimplifier` | see section 5 |
| `Lowering` | `MoveInserter`, one visit a step, then `RegAllocator` | |
| `LoweringProofs` | theorems about `Lowering` | see section 5 |
| `LoweredCode` | what the machine code does that the backend emits, run beside the function it was made from | extends `Lowering` |
| `Assembler` | the bytes of an instruction and what they mean, after the processor's manual | reference definitions, not code of bamf |
| `Decoder` | `Stream`, the opcode tables, `next_inst` and the tools' loop around it, one instruction a step | |
| `Frontend` | blocks and terminators from the decoded instructions, one instruction a step, and then code and function side by side | extends `Decoder`: from bytes to a function |
| `FrontendProofs` | theorems about `Frontend` | see section 5 |
| `X86` | what the translated machine instructions do to registers, memory and jumps | abstract specification |
| `Translation` | what the translations of single instructions store, one instruction a step | implements `X86` |
| `StraightCode` | a program of one block: values, operands, user lists with their order, the operations of `Value.cc` and `BasicBlock.cc` on them, the IR the frontend makes of `mov`, `add`, `inc`, `push`, `pop` and `ret`, and what it computes | shared by the passes below |
| `StackSimulator`, `RegisterLocaliser`, `TriviallyDeadInstPruner`, `StraightPromoter`, `StraightFolder` | one pass each in straight code | the first three are the passes; the last two are `AllocPromoter` and `ConstantFolder` once more, as the other passes meet them |
| `Passes` | `PassManager` running the five in any order, and the `Verifier` between any two | composes the five |
| `PassesProofs` | theorems about `Passes` | see section 5 |
| `MCControlFlow`, `MCAllocPromoter`, `MCConstantFolder`, `MCCfgSimplifier`, `MCLoweredCode`, `MCFrontend`, `MCTranslation`, `MCPasses` | the instances TLC checks | |

The frontend is in two halves that meet in the instruction: `Frontend` says in which
order and where instructions are put, whatever they compute; `Translation` says
what each computes, wherever it is.  `StraightCode` has both for code without
jumps, where the passes are composed.

Each `...Proofs` module stands by itself: the few lemmas on sequences, intervals and
reachability that several of them need are in each that needs them.

### How state and actions correspond to the code

`UseDef`.  `oper[i]` is the operand list of instruction `i`: three slots for the
members of the other classes, one slot per block for a phi.  `users[v][i]` is the
number of entries for `i` in `v->m_users`; the order of the entries matters only
to the order in which `replace_all_uses_with` visits them, which `ReplaceUse`
leaves open.  `pending` is what its loop has not reached: the code iterates over
the list that existed at the start (a new entry goes to the list of the
replacement, a different value).  Each action is one C++ operation with the
registrations it makes; `Destroy` has the assertion of `BasicBlock::remove`
as its guard and the destructor's unregistering as its effect.  Operands live
through the operation because the guards are the code's, which is what
`NoDangling` checks.

`DepthFirstSearch`, `DominanceComputer`, `ControlFlowAnalyser`.  `graph` gives
the destinations of every terminator.  The predecessors of a block come in
the order the edges were connected, which is the layout order of their sources,
and that order decides what `DominanceComputer` does.  A lookup with `at` that
fails is the value `Throws` and ends the analysis in the phase `"threw"`.  The
loop condition is the code's: `changed` is whether the last block's dominator
was what the map already had.  `AddFrontier` visits the tree's blocks in any
order that has children first, since the order of siblings is that of an
`unordered_map`.

`AllocPromoter`.  A definition is named by its place: the `k`-th access of a
block, or its phi.  `BeginRound` is the collection of loads and stores with its
two early exits, and the insertion of phis; `WalkBlock` is one iteration of the
work queue with the loads, the pushes and the incoming values of the successors'
phis, with the entries the phis get in the user list of the block; `RemoveStores` ends a round.  `Execute` is not code of bamf: it runs the
function along any path, once by memory and once by the replaced loads and the
phis, and `wrong` records a difference.

`ConstantFolder`.  `queue` is the work queue, popped at its end; `Fold` pops an
instruction, queues its users in the order of its user list (any order, since
earlier replacements permute it), replaces it everywhere and puts it on
`removeList`; nothing marks it as folded, so it may be popped and folded again, as in
the code.  A shift by the width or more, which is undefined, may give any
word.  A phi that is its own only value ends the run in the phase
`"replaced itself"`, where `replace_all_uses_with` grows the list it
iterates over; `RemoveNext` ends it in `"users left"` when the assertion of
`BasicBlock::remove` would fail and in `"removed twice"` when the instruction is
already freed.

`CfgSimplifier`.  A function is its graph (`dst`), the phis of each block and which blocks
have other instructions; `users[b]` is the vector of the terminators
and phis that use block `b`, in its order.  The loop over it in
`replace_all_uses_with`, and the one that calls `remove_incoming`, run through the storage of
the vector while their bodies erase from it: `OverUsers` goes through the
positions the vector had at first, and `Erased` moves entries up and leaves
what is behind them, which is what the iterators of the code read.  `cfg` is the graph
as `ControlFlowAnalyser` saw it, before the first round; predecessors come from it and
destinations from the function as it is.  `RemoveNext` ends the pass in
`"users left"` when the assertion before `Function::remove` would fail.

`Lowering`, `LoweredCode`.  `code` is the list of instructions of every block; each
visit of `MoveInserter` inserts moves and substitutes the virtual registers as the
code does, in the order of `work_queue`; `Allocate` is the whole of
`RegAllocator`.  `RunBlock` then executes a block of the function as it was (phis at once,
on values and memory) and the same block as `Backend.cc` emits it (moves in their order,
on registers and stack slots), and `outcome` records whether they go on to the same
block and return the same word.  Uninitialised slots and variables hold any one
word.  `Byte` is the width of what `setcc` writes.

`Decoder`.  `m_data` is the code and what is behind it in the file; `next_inst`
reads it at `m_bytes_read` as the code does, by the tables the constructor fills.
The stream's `read` of more than a byte leaves the order of its two calls to
the compiler; the model has the order they are written in.  An operand's
immediate is the eight bytes of a word, since that is what the union holds, and a jump's is the
address.  What the decoder is held against is `Assembler`, which puts together
bytes from the manual's columns.

`StraightCode` and the passes.  `ir.users[v]` is `m_users` with its order, and `Made`,
`Destroyed`, `ReplacedAll` do to it what constructors, destructors and
`replace_all_uses_with` do, null included.  `StackSimulator` replaces one store or
load a step, any that is left, since they come out of unordered maps; a freed store is read
again for its block, which the model takes to be the block it had.  `RegisterLocaliser`
has one step per register, the pruner one per turn of its queue, the promoter
two per round, the folder one per fold.  `Execution` is not code of bamf: it computes on words that are a
number or an address plus a number, and registers and memory hold at first
words of their own, so that equal results are equal for every content.
`StandsFor` maps a variable back to the register or slot it was made for.

`Frontend`.  `blockAt` is `m_blocks`, `bodies` the blocks of the function in which an
entry names the instruction it was translated from.  `Translate` is one turn of the second
loop: it links the block before a jump target to it, changes to the target's block,
opens a new block after a terminator, and appends.  `Execute` is not bamf's: it runs the
instruction list and the function by the same choices of conditions.

`Translation`.  `global` and `flag` are the global variables that stand for
registers and flags.  Each `translate_` operator has the loads, operations and stores of
its function, on words of `W` bits, in the order that matters.  `ran` names the
instruction translated, so that the refinement of `X86` compares instruction by
instruction.

An operator named `X_Y` is `X` with the plausible bug `Y`.  No specification uses it;
replacing `X` by it makes a property fail, which shows that the property is
about the code.

## 3. Runs

| Run | Instance | Checks |
|---|---|---|
| `UseDef_all` | one instruction, one phi, two globals, two blocks | `TypeOK`, `UsersExact`, `NoDangling`, `NothingLostByClear`, refinement of `ValueGraph`, `ReplaceTerminates` |
| `ControlFlow_all4` | every graph of three blocks, doubled edges, self loops and unreachable blocks included, and of four reachable blocks without doubled edges whose last does not branch conditionally | `TypeOK`, `PostOrderCorrect`, `ThrowsOnLateStart`, `DominatesCorrect`, `FrontiersCorrect`, `AnalysisEnds` |
| `AllocPromoter_all` | every reducible graph of three blocks with up to two accesses per block (one in the entry, and one when the address escapes), one graph with a doubled edge, and three five-block shapes with at most one access per block | `PromotionCorrect`, `DefinedLoadsReplaced`, `PhisFilled`, `PassEnds` |
| `ConstantFolder_all3` | every function of three subtractions, loads and phis of one or two values, and every pair of binaries and compares with a load; words of two bits, user lists in every order | `NothingMissed`, `RemovedUnused`, `StraightRemovedOnce`, `ValuesKept`, `FoldingEnds` |
| `CfgSimplifier_blocks5` | functions of five blocks: a conditional entry, two blocks in its arms that go to each other, to themselves, on or to the end, one that goes to the end, and the end; constant and variable conditions, with and without other instructions, a block that branches to the end on both sides, up to one phi in one of the arms and three in the end | `FlowKept`, `BlockUsersExact`, `PhisMatch`, `RemovedUnused`, `SimplifyingEnds` |
| `LoweredCode_shapes4` | self loops, while loops and diamonds of four blocks with two phis in every combination of operands, conditions and layouts; words of three bits, of which two are the "byte" | `CodeCorrect`, `OnlyEmittable`, `TerminatorsKept` |
| `Frontend_streams3` | every list of up to three instructions (`MaxInsts`), and of three with a return behind them, jumps two bytes long to every address from 0 to past the end; every form of instruction with every kind of operand, and with one or two bytes cut off | `CodeDecoded`, `FlowKept`, `BlocksClosed` |
| `Passes_orders` | programs over three registers of up to two (`MaxInsts`) of eight moves, pushes, pops and stack accesses, those of three that begin with a push, or that store a slot, do something and load it, the frames of two accesses a compiler makes, and additions (`Added`) of what registers and memory hold: two behind `mov rax, 5` and `inc rax`, or one with another instruction; every order of five passes, the Verifier anywhere | `UsersMatch`, `Verified`, `DeadGone`, `ResultKept`, `ThrowsOnUnstored`, `AbortsOnTwoValues`, `PassesEnd` |
| `Translation_words3` | every sequence of three instructions (`MaxSteps`) over two registers, every word of three bits in them, a stack slot (`Stride`) of one address | refinement of `X86` (`ImplementsX86`) |
| `ControlFlow_irreducible` | the four-block graphs of `ControlFlow_all4` | finds `BuildsIdomTree` violated |
| `AllocPromoter_siblings` | a conditional with two arms, a store before it, a load in the first arm and a store in the second, and none behind them | finds `LoadsGetReachingDef` violated |
| `ConstantFolder_twice` | three subtractions and loads, without phis, operands laid out before what uses them | finds `RemovesWhatIsThere` violated |

Why the bounds are enough to be interesting.  One instruction, a phi and two globals
are the fewest values with which one value is used twice by one user, by two
users, by itself (a phi), and by nobody, and replaced by another that is not a user; a second block lets a phi have two
entries with one value.  Four blocks are the fewest with an irreducible loop
behind an entry, and with a diamond; three are the fewest where a latch is laid
out before the block that enters its loop.  Five blocks are the fewest with a diamond
and code after it.  Three instructions are the fewest with a chain of folds, a
value reached along two paths, and phis that are each other's value with an instruction
outside the cycle; words of two bits have a sign, a carry and shifts that are and are not
defined.  Five blocks let a block that only branches stand between others that do,
stay behind a chain of such blocks that was removed, lose its last predecessor to a constant condition, or be removed in one round and read as a
predecessor in the next; three phis that name one block are the fewest
of which one is passed over.  Two phis are the fewest that can swap, a loop and its exit the fewest in which a phi
lives on.  Three instructions and a return have a conditional jump over another jump and into an
instruction; a byte cut off is the end of an instruction, two may be the end of one and the start.
Three machine instructions have a push, the frame pointer set and a push behind it, which
is a store of a variable into itself, or two stores and a load of one slot; a
frame of two accesses has a slot that is stored, computed with and loaded, and a pop that reads what was pushed.  Three instructions have a `cmp`, something between, and a jump that reads
the flags; words of three bits have differences that overflow in both directions.

The bounds are `MaxInsts`, `MaxSteps` and the sizes of the sets above; nothing
else limits the state spaces.
Deadlock is checked in the `UseDef`, `ControlFlow`, `ConstantFolder`, `CfgSimplifier` and `LoweredCode` runs (a pass that has
ended stutters).  It is off in the `AllocPromoter` runs, where a function stops at a
return, in `Frontend_streams3`, where the code cannot be decoded, is not supported, returns or runs off
its end, in `Translation_words3`, which stops after `MaxSteps`, and in `Passes_orders`, where a
pass may throw or fail an assertion.

### Conditions the properties have

Some properties hold only where the code is right, and say where that is:

* The dominance computation may throw, although the comment at `ControlFlowAnalyser.cc:28` says it builds a
  dominator tree.  `DominanceComputer.hh:63` takes the first predecessor that has
  predecessors, processed or not.  With blocks laid out entry, latch, header
  (entry to header, header to latch, latch to header) the header's first
  predecessor is the latch, which has no dominator yet, and `doms.at` throws.
  `ThrowsOnLateStart` says precisely when: some reachable block's first
  predecessor is unreachable or not earlier in reverse post order.
* `DominatesCorrect`: that no dominator is claimed too many holds of reducible graphs.
* `PromotionCorrect`: `NoLeak` and `FrontiersClosed`, see below.
* `PhisFilled`: a block that branches to a phi's block on both sides, as code with a conditional jump to the
  next instruction does, has `add_incoming` called for it twice and the phi in its user list, and in that of
  the value, twice; the phi's destructor takes one entry off.
* `StraightRemovedOnce`: see below.
* `ConstantFolder` stops at a phi that is its only value, `CfgSimplifier` at a block that
  branches to itself and has nothing else: both are replaced by themselves, which
  appends to the vector being iterated over.
* `RemovedUnused` of `CfgSimplifier` (`FewPhis`, beside `NoPhiBehindBranch` below): `remove_incoming` takes the phi off the list
  the loop at `CfgSimplifier.cc:33` runs over, so it steps over the entry
  behind.  The last entry is met again in the vector's stale storage, which
  makes two phis come out right; with three, one keeps its value for the
  removed block, and the assertion at line 59 fails.  One phi is enough where the
  block branches to the phi's block on both sides: `AllocPromoter.cc:128` calls
  `add_incoming` once for each edge, so the phi is on the block's list twice, and
  since it no longer names the block the second entry is left there.
* All four properties of `CfgSimplifier` (`NoPhiBehindBranch`): when a block that only branches is
  replaced by its destination (`CfgSimplifier.cc:50`), a phi there that names the block comes to
  name the phi's own block.  A phi needs the predecessors of the removed block
  in its place, which `replace_all_uses_with` cannot give; if the phi's own block is
  replaced next, the phi erases itself from the list that the loop in `replace_all_uses_with` runs over,
  and the loop steps over the user behind it.  If that is a terminator, which an earlier
  replacement appended there, it goes on to the removed block.  The assertion at line 59 does
  not see it, because the list has been cleared.  It takes five blocks.
* `PhisMatch` (`NoPhiLosesBranch`): `ConstantBranchEvaluator` leaves the phis of the
  destination that is not taken as they are.
* `CodeCorrect`: the moves a block's phis become are made one after another at the end of
  each predecessor.  That is right if no phi reads an earlier phi of its block
  (`InOrder`), no block branches on a phi of the block it branches to
  (`ConditionsRead`), and no phi is still used along the other way out of a predecessor
  (`EdgesSplit`).  And `setcc` writes one byte of a register
  that holds the compare's left operand, so the condition is right only while those
  operands fit a byte (`wide` records one that does not).
* `BlocksClosed`: a return in front of a jump target gets a branch appended behind it.
* `CodeDecoded` (`Plain`): the decoder ignores a REX prefix's register extensions and
  an index register, does not extend an immediate by its sign, takes four bytes of
  immediate for `C7` with an operand of 16 bits, has `83 /5` for
  nothing, and reads a SIB byte whenever the r/m field is 4, also where that is the
  register `rsp` and there is none, after which everything is decoded one byte late.  The
  property promises nothing from the first such instruction on, nor of one the
  end of the code cuts off.
* `ResultKept` (`framed`): `StackSimulator` tells a slot by the constant of its address and
  looks neither at the operator (`push` stores at `rsp - 8` and `[rsp + 8]` is the
  same slot to it) nor at the register nor at what the register holds.  It keeps the
  result if every constant names one place and every place has one constant, a slot
  is stored to before it is loaded, and `pop`, which has no constant and stays a
  load by the stack pointer, reads what a `push` left or no slot at all.
* `PassesEnd` and all of `Passes`: two ways to fail are part of the model.  `ThrowsOnUnstored`: a load
  from a slot that is never stored to makes `StackSimulator.cc:100` throw.
  `AbortsOnTwoValues`: an instruction is removed twice.  `is_promotable` asks whether each store's pointer is the
  variable, so a store of the variable's address into itself passes, against what the comment
  at `AllocPromoter.cc:64` says, is listed twice and removed twice.  Two pushes
  of `rbp` with `mov rbp, rsp` between them lead there when the passes run in the
  order of `bamf-decomp`.  And `ConstantFolder` removes an addition twice if neither operand
  is a constant in the code: `mov rax, 5`, `inc rax`, `add rax, rax` gives `y + y` when
  `RegisterLocaliser` and `AllocPromoter` have run, `y` folds, `y + y` is queued once for
  each of its operands, and both times it can be folded.  Nothing else is removed twice.
* `X86` promises nothing of a conditional jump if the last instruction
  that sets the processor's flags is not `cmp`, and of `pop rsp` either the popped word or the
  incremented stack pointer, since the code stores the latter last.

### What the violations show

* `BuildsIdomTree`.  `DominanceComputer.hh:74` sets `changed` to
  `doms[b] == new_idom`.  In a first sweep it is false for every block, so
  there is never a second.  One sweep is enough for reducible graphs, and
  `DominatesCorrect` checks it; in an irreducible loop the block visited first keeps
  a dominator computed without its later predecessor.  `DominatesCorrect` also bounds the
  harm: the tree can claim a dominator too many, never one too few.  With `!=`
  in the place of `==` the property holds in the same instance.
* `LoadsGetReachingDef`.  The walk of `AllocPromoter` never pops `def_stack`.
  In the counterexample block 1 stores and branches to the blocks 2 and 3, block 2 loads and block 3
  stores.  The walk comes by 4 and 5, where the arms have joined, then by 3 and at last by 2,
  when the store of block 3 is on top of the stack: the load in block 2 is replaced by the
  word block 3 stores, and an execution by way of block 2 reads that where memory held what
  block 1 stored.  `PromotionCorrect` says when the pass
  is right all the same: if whatever could read a leaked definition is behind a
  phi (`NoLeak`), and the frontiers of the inserted phis already have phis
  (`FrontiersClosed`).
* `RemovesWhatIsThere`.  `ConstantFolder.cc:76` queues one user per entry of the
  user list, and an instruction that is on the queue twice is folded twice: the second time it has no
  users left, but it is put on `remove_list` again and removed after it was freed.
  In the counterexample the second of three instructions subtracts constants and the third is the second minus
  itself.  The third is looked at and left, the second is folded and queues the third
  twice, and both times the third is folded.
  `StraightRemovedOnce` says when this does not happen: without phis, definitions
  laid out before uses, and at most one operand that is an instruction.

## 4. Fairness

Everything runs in one thread that no other code preempts, so a call that can
take a step takes it: weak fairness on the steps of the running call.
`UseDef` assumes it of `replace_all_uses_with` only, not of the
environment that calls; `ControlFlowAnalyser` of the whole analysis;
`AllocPromoter` of the pass and not of the executions, which may stop or loop
forever; `ConstantFolder` and `CfgSimplifier` of the pass, whose loops run to their end; `Passes` of
all passes together, as long as one is left to run.  The lowering and the
frontend have no loop whose end is in doubt, and no fairness.

## 5. Proofs

All proofs are checked by TLAPS.  Each theorem is of the form `Spec => []P`, where `P` is
a property the runs check, but for `ImplementsValueGraph`, which is the refinement.

| Module | Theorem | Property | For |
|---|---|---|---|
| `UseDefProofs` | `TypeCorrect` | `TypeOK` | any finite set of blocks, any disjoint sets of instructions, phis and globals (`ValuesAssumption`) |
| | `UsersAreExact` | `UsersExact` | |
| | `NothingDangles` | `NoDangling` | |
| | `ClearLosesNothing` | `NothingLostByClear` | |
| | `ImplementsValueGraph` | `ImplementsGraph` | |
| `DominanceProofs` | `PostOrderIsCorrect` | `PostOrderCorrect` | any number of blocks, any graphs (`NAssumption`, `GraphsAssumption`) |
| | `TypeCorrect` | `TypeOK` of the whole analysis | |
| | `ThrowsOnlyOnLateStart` | `ThrowsOnLateStart` | |
| | `DominatesIsCorrect` | `DominatesCorrect` | |
| | `FrontiersAreCorrect` | `FrontiersCorrect` | |
| `AllocPromoterProofs` | `PromotionIsCorrect` | `PromotionCorrect` | any number of blocks, any graphs, any lists of accesses (`FunctionsAssumption`) |
| | `DefinedLoadsAreReplaced` | `DefinedLoadsReplaced` | |
| | `PhisAreFilled` | `PhisFilled` | |
| `ConstantFolderProofs` | `NothingIsMissed` | `NothingMissed` | any number of instructions, any width, any functions (`FolderAssumption`) |
| | `RemovedAreUnused` | `RemovedUnused` | |
| | `StraightAreRemovedOnce` | `StraightRemovedOnce` | |
| | `ValuesAreKept` | `ValuesKept` | |
| `CfgSimplifierProofs` | `FlowKeptAlways` | `FlowKept` | any functions of any number of blocks, their phis and conditions included (`NAssumption`, `SourcesAssumption`) |
| | `BlockUsersExactAlways` | `BlockUsersExact` | |
| | `PhisMatchAlways` | `PhisMatch` | |
| | `RemovedUnusedAlways` | `RemovedUnused` | |
| `PassesProofs` | `UsersMatchAlways` | `UsersMatch` | any code of any length without jumps that is made of the instructions modelled, any number of registers (`PassesAssumption`, `StraightCodeAssumption`) |
| | `VerifiedAlways` | `Verified` | |
| | `DeadGoneAlways` | `DeadGone` | |
| | `AbortsOnTwoValuesAlways` | `AbortsOnTwoValues` | |
| | `ThrowsOnUnstoredAlways` | `ThrowsOnUnstored` | |
| `LoweringProofs` | `TerminatorsAreKept` | `TerminatorsKept` | any functions of any number of blocks (`LoweringAssumption`) |
| | `OnlyEmittableIsEmitted` | `OnlyEmittable` | |
| `FrontendProofs` | `FlowIsKept` | `FlowKept` | any programs and any bytes behind them (`DecoderAssumption`, which the proofs do not use) |
| | `BlocksAreClosed` | `BlocksClosed` | |

`FunctionsAssumption` also says that the graphs are reducible, since only those are analysed
rightly; the proofs about the promoter do not use it, because `AllocPromoter` takes
tree and frontiers from the definitions.  `LoweringAssumption` says what every function
the other passes make has: one terminator at the end of each block, operands that
are constants or instructions of the function, phis with values for predecessors.
`PassesAssumption` says that the code is made of the instructions `StraightCode` has (`mov`,
`add`, `inc`, `push`, `pop` and `ret`), with the kinds of operands for which `Frontend.cc` neither throws nor fails an
assertion, and that a `ret` is the last, since `Frontend::run` puts what is behind one in another block.  `SourcesAssumption` says only what a function's
graph, conditions and phis are made of; where the theorems about the simplifier need the
phis to stand well, the properties themselves say so (`NoPhiBehindBranch`).

### The arguments

`UseDef`.  `UsersExact` is not inductive: it says nothing while a replacement runs, and the
step that ends one must restore it.  The inductive invariant says what holds in
the middle of the loop.  A user the loop has not reached still has all its
pending entries, and they are exact; for a user it has reached, no use of the
replaced value is left, and its uses of the replacement are its entries in the
replacement's list plus those still pending.  All other lists are exact, and
destroyed instructions have no operands.  From it follows that the pending
entries run out exactly when no use is left.
The refinement maps the operands to those the substitution would give
as soon as the loop starts, so that `StartReplace` is the abstract `Replace` and the
steps of the loop stutter; what makes the mapping work is that the constructors and
phi operations cannot run inside the loop.

The search (`DfsInv`).  The stack is a path of the graph from the entry; what was met can be
reached, and a block that is done has no successor that was not met, so that an
empty stack leaves nothing reachable out.  That a block is listed after its
successors fails for the edges that close a cycle; `ListedBefore` says it of the
edges to blocks that do not dominate their source, with the stack for what is still
to be listed.  `ParentsLater` says that a block is called from one that comes later,
which is what makes the first predecessor of most blocks an early one.

The dominators (`DomInv`).  The sweep has placed the blocks from the end of the post
order down to the one it is at.  Of a block that is placed, the chain of `doms` climbs
the post order up to the entry (`DomsClimb`, so `intersect` ends), names every
dominator it has (`SaysAll`), and, if the graph is reducible, no other block (`SaysOnly`):
all its predecessors but those it dominates are placed by then, and what
all of them have above them is what dominates it.  A block whose start is late is where
the sweep stops, and none is placed (`NoneLate`).

The frontiers (`FrontierInv`).  A block that the walk has passed has its dominance frontier.
The step takes the recurrence of the code (the block's own edges, and what its children
pass up) to the definition, by lemmas about the tree that `DominanceProofs` has for any graph:
the dominators of a block are a chain, each block but the entry has an immediate one, and what a
block dominates it dominates through one child.

The promoter (`IInv` of `AllocPromoterProofs`: `TypeInv`, `PassInv`, `RunInv`).  During the walk
a block of the tree is visited or below a block that is queued; queued blocks have nothing below them in
common, and a later one is below the parent of an earlier one, which is what the order
of a stack-like queue gives.  If a definition dominates a queued block the stack is not
empty, and a visit then leaves no load and no incoming value out
(`LoadsDone`, `PhisDone`): that holds whatever leaks.  Where nothing leaks
(`NoLeak`), the stack's top is the nearest of the dominating definitions, or the block has a phi,
or nothing below it reads; so a load gets that definition (`LoadsRight`), a phi the
one at its predecessor's end (`IncomingRight`).  Executions are a second invariant
(`RunInv`): what memory holds at the end of a block is what the definition at its end is worth.
For an edge to a block without a phi that is the dominance-frontier argument: a definition that dominates
the source and not the destination would have the destination in its frontier, and so a phi there; hence the
same definitions dominate both.

The folder.  `NothingMissed` and `RemovedUnused` are inductive with the types of the lists and the shape of the operand
lists added: a fold changes only the operands that are the folded
instruction, and their instructions are queued; and the value it puts there is a
constant, or an operand of the phi, and so not on the removal list.  That every user
is queued rests on the user list being finite (`FinitelyManyUses`).  `StraightRemovedOnce`
needs to know the queue's order (`OnceInv`): it is the instructions that wait for their first turn, in
their order, and behind them instructions that are queued again, each once, which have no
instruction among their operands and are not folded yet.  An instruction gets there through
its only operand that is an instruction, and that one is folded once.
`ValuesKept` compares what the functions compute round by round, where a round gives a
value to the instructions whose operands have one: whatever loads give and however phis are entered,
a value an instruction had in a round of the source it has in that round of the function as it is (`KeptSoFar`).
A fold keeps this because the constant it puts in is what the operator gives for those operands, and
because a phi's only value has the phi's value a round earlier; so values may appear
earlier, never change, also around cycles of phis.

The simplifier (`IInv` of `CfgSimplifierProofs`).  The queue of blocks to remove is sound whatever the
function (`QueueInv`).  The rest, `CleanInv`, is for functions where no phi names a block that only branches.
There the user lists are the uses after every visit (`ExactInv`), but for phis of a block that another goes to on both
sides: those are on that one's list twice while they name it, and stay there once when they do not (`Listed`); the
phis' block is never removed, since the other one stays its predecessor in the analysis (`TwiceInv`).  Within a visit the loops over a user
list have invariants of their own, turn by turn.  In the loop over the users of a block that is not reached
(`Pruning`) the vector's live part has exactly the uses that are left, its last slot never changes, and the first phi and
one in the last slot are taken off when the loop has passed them, which are all of them where at most two phis name the block, and none twice (`FewPhis`); in that of
`replace_all_uses_with` (`Redirecting`) only terminators are on the list, none of which erases itself, so the terminators of the entries
passed are redirected, and the destination's list has got an entry for each.
`WayInv` says where terminators go: on the way (`OnWay`) from what was
meant, which is a chain of blocks that only branch and is defined by sets of blocks closed
under it, as a chain may be a cycle.  Such a way ends in as many steps as there are blocks, by the pigeonhole argument, and from that
comes `FlowKept`.  `NamesInv` says that a phi names ways into its block and all of those that
stay; `UnusedInv` that a queued block has no uses; `StaysInv` that a round that changed nothing found
nothing to prune.  The last two are what `RemovedUnused` and `PhisMatch` come from.

Straight code (`IInv` and `UnstoredInv` of `PassesProofs`).  What every pass trusts and keeps is `Sound`: operands have the
types their instruction takes (`Typed`); a user list has one entry per use (`Linked`), and what is freed or has no result has none (`Unusable`); the body
lists each instruction once (`Bodied`), operands before users (`Ordered`) and
allocs first (`AllocsFirst`), and the registers are the first values (`RegistersFirst`).  `Ordered` would not
survive the replacement of a stack address without `OwnConstants`: the constant an `add` or `sub` has is its own, so
no other instruction is left with an operand that comes later.  The additions of two values have no such
constant; they are the set `sums` that the code fixes at first (`SumsOf`), and every lemma about `Sound` has it as a parameter.
Lemmas say of each operation of `StraightCode` that it keeps `Sound` and what else it changes; the passes add what their
own variables hold.  The maps of `StackSimulator` have the accesses that are left (`MapsIn`); behind what the pruner
has queued nothing is dead (`Pruned`), which is why one walk is enough; the promoter's stores are each to be
removed once, or one is a store of a variable into itself (`Storing`); what the folder has folded has
no users, and is listed once unless it is in `sums`, since what has a constant of its own is queued again by its
other operand only (`Folding`).  Together they are `IInv`, which also has that a pass fails an
assertion only over such a store or over one of `sums` that is listed twice (`AbortInv`), and that the `Verifier` has nothing to report.
`ThrowsOnUnstored` is about what the code was at first, and its invariant (`UnstoredInv`) is inductive only
beside `IInv`: until one of `StackSimulator` and `RegisterLocaliser` runs, the program is still the translated
one, in which the other passes find nothing to do (`IdleInv`); while `StackSimulator` runs on it, each displacement is
still to be stored to or has its alloc (`CoverInv`); and once `RegisterLocaliser` has come to every register
(`RegistersInv`), nothing is left that `StackSimulator` takes for a stack slot.

The lowering (`LoweringInv`).  An instruction that does not stay in the code is still in `work_queue`; every operand is a
constant, a physical register, an alloc, a virtual register that is written, or a
value that is still queued; each block ends in its terminator.  When the queue is
empty nothing but what can be emitted is left, in any order of visits and any layout.

The frontend (`IInv` of `FrontendProofs`).  Decoding lists instructions one behind the other from address 0,
each at least a byte long, by induction over the operands of a row of the tables (`DecodeInv`); the first loop gives
every target a block, still empty, and no two the same (`TargetsInv`).  The second loop is at an
instruction (`next`), and everything before it is in its final place: a block for an
address begins with the instruction there (`BeginsWell`); behind an instruction's entry stands its
terminator, the entry of the next instruction, or a branch to the block of the next
address, but for the last one, which ends the current block (`GoesOnWell`, `EndsWell`); and
nothing stands behind a terminator but a branch behind a return (`ClosedWell`).  A turn of the loop only adds
to blocks: its translation behind the current block's last instruction, in a new block, or in the empty
block of a target, and in that case a link to it (`Grown`, `Placed`).  From that it follows that machine and
function, once at the same instruction, stay side by side (`RunInv`).

### Model-checked only

* Liveness (`ReplaceTerminates`, `AnalysisEnds`, `PassEnds`, `FoldingEnds`, `SimplifyingEnds`, `PassesEnd`)
  rests on fairness, which is beyond the prover.
* `CodeCorrect`, `ImplementsX86` and `ResultKept` say what words are computed; bitwise
  operators and carries need induction over the bits, which is beyond it too.
* `CodeDecoded` rests on folds over lists of bytes, of which the prover has no definition.
* The runs that show a violation show it of one instance, which is enough.

## 6. What is left out, and the plan

Left out of the modelled components: in `UseDef`, the replacement of a value by a null
pointer (`StraightCode` has it) and a second incoming value for one block (`AllocPromoter` has it), and the teardown of a function;
`Graph::disconnect` and `Graph::remove`, which only tests call; two variables
promoted at once in several blocks (in one block `StraightPromoter` has any number; beyond that they share
nothing but the order of their phis in a block);
which values the phis of `CfgSimplifier` have (each is named by the predecessor it first
came from); the frame's layout and the encoding of instructions in the backend;
registers narrower than a word, and addresses that overlap, in the frontend; the
bytes and widths the decoder keeps for printing; functions of several blocks, flags, `cmp`, `shl`, jumps and what stands behind a return in
`Passes`, and with them `CfgSimplifier`, `ConstantBranchEvaluator` and the runs of `ControlFlowAnalyser`, whose result no pass of
straight code changes; a pass added twice; the address of a freed instruction given to a new one
(`MoveInserter.cc:42`); and the backend's preconditions (allocs in the entry block, no shift).

The order of the work was the def-use chains on which everything rests, the analysis and the
promotion that reads it, the folder, the two ends (lowering and frontend), the
simplifier, then the decoder and the composition of the passes, and last the proofs about those two.
What would come next:

1. `UseDef` with a second `add_incoming` for one block, whose entries `AllocPromoter` counts.
2. `Passes` with two blocks, so that the analysis is a result that can be stale.

Not planned: file loading, printing, statistics and the command-line tools,
which keep no state a property could be about.
