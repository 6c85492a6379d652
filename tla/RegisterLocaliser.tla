------------------------- MODULE RegisterLocaliser -------------------------
(***************************************************************************)
(* src/frontend/RegisterLocaliser.cc: every register that is used becomes  *)
(* a variable of the function, one register a step.                        *)
(* An operator named X_Y is X with the bug Y.                              *)
(***************************************************************************)
EXTENDS StraightCode

VARIABLE phys_regs   \* the registers the loop has not come to

LocaliserInit == phys_regs = <<>>

BeginLocalising ==
  /\ running' = "register-localiser"
  /\ phys_regs' = [r \in 1..Registers |-> r]
  /\ UNCHANGED ir

(* The variable takes over the whole user list of the register; then every *)
(* user, in turn, has its operands replaced.                               *)
Localised_NoUsers(reg) ==
  LET p == Prepended(ir, "alloc", <<"register", reg>>)
  IN  Substituted(p, ir.users[reg], reg, Newest(p))
Localised(reg) ==
  IF ir.users[reg] = <<>> THEN ir
  ELSE LET p == Prepended(ir, "alloc", <<"register", reg>>)
           q == [p EXCEPT !.users = AddUsers(@, Newest(p), ir.users[reg])]
       IN  Substituted(q, ir.users[reg], reg, Newest(p))

Localise ==
  /\ running = "register-localiser"
  /\ phys_regs # <<>>
  /\ LET reg == Head(phys_regs)
     IN  ir' = Destroyed(ReplacedAll(Localised(reg), reg, Null), reg)
  /\ phys_regs' = Tail(phys_regs)
  /\ UNCHANGED running

EndLocalising ==
  /\ running = "register-localiser"
  /\ phys_regs = <<>>
  /\ running' = None
  /\ UNCHANGED <<ir, phys_regs>>

LocaliserNext == Localise \/ EndLocalising
=============================================================================
