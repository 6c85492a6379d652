--------------------------- MODULE FrontendProofs ---------------------------
(***************************************************************************)
(* The function the frontend builds goes the way the machine code goes,    *)
(* and its blocks end in one terminator, for any bytes the decoder takes.  *)
(***************************************************************************)
EXTENDS Frontend, SequencesExt, SequenceTheorems, WellFoundedInduction, TLAPS

(* Induction over an interval of numbers and the existence of functions    *)
(* that are defined by recursion, stated with sets and functions instead   *)
(* of operators, and facts about sequences.                                *)

(* A set of natural numbers has a least element.                           *)
LEMMA LeastElement ==
  ASSUME NEW T, T \subseteq Nat, T # {}
  PROVE  \E m \in T : \A k \in T : m <= k
<1> DEFINE R == OpToRel(<, Nat)
<1>1. IsWellFoundedOn(R, Nat)
  BY NatLessThanWellFounded
<1>2. PICK m \in T : \A k \in T : ~(<<k, m>> \in R)
  <2> HIDE DEF R
  <2> QED
    BY <1>1, WFMin
<1>3. ASSUME NEW k \in T PROVE m <= k
  <2>1. k \in Nat /\ m \in Nat
    OBVIOUS
  <2>2. ~(<<k, m>> \in R)
    BY <1>2
  <2>3. k < m => <<k, m>> \in R
    BY <2>1, Zenon DEF OpToRel
  <2> HIDE DEF R
  <2> QED
    BY <2>1, <2>2, <2>3
<1> QED
  BY <1>3

(* Induction up to n, for the set G of the numbers a fact is good for.     *)
LEMMA IntervalInduction ==
  ASSUME NEW n \in Nat, NEW G, 0 \in G,
         \A k \in 0..(n-1) : k \in G => k + 1 \in G
  PROVE  0..n \subseteq G
<1> SUFFICES ASSUME (0..n) \ G # {} PROVE FALSE
  OBVIOUS
<1>1. PICK m \in (0..n) \ G : \A k \in (0..n) \ G : m <= k
  <2>1. (0..n) \ G \subseteq Nat
    OBVIOUS
  <2> QED
    BY <2>1, LeastElement
<1>2. m # 0 /\ m - 1 \in 0..(n-1) /\ (m - 1) + 1 = m
  BY <1>1
<1>3. m - 1 \in G
  BY <1>1, <1>2
<1> QED
  BY <1>1, <1>2, <1>3

(* A function that gives each number but the first from the one before.    *)
IsIteration(f, n, T, base, step) ==
  /\ f \in [0..n -> T]
  /\ f[0] = base
  /\ \A k \in 1..n : f[k] = step[<<k, f[k-1]>>]

LEMMA IterationExists ==
  ASSUME NEW n \in Nat, NEW T, NEW base \in T,
         NEW step, \A k \in 1..n, x \in T : step[<<k, x>>] \in T
  PROVE  \E f : IsIteration(f, n, T, base, step)
<1> DEFINE G == {m \in 0..n : \E f : IsIteration(f, m, T, base, step)}
<1>1. 0 \in G
  <2>1. IsIteration([k \in 0..0 |-> base], 0, T, base, step)
    BY DEF IsIteration
  <2> QED
    BY <2>1
<1>2. ASSUME NEW m \in 0..(n-1), m \in G PROVE m + 1 \in G
  <2>1. PICK f : IsIteration(f, m, T, base, step)
    BY <1>2
  <2> DEFINE g == [k \in 0..(m+1) |-> IF k = m + 1 THEN step[<<m+1, f[m]>>] ELSE f[k]]
  <2>2. g \in [0..(m+1) -> T]
    <3>1. step[<<m+1, f[m]>>] \in T
      BY <2>1 DEF IsIteration
    <3>2. \A k \in 0..(m+1) : k # m + 1 => k \in 0..m
      OBVIOUS
    <3> QED
      BY <2>1, <3>1, <3>2 DEF IsIteration
  <2>3. g[0] = base
    BY <2>1 DEF IsIteration
  <2>4. ASSUME NEW k \in 1..(m+1) PROVE g[k] = step[<<k, g[k-1]>>]
    <3>1. k - 1 \in 0..m /\ g[k-1] = f[k-1]
      OBVIOUS
    <3>2. CASE k = m + 1
      <4>1. k - 1 = m /\ g[k] = step[<<k, f[m]>>]
        BY <3>2
      <4> HIDE DEF g
      <4> QED
        BY <3>1, <4>1
    <3>3. CASE k # m + 1
      <4>1. k \in 1..m /\ g[k] = f[k]
        BY <3>3
      <4> HIDE DEF g
      <4> QED
        BY <2>1, <3>1, <4>1 DEF IsIteration
    <3> QED
      BY <3>2, <3>3
  <2>5. IsIteration(g, m + 1, T, base, step)
    <3> HIDE DEF g
    <3> QED
      BY <2>2, <2>3, <2>4 DEF IsIteration
  <2> QED
    BY <2>5
<1>3. 0..n \subseteq G
  <2> HIDE DEF G
  <2> QED
    BY <1>1, <1>2, IntervalInduction
<1> QED
  BY <1>3

(* A non-empty sequence is its front and its last element.                 *)
LEMMA FrontAndLast ==
  ASSUME NEW S, NEW s \in Seq(S), s # <<>>
  PROVE  /\ Len(s) \in Nat \ {0}
         /\ Front(s) \in Seq(S)
         /\ Len(Front(s)) = Len(s) - 1
         /\ DOMAIN Front(s) = 1..(Len(s) - 1)
         /\ \A k \in 1..(Len(s) - 1) : Front(s)[k] = s[k]
         /\ Last(s) = s[Len(s)]
         /\ Last(s) \in S
         /\ ToSet(s) = ToSet(Front(s)) \cup {Last(s)}
<1>1. Len(s) \in Nat \ {0} /\ DOMAIN s = 1..Len(s)
  BY EmptySeq, LenProperties
<1>2. \A k \in 1..(Len(s) - 1) : s[k] \in S
  BY <1>1, ElementOfSeq
<1>3. /\ Front(s) \in Seq(S)
      /\ Len(Front(s)) = Len(s) - 1
      /\ \A k \in 1..(Len(s) - 1) : Front(s)[k] = s[k]
  BY <1>1, <1>2, SubSeqProperties DEF Front
<1>4. DOMAIN Front(s) = 1..(Len(s) - 1)
  BY <1>3, LenProperties
<1>5. Last(s) \in S /\ Last(s) = s[Len(s)]
  BY <1>1, ElementOfSeq DEF Last
<1>6. ASSUME NEW k \in DOMAIN s PROVE s[k] \in ToSet(Front(s)) \cup {Last(s)}
  <2>1. k = Len(s) \/ k \in 1..(Len(s) - 1)
    BY <1>1
  <2> QED
    BY <2>1, <1>3, <1>4 DEF ToSet, Last
<1>7. ASSUME NEW k \in DOMAIN Front(s) PROVE Front(s)[k] \in ToSet(s)
  <2>1. k \in DOMAIN s /\ Front(s)[k] = s[k]
    BY <1>1, <1>3, <1>4
  <2> QED
    BY <2>1 DEF ToSet
<1>8. Last(s) \in ToSet(s)
  BY <1>1, <1>5 DEF ToSet
<1>9. ToSet(s) = ToSet(Front(s)) \cup {Last(s)}
  BY <1>6, <1>7, <1>8 DEF ToSet
<1> QED
  BY <1>1, <1>3, <1>4, <1>5, <1>9

LEMMA AppendOne ==
  ASSUME NEW S, NEW s \in Seq(S), NEW x \in S
  PROVE  /\ Append(s, x) \in Seq(S)
         /\ Len(s) \in Nat
         /\ Len(Append(s, x)) = Len(s) + 1
         /\ DOMAIN s = 1..Len(s)
         /\ DOMAIN Append(s, x) = 1..(Len(s) + 1)
         /\ \A k \in 1..Len(s) : Append(s, x)[k] = s[k]
         /\ Append(s, x)[Len(s) + 1] = x
         /\ Append(s, x) # <<>>
         /\ Last(Append(s, x)) = x
         /\ ToSet(Append(s, x)) = ToSet(s) \cup {x}
<1>1. /\ Append(s, x) \in Seq(S)
      /\ Append(s, x) # <<>>
      /\ Len(Append(s, x)) = Len(s) + 1
      /\ \A i \in 1..Len(s) : Append(s, x)[i] = s[i]
      /\ Append(s, x)[Len(s) + 1] = x
  BY AppendProperties
<1>2. /\ Len(s) \in Nat /\ DOMAIN s = 1..Len(s)
      /\ DOMAIN Append(s, x) = 1..(Len(s) + 1)
  BY <1>1, LenProperties
<1>3. \A k \in DOMAIN Append(s, x) : k \in DOMAIN s \/ k = Len(s) + 1
  BY <1>2
<1>4. Len(s) + 1 \in DOMAIN Append(s, x) /\ DOMAIN s \subseteq DOMAIN Append(s, x)
  BY <1>2
<1>5. ToSet(Append(s, x)) = ToSet(s) \cup {x}
  BY <1>1, <1>2, <1>3, <1>4 DEF ToSet
<1> QED
  BY <1>1, <1>2, <1>5 DEF Last

-----------------------------------------------------------------------------

Item ==
  {Entry(i) : i \in Nat} \cup {Branch(b) : b \in Nat}
    \cup {CondBranch(f, t) : f \in Nat, t \in Nat} \cup {Ret}

(* The decoder's part: instructions one behind the other, from address 0.  *)
DecodeInv ==
  /\ insts \in Seq(ToSet(insts))
  /\ m_bytes_read \in Nat
  /\ \A i \in DOMAIN insts :
       /\ Offset(i) \in Nat /\ After(i) \in Nat
       /\ Offset(i) < After(i) /\ After(i) <= m_bytes_read
       /\ i + 1 \in DOMAIN insts => Offset(i + 1) = After(i)
       /\ i = 1 => Offset(i) = 0
       /\ i = Len(insts) => After(i) = m_bytes_read
  /\ \A i, j \in DOMAIN insts : i < j => Offset(i) < Offset(j)
  /\ insts = <<>> => m_bytes_read = 0

(* The blocks made for addresses.                                          *)
AreBlocks(at, bs) ==
  /\ bs \in Seq(Seq(Item))
  /\ at \in [DOMAIN at -> 1..Len(bs)]
  /\ 0 \in DOMAIN at /\ at[0] = 1
  /\ \A a, c \in DOMAIN at : at[a] = at[c] => a = c
  /\ \A b \in 1..Len(bs) : bs[b] = <<>> => \E a \in DOMAIN at : at[a] = b

HasTargets(i, at) ==
  /\ Jumps(i) => Target(i) \in DOMAIN at
  /\ insts[i].opcode \in Conditional => After(i) \in DOMAIN at

Building == phase \in {"decode", "undecodable", "targets"}

TargetsInv ==
  /\ next \in 1..(Len(insts) + 1)
  /\ phase = "decode" => next = 1
  /\ AreBlocks(blockAt, bodies)
  /\ \A i \in DOMAIN insts :
       (phase = "targets" /\ i < next) \/ ~Building => HasTargets(i, blockAt)
  /\ Building => block = 1 /\ \A b \in DOMAIN bodies : bodies[b] = <<>>

(* What is behind the entry of instruction i when those before n are       *)
(* translated.                                                             *)
IsAt(b, k, item) == k \in DOMAIN bodies[b] /\ bodies[b][k] = item
Follows(b, k, i, n) ==
  CASE insts[i].opcode = "ret" -> IsAt(b, k + 1, Ret)
    [] insts[i].opcode = "jmp" -> IsAt(b, k + 1, Branch(blockAt[Target(i)]))
    [] insts[i].opcode \in Conditional ->
         IsAt(b, k + 1, CondBranch(blockAt[After(i)], blockAt[Target(i)]))
    [] OTHER ->
         IF i = n - 1 THEN b = block /\ k = Len(bodies[b])
         ELSE \/ IsAt(b, k + 1, Entry(i + 1))
              \/ /\ Offset(i + 1) \in DOMAIN blockAt
                 /\ IsAt(b, k + 1, Branch(blockAt[Offset(i + 1)]))

(* A block for an address begins with the instruction that is there.       *)
BeginsWell(n) ==
  \A a \in DOMAIN blockAt :
    /\ \A i \in 1..(n - 1) : Offset(i) = a => IsAt(blockAt[a], 1, Entry(i))
    /\ (\A i \in 1..(n - 1) : Offset(i) # a) => bodies[blockAt[a]] = <<>>

GoesOnWell(n) ==
  \A b \in DOMAIN bodies : \A k \in DOMAIN bodies[b] : bodies[b][k].kind = "inst" =>
    /\ bodies[b][k].inst \in 1..(n - 1)
    /\ bodies[b][k] = Entry(bodies[b][k].inst)
    /\ Follows(b, k, bodies[b][k].inst, n)

(* The current block ends in the instruction translated last, or in its    *)
(* terminator.                                                             *)
EndsWell(n) ==
  LET m == Len(bodies[block])
  IN  IF n = 1 THEN block = 1
      ELSE \/ IsAt(block, m, Entry(n - 1))
           \/ IsAt(block, m - 1, Entry(n - 1)) /\ bodies[block][m].kind # "inst"

ClosedWell ==
  \A b \in DOMAIN bodies : \A k \in 1..(Len(bodies[b]) - 1) : bodies[b][k].kind # "inst" =>
    /\ k = Len(bodies[b]) - 1
    /\ bodies[b][k].kind = "ret"
    /\ bodies[b][k+1].kind = "branch"
    /\ k - 1 \in DOMAIN bodies[b] /\ bodies[b][k-1].kind = "inst"
    /\ After(bodies[b][k-1].inst) \in DOMAIN blockAt

TranslateInv ==
  ~Building =>
    /\ block \in DOMAIN bodies
    /\ BeginsWell(next) /\ GoesOnWell(next) /\ EndsWell(next) /\ ClosedWell

(* Machine and function are at the same instruction, both nowhere or both  *)
(* have returned.                                                          *)
Beside(b, k, i) ==
  /\ b \in DOMAIN bodies
  /\ IF k \in DOMAIN bodies[b] THEN i \in DOMAIN insts /\ bodies[b][k] = Entry(i) ELSE i = Nowhere

RunInv ==
  /\ phase # "run" => place = <<1, 1>>
  /\ phase = "run" =>
       /\ next = Len(insts) + 1
       /\ \/ place = Ended /\ pc = Returned
          \/ \E b \in DOMAIN bodies, k \in Nat \ {0} : place = <<b, k>> /\ Beside(b, k, pc)

IInv == DecodeInv /\ TargetsInv /\ TranslateInv /\ RunInv

-----------------------------------------------------------------------------
(* Reading an instruction moves the stream on.                             *)
IsWidth(w) == w \in Nat
IsInfo(info) ==
  /\ info.type \in {"Constant", "Imm", "Rel", "ModRmGpr", "ModRmRm", "OpcodeGpr"}
  /\ info.type \in {"Constant", "Imm"} => IsWidth(info.width)
IsRow(row) ==
  /\ IsWidth(row.address) /\ IsWidth(row.operand)
  /\ Len(row.operands) \in Nat /\ DOMAIN row.operands = 1..Len(row.operands)
  /\ \A k \in DOMAIN row.operands : IsInfo(row.operands[k])

LEMMA InfosAre ==
  /\ IsInfo(Gpr) /\ IsInfo(Rm) /\ IsInfo(OpcodeGpr) /\ IsInfo(Rel) /\ IsInfo(One)
  /\ \A w \in Nat : IsInfo(Imm(w))
BY DEF IsInfo, IsWidth, Gpr, Rm, OpcodeGpr, Rel, One, Imm

LEMMA RowIsRow ==
  ASSUME NEW opcode, NEW address \in Nat, NEW operand \in Nat,
         NEW infos, Len(infos) \in Nat, DOMAIN infos = 1..Len(infos),
         \A k \in DOMAIN infos : IsInfo(infos[k])
  PROVE  IsRow(Row(opcode, address, operand, infos))
BY DEF IsRow, Row, IsWidth

LEMMA FewInfos ==
  ASSUME NEW a, IsInfo(a), NEW b, IsInfo(b)
  PROVE  /\ Len(<<>>) \in Nat /\ DOMAIN <<>> = 1..Len(<<>>)
         /\ \A k \in DOMAIN <<>> : IsInfo(<<>>[k])
         /\ Len(<<a>>) \in Nat /\ DOMAIN <<a>> = 1..Len(<<a>>)
         /\ \A k \in DOMAIN <<a>> : IsInfo(<<a>>[k])
         /\ Len(<<a, b>>) \in Nat /\ DOMAIN <<a, b>> = 1..Len(<<a, b>>)
         /\ \A k \in DOMAIN <<a, b>> : IsInfo(<<a, b>>[k])
OBVIOUS

LEMMA RowOf ==
  ASSUME NEW opcode, NEW address \in Nat, NEW operand \in Nat, NEW a, IsInfo(a), NEW b, IsInfo(b)
  PROVE  /\ IsRow(Row(opcode, address, operand, <<>>))
         /\ IsRow(Row(opcode, address, operand, <<a>>))
         /\ IsRow(Row(opcode, address, operand, <<a, b>>))
BY RowIsRow, FewInfos

LEMMA AbsentIs == ~Absent.present
BY DEF Absent

LEMMA TablesHaveRows ==
  ASSUME NEW op, NEW reg
  PROVE  /\ m_table(op).present => IsRow(m_table(op))
         /\ m_table_0f(op).present => IsRow(m_table_0f(op))
         /\ slashes(op, reg).present => IsRow(slashes(op, reg))
<1>1. ASSUME NEW o, NEW a \in Nat, NEW w \in Nat
      PROVE  /\ IsRow(Row(o, a, w, <<>>))
             /\ IsRow(Row(o, a, w, <<Rel>>)) /\ IsRow(Row(o, a, w, <<OpcodeGpr>>)) /\ IsRow(Row(o, a, w, <<Rm>>))
             /\ IsRow(Row(o, a, w, <<Gpr, Rm>>)) /\ IsRow(Row(o, a, w, <<Rm, Gpr>>))
             /\ IsRow(Row(o, a, w, <<Rm, One>>))
  BY InfosAre, RowOf
<1>2. ASSUME NEW o, NEW a \in Nat, NEW w \in Nat
      PROVE  /\ IsRow(Row(o, a, w, <<OpcodeGpr, Imm(0)>>))
             /\ IsRow(Row(o, a, w, <<Rm, Imm(8)>>))
             /\ IsRow(Row(o, a, w, <<Rm, Imm(32)>>))
  <2>1. IsInfo(Imm(0)) /\ IsInfo(Imm(8)) /\ IsInfo(Imm(32)) /\ IsInfo(OpcodeGpr) /\ IsInfo(Rm)
    BY InfosAre
  <2> QED
    BY <2>1, RowOf
<1>3. \A row : row = Absent => ~row.present
  BY AbsentIs
<1>4. m_table(op).present => IsRow(m_table(op))
  <2>1. op = 3 => m_table(op) = Row("add", 64, 32, <<Gpr, Rm>>)
    BY DEF m_table
  <2>2. op = 49 => m_table(op) = Row("xor", 0, 32, <<Rm, Gpr>>)
    BY DEF m_table
  <2>3. op = 80 => m_table(op) = Row("push", 0, 64, <<OpcodeGpr>>)
    BY DEF m_table
  <2>4. op = 88 => m_table(op) = Row("pop", 0, 64, <<OpcodeGpr>>)
    BY DEF m_table
  <2>5. op = 125 => m_table(op) = Row("jge", 8, 0, <<Rel>>)
    BY DEF m_table
  <2>6. op = 137 => m_table(op) = Row("mov", 64, 32, <<Rm, Gpr>>)
    BY DEF m_table
  <2>7. op = 139 => m_table(op) = Row("mov", 64, 32, <<Gpr, Rm>>)
    BY DEF m_table
  <2>8. op = 184 => m_table(op) = Row("mov", 0, 32, <<OpcodeGpr, Imm(0)>>)
    BY DEF m_table
  <2>9. op = 195 => m_table(op) = Row("ret", 0, 0, <<>>)
    BY DEF m_table
  <2>10. op = 199 => m_table(op) = Row("mov", 64, 32, <<Rm, Imm(32)>>)
    BY DEF m_table
  <2>11. op = 232 => m_table(op) = Row("call", 32, 0, <<Rel>>)
    BY DEF m_table
  <2>12. op = 233 => m_table(op) = Row("jmp", 32, 0, <<Rel>>)
    BY DEF m_table
  <2>13. op = 235 => m_table(op) = Row("jmp", 8, 0, <<Rel>>)
    BY DEF m_table
  <2>14. op \notin {3, 49, 80, 88, 125, 137, 139, 184, 195, 199, 232, 233, 235} => m_table(op) = Absent
    BY DEF m_table
  <2>15. op \in {3, 49, 80, 88, 125, 137, 139} => IsRow(m_table(op))
    BY <1>1, <2>1, <2>2, <2>3, <2>4, <2>5, <2>6, <2>7
  <2>16. op \in {184, 195, 199, 232, 233, 235} => IsRow(m_table(op))
    BY <1>1, <1>2, <2>8, <2>9, <2>10, <2>11, <2>12, <2>13
  <2> QED
    BY <1>3, <2>14, <2>15, <2>16
<1>5. m_table_0f(op).present => IsRow(m_table_0f(op))
  BY <1>1, <1>3 DEF m_table_0f
<1>6. slashes(op, reg).present => IsRow(slashes(op, reg))
  BY <1>1, <1>2, <1>3 DEF slashes
<1> QED
  BY <1>4, <1>5, <1>6

LEMMA OperandMovesOn ==
  ASSUME NEW start, start.operand_width \in Nat, start.address_width \in Nat,
         NEW info, IsInfo(info), NEW at \in Nat
  PROVE  DecodedOperand(start, info, at).at \in Nat /\ DecodedOperand(start, info, at).at >= at
<1>1. \A w \in Nat : w \div 8 \in Nat
  OBVIOUS
<1>2. DecodedRm(start.mod_rm, at).at \in Nat /\ DecodedRm(start.mod_rm, at).at >= at
  BY DEF DecodedRm
<1> QED
  BY <1>1, <1>2 DEF DecodedOperand, IsInfo, IsWidth

LEMMA DecodedMovesOn ==
  ASSUME NEW h, h.at \in Nat, IsRow(Info(h))
  PROVE  /\ Positions(h)[Len(Info(h).operands)] \in Nat
         /\ Positions(h)[Len(Info(h).operands)] >= h.at
<1> DEFINE infos == Info(h).operands
           n == Len(infos)
           start == IF HasModRm(Info(h)) THEN h.at + 1 ELSE h.at
           From == {p \in Nat : p >= h.at}
           Pos(k, p) == DecodedOperand(Start(h), infos[k], p).at
           step == [x \in (1..n) \X From |-> Pos(x[1], x[2])]
           IsAtFn(f) == f = [k \in 0..n |-> IF k = 0 THEN start ELSE Pos(k, f[k-1])]
<1>1. n \in Nat /\ DOMAIN infos = 1..n /\ \A k \in 1..n : IsInfo(infos[k])
  BY DEF IsRow
<1>2. Start(h).operand_width \in Nat /\ Start(h).address_width \in Nat
  BY DEF Start, OperandWidth, AddressWidth, IsRow, IsWidth
<1>3. start \in From
  OBVIOUS
<1>4. \A k \in 1..n, p \in From : step[<<k, p>>] = Pos(k, p)
  OBVIOUS
<1>5. \A k \in 1..n, p \in From : Pos(k, p) \in From
  <2> SUFFICES ASSUME NEW k \in 1..n, NEW p \in From PROVE Pos(k, p) \in From
    OBVIOUS
  <2>1. IsInfo(infos[k]) /\ p \in Nat /\ p >= h.at
    BY <1>1
  <2>2. Pos(k, p) \in Nat /\ Pos(k, p) >= p
    BY <1>2, <2>1, OperandMovesOn
  <2> HIDE DEF Pos
  <2> QED
    BY <2>1, <2>2
<1> HIDE DEF Pos, start, n, From, infos
<1>6. \A k \in 1..n, p \in From : step[<<k, p>>] \in From
  BY <1>4, <1>5
<1>7. PICK f : IsIteration(f, n, From, start, step)
  <2> HIDE DEF step
  <2> QED
    BY <1>1, <1>3, <1>6, IterationExists
<1>8. /\ f \in [0..n -> From] /\ f[0] = start
      /\ \A k \in 1..n : f[k] = step[<<k, f[k-1]>>]
  BY <1>7 DEF IsIteration
<1>9. \A k \in 1..n : f[k] = Pos(k, f[k-1])
  <2> SUFFICES ASSUME NEW k \in 1..n PROVE f[k] = Pos(k, f[k-1])
    OBVIOUS
  <2>1. k - 1 \in 0..n
    BY <1>1
  <2>2. f[k-1] \in From /\ f[k] = step[<<k, f[k-1]>>]
    BY <1>8, <2>1
  <2> HIDE DEF step
  <2> QED
    BY <1>4, <2>2
<1>10. IsAtFn(f)
  <2> DEFINE g == [k \in 0..n |-> IF k = 0 THEN start ELSE Pos(k, f[k-1])]
  <2>1. \A k \in 0..n : f[k] = g[k]
    <3>1. \A k \in 0..n : k = 0 \/ k \in 1..n
      BY <1>1
    <3> QED
      BY <1>8, <1>9, <3>1
  <2>2. f = g
    BY <1>8, <2>1
  <2> QED
    BY <2>2
<1> DEFINE at == CHOOSE a : IsAtFn(a)
<1>11. IsAtFn(at)
  <2> HIDE DEF IsAtFn
  <2> QED
    BY <1>10, Zenon
<1>12. Positions(h) = at
  BY Zenon DEF Positions, n, start, Pos, infos
<1> DEFINE G == {k \in 0..n : at[k] \in From}
<1>13. at[0] = start /\ \A k \in 1..n : at[k] = Pos(k, at[k-1])
  <2> HIDE DEF at
  <2>1. 0 \in 0..n /\ \A k \in 1..n : k \in 0..n /\ k # 0
    BY <1>1
  <2> QED
    BY <1>11, <2>1
<1> HIDE DEF at
<1>14. 0 \in G
  BY <1>1, <1>3, <1>13
<1>15. ASSUME NEW k \in 0..(n-1), k \in G PROVE k + 1 \in G
  <2>1. k + 1 \in 1..n /\ (k + 1) - 1 = k /\ k + 1 \in 0..n /\ at[k] \in From
    BY <1>1, <1>15
  <2>2. at[k+1] = Pos(k + 1, at[k])
    BY <1>13, <2>1
  <2>3. at[k+1] \in From
    BY <1>5, <2>1, <2>2
  <2> QED
    BY <2>1, <2>3
<1>16. n \in G
  <2> HIDE DEF G
  <2>1. 0..n \subseteq G
    BY <1>1, <1>14, <1>15, IntervalInduction
  <2> QED
    BY <1>1, <2>1
<1>17. at[n] \in From
  BY <1>16
<1>18. at[n] \in Nat /\ at[n] >= h.at
  BY <1>17 DEF From
<1> QED
  BY <1>12, <1>18 DEF n, infos

LEMMA OpeningMovesOn ==
  ASSUME m_bytes_read \in Nat
  PROVE  Opening.at \in Nat /\ Opening.at > m_bytes_read
BY DEF Opening

LEMMA InstructionIsLong ==
  ASSUME m_bytes_read \in Nat, ~Throws(Opening)
  PROVE  /\ Decoded(Opening).offset = m_bytes_read
         /\ m_bytes_read + Decoded(Opening).length \in Nat
         /\ m_bytes_read + Decoded(Opening).length > m_bytes_read
<1> DEFINE h == Opening
           last == Positions(h)[Len(Info(h).operands)]
<1>1. h.at \in Nat /\ h.at > m_bytes_read
  BY OpeningMovesOn
<1>2. Info(h).present
  BY DEF Throws
<1>3. IsRow(Info(h))
  BY <1>2, TablesHaveRows DEF Info
<1> HIDE DEF h
<1>4. last \in Nat /\ last >= h.at
  BY <1>1, <1>3, DecodedMovesOn
<1>5. Decoded(h).offset = m_bytes_read /\ Decoded(h).length = last - m_bytes_read
  BY DEF Decoded
<1> HIDE DEF last
<1>6. /\ Decoded(h).offset = m_bytes_read
      /\ m_bytes_read + Decoded(h).length \in Nat
      /\ m_bytes_read + Decoded(h).length > m_bytes_read
  BY <1>1, <1>4, <1>5
<1> QED
  BY <1>6 DEF h

-----------------------------------------------------------------------------
LEMMA InitInv == Init => IInv
<1> SUFFICES ASSUME Init PROVE IInv
  OBVIOUS
<1> USE DEF Init, DecoderInit
<1>1. insts = <<>> /\ m_bytes_read = 0 /\ phase = "decode"
  OBVIOUS
<1>2. insts \in Seq(ToSet(insts)) /\ Len(insts) = 0 /\ DOMAIN insts = {}
  BY <1>1
<1>3. DecodeInv
  BY <1>1, <1>2 DEF DecodeInv
<1>4. AreBlocks(blockAt, bodies)
  BY DEF AreBlocks
<1>5. TargetsInv
  BY <1>1, <1>2, <1>4 DEF TargetsInv, Building
<1> QED
  BY <1>1, <1>3, <1>5 DEF IInv, TranslateInv, RunInv, Building

(* What a step of the decoder leaves alone.                                *)
LEMMA OwnElements ==
  ASSUME NEW S, NEW s \in Seq(S)
  PROVE  s \in Seq(ToSet(s))
<1>1. s \in [1..Len(s) -> ToSet(s)] /\ Len(s) \in Nat
  BY DEF ToSet
<1> QED
  BY <1>1, SeqDef

LEMMA NextInstInv ==
  ASSUME IInv, next_inst, UNCHANGED <<buildVars, runVars>>
  PROVE  IInv'
<1> DEFINE x == Decoded(Opening)
<1>1. /\ phase = "decode" /\ next = 1 /\ block = 1 /\ place = <<1, 1>>
      /\ DecodeInv /\ AreBlocks(blockAt, bodies) /\ \A b \in DOMAIN bodies : bodies[b] = <<>>
  BY DEF IInv, next_inst, TargetsInv, RunInv, Building
<1>2. /\ blockAt' = blockAt /\ bodies' = bodies /\ block' = block /\ next' = next
      /\ pc' = pc /\ place' = place
  BY DEF buildVars, runVars
<1>3. AreBlocks(blockAt, bodies)'
  BY <1>1, <1>2 DEF AreBlocks
<1>4. phase' \in {"decode", "undecodable"}
  BY <1>1 DEF next_inst
<1>5. Building' /\ TranslateInv' /\ RunInv'
  BY <1>1, <1>2, <1>4 DEF Building, TranslateInv, RunInv
<1>6. CASE Throws(Opening)
  <2>1. insts' = insts /\ m_bytes_read' = m_bytes_read
    BY <1>6 DEF next_inst
  <2>2. DecodeInv'
    BY <1>1, <2>1 DEF DecodeInv, Offset, After
  <2>3. TargetsInv'
    BY <1>1, <1>2, <1>3, <1>4, <1>5, <2>1 DEF TargetsInv, Building, IInv
  <2> QED
    BY <1>5, <2>2, <2>3 DEF IInv
<1>7. CASE ~Throws(Opening)
  <2>0. PICK n : n = Len(insts)
    OBVIOUS
  <2>1. insts' = Append(insts, x) /\ m_bytes_read' = m_bytes_read + Last(insts').length
    BY <1>7 DEF next_inst
  <2>2. insts \in Seq(ToSet(insts) \cup {x}) /\ x \in ToSet(insts) \cup {x}
    BY <1>1 DEF DecodeInv
  <2>3. /\ insts' \in Seq(ToSet(insts) \cup {x})
        /\ n \in Nat /\ Len(insts') = n + 1
        /\ DOMAIN insts = 1..n /\ DOMAIN insts' = 1..(n + 1)
        /\ \A i \in 1..n : insts'[i] = insts[i]
        /\ insts'[n + 1] = x
    BY <2>0, <2>1, <2>2, AppendOne
  <2>4. insts' \in Seq(ToSet(insts'))
    BY <2>3, OwnElements
  <2>5. Last(insts') = x
    <3>1. insts' # <<>>
      BY <2>3
    <3> QED
      BY <2>3, <3>1, FrontAndLast
  <2>6. /\ x.offset = m_bytes_read
        /\ m_bytes_read + x.length \in Nat
        /\ m_bytes_read + x.length > m_bytes_read
    BY <1>1, <1>7, InstructionIsLong DEF DecodeInv
  <2>7. /\ m_bytes_read' \in Nat /\ m_bytes_read' > m_bytes_read
        /\ m_bytes_read' = x.offset + x.length
    BY <2>1, <2>5, <2>6
  <2> HIDE DEF x
  <2>8. /\ \A i \in 1..n : Offset(i)' = Offset(i) /\ After(i)' = After(i)
        /\ Offset(n + 1)' = m_bytes_read /\ After(n + 1)' = m_bytes_read'
    BY <2>3, <2>6, <2>7 DEF Offset, After
  <2>9. /\ m_bytes_read \in Nat
        /\ \A i \in 1..n :
             /\ Offset(i) \in Nat /\ After(i) \in Nat
             /\ Offset(i) < After(i) /\ After(i) <= m_bytes_read
             /\ i + 1 \in 1..n => Offset(i + 1) = After(i)
             /\ i = 1 => Offset(i) = 0
             /\ i = n => After(i) = m_bytes_read
        /\ \A i, j \in 1..n : i < j => Offset(i) < Offset(j)
        /\ n = 0 => m_bytes_read = 0
    <3>1. n = 0 => insts = <<>>
      BY <2>0, <2>2, EmptySeq
    <3> QED
      BY <1>1, <2>0, <2>3, <3>1 DEF DecodeInv
  <2>10. \A i \in 1..(n+1) : i \in 1..n \/ i = n + 1
    BY <2>3
  <2>11. ASSUME NEW i \in 1..(n+1)
         PROVE  /\ Offset(i)' \in Nat /\ After(i)' \in Nat
                /\ Offset(i)' < After(i)' /\ After(i)' <= m_bytes_read'
                /\ i + 1 \in 1..(n+1) => Offset(i + 1)' = After(i)'
                /\ i = 1 => Offset(i)' = 0
                /\ i = n + 1 => After(i)' = m_bytes_read'
    <3>1. CASE i \in 1..n
      <4>1. /\ Offset(i)' = Offset(i) /\ After(i)' = After(i)
            /\ Offset(i) \in Nat /\ After(i) \in Nat /\ Offset(i) < After(i)
            /\ After(i) <= m_bytes_read /\ (i = 1 => Offset(i) = 0)
        BY <2>8, <2>9, <3>1
      <4>2. i + 1 \in 1..(n+1) => Offset(i + 1)' = After(i)'
        <5>1. CASE i + 1 \in 1..n
          BY <2>8, <2>9, <3>1, <4>1, <5>1
        <5>2. CASE i = n
          BY <2>8, <2>9, <3>1, <4>1, <5>2
        <5> QED
          BY <2>3, <3>1, <5>1, <5>2
      <4>3. i # n + 1
        BY <2>3, <3>1
      <4> QED
        BY <2>7, <2>9, <4>1, <4>2, <4>3
    <3>2. CASE i = n + 1
      <4>1. i = 1 => n = 0
        BY <2>3, <3>2
      <4>2. ~(i + 1 \in 1..(n+1))
        BY <2>3, <3>2
      <4> QED
        BY <2>7, <2>8, <2>9, <3>2, <4>1, <4>2
    <3> QED
      BY <2>10, <3>1, <3>2
  <2>12. ASSUME NEW i \in 1..(n+1), NEW j \in 1..(n+1), i < j PROVE Offset(i)' < Offset(j)'
    <3>1. i \in 1..n
      BY <2>3, <2>12
    <3>2. CASE j \in 1..n
      BY <2>8, <2>9, <2>12, <3>1, <3>2
    <3>3. CASE j = n + 1
      BY <2>8, <2>9, <3>1, <3>3
    <3> QED
      BY <2>10, <3>2, <3>3
  <2>13. DecodeInv'
    <3>1. insts' # <<>>
      BY <2>3
    <3> QED
      BY <2>3, <2>4, <2>7, <2>11, <2>12, <3>1 DEF DecodeInv
  <2>14. TargetsInv'
    <3>1. next' \in 1..(Len(insts') + 1)
      BY <1>1, <1>2, <2>3
    <3> QED
      BY <1>1, <1>2, <1>3, <1>4, <1>5, <3>1 DEF TargetsInv, Building
  <2> QED
    BY <1>5, <2>13, <2>14 DEF IInv
<1> QED
  BY <1>6, <1>7

LEMMA EndDecodingInv ==
  ASSUME IInv, EndDecoding, UNCHANGED <<buildVars, runVars>>
  PROVE  IInv'
<1>1. /\ phase = "decode" /\ phase' = "targets" /\ next = 1
      /\ UNCHANGED <<decodeVars, buildVars, runVars>>
  BY DEF IInv, EndDecoding, TargetsInv
<1>2. /\ insts' = insts /\ m_bytes_read' = m_bytes_read /\ next' = next /\ block' = block
      /\ blockAt' = blockAt /\ bodies' = bodies /\ place' = place /\ pc' = pc
  BY <1>1 DEF decodeVars, buildVars, runVars
<1>3. DecodeInv'
  BY <1>2 DEF DecodeInv, IInv, Offset, After
<1>4. AreBlocks(blockAt, bodies)'
  BY <1>2 DEF IInv, TargetsInv, AreBlocks
<1>5. Building /\ Building'
  BY <1>1 DEF Building
<1>6. TargetsInv'
  <2>1. \A i \in DOMAIN insts : ~(i < 1)
    BY DEF IInv, DecodeInv
  <2> QED
    BY <1>1, <1>2, <1>4, <1>5, <2>1 DEF TargetsInv, IInv
<1> QED
  BY <1>1, <1>2, <1>3, <1>5, <1>6 DEF IInv, TranslateInv, RunInv

-----------------------------------------------------------------------------
(* A block for one more address.                                           *)
AllEmpty(bs) == \A b \in DOMAIN bs : bs[b] = <<>>
MoreBlocks(made, more) ==
  /\ AreBlocks(more.at, more.bodies) /\ AllEmpty(more.bodies)
  /\ DOMAIN made.at \subseteq DOMAIN more.at

LEMMA WithBlockIs ==
  ASSUME NEW made, AreBlocks(made.at, made.bodies), AllEmpty(made.bodies), NEW a
  PROVE  MoreBlocks(made, WithBlock(made, a)) /\ a \in DOMAIN WithBlock(made, a).at
<1>1. CASE a \in DOMAIN made.at
  BY <1>1 DEF WithBlock, MoreBlocks
<1>2. CASE a \notin DOMAIN made.at
  <2> DEFINE more == WithBlock(made, a)
             n == Len(made.bodies)
             at == [x \in DOMAIN made.at \cup {a} |-> IF x = a THEN n + 1 ELSE made.at[x]]
             bs == Append(made.bodies, <<>>)
  <2>1. more.at = at /\ more.bodies = bs
    BY <1>2 DEF WithBlock
  <2>2. made.bodies \in Seq(Seq(Item)) /\ <<>> \in Seq(Item)
    BY DEF AreBlocks
  <2>3. /\ bs \in Seq(Seq(Item)) /\ n \in Nat /\ Len(bs) = n + 1
        /\ DOMAIN made.bodies = 1..n /\ DOMAIN bs = 1..(n+1)
        /\ \A k \in 1..n : bs[k] = made.bodies[k]
        /\ bs[n+1] = <<>>
    BY <2>2, AppendOne
  <2> HIDE DEF bs
  <2>4. /\ made.at \in [DOMAIN made.at -> 1..n] /\ 0 \in DOMAIN made.at /\ made.at[0] = 1
        /\ \A x, y \in DOMAIN made.at : made.at[x] = made.at[y] => x = y
        /\ \A b \in 1..n : made.bodies[b] = <<>> => \E x \in DOMAIN made.at : made.at[x] = b
    BY DEF AreBlocks
  <2> HIDE DEF n
  <2>5. /\ DOMAIN at = DOMAIN made.at \cup {a} /\ at[a] = n + 1
        /\ \A x \in DOMAIN made.at : at[x] = made.at[x] /\ made.at[x] \in 1..n
    BY <1>2, <2>4
  <2> HIDE DEF at
  <2>6. at \in [DOMAIN at -> 1..(n+1)]
    <3>1. \A x \in DOMAIN at : at[x] \in 1..(n+1)
      BY <2>3, <2>5
    <3>2. at = [x \in DOMAIN at |-> at[x]]
      BY DEF at
    <3> QED
      BY <3>1, <3>2
  <2>7. ASSUME NEW x \in DOMAIN at, NEW y \in DOMAIN at, at[x] = at[y] PROVE x = y
    <3>1. \A z \in DOMAIN at : z = a \/ z \in DOMAIN made.at
      BY <2>5
    <3>2. \A z \in DOMAIN made.at : at[z] # n + 1
      BY <2>3, <2>5
    <3> QED
      BY <2>4, <2>5, <2>7, <3>1, <3>2
  <2>8. ASSUME NEW b \in 1..(n+1) PROVE bs[b] = <<>> /\ \E x \in DOMAIN at : at[x] = b
    <3>1. CASE b = n + 1
      BY <2>3, <2>5, <3>1
    <3>2. CASE b \in 1..n
      <4>1. made.bodies[b] = <<>>
        BY <2>3, <3>2 DEF AllEmpty
      <4>2. PICK x \in DOMAIN made.at : made.at[x] = b
        BY <2>4, <3>2, <4>1
      <4> QED
        BY <2>3, <2>5, <3>2, <4>1, <4>2
    <3> QED
      BY <2>3, <3>1, <3>2
  <2>9. AreBlocks(at, bs)
    BY <1>2, <2>3, <2>4, <2>5, <2>6, <2>7, <2>8 DEF AreBlocks
  <2>10. AllEmpty(bs)
    BY <2>3, <2>8 DEF AllEmpty
  <2> HIDE DEF more
  <2>11. MoreBlocks(made, more) /\ a \in DOMAIN more.at
    BY <2>1, <2>5, <2>9, <2>10 DEF MoreBlocks
  <2> QED
    BY <2>11 DEF more
<1> QED
  BY <1>1, <1>2

LEMMA WithTargetsIs ==
  ASSUME NEW made, AreBlocks(made.at, made.bodies), AllEmpty(made.bodies), NEW i
  PROVE  MoreBlocks(made, WithTargets(made, i)) /\ HasTargets(i, WithTargets(made, i).at)
<1> DEFINE one == WithBlock(made, Target(i))
           two == WithBlock(one, After(i))
<1>1. MoreBlocks(made, one) /\ Target(i) \in DOMAIN one.at
  BY WithBlockIs
<1>2. MoreBlocks(one, two) /\ After(i) \in DOMAIN two.at
  <2>1. AreBlocks(one.at, one.bodies) /\ AllEmpty(one.bodies)
    BY <1>1 DEF MoreBlocks
  <2> HIDE DEF one
  <2> QED
    BY <2>1, WithBlockIs
<1>3. WithTargets(made, i) = IF ~Jumps(i) THEN made ELSE IF insts[i].opcode = "jmp" THEN one ELSE two
  BY DEF WithTargets
<1> HIDE DEF one, two
<1>4. insts[i].opcode \in Conditional => insts[i].opcode # "jmp" /\ Jumps(i)
  BY DEF Conditional, Jumps
<1>5. MoreBlocks(made, made) /\ MoreBlocks(made, two) /\ Target(i) \in DOMAIN two.at
  BY <1>1, <1>2 DEF MoreBlocks
<1>6. CASE ~Jumps(i)
  BY <1>3, <1>4, <1>5, <1>6 DEF HasTargets
<1>7. CASE Jumps(i) /\ insts[i].opcode = "jmp"
  BY <1>1, <1>3, <1>4, <1>7 DEF HasTargets
<1>8. CASE Jumps(i) /\ insts[i].opcode # "jmp"
  BY <1>2, <1>3, <1>5, <1>8 DEF HasTargets
<1> QED
  BY <1>6, <1>7, <1>8

LEMMA BuildJumpTargetsInv ==
  ASSUME IInv, BuildJumpTargets
  PROVE  IInv'
<1> DEFINE made == [at |-> blockAt, bodies |-> bodies]
           more == WithTargets(made, next)
<1>1. /\ phase = "targets" /\ phase' = "targets" /\ next <= Len(insts) /\ next' = next + 1
      /\ blockAt' = more.at /\ bodies' = more.bodies
      /\ insts' = insts /\ m_bytes_read' = m_bytes_read /\ block' = block /\ place' = place /\ pc' = pc
  BY DEF BuildJumpTargets, decodeVars, runVars
<1>2. /\ next \in 1..(Len(insts) + 1) /\ AreBlocks(blockAt, bodies) /\ AllEmpty(bodies)
      /\ \A i \in DOMAIN insts : i < next => HasTargets(i, blockAt)
      /\ block = 1
  BY <1>1 DEF IInv, TargetsInv, Building, AllEmpty
<1>3. DOMAIN insts = 1..Len(insts) /\ Len(insts) \in Nat
  BY DEF IInv, DecodeInv
<1>4. MoreBlocks(made, more) /\ HasTargets(next, more.at)
  <2>1. made.at = blockAt /\ made.bodies = bodies
    OBVIOUS
  <2> HIDE DEF made
  <2> QED
    BY <1>2, <2>1, WithTargetsIs
<1>5. DOMAIN blockAt \subseteq DOMAIN more.at /\ AreBlocks(more.at, more.bodies) /\ AllEmpty(more.bodies)
  BY <1>4 DEF MoreBlocks
<1> HIDE DEF made, more
<1>6. AreBlocks(blockAt, bodies)' /\ AllEmpty(bodies)'
  BY <1>1, <1>5 DEF AreBlocks, AllEmpty
<1>7. ASSUME NEW i \in DOMAIN insts, i < next + 1 PROVE HasTargets(i, blockAt)'
  <2>1. HasTargets(i, more.at)
    <3>1. CASE i = next
      BY <1>4, <3>1
    <3>2. CASE i < next
      BY <1>2, <1>5, <3>2 DEF HasTargets
    <3> QED
      BY <1>2, <1>3, <1>7, <3>1, <3>2
  <2> QED
    BY <1>1, <2>1 DEF HasTargets, Jumps, Target, After, Offset
<1>8. DecodeInv'
  BY <1>1 DEF DecodeInv, IInv, Offset, After
<1>9. Building /\ Building'
  BY <1>1 DEF Building
<1>10. TargetsInv'
  <2>1. next' \in 1..(Len(insts') + 1)
    BY <1>1, <1>2, <1>3
  <2> QED
    BY <1>1, <1>2, <1>6, <1>7, <1>9, <2>1 DEF TargetsInv, AllEmpty
<1> QED
  BY <1>1, <1>8, <1>9, <1>10 DEF IInv, TranslateInv, RunInv

LEMMA EndJumpTargetsInv ==
  ASSUME IInv, EndJumpTargets
  PROVE  IInv'
<1>1. /\ phase = "targets" /\ phase' = "translate" /\ next > Len(insts) /\ next' = 1
      /\ blockAt' = blockAt /\ bodies' = bodies
      /\ insts' = insts /\ m_bytes_read' = m_bytes_read /\ block' = block /\ place' = place /\ pc' = pc
  BY DEF EndJumpTargets, decodeVars, runVars
<1>2. /\ next \in 1..(Len(insts) + 1) /\ AreBlocks(blockAt, bodies) /\ AllEmpty(bodies)
      /\ \A i \in DOMAIN insts : i < next => HasTargets(i, blockAt)
      /\ block = 1
  BY <1>1 DEF IInv, TargetsInv, Building, AllEmpty
<1>3. DOMAIN insts = 1..Len(insts) /\ Len(insts) \in Nat
  BY DEF IInv, DecodeInv
<1>4. AreBlocks(blockAt, bodies)'
  BY <1>1, <1>2 DEF AreBlocks
<1>5. \A i \in DOMAIN insts : HasTargets(i, blockAt)'
  BY <1>1, <1>2, <1>3 DEF HasTargets, Jumps, Target, After, Offset
<1>6. DecodeInv'
  BY <1>1 DEF DecodeInv, IInv, Offset, After
<1>7. ~Building'
  BY <1>1 DEF Building
<1>8. TargetsInv'
  BY <1>1, <1>3, <1>4, <1>5, <1>7 DEF TargetsInv
<1>9. 1..(1 - 1) = {}
  OBVIOUS
<1>10. /\ DOMAIN bodies = 1..Len(bodies) /\ Len(bodies) \in Nat /\ 1 \in DOMAIN bodies
       /\ \A a \in DOMAIN blockAt : blockAt[a] \in DOMAIN bodies
  BY <1>2 DEF AreBlocks
<1>11. \A b \in DOMAIN bodies : bodies[b] = <<>> /\ DOMAIN bodies[b] = {} /\ Len(bodies[b]) = 0
  BY <1>2 DEF AllEmpty
<1>12. BeginsWell(1)' /\ GoesOnWell(1)' /\ EndsWell(1)' /\ ClosedWell'
  <2>1. BeginsWell(1)'
    BY <1>1, <1>9, <1>10, <1>11 DEF BeginsWell
  <2>2. GoesOnWell(1)'
    BY <1>1, <1>11 DEF GoesOnWell
  <2>3. EndsWell(1)'
    BY <1>1, <1>2 DEF EndsWell
  <2>4. ClosedWell'
    BY <1>1, <1>11 DEF ClosedWell
  <2> QED
    BY <2>1, <2>2, <2>3, <2>4
<1>13. (BeginsWell(next) /\ GoesOnWell(next) /\ EndsWell(next))'
  BY <1>1, <1>12 DEF BeginsWell, GoesOnWell, EndsWell, Follows
<1>14. TranslateInv'
  BY <1>1, <1>2, <1>10, <1>12, <1>13 DEF TranslateInv
<1>15. RunInv'
  BY <1>1 DEF RunInv, IInv
<1> QED
  BY <1>6, <1>8, <1>14, <1>15 DEF IInv

-----------------------------------------------------------------------------
(* Where the machine finds the instruction of an address.                  *)
LEMMA InstAtIs ==
  ASSUME DecodeInv
  PROVE  /\ \A i \in DOMAIN insts : InstAt(Offset(i)) = i
         /\ \A a : (\A i \in DOMAIN insts : Offset(i) # a) => InstAt(a) = Nowhere
         /\ \A i \in DOMAIN insts : i = Len(insts) => InstAt(After(i)) = Nowhere
<1>1. DOMAIN insts = 1..Len(insts) /\ Len(insts) \in Nat
  BY DEF DecodeInv
<1>2. \A i, j \in DOMAIN insts : Offset(i) = Offset(j) => i = j
  <2> SUFFICES ASSUME NEW i \in DOMAIN insts, NEW j \in DOMAIN insts, Offset(i) = Offset(j)
               PROVE  i = j
    OBVIOUS
  <2>1. Offset(i) \in Nat /\ Offset(j) \in Nat /\ ~(i < j) /\ ~(j < i)
    BY DEF DecodeInv
  <2> QED
    BY <1>1, <2>1
<1>3. \A a : (\A i \in DOMAIN insts : Offset(i) # a) => InstAt(a) = Nowhere
  BY DEF InstAt
<1>4. ASSUME NEW i \in DOMAIN insts PROVE InstAt(Offset(i)) = i
  <2> DEFINE P(j) == j \in DOMAIN insts /\ Offset(j) = Offset(i)
             c == CHOOSE j \in DOMAIN insts : Offset(j) = Offset(i)
  <2>1. \E j \in DOMAIN insts : Offset(j) = Offset(i)
    OBVIOUS
  <2>2. InstAt(Offset(i)) = c
    BY <2>1 DEF InstAt
  <2>3. c \in DOMAIN insts /\ Offset(c) = Offset(i)
    BY <2>1
  <2> QED
    BY <1>2, <2>2, <2>3
<1>5. ASSUME NEW i \in DOMAIN insts, i = Len(insts) PROVE InstAt(After(i)) = Nowhere
  <2>1. ASSUME NEW j \in DOMAIN insts PROVE Offset(j) # After(i)
    <3>1. /\ Offset(j) \in Nat /\ Offset(j) < After(j) /\ After(j) <= m_bytes_read
          /\ After(j) \in Nat /\ m_bytes_read \in Nat /\ After(i) = m_bytes_read
      BY <1>5 DEF DecodeInv
    <3> QED
      BY <3>1
  <2> QED
    BY <1>3, <2>1
<1> QED
  BY <1>3, <1>4, <1>5

(* Both are at the same place where an address has its block.              *)
LEMMA BlockIsBeside ==
  ASSUME DecodeInv, AreBlocks(blockAt, bodies), BeginsWell(Len(insts) + 1), NEW a \in DOMAIN blockAt
  PROVE  Beside(blockAt[a], 1, InstAt(a))
<1>1. DOMAIN insts = 1..Len(insts) /\ Len(insts) \in Nat /\ (Len(insts) + 1) - 1 = Len(insts)
  BY DEF DecodeInv
<1>2. DOMAIN bodies = 1..Len(bodies) /\ blockAt[a] \in DOMAIN bodies
  BY DEF AreBlocks
<1>3. CASE \E i \in DOMAIN insts : Offset(i) = a
  <2>1. PICK i \in DOMAIN insts : Offset(i) = a
    BY <1>3
  <2>2. InstAt(a) = i
    BY <2>1, InstAtIs
  <2>3. IsAt(blockAt[a], 1, Entry(i))
    BY <1>1, <2>1 DEF BeginsWell
  <2> QED
    BY <1>2, <2>1, <2>2, <2>3 DEF Beside, IsAt
<1>4. CASE \A i \in DOMAIN insts : Offset(i) # a
  <2>1. InstAt(a) = Nowhere
    BY <1>4, InstAtIs
  <2>2. bodies[blockAt[a]] = <<>>
    BY <1>1, <1>4 DEF BeginsWell
  <2>3. 1 \notin DOMAIN bodies[blockAt[a]]
    BY <2>2
  <2> QED
    BY <1>2, <2>1, <2>3 DEF Beside
<1> QED
  BY <1>3, <1>4

LEMMA BeginInv ==
  ASSUME IInv, Begin
  PROVE  IInv'
<1>1. /\ phase = "translate" /\ phase' = "run" /\ next > Len(insts) /\ next' = next
      /\ blockAt' = blockAt /\ bodies' = bodies /\ block' = block
      /\ insts' = insts /\ m_bytes_read' = m_bytes_read /\ place' = place /\ pc' = InstAt(0)
  BY DEF Begin, decodeVars, buildVars
<1>2. ~Building /\ ~Building'
  BY <1>1 DEF Building
<1>3. /\ Len(insts) \in Nat /\ next \in 1..(Len(insts) + 1) /\ next = Len(insts) + 1
      /\ 0 \in DOMAIN blockAt /\ blockAt[0] = 1 /\ AreBlocks(blockAt, bodies)
      /\ BeginsWell(next)
  BY <1>1, <1>2 DEF IInv, DecodeInv, TargetsInv, TranslateInv, AreBlocks
<1>4. DecodeInv'
  BY <1>1 DEF DecodeInv, IInv, Offset, After
<1>5. TargetsInv'
  BY <1>1, <1>2 DEF TargetsInv, IInv, AreBlocks, HasTargets, Jumps, Target, After, Offset
<1>6. TranslateInv'
  BY <1>1, <1>2 DEF TranslateInv, IInv, BeginsWell, GoesOnWell, EndsWell, ClosedWell, Follows, IsAt,
                   Target, After, Offset
<1>7. Beside(1, 1, InstAt(0))
  BY <1>3, BlockIsBeside DEF IInv
<1>8. RunInv'
  <2>1. place' = <<1, 1>>
    BY <1>1 DEF IInv, RunInv
  <2>2. Beside(1, 1, pc)'
    BY <1>1, <1>7 DEF Beside
  <2>3. next' = Len(insts') + 1 /\ phase' = "run"
    BY <1>1, <1>3
  <2>4. 1 \in Nat \ {0} /\ 1 \in DOMAIN bodies'
    BY <2>2 DEF Beside
  <2> QED
    BY <2>1, <2>2, <2>3, <2>4 DEF RunInv
<1> QED
  BY <1>4, <1>5, <1>6, <1>8 DEF IInv

LEMMA ThrowUnsupportedInv ==
  ASSUME IInv, ThrowUnsupported
  PROVE  IInv'
<1>1. /\ phase = "translate" /\ phase' = "threw" /\ next' = next
      /\ blockAt' = blockAt /\ bodies' = bodies /\ block' = block
      /\ insts' = insts /\ m_bytes_read' = m_bytes_read /\ place' = place
  BY DEF ThrowUnsupported, decodeVars, buildVars, runVars
<1>2. ~Building /\ ~Building'
  BY <1>1 DEF Building
<1>4. DecodeInv'
  BY <1>1 DEF DecodeInv, IInv, Offset, After
<1>5. TargetsInv'
  BY <1>1, <1>2 DEF TargetsInv, IInv, AreBlocks, HasTargets, Jumps, Target, After, Offset
<1>6. TranslateInv'
  BY <1>1, <1>2 DEF TranslateInv, IInv, BeginsWell, GoesOnWell, EndsWell, ClosedWell, Follows, IsAt,
                   Target, After, Offset
<1>7. RunInv'
  BY <1>1 DEF IInv, RunInv
<1> QED
  BY <1>4, <1>5, <1>6, <1>7 DEF IInv

(* Machine and function go on side by side.                                *)
LEMMA GoBeside ==
  ASSUME DecodeInv, AreBlocks(blockAt, bodies), BeginsWell(Len(insts) + 1), GoesOnWell(Len(insts) + 1),
         \A i \in DOMAIN insts : HasTargets(i, blockAt),
         NEW b, NEW k \in Nat \ {0}, NEW i \in DOMAIN insts, Beside(b, k, i), NEW taken \in BOOLEAN
  PROVE  \/ FunctionGoes(b, k + 1, taken) = Ended /\ MachineGoes(i, taken) = Returned
         \/ \E c \in DOMAIN bodies, m \in Nat \ {0} :
              FunctionGoes(b, k + 1, taken) = <<c, m>> /\ Beside(c, m, MachineGoes(i, taken))
<1> DEFINE here == FunctionGoes(b, k + 1, taken)
           pos == MachineGoes(i, taken)
           n == Len(insts) + 1
<1>1. /\ Len(insts) \in Nat /\ DOMAIN insts = 1..Len(insts) /\ i # Nowhere
  BY DEF DecodeInv, Nowhere
<1>2. /\ b \in DOMAIN bodies /\ k \in DOMAIN bodies[b] /\ bodies[b][k] = Entry(i)
  BY <1>1 DEF Beside
<1>3. Follows(b, k, i, n)
  BY <1>2 DEF GoesOnWell, Entry
<1>4. /\ n - 1 = Len(insts) /\ k + 1 \in Nat \ {0}
      /\ DOMAIN bodies = 1..Len(bodies) /\ bodies \in Seq(Seq(Item))
      /\ \A a \in DOMAIN blockAt : blockAt[a] \in DOMAIN bodies /\ Beside(blockAt[a], 1, InstAt(a))
  BY <1>1, BlockIsBeside DEF AreBlocks
<1>5. ASSUME NEW a \in DOMAIN blockAt, here = <<blockAt[a], 1>>, pos = InstAt(a)
      PROVE  \E c \in DOMAIN bodies, m \in Nat \ {0} : here = <<c, m>> /\ Beside(c, m, pos)
  BY <1>4, <1>5
<1>6. CASE insts[i].opcode = "ret"
  <2>1. IsAt(b, k + 1, Ret)
    BY <1>3, <1>6 DEF Follows, Conditional
  <2>2. here = Ended
    BY <2>1 DEF IsAt, Ret, FunctionGoes
  <2>3. pos = Returned
    BY <1>6 DEF MachineGoes, Conditional
  <2> QED
    BY <2>2, <2>3
<1>7. CASE insts[i].opcode = "jmp"
  <2>1. IsAt(b, k + 1, Branch(blockAt[Target(i)])) /\ Target(i) \in DOMAIN blockAt
    BY <1>3, <1>7 DEF Follows, HasTargets, Jumps, Conditional
  <2>2. here = <<blockAt[Target(i)], 1>>
    BY <2>1 DEF IsAt, Branch, FunctionGoes
  <2>3. pos = InstAt(Target(i))
    BY <1>7 DEF MachineGoes
  <2> QED
    BY <1>5, <2>1, <2>2, <2>3
<1>8. CASE insts[i].opcode \in Conditional
  <2>1. /\ IsAt(b, k + 1, CondBranch(blockAt[After(i)], blockAt[Target(i)]))
        /\ Target(i) \in DOMAIN blockAt /\ After(i) \in DOMAIN blockAt
    BY <1>3, <1>8 DEF Follows, HasTargets, Jumps, Conditional
  <2>2. here = <<IF taken THEN blockAt[Target(i)] ELSE blockAt[After(i)], 1>>
    BY <2>1 DEF IsAt, CondBranch, FunctionGoes
  <2>3. pos = IF taken THEN InstAt(Target(i)) ELSE InstAt(After(i))
    BY <1>8 DEF MachineGoes, Conditional
  <2> QED
    BY <1>5, <2>1, <2>2, <2>3
<1>9. CASE insts[i].opcode \notin Conditional \cup {"ret", "jmp"}
  <2>1. pos = InstAt(After(i))
    BY <1>9 DEF MachineGoes
  <2>2. CASE i = n - 1
    <3>1. k = Len(bodies[b])
      BY <1>3, <1>9, <2>2 DEF Follows
    <3>2. k + 1 \notin DOMAIN bodies[b]
      BY <1>2, <1>4, <3>1
    <3>3. here = <<b, k + 1>>
      BY <3>2 DEF FunctionGoes
    <3>4. pos = Nowhere
      BY <1>4, <2>1, <2>2, InstAtIs
    <3>5. Beside(b, k + 1, pos)
      BY <1>2, <3>2, <3>4 DEF Beside
    <3> QED
      BY <1>2, <1>4, <3>3, <3>5
  <2>3. CASE i # n - 1
    <3>1. i + 1 \in DOMAIN insts
      BY <1>1, <1>4, <2>3
    <3>2. After(i) = Offset(i + 1) /\ pos = i + 1
      BY <2>1, <3>1, InstAtIs DEF DecodeInv
    <3>3. CASE IsAt(b, k + 1, Entry(i + 1))
      <4>1. here = <<b, k + 1>>
        BY <3>3 DEF IsAt, Entry, FunctionGoes
      <4>2. Beside(b, k + 1, pos)
        BY <1>2, <3>1, <3>2, <3>3 DEF Beside, IsAt
      <4> QED
        BY <1>2, <1>4, <4>1, <4>2
    <3>4. CASE Offset(i + 1) \in DOMAIN blockAt /\ IsAt(b, k + 1, Branch(blockAt[Offset(i + 1)]))
      <4>1. here = <<blockAt[Offset(i + 1)], 1>>
        BY <3>4 DEF IsAt, Branch, FunctionGoes
      <4>2. pos = InstAt(Offset(i + 1))
        BY <2>1, <3>2
      <4> QED
        BY <1>5, <3>4, <4>1, <4>2
    <3> QED
      BY <1>3, <1>9, <2>3, <3>3, <3>4 DEF Follows
  <2> QED
    BY <2>2, <2>3
<1> QED
  BY <1>6, <1>7, <1>8, <1>9

LEMMA ExecuteInv ==
  ASSUME IInv, Execute
  PROVE  IInv'
<1>1. /\ phase = "run" /\ phase' = "run" /\ next' = next /\ pc \in DOMAIN insts
      /\ blockAt' = blockAt /\ bodies' = bodies /\ block' = block
      /\ insts' = insts /\ m_bytes_read' = m_bytes_read
  BY DEF Execute, decodeVars, buildVars
<1>2. PICK taken \in BOOLEAN :
        pc' = MachineGoes(pc, taken) /\ place' = FunctionGoes(place[1], place[2] + 1, taken)
  BY DEF Execute
<1>3. ~Building /\ ~Building'
  BY <1>1 DEF Building
<1>4. DecodeInv'
  BY <1>1 DEF DecodeInv, IInv, Offset, After
<1>5. TargetsInv'
  BY <1>1, <1>3 DEF TargetsInv, IInv, AreBlocks, HasTargets, Jumps, Target, After, Offset
<1>6. TranslateInv'
  BY <1>1, <1>3 DEF TranslateInv, IInv, BeginsWell, GoesOnWell, EndsWell, ClosedWell, Follows, IsAt,
                   Target, After, Offset
<1>7. /\ next = Len(insts) + 1 /\ DecodeInv /\ AreBlocks(blockAt, bodies)
      /\ BeginsWell(Len(insts) + 1) /\ GoesOnWell(Len(insts) + 1)
      /\ \A i \in DOMAIN insts : HasTargets(i, blockAt)
  BY <1>1, <1>3 DEF IInv, RunInv, TargetsInv, TranslateInv
<1>8. pc # Returned
  BY <1>1, <1>7 DEF DecodeInv, Returned
<1>9. PICK b \in DOMAIN bodies, k \in Nat \ {0} : place = <<b, k>> /\ Beside(b, k, pc)
  BY <1>1, <1>8 DEF IInv, RunInv
<1>10. place' = FunctionGoes(b, k + 1, taken)
  BY <1>2, <1>9
<1>11. PICK i \in DOMAIN insts : i = pc
  BY <1>1
<1>12. \/ place' = Ended /\ pc' = Returned
       \/ \E c \in DOMAIN bodies, m \in Nat \ {0} : place' = <<c, m>> /\ Beside(c, m, pc')
  <2>1. Beside(b, k, i)
    BY <1>9, <1>11
  <2>2. \/ FunctionGoes(b, k + 1, taken) = Ended /\ MachineGoes(i, taken) = Returned
        \/ \E c \in DOMAIN bodies, m \in Nat \ {0} :
              FunctionGoes(b, k + 1, taken) = <<c, m>> /\ Beside(c, m, MachineGoes(i, taken))
    BY <1>7, <2>1, GoBeside
  <2>3. pc' = MachineGoes(i, taken)
    BY <1>2, <1>11
  <2> QED
    BY <1>10, <2>2, <2>3
<1>13. \A c, m : Beside(c, m, pc') => Beside(c, m, pc)'
  BY <1>1 DEF Beside
<1>14. RunInv'
  <2>1. phase' = "run" /\ next' = Len(insts') + 1 /\ bodies' = bodies /\ Ended' = Ended /\ Returned' = Returned
    BY <1>1, <1>7
  <2> QED
    BY <1>12, <1>13, <2>1 DEF RunInv
<1> QED
  BY <1>4, <1>5, <1>6, <1>14 DEF IInv

-----------------------------------------------------------------------------
(* The items of a block, and what an instruction becomes.                  *)
LEMMA ItemsAre ==
  /\ \A i \in Nat : Entry(i) \in Item /\ Entry(i).kind = "inst" /\ Entry(i).inst = i
  /\ \A b \in Nat : Branch(b) \in Item /\ Branch(b).kind = "branch"
  /\ \A f, t \in Nat : CondBranch(f, t) \in Item /\ CondBranch(f, t).kind = "cond"
  /\ Ret \in Item /\ Ret.kind = "ret"
  /\ \A x \in Item : x.kind \in {"inst", "branch", "cond", "ret"}
<1>1. \A i \in Nat : Entry(i) \in Item /\ Entry(i).kind = "inst" /\ Entry(i).inst = i
  BY DEF Item, Entry
<1>2. \A b \in Nat : Branch(b) \in Item /\ Branch(b).kind = "branch"
  BY DEF Item, Branch
<1>3. \A f, t \in Nat : CondBranch(f, t) \in Item /\ CondBranch(f, t).kind = "cond"
  BY DEF Item, CondBranch
<1>4. Ret \in Item /\ Ret.kind = "ret"
  BY DEF Item, Ret
<1>5. \A x \in Item : x.kind \in {"inst", "branch", "cond", "ret"}
  BY DEF Item, Entry, Branch, CondBranch, Ret
<1> QED
  BY <1>1, <1>2, <1>3, <1>4, <1>5

IsTranslation(t, i) ==
  /\ t \in Seq(Item)
  /\ Len(t) \in {1, 2}
  /\ t[1] = Entry(i)
  /\ Len(t) = 2 => t[2].kind # "inst"
  /\ insts[i].opcode = "ret" => Len(t) = 2 /\ t[2] = Ret
  /\ insts[i].opcode = "jmp" => Len(t) = 2 /\ t[2] = Branch(blockAt[Target(i)])
  /\ insts[i].opcode \in Conditional =>
       Len(t) = 2 /\ t[2] = CondBranch(blockAt[After(i)], blockAt[Target(i)])
  /\ insts[i].opcode \notin Conditional \cup {"ret", "jmp"} => Len(t) = 1

LEMMA TranslationIs ==
  ASSUME AreBlocks(blockAt, bodies), NEW i \in Nat, HasTargets(i, blockAt)
  PROVE  IsTranslation(Translation(i), i)
<1>1. \A a \in DOMAIN blockAt : blockAt[a] \in Nat
  BY DEF AreBlocks
<1>2. Entry(i) \in Item
  BY ItemsAre
<1>3. ASSUME NEW x, x \in Item
      PROVE  <<Entry(i), x>> \in Seq(Item) /\ Len(<<Entry(i), x>>) = 2
             /\ <<Entry(i), x>>[1] = Entry(i) /\ <<Entry(i), x>>[2] = x
  BY <1>2, <1>3
<1>4. CASE insts[i].opcode = "ret"
  <2>1. Translation(i) = <<Entry(i), Ret>>
    BY <1>4 DEF Translation, Conditional
  <2>2. Ret \in Item /\ Ret.kind # "inst"
    BY ItemsAre
  <2> QED
    BY <1>3, <1>4, <2>1, <2>2 DEF IsTranslation, Conditional
<1>5. CASE insts[i].opcode = "jmp"
  <2> DEFINE x == Branch(blockAt[Target(i)])
  <2>1. Translation(i) = <<Entry(i), x>>
    BY <1>5 DEF Translation, Conditional
  <2>2. blockAt[Target(i)] \in Nat
    BY <1>1, <1>5 DEF HasTargets, Jumps
  <2>3. x \in Item /\ x.kind # "inst"
    BY <2>2, ItemsAre
  <2>4. <<Entry(i), x>> \in Seq(Item) /\ Len(<<Entry(i), x>>) = 2
        /\ <<Entry(i), x>>[1] = Entry(i) /\ <<Entry(i), x>>[2] = x
    BY <1>3, <2>3
  <2> QED
    BY <1>5, <2>1, <2>3, <2>4 DEF IsTranslation, Conditional
<1>6. CASE insts[i].opcode \in Conditional
  <2> DEFINE x == CondBranch(blockAt[After(i)], blockAt[Target(i)])
  <2>1. Translation(i) = <<Entry(i), x>>
    BY <1>6 DEF Translation, Conditional
  <2>2. blockAt[Target(i)] \in Nat /\ blockAt[After(i)] \in Nat
    BY <1>1, <1>6 DEF HasTargets, Jumps
  <2>3. x \in Item /\ x.kind # "inst"
    BY <2>2, ItemsAre
  <2>4. <<Entry(i), x>> \in Seq(Item) /\ Len(<<Entry(i), x>>) = 2
        /\ <<Entry(i), x>>[1] = Entry(i) /\ <<Entry(i), x>>[2] = x
    BY <1>3, <2>3
  <2> QED
    BY <1>6, <2>1, <2>3, <2>4 DEF IsTranslation, Conditional
<1>7. CASE insts[i].opcode \notin Conditional \cup {"ret", "jmp"}
  <2>1. Translation(i) = <<Entry(i)>>
    BY <1>7 DEF Translation
  <2>2. <<Entry(i)>> \in Seq(Item) /\ Len(<<Entry(i)>>) = 1 /\ <<Entry(i)>>[1] = Entry(i)
    BY <1>2
  <2> QED
    BY <1>7, <2>1, <2>2 DEF IsTranslation
<1> QED
  BY <1>4, <1>5, <1>6, <1>7

LEMMA ExceptOne ==
  ASSUME NEW S, NEW s \in Seq(S), NEW b \in DOMAIN s, NEW x \in S
  PROVE  /\ [s EXCEPT ![b] = x] \in Seq(S)
         /\ DOMAIN [s EXCEPT ![b] = x] = DOMAIN s
         /\ [s EXCEPT ![b] = x][b] = x
         /\ \A c \in DOMAIN s : c # b => [s EXCEPT ![b] = x][c] = s[c]
OBVIOUS

(* The blocks bs that a translation makes: it stands in block c behind     *)
(* the first q items, and the block left for another may get a link.       *)
LinkedTo(bs, b) ==
  /\ b = block /\ b \in DOMAIN bodies
  /\ Offset(next) \in DOMAIN blockAt /\ FallsInto(bodies[b])
  /\ bs[b] = Append(bodies[b], Branch(blockAt[Offset(next)]))

Grown(bs, c, q) ==
  /\ q \in Nat
  /\ bs \in Seq(Seq(Item))
  /\ c \in DOMAIN bs
  /\ DOMAIN bodies \subseteq DOMAIN bs
  /\ \A b \in DOMAIN bs : b # c => b \in DOMAIN bodies /\ (bs[b] = bodies[b] \/ LinkedTo(bs, b))
  /\ Len(bs[c]) = q + Len(Translation(next))
  /\ \A k \in 1..Len(Translation(next)) : bs[c][q + k] = Translation(next)[k]

Placed(bs, c, q) ==
  /\ Offset(next) \in DOMAIN blockAt =>
       /\ c = blockAt[Offset(next)] /\ q = 0
       /\ FallsInto(bodies[block]) => LinkedTo(bs, block)
  /\ Offset(next) \notin DOMAIN blockAt /\ q = 0 =>
       c \notin DOMAIN bodies /\ bodies[block] # <<>> /\ bodies[block][Len(bodies[block])].kind # "inst"
  /\ IF q = 0 THEN c \in DOMAIN bodies => bodies[c] = <<>>
     ELSE /\ c = block /\ q = Len(bodies[block]) /\ bodies[block][q].kind = "inst"
          /\ \A k \in 1..q : bs[c][k] = bodies[block][k]

LEMMA TargetIsEmpty ==
  ASSUME DecodeInv, BeginsWell(next), next \in DOMAIN insts, Offset(next) \in DOMAIN blockAt
  PROVE  bodies[blockAt[Offset(next)]] = <<>>
<1>1. DOMAIN insts = 1..Len(insts) /\ Len(insts) \in Nat
  BY DEF DecodeInv
<1>2. ASSUME NEW i \in 1..(next - 1) PROVE Offset(i) # Offset(next)
  <2>1. i \in DOMAIN insts /\ i < next
    BY <1>1
  <2>2. Offset(i) < Offset(next) /\ Offset(i) \in Nat /\ Offset(next) \in Nat
    BY <2>1 DEF DecodeInv
  <2> QED
    BY <2>2
<1> QED
  BY <1>2 DEF BeginsWell

LEMMA TranslateGrows ==
  ASSUME IInv, Translate
  PROVE  \E q : Grown(bodies', block', q) /\ Placed(bodies', block', q)
<1> DEFINE T == Translation(next)
           off == Offset(next)
           t == blockAt[off]
           link == Branch(t)
<1>1. /\ phase = "translate" /\ next <= Len(insts)
      /\ block' = Chosen /\ bodies' = [Opened EXCEPT ![Chosen] = Opened[Chosen] \o T]
  BY DEF Translate
<1>2. ~Building
  BY <1>1 DEF Building
<1>3. /\ DecodeInv /\ AreBlocks(blockAt, bodies) /\ next \in 1..(Len(insts) + 1)
      /\ \A i \in DOMAIN insts : HasTargets(i, blockAt)
      /\ block \in DOMAIN bodies /\ BeginsWell(next) /\ EndsWell(next)
  BY <1>2 DEF IInv, TargetsInv, TranslateInv
<1>4. next \in DOMAIN insts /\ next \in Nat
  BY <1>1, <1>3 DEF DecodeInv
<1>5. T \in Seq(Item) /\ Len(T) \in Nat /\ DOMAIN T = 1..Len(T)
  <2>1. IsTranslation(T, next)
    BY <1>3, <1>4, TranslationIs
  <2> QED
    BY <2>1 DEF IsTranslation
<1>6. /\ bodies \in Seq(Seq(Item)) /\ DOMAIN bodies = 1..Len(bodies) /\ Len(bodies) \in Nat
      /\ bodies[block] \in Seq(Item)
  BY <1>3 DEF AreBlocks
<1>7. <<>> \o T = T
  BY <1>5, ConcatEmptySeq
<1>8. ~Full(<<>>) /\ ~FallsInto(<<>>)
  BY DEF Full, FallsInto, EndsIn
<1> HIDE DEF T
<1>9. CASE off \in DOMAIN blockAt
  <2>1. t \in DOMAIN bodies /\ t \in Nat /\ bodies[t] = <<>>
    BY <1>3, <1>4, <1>6, <1>9, TargetIsEmpty DEF AreBlocks
  <2>2. Current = t
    BY <1>9 DEF Current
  <2>3. Linked \in Seq(Seq(Item)) /\ DOMAIN Linked = DOMAIN bodies
        /\ Linked[t] = <<>>
        /\ \A b \in DOMAIN bodies : (Linked[b] = bodies[b] \/ LinkedTo(Linked, b))
        /\ (FallsInto(bodies[block]) => LinkedTo(Linked, block) /\ block # t)
    <3>1. CASE FallsInto(bodies[block])
      <4>1. Linked = [bodies EXCEPT ![block] = Append(bodies[block], link)]
        BY <1>9, <3>1 DEF Linked
      <4>2. Append(bodies[block], link) \in Seq(Item)
        BY <1>6, <2>1, ItemsAre, AppendOne
      <4>3. block # t
        BY <1>8, <2>1, <3>1
      <4>4. /\ Linked \in Seq(Seq(Item)) /\ DOMAIN Linked = DOMAIN bodies
            /\ Linked[block] = Append(bodies[block], link)
            /\ \A b \in DOMAIN bodies : b # block => Linked[b] = bodies[b]
        BY <1>3, <1>6, <4>1, <4>2, ExceptOne
      <4>5. LinkedTo(Linked, block)
        BY <1>3, <1>9, <3>1, <4>4 DEF LinkedTo
      <4> QED
        BY <2>1, <4>3, <4>4, <4>5
    <3>2. CASE ~FallsInto(bodies[block])
      <4>1. Linked = bodies
        BY <3>2 DEF Linked
      <4> QED
        BY <1>6, <2>1, <3>2, <4>1
    <3> QED
      BY <3>1, <3>2
  <2>4. Opened = Linked /\ Chosen = t
    BY <1>8, <2>2, <2>3 DEF Opened, Chosen
  <2>5. bodies' = [Linked EXCEPT ![t] = T] /\ block' = t
    BY <1>1, <1>7, <2>3, <2>4
  <2>6. /\ bodies' \in Seq(Seq(Item)) /\ DOMAIN bodies' = DOMAIN bodies /\ bodies'[t] = T
        /\ \A b \in DOMAIN bodies : b # t => bodies'[b] = Linked[b]
    BY <1>5, <2>1, <2>3, <2>5, ExceptOne
  <2>7. \A b \in DOMAIN bodies : b # t /\ LinkedTo(Linked, b) => LinkedTo(bodies', b)
    BY <2>6 DEF LinkedTo
  <2>8. Grown(bodies', block', 0)
    <3>1. \A k \in 1..Len(T) : 0 + k = k
      BY <1>5
    <3>2. \A b \in DOMAIN bodies' :
            b # block' => b \in DOMAIN bodies /\ (bodies'[b] = bodies[b] \/ LinkedTo(bodies', b))
      BY <2>3, <2>5, <2>6, <2>7
    <3>3. block' \in DOMAIN bodies' /\ bodies'[block'] = T
      BY <2>1, <2>5, <2>6
    <3>4. Len(bodies'[block']) = 0 + Len(T) /\ \A k \in 1..Len(T) : bodies'[block'][0 + k] = T[k]
      BY <1>5, <3>1, <3>3
    <3> QED
      BY <2>6, <3>2, <3>3, <3>4 DEF Grown, T
  <2>9. Placed(bodies', block', 0)
    BY <1>3, <1>9, <2>1, <2>3, <2>5, <2>7 DEF Placed
  <2> QED
    BY <2>8, <2>9
<1>10. CASE off \notin DOMAIN blockAt
  <2> DEFINE m == Len(bodies[block])
  <2>1. Linked = bodies /\ Current = block
    BY <1>10 DEF Linked, Current
  <2>2. next # 1
    BY <1>3, <1>4, <1>10 DEF DecodeInv, AreBlocks
  <2>3. m \in Nat \ {0} /\ DOMAIN bodies[block] = 1..m
    BY <1>3, <1>6, <2>2 DEF EndsWell, IsAt
  <2>4. bodies[block] # <<>> /\ bodies[block][m] \in Item /\ Last(bodies[block]) = bodies[block][m]
    BY <1>6, <2>3 DEF Last
  <2> HIDE DEF m
  <2>5. CASE ~Full(bodies[block])
    <3>1. Opened = bodies /\ Chosen = block
      BY <2>1, <2>5 DEF Opened, Chosen
    <3>2. bodies[block][m].kind = "inst"
      BY <2>4, <2>5, ItemsAre DEF Full, EndsIn
    <3> DEFINE more == bodies[block] \o T
    <3>3. /\ more \in Seq(Item) /\ Len(more) = m + Len(T)
          /\ \A k \in 1..(m + Len(T)) : more[k] = IF k <= m THEN bodies[block][k] ELSE T[k - m]
      BY <1>5, <1>6, ConcatProperties DEF m
    <3> HIDE DEF more
    <3>4. bodies' = [bodies EXCEPT ![block] = more] /\ block' = block
      BY <1>1, <3>1 DEF more
    <3>5. /\ bodies' \in Seq(Seq(Item)) /\ DOMAIN bodies' = DOMAIN bodies /\ bodies'[block] = more
          /\ \A b \in DOMAIN bodies : b # block => bodies'[b] = bodies[b]
      BY <1>3, <1>6, <3>3, <3>4, ExceptOne
    <3>6. \A k \in 1..Len(T) : more[m + k] = T[k]
      <4> TAKE k \in 1..Len(T)
      <4>1. m + k \in 1..(m + Len(T)) /\ ~(m + k <= m) /\ (m + k) - m = k
        BY <1>5, <2>3
      <4> QED
        BY <3>3, <4>1
    <3>7. \A k \in 1..m : more[k] = bodies[block][k]
      <4> TAKE k \in 1..m
      <4>1. k \in 1..(m + Len(T)) /\ k <= m
        BY <1>5, <2>3
      <4> QED
        BY <3>3, <4>1
    <3>8. Grown(bodies', block', m)
      BY <1>3, <2>3, <3>3, <3>4, <3>5, <3>6 DEF Grown, T
    <3>9. Placed(bodies', block', m)
      BY <1>10, <2>3, <3>2, <3>4, <3>5, <3>7 DEF Placed, m
    <3> QED
      BY <3>8, <3>9
  <2>6. CASE Full(bodies[block])
    <3> DEFINE n == Len(bodies)
    <3>1. Opened = Append(bodies, <<>>) /\ Chosen = Len(Opened)
      BY <2>1, <2>6 DEF Opened, Chosen
    <3>2. <<>> \in Seq(Item)
      OBVIOUS
    <3>3. /\ Opened \in Seq(Seq(Item)) /\ n \in Nat /\ Len(Opened) = n + 1
          /\ DOMAIN bodies = 1..n /\ DOMAIN Opened = 1..(n+1)
          /\ \A b \in 1..n : Opened[b] = bodies[b]
          /\ Opened[n+1] = <<>>
      BY <1>6, <3>1, <3>2, AppendOne
    <3> HIDE DEF n
    <3>4. bodies' = [Opened EXCEPT ![n+1] = T] /\ block' = n + 1
      BY <1>1, <1>7, <3>1, <3>3
    <3>5. n + 1 \in DOMAIN Opened
      BY <3>3
    <3>6. /\ bodies' \in Seq(Seq(Item)) /\ DOMAIN bodies' = 1..(n+1) /\ bodies'[n+1] = T
          /\ \A b \in DOMAIN Opened : b # n + 1 => bodies'[b] = Opened[b]
      BY <1>5, <3>3, <3>4, <3>5, ExceptOne
    <3>7. \A b \in 1..(n+1) : b # n + 1 => b \in 1..n /\ bodies'[b] = bodies[b]
      BY <3>3, <3>6
    <3>8. bodies[block][m].kind # "inst"
      BY <2>4, <2>6 DEF Full, EndsIn
    <3>9. Grown(bodies', block', 0)
      <4>1. \A k \in 1..Len(T) : 0 + k = k
        BY <1>5
      <4>2. 1..n \subseteq 1..(n+1) /\ n + 1 \in 1..(n+1) /\ 0 + Len(T) = Len(T)
        BY <1>5, <3>3
      <4> QED
        BY <3>3, <3>4, <3>6, <3>7, <4>1, <4>2 DEF Grown, T
    <3>10. Placed(bodies', block', 0)
      <4>1. n + 1 \notin 1..n
        BY <3>3
      <4> QED
        BY <1>10, <2>4, <3>3, <3>4, <3>8, <4>1 DEF Placed, m
    <3> QED
      BY <3>9, <3>10
  <2> QED
    BY <2>5, <2>6
<1> QED
  BY <1>9, <1>10

(* What was in the blocks stays there, and what is new in them.            *)
LEMMA OldStays ==
  ASSUME AreBlocks(blockAt, bodies), NEW bs, NEW c, NEW q, Grown(bs, c, q), Placed(bs, c, q),
         Len(Translation(next)) \in Nat,
         NEW b \in DOMAIN bodies, NEW k \in DOMAIN bodies[b]
  PROVE  b \in DOMAIN bs /\ k \in DOMAIN bs[b] /\ bs[b][k] = bodies[b][k]
<1>1. bodies \in Seq(Seq(Item)) /\ bs \in Seq(Seq(Item)) /\ b \in DOMAIN bs
  BY DEF AreBlocks, Grown
<1>2. /\ bodies[b] \in Seq(Item) /\ bs[b] \in Seq(Item)
      /\ DOMAIN bodies[b] = 1..Len(bodies[b]) /\ Len(bodies[b]) \in Nat
      /\ DOMAIN bs[b] = 1..Len(bs[b])
  BY <1>1
<1>3. CASE b # c
  <2>1. CASE bs[b] = bodies[b]
    BY <1>1, <2>1
  <2>2. CASE LinkedTo(bs, b)
    <3>1. bs[b] = Append(bodies[b], Branch(blockAt[Offset(next)]))
      BY <2>2 DEF LinkedTo
    <3> HIDE DEF Branch
    <3>2. /\ DOMAIN bs[b] = 1..(Len(bodies[b]) + 1)
          /\ \A j \in 1..Len(bodies[b]) : bs[b][j] = bodies[b][j]
      BY <1>2, <3>1
    <3> QED
      BY <1>1, <1>2, <3>2
  <2> QED
    BY <1>1, <1>3, <2>1, <2>2 DEF Grown
<1>4. CASE b = c
  <2>1. q # 0
    BY <1>2, <1>4 DEF Placed
  <2>2. b = block /\ q = Len(bodies[b]) /\ \A j \in 1..q : bs[b][j] = bodies[b][j]
    BY <1>4, <2>1 DEF Placed
  <2>3. k \in 1..q /\ Len(bs[b]) = q + Len(Translation(next))
    BY <1>2, <1>4, <2>2 DEF Grown
  <2> QED
    BY <1>1, <1>2, <2>2, <2>3
<1> QED
  BY <1>3, <1>4

(* In block b, item k of bs is one of the translation's, or the link.      *)
IsNew(bs, c, q, b, k) ==
  \/ b = c /\ \E j \in 1..Len(Translation(next)) : k = q + j /\ bs[b][k] = Translation(next)[j]
  \/ /\ b # c /\ LinkedTo(bs, b) /\ k = Len(bodies[b]) + 1
     /\ Len(bs[b]) = k /\ bs[b][k] = Branch(blockAt[Offset(next)])

LEMMA NewIs ==
  ASSUME AreBlocks(blockAt, bodies), NEW bs, NEW c, NEW q, Grown(bs, c, q), Placed(bs, c, q),
         Len(Translation(next)) \in Nat, block \in DOMAIN bodies,
         NEW b \in DOMAIN bs, NEW k \in DOMAIN bs[b]
  PROVE  (b \in DOMAIN bodies /\ k \in DOMAIN bodies[b]) \/ IsNew(bs, c, q, b, k)
<1>1. bodies \in Seq(Seq(Item)) /\ bs \in Seq(Seq(Item)) /\ q \in Nat
  BY DEF AreBlocks, Grown
<1>2. bs[b] \in Seq(Item) /\ DOMAIN bs[b] = 1..Len(bs[b]) /\ Len(bs[b]) \in Nat
  BY <1>1
<1>3. CASE b # c
  <2>1. b \in DOMAIN bodies /\ bodies[b] \in Seq(Item)
    BY <1>1, <1>3 DEF Grown
  <2>2. CASE bs[b] = bodies[b]
    BY <2>1, <2>2
  <2>3. CASE LinkedTo(bs, b)
    <3>1. bs[b] = Append(bodies[b], Branch(blockAt[Offset(next)]))
      BY <2>3 DEF LinkedTo
    <3> HIDE DEF Branch
    <3>2. /\ Len(bodies[b]) \in Nat /\ DOMAIN bodies[b] = 1..Len(bodies[b])
          /\ Len(bs[b]) = Len(bodies[b]) + 1
          /\ bs[b][Len(bodies[b]) + 1] = Branch(blockAt[Offset(next)])
      BY <2>1, <3>1
    <3>3. CASE k = Len(bodies[b]) + 1
      BY <1>3, <2>3, <3>2, <3>3 DEF IsNew
    <3>4. CASE k # Len(bodies[b]) + 1
      BY <1>2, <2>1, <3>2, <3>4
    <3> QED
      BY <3>3, <3>4
  <2> QED
    BY <1>3, <2>2, <2>3 DEF Grown
<1>4. CASE b = c
  <2>1. /\ Len(bs[b]) = q + Len(Translation(next))
        /\ \A j \in 1..Len(Translation(next)) : bs[b][q + j] = Translation(next)[j]
    BY <1>4 DEF Grown
  <2>2. CASE k <= q
    <3>1. q # 0
      BY <1>1, <1>2, <2>2
    <3>2. b = block /\ q = Len(bodies[b]) /\ bodies[b][q].kind = "inst"
      BY <1>4, <3>1 DEF Placed
    <3> QED
      BY <1>1, <1>2, <2>2, <3>2
  <2>3. CASE ~(k <= q)
    <3>1. k - q \in 1..Len(Translation(next)) /\ k = q + (k - q)
      BY <1>1, <1>2, <2>1, <2>3
    <3>2. bs[b][k] = Translation(next)[k - q]
      BY <2>1, <3>1
    <3> QED
      BY <1>4, <3>1, <3>2 DEF IsNew
  <2> QED
    BY <2>2, <2>3
<1> QED
  BY <1>3, <1>4

(* A translated instruction, its followers and its block stay as they are. *)
LEMMA TranslatePreserves ==
  ASSUME IInv, Translate
  PROVE  IInv'
<1>1. /\ phase = "translate" /\ phase' = "translate" /\ next <= Len(insts) /\ next' = next + 1
      /\ blockAt' = blockAt /\ insts' = insts /\ m_bytes_read' = m_bytes_read
      /\ place' = place /\ pc' = pc
  BY DEF Translate, decodeVars, runVars
<1>2. ~Building /\ ~Building'
  BY <1>1 DEF Building
<1>3. /\ DecodeInv /\ AreBlocks(blockAt, bodies) /\ next \in 1..(Len(insts) + 1)
      /\ \A i \in DOMAIN insts : HasTargets(i, blockAt)
      /\ block \in DOMAIN bodies
      /\ BeginsWell(next) /\ GoesOnWell(next) /\ EndsWell(next) /\ ClosedWell
  BY <1>2 DEF IInv, TargetsInv, TranslateInv
<1>4. PICK q : Grown(bodies', block', q) /\ Placed(bodies', block', q)
  BY TranslateGrows
<1>5. PICK bs, c : bs = bodies' /\ c = block'
  OBVIOUS
<1>6. Grown(bs, c, q) /\ Placed(bs, c, q)
  BY <1>4, <1>5
<1>7. PICK n : n = next
  OBVIOUS
<1>8. /\ n \in DOMAIN insts /\ n \in Nat \ {0} /\ (n + 1) - 1 = n /\ next' = n + 1
      /\ DOMAIN insts = 1..Len(insts) /\ Len(insts) \in Nat
      /\ \A i \in 1..(n - 1) : i \in 1..n /\ i # n
      /\ \A i \in 1..n : i = n \/ i \in 1..(n - 1)
  BY <1>1, <1>3, <1>7 DEF DecodeInv
<1>9. PICK T : T = Translation(next)
  OBVIOUS
<1>10. IsTranslation(T, n)
  <2>1. HasTargets(n, blockAt)
    BY <1>3, <1>8
  <2> QED
    BY <1>3, <1>7, <1>8, <1>9, <2>1, TranslationIs
<1>11. Len(T) \in {1, 2} /\ Len(T) \in Nat /\ T[1] = Entry(n) /\ (Len(T) = 2 => T[2].kind # "inst")
  BY <1>10 DEF IsTranslation
<1>12. /\ bodies \in Seq(Seq(Item)) /\ bs \in Seq(Seq(Item)) /\ q \in Nat /\ c \in DOMAIN bs
       /\ DOMAIN bodies \subseteq DOMAIN bs
       /\ DOMAIN bodies = 1..Len(bodies) /\ DOMAIN bs = 1..Len(bs)
       /\ Len(bs[c]) = q + Len(T)
       /\ \A k \in 1..Len(T) : bs[c][q + k] = T[k]
  BY <1>3, <1>6, <1>9 DEF AreBlocks, Grown
<1>13. \A b \in DOMAIN bs : bs[b] \in Seq(Item) /\ DOMAIN bs[b] = 1..Len(bs[b]) /\ Len(bs[b]) \in Nat
  BY <1>12
<1>14. \A b \in DOMAIN bodies :
         bodies[b] \in Seq(Item) /\ DOMAIN bodies[b] = 1..Len(bodies[b]) /\ Len(bodies[b]) \in Nat
  BY <1>12
<1>15. \A b \in DOMAIN bodies : \A k \in DOMAIN bodies[b] :
         b \in DOMAIN bs /\ k \in DOMAIN bs[b] /\ bs[b][k] = bodies[b][k]
  BY <1>3, <1>6, <1>9, <1>11, OldStays
<1>16. \A b \in DOMAIN bs : \A k \in DOMAIN bs[b] :
         (b \in DOMAIN bodies /\ k \in DOMAIN bodies[b]) \/ IsNew(bs, c, q, b, k)
  BY <1>3, <1>6, <1>9, <1>11, NewIs
<1>17. q + 1 \in DOMAIN bs[c] /\ bs[c][q + 1] = Entry(n)
  <2>1. 1 \in 1..Len(T) /\ q + 1 \in 1..(q + Len(T))
    BY <1>11, <1>12
  <2> QED
    BY <1>11, <1>12, <1>13, <2>1
<1>18. Len(T) = 2 => q + 2 \in DOMAIN bs[c] /\ bs[c][q + 2] = T[2]
  <2>1. Len(T) = 2 => 2 \in 1..Len(T) /\ q + 2 \in 1..(q + Len(T))
    BY <1>12
  <2> QED
    BY <1>12, <1>13, <2>1
<1>19. Entry(n).kind = "inst" /\ Entry(n).inst = n
  BY <1>8, ItemsAre
<1>20. \A b, k, x : IsAt(b, k, x)' <=> k \in DOMAIN bs[b] /\ bs[b][k] = x
  BY <1>5 DEF IsAt
<1>21. \A b \in DOMAIN bodies : \A k, x : IsAt(b, k, x) => IsAt(b, k, x)'
  <2> SUFFICES ASSUME NEW b \in DOMAIN bodies, NEW k, NEW x, IsAt(b, k, x) PROVE IsAt(b, k, x)'
    OBVIOUS
  <2>1. k \in DOMAIN bodies[b] /\ bodies[b][k] = x
    BY DEF IsAt
  <2> QED
    BY <1>15, <1>20, <2>1
<1>22. \A i : Offset(i)' = Offset(i) /\ After(i)' = After(i) /\ Target(i)' = Target(i)
  BY <1>1 DEF Offset, After, Target
<1>23. \A a \in DOMAIN blockAt : blockAt[a] \in DOMAIN bodies /\ blockAt[a] \in Nat
  BY <1>3, <1>12 DEF AreBlocks
<1>24. DecodeInv' /\ RunInv'
  BY <1>1, <1>3 DEF DecodeInv, Offset, After, IInv, RunInv
<1> HIDE <1>4, <1>9
<1>25. AreBlocks(blockAt, bodies)'
  <2>1. ASSUME NEW b \in 1..Len(bs), bs[b] = <<>> PROVE \E a \in DOMAIN blockAt : blockAt[a] = b
    <3>1. b \in DOMAIN bs /\ DOMAIN bs[b] = {}
      BY <1>12, <2>1
    <3>2. b # c
      BY <1>17, <3>1
    <3>3. b \in DOMAIN bodies
      BY <1>6, <3>1, <3>2 DEF Grown
    <3>4. DOMAIN bodies[b] = {}
      BY <1>15, <3>1, <3>3
    <3>5. bodies[b] = <<>>
      BY <1>14, <3>3, <3>4
    <3> QED
      BY <1>3, <1>12, <3>3, <3>5 DEF AreBlocks
  <2>2. blockAt \in [DOMAIN blockAt -> 1..Len(bs)]
    BY <1>3, <1>12 DEF AreBlocks
  <2> QED
    BY <1>1, <1>3, <1>5, <1>12, <2>1, <2>2 DEF AreBlocks
<1>26. TargetsInv'
  <2>1. next' \in 1..(Len(insts') + 1)
    BY <1>1, <1>8
  <2>2. \A i \in DOMAIN insts : HasTargets(i, blockAt)'
    BY <1>1, <1>3, <1>22 DEF HasTargets, Jumps
  <2> QED
    BY <1>1, <1>2, <1>25, <2>1, <2>2 DEF TargetsInv
<1>27. BeginsWell(next)'
  <2> SUFFICES ASSUME NEW a \in DOMAIN blockAt
               PROVE  /\ \A i \in 1..n : Offset(i) = a =>
                           1 \in DOMAIN bs[blockAt[a]] /\ bs[blockAt[a]][1] = Entry(i)
                      /\ (\A i \in 1..n : Offset(i) # a) => bs[blockAt[a]] = <<>>
    BY <1>1, <1>5, <1>8, <1>22 DEF BeginsWell, IsAt
  <2>1. ASSUME NEW i \in 1..n, Offset(i) = a
        PROVE  1 \in DOMAIN bs[blockAt[a]] /\ bs[blockAt[a]][1] = Entry(i)
    <3>1. CASE i \in 1..(n - 1)
      BY <1>3, <1>7, <1>15, <1>23, <2>1, <3>1 DEF BeginsWell, IsAt
    <3>2. CASE i = n
      <4>1. c = blockAt[a] /\ q = 0
        BY <1>6, <1>7, <2>1, <3>2 DEF Placed
      <4> QED
        BY <1>17, <3>2, <4>1
    <3> QED
      BY <1>8, <3>1, <3>2
  <2>2. ASSUME \A i \in 1..n : Offset(i) # a PROVE bs[blockAt[a]] = <<>>
    <3> DEFINE b == blockAt[a]
    <3>1. b \in DOMAIN bodies /\ bodies[b] = <<>>
      BY <1>3, <1>7, <1>8, <1>23, <2>2 DEF BeginsWell
    <3>2. Offset(n) # a
      BY <1>8, <2>2
    <3>3. b # c
      <4>1. CASE Offset(n) \in DOMAIN blockAt
        BY <1>3, <1>6, <1>7, <3>2, <4>1 DEF Placed, AreBlocks
      <4>2. CASE Offset(n) \notin DOMAIN blockAt
        <5>1. CASE q = 0
          BY <1>6, <1>7, <3>1, <4>2, <5>1 DEF Placed
        <5>2. CASE q # 0
          BY <1>6, <3>1, <5>2 DEF Placed
        <5> QED
          BY <5>1, <5>2
      <4> QED
        BY <4>1, <4>2
    <3>4. ~LinkedTo(bs, b)
      BY <3>1 DEF LinkedTo, FallsInto, EndsIn
    <3> QED
      BY <1>6, <1>12, <3>1, <3>3, <3>4 DEF Grown
  <2> QED
    BY <2>1, <2>2
<1>28. EndsWell(next)'
  <2>1. CASE Len(T) = 1
    <3>1. Len(bs[c]) = q + 1
      BY <1>12, <2>1
    <3>2. IsAt(c, Len(bs[c]), Entry(n))'
      BY <1>17, <1>20, <3>1
    <3> QED
      BY <1>1, <1>5, <1>8, <3>2 DEF EndsWell
  <2>2. CASE Len(T) = 2
    <3>1. Len(bs[c]) = q + 2 /\ Len(bs[c]) - 1 = q + 1
      BY <1>12, <2>2
    <3>2. IsAt(c, Len(bs[c]) - 1, Entry(n))' /\ bs[c][Len(bs[c])].kind # "inst"
      BY <1>5, <1>11, <1>17, <1>18, <1>20, <2>2, <3>1
    <3> QED
      BY <1>1, <1>5, <1>8, <3>2 DEF EndsWell
  <2> QED
    BY <1>11, <2>1, <2>2
<1>29. \A b \in DOMAIN bodies : \A k, x : IsAt(b, k, x) => k \in DOMAIN bs[b] /\ bs[b][k] = x
  BY <1>20, <1>21
<1>30. ASSUME NEW b \in DOMAIN bodies, NEW k \in DOMAIN bodies[b], bodies[b][k].kind = "inst",
              NEW i, i = bodies[b][k].inst
       PROVE  Follows(b, k, i, next)'
  <2>1. i \in 1..(n - 1) /\ Follows(b, k, i, n)
    BY <1>3, <1>7, <1>30 DEF GoesOnWell
  <2>2. CASE insts[i].opcode = "ret"
    <3>1. IsAt(b, k + 1, Ret)
      BY <2>1, <2>2 DEF Follows, Conditional
    <3>2. k + 1 \in DOMAIN bs[b] /\ bs[b][k + 1] = Ret
      BY <1>29, <3>1
    <3> QED
      BY <1>1, <1>5, <2>2, <3>2 DEF Follows, IsAt, Conditional
  <2>3. CASE insts[i].opcode = "jmp"
    <3>1. IsAt(b, k + 1, Branch(blockAt[Target(i)]))
      BY <2>1, <2>3 DEF Follows, Conditional
    <3>2. k + 1 \in DOMAIN bs[b] /\ bs[b][k + 1] = Branch(blockAt[Target(i)])
      BY <1>29, <3>1
    <3> QED
      BY <1>1, <1>5, <1>22, <2>3, <3>2 DEF Follows, IsAt, Conditional
  <2>4. CASE insts[i].opcode \in Conditional
    <3>1. IsAt(b, k + 1, CondBranch(blockAt[After(i)], blockAt[Target(i)]))
      BY <2>1, <2>4 DEF Follows, Conditional
    <3>2. k + 1 \in DOMAIN bs[b] /\ bs[b][k + 1] = CondBranch(blockAt[After(i)], blockAt[Target(i)])
      BY <1>29, <3>1
    <3> QED
      BY <1>1, <1>5, <1>22, <2>4, <3>2 DEF Follows, IsAt, Conditional
  <2>5. CASE insts[i].opcode \notin Conditional \cup {"ret", "jmp"}
    <3>1. (k + 1 \in DOMAIN bs[b] /\ bs[b][k + 1] = Entry(i + 1))
          \/ (Offset(i + 1) \in DOMAIN blockAt
              /\ k + 1 \in DOMAIN bs[b] /\ bs[b][k + 1] = Branch(blockAt[Offset(i + 1)]))
      <4>1. CASE i # n - 1
        <5>1. IsAt(b, k + 1, Entry(i + 1))
              \/ (Offset(i + 1) \in DOMAIN blockAt /\ IsAt(b, k + 1, Branch(blockAt[Offset(i + 1)])))
          BY <2>1, <2>5, <4>1 DEF Follows
        <5> QED
          BY <1>29, <5>1
      <4>2. CASE i = n - 1
        <5>1. b = block /\ k = Len(bodies[b]) /\ i + 1 = n
          BY <1>8, <2>1, <2>5, <4>2 DEF Follows
        <5>2. CASE Offset(n) \in DOMAIN blockAt
          <6>1. bodies[block] # <<>> /\ Last(bodies[block]) = bodies[block][k]
            BY <1>14, <5>1 DEF Last
          <6>2. FallsInto(bodies[block])
            BY <1>30, <5>1, <6>1 DEF FallsInto, EndsIn
          <6>3. LinkedTo(bs, block)
            BY <1>6, <1>7, <5>2, <6>2 DEF Placed
          <6>4. bs[block] = Append(bodies[block], Branch(blockAt[Offset(n)]))
            BY <1>7, <6>3 DEF LinkedTo
          <6> HIDE DEF Branch
          <6>5. k + 1 \in DOMAIN bs[block] /\ bs[block][k + 1] = Branch(blockAt[Offset(n)])
            BY <1>14, <5>1, <6>4
          <6> QED
            BY <5>1, <5>2, <6>5
        <5>3. CASE Offset(n) \notin DOMAIN blockAt
          <6>1. q # 0
            BY <1>6, <1>7, <1>30, <5>1, <5>3 DEF Placed
          <6>2. c = block /\ q = k
            BY <1>6, <5>1, <6>1 DEF Placed
          <6> QED
            BY <1>17, <5>1, <6>2
        <5> QED
          BY <5>2, <5>3
      <4> QED
        BY <4>1, <4>2
    <3>2. i # next' - 1
      BY <1>8, <2>1
    <3> QED
      BY <1>1, <1>5, <1>22, <2>5, <3>1, <3>2 DEF Follows, IsAt
  <2> QED
    BY <2>2, <2>3, <2>4, <2>5
<1>31. Follows(c, q + 1, n, next)'
  <2>1. (q + 1) + 1 = q + 2
    BY <1>12
  <2>2. CASE insts[n].opcode = "ret"
    <3>1. q + 2 \in DOMAIN bs[c] /\ bs[c][q + 2] = Ret
      BY <1>10, <1>18, <2>2 DEF IsTranslation
    <3> QED
      BY <1>1, <1>5, <2>1, <2>2, <3>1 DEF Follows, IsAt, Conditional
  <2>3. CASE insts[n].opcode = "jmp"
    <3>1. q + 2 \in DOMAIN bs[c] /\ bs[c][q + 2] = Branch(blockAt[Target(n)])
      BY <1>10, <1>18, <2>3 DEF IsTranslation
    <3> QED
      BY <1>1, <1>5, <1>22, <2>1, <2>3, <3>1 DEF Follows, IsAt, Conditional
  <2>4. CASE insts[n].opcode \in Conditional
    <3>1. q + 2 \in DOMAIN bs[c] /\ bs[c][q + 2] = CondBranch(blockAt[After(n)], blockAt[Target(n)])
      BY <1>10, <1>18, <2>4 DEF IsTranslation
    <3> QED
      BY <1>1, <1>5, <1>22, <2>1, <2>4, <3>1 DEF Follows, IsAt, Conditional
  <2>5. CASE insts[n].opcode \notin Conditional \cup {"ret", "jmp"}
    <3>1. Len(bs[c]) = q + 1
      BY <1>10, <1>12, <2>5 DEF IsTranslation
    <3>2. n = next' - 1
      BY <1>8
    <3> QED
      BY <1>1, <1>5, <2>5, <3>1, <3>2 DEF Follows
  <2> QED
    BY <2>2, <2>3, <2>4, <2>5
<1>32. \A b \in DOMAIN bs : \A k \in DOMAIN bs[b] :
         IsNew(bs, c, q, b, k) =>
           \/ b = c /\ k = q + 1 /\ bs[b][k] = Entry(n)
           \/ b = c /\ k = q + 2 /\ Len(T) = 2 /\ bs[b][k] = T[2]
           \/ /\ b # c /\ b \in DOMAIN bodies /\ LinkedTo(bs, b) /\ k = Len(bodies[b]) + 1
              /\ Len(bs[b]) = k /\ bs[b][k].kind = "branch"
  <2> SUFFICES ASSUME NEW b \in DOMAIN bs, NEW k \in DOMAIN bs[b], IsNew(bs, c, q, b, k)
               PROVE  \/ b = c /\ k = q + 1 /\ bs[b][k] = Entry(n)
                      \/ b = c /\ k = q + 2 /\ Len(T) = 2 /\ bs[b][k] = T[2]
                      \/ /\ b # c /\ b \in DOMAIN bodies /\ LinkedTo(bs, b) /\ k = Len(bodies[b]) + 1
                         /\ Len(bs[b]) = k /\ bs[b][k].kind = "branch"
    OBVIOUS
  <2>1. CASE b = c
    <3>1. PICK j \in 1..Len(T) : k = q + j /\ bs[b][k] = T[j]
      BY <1>9, <2>1 DEF IsNew
    <3>2. j = 1 \/ (j = 2 /\ Len(T) = 2)
      BY <1>11, <3>1
    <3> QED
      BY <1>11, <2>1, <3>1, <3>2
  <2>2. CASE b # c
    <3>1. /\ LinkedTo(bs, b) /\ k = Len(bodies[b]) + 1 /\ Len(bs[b]) = k
          /\ bs[b][k] = Branch(blockAt[Offset(next)])
      BY <2>2 DEF IsNew
    <3>2. b \in DOMAIN bodies /\ bs[b][k].kind = "branch"
      BY <1>23, <3>1, ItemsAre DEF LinkedTo
    <3> QED
      BY <2>2, <3>1, <3>2
  <2> QED
    BY <2>1, <2>2
<1>33. GoesOnWell(next)'
  <2> SUFFICES ASSUME NEW b \in DOMAIN bs, NEW k \in DOMAIN bs[b], bs[b][k].kind = "inst",
                      NEW i, i = bs[b][k].inst
               PROVE  i \in 1..n /\ bs[b][k] = Entry(i) /\ Follows(b, k, i, next)'
    BY <1>5, <1>8 DEF GoesOnWell, Entry
  <2>1. CASE b \in DOMAIN bodies /\ k \in DOMAIN bodies[b]
    <3>1. bs[b][k] = bodies[b][k]
      BY <1>15, <2>1
    <3>2. i \in 1..(n - 1) /\ bs[b][k] = Entry(i)
      BY <1>3, <1>7, <2>1, <3>1 DEF GoesOnWell
    <3>3. Follows(b, k, i, next)'
      BY <1>30, <2>1, <3>1
    <3> QED
      BY <1>8, <3>2, <3>3
  <2>2. CASE IsNew(bs, c, q, b, k)
    <3>1. b = c /\ k = q + 1 /\ bs[b][k] = Entry(n)
      BY <1>11, <1>32, <2>2
    <3>2. i = n
      BY <1>19, <3>1
    <3> QED
      BY <1>8, <1>31, <3>1, <3>2
  <2> QED
    BY <1>16, <2>1, <2>2
<1>34. ClosedWell'
  <2> SUFFICES ASSUME NEW b \in DOMAIN bs, NEW k \in 1..(Len(bs[b]) - 1), bs[b][k].kind # "inst"
               PROVE  /\ k = Len(bs[b]) - 1
                      /\ bs[b][k].kind = "ret"
                      /\ bs[b][k+1].kind = "branch"
                      /\ k - 1 \in DOMAIN bs[b] /\ bs[b][k-1].kind = "inst"
                      /\ After(bs[b][k-1].inst) \in DOMAIN blockAt
    BY <1>1, <1>5 DEF ClosedWell, After, Offset
  <2>1. k \in DOMAIN bs[b] /\ k # Len(bs[b]) /\ k < Len(bs[b])
    BY <1>13
  <2>2. b \in DOMAIN bodies /\ k \in DOMAIN bodies[b] /\ bs[b][k] = bodies[b][k]
    <3>1. ~IsNew(bs, c, q, b, k)
      <4>1. ~(b = c /\ k = q + 2 /\ Len(T) = 2)
        BY <1>12, <2>1
      <4> QED
        BY <1>19, <1>32, <2>1, <4>1
    <3> QED
      BY <1>15, <1>16, <2>1, <3>1
  <2> DEFINE m == Len(bodies[b])
  <2>3. m \in Nat /\ DOMAIN bodies[b] = 1..m /\ k \in 1..m /\ bodies[b] # <<>> /\ Last(bodies[b]) = bodies[b][m]
    BY <1>14, <2>2 DEF Last
  <2>4. ASSUME k \in 1..(m - 1)
        PROVE  /\ k = m - 1 /\ bodies[b][k].kind = "ret" /\ bodies[b][m].kind = "branch"
               /\ k - 1 \in DOMAIN bodies[b] /\ bodies[b][k-1].kind = "inst"
               /\ After(bodies[b][k-1].inst) \in DOMAIN blockAt
    <3>1. /\ k = m - 1 /\ bodies[b][k].kind = "ret" /\ bodies[b][k+1].kind = "branch"
          /\ k - 1 \in DOMAIN bodies[b] /\ bodies[b][k-1].kind = "inst"
          /\ After(bodies[b][k-1].inst) \in DOMAIN blockAt
      BY <1>3, <2>2, <2>4 DEF ClosedWell
    <3>2. k + 1 = m
      BY <2>3, <3>1
    <3> QED
      BY <3>1, <3>2
  <2> HIDE DEF m
  <2>5. CASE b = c
    <3>1. q # 0 /\ q = m /\ bodies[b][m].kind = "inst"
      BY <1>6, <2>2, <2>3, <2>5 DEF Placed, m
    <3>2. k \in 1..(m - 1)
      BY <2>2, <2>3, <3>1
    <3> QED
      BY <2>4, <3>1, <3>2
  <2>6. CASE b # c /\ bs[b] = bodies[b]
    <3>1. k \in 1..(m - 1) /\ k + 1 = m
      BY <2>3, <2>4, <2>6 DEF m
    <3> QED
      BY <2>4, <2>6, <3>1 DEF m
  <2>7. CASE b # c /\ LinkedTo(bs, b)
    <3>1. /\ b = block /\ FallsInto(bodies[b]) /\ Offset(n) \in DOMAIN blockAt
          /\ bs[b] = Append(bodies[b], Branch(blockAt[Offset(n)]))
      BY <1>7, <2>7 DEF LinkedTo
    <3>2. bodies[b][m].kind \in {"inst", "ret"}
      BY <2>3, <3>1 DEF FallsInto, EndsIn
    <3>3. k = m
      BY <2>3, <2>4, <3>2
    <3>4. Branch(blockAt[Offset(n)]).kind = "branch"
      BY <1>23, <3>1, ItemsAre
    <3> HIDE DEF Branch
    <3>5. Len(bs[b]) = m + 1 /\ bs[b][m + 1].kind = "branch"
      BY <1>14, <2>2, <3>1, <3>4 DEF m
    <3>6. n # 1
      <4>1. CASE n = 1
        <5>1. block = 1 /\ Offset(n) = 0
          BY <1>3, <1>7, <1>8, <4>1 DEF EndsWell, DecodeInv
        <5>2. bodies[1] = <<>>
          BY <1>3, <1>7, <1>8, <3>1, <5>1, TargetIsEmpty DEF AreBlocks
        <5> QED
          BY <2>3, <3>1, <5>1, <5>2
      <4> QED
        BY <4>1
    <3>7. n - 1 \in Nat /\ n - 1 \in DOMAIN insts /\ n \in DOMAIN insts /\ (n - 1) + 1 = n
      BY <1>8, <3>6
    <3>8. IsAt(b, m - 1, Entry(n - 1))
      <4>1. IsAt(b, m, Entry(n - 1)) \/ IsAt(b, m - 1, Entry(n - 1))
        BY <1>3, <1>7, <3>1, <3>6 DEF EndsWell, m
      <4>2. Entry(n - 1).kind = "inst"
        BY <3>7, ItemsAre
      <4> QED
        BY <2>2, <3>3, <4>1, <4>2 DEF IsAt
    <3>9. bodies[b][m-1].kind = "inst" /\ bodies[b][m-1].inst = n - 1 /\ m - 1 \in DOMAIN bodies[b]
      BY <3>7, <3>8, ItemsAre DEF IsAt
    <3>10. bs[b][m-1] = bodies[b][m-1] /\ m - 1 \in DOMAIN bs[b]
      BY <1>15, <2>2, <3>9
    <3>11. After(n - 1) = Offset(n)
      BY <1>3, <3>7 DEF DecodeInv
    <3>12. m + 1 - 1 = m
      BY <2>3
    <3> QED
      BY <2>2, <3>1, <3>2, <3>3, <3>5, <3>9, <3>10, <3>11, <3>12
  <2> QED
    BY <1>6, <2>5, <2>6, <2>7 DEF Grown
<1>35. TranslateInv'
  BY <1>5, <1>12, <1>27, <1>28, <1>33, <1>34 DEF TranslateInv
<1> QED
  BY <1>24, <1>26, <1>35 DEF IInv

-----------------------------------------------------------------------------
LEMMA Invariance == Spec => []IInv
<1>1. IInv /\ [Next]_vars => IInv'
  <2> SUFFICES ASSUME IInv, [Next]_vars PROVE IInv'
    OBVIOUS
  <2>1. CASE UNCHANGED vars
    <3>1. /\ phase' = phase /\ next' = next /\ insts' = insts /\ m_bytes_read' = m_bytes_read
          /\ blockAt' = blockAt /\ bodies' = bodies /\ block' = block /\ place' = place /\ pc' = pc
      BY <2>1 DEF vars, decodeVars, buildVars, runVars
    <3>2. Building' = Building
      BY <3>1 DEF Building
    <3>3. DecodeInv' /\ RunInv'
      BY <3>1 DEF IInv, DecodeInv, RunInv, Beside, Offset, After
    <3>4. TargetsInv'
      BY <3>1, <3>2 DEF IInv, TargetsInv, AreBlocks, HasTargets, Jumps, Target, After, Offset
    <3>5. TranslateInv'
      BY <3>1, <3>2 DEF IInv, TranslateInv, BeginsWell, GoesOnWell, EndsWell, ClosedWell, Follows,
                       IsAt, Target, After, Offset
    <3> QED
      BY <3>3, <3>4, <3>5 DEF IInv
  <2>2. CASE Next
    BY <2>2, NextInstInv, EndDecodingInv, BuildJumpTargetsInv, EndJumpTargetsInv, TranslatePreserves,
       ThrowUnsupportedInv, BeginInv, ExecuteInv DEF Next
  <2> QED
    BY <2>1, <2>2
<1> QED
  BY <1>1, InitInv, PTL DEF Spec

(* The function comes by the entries of the instructions the machine       *)
(* executes, in their order, whichever way the conditions go, and ends     *)
(* when it ends: Frontend.cc's two loops lose no edge and no instruction.  *)
THEOREM FlowIsKept == Spec => []FlowKept
<1>1. IInv => FlowKept
  <2> SUFFICES ASSUME IInv, phase = "run" PROVE EntryAt = pc
    BY DEF FlowKept
  <2>1. CASE place = Ended /\ pc = Returned
    BY <2>1 DEF EntryAt
  <2>2. CASE \E b \in DOMAIN bodies, k \in Nat \ {0} : place = <<b, k>> /\ Beside(b, k, pc)
    <3>1. PICK b \in DOMAIN bodies, k \in Nat \ {0} : place = <<b, k>> /\ Beside(b, k, pc)
      BY <2>2
    <3>2. place # Ended /\ place[1] = b /\ place[2] = k
      BY <3>1 DEF Ended
    <3>3. CASE k \in DOMAIN bodies[b]
      BY <3>1, <3>2, <3>3 DEF EntryAt, Beside, Entry
    <3>4. CASE k \notin DOMAIN bodies[b]
      BY <3>1, <3>2, <3>4 DEF EntryAt, Beside
    <3> QED
      BY <3>3, <3>4
  <2> QED
    BY <2>1, <2>2 DEF IInv, RunInv
<1> QED
  BY <1>1, Invariance, PTL

(* What the passes take for granted of the frontend's blocks: each has one *)
(* terminator, its last item, but for a return in front of a jump target,  *)
(* the block the code runs off the end of, and the empty blocks made for   *)
(* addresses where no instruction begins.                                  *)
THEOREM BlocksAreClosed == Spec => []BlocksClosed
<1>1. IInv => BlocksClosed
  <2> SUFFICES ASSUME IInv, phase = "run", NEW b \in DOMAIN bodies
               PROVE  /\ bodies[b] = <<>> => insts = <<>> \/ \E a \in DOMAIN blockAt :
                                                               blockAt[a] = b /\ InstAt(a) = Nowhere
                      /\ EndsIn(bodies[b], {"inst"}) => Last(bodies[b]).inst = Len(insts)
                      /\ \A k \in 1..(Len(bodies[b]) - 1) : bodies[b][k].kind # "inst" =>
                           /\ k = Len(bodies[b]) - 1
                           /\ bodies[b][k].kind = "ret"
                           /\ After(bodies[b][k-1].inst) \in DOMAIN blockAt
    BY DEF BlocksClosed
  <2>1. /\ DecodeInv /\ AreBlocks(blockAt, bodies) /\ next = Len(insts) + 1
        /\ BeginsWell(next) /\ GoesOnWell(next) /\ ClosedWell
    BY DEF IInv, TargetsInv, TranslateInv, RunInv, Building
  <2>2. DOMAIN insts = 1..Len(insts) /\ Len(insts) \in Nat /\ next - 1 = Len(insts)
    BY <2>1 DEF DecodeInv
  <2>3. /\ bodies \in Seq(Seq(Item)) /\ DOMAIN bodies = 1..Len(bodies)
        /\ DOMAIN bodies[b] = 1..Len(bodies[b]) /\ Len(bodies[b]) \in Nat
    BY <2>1 DEF AreBlocks
  <2>4. ASSUME bodies[b] = <<>> PROVE \E a \in DOMAIN blockAt : blockAt[a] = b /\ InstAt(a) = Nowhere
    <3>1. PICK a \in DOMAIN blockAt : blockAt[a] = b
      BY <2>1, <2>3, <2>4 DEF AreBlocks
    <3>2. 1 \notin DOMAIN bodies[b]
      BY <2>4
    <3>3. \A i \in DOMAIN insts : Offset(i) # a
      BY <2>1, <2>2, <3>1, <3>2 DEF BeginsWell, IsAt
    <3>4. InstAt(a) = Nowhere
      BY <2>1, <3>3, InstAtIs
    <3> QED
      BY <3>1, <3>4
  <2>5. ASSUME EndsIn(bodies[b], {"inst"}) PROVE Last(bodies[b]).inst = Len(insts)
    <3> DEFINE m == Len(bodies[b])
    <3>1. m \in DOMAIN bodies[b] /\ Last(bodies[b]) = bodies[b][m] /\ bodies[b][m].kind = "inst"
      BY <2>3, <2>5 DEF EndsIn, Last
    <3>2. PICK i : i = bodies[b][m].inst
      OBVIOUS
    <3>3. Follows(b, m, i, next)
      BY <2>1, <3>1, <3>2 DEF GoesOnWell
    <3>4. m + 1 \notin DOMAIN bodies[b]
      BY <2>3
    <3>5. i = next - 1
      BY <3>3, <3>4 DEF Follows, IsAt, Conditional
    <3> QED
      BY <2>2, <3>1, <3>2, <3>5
  <2>6. \A k \in 1..(Len(bodies[b]) - 1) : bodies[b][k].kind # "inst" =>
           /\ k = Len(bodies[b]) - 1
           /\ bodies[b][k].kind = "ret"
           /\ After(bodies[b][k-1].inst) \in DOMAIN blockAt
    BY <2>1 DEF ClosedWell
  <2> QED
    BY <2>4, <2>5, <2>6
<1> QED
  BY <1>1, Invariance, PTL
=============================================================================
