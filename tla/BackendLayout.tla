---------------------------- MODULE BackendLayout ----------------------------
(***************************************************************************)
(* What the passes leave, instruction by instruction: how deep the stack is  *)
(* there, and which block of code codegen_function emitted it with.         *)
(***************************************************************************)
EXTENDS BackendProofs

-----------------------------------------------------------------------------
(* How deep the stack is: a map from positions to bytes that each pass can   *)
(* be followed through.  A depth is counted from the bottom of the frame     *)
(* until InsertFrame puts the frame in front, and from %rbp after.          *)

\* The bytes an instruction takes off %rsp.
Taken(instr) ==
  CASE instr.kind = "ALLOC" -> instr.size
    [] instr.kind = "DEALLOCATE" -> -instr.val
    [] instr.kind = "PUSH" -> 8
    [] OTHER -> 0

LEMMA TakenIsInteger ==
  ASSUME NEW i \in Instrs
  PROVE  Taken(i) \in Int
  BY DEF Taken, Instrs, X86Instructions

\* Where control may leave the list or enter it.
Transfers(instr) == instr.kind \in {"JMP", "JMPCC", "LABEL"}

\* d[k] is the depth before s[k]: calls are aligned, and nothing is taken where
\* control is transferred or the code of one IR instruction meets another's.
Depths(s, origin, d) ==
  /\ \A k \in 1 .. Len(s) : /\ d[k + 1] = d[k] + Taken(s[k])
                            /\ s[k].kind = "CALL" => d[k] % 16 = 0
                            /\ Transfers(s[k]) => d[k] = 0
  /\ \A k \in 2 .. Len(s) : origin[k - 1] # origin[k] => d[k] = 0

\* s leads from depth a to depth b.
Leads(s, origin, a, b) ==
  \E d \in [1 .. Len(s) + 1 -> Nat] : Depths(s, origin, d) /\ d[1] = a /\ d[Len(s) + 1] = b

Each(s, o) == [k \in 1 .. Len(s) |-> o]

-----------------------------------------------------------------------------
(* Lists *)

\* Two lists in a row.
LEMMA LeadsOn ==
  ASSUME NEW s \in Seq(Instrs), NEW t \in Seq(Instrs), NEW os \in Seq(Nat), NEW ot \in Seq(Nat),
         Len(os) = Len(s), Len(ot) = Len(t), NEW a, NEW b, NEW c,
         Leads(s, os, a, b), Leads(t, ot, b, c),
         Len(s) > 0 /\ Len(t) > 0 /\ os[Len(s)] # ot[1] => b = 0
  PROVE  Leads(s \o t, os \o ot, a, c)
<1> DEFINE n == Len(s)
           m == Len(t)
           st == s \o t
           o == os \o ot
<1>1. PICK d \in [1 .. n + 1 -> Nat] : Depths(s, os, d) /\ d[1] = a /\ d[n + 1] = b
  BY DEF Leads
<1>2. PICK e \in [1 .. m + 1 -> Nat] : Depths(t, ot, e) /\ e[1] = b /\ e[m + 1] = c
  BY DEF Leads
<1> DEFINE j == [k \in 1 .. n + m + 1 |-> IF k <= n + 1 THEN d[k] ELSE e[k - n]]
<1>3. n \in Nat /\ m \in Nat /\ Len(st) = n + m /\ Len(o) = n + m
  <2>1. Len(st) = Len(s) + Len(t) /\ Len(o) = Len(os) + Len(ot)
    BY ConcatProperties
  <2> QED
    BY <2>1
<1>4. /\ \A k \in 1 .. n : st[k] = s[k]
      /\ \A k \in n + 1 .. n + m : st[k] = t[k - n]
  <2>1. \A k \in 1 .. Len(s) + Len(t) : st[k] = IF k <= Len(s) THEN s[k] ELSE t[k - Len(s)]
    BY ConcatProperties
  <2>2. \A k \in 1 .. n + m : st[k] = IF k <= n THEN s[k] ELSE t[k - n]
    BY <2>1
  <2> HIDE DEF st, n, m
  <2>3. ASSUME NEW k \in 1 .. n
        PROVE  st[k] = s[k]
    <3>1. k \in 1 .. n + m /\ k <= n
      BY <1>3
    <3> QED
      BY <2>2, <3>1
  <2>4. ASSUME NEW k \in n + 1 .. n + m
        PROVE  st[k] = t[k - n]
    <3>1. k \in 1 .. n + m /\ ~(k <= n)
      BY <1>3
    <3> QED
      BY <2>2, <3>1
  <2> QED
    BY <2>3, <2>4
<1>5. /\ \A k \in 1 .. n : o[k] = os[k]
      /\ \A k \in n + 1 .. n + m : o[k] = ot[k - n]
  <2>1. \A k \in 1 .. Len(os) + Len(ot) : o[k] = IF k <= Len(os) THEN os[k] ELSE ot[k - Len(os)]
    BY ConcatProperties
  <2>2. Len(os) = n /\ Len(ot) = m
    OBVIOUS
  <2> HIDE DEF o, n, m
  <2>3. \A k \in 1 .. n + m : o[k] = IF k <= n THEN os[k] ELSE ot[k - n]
    BY <2>1, <2>2
  <2>4. n \in Nat /\ m \in Nat
    BY <1>3
  <2>5. ASSUME NEW k \in 1 .. n
        PROVE  o[k] = os[k]
    <3>1. k \in 1 .. n + m /\ k <= n
      BY <2>4
    <3> QED
      BY <2>3, <3>1
  <2>6. ASSUME NEW k \in n + 1 .. n + m
        PROVE  o[k] = ot[k - n]
    <3>1. k \in 1 .. n + m /\ ~(k <= n)
      BY <2>4
    <3> QED
      BY <2>3, <3>1
  <2> QED
    BY <2>5, <2>6
<1> HIDE DEF st, o
<1>6. /\ j \in [1 .. n + m + 1 -> Nat]
      /\ \A k \in 1 .. n + 1 : j[k] = d[k]
      /\ \A k \in n + 1 .. n + m + 1 : j[k] = e[k - n]
  <2>1. d \in [1 .. n + 1 -> Nat] /\ e \in [1 .. m + 1 -> Nat] /\ d[n + 1] = e[1]
    BY <1>1, <1>2
  <2>2. \A k \in 1 .. n + m + 1 : j[k] = IF k <= n + 1 THEN d[k] ELSE e[k - n]
    OBVIOUS
  <2>3. DOMAIN j = 1 .. n + m + 1 /\ j = [k \in 1 .. n + m + 1 |-> j[k]]
    OBVIOUS
  <2> HIDE DEF j, n, m
  <2>4. ASSUME NEW k \in 1 .. n + 1
        PROVE  j[k] = d[k]
    <3>1. k \in 1 .. n + m + 1 /\ k <= n + 1
      BY <1>3
    <3> QED
      BY <2>2, <3>1
  <2>5. ASSUME NEW k \in n + 1 .. n + m + 1
        PROVE  j[k] = e[k - n]
    <3>1. k \in 1 .. n + m + 1
      BY <1>3
    <3>2. CASE k = n + 1
      <4>1. k <= n + 1 /\ k - n = 1
        BY <1>3, <3>2
      <4> QED
        BY <2>1, <2>2, <3>1, <3>2, <4>1
    <3>3. CASE k # n + 1
      <4>1. ~(k <= n + 1)
        BY <1>3, <3>3
      <4> QED
        BY <2>2, <3>1, <4>1
    <3> QED
      BY <3>2, <3>3
  <2>6. ASSUME NEW k \in 1 .. n + m + 1
        PROVE  j[k] \in Nat
    <3>1. CASE k <= n + 1
      <4>1. k \in 1 .. n + 1
        BY <1>3, <3>1
      <4> QED
        BY <2>1, <2>4, <4>1
    <3>2. CASE ~(k <= n + 1)
      <4>1. k \in n + 1 .. n + m + 1 /\ k - n \in 1 .. m + 1
        BY <1>3, <3>2
      <4> QED
        BY <2>1, <2>5, <4>1
    <3> QED
      BY <3>1, <3>2
  <2> QED
    BY <2>3, <2>4, <2>5, <2>6
<1>10. /\ n > 0 /\ m > 0 /\ os[n] # ot[1] => b = 0
       /\ n = Len(s) /\ m = Len(t)
  OBVIOUS
<1> HIDE DEF j, n, m
<1>7. ASSUME NEW k \in 1 .. n + m
      PROVE  /\ j[k + 1] = j[k] + Taken(st[k])
             /\ st[k].kind = "CALL" => j[k] % 16 = 0
             /\ Transfers(st[k]) => j[k] = 0
  <2>1. CASE k <= n
    <3>1. k \in 1 .. n /\ k \in 1 .. n + 1 /\ k + 1 \in 1 .. n + 1
      BY <1>3, <2>1
    <3>2. st[k] = s[k] /\ j[k] = d[k] /\ j[k + 1] = d[k + 1]
      BY <1>4, <1>6, <3>1
    <3> QED
      BY <3>1, <3>2, <1>1, <1>10 DEF Depths
  <2>2. CASE k > n
    <3>1. /\ k \in n + 1 .. n + m /\ k \in n + 1 .. n + m + 1 /\ k + 1 \in n + 1 .. n + m + 1
          /\ k - n \in 1 .. m /\ (k + 1) - n = (k - n) + 1
      BY <1>3, <2>2
    <3>2. st[k] = t[k - n] /\ j[k] = e[k - n] /\ j[k + 1] = e[(k - n) + 1]
      <4>1. j[k + 1] = e[(k + 1) - n]
        BY <1>6, <3>1
      <4> QED
        BY <1>4, <1>6, <3>1, <4>1
    <3> QED
      BY <3>1, <3>2, <1>2, <1>10 DEF Depths
  <2> QED
    BY <1>3, <2>1, <2>2
<1>8. ASSUME NEW k \in 2 .. n + m, o[k - 1] # o[k]
      PROVE  j[k] = 0
  <2>1. CASE k <= n
    <3>1. k \in 2 .. n /\ k \in 1 .. n /\ k - 1 \in 1 .. n /\ k \in 1 .. n + 1
      BY <1>3, <2>1
    <3>2. o[k - 1] = os[k - 1] /\ o[k] = os[k] /\ j[k] = d[k]
      BY <1>5, <1>6, <3>1
    <3> QED
      BY <3>1, <3>2, <1>1, <1>8, <1>10 DEF Depths
  <2>2. CASE k = n + 1
    <3>1. /\ n > 0 /\ m > 0 /\ k - 1 = n /\ k - n = 1
          /\ n \in 1 .. n /\ k \in n + 1 .. n + m /\ k \in n + 1 .. n + m + 1
      BY <1>3, <2>2
    <3>2. o[k - 1] = os[n]
      BY <1>5, <3>1
    <3>4. o[k] = ot[1]
      BY <1>5, <3>1
    <3>3. j[k] = e[1]
      BY <1>6, <3>1
    <3> QED
      BY <3>1, <3>2, <3>3, <3>4, <1>2, <1>8, <1>10
  <2>3. CASE k > n + 1
    <3>1. /\ k \in n + 1 .. n + m /\ k - 1 \in n + 1 .. n + m /\ k \in n + 1 .. n + m + 1
          /\ k - n \in 2 .. m /\ (k - 1) - n = (k - n) - 1
      BY <1>3, <2>3
    <3>2. o[k - 1] = ot[(k - n) - 1] /\ o[k] = ot[k - n] /\ j[k] = e[k - n]
      <4>1. o[k - 1] = ot[(k - 1) - n]
        BY <1>5, <3>1
      <4> QED
        BY <1>5, <1>6, <3>1, <4>1
    <3> QED
      BY <3>1, <3>2, <1>2, <1>8, <1>10 DEF Depths
  <2> QED
    BY <1>3, <2>1, <2>2, <2>3
<1>9. j[1] = a /\ j[n + m + 1] = c
  BY <1>1, <1>2, <1>3, <1>6
<1> QED
  BY <1>3, <1>6, <1>7, <1>8, <1>9 DEF Leads, Depths, st, o

\* Every instruction of a list comes from one place.
LEMMA EachTypes ==
  ASSUME NEW s \in Seq(Instrs), NEW o \in Nat
  PROVE  Each(s, o) \in Seq(Nat) /\ Len(Each(s, o)) = Len(s) /\ \A k \in 1 .. Len(s) : Each(s, o)[k] = o
  BY DEF Each

LEMMA EachOn ==
  ASSUME NEW s \in Seq(Instrs), NEW t \in Seq(Instrs), NEW o \in Nat
  PROVE  Each(s \o t, o) = Each(s, o) \o Each(t, o)
<1>1. Len(s \o t) = Len(s) + Len(t) /\ s \o t \in Seq(Instrs) /\ Len(s) \in Nat /\ Len(t) \in Nat
  BY ConcatProperties
<1>2. Each(s, o) \in Seq(Nat) /\ Each(t, o) \in Seq(Nat) /\ Each(s \o t, o) \in Seq(Nat)
  BY <1>1, EachTypes
<1>3. /\ Len(Each(s, o)) = Len(s) /\ Len(Each(t, o)) = Len(t)
      /\ \A k \in 1 .. Len(s) : Each(s, o)[k] = o
      /\ \A k \in 1 .. Len(t) : Each(t, o)[k] = o
      /\ Len(Each(s \o t, o)) = Len(s) + Len(t)
      /\ \A k \in 1 .. Len(s) + Len(t) : Each(s \o t, o)[k] = o
  BY <1>1, EachTypes
<1> DEFINE both == Each(s, o) \o Each(t, o)
<1>4. both \in Seq(Nat) /\ Len(both) = Len(s) + Len(t)
  <2>1. both \in Seq(Nat) /\ Len(both) = Len(Each(s, o)) + Len(Each(t, o))
    BY <1>2, ConcatProperties
  <2> HIDE DEF both
  <2> QED
    BY <1>3, <2>1
<1>5. ASSUME NEW k \in 1 .. Len(s) + Len(t)
      PROVE  both[k] = o
  <2>1. both[k] = IF k <= Len(Each(s, o)) THEN Each(s, o)[k] ELSE Each(t, o)[k - Len(Each(s, o))]
    <3>1. k \in 1 .. Len(Each(s, o)) + Len(Each(t, o))
      BY <1>3
    <3> QED
      BY <1>2, <3>1, ConcatProperties
  <2> HIDE DEF both
  <2>2. CASE k <= Len(s)
    <3>1. k \in 1 .. Len(s)
      BY <1>1, <2>2
    <3> QED
      BY <1>3, <2>1, <2>2, <3>1
  <2>3. CASE ~(k <= Len(s))
    <3>1. k - Len(s) \in 1 .. Len(t)
      BY <1>1, <2>3
    <3> QED
      BY <1>3, <2>1, <2>3, <3>1
  <2> QED
    BY <2>2, <2>3
<1> HIDE DEF both
<1>6. \A k \in 1 .. Len(both) : Each(s \o t, o)[k] = both[k]
  BY <1>3, <1>4, <1>5
<1> QED
  BY <1>2, <1>3, <1>4, <1>6, SeqEqual DEF both

\* Two lists in a row that come from one place.
LEMMA LeadsOnFromOne ==
  ASSUME NEW s \in Seq(Instrs), NEW t \in Seq(Instrs), NEW o \in Nat, NEW a, NEW b, NEW c,
         Leads(s, Each(s, o), a, b), Leads(t, Each(t, o), b, c)
  PROVE  Leads(s \o t, Each(s \o t, o), a, c)
<1>1. /\ Each(s, o) \in Seq(Nat) /\ Len(Each(s, o)) = Len(s)
      /\ Each(t, o) \in Seq(Nat) /\ Len(Each(t, o)) = Len(t)
  BY EachTypes
<1>2. Len(s) > 0 /\ Len(t) > 0 => Each(s, o)[Len(s)] = o /\ Each(t, o)[1] = o
  BY EachTypes
<1>3. Leads(s \o t, Each(s, o) \o Each(t, o), a, c)
  BY <1>1, <1>2, LeadsOn
<1> QED
  BY <1>3, EachOn

\* Instructions that leave %rsp alone, without a call.
Plain(instr) == Taken(instr) = 0 /\ instr.kind # "CALL"

\* A list of them, where nothing is taken or control is not transferred.
LEMMA PlainLeads ==
  ASSUME NEW s \in Seq(Instrs), NEW o \in Nat, NEW a \in Nat,
         \A k \in 1 .. Len(s) : Plain(s[k]) /\ (a = 0 \/ ~Transfers(s[k]))
  PROVE  Leads(s, Each(s, o), a, a)
<1> DEFINE d == [k \in 1 .. Len(s) + 1 |-> a]
<1>1. Len(s) \in Nat /\ d \in [1 .. Len(s) + 1 -> Nat] /\ \A k \in 1 .. Len(s) + 1 : d[k] = a
  OBVIOUS
<1> HIDE DEF d
<1>2. ASSUME NEW k \in 1 .. Len(s)
      PROVE  /\ d[k + 1] = d[k] + Taken(s[k])
             /\ s[k].kind = "CALL" => d[k] % 16 = 0
             /\ Transfers(s[k]) => d[k] = 0
  <2>1. k \in 1 .. Len(s) + 1 /\ k + 1 \in 1 .. Len(s) + 1
    BY <1>1
  <2>2. d[k] = a /\ d[k + 1] = a
    BY <1>1, <2>1
  <2> QED
    BY <2>2 DEF Plain
<1>3. \A k \in 2 .. Len(s) : Each(s, o)[k - 1] = Each(s, o)[k]
  BY <1>1, EachTypes
<1>4. Depths(s, Each(s, o), d)
  BY <1>2, <1>3 DEF Depths
<1> QED
  BY <1>1, <1>4 DEF Leads

\* One instruction.
LEMMA OneLeads ==
  ASSUME NEW i \in Instrs, NEW o \in Nat, NEW a \in Nat, NEW b \in Nat, b = a + Taken(i),
         i.kind = "CALL" => a % 16 = 0, Transfers(i) => a = 0
  PROVE  Leads(<<i>>, Each(<<i>>, o), a, b)
<1> DEFINE d == [k \in 1 .. 2 |-> IF k = 1 THEN a ELSE b]
           s == <<i>>
<1>1. s \in Seq(Instrs) /\ Len(s) = 1 /\ s[1] = i
  OBVIOUS
<1>2. d \in [1 .. 2 -> Nat] /\ d[1] = a /\ d[2] = b
  OBVIOUS
<1> HIDE DEF d, s
<1>3. Depths(s, Each(s, o), d)
  BY <1>1, <1>2 DEF Depths
<1>4. Leads(s, Each(s, o), a, b)
  BY <1>1, <1>2, <1>3 DEF Leads
<1> QED
  BY <1>4 DEF s

-----------------------------------------------------------------------------
(* codegen_function *)

\* Instructions that have nothing to do with the stack.
Quiet(list) == \A k \in 1 .. Len(list) : list[k].kind \notin {"ALLOC", "DEALLOCATE", "PUSH", "CALL"}

\* From the bottom of the frame to the bottom of the frame.
LEMMA QuietLeads ==
  ASSUME NEW s \in Seq(Instrs), Quiet(s), NEW o \in Nat
  PROVE  Leads(s, Each(s, o), 0, 0)
<1>1. \A k \in 1 .. Len(s) : Plain(s[k])
  BY DEF Quiet, Plain, Taken
<1> QED
  BY <1>1, PlainLeads

\* codegen_instr on everything but a call.
LEMMA InstrQuiet ==
  ASSUME NEW i \in IrInstructions(Ids), i.kind # "FUNCALL"
  PROVE  Quiet(CodegenInstr(i))
<1>1. CASE i.kind = "RETURN"
  <2>1. CodegenInstr(i) = <<Mov(Reg("AX"), CodegenVal(i.val)), Ret>>
    BY <1>1 DEF CodegenInstr, CodegenReturn
  <2> QED
    BY <2>1 DEF Quiet, Mov, Ret
<1>2. CASE i.kind = "UNOP"
  <2>1. CodegenInstr(i) = CodegenUnop(i)
    BY <1>2 DEF CodegenInstr
  <2>2. CASE i.op = "NOT"
    <3>1. CodegenInstr(i) = <<Cmp(CodegenVal(i.src), Imm(0)), Mov(CodegenVal(i.dst), Imm(0)),
                              SetCC("E", CodegenVal(i.dst))>>
      BY <2>1, <2>2 DEF CodegenUnop
    <3> QED
      BY <3>1 DEF Quiet, Cmp, Mov, SetCC
  <2>3. CASE i.op # "NOT"
    <3>1. CodegenInstr(i) = <<Mov(CodegenVal(i.dst), CodegenVal(i.src)), Unary(i.op, CodegenVal(i.dst))>>
      BY <2>1, <2>3 DEF CodegenUnop
    <3> QED
      BY <3>1 DEF Quiet, Mov, Unary
  <2> QED
    BY <2>2, <2>3
<1>3. CASE i.kind = "BINOP"
  <2> DEFINE lhs == CodegenVal(i.lhs)
             rhs == CodegenVal(i.rhs)
             dst == CodegenVal(i.dst)
             Divide(answer) == <<Mov(Reg("AX"), lhs), Cdq, Idiv(rhs), Mov(dst, Reg(answer))>>
  <2>1. CodegenInstr(i) = CodegenBinop(i)
    BY <1>3 DEF CodegenInstr
  <2>2. \A answer : Quiet(Divide(answer))
    BY DEF Quiet, Mov, Cdq, Idiv
  <2>3. i.op \in IrRelations => CodegenBinop(i) = <<Cmp(rhs, lhs), Mov(dst, Imm(0)), SetCC(ConditionCode(i.op), dst)>>
    BY DEF CodegenBinop, IrRelations
  <2>4. i.op \notin IrRelations \cup {"DIV", "MOD"} => CodegenBinop(i) = <<Mov(dst, lhs), Binary(i.op, rhs, dst)>>
    BY DEF CodegenBinop, IrRelations
  <2>5. i.op = "DIV" => CodegenBinop(i) = Divide("AX")
    BY DEF CodegenBinop, IrRelations
  <2>6. i.op = "MOD" => CodegenBinop(i) = Divide("DX")
    BY DEF CodegenBinop, IrRelations
  <2>7. Quiet(<<Cmp(rhs, lhs), Mov(dst, Imm(0)), SetCC(ConditionCode(i.op), dst)>>)
    BY DEF Quiet, Cmp, Mov, SetCC
  <2>8. Quiet(<<Mov(dst, lhs), Binary(i.op, rhs, dst)>>)
    BY DEF Quiet, Mov, Binary
  <2> QED
    BY <2>1, <2>2, <2>3, <2>4, <2>5, <2>6, <2>7, <2>8
<1>4. CASE i.kind = "JUMP"
  <2>1. CodegenInstr(i) = <<Jmp(i.target)>>
    BY <1>4 DEF CodegenInstr
  <2> QED
    BY <2>1 DEF Quiet, Jmp
<1>5. CASE i.kind \in {"JUMP_ZERO", "JUMP_NOT_ZERO"}
  <2>1. PICK c \in {"E", "NE"} : CodegenInstr(i) = <<Cmp(Imm(0), CodegenVal(i.cond)), JmpCC(c, i.target)>>
    BY <1>5 DEF CodegenInstr
  <2> QED
    BY <2>1 DEF Quiet, Cmp, JmpCC
<1>6. CASE i.kind = "COPY"
  <2>1. CodegenInstr(i) = <<Mov(CodegenVal(i.dst), CodegenVal(i.src))>>
    BY <1>6 DEF CodegenInstr
  <2> QED
    BY <2>1 DEF Quiet, Mov
<1>7. CASE i.kind = "LABEL"
  <2>1. CodegenInstr(i) = <<Label(i.id)>>
    BY <1>7 DEF CodegenInstr
  <2> QED
    BY <2>1 DEF Quiet, Label
<1> QED
  BY <1>1, <1>2, <1>3, <1>4, <1>5, <1>6, <1>7 DEF IrInstructions

\* The copies of the parameters.
LEMMA SaveParamsQuiet ==
  ASSUME NEW params \in Seq(Ids)
  PROVE  Quiet([i \in 1 .. Len(params) |-> Mov(Id(params[i]), ParamSource(i))])
  BY DEF Quiet, Mov

\* alloc, dealloc: the depth goes up, or down, by so many bytes.
LEMMA AdjustLeads ==
  ASSUME NEW n \in Nat, NEW a \in Nat, NEW o \in Nat
  PROVE  /\ Leads(AllocIfAny(n), Each(AllocIfAny(n), o), a, a + n)
         /\ Leads(DeallocateIfAny(n), Each(DeallocateIfAny(n), o), a + n, a)
<1>1. Alloc(n) \in Instrs /\ Deallocate(n) \in Instrs
  BY NoOperandTypes
<1>2. /\ Taken(Alloc(n)) = n /\ ~Transfers(Alloc(n)) /\ Alloc(n).kind # "CALL"
      /\ Taken(Deallocate(n)) = -n /\ ~Transfers(Deallocate(n)) /\ Deallocate(n).kind # "CALL"
  BY DEF Taken, Transfers, Alloc, Deallocate
<1>3. CASE n = 0
  <2>1. AllocIfAny(n) = <<>> /\ DeallocateIfAny(n) = <<>>
    BY <1>3 DEF AllocIfAny, DeallocateIfAny
  <2>2. Leads(<<>>, Each(<<>>, o), a, a)
    <3>1. <<>> \in Seq(Instrs) /\ \A k \in 1 .. Len(<<>>) : Plain(<<>>[k]) /\ (a = 0 \/ ~Transfers(<<>>[k]))
      OBVIOUS
    <3> QED
      BY <3>1, PlainLeads
  <2> QED
    BY <1>3, <2>1, <2>2
<1>4. CASE n # 0
  <2>1. AllocIfAny(n) = <<Alloc(n)>> /\ DeallocateIfAny(n) = <<Deallocate(n)>>
    BY <1>4 DEF AllocIfAny, DeallocateIfAny
  <2>2. Leads(<<Alloc(n)>>, Each(<<Alloc(n)>>, o), a, a + n)
    <3>1. a + n \in Nat /\ a + n = a + Taken(Alloc(n))
      BY <1>2
    <3> HIDE DEF Leads
    <3> QED
      BY <1>1, <1>2, <3>1, OneLeads
  <2>3. Leads(<<Deallocate(n)>>, Each(<<Deallocate(n)>>, o), a + n, a)
    <3>1. a + n \in Nat /\ a = (a + n) + Taken(Deallocate(n))
      BY <1>2
    <3> QED
      BY <1>1, <1>2, <3>1, OneLeads
  <2> QED
    BY <2>1, <2>2, <2>3
<1> QED
  BY <1>3, <1>4

\* The beginning of a call: the padding and the arguments in registers.
LEMMA CallBeginLeads ==
  ASSUME NEW args \in Seq(IrValues(Ids)), NEW o \in Nat
  PROVE  LET new == AllocIfAny(Padding(args)) \o RegisterMoves(args)
         IN new \in Seq(Instrs) /\ Leads(new, Each(new, o), 0, Padding(args))
<1> DEFINE first == AllocIfAny(Padding(args))
           second == RegisterMoves(args)
<1>1. Padding(args) \in Nat
  BY DEF Padding
<1>2. first \in Seq(Instrs) /\ second \in Seq(Instrs)
  BY <1>1, PaddingTypes, RegisterMovesTypes
<1>3. Leads(first, Each(first, o), 0, Padding(args))
  BY <1>1, AdjustLeads
<1>4. \A k \in 1 .. Len(second) : Plain(second[k]) /\ ~Transfers(second[k])
  BY ArgumentCounts DEF RegisterMoves, Plain, Transfers, Taken, Mov
<1> HIDE DEF first, second
<1>5. Leads(second, Each(second, o), Padding(args), Padding(args))
  BY <1>1, <1>2, <1>4, PlainLeads
<1>6. first \o second \in Seq(Instrs) /\ Leads(first \o second, Each(first \o second, o), 0, Padding(args))
  BY <1>2, <1>3, <1>5, Concatenation, LeadsOnFromOne
<1> QED
  BY <1>6 DEF first, second

\* One pushed argument.
LEMMA PushLeads ==
  ASSUME NEW v \in IrValues(Ids), NEW a \in Nat, NEW o \in Nat
  PROVE  Leads(PushArg(v), Each(PushArg(v), o), a, a + 8)
<1>1. CodegenVal(v) \in Op /\ Reg("AX") \in Op
  BY ValueTypes, OperandTypes, RegisterNames
<1>2. ASSUME NEW op \in Op
      PROVE  Push(op) \in Instrs /\ Leads(<<Push(op)>>, Each(<<Push(op)>>, o), a, a + 8)
  <2>1. /\ Push(op) \in Instrs /\ Taken(Push(op)) = 8
        /\ Push(op).kind # "CALL" /\ ~Transfers(Push(op))
    BY OneOperandTypes DEF Taken, Transfers, Push
  <2>2. a + 8 \in Nat /\ a + 8 = a + Taken(Push(op))
    BY <2>1
  <2> QED
    BY <2>1, <2>2, OneLeads
<1>3. CASE v.kind = "CONSTANT"
  BY <1>1, <1>2, <1>3 DEF PushArg
<1>4. CASE v.kind # "CONSTANT"
  <2> DEFINE i == Mov(Reg("AX"), CodegenVal(v))
  <2>1. i \in Instrs /\ Taken(i) = 0 /\ i.kind # "CALL" /\ ~Transfers(i)
    BY <1>1, TwoOperandTypes DEF Taken, Transfers, Mov
  <2>2. PushArg(v) = <<i>> \o <<Push(Reg("AX"))>>
    BY <1>4 DEF PushArg
  <2> HIDE DEF i
  <2>3. Leads(<<i>>, Each(<<i>>, o), a, a)
    <3>1. a = a + Taken(i)
      BY <2>1
    <3> QED
      BY <2>1, <3>1, OneLeads
  <2>4. <<i>> \in Seq(Instrs) /\ <<Push(Reg("AX"))>> \in Seq(Instrs)
    <3>1. Push(Reg("AX")) \in Instrs
      BY <1>1, <1>2
    <3> QED
      BY <2>1, <3>1
  <2> QED
    BY <1>1, <1>2, <2>2, <2>3, <2>4, LeadsOnFromOne
<1> QED
  BY <1>3, <1>4

\* The end of a call, made with a multiple of 16 bytes taken.
LEMMA CallFinishLeads ==
  ASSUME NEW i \in IrInstructions(Ids), i.kind = "FUNCALL", NEW o \in Nat, NEW bytes \in Nat, bytes % 16 = 0
  PROVE  LET new == <<Call(i.f)>> \o DeallocateIfAny(bytes) \o <<Mov(CodegenVal(i.dst), Reg("AX"))>>
         IN new \in Seq(Instrs) /\ Leads(new, Each(new, o), bytes, 0)
<1> DEFINE call == Call(i.f)
           second == DeallocateIfAny(bytes)
           mov == Mov(CodegenVal(i.dst), Reg("AX"))
<1>1. i.f \in STRING /\ i.dst \in IrValues(Ids)
  BY ArgumentsAreSequences DEF IrValues
<1>2. call \in Instrs /\ mov \in Instrs /\ second \in Seq(Instrs)
  <2>1. CodegenVal(i.dst) \in Op /\ Reg("AX") \in Op
    BY <1>1, ValueTypes, OperandTypes, RegisterNames
  <2>2. mov \in Instrs
    BY <2>1, TwoOperandTypes
  <2>3. call \in Instrs
    BY <1>1, NoOperandTypes
  <2>4. second \in Seq(Instrs)
    <3>1. bytes \in Int
      OBVIOUS
    <3> QED
      BY <3>1, PaddingTypes
  <2> QED
    BY <2>2, <2>3, <2>4
<1>3. /\ Taken(call) = 0 /\ ~Transfers(call)
      /\ Taken(mov) = 0 /\ ~Transfers(mov) /\ mov.kind # "CALL"
  BY DEF Taken, Transfers, Call, Mov
<1>4. Leads(second, Each(second, o), bytes, 0)
  <2>1. 0 + bytes = bytes
    OBVIOUS
  <2> QED
    BY <2>1, AdjustLeads
<1> HIDE DEF call, second, mov
<1>5. Leads(<<call>>, Each(<<call>>, o), bytes, bytes)
  <2>1. bytes = bytes + Taken(call)
    BY <1>3
  <2> QED
    BY <1>2, <1>3, <2>1, OneLeads
<1>6. Leads(<<mov>>, Each(<<mov>>, o), 0, 0)
  <2>1. 0 = 0 + Taken(mov) /\ 0 \in Nat
    BY <1>3
  <2> QED
    BY <1>2, <1>3, <2>1, OneLeads
<1>7. <<call>> \in Seq(Instrs) /\ <<mov>> \in Seq(Instrs)
  BY <1>2
<1>8. <<call>> \o second \in Seq(Instrs) /\ Leads(<<call>> \o second, Each(<<call>> \o second, o), bytes, 0)
  BY <1>2, <1>4, <1>5, <1>7, Concatenation, LeadsOnFromOne
<1> DEFINE both == <<call>> \o second
<1> HIDE DEF both
<1>9. both \o <<mov>> \in Seq(Instrs) /\ Leads(both \o <<mov>>, Each(both \o <<mov>>, o), bytes, 0)
  <2>1. both \in Seq(Instrs) /\ Leads(both, Each(both, o), bytes, 0)
    BY <1>8 DEF both
  <2> QED
    BY <1>6, <1>7, <2>1, Concatenation, LeadsOnFromOne
<1> QED
  BY <1>9 DEF both, call, second, mov

-----------------------------------------------------------------------------
(* rename_registers *)

\* Renaming changes operands only.
LEMMA RenameKeeps ==
  ASSUME NEW instr \in Instrs, NEW m
  PROVE  LET out == RenameOperands(m, instr)
         IN out.kind = instr.kind /\ Taken(out) = Taken(instr) /\ Transfers(out) = Transfers(instr)
<1> DEFINE out == RenameOperands(m, instr)
<1>1. \A f \in DOMAIN instr \ Range(OperandFields(instr)) : out[f] = instr[f]
  BY DEF RenameOperands
<1>2. /\ "kind" \in DOMAIN instr \ Range(OperandFields(instr))
      /\ instr.kind = "ALLOC" => "size" \in DOMAIN instr \ Range(OperandFields(instr))
      /\ instr.kind = "DEALLOCATE" => "val" \in DOMAIN instr \ Range(OperandFields(instr))
  BY DEF Instrs, X86Instructions, OperandFields, Range
<1> HIDE DEF out
<1>3. /\ out.kind = instr.kind
      /\ instr.kind = "ALLOC" => out.size = instr.size
      /\ instr.kind = "DEALLOCATE" => out.val = instr.val
  BY <1>1, <1>2
<1>4. Taken(out) = Taken(instr) /\ Transfers(out) = Transfers(instr)
  BY <1>3 DEF Taken, Transfers
<1> QED
  BY <1>3, <1>4 DEF out

\* Depths depend on kinds and sizes only.
LEMMA RenameLeads ==
  ASSUME NEW s \in Seq(Instrs), NEW o, NEW k \in 1 .. Len(s), NEW out, NEW a, NEW b,
         out.kind = s[k].kind, Taken(out) = Taken(s[k]), Transfers(out) = Transfers(s[k]),
         Leads(s, o, a, b)
  PROVE  Leads([s EXCEPT ![k] = out], o, a, b)
<1> DEFINE t == [s EXCEPT ![k] = out]
<1>1. /\ Len(t) = Len(s)
      /\ \A i \in 1 .. Len(s) : /\ t[i].kind = s[i].kind /\ Taken(t[i]) = Taken(s[i])
                                 /\ Transfers(t[i]) = Transfers(s[i])
  OBVIOUS
<1> HIDE DEF t
<1>2. PICK d \in [1 .. Len(s) + 1 -> Nat] : Depths(s, o, d) /\ d[1] = a /\ d[Len(s) + 1] = b
  BY DEF Leads
<1>3. Depths(t, o, d)
  BY <1>1, <1>2 DEF Depths
<1>4. Leads(t, o, a, b)
  BY <1>1, <1>2, <1>3 DEF Leads
<1> QED
  BY <1>4 DEF t

-----------------------------------------------------------------------------
(* allocate_stack *)

\* An instruction is replaced by itself, or by quiet ones if it is quiet.
LEMMA FixKeeps ==
  ASSUME NEW instr \in Instrs
  PROVE  /\ Len(Fix(instr)) > 0
         /\ \/ Fix(instr) = <<instr>>
            \/ /\ Taken(instr) = 0
               /\ \A k \in 1 .. Len(Fix(instr)) : Plain(Fix(instr)[k]) /\ ~Transfers(Fix(instr)[k])
<1>1. CASE instr.kind \notin {"MOV", "BINOP", "CMP"}
  BY <1>1 DEF Fix
<1>2. CASE instr.kind \in {"MOV", "BINOP", "CMP"}
  <2>1. Taken(instr) = 0
    BY <1>2 DEF Taken
  <2>2. \A x, y : Plain(Mov(x, y)) /\ ~Transfers(Mov(x, y)) /\ Plain(Cmp(x, y)) /\ ~Transfers(Cmp(x, y))
    BY DEF Plain, Taken, Transfers, Mov, Cmp
  <2>3. \A x, y, z : Plain(Binary(x, y, z)) /\ ~Transfers(Binary(x, y, z))
    BY DEF Plain, Taken, Transfers, Binary
  <2> DEFINE r10 == Mov(Reg("R10"), instr.src)
             r10b == Mov(Reg("R10"), instr.rhs)
             r10c == Mov(Reg("R10"), instr.lhs)
             r11 == Mov(Reg("R11"), instr.dst)
             r11c == Mov(Reg("R11"), instr.rhs)
             back == Mov(instr.dst, Reg("R10"))
             backMul == Mov(instr.dst, Reg("R11"))
             mul == Binary("MUL", instr.rhs, Reg("R11"))
             op == Binary(instr.optype, Reg("R10"), instr.dst)
             cmp == Cmp(Reg("R10"), instr.rhs)
             cmpc == Cmp(instr.lhs, Reg("R11"))
             Free(list) == \A k \in 1 .. Len(list) : Plain(list[k]) /\ ~Transfers(list[k])
  <2>4. Fix(instr) \in {<<instr>>, <<r10, back>>, <<r11, mul, backMul>>, <<r10b, op>>, <<r10c, cmp>>, <<r11c, cmpc>>}
    BY <1>2 DEF Fix
  <2>5. /\ Plain(r10) /\ ~Transfers(r10) /\ Plain(r10b) /\ ~Transfers(r10b)
        /\ Plain(r10c) /\ ~Transfers(r10c) /\ Plain(r11) /\ ~Transfers(r11)
        /\ Plain(r11c) /\ ~Transfers(r11c) /\ Plain(back) /\ ~Transfers(back)
        /\ Plain(backMul) /\ ~Transfers(backMul) /\ Plain(cmp) /\ ~Transfers(cmp)
        /\ Plain(cmpc) /\ ~Transfers(cmpc)
    BY <2>2
  <2>6. Plain(mul) /\ ~Transfers(mul) /\ Plain(op) /\ ~Transfers(op)
    BY <2>3
  <2> HIDE DEF r10, r10b, r10c, r11, r11c, back, backMul, mul, op, cmp, cmpc
  <2>7. /\ Free(<<r10, back>>) /\ Free(<<r11, mul, backMul>>) /\ Free(<<r10b, op>>)
        /\ Free(<<r10c, cmp>>) /\ Free(<<r11c, cmpc>>)
    BY <2>5, <2>6
  <2>8. /\ Len(<<r10, back>>) > 0 /\ Len(<<r11, mul, backMul>>) > 0 /\ Len(<<r10b, op>>) > 0
        /\ Len(<<r10c, cmp>>) > 0 /\ Len(<<r11c, cmpc>>) > 0 /\ Len(<<instr>>) > 0
    OBVIOUS
  <2> DEFINE Good(list) == Len(list) > 0 /\ (list = <<instr>> \/ Free(list))
  <2>9. /\ Good(<<r10, back>>) /\ Good(<<r11, mul, backMul>>) /\ Good(<<r10b, op>>)
        /\ Good(<<r10c, cmp>>) /\ Good(<<r11c, cmpc>>) /\ Good(<<instr>>)
    BY <2>7, <2>8, Zenon
  <2>10. Good(Fix(instr))
    <3> HIDE DEF Good
    <3> QED
      BY <2>4, <2>9, Zenon
  <2> QED
    BY <2>1, <2>10
<1> QED
  BY <1>1, <1>2

\* What replaces s[k] leads where s[k] led.
LEMMA FixLeads ==
  ASSUME NEW s \in Seq(Instrs), NEW o, NEW k \in 1 .. Len(s), NEW d \in [1 .. Len(s) + 1 -> Nat],
         Depths(s, o, d), NEW origin \in Nat
  PROVE  Leads(Fix(s[k]), Each(Fix(s[k]), origin), d[k], d[k + 1])
<1> DEFINE i == s[k]
<1>1. /\ i \in Instrs /\ d[k] \in Nat /\ d[k + 1] \in Nat
      /\ d[k + 1] = d[k] + Taken(i)
      /\ i.kind = "CALL" => d[k] % 16 = 0
      /\ Transfers(i) => d[k] = 0
  BY DEF Depths
<1> HIDE DEF i
<1>2. CASE Fix(i) = <<i>>
  BY <1>1, <1>2, OneLeads DEF i
<1>3. CASE Fix(i) # <<i>>
  <2>1. /\ Taken(i) = 0 /\ Fix(i) \in Seq(Instrs)
        /\ \A j \in 1 .. Len(Fix(i)) : Plain(Fix(i)[j]) /\ ~Transfers(Fix(i)[j])
    BY <1>1, <1>3, FixKeeps, FixTypes
  <2>2. d[k + 1] = d[k]
    BY <1>1, <2>1
  <2>3. Leads(Fix(i), Each(Fix(i), origin), d[k], d[k])
    BY <1>1, <2>1, PlainLeads
  <2> QED
    BY <2>2, <2>3 DEF i
<1> QED
  BY <1>2, <1>3

\* The depths below %rbp in a list with a frame in front: after the first
\* instruction the frame is reserved, and where control is transferred or the
\* code of two IR instructions meets, nothing else is.
FrameDepths(s, origin, frame, e) ==
  /\ e[1] = 0 /\ e[Len(s) + 1] = frame
  /\ \A k \in 1 .. Len(s) : /\ e[k + 1] = e[k] + Taken(s[k])
                            /\ s[k].kind = "CALL" => e[k] % 16 = 0
                            /\ Transfers(s[k]) => e[k] = frame
  /\ \A k \in 2 .. Len(s) : origin[k - 1] # origin[k] => e[k] = frame
  /\ \A k \in 2 .. Len(s) + 1 : frame <= e[k]
  /\ frame # 0 => Len(s) > 0 /\ origin[1] = 0

LEMMA MultiplesAdd ==
  ASSUME NEW a \in Nat, NEW b \in Nat, a % 16 = 0, b % 16 = 0
  PROVE  (a + b) % 16 = 0
  OBVIOUS

LEMMA ConcatOrigins ==
  ASSUME NEW s \in Seq(Nat), NEW t \in Seq(Nat)
  PROVE  \A k \in 1 .. Len(s) + Len(t) : (s \o t)[k] = IF k <= Len(s) THEN s[k] ELSE t[k - Len(s)]
  BY ConcatProperties

\* allocate_stack puts the frame in front.
LEMMA FramePrepended ==
  ASSUME NEW s \in Seq(Instrs), NEW os \in Seq(Nat), Len(os) = Len(s),
         NEW frame \in Nat, frame % 16 = 0, Leads(s, os, 0, 0)
  PROVE  LET t == AllocIfAny(frame) \o s
             ot == Each(AllocIfAny(frame), 0) \o os
         IN \E e \in [1 .. Len(t) + 1 -> Nat] : FrameDepths(t, ot, frame, e)
<1> DEFINE n == Len(s)
           t == AllocIfAny(frame) \o s
           ot == Each(AllocIfAny(frame), 0) \o os
<1>1. PICK d \in [1 .. n + 1 -> Nat] : Depths(s, os, d) /\ d[1] = 0 /\ d[n + 1] = 0
  BY DEF Leads
<1>2. CASE frame = 0
  <2>1. AllocIfAny(frame) = <<>> /\ Each(AllocIfAny(frame), 0) = <<>>
    BY <1>2 DEF AllocIfAny, Each
  <2>2. t = s /\ ot = os
    BY <2>1, ConcatEmptySeq
  <2>3. \A k \in 2 .. n + 1 : 0 <= d[k]
    OBVIOUS
  <2>4. /\ \A k \in 1 .. Len(s) : /\ d[k + 1] = d[k] + Taken(s[k])
                                  /\ s[k].kind = "CALL" => d[k] % 16 = 0
                                  /\ Transfers(s[k]) => d[k] = frame
        /\ \A k \in 2 .. Len(s) : os[k - 1] # os[k] => d[k] = frame
    BY <1>1, <1>2 DEF Depths
  <2>5. d[1] = 0 /\ d[Len(s) + 1] = frame /\ \A k \in 2 .. Len(s) + 1 : frame <= d[k]
    BY <1>1, <1>2, <2>3
  <2> HIDE DEF t, ot, n
  <2>6. FrameDepths(s, os, frame, d)
    BY <1>2, <2>4, <2>5 DEF FrameDepths
  <2> QED
    BY <2>2, <2>6 DEF t, ot, n
<1>3. CASE frame # 0
  <2> DEFINE a == Alloc(frame)
             e == [k \in 1 .. n + 2 |-> IF k = 1 THEN 0 ELSE frame + d[k - 1]]
  <2>1. a \in Instrs /\ a.kind = "ALLOC" /\ Taken(a) = frame /\ ~Transfers(a)
    BY NoOperandTypes DEF Alloc, Taken, Transfers
  <2>2. n \in Nat
    OBVIOUS
  <2>3. /\ Len(t) = n + 1 /\ t[1] = a
        /\ \A k \in 2 .. n + 1 : t[k] = s[k - 1]
    <3>1. AllocIfAny(frame) = <<a>>
      BY <1>3 DEF AllocIfAny
    <3> HIDE DEF a
    <3>2. <<a>> \in Seq(Instrs) /\ Len(<<a>>) = 1 /\ <<a>>[1] = a
      BY <2>1
    <3> DEFINE aa == <<a>>
    <3> HIDE DEF aa
    <3>3. /\ Len(aa \o s) = 1 + n
          /\ \A k \in 1 .. 1 + n : (aa \o s)[k] = IF k <= 1 THEN aa[k] ELSE s[k - 1]
      BY <3>2, ConcatProperties DEF aa
    <3> QED
      BY <2>2, <3>1, <3>2, <3>3 DEF aa
  <2>4. /\ ot[1] = 0
        /\ \A k \in 2 .. n + 1 : ot[k] = os[k - 1]
    <3> DEFINE z == Each(AllocIfAny(frame), 0)
    <3>1. z \in Seq(Nat) /\ Len(z) = 1 /\ z[1] = 0
      BY <1>3 DEF AllocIfAny, Each
    <3> HIDE DEF z
    <3>2. \A k \in 1 .. Len(z) + Len(os) : (z \o os)[k] = IF k <= Len(z) THEN z[k] ELSE os[k - Len(z)]
      BY <3>1, ConcatOrigins
    <3>3. Len(os) = n
      OBVIOUS
    <3> DEFINE zo == z \o os
    <3> HIDE DEF zo, n
    <3>4. \A k \in 1 .. 1 + n : zo[k] = IF k <= 1 THEN z[k] ELSE os[k - 1]
      BY <3>1, <3>2, <3>3 DEF zo
    <3>5. zo[1] = 0 /\ \A k \in 2 .. n + 1 : zo[k] = os[k - 1]
      BY <2>2, <3>1, <3>4
    <3> QED
      BY <3>5 DEF z, zo
  <2>5. /\ e \in [1 .. n + 2 -> Nat] /\ e[1] = 0
        /\ \A k \in 2 .. n + 2 : e[k] = frame + d[k - 1]
    <3>1. ASSUME NEW k \in 1 .. n + 2
          PROVE  (IF k = 1 THEN 0 ELSE frame + d[k - 1]) \in Nat
      <4>1. k # 1 => k - 1 \in 1 .. n + 1
        BY <2>2
      <4>2. k # 1 => d[k - 1] \in Nat
        BY <4>1
      <4>3. CASE k = 1
        BY <4>3
      <4>4. CASE k # 1
        <5>1. frame + d[k - 1] \in Nat
          <6> HIDE DEF e, n
          <6> QED
            BY <4>2, <4>4, SMTT(30)
        <5> QED
          BY <4>4, <5>1
      <4> QED
        BY <4>3, <4>4
    <3>2. e \in [1 .. n + 2 -> Nat]
      BY <3>1
    <3>3. 1 \in 1 .. n + 2 /\ \A k \in 2 .. n + 2 : k \in 1 .. n + 2 /\ k # 1
      BY <2>2
    <3> QED
      BY <3>2, <3>3
  <2> HIDE DEF t, ot, e, a, n
  <2>6. ASSUME NEW k \in 1 .. n + 1
        PROVE  /\ e[k + 1] = e[k] + Taken(t[k])
               /\ t[k].kind = "CALL" => e[k] % 16 = 0
               /\ Transfers(t[k]) => e[k] = frame
    <3>1. CASE k = 1
      BY <1>1, <2>1, <2>2, <2>3, <2>5, <3>1
    <3>2. CASE k # 1
      <4>1. /\ k \in 2 .. n + 1 /\ k \in 2 .. n + 2 /\ k + 1 \in 2 .. n + 2
            /\ k - 1 \in 1 .. n /\ (k + 1) - 1 = (k - 1) + 1
        BY <2>2, <3>2
      <4>2. t[k] = s[k - 1] /\ e[k] = frame + d[k - 1] /\ e[k + 1] = frame + d[(k - 1) + 1]
        BY <2>3, <2>5, <4>1
      <4>3. /\ d[(k - 1) + 1] = d[k - 1] + Taken(s[k - 1])
            /\ s[k - 1].kind = "CALL" => d[k - 1] % 16 = 0
            /\ Transfers(s[k - 1]) => d[k - 1] = 0
        BY <1>1, <4>1 DEF Depths, n
      <4>6. d[k - 1] \in Nat /\ d[(k - 1) + 1] \in Nat /\ Taken(s[k - 1]) \in Int
        <5>1. k - 1 \in 1 .. n + 1 /\ (k - 1) + 1 \in 1 .. n + 1
          BY <2>2, <4>1
        <5>2. s[k - 1] \in Instrs
          BY <4>1 DEF n
        <5> QED
          BY <5>1, <5>2, TakenIsInteger
      <4>4. e[k + 1] = e[k] + Taken(t[k])
        <5>1. frame + (d[k - 1] + Taken(s[k - 1])) = (frame + d[k - 1]) + Taken(s[k - 1])
          BY <4>6
        <5> QED
          BY <4>2, <4>3, <5>1, Zenon
      <4>5. d[k - 1] % 16 = 0 => (frame + d[k - 1]) % 16 = 0
        BY <4>6, MultiplesAdd
      <4>7. d[k - 1] = 0 => e[k] = frame
        BY <4>2
      <4> QED
        BY <4>2, <4>3, <4>4, <4>5, <4>7
    <3> QED
      BY <3>1, <3>2
  <2>7. ASSUME NEW k \in 2 .. n + 1, ot[k - 1] # ot[k]
        PROVE  e[k] = frame
    <3>1. CASE k = 2
      <4>1. 2 \in 2 .. n + 2 /\ 2 - 1 = 1
        BY <2>2
      <4>2. e[2] = frame + d[1]
        BY <2>5, <4>1
      <4> QED
        BY <1>1, <2>2, <3>1, <4>2
    <3>2. CASE k # 2
      <4>1. /\ k - 1 \in 2 .. n /\ k - 1 \in 2 .. n + 1 /\ k \in 2 .. n + 2
        BY <2>2, <3>2
      <4>2. ot[k - 1] = os[(k - 1) - 1] /\ ot[k] = os[k - 1]
        BY <2>4, <4>1
      <4>3. d[k - 1] = 0
        BY <1>1, <2>7, <4>1, <4>2 DEF Depths, n
      <4> QED
        BY <2>5, <4>1, <4>3
    <3> QED
      BY <3>1, <3>2
  <2>8. ASSUME NEW k \in 2 .. n + 2
        PROVE  frame <= e[k]
    <3>1. k - 1 \in 1 .. n + 1
      BY <2>2
    <3>2. d[k - 1] \in Nat
      BY <3>1
    <3>3. e[k] = frame + d[k - 1]
      BY <2>5
    <3> QED
      BY <3>2, <3>3
  <2>9. e[n + 2] = frame
    BY <1>1, <2>2, <2>5
  <2>10. Len(t) + 1 = n + 2 /\ Len(t) > 0
    BY <2>2, <2>3
  <2>11. FrameDepths(t, ot, frame, e)
    BY <2>2, <2>3, <2>4, <2>5, <2>6, <2>7, <2>8, <2>9, <2>10 DEF FrameDepths
  <2>12. e \in [1 .. Len(t) + 1 -> Nat]
    BY <2>5, <2>10
  <2> QED
    BY <2>11, <2>12 DEF t, ot
<1> QED
  BY <1>2, <1>3

-----------------------------------------------------------------------------
(* The invariant *)

CodeDepths(d) == Depths(code, from, d) /\ d[1] = 0 /\ d[Len(code) + 1] = 0

\* What allocate_stack has rewritten leads to where code is at pos.
Followed(d) ==
  /\ pos <= Len(code) + 1
  /\ Leads(fixed, fixedFrom, 0, d[pos])
  /\ pos = 1 => fixed = <<>>
  /\ pos > 1 => Len(fixed) > 0 /\ fixedFrom[Len(fixed)] = from[pos - 1]

StackInv ==
  /\ TypeInv
  /\ Len(fixedFrom) = Len(fixed)
  /\ phase \in {"params", "codegen", "call", "rename"} => fixed = <<>> /\ Leads(code, from, 0, depth)
  /\ phase = "call" /\ depth # 0 => Len(code) > 0 /\ from[Len(code)] = pos
  /\ phase = "fixup" => \E d \in [1 .. Len(code) + 1 -> Nat] : CodeDepths(d) /\ Followed(d)
  /\ phase = "done" => \E e \in [1 .. Len(fixed) + 1 -> Nat] :
                          FrameDepths(fixed, fixedFrom, Frame(opmap.stack_offset), e)

\* One emission of codegen_function.
LEMMA EmitLeads ==
  ASSUME StackInv, phase \in {"params", "codegen", "call"},
         NEW new \in Seq(Instrs), NEW origin \in Nat, Emit(new, origin),
         NEW b, Leads(new, Each(new, origin), depth, b),
         depth # 0 => Len(code) > 0 /\ from[Len(code)] = origin
  PROVE  /\ Leads(code', from', 0, b)
         /\ Len(new) > 0 => Len(code') > 0 /\ from'[Len(code')] = origin
<1>1. /\ code \in Seq(Instrs) /\ from \in Seq(Nat) /\ Len(from) = Len(code)
      /\ Leads(code, from, 0, depth)
  BY DEF StackInv, TypeInv
<1>2. code' = code \o new /\ from' = from \o Each(new, origin)
  BY DEF Emit, Each
<1>3. /\ Each(new, origin) \in Seq(Nat) /\ Len(Each(new, origin)) = Len(new)
      /\ \A k \in 1 .. Len(new) : Each(new, origin)[k] = origin
  BY EachTypes
<1> DEFINE eo == Each(new, origin)
<1> HIDE DEF eo
<1>4. Leads(code', from', 0, b)
  <2>1. Len(code) > 0 /\ Len(new) > 0 /\ from[Len(code)] # eo[1] => depth = 0
    BY <1>1, <1>3 DEF eo
  <2>2. Leads(code \o new, from \o eo, 0, b)
    BY <1>1, <1>3, <2>1, LeadsOn DEF eo
  <2> QED
    BY <1>2, <2>2 DEF eo
<1>5. ASSUME Len(new) > 0
      PROVE  Len(code') > 0 /\ from'[Len(code')] = origin
  <2>1. Len(code \o new) = Len(code) + Len(new)
    BY <1>1, ConcatProperties
  <2>2. \A k \in 1 .. Len(from) + Len(eo) : (from \o eo)[k] = IF k <= Len(from) THEN from[k] ELSE eo[k - Len(from)]
    BY <1>1, <1>3, ConcatOrigins DEF eo
  <2>3. Len(code) \in Nat /\ Len(new) \in Nat /\ Len(eo) = Len(new) /\ Len(from) = Len(code)
    BY <1>1, <1>3 DEF eo
  <2> DEFINE n == Len(code) + Len(new)
  <2>4. n \in 1 .. Len(from) + Len(eo) /\ ~(n <= Len(from)) /\ n - Len(from) = Len(new)
    BY <1>5, <2>3
  <2>5. (from \o eo)[n] = eo[Len(new)]
    <3> HIDE DEF n
    <3> QED
      BY <2>2, <2>4
  <2>6. eo[Len(new)] = origin
    BY <1>3, <1>5 DEF eo
  <2> QED
    BY <1>2, <2>1, <2>3, <2>4, <2>5, <2>6 DEF eo
<1> QED
  BY <1>4, <1>5

\* The depth is one outside calls.
LEMMA DepthOutsideCalls ==
  ASSUME StackInv, phase # "call"
  PROVE  depth = 0
  BY DEF StackInv, TypeInv, CallInv

\* What a step leaves of the invariant while code is being emitted.
LEMMA EmissionKeeps ==
  ASSUME StackInv, phase \in {"params", "codegen", "call"}, phase' \in {"codegen", "call"},
         TypeInv', UNCHANGED <<fixed, fixedFrom>>, Leads(code', from', 0, depth'),
         phase' = "call" /\ depth' # 0 => Len(code') > 0 /\ from'[Len(code')] = pos'
  PROVE  StackInv'
  BY DEF StackInv

\* Code generation, action by action.
LEMMA EmissionStep ==
  ASSUME StackInv, SaveParams \/ GenInstr \/ CallBegin \/ CallPush \/ CallFinish
  PROVE  StackInv'
<1>1. TypeInv /\ TypeInv' /\ fn \in IrFunctions /\ pos \in Nat \ {0} /\ pos \in Nat
  BY TypeInvStep DEF StackInv, TypeInv, CallInv, Next, Pass
<1>2. CASE SaveParams
  <2> DEFINE new == [i \in 1 .. Len(fn.params) |-> Mov(Id(fn.params[i]), ParamSource(i))]
  <2>1. fn.params \in Seq(Ids)
    BY <1>1, FunctionsAssumption
  <2>2. new \in Seq(Instrs) /\ Quiet(new)
    BY <2>1, SaveParamsTypes, SaveParamsQuiet
  <2>3. Emit(new, 0) /\ phase = "params" /\ phase' = "codegen" /\ depth' = depth /\ UNCHANGED <<fixed, fixedFrom>>
    BY <1>2 DEF SaveParams
  <2> HIDE DEF new
  <2>4. depth = 0 /\ Leads(new, Each(new, 0), depth, 0)
    BY <2>2, <2>3, DepthOutsideCalls, QuietLeads
  <2>5. Leads(code', from', 0, depth')
    BY <2>2, <2>3, <2>4, EmitLeads
  <2> QED
    BY <1>1, <2>3, <2>4, <2>5, EmissionKeeps
<1>3. CASE GenInstr
  <2> DEFINE new == CodegenInstr(fn.instrs[pos])
  <2>1. fn.instrs[pos] \in IrInstructions(Ids) /\ fn.instrs[pos].kind # "FUNCALL"
    BY <1>1, <1>3, InstructionTypes DEF GenInstr, AtInstr
  <2>2. new \in Seq(Instrs) /\ Quiet(new)
    BY <2>1, InstrTypes, InstrQuiet
  <2>3. Emit(new, pos) /\ phase = "codegen" /\ phase' = "codegen" /\ depth' = depth /\ UNCHANGED <<fixed, fixedFrom>>
    BY <1>3 DEF GenInstr, AtInstr
  <2> HIDE DEF new
  <2>4. depth = 0 /\ Leads(new, Each(new, pos), depth, 0)
    BY <1>1, <2>2, <2>3, DepthOutsideCalls, QuietLeads
  <2>5. Leads(code', from', 0, depth')
    BY <1>1, <2>2, <2>3, <2>4, EmitLeads
  <2> QED
    BY <1>1, <2>3, <2>4, <2>5, EmissionKeeps
<1>4. CASE CallBegin
  <2> DEFINE args == fn.instrs[pos].args
             new == AllocIfAny(Padding(args)) \o RegisterMoves(args)
  <2>1. args \in Seq(IrValues(Ids))
    <3>1. fn.instrs[pos] \in IrInstructions(Ids) /\ fn.instrs[pos].kind = "FUNCALL"
      BY <1>1, <1>4, InstructionTypes DEF CallBegin, AtInstr
    <3> QED
      BY <3>1, ArgumentsAreSequences
  <2>2. new \in Seq(Instrs) /\ Leads(new, Each(new, pos), 0, Padding(args))
    BY <1>1, <2>1, CallBeginLeads
  <2>3. Padding(args) # 0 => Len(new) > 0
    <3>1. RegisterMoves(args) \in Seq(Instrs)
      BY <2>1, RegisterMovesTypes
    <3> DEFINE moves == RegisterMoves(args)
    <3> HIDE DEF moves
    <3>2. ASSUME Padding(args) # 0
          PROVE  Len(<<Alloc(Padding(args))>> \o moves) > 0
      <4>1. <<Alloc(Padding(args))>> \in Seq(Instrs)
        <5>1. Alloc(Padding(args)) \in Instrs
          BY NoOperandTypes DEF Padding
        <5> QED
          BY <5>1
      <4>2. Len(<<Alloc(Padding(args))>> \o moves) = Len(<<Alloc(Padding(args))>>) + Len(moves)
        BY <3>1, <4>1, ConcatProperties DEF moves
      <4>3. Len(moves) \in Nat
        BY <3>1 DEF moves
      <4> QED
        BY <4>2, <4>3
    <3> QED
      BY <3>2 DEF AllocIfAny, moves
  <2>4. /\ Emit(new, pos) /\ phase = "codegen" /\ phase' = "call" /\ pos' = pos
        /\ depth' = depth + Padding(args) /\ UNCHANGED <<fixed, fixedFrom>>
    BY <1>4 DEF CallBegin, AtInstr
  <2> HIDE DEF new
  <2>5. depth = 0 /\ depth' = Padding(args)
    <3>1. depth = 0 /\ Padding(args) \in Nat
      BY <2>4, DepthOutsideCalls DEF Padding
    <3> QED
      BY <2>4, <3>1
  <2>6. /\ Leads(code', from', 0, depth')
        /\ Len(new) > 0 => Len(code') > 0 /\ from'[Len(code')] = pos
    BY <1>1, <2>2, <2>4, <2>5, EmitLeads
  <2> QED
    BY <1>1, <2>3, <2>4, <2>5, <2>6, EmissionKeeps
<1>5. CASE CallPush
  <2> DEFINE args == fn.instrs[pos].args
             new == PushArg(args[arg])
  <2>1. args[arg] \in IrValues(Ids)
    <3>1. fn.instrs[pos] \in IrInstructions(Ids) /\ fn.instrs[pos].kind = "FUNCALL"
      BY <1>1, <1>5, InstructionTypes DEF CallPush, TypeInv, CallInv
    <3>2. args \in Seq(IrValues(Ids))
      BY <3>1, ArgumentsAreSequences
    <3>3. arg \in Nat /\ arg > 6 /\ arg <= Len(args)
      BY <1>1, <1>5, SixArgRegisters DEF CallPush, TypeInv, CallInv
    <3> HIDE DEF args
    <3> QED
      BY <3>2, <3>3
  <2>2. depth \in Nat
    <3>1. fn.instrs[pos] \in IrInstructions(Ids) /\ fn.instrs[pos].kind = "FUNCALL"
      BY <1>1, <1>5, InstructionTypes DEF CallPush, TypeInv, CallInv
    <3>2. Len(args) \in Nat
      BY <3>1, ArgumentsAreSequences
    <3>3. depth = Padding(args) + 8 * (Len(args) - arg) /\ arg \in Nat /\ arg <= Len(args)
      BY <1>1, <1>5 DEF CallPush, TypeInv, CallInv
    <3>4. Padding(args) \in Nat
      BY DEF Padding
    <3> HIDE DEF args
    <3> QED
      BY <3>2, <3>3, <3>4
  <2>3. new \in Seq(Instrs) /\ Leads(new, Each(new, pos), depth, depth + 8)
    BY <1>1, <2>1, <2>2, PushArgTypes, PushLeads
  <2>4. Len(new) > 0
    BY DEF PushArg
  <2>5. /\ Emit(new, pos) /\ phase = "call" /\ phase' = "call" /\ pos' = pos
        /\ depth' = depth + 8 /\ UNCHANGED <<fixed, fixedFrom>>
    BY <1>5 DEF CallPush
  <2> HIDE DEF new
  <2>6. depth # 0 => Len(code) > 0 /\ from[Len(code)] = pos
    BY <2>5 DEF StackInv
  <2>7. /\ Leads(code', from', 0, depth')
        /\ Len(new) > 0 => Len(code') > 0 /\ from'[Len(code')] = pos
    BY <1>1, <2>3, <2>5, <2>6, EmitLeads
  <2> QED
    BY <1>1, <2>4, <2>5, <2>7, EmissionKeeps
<1>6. CASE CallFinish
  <2> DEFINE i == fn.instrs[pos]
             new == <<Call(i.f)>> \o DeallocateIfAny(BytesToRemove(i.args))
                                  \o <<Mov(CodegenVal(i.dst), Reg("AX"))>>
  <2>1. i \in IrInstructions(Ids) /\ i.kind = "FUNCALL"
    BY <1>1, <1>6, InstructionTypes DEF CallFinish, TypeInv, CallInv
  <2>2. Len(i.args) \in Nat
    BY <2>1, ArgumentsAreSequences
  <2>3. depth = BytesToRemove(i.args) /\ depth % 16 = 0
    <3> DEFINE args == i.args
    <3>1. /\ depth = Padding(args) + 8 * (Len(args) - arg)
          /\ arg \in Nat /\ arg <= Len(args) /\ (arg >= 6 \/ arg = Len(args)) /\ arg <= 6
      BY <1>1, <1>6, SixArgRegisters DEF CallFinish, TypeInv, CallInv
    <3>2. Len(args) \in Nat
      BY <2>2
    <3> HIDE DEF args
    <3>3. depth = BytesToRemove(args) /\ depth % 16 = 0
      BY <3>1, <3>2, CallBytes
    <3> QED
      BY <3>3 DEF args
  <2>4. BytesToRemove(i.args) \in Nat
    BY <2>2, ArgumentCounts
  <2>5. new \in Seq(Instrs) /\ Leads(new, Each(new, pos), BytesToRemove(i.args), 0)
    BY <1>1, <2>1, <2>3, <2>4, CallFinishLeads
  <2>6. /\ Emit(new, pos) /\ phase = "call" /\ phase' = "codegen"
        /\ depth' = depth - BytesToRemove(i.args) /\ UNCHANGED <<fixed, fixedFrom>>
    BY <1>6 DEF CallFinish
  <2>7. depth # 0 => Len(code) > 0 /\ from[Len(code)] = pos
    BY <2>6 DEF StackInv
  <2> DEFINE bytes == BytesToRemove(i.args)
  <2>8. depth = bytes /\ bytes \in Nat /\ depth' = depth - bytes /\ Leads(new, Each(new, pos), bytes, 0)
    BY <2>3, <2>4, <2>5, <2>6
  <2> HIDE DEF new, bytes
  <2>9. depth' = 0
    BY <2>8
  <2>10. Leads(code', from', 0, depth')
    BY <1>1, <2>5, <2>6, <2>7, <2>8, <2>9, EmitLeads
  <2> QED
    BY <1>1, <2>6, <2>10, EmissionKeeps
<1> QED
  BY <1>2, <1>3, <1>4, <1>5, <1>6

\* allocate_stack on one instruction.
LEMMA FixStep ==
  ASSUME StackInv, FixInstr
  PROVE  StackInv'
<1>1. TypeInv /\ TypeInv' /\ pos \in Nat \ {0}
  BY TypeInvStep DEF StackInv, TypeInv, CallInv, Next, Pass
<1>2. PICK d \in [1 .. Len(code) + 1 -> Nat] : CodeDepths(d) /\ Followed(d)
  BY DEF StackInv, FixInstr
<1> DEFINE new == Fix(code[pos])
           origin == from[pos]
<1>3. /\ code \in Seq(Instrs) /\ pos \in 1 .. Len(code) /\ origin \in Nat /\ code[pos] \in Instrs
      /\ fixed \in Seq(Instrs) /\ fixedFrom \in Seq(Nat) /\ Len(fixedFrom) = Len(fixed)
      /\ Len(code) \in Nat
  BY <1>1 DEF FixInstr, TypeInv, StackInv
<1>4. new \in Seq(Instrs) /\ Len(new) > 0 /\ Leads(new, Each(new, origin), d[pos], d[pos + 1])
  BY <1>2, <1>3, FixTypes, FixKeeps, FixLeads DEF CodeDepths
<1>5. /\ fixed' = fixed \o new /\ fixedFrom' = fixedFrom \o Each(new, origin)
      /\ pos' = pos + 1 /\ phase' = "fixup" /\ UNCHANGED <<code, from>>
  BY DEF FixInstr, Each
<1> HIDE DEF new
<1> DEFINE eo == Each(new, origin)
<1>6. eo \in Seq(Nat) /\ Len(eo) = Len(new) /\ \A k \in 1 .. Len(new) : eo[k] = origin
  BY <1>3, <1>4, EachTypes
<1> HIDE DEF eo
<1>7. Len(fixed) > 0 /\ fixedFrom[Len(fixed)] # eo[1] => d[pos] = 0
  <2>1. CASE pos = 1
    BY <1>2, <2>1 DEF Followed
  <2>2. CASE pos > 1
    <3>1. fixedFrom[Len(fixed)] = from[pos - 1] /\ eo[1] = from[pos]
      BY <1>2, <1>4, <1>6, <2>2 DEF Followed
    <3>2. pos \in 2 .. Len(code)
      BY <1>3, <2>2
    <3> QED
      BY <1>2, <3>1, <3>2 DEF CodeDepths, Depths
  <2> QED
    BY <1>3, <2>1, <2>2
<1>8. Leads(fixed', fixedFrom', 0, d[pos + 1])
  <2>1. Leads(fixed, fixedFrom, 0, d[pos])
    BY <1>2 DEF Followed
  <2>2. Leads(fixed \o new, fixedFrom \o eo, 0, d[pos + 1])
    BY <1>3, <1>4, <1>6, <1>7, <2>1, LeadsOn DEF eo
  <2> QED
    BY <1>5, <2>2 DEF eo
<1>9. Len(fixed') = Len(fixed) + Len(new) /\ Len(fixedFrom') = Len(fixed) + Len(new)
  <2>1. Len(fixed \o new) = Len(fixed) + Len(new) /\ Len(fixedFrom \o eo) = Len(fixedFrom) + Len(eo)
    BY <1>3, <1>4, <1>6, ConcatProperties
  <2> QED
    BY <1>3, <1>5, <1>6, <2>1 DEF eo
<1>10. Len(fixed') > 0 /\ fixedFrom'[Len(fixed')] = origin
  <2>1. \A k \in 1 .. Len(fixedFrom) + Len(eo) :
          (fixedFrom \o eo)[k] = IF k <= Len(fixedFrom) THEN fixedFrom[k] ELSE eo[k - Len(fixedFrom)]
    BY <1>3, <1>6, ConcatOrigins
  <2> DEFINE n == Len(fixed) + Len(new)
  <2>2. Len(fixed) \in Nat /\ Len(new) \in Nat
    BY <1>3, <1>4
  <2>3. n \in 1 .. Len(fixedFrom) + Len(eo) /\ ~(n <= Len(fixedFrom)) /\ n - Len(fixedFrom) = Len(new) /\ n > 0
    BY <1>3, <1>4, <1>6, <2>2
  <2> HIDE DEF n
  <2>4. (fixedFrom \o eo)[n] = eo[Len(new)]
    BY <2>1, <2>3
  <2>5. eo[Len(new)] = origin
    BY <1>4, <1>6, <2>2
  <2> QED
    BY <1>5, <1>9, <2>3, <2>4, <2>5 DEF n, eo
<1>11. CodeDepths(d)' /\ Followed(d)'
  <2>1. CodeDepths(d)'
    BY <1>2, <1>5 DEF CodeDepths
  <2>2. pos' <= Len(code') + 1 /\ pos' # 1 /\ from'[pos' - 1] = origin
    BY <1>3, <1>5
  <2> QED
    BY <1>5, <1>8, <1>10, <2>1, <2>2 DEF Followed
<1> QED
  BY <1>1, <1>2, <1>5, <1>9, <1>11 DEF StackInv

\* The passes keep the depths, action by action.
LEMMA StackInvStep ==
  ASSUME StackInv, [Next]_passVars
  PROVE  StackInv'
<1>1. TypeInv /\ TypeInv'
  BY TypeInvStep DEF StackInv
<1>2. CASE SaveParams \/ GenInstr \/ CallBegin \/ CallPush \/ CallFinish
  BY <1>2, EmissionStep
<1>3. CASE EndCodegen
  BY <1>1, <1>3 DEF EndCodegen, StackInv
<1>4. CASE RenameInstr
  <2> DEFINE out == RenameOperands(opmap', code[pos])
  <2>1. code \in Seq(Instrs) /\ pos \in 1 .. Len(code) /\ code[pos] \in Instrs
    BY <1>1, <1>4 DEF RenameInstr, TypeInv, CallInv
  <2>2. out.kind = code[pos].kind /\ Taken(out) = Taken(code[pos]) /\ Transfers(out) = Transfers(code[pos])
    BY <2>1, RenameKeeps
  <2>3. code' = [code EXCEPT ![pos] = out]
    BY <1>4 DEF RenameInstr
  <2> HIDE DEF out
  <2>4. /\ phase = "rename" /\ phase' = "rename" /\ Leads(code, from, 0, depth) /\ fixed = <<>>
        /\ UNCHANGED <<fixed, fixedFrom, from, depth>> /\ Len(fixedFrom) = Len(fixed)
    BY <1>4 DEF RenameInstr, StackInv
  <2>5. Leads(code', from', 0, depth')
    BY <2>1, <2>2, <2>3, <2>4, RenameLeads
  <2> QED
    BY <1>1, <2>4, <2>5 DEF StackInv
<1>5. CASE EndRename
  <2>1. /\ phase = "rename" /\ phase' = "fixup" /\ pos' = 1 /\ fixed = <<>> /\ Len(fixedFrom) = Len(fixed)
        /\ UNCHANGED <<fixed, fixedFrom, from, code>> /\ Leads(code, from, 0, depth)
    BY <1>5 DEF EndRename, StackInv
  <2>2. depth = 0
    BY <2>1, DepthOutsideCalls
  <2>3. PICK d \in [1 .. Len(code) + 1 -> Nat] : Depths(code, from, d) /\ d[1] = 0 /\ d[Len(code) + 1] = 0
    BY <2>1, <2>2 DEF Leads
  <2>4. Leads(<<>>, <<>>, 0, 0)
    <3>1. <<>> \in Seq(Instrs) /\ Each(<<>>, 0) = <<>> /\ \A k \in 1 .. Len(<<>>) : FALSE
      BY DEF Each
    <3> QED
      BY <3>1, PlainLeads
  <2>5. fixedFrom = <<>> /\ Len(code) \in Nat
    <3>1. fixedFrom \in Seq(Nat) /\ Len(fixedFrom) = 0 /\ code \in Seq(Instrs)
      BY <1>1, <2>1 DEF TypeInv
    <3> QED
      BY <3>1
  <2>6. CodeDepths(d)' /\ Followed(d)'
    BY <2>1, <2>3, <2>4, <2>5 DEF CodeDepths, Followed
  <2> QED
    BY <1>1, <2>1, <2>3, <2>6 DEF StackInv
<1>6. CASE FixInstr
  BY <1>6, FixStep
<1>7. CASE InsertFrame
  <2> DEFINE frame == Frame(opmap.stack_offset)
             alloc == AllocIfAny(frame)
  <2>1. PICK d \in [1 .. Len(code) + 1 -> Nat] : CodeDepths(d) /\ Followed(d)
    BY <1>7 DEF StackInv, InsertFrame
  <2>2. pos = Len(code) + 1 /\ pos \in Nat /\ Len(code) \in Nat
    BY <1>1, <1>7, <2>1 DEF InsertFrame, Followed, TypeInv, CallInv
  <2>3. Leads(fixed, fixedFrom, 0, 0)
    BY <2>1, <2>2 DEF CodeDepths, Followed
  <2>4. frame \in Nat /\ frame % 16 = 0
    BY <1>1, FrameRounds DEF TypeInv, MapInv
  <2>5. /\ fixed \in Seq(Instrs) /\ fixedFrom \in Seq(Nat) /\ Len(fixedFrom) = Len(fixed)
        /\ fixed' = alloc \o fixed /\ fixedFrom' = Each(alloc, 0) \o fixedFrom
        /\ opmap' = opmap /\ phase' = "done"
    BY <1>1, <1>7 DEF InsertFrame, TypeInv, StackInv, Each
  <2> HIDE DEF frame
  <2>6. \E e \in [1 .. Len(fixed') + 1 -> Nat] : FrameDepths(fixed', fixedFrom', frame, e)
    BY <2>3, <2>4, <2>5, FramePrepended
  <2>7. Len(fixedFrom') = Len(fixed')
    <3>1. alloc \in Seq(Instrs) /\ Each(alloc, 0) \in Seq(Nat) /\ Len(Each(alloc, 0)) = Len(alloc)
      <4>1. alloc \in Seq(Instrs)
        <5>1. frame \in Int
          BY <2>4
        <5> QED
          BY <5>1, PaddingTypes
      <4> HIDE DEF alloc
      <4> QED
        BY <4>1, EachTypes
    <3> HIDE DEF alloc
    <3>2. Len(alloc \o fixed) = Len(alloc) + Len(fixed)
      BY <2>5, <3>1, ConcatProperties
    <3>3. Len(Each(alloc, 0) \o fixedFrom) = Len(Each(alloc, 0)) + Len(fixedFrom)
      BY <2>5, <3>1, ConcatProperties
    <3> QED
      BY <2>5, <3>1, <3>2, <3>3
  <2> QED
    BY <1>1, <2>5, <2>6, <2>7 DEF StackInv, frame
<1>8. CASE UNCHANGED passVars
  BY <1>1, <1>8 DEF passVars, StackInv, CodeDepths, Followed
<1> QED
  BY <1>2, <1>3, <1>4, <1>5, <1>6, <1>7, <1>8 DEF Next, Pass, Compiled

LEMMA StackInvInit ==
  ASSUME Init
  PROVE  StackInv
<1>1. CallInv
  BY DEF Init, CallInv
<1>2. MapInv(opmap)
  BY CapacityAssumption DEF Init, MapInv, EmptyMap
<1>3. TypeInv
  BY <1>1, <1>2 DEF Init, TypeInv
<1>4. Leads(<<>>, <<>>, 0, 0)
  <2>1. <<>> \in Seq(Instrs) /\ Each(<<>>, 0) = <<>> /\ \A k \in 1 .. Len(<<>>) : FALSE
    BY DEF Each
  <2> QED
    BY <2>1, PlainLeads
<1> QED
  BY <1>3, <1>4 DEF Init, StackInv

-----------------------------------------------------------------------------
(* Where an instruction comes from: the block it was emitted with and its    *)
(* place there.  The code of a function is laid out along these places; the  *)
(* passes can be followed through them to the list that is printed.          *)

\* The n-th instruction of a part of the code of IR instruction i; parameters
\* are saved at 0, and the frame is reserved there.
Parts == {"frame", "params", "instr", "begin", "push", "finish", "end"}
Places == [at : Nat, part : Parts, arg : Nat, n : Nat \ {0}]
Place(i, part, a) == [at |-> i, part |-> part, arg |-> a, n |-> 1]

\* What codegen_function emits at once.
Block(f, p) ==
  LET i == f.instrs[p.at]
  IN CASE p.part = "params" -> [k \in 1 .. Len(f.params) |-> Mov(Id(f.params[k]), ParamSource(k))]
       [] p.part = "instr" -> CodegenInstr(i)
       [] p.part = "begin" -> AllocIfAny(Padding(i.args)) \o RegisterMoves(i.args)
       [] p.part = "push" -> PushArg(i.args[p.arg])
       [] p.part = "finish" -> <<Call(i.f)>> \o DeallocateIfAny(BytesToRemove(i.args))
                                             \o <<Mov(CodegenVal(i.dst), Reg("AX"))>>

Source(f, p) == Block(f, p)[p.n]

\* Where the code of a call goes on when a arguments are left.
AtArg(i, a) == IF a > 6 THEN Place(i, "push", a) ELSE Place(i, "finish", 0)

\* Where the code of IR instruction i begins; a call without arguments begins
\* with the call itself.
FirstOf(f, i) ==
  IF i > Len(f.instrs) THEN Place(i, "end", 0)
  ELSE IF f.instrs[i].kind # "FUNCALL" THEN Place(i, "instr", 0)
  ELSE IF Len(f.instrs[i].args) = 0 THEN Place(i, "finish", 0)
  ELSE Place(i, "begin", 0)

Start(f) == IF Len(f.params) = 0 THEN FirstOf(f, 1) ELSE Place(0, "params", 0)

After(f, p) ==
  CASE p.part = "params" -> FirstOf(f, 1)
    [] p.part \in {"instr", "finish"} -> FirstOf(f, p.at + 1)
    [] p.part = "begin" -> AtArg(p.at, Len(f.instrs[p.at].args))
    [] p.part = "push" -> AtArg(p.at, p.arg - 1)

Successor(f, p) == IF p.n < Len(Block(f, p)) THEN [p EXCEPT !.n = @ + 1] ELSE After(f, p)

\* The places of a function where there is an instruction, and its end.
InBlock(f, p) ==
  \/ p.part = "params" /\ p.at = 0 /\ Len(f.params) > 0
  \/ p.part = "instr" /\ p.arg = 0 /\ p.at \in 1 .. Len(f.instrs) /\ f.instrs[p.at].kind # "FUNCALL"
  \/ /\ p.part \in {"begin", "push", "finish"}
     /\ p.at \in 1 .. Len(f.instrs)
     /\ f.instrs[p.at].kind = "FUNCALL"
     /\ p.part = "begin" => Len(f.instrs[p.at].args) > 0
     /\ p.part = "push" => p.arg \in 7 .. Len(f.instrs[p.at].args)

IsPlace(f, p) ==
  /\ p \in Places
  /\ \/ InBlock(f, p) /\ p.n \in 1 .. Len(Block(f, p))
     \/ p = Place(Len(f.instrs) + 1, "end", 0)

-----------------------------------------------------------------------------
(* Blocks *)

LEMMA FunctionTypes ==
  ASSUME NEW f \in IrFunctions
  PROVE  /\ f.params \in Seq(Ids) /\ Len(f.params) \in Nat
         /\ f.instrs \in Seq(IrInstructions(Ids)) /\ Len(f.instrs) \in Nat
         /\ \A i \in 1 .. Len(f.instrs) : f.instrs[i] \in IrInstructions(Ids)
  BY FunctionsAssumption

\* Every IR instruction becomes at least one assembly instruction.
LEMMA InstrNotEmpty ==
  ASSUME NEW i \in IrInstructions(Ids), i.kind # "FUNCALL"
  PROVE  Len(CodegenInstr(i)) > 0
<1>1. CASE i.kind = "RETURN"
  BY <1>1 DEF CodegenInstr, CodegenReturn
<1>2. CASE i.kind = "UNOP"
  BY <1>2 DEF CodegenInstr, CodegenUnop
<1>3. CASE i.kind = "BINOP"
  <2>1. CodegenInstr(i) = CodegenBinop(i)
    BY <1>3 DEF CodegenInstr
  <2>2. CASE i.op \in {"DIV", "MOD"} \cup IrRelations
    BY <2>1, <2>2 DEF CodegenBinop, IrRelations
  <2>3. CASE i.op \notin {"DIV", "MOD"} \cup IrRelations
    BY <2>1, <2>3 DEF CodegenBinop, IrRelations
  <2> QED
    BY <2>2, <2>3
<1>4. CASE i.kind \in {"JUMP", "JUMP_ZERO", "JUMP_NOT_ZERO", "COPY", "LABEL"}
  BY <1>4 DEF CodegenInstr
<1> QED
  BY <1>1, <1>2, <1>3, <1>4 DEF IrInstructions

\* The first argument travels in a register.
LEMMA SomeInRegisters ==
  ASSUME NEW args, Len(args) \in Nat, Len(args) > 0
  PROVE  Len(args) - StackArgs(args) > 0
<1>1. CASE Len(args) > 6
  <2>1. StackArgs(args) = Len(args) - 6
    BY <1>1, SixArgRegisters DEF StackArgs
  <2> QED
    BY <2>1
<1>2. CASE ~(Len(args) > 6)
  <2>1. StackArgs(args) = 0
    BY <1>2, SixArgRegisters DEF StackArgs
  <2> QED
    BY <2>1
<1> QED
  BY <1>1, <1>2

\* The parts of a call.
LEMMA CallBlocks ==
  ASSUME NEW i \in IrInstructions(Ids), i.kind = "FUNCALL"
  PROVE  /\ AllocIfAny(Padding(i.args)) \o RegisterMoves(i.args) \in Seq(Instrs)
         /\ Len(i.args) = 0 => AllocIfAny(Padding(i.args)) \o RegisterMoves(i.args) = <<>>
         /\ Len(i.args) > 0 => Len(AllocIfAny(Padding(i.args)) \o RegisterMoves(i.args)) > 0
         /\ \A a \in 1 .. Len(i.args) : PushArg(i.args[a]) \in Seq(Instrs) /\ Len(PushArg(i.args[a])) > 0
<1> DEFINE args == i.args
           alloc == AllocIfAny(Padding(args))
           moves == RegisterMoves(args)
<1>1. args \in Seq(IrValues(Ids)) /\ Len(args) \in Nat
  BY ArgumentsAreSequences
<1>2. alloc \in Seq(Instrs) /\ moves \in Seq(Instrs)
  <2>1. Padding(args) \in Int
    BY DEF Padding
  <2> QED
    BY <1>1, <2>1, PaddingTypes, RegisterMovesTypes
<1>3. alloc \o moves \in Seq(Instrs) /\ Len(alloc \o moves) = Len(alloc) + Len(moves)
  BY <1>2, ConcatProperties
<1>4. Len(moves) = Len(args) - StackArgs(args)
  BY <1>1, ArgumentCounts DEF RegisterMoves
<1>5. Len(args) > 0 => Len(moves) > 0
  BY <1>1, <1>4, SomeInRegisters
<1>6. ASSUME Len(args) = 0
      PROVE  alloc \o moves = <<>>
  <2>1. StackArgs(args) = 0 /\ Len(moves) = 0
    BY <1>4, <1>6, SixArgRegisters DEF StackArgs
  <2>2. alloc = <<>>
    BY <2>1 DEF AllocIfAny, Padding
  <2>3. Len(alloc \o moves) = 0
    BY <1>3, <2>1, <2>2
  <2> HIDE DEF alloc, moves
  <2> QED
    BY <1>3, <2>3
<1>7. ASSUME NEW a \in 1 .. Len(args)
      PROVE  PushArg(args[a]) \in Seq(Instrs) /\ Len(PushArg(args[a])) > 0
  <2>1. args[a] \in IrValues(Ids)
    BY <1>1
  <2>2. Len(PushArg(args[a])) > 0
    BY DEF PushArg
  <2> QED
    BY <2>1, <2>2, PushArgTypes
<1>8. Len(args) > 0 => Len(alloc \o moves) > 0
  <2>1. Len(alloc) \in Nat
    BY <1>2
  <2> QED
    BY <1>3, <1>5, <2>1
<1> QED
  BY <1>3, <1>6, <1>7, <1>8

LEMMA FinishBlock ==
  ASSUME NEW i \in IrInstructions(Ids), i.kind = "FUNCALL"
  PROVE  LET block == <<Call(i.f)>> \o DeallocateIfAny(BytesToRemove(i.args))
                                    \o <<Mov(CodegenVal(i.dst), Reg("AX"))>>
         IN block \in Seq(Instrs) /\ Len(block) > 0
<1> DEFINE drop == DeallocateIfAny(BytesToRemove(i.args))
           call == <<Call(i.f)>>
           take == <<Mov(CodegenVal(i.dst), Reg("AX"))>>
<1>1. Len(i.args) \in Nat /\ i.dst \in IrValues(Ids) /\ i.f \in STRING
  BY ArgumentsAreSequences DEF IrValues
<1>2. drop \in Seq(Instrs) /\ Len(drop) \in Nat
  <2>1. BytesToRemove(i.args) \in Int
    BY <1>1, ArgumentCounts
  <2>2. drop \in Seq(Instrs)
    BY <2>1, PaddingTypes
  <2> QED
    BY <2>2
<1>3. Call(i.f) \in Instrs /\ Mov(CodegenVal(i.dst), Reg("AX")) \in Instrs
  BY <1>1, NoOperandTypes, TwoOperandTypes, ValueTypes, OperandTypes, RegisterNames
<1>4. call \in Seq(Instrs) /\ Len(call) = 1 /\ take \in Seq(Instrs)
  BY <1>3
<1> HIDE DEF drop, call, take
<1>5. call \o drop \in Seq(Instrs) /\ Len(call \o drop) = 1 + Len(drop)
  <2>1. call \o drop \in Seq(Instrs) /\ Len(call \o drop) = Len(call) + Len(drop)
    BY <1>2, <1>4, ConcatProperties
  <2> QED
    BY <1>4, <2>1
<1>6. (call \o drop) \o take \in Seq(Instrs) /\ Len((call \o drop) \o take) = Len(call \o drop) + Len(take)
  BY <1>4, <1>5, ConcatProperties
<1>7. Len(take) \in Nat
  BY <1>4
<1> QED
  BY <1>2, <1>5, <1>6, <1>7 DEF drop, call, take

\* Every block is a non-empty list of instructions.
LEMMA BlockTypes ==
  ASSUME NEW f \in IrFunctions, NEW p, InBlock(f, p)
  PROVE  Block(f, p) \in Seq(Instrs) /\ Len(Block(f, p)) \in Nat \ {0}
<1> DEFINE i == f.instrs[p.at]
<1>1. CASE p.part = "params"
  <2>1. Block(f, p) = [k \in 1 .. Len(f.params) |-> Mov(Id(f.params[k]), ParamSource(k))]
    BY <1>1 DEF Block
  <2>2. f.params \in Seq(Ids) /\ Len(f.params) \in Nat /\ Len(f.params) > 0
    BY <1>1, FunctionTypes DEF InBlock
  <2> QED
    BY <2>1, <2>2, SaveParamsTypes
<1>2. CASE p.part = "instr"
  <2>1. i \in IrInstructions(Ids) /\ i.kind # "FUNCALL" /\ Block(f, p) = CodegenInstr(i)
    BY <1>2, FunctionTypes DEF InBlock, Block
  <2> QED
    BY <2>1, InstrTypes, InstrNotEmpty
<1>3. ASSUME p.part \in {"begin", "push", "finish"}
      PROVE  i \in IrInstructions(Ids) /\ i.kind = "FUNCALL" /\ Len(i.args) \in Nat
  BY <1>3, FunctionTypes, ArgumentsAreSequences DEF InBlock
<1>4. CASE p.part = "begin"
  <2>1. Block(f, p) = AllocIfAny(Padding(i.args)) \o RegisterMoves(i.args) /\ Len(i.args) > 0
    BY <1>4 DEF Block, InBlock
  <2> QED
    BY <1>3, <1>4, <2>1, CallBlocks
<1>5. CASE p.part = "push"
  <2>1. Block(f, p) = PushArg(i.args[p.arg]) /\ p.arg \in 7 .. Len(i.args)
    BY <1>5 DEF Block, InBlock
  <2> DEFINE a == p.arg
  <2>2. a \in 1 .. Len(i.args)
    BY <1>3, <1>5, <2>1
  <2>3. i \in IrInstructions(Ids) /\ i.kind = "FUNCALL"
    BY <1>3, <1>5
  <2> HIDE DEF i, a
  <2>4. PushArg(i.args[a]) \in Seq(Instrs) /\ Len(PushArg(i.args[a])) > 0
    BY <2>2, <2>3, CallBlocks
  <2>5. Len(PushArg(i.args[a])) \in Nat
    BY <2>4
  <2> QED
    BY <2>1, <2>4, <2>5 DEF i, a
<1>6. CASE p.part = "finish"
  <2>1. Block(f, p) = <<Call(i.f)>> \o DeallocateIfAny(BytesToRemove(i.args))
                                    \o <<Mov(CodegenVal(i.dst), Reg("AX"))>>
    BY <1>6 DEF Block
  <2> QED
    BY <1>3, <1>6, <2>1, FinishBlock
<1> QED
  BY <1>1, <1>2, <1>4, <1>5, <1>6 DEF InBlock

-----------------------------------------------------------------------------
(* From place to place *)

LEMMA PlaceTypes ==
  ASSUME NEW i \in Nat, NEW part \in Parts, NEW a \in Nat
  PROVE  /\ Place(i, part, a) \in Places
         /\ Place(i, part, a).at = i /\ Place(i, part, a).part = part
         /\ Place(i, part, a).arg = a /\ Place(i, part, a).n = 1
  BY DEF Place, Places

\* The first instruction of a block is a place.
LEMMA BlockBegins ==
  ASSUME NEW f \in IrFunctions, NEW p \in Places, InBlock(f, p), p.n = 1
  PROVE  IsPlace(f, p)
  BY BlockTypes DEF IsPlace

LEMMA FirstIsPlace ==
  ASSUME NEW f \in IrFunctions, NEW i \in 1 .. Len(f.instrs) + 1
  PROVE  /\ IsPlace(f, FirstOf(f, i))
         /\ FirstOf(f, i).at = i
         /\ FirstOf(f, i).n = 1
         /\ FirstOf(f, i).part \in {"instr", "begin", "finish", "end"}
<1> DEFINE p == FirstOf(f, i)
<1>1. Len(f.instrs) \in Nat /\ i \in Nat
  BY FunctionTypes
<1>2. PICK part \in {"instr", "begin", "finish", "end"} :
        /\ p = Place(i, part, 0)
        /\ part = "end" <=> i > Len(f.instrs)
        /\ i <= Len(f.instrs) =>
             /\ (part = "instr") = (f.instrs[i].kind # "FUNCALL")
             /\ part = "begin" => Len(f.instrs[i].args) # 0
  BY <1>1 DEF FirstOf
<1>3. p \in Places /\ p.at = i /\ p.part = part /\ p.n = 1 /\ p.arg = 0
  BY <1>1, <1>2, PlaceTypes DEF Parts
<1> HIDE DEF p
<1>4. CASE i > Len(f.instrs)
  <2>1. i = Len(f.instrs) + 1
    BY <1>1, <1>4
  <2> QED
    BY <1>2, <1>3, <1>4, <2>1 DEF IsPlace, p
<1>5. CASE i <= Len(f.instrs)
  <2>1. i \in 1 .. Len(f.instrs) /\ part # "end"
    BY <1>1, <1>2, <1>5
  <2>2. part = "begin" => Len(f.instrs[i].args) > 0
    <3>1. f.instrs[i] \in IrInstructions(Ids)
      BY <2>1, FunctionTypes
    <3>2. part = "begin" => f.instrs[i].kind = "FUNCALL" /\ Len(f.instrs[i].args) # 0
      BY <1>2, <1>5
    <3>3. part = "begin" => Len(f.instrs[i].args) \in Nat
      BY <3>1, <3>2, ArgumentsAreSequences
    <3> QED
      BY <3>2, <3>3
  <2>3. InBlock(f, p)
    BY <1>2, <1>3, <1>5, <2>1, <2>2 DEF InBlock
  <2> QED
    BY <1>3, <2>1, <2>3, BlockBegins DEF p
<1> QED
  BY <1>1, <1>4, <1>5

LEMMA AtArgIsPlace ==
  ASSUME NEW f \in IrFunctions, NEW i \in 1 .. Len(f.instrs), f.instrs[i].kind = "FUNCALL",
         NEW a \in Nat, a <= Len(f.instrs[i].args)
  PROVE  /\ IsPlace(f, AtArg(i, a))
         /\ AtArg(i, a).at = i
         /\ AtArg(i, a).part \in {"push", "finish"}
         /\ AtArg(i, a).n = 1
         /\ AtArg(i, a).part = "push" => a > 6 /\ AtArg(i, a).arg = a
<1> DEFINE p == AtArg(i, a)
<1>1. i \in Nat /\ Len(f.instrs[i].args) \in Nat
  BY FunctionTypes, ArgumentsAreSequences
<1>2. CASE a > 6
  <2>1. p = Place(i, "push", a)
    BY <1>2 DEF AtArg
  <2> HIDE DEF p
  <2>2. p \in Places /\ p.at = i /\ p.part = "push" /\ p.arg = a /\ p.n = 1
    <3>1. "push" \in Parts
      BY DEF Parts
    <3> QED
      BY <1>1, <2>1, <3>1, PlaceTypes
  <2>3. InBlock(f, p)
    BY <1>1, <1>2, <2>2 DEF InBlock
  <2> QED
    BY <1>2, <2>2, <2>3, BlockBegins DEF p
<1>3. CASE ~(a > 6)
  <2>1. p = Place(i, "finish", 0)
    BY <1>3 DEF AtArg
  <2>2. p \in Places /\ p.at = i /\ p.part = "finish" /\ p.n = 1
    BY <1>1, <2>1, PlaceTypes DEF Parts
  <2> HIDE DEF p
  <2>3. InBlock(f, p)
    BY <2>2 DEF InBlock
  <2> QED
    BY <2>2, <2>3, BlockBegins DEF p
<1> QED
  BY <1>2, <1>3

LEMMA StartIsPlace ==
  ASSUME NEW f \in IrFunctions
  PROVE  /\ IsPlace(f, Start(f))
         /\ Start(f).n = 1
         /\ Start(f).at > 0 => Start(f) = FirstOf(f, Start(f).at)
<1>1. Len(f.params) \in Nat /\ Len(f.instrs) \in Nat
  BY FunctionTypes
<1>2. CASE Len(f.params) = 0
  <2>1. Start(f) = FirstOf(f, 1) /\ 1 \in 1 .. Len(f.instrs) + 1
    BY <1>1, <1>2 DEF Start
  <2> QED
    BY <2>1, FirstIsPlace
<1>3. CASE Len(f.params) # 0
  <2> DEFINE p == Place(0, "params", 0)
  <2>1. Start(f) = p
    BY <1>3 DEF Start
  <2>2. p \in Places /\ p.at = 0 /\ p.part = "params" /\ p.n = 1
    BY PlaceTypes DEF Parts
  <2> HIDE DEF p
  <2>3. InBlock(f, p)
    BY <1>1, <1>3, <2>2 DEF InBlock
  <2> QED
    BY <2>1, <2>2, <2>3, BlockBegins
<1> QED
  BY <1>2, <1>3

\* What follows an instruction: the next of its block, or the first of the
\* block codegen_function emits next.  The code of another IR instruction is
\* entered at its beginning, and nowhere else.
LEMMA SuccessorIsPlace ==
  ASSUME NEW f \in IrFunctions, NEW p, IsPlace(f, p), p.part # "end"
  PROVE  /\ IsPlace(f, Successor(f, p))
         /\ Successor(f, p).at > 0 =>
              (Successor(f, p).at # p.at <=> Successor(f, p) = FirstOf(f, Successor(f, p).at))
<1> DEFINE q == Successor(f, p)
<1>1. p \in Places /\ InBlock(f, p) /\ p.n \in 1 .. Len(Block(f, p)) /\ Len(Block(f, p)) \in Nat
  <2>1. Place(Len(f.instrs) + 1, "end", 0).part = "end"
    BY DEF Place
  <2> QED
    BY <2>1, BlockTypes DEF IsPlace
<1>2. Len(f.instrs) \in Nat
  BY FunctionTypes
<1>3. CASE p.n < Len(Block(f, p))
  <2>1. q = [p EXCEPT !.n = @ + 1]
    BY <1>3 DEF Successor
  <2>2. /\ q \in Places /\ q.at = p.at /\ q.part = p.part /\ q.arg = p.arg
        /\ q.n = p.n + 1
    BY <1>1, <2>1 DEF Places
  <2> HIDE DEF q
  <2>3. Block(f, q) = Block(f, p) /\ InBlock(f, q)
    BY <1>1, <2>2 DEF Block, InBlock
  <2>4. IsPlace(f, q)
    BY <1>1, <1>3, <2>2, <2>3 DEF IsPlace
  <2>5. ASSUME q.at > 0
        PROVE  q # FirstOf(f, q.at)
    <3>1. q.at \in 1 .. Len(f.instrs)
      BY <1>1, <1>2, <2>2, <2>5 DEF InBlock, Places
    <3>2. q.at \in 1 .. Len(f.instrs) + 1 /\ q.n # 1
      BY <1>1, <1>2, <2>2, <3>1 DEF Places
    <3>3. FirstOf(f, q.at).n = 1
      BY <3>2, FirstIsPlace
    <3> QED
      BY <3>2, <3>3
  <2> QED
    BY <2>2, <2>4, <2>5 DEF q
<1>4. CASE ~(p.n < Len(Block(f, p)))
  <2>1. q = After(f, p)
    BY <1>4 DEF Successor
  <2> HIDE DEF q
  <2>2. CASE p.part = "params"
    <3>1. q = FirstOf(f, 1) /\ p.at = 0 /\ 1 \in 1 .. Len(f.instrs) + 1
      BY <1>1, <1>2, <2>1, <2>2 DEF After, InBlock
    <3> QED
      BY <3>1, FirstIsPlace DEF q
  <2>3. CASE p.part \in {"instr", "finish"}
    <3>1. q = FirstOf(f, p.at + 1) /\ p.at \in 1 .. Len(f.instrs)
      BY <1>1, <2>1, <2>3 DEF After, InBlock
    <3>2. p.at + 1 \in 1 .. Len(f.instrs) + 1 /\ p.at + 1 # p.at
      BY <1>2, <3>1
    <3> QED
      BY <3>1, <3>2, FirstIsPlace DEF q
  <2>4. CASE p.part \in {"begin", "push"}
    <3> DEFINE i == f.instrs[p.at]
    <3>1. /\ p.at \in 1 .. Len(f.instrs) /\ i.kind = "FUNCALL"
          /\ p.part = "begin" => Len(i.args) > 0
          /\ p.part = "push" => p.arg \in 7 .. Len(i.args)
      BY <1>1, <2>4 DEF InBlock
    <3>2. Len(i.args) \in Nat
      BY <3>1, FunctionTypes, ArgumentsAreSequences
    <3>3. PICK a \in Nat : a <= Len(i.args) /\ q = AtArg(p.at, a)
      <4>1. CASE p.part = "begin"
        BY <2>1, <3>2, <4>1 DEF After
      <4>2. CASE p.part = "push"
        <5>1. q = AtArg(p.at, p.arg - 1) /\ p.arg - 1 \in Nat /\ p.arg - 1 <= Len(i.args)
          BY <2>1, <3>1, <3>2, <4>2 DEF After
        <5> QED
          BY <5>1
      <4> QED
        BY <2>4, <4>1, <4>2
    <3>4. Len(i.args) > 0
      <4>1. CASE p.part = "begin"
        BY <3>1, <4>1
      <4>2. CASE p.part = "push"
        BY <3>1, <3>2, <4>2
      <4> QED
        BY <2>4, <4>1, <4>2
    <3>5. IsPlace(f, q) /\ q.at = p.at /\ q.part \in {"push", "finish"}
      BY <3>1, <3>3, AtArgIsPlace
    <3>6. FirstOf(f, p.at) = Place(p.at, "begin", 0)
      BY <1>2, <3>1, <3>2, <3>4 DEF FirstOf
    <3>7. Place(p.at, "begin", 0).part = "begin"
      BY DEF Place
    <3> QED
      BY <3>5, <3>6, <3>7 DEF q
  <2> QED
    BY <1>1, <2>2, <2>3, <2>4 DEF InBlock
<1> QED
  BY <1>1, <1>3, <1>4

-----------------------------------------------------------------------------
(* Lists *)

LEMMA ConcatIndex ==
  ASSUME NEW S, NEW s \in Seq(S), NEW t \in Seq(S)
  PROVE  /\ s \o t \in Seq(S) /\ Len(s) \in Nat /\ Len(t) \in Nat
         /\ Len(s \o t) = Len(s) + Len(t)
         /\ \A k \in 1 .. Len(s) : (s \o t)[k] = s[k]
         /\ \A k \in 1 .. Len(t) : (s \o t)[Len(s) + k] = t[k]
<1> DEFINE st == s \o t
           n == Len(s)
           m == Len(t)
<1>1. st \in Seq(S) /\ n \in Nat /\ m \in Nat /\ Len(st) = n + m
  BY ConcatProperties
<1>2. \A k \in 1 .. n + m : st[k] = IF k <= n THEN s[k] ELSE t[k - n]
  BY ConcatProperties
<1> HIDE DEF st, n, m
<1>3. ASSUME NEW k \in 1 .. n
      PROVE  st[k] = s[k]
  <2>1. k \in 1 .. n + m /\ k <= n
    BY <1>1
  <2> QED
    BY <1>2, <2>1
<1>4. ASSUME NEW k \in 1 .. m
      PROVE  st[n + k] = t[k]
  <2>1. n + k \in 1 .. n + m /\ ~(n + k <= n) /\ (n + k) - n = k
    BY <1>1
  <2> QED
    BY <1>2, <2>1
<1> QED
  BY <1>1, <1>3, <1>4 DEF st, n, m

\* Two walks, the second from where the first ends.
Joined(v, w, b, n, m) ==
  /\ \A k \in 1 .. n + 1 : v[k] = w[k]
  /\ \A k \in 1 .. m + 1 : v[n + k] = b[k]

LEMMA WalksJoin ==
  ASSUME NEW T, NEW n \in Nat, NEW m \in Nat, NEW w \in [1 .. n + 1 -> T], NEW b \in [1 .. m + 1 -> T],
         b[1] = w[n + 1]
  PROVE  \E v \in [1 .. n + m + 1 -> T] : Joined(v, w, b, n, m)
<1> DEFINE v == [k \in 1 .. n + m + 1 |-> IF k <= n + 1 THEN w[k] ELSE b[k - n]]
<1>1. DOMAIN v = 1 .. n + m + 1 /\ \A k \in 1 .. n + m + 1 : v[k] = IF k <= n + 1 THEN w[k] ELSE b[k - n]
  OBVIOUS
<1>2. v = [k \in 1 .. n + m + 1 |-> v[k]]
  OBVIOUS
<1> HIDE DEF v
<1>3. ASSUME NEW k \in 1 .. n + 1
      PROVE  v[k] = w[k] /\ w[k] \in T
  <2>1. k \in 1 .. n + m + 1 /\ k <= n + 1
    OBVIOUS
  <2> QED
    BY <1>1, <2>1
<1>4. ASSUME NEW k \in 1 .. m + 1
      PROVE  v[n + k] = b[k]
  <2>1. n + k \in 1 .. n + m + 1 /\ (n + k) - n = k
    OBVIOUS
  <2>2. CASE k = 1
    <3>1. n + k <= n + 1 /\ n + k = n + 1
      BY <2>2
    <3> QED
      BY <1>1, <2>1, <2>2, <3>1
  <2>3. CASE k # 1
    <3>1. ~(n + k <= n + 1)
      BY <2>3
    <3> QED
      BY <1>1, <2>1, <3>1
  <2> QED
    BY <2>2, <2>3
<1>5. ASSUME NEW k \in 1 .. n + m + 1
      PROVE  v[k] \in T
  <2>1. CASE k <= n + 1
    <3>1. k \in 1 .. n + 1
      BY <2>1
    <3> QED
      BY <1>3, <3>1
  <2>2. CASE ~(k <= n + 1)
    <3>1. k - n \in 1 .. m + 1 /\ n + (k - n) = k
      BY <2>2
    <3>2. v[n + (k - n)] = b[k - n]
      BY <1>4, <3>1
    <3> QED
      BY <3>1, <3>2
  <2> QED
    BY <2>1, <2>2
<1>6. v \in [1 .. n + m + 1 -> T]
  BY <1>2, <1>5
<1> QED
  BY <1>3, <1>4, <1>6 DEF Joined

-----------------------------------------------------------------------------
(* codegen_function: the code is laid out along the places *)

\* w walks along the places of f: at w[k] there is the k-th instruction.
Walk(f, o, n, w) ==
  /\ w \in [1 .. n + 1 -> Places]
  /\ w[1] = Start(f)
  /\ \A k \in 1 .. n : /\ IsPlace(f, w[k])
                       /\ w[k].part # "end"
                       /\ o[k] = w[k].at
                       /\ w[k + 1] = Successor(f, w[k])

\* The walk along one block.
LEMMA BlockWalk ==
  ASSUME NEW f \in IrFunctions, NEW q \in Places, InBlock(f, q), q.n = 1, After(f, q) \in Places
  PROVE  LET m == Len(Block(f, q))
             b == [k \in 1 .. m + 1 |-> IF k <= m THEN [q EXCEPT !.n = k] ELSE After(f, q)]
         IN /\ b \in [1 .. m + 1 -> Places]
            /\ b[1] = q
            /\ b[m + 1] = After(f, q)
            /\ \A k \in 1 .. m : /\ IsPlace(f, b[k])
                                 /\ b[k].part # "end"
                                 /\ b[k].at = q.at
                                 /\ Source(f, b[k]) = Block(f, q)[k]
                                 /\ b[k + 1] = Successor(f, b[k])
<1> DEFINE m == Len(Block(f, q))
           b == [k \in 1 .. m + 1 |-> IF k <= m THEN [q EXCEPT !.n = k] ELSE After(f, q)]
<1>1. m \in Nat \ {0}
  BY BlockTypes
<1> HIDE DEF m
<1>2. ASSUME NEW k \in 1 .. m
      PROVE  /\ b[k] = [q EXCEPT !.n = k]
             /\ b[k] \in Places /\ b[k].at = q.at /\ b[k].part = q.part /\ b[k].arg = q.arg /\ b[k].n = k
  <2>1. k \in 1 .. m + 1 /\ k <= m /\ k \in Nat \ {0}
    BY <1>1
  <2>2. b[k] = [q EXCEPT !.n = k]
    BY <2>1
  <2> HIDE DEF b
  <2>3. [q EXCEPT !.n = k] \in Places
    BY <2>1 DEF Places
  <2> QED
    BY <2>2, <2>3 DEF Places
<1>3. b[m + 1] = After(f, q)
  <2>1. m + 1 \in 1 .. m + 1 /\ ~(m + 1 <= m)
    BY <1>1
  <2> QED
    BY <2>1
<1>4. b[1] = q
  <2>1. 1 \in 1 .. m
    BY <1>1
  <2>2. b[1] = [q EXCEPT !.n = 1]
    BY <1>2, <2>1
  <2> HIDE DEF b
  <2> QED
    BY <2>2 DEF Places
<1>5. b \in [1 .. m + 1 -> Places]
  <2>1. b = [k \in 1 .. m + 1 |-> b[k]]
    OBVIOUS
  <2> HIDE DEF b
  <2>2. ASSUME NEW k \in 1 .. m + 1
        PROVE  b[k] \in Places
    <3>1. k \in 1 .. m \/ k = m + 1
      BY <1>1
    <3> QED
      BY <1>2, <1>3, <3>1
  <2> QED
    BY <2>1, <2>2
<1> HIDE DEF b
<1>6. ASSUME NEW k \in 1 .. m
      PROVE  /\ IsPlace(f, b[k]) /\ b[k].part # "end"
             /\ Source(f, b[k]) = Block(f, q)[k]
             /\ b[k + 1] = Successor(f, b[k])
  <2>1. Block(f, b[k]) = Block(f, q) /\ InBlock(f, b[k]) /\ After(f, b[k]) = After(f, q)
    BY <1>2 DEF Block, InBlock, After
  <2>2. IsPlace(f, b[k]) /\ b[k].part # "end"
    BY <1>2, <2>1 DEF IsPlace, m, InBlock
  <2>3. CASE k < m
    <3>1. k + 1 \in 1 .. m
      BY <1>1, <2>3
    <3>2. b[k + 1] = [q EXCEPT !.n = k + 1]
      BY <1>2, <3>1
    <3>3. b[k].n < Len(Block(f, b[k]))
      BY <1>2, <2>1, <2>3 DEF m
    <3>4. Successor(f, b[k]) = [b[k] EXCEPT !.n = k + 1]
      BY <1>2, <3>3 DEF Successor
    <3>5. b[k] = [q EXCEPT !.n = k]
      BY <1>2
    <3>6. [b[k] EXCEPT !.n = k + 1] = [q EXCEPT !.n = k + 1]
      BY <3>5 DEF Places
    <3> QED
      BY <1>2, <2>1, <2>2, <3>2, <3>4, <3>6 DEF Source
  <2>4. CASE ~(k < m)
    <3>1. k = m
      BY <1>1, <2>4
    <3>2. ~(b[k].n < Len(Block(f, b[k])))
      <4>1. Len(Block(f, b[k])) = m
        BY <2>1 DEF m
      <4>2. b[k].n = m
        BY <1>2, <3>1
      <4>3. m \in Nat
        BY <1>1
      <4> HIDE DEF b
      <4> QED
        BY <4>1, <4>2, <4>3
    <3>3. Successor(f, b[k]) = After(f, q)
      BY <2>1, <3>2 DEF Successor
    <3> QED
      BY <1>2, <1>3, <2>1, <2>2, <3>1, <3>3 DEF Source
  <2> QED
    BY <2>3, <2>4
<1> QED
  BY <1>2, <1>3, <1>4, <1>5, <1>6 DEF b, m

\* What the walk may carry: the instruction at every place, before or after
\* rename_registers has been there.
Named(m, instr) ==
  \A x \in Range(OperandFields(instr)) : instr[x].kind = "ID" => instr[x].id \in DOMAIN m.slot

AsEmitted(f, s, n, w) == \A k \in 1 .. n : s[k] = Source(f, w[k])

AsRenamed(f, s, n, w, m) ==
  \A k \in 1 .. n : s[k] = RenameOperands(m, Source(f, w[k])) /\ Named(m, Source(f, w[k]))

\* Emitting a block takes the walk from its first place to the one after it.
LEMMA EmittedBlock ==
  ASSUME NEW f \in IrFunctions, NEW s \in Seq(Instrs), NEW o \in Seq(Nat), Len(o) = Len(s),
         NEW w, Walk(f, o, Len(s), w), AsEmitted(f, s, Len(s), w),
         InBlock(f, w[Len(s) + 1]), w[Len(s) + 1].n = 1, After(f, w[Len(s) + 1]) \in Places
  PROVE  LET q == w[Len(s) + 1]
             new == Block(f, q)
             s2 == s \o new
             o2 == o \o [k \in 1 .. Len(new) |-> q.at]
         IN \E v : /\ Walk(f, o2, Len(s2), v) /\ AsEmitted(f, s2, Len(s2), v)
                   /\ v[Len(s2) + 1] = After(f, q)
<1> DEFINE n == Len(s)
           q == w[n + 1]
           new == Block(f, q)
           m == Len(new)
           each == [k \in 1 .. m |-> q.at]
           s2 == s \o new
           o2 == o \o each
           b == [k \in 1 .. m + 1 |-> IF k <= m THEN [q EXCEPT !.n = k] ELSE After(f, q)]
<1>1. n \in Nat /\ w \in [1 .. n + 1 -> Places] /\ q \in Places
  BY DEF Walk
<1>2. q.n = 1 /\ InBlock(f, q) /\ After(f, q) \in Places
  OBVIOUS
<1>3. new \in Seq(Instrs) /\ m \in Nat \ {0}
  BY <1>1, <1>2, BlockTypes
<1>4. /\ b \in [1 .. m + 1 -> Places] /\ b[1] = q /\ b[m + 1] = After(f, q)
      /\ \A k \in 1 .. m : /\ IsPlace(f, b[k])
                           /\ b[k].part # "end"
                           /\ b[k].at = q.at
                           /\ Source(f, b[k]) = new[k]
                           /\ b[k + 1] = Successor(f, b[k])
  <2> HIDE DEF q
  <2> QED
    BY <1>1, <1>2, BlockWalk
<1>5. each \in Seq(Nat) /\ Len(each) = m /\ \A k \in 1 .. m : each[k] = q.at
  <2>1. q.at \in Nat
    BY <1>1 DEF Places
  <2> HIDE DEF q, m
  <2> QED
    BY <1>3, <2>1
<1> HIDE DEF each, b, q, new
<1>6. /\ Len(s2) = n + m
      /\ \A k \in 1 .. n : s2[k] = s[k]
      /\ \A k \in 1 .. m : s2[n + k] = new[k]
  BY <1>3, ConcatIndex
<1>7. /\ \A k \in 1 .. n : o2[k] = o[k]
      /\ \A k \in 1 .. m : o2[n + k] = each[k]
  <2>1. Len(o) = n
    OBVIOUS
  <2> HIDE DEF n, m
  <2> QED
    BY <1>5, <2>1, ConcatIndex
<1> HIDE DEF s2, o2, m
<1>8. PICK v \in [1 .. n + m + 1 -> Places] : Joined(v, w, b, n, m)
  <2>1. b[1] = w[n + 1]
    BY <1>4 DEF q
  <2> HIDE DEF n
  <2> QED
    BY <1>1, <1>3, <1>4, <2>1, WalksJoin
<1>9. /\ w[1] = Start(f)
      /\ \A k \in 1 .. n : /\ IsPlace(f, w[k])
                           /\ w[k].part # "end"
                           /\ o[k] = w[k].at
                           /\ w[k + 1] = Successor(f, w[k])
                           /\ s[k] = Source(f, w[k])
  BY DEF Walk, AsEmitted
<1> HIDE DEF n
<1>10. ASSUME NEW k \in 1 .. n + m
       PROVE  /\ IsPlace(f, v[k])
              /\ v[k].part # "end"
              /\ o2[k] = v[k].at
              /\ v[k + 1] = Successor(f, v[k])
              /\ s2[k] = Source(f, v[k])
  <2>1. CASE k <= n
    <3>1. k \in 1 .. n /\ k \in 1 .. n + 1 /\ k + 1 \in 1 .. n + 1
      BY <1>1, <1>3, <2>1
    <3>2. v[k] = w[k] /\ v[k + 1] = w[k + 1]
      BY <1>8, <3>1 DEF Joined
    <3> QED
      BY <1>6, <1>7, <1>9, <3>1, <3>2
  <2>2. CASE ~(k <= n)
    <3> DEFINE j == k - n
    <3>1. j \in 1 .. m /\ j \in 1 .. m + 1 /\ j + 1 \in 1 .. m + 1 /\ k = n + j /\ k + 1 = n + (j + 1)
      BY <1>1, <1>3, <2>2
    <3> HIDE DEF j
    <3>2. v[n + j] = b[j] /\ v[n + (j + 1)] = b[j + 1]
      BY <1>8, <3>1 DEF Joined
    <3>3. s2[n + j] = new[j] /\ o2[n + j] = q.at
      BY <1>5, <1>6, <1>7, <3>1
    <3> QED
      BY <1>4, <3>1, <3>2, <3>3
  <2> QED
    BY <2>1, <2>2
<1>11. v[1] = Start(f) /\ v[n + m + 1] = After(f, q)
  <2>1. 1 \in 1 .. n + 1 /\ m + 1 \in 1 .. m + 1 /\ n + (m + 1) = n + m + 1
    BY <1>1, <1>3
  <2>2. v[1] = w[1] /\ v[n + (m + 1)] = b[m + 1]
    BY <1>8, <2>1 DEF Joined
  <2> QED
    BY <1>4, <1>9, <2>1, <2>2
<1>12. Walk(f, o2, Len(s2), v) /\ AsEmitted(f, s2, Len(s2), v) /\ v[Len(s2) + 1] = After(f, q)
  BY <1>6, <1>8, <1>10, <1>11 DEF Walk, AsEmitted
<1> QED
  BY <1>12 DEF s2, o2, each, m, new, q, n

-----------------------------------------------------------------------------
(* The invariant of the code that is being built *)

Generating == phase \in {"params", "codegen", "call"}

\* The place codegen_function has come to.
CurrentPlace ==
  CASE phase = "params" -> Start(fn)
    [] phase = "codegen" -> FirstOf(fn, pos)
    [] phase = "call" -> AtArg(pos, arg)
    [] OTHER -> Place(Len(fn.instrs) + 1, "end", 0)

\* rename_registers has been at the instructions before pos.
HalfRenamed(w) ==
  \A k \in 1 .. Len(code) :
    IF k < pos THEN code[k] = RenameOperands(opmap, Source(fn, w[k])) /\ Named(opmap, Source(fn, w[k]))
               ELSE code[k] = Source(fn, w[k])

LaidOut(w) ==
  /\ Walk(fn, from, Len(code), w)
  /\ w[Len(code) + 1] = CurrentPlace
  /\ Generating => AsEmitted(fn, code, Len(code), w)
  /\ phase = "rename" => HalfRenamed(w)
  /\ phase \in {"fixup", "done"} => AsRenamed(fn, code, Len(code), w, opmap)

LayoutInv ==
  /\ TypeInv
  /\ phase = "params" => pos = 1
  /\ phase = "codegen" => pos <= Len(fn.instrs) + 1
  /\ \E w : LaidOut(w)

\* What every step has to show.
LEMMA LayoutKept ==
  ASSUME LayoutInv, [Next]_passVars, phase' # "params",
         phase' = "codegen" => pos' <= Len(fn'.instrs) + 1,
         NEW w, LaidOut(w)'
  PROVE  LayoutInv'
  BY TypeInvStep DEF LayoutInv

\* One block is emitted at the current place.
LEMMA EmissionLaidOut ==
  ASSUME LayoutInv, [Next]_passVars, Generating, phase' \in {"codegen", "call"}, fn' = fn,
         phase' = "codegen" => pos' <= Len(fn.instrs) + 1,
         InBlock(fn, CurrentPlace), CurrentPlace.n = 1,
         Emit(Block(fn, CurrentPlace), CurrentPlace.at),
         CurrentPlace' = After(fn, CurrentPlace), After(fn, CurrentPlace) \in Places
  PROVE  LayoutInv'
<1>1. PICK w : LaidOut(w)
  BY DEF LayoutInv
<1>2. /\ fn \in IrFunctions /\ code \in Seq(Instrs) /\ from \in Seq(Nat) /\ Len(from) = Len(code)
  BY DEF LayoutInv, TypeInv, CallInv
<1>3. /\ Walk(fn, from, Len(code), w) /\ AsEmitted(fn, code, Len(code), w)
      /\ w[Len(code) + 1] = CurrentPlace
  BY <1>1 DEF LaidOut
<1> DEFINE q == CurrentPlace
           new == Block(fn, q)
           code2 == code \o new
           from2 == from \o [k \in 1 .. Len(new) |-> q.at]
<1>4. \E v : /\ Walk(fn, from2, Len(code2), v) /\ AsEmitted(fn, code2, Len(code2), v)
             /\ v[Len(code2) + 1] = After(fn, q)
  <2> HIDE DEF CurrentPlace
  <2> QED
    BY <1>2, <1>3, EmittedBlock
<1>5. code' = code2 /\ from' = from2
  BY DEF Emit
<1>6. CurrentPlace' = After(fn, q)
  OBVIOUS
<1> HIDE DEF code2, from2, q, new
<1>7. PICK v : /\ Walk(fn, from2, Len(code2), v) /\ AsEmitted(fn, code2, Len(code2), v)
               /\ v[Len(code2) + 1] = After(fn, q)
  BY <1>4
<1>8. LaidOut(v)'
  <2>1. Walk(fn, from, Len(code), v)' /\ AsEmitted(fn, code, Len(code), v)'
    BY <1>5, <1>7 DEF Walk, AsEmitted
  <2>2. v[Len(code') + 1] = CurrentPlace'
    BY <1>5, <1>6, <1>7
  <2>3. phase' \notin {"rename", "fixup", "done"}
    OBVIOUS
  <2> QED
    BY <2>1, <2>2, <2>3 DEF LaidOut
<1>9. phase' # "params" /\ (phase' = "codegen" => pos' <= Len(fn'.instrs) + 1)
  OBVIOUS
<1> QED
  BY <1>8, <1>9, LayoutKept

\* Nothing is emitted, and the current place stays.
LEMMA NothingEmitted ==
  ASSUME LayoutInv, [Next]_passVars, Generating, phase' \in {"codegen", "call"}, fn' = fn,
         phase' = "codegen" => pos' <= Len(fn.instrs) + 1,
         NEW origin, Emit(<<>>, origin), CurrentPlace' = CurrentPlace
  PROVE  LayoutInv'
<1>1. PICK w : LaidOut(w)
  BY DEF LayoutInv
<1>2. code' = code /\ from' = from
  <2>1. code \in Seq(Instrs) /\ from \in Seq(Nat)
    BY DEF LayoutInv, TypeInv
  <2>2. [k \in 1 .. Len(<<>>) |-> origin] = <<>>
    OBVIOUS
  <2>3. code' = code \o <<>> /\ from' = from \o <<>>
    BY <2>2 DEF Emit
  <2> QED
    BY <2>1, <2>3, ConcatEmptySeq
<1>3. LaidOut(w)'
  BY <1>1, <1>2 DEF LaidOut, Walk, AsEmitted, Generating
<1> QED
  BY <1>3, LayoutKept

LEMMA GenerationLaidOut ==
  ASSUME LayoutInv, SaveParams \/ GenInstr \/ CallBegin \/ CallPush \/ CallFinish
  PROVE  LayoutInv'
<1>1. /\ fn \in IrFunctions /\ pos \in Nat \ {0} /\ Len(fn.instrs) \in Nat
      /\ [Next]_passVars
  BY FunctionTypes DEF LayoutInv, TypeInv, CallInv, Next, Pass
<1>2. CASE SaveParams
  <2>1. /\ phase = "params" /\ pos = 1 /\ phase' = "codegen" /\ fn' = fn /\ pos' = pos
        /\ CurrentPlace = Start(fn) /\ CurrentPlace' = FirstOf(fn, 1)
        /\ Emit([i \in 1 .. Len(fn.params) |-> Mov(Id(fn.params[i]), ParamSource(i))], 0)
    BY <1>2 DEF SaveParams, LayoutInv, CurrentPlace
  <2>2. 1 \in 1 .. Len(fn.instrs) + 1 /\ Len(fn.params) \in Nat
    BY <1>1, FunctionTypes
  <2>3. FirstOf(fn, 1) \in Places
    BY <1>1, <2>2, FirstIsPlace DEF IsPlace
  <2>4. CASE Len(fn.params) = 0
    <3>1. Start(fn) = FirstOf(fn, 1)
      BY <2>4 DEF Start
    <3>2. [i \in 1 .. Len(fn.params) |-> Mov(Id(fn.params[i]), ParamSource(i))] = <<>>
      BY <2>4
    <3> QED
      BY <1>1, <2>1, <2>2, <3>1, <3>2, NothingEmitted DEF Generating
  <2>5. CASE Len(fn.params) # 0
    <3>1. Start(fn) = Place(0, "params", 0)
      BY <2>5 DEF Start
    <3> DEFINE q == Place(0, "params", 0)
    <3>2. q.at = 0 /\ q.part = "params" /\ q.n = 1
      BY DEF Place
    <3>3. /\ InBlock(fn, q) /\ After(fn, q) = FirstOf(fn, 1)
          /\ Block(fn, q) = [i \in 1 .. Len(fn.params) |-> Mov(Id(fn.params[i]), ParamSource(i))]
      BY <2>2, <2>5, <3>2 DEF InBlock, After, Block
    <3> HIDE DEF q
    <3>4. CurrentPlace = q
      BY <2>1, <3>1 DEF q
    <3> QED
      BY <1>1, <2>1, <2>2, <2>3, <3>2, <3>3, <3>4, EmissionLaidOut DEF Generating
  <2> QED
    BY <2>4, <2>5
<1>3. CASE GenInstr
  <2>1. /\ phase = "codegen" /\ pos <= Len(fn.instrs) /\ fn.instrs[pos].kind # "FUNCALL"
        /\ phase' = "codegen" /\ fn' = fn /\ pos' = pos + 1
        /\ CurrentPlace = FirstOf(fn, pos) /\ CurrentPlace' = FirstOf(fn, pos + 1)
        /\ Emit(CodegenInstr(fn.instrs[pos]), pos)
    BY <1>3 DEF GenInstr, AtInstr, CurrentPlace
  <2>2. pos \in 1 .. Len(fn.instrs) /\ pos + 1 \in 1 .. Len(fn.instrs) + 1 /\ ~(pos > Len(fn.instrs))
    BY <1>1, <2>1
  <2>3. FirstOf(fn, pos + 1) \in Places
    BY <1>1, <2>2, FirstIsPlace DEF IsPlace
  <2> DEFINE q == Place(pos, "instr", 0)
  <2>4. q.at = pos /\ q.part = "instr" /\ q.n = 1 /\ q.arg = 0
    BY DEF Place
  <2>5. FirstOf(fn, pos) = q
    BY <2>1, <2>2 DEF FirstOf
  <2>6. InBlock(fn, q) /\ After(fn, q) = FirstOf(fn, pos + 1) /\ Block(fn, q) = CodegenInstr(fn.instrs[pos])
    BY <2>1, <2>2, <2>4 DEF InBlock, After, Block
  <2> HIDE DEF q
  <2> QED
    BY <1>1, <2>1, <2>2, <2>3, <2>4, <2>5, <2>6, EmissionLaidOut DEF Generating
<1>4. CASE CallBegin
  <2> DEFINE args == fn.instrs[pos].args
             new == AllocIfAny(Padding(args)) \o RegisterMoves(args)
  <2>1. /\ phase = "codegen" /\ pos <= Len(fn.instrs) /\ fn.instrs[pos].kind = "FUNCALL"
        /\ phase' = "call" /\ fn' = fn /\ pos' = pos /\ arg' = Len(args)
        /\ CurrentPlace = FirstOf(fn, pos) /\ CurrentPlace' = AtArg(pos, Len(args))
        /\ Emit(new, pos)
    BY <1>4 DEF CallBegin, AtInstr, CurrentPlace
  <2>2. pos \in 1 .. Len(fn.instrs) /\ ~(pos > Len(fn.instrs)) /\ fn.instrs[pos] \in IrInstructions(Ids)
    BY <1>1, <2>1, FunctionTypes
  <2>3. Len(args) \in Nat
    BY <2>1, <2>2, ArgumentsAreSequences
  <2>4. AtArg(pos, Len(args)) \in Places
    BY <1>1, <2>1, <2>2, <2>3, AtArgIsPlace DEF IsPlace
  <2>5. CASE Len(args) = 0
    <3>1. FirstOf(fn, pos) = Place(pos, "finish", 0) /\ AtArg(pos, Len(args)) = Place(pos, "finish", 0)
      BY <2>1, <2>2, <2>5 DEF FirstOf, AtArg
    <3>2. new = <<>>
      BY <2>1, <2>2, <2>5, CallBlocks
    <3> QED
      BY <1>1, <2>1, <3>1, <3>2, NothingEmitted DEF Generating
  <2>6. CASE Len(args) # 0
    <3> DEFINE q == Place(pos, "begin", 0)
    <3>1. q.at = pos /\ q.part = "begin" /\ q.n = 1
      BY DEF Place
    <3>2. FirstOf(fn, pos) = q
      BY <2>1, <2>2, <2>6 DEF FirstOf
    <3> HIDE DEF q
    <3>3. InBlock(fn, q) /\ After(fn, q) = AtArg(pos, Len(args)) /\ Block(fn, q) = new
      <4>1. Len(args) > 0
        BY <2>3, <2>6
      <4>2. InBlock(fn, q)
        BY <2>1, <2>2, <3>1, <4>1 DEF InBlock
      <4> QED
        BY <3>1, <4>2 DEF After, Block
    <3> HIDE DEF new
    <3> QED
      BY <1>1, <2>1, <2>4, <3>1, <3>2, <3>3, EmissionLaidOut DEF Generating
  <2> QED
    BY <2>5, <2>6
<1>5. ASSUME phase = "call"
      PROVE  /\ pos \in 1 .. Len(fn.instrs) /\ fn.instrs[pos].kind = "FUNCALL"
             /\ fn.instrs[pos] \in IrInstructions(Ids)
             /\ arg \in Nat /\ arg <= Len(fn.instrs[pos].args) /\ Len(fn.instrs[pos].args) \in Nat
             /\ CurrentPlace = AtArg(pos, arg)
  <2>1. /\ pos \in 1 .. Len(fn.instrs) /\ fn.instrs[pos].kind = "FUNCALL"
        /\ arg \in Nat /\ arg <= Len(fn.instrs[pos].args)
    BY <1>1, <1>5 DEF LayoutInv, TypeInv, CallInv
  <2>2. fn.instrs[pos] \in IrInstructions(Ids)
    BY <1>1, <2>1, FunctionTypes
  <2>3. Len(fn.instrs[pos].args) \in Nat
    BY <2>1, <2>2, ArgumentsAreSequences
  <2> QED
    BY <1>5, <2>1, <2>2, <2>3 DEF CurrentPlace
<1>6. CASE CallPush
  <2>1. /\ phase = "call" /\ arg > 6 /\ phase' = "call" /\ fn' = fn /\ pos' = pos /\ arg' = arg - 1
        /\ Emit(PushArg(fn.instrs[pos].args[arg]), pos)
    BY <1>6, SixArgRegisters DEF CallPush
  <2>2. CurrentPlace' = AtArg(pos, arg - 1) /\ arg - 1 \in Nat /\ arg - 1 <= Len(fn.instrs[pos].args)
    <3>1. CurrentPlace' = AtArg(pos, arg - 1)
      BY <2>1 DEF CurrentPlace
    <3> QED
      BY <1>5, <2>1, <3>1
  <2>3. AtArg(pos, arg - 1) \in Places
    BY <1>1, <1>5, <2>1, <2>2, AtArgIsPlace DEF IsPlace
  <2> DEFINE q == Place(pos, "push", arg)
  <2>4. q.at = pos /\ q.part = "push" /\ q.n = 1 /\ q.arg = arg
    BY DEF Place
  <2>5. CurrentPlace = q
    BY <1>5, <2>1 DEF AtArg
  <2>6. arg \in 7 .. Len(fn.instrs[pos].args)
    BY <1>5, <2>1
  <2>7. InBlock(fn, q) /\ After(fn, q) = AtArg(pos, arg - 1) /\ Block(fn, q) = PushArg(fn.instrs[pos].args[arg])
    BY <1>5, <2>1, <2>4, <2>6 DEF InBlock, After, Block
  <2> HIDE DEF q
  <2> QED
    BY <1>1, <2>1, <2>2, <2>3, <2>4, <2>5, <2>7, EmissionLaidOut DEF Generating
<1>7. CASE CallFinish
  <2> DEFINE i == fn.instrs[pos]
             new == <<Call(i.f)>> \o DeallocateIfAny(BytesToRemove(i.args)) \o <<Mov(CodegenVal(i.dst), Reg("AX"))>>
  <2>1. /\ phase = "call" /\ arg <= 6 /\ phase' = "codegen" /\ fn' = fn /\ pos' = pos + 1
        /\ Emit(new, pos)
    BY <1>7, SixArgRegisters DEF CallFinish
  <2>2. CurrentPlace' = FirstOf(fn, pos + 1) /\ pos + 1 \in 1 .. Len(fn.instrs) + 1
    <3>1. CurrentPlace' = FirstOf(fn, pos + 1)
      BY <2>1 DEF CurrentPlace
    <3> QED
      BY <1>1, <1>5, <2>1, <3>1
  <2>3. FirstOf(fn, pos + 1) \in Places
    BY <1>1, <2>2, FirstIsPlace DEF IsPlace
  <2> DEFINE q == Place(pos, "finish", 0)
  <2>4. q.at = pos /\ q.part = "finish" /\ q.n = 1
    BY DEF Place
  <2>5. CurrentPlace = q
    <3>1. ~(arg > 6)
      BY <1>5, <2>1
    <3> QED
      BY <1>5, <2>1, <3>1 DEF AtArg
  <2>6. InBlock(fn, q) /\ After(fn, q) = FirstOf(fn, pos + 1) /\ Block(fn, q) = new
    BY <1>5, <2>1, <2>4 DEF InBlock, After, Block
  <2> HIDE DEF q, new
  <2>7. pos' <= Len(fn.instrs) + 1
    BY <1>1, <1>5, <2>1
  <2> QED
    BY <1>1, <2>1, <2>2, <2>3, <2>4, <2>5, <2>6, <2>7, EmissionLaidOut DEF Generating
<1> QED
  BY <1>2, <1>3, <1>4, <1>6, <1>7

-----------------------------------------------------------------------------
(* rename_registers and allocate_stack: every instruction keeps its place *)

\* Both operands of an instruction get their slots before it is rewritten.
LEMMA PutNames ==
  ASSUME NEW m, MapInv(m), NEW instr
  PROVE  Named(PutOperands(m, instr), instr)
<1> DEFINE fields == OperandFields(instr)
<1>1. fields \in {<<>>, <<"operand">>, <<"op">>, <<"dst", "src">>, <<"rhs", "dst">>, <<"lhs", "rhs">>}
  BY DEF OperandFields
<1>2. Len(fields) \in {0, 1, 2} /\ Range(fields) = {fields[k] : k \in 1 .. Len(fields)}
  BY <1>1 DEF Range
<1> HIDE DEF fields
<1>3. CASE Len(fields) = 0
  <2>1. Range(fields) = {}
    BY <1>2, <1>3
  <2> QED
    BY <2>1 DEF Named, fields
<1>4. CASE Len(fields) = 1
  <2>1. Range(fields) = {fields[1]}
    BY <1>2, <1>4
  <2>2. PutOperands(m, instr) = Put(m, instr[fields[1]])
    BY <1>4 DEF PutOperands, fields
  <2>3. instr[fields[1]].kind = "ID" => instr[fields[1]].id \in DOMAIN PutOperands(m, instr).slot
    BY <2>2, PutBinds
  <2> QED
    BY <2>1, <2>3 DEF Named, fields
<1>5. CASE Len(fields) = 2
  <2>1. Range(fields) = {fields[1], fields[2]}
    BY <1>2, <1>5
  <2> DEFINE n == Put(m, instr[fields[1]])
  <2>2. PutOperands(m, instr) = Put(n, instr[fields[2]])
    BY <1>5 DEF PutOperands, fields
  <2>3. instr[fields[1]].kind = "ID" => instr[fields[1]].id \in DOMAIN n.slot
    BY PutBinds
  <2>4. MapInv(n)
    BY PutPreserves
  <2> HIDE DEF n
  <2>5. Extends(n, PutOperands(m, instr))
    BY <2>2, <2>4, PutPreserves
  <2>6. instr[fields[2]].kind = "ID" => instr[fields[2]].id \in DOMAIN PutOperands(m, instr).slot
    BY <2>2, <2>4, PutBinds
  <2> QED
    BY <2>1, <2>3, <2>5, <2>6 DEF Named, Extends, fields
<1> QED
  BY <1>2, <1>3, <1>4, <1>5

\* What has its slots keeps them.
LEMMA RenamedStays ==
  ASSUME NEW m, NEW n, Extends(m, n), NEW instr, Named(m, instr)
  PROVE  RenameOperands(n, instr) = RenameOperands(m, instr) /\ Named(n, instr)
<1>1. ASSUME NEW x \in Range(OperandFields(instr))
      PROVE  Renamed(n, instr[x]) = Renamed(m, instr[x])
  BY DEF Named, Extends, Renamed
<1> QED
  BY <1>1 DEF RenameOperands, Named, Extends

LEMMA RenamingLaidOut ==
  ASSUME LayoutInv, RenameInstr
  PROVE  LayoutInv'
<1>1. PICK w : LaidOut(w)
  BY DEF LayoutInv
<1>2. /\ phase = "rename" /\ phase' = "rename" /\ pos \in 1 .. Len(code) /\ pos' = pos + 1
      /\ fn' = fn /\ from' = from /\ opmap' = PutOperands(opmap, code[pos])
      /\ code' = [code EXCEPT ![pos] = RenameOperands(opmap', code[pos])]
      /\ MapInv(opmap) /\ code \in Seq(Instrs) /\ pos \in Nat
      /\ [Next]_passVars
  BY DEF RenameInstr, LayoutInv, TypeInv, CallInv, Next, Pass
<1>3. Extends(opmap, opmap') /\ Named(opmap', code[pos])
  BY <1>2, PutOperandsPreserves, PutNames
<1>4. /\ Len(code') = Len(code)
      /\ code'[pos] = RenameOperands(opmap', code[pos])
      /\ \A k \in 1 .. Len(code) : k # pos => code'[k] = code[k]
  BY <1>2, ExceptSeq
<1>5. HalfRenamed(w)
  BY <1>1, <1>2 DEF LaidOut
<1>6. ASSUME NEW k \in 1 .. Len(code)
      PROVE  IF k < pos + 1
               THEN code'[k] = RenameOperands(opmap', Source(fn, w[k])) /\ Named(opmap', Source(fn, w[k]))
               ELSE code'[k] = Source(fn, w[k])
  <2>1. CASE k < pos
    <3>1. code[k] = RenameOperands(opmap, Source(fn, w[k])) /\ Named(opmap, Source(fn, w[k]))
      BY <1>5, <2>1 DEF HalfRenamed
    <3>2. /\ RenameOperands(opmap', Source(fn, w[k])) = RenameOperands(opmap, Source(fn, w[k]))
          /\ Named(opmap', Source(fn, w[k]))
      BY <1>3, <3>1, RenamedStays
    <3>3. k < pos + 1 /\ k # pos
      BY <1>2, <2>1
    <3> QED
      BY <1>4, <3>1, <3>2, <3>3
  <2>2. CASE k = pos
    <3>1. code[k] = Source(fn, w[k])
      BY <1>2, <1>5, <2>2 DEF HalfRenamed
    <3> QED
      BY <1>2, <1>3, <1>4, <2>2, <3>1
  <2>3. CASE ~(k < pos) /\ k # pos
    <3>1. code[k] = Source(fn, w[k]) /\ ~(k < pos + 1)
      BY <1>2, <1>5, <2>3 DEF HalfRenamed
    <3> QED
      BY <1>4, <2>3, <3>1
  <2> QED
    BY <2>1, <2>2, <2>3
<1>7. HalfRenamed(w)'
  BY <1>2, <1>4, <1>6 DEF HalfRenamed
<1>8. Walk(fn, from, Len(code), w)' /\ w[Len(code') + 1] = CurrentPlace'
  <2>1. Walk(fn, from, Len(code), w) /\ w[Len(code) + 1] = CurrentPlace
    BY <1>1 DEF LaidOut
  <2>2. CurrentPlace' = CurrentPlace
    BY <1>2 DEF CurrentPlace
  <2> QED
    BY <1>2, <1>4, <2>1, <2>2 DEF Walk
<1>9. LaidOut(w)'
  BY <1>2, <1>7, <1>8 DEF LaidOut, Generating
<1> QED
  BY <1>2, <1>9, LayoutKept

LEMMA LayoutInvStep ==
  ASSUME LayoutInv, [Next]_passVars
  PROVE  LayoutInv'
<1>1. PICK w : LaidOut(w)
  BY DEF LayoutInv
<1>2. CASE SaveParams \/ GenInstr \/ CallBegin \/ CallPush \/ CallFinish
  BY <1>2, GenerationLaidOut
<1>3. CASE RenameInstr
  BY <1>3, RenamingLaidOut
<1>4. CASE EndCodegen
  <2>1. /\ phase = "codegen" /\ phase' = "rename" /\ pos > Len(fn.instrs) /\ pos' = 1
        /\ UNCHANGED <<fn, code, from, opmap>>
    BY <1>4 DEF EndCodegen
  <2>2. Len(fn.instrs) \in Nat /\ code \in Seq(Instrs)
    BY FunctionTypes DEF LayoutInv, TypeInv, CallInv
  <2>3. pos = Len(fn.instrs) + 1
    BY <2>1, <2>2 DEF LayoutInv, TypeInv, CallInv
  <2>4. CurrentPlace' = CurrentPlace
    BY <2>1, <2>3 DEF CurrentPlace, FirstOf
  <2>5. HalfRenamed(w)'
    BY <1>1, <2>1 DEF LaidOut, Generating, AsEmitted, HalfRenamed
  <2>6. LaidOut(w)'
    BY <1>1, <2>1, <2>4, <2>5 DEF LaidOut, Walk, Generating
  <2> QED
    BY <2>1, <2>6, LayoutKept
<1>5. CASE EndRename
  <2>1. /\ phase = "rename" /\ phase' = "fixup" /\ pos > Len(code)
        /\ UNCHANGED <<fn, code, from, opmap>>
    BY <1>5 DEF EndRename
  <2>2. CurrentPlace' = CurrentPlace
    BY <2>1 DEF CurrentPlace
  <2>3. Len(code) \in Nat /\ pos \in Nat
    BY DEF LayoutInv, TypeInv, CallInv
  <2>4. \A k \in 1 .. Len(code) : k < pos
    BY <2>1, <2>3
  <2>5. AsRenamed(fn, code, Len(code), w, opmap)'
    BY <1>1, <2>1, <2>4 DEF LaidOut, HalfRenamed, AsRenamed
  <2>6. LaidOut(w)'
    BY <1>1, <2>1, <2>2, <2>5 DEF LaidOut, Walk, Generating
  <2> QED
    BY <2>1, <2>6, LayoutKept
<1>6. CASE FixInstr \/ InsertFrame
  <2>1. /\ phase = "fixup" /\ phase' \in {"fixup", "done"} /\ UNCHANGED <<fn, code, from, opmap>>
    BY <1>6 DEF FixInstr, InsertFrame
  <2>2. CurrentPlace' = CurrentPlace
    BY <2>1 DEF CurrentPlace
  <2>3. LaidOut(w)'
    BY <1>1, <2>1, <2>2 DEF LaidOut, Walk, Generating, AsRenamed
  <2> QED
    BY <2>1, <2>3, LayoutKept
<1>7. CASE UNCHANGED passVars
  <2>1. /\ UNCHANGED <<fn, phase, pos, arg, code, opmap, from>>
    BY <1>7 DEF passVars
  <2>2. CurrentPlace' = CurrentPlace
    BY <2>1 DEF CurrentPlace
  <2>3. LaidOut(w)'
    BY <1>1, <2>1, <2>2 DEF LaidOut, Walk, Generating, AsRenamed, HalfRenamed, AsEmitted
  <2>4. TypeInv'
    BY TypeInvStep DEF LayoutInv
  <2> QED
    BY <2>1, <2>3, <2>4 DEF LayoutInv
<1> QED
  BY <1>2, <1>3, <1>4, <1>5, <1>6, <1>7 DEF Next, Pass, Compiled

LEMMA LayoutInvInit ==
  ASSUME Init
  PROVE  LayoutInv
<1>1. TypeInv
  <2>1. CallInv
    BY DEF Init, CallInv
  <2>2. MapInv(opmap)
    BY CapacityAssumption DEF Init, MapInv, EmptyMap
  <2> QED
    BY <2>1, <2>2 DEF Init, TypeInv
<1> DEFINE w == [k \in 1 .. 1 |-> Start(fn)]
<1>2. code = <<>> /\ from = <<>> /\ phase = "params" /\ pos = 1 /\ Len(code) = 0
  BY DEF Init
<1>3. Start(fn) \in Places
  BY <1>1, StartIsPlace DEF IsPlace, TypeInv, CallInv
<1>4. w \in [1 .. 0 + 1 -> Places] /\ w[1] = Start(fn) /\ w[0 + 1] = Start(fn)
  BY <1>3
<1> HIDE DEF w
<1>5. CurrentPlace = Start(fn)
  BY <1>2 DEF CurrentPlace
<1>6. Walk(fn, from, Len(code), w) /\ AsEmitted(fn, code, Len(code), w)
  BY <1>2, <1>4 DEF Walk, AsEmitted
<1>7. LaidOut(w)
  BY <1>2, <1>4, <1>5, <1>6 DEF LaidOut
<1> QED
  BY <1>1, <1>2, <1>7 DEF LayoutInv

-----------------------------------------------------------------------------
(* The list allocate_stack builds *)

\* A cell of the list: the o-th instruction that stands for element c of code;
\* 0 is the frame.
Cells == [c : Nat, o : Nat \ {0}]
Item(c) == IF c = 0 THEN AllocIfAny(Frame(opmap.stack_offset)) ELSE Fix(code[c])
ItemFrom(c) == IF c = 0 THEN 0 ELSE from[c]
NextCell(x) == IF x.o < Len(Item(x.c)) THEN [x EXCEPT !.o = @ + 1] ELSE [c |-> x.c + 1, o |-> 1]

\* s is the instructions of consecutive cells.
Segment(g, s, so) ==
  /\ g \in [1 .. Len(s) + 1 -> Cells]
  /\ \A j \in 1 .. Len(s) : /\ g[j].c <= Len(code)
                            /\ g[j].o <= Len(Item(g[j].c))
                            /\ s[j] = Item(g[j].c)[g[j].o]
                            /\ so[j] = ItemFrom(g[j].c)
                            /\ g[j + 1] = NextCell(g[j])

\* Where the list begins: with the frame, once there is one.
FirstCell == [c |-> IF phase = "done" /\ Frame(opmap.stack_offset) # 0 THEN 0 ELSE 1, o |-> 1]

Listed(g) ==
  /\ Segment(g, fixed, fixedFrom)
  /\ g[1] = FirstCell
  /\ g[Len(fixed) + 1] = [c |-> pos, o |-> 1]

ListingInv ==
  /\ TypeInv
  /\ Len(fixedFrom) = Len(fixed)
  /\ phase \notin {"fixup", "done"} => fixed = <<>>
  /\ phase \in {"fixup", "done"} => pos <= Len(code) + 1 /\ \E g : Listed(g)
  /\ phase = "done" => pos = Len(code) + 1

LEMMA SegmentsJoin ==
  ASSUME NEW s \in Seq(Instrs), NEW t \in Seq(Instrs), NEW so \in Seq(Nat), NEW to \in Seq(Nat),
         Len(so) = Len(s), Len(to) = Len(t),
         NEW g, NEW h, Segment(g, s, so), Segment(h, t, to), h[1] = g[Len(s) + 1]
  PROVE  /\ Len(s \o t) = Len(so \o to)
         /\ \E v : /\ Segment(v, s \o t, so \o to)
                   /\ v[1] = g[1]
                   /\ v[Len(s \o t) + 1] = h[Len(t) + 1]
<1> DEFINE n == Len(s)
           m == Len(t)
           st == s \o t
           sto == so \o to
<1>1. /\ n \in Nat /\ m \in Nat
      /\ g \in [1 .. n + 1 -> Cells] /\ h \in [1 .. m + 1 -> Cells]
  BY DEF Segment
<1>2. /\ Len(st) = n + m
      /\ \A k \in 1 .. n : st[k] = s[k]
      /\ \A k \in 1 .. m : st[n + k] = t[k]
  BY ConcatIndex
<1>3. /\ Len(sto) = n + m
      /\ \A k \in 1 .. n : sto[k] = so[k]
      /\ \A k \in 1 .. m : sto[n + k] = to[k]
  <2>1. Len(so) = n /\ Len(to) = m
    OBVIOUS
  <2>2. /\ Len(sto) = Len(so) + Len(to)
        /\ \A k \in 1 .. Len(so) : sto[k] = so[k]
        /\ \A k \in 1 .. Len(to) : sto[Len(so) + k] = to[k]
    <3>1. so \in Seq(Nat) /\ to \in Seq(Nat)
      OBVIOUS
    <3> HIDE DEF n, m
    <3> QED
      BY ONLY <3>1, ConcatIndex
  <2> HIDE DEF n, m, sto
  <2> QED
    BY <2>1, <2>2
<1>4. PICK v \in [1 .. n + m + 1 -> Cells] : Joined(v, g, h, n, m)
  <2>1. h[1] = g[n + 1]
    OBVIOUS
  <2> HIDE DEF n, m
  <2> QED
    BY <1>1, <2>1, WalksJoin
<1> HIDE DEF st, sto
<1>5. /\ \A j \in 1 .. n : /\ g[j].c <= Len(code) /\ g[j].o <= Len(Item(g[j].c))
                           /\ s[j] = Item(g[j].c)[g[j].o] /\ so[j] = ItemFrom(g[j].c)
                           /\ g[j + 1] = NextCell(g[j])
      /\ \A j \in 1 .. m : /\ h[j].c <= Len(code) /\ h[j].o <= Len(Item(h[j].c))
                           /\ t[j] = Item(h[j].c)[h[j].o] /\ to[j] = ItemFrom(h[j].c)
                           /\ h[j + 1] = NextCell(h[j])
  BY DEF Segment
<1> HIDE DEF n, m
<1>6. ASSUME NEW k \in 1 .. n + m
      PROVE  /\ v[k].c <= Len(code) /\ v[k].o <= Len(Item(v[k].c))
             /\ st[k] = Item(v[k].c)[v[k].o] /\ sto[k] = ItemFrom(v[k].c)
             /\ v[k + 1] = NextCell(v[k])
  <2>1. CASE k <= n
    <3>1. k \in 1 .. n /\ k \in 1 .. n + 1 /\ k + 1 \in 1 .. n + 1
      BY <1>1, <2>1
    <3>2. v[k] = g[k] /\ v[k + 1] = g[k + 1]
      BY <1>4, <3>1 DEF Joined
    <3> QED
      BY <1>2, <1>3, <1>5, <3>1, <3>2
  <2>2. CASE ~(k <= n)
    <3> DEFINE j == k - n
    <3>1. j \in 1 .. m /\ j \in 1 .. m + 1 /\ j + 1 \in 1 .. m + 1 /\ k = n + j /\ k + 1 = n + (j + 1)
      BY <1>1, <2>2
    <3> HIDE DEF j
    <3>2. v[n + j] = h[j] /\ v[n + (j + 1)] = h[j + 1]
      BY <1>4, <3>1 DEF Joined
    <3>3. st[n + j] = t[j] /\ sto[n + j] = to[j]
      BY <1>2, <1>3, <3>1
    <3> QED
      BY <1>5, <3>1, <3>2, <3>3
  <2> QED
    BY <2>1, <2>2
<1>7. v[1] = g[1] /\ v[n + m + 1] = h[m + 1]
  <2>1. 1 \in 1 .. n + 1 /\ m + 1 \in 1 .. m + 1 /\ n + (m + 1) = n + m + 1
    BY <1>1
  <2>2. v[1] = g[1] /\ v[n + (m + 1)] = h[m + 1]
    BY <1>4, <2>1 DEF Joined
  <2> QED
    BY <2>1, <2>2
<1>8. Segment(v, st, sto)
  BY <1>2, <1>4, <1>6 DEF Segment
<1> QED
  BY <1>2, <1>3, <1>7, <1>8 DEF st, sto, n, m

\* The instructions of one element.
LEMMA ItemSegment ==
  ASSUME NEW c \in Nat, c <= Len(code), Item(c) \in Seq(Instrs), Len(Item(c)) > 0
  PROVE  \E b : /\ Segment(b, Item(c), Each(Item(c), ItemFrom(c)))
                /\ b[1] = [c |-> c, o |-> 1]
                /\ b[Len(Item(c)) + 1] = [c |-> c + 1, o |-> 1]
<1> DEFINE s == Item(c)
           m == Len(s)
           so == Each(s, ItemFrom(c))
           b == [k \in 1 .. m + 1 |-> IF k <= m THEN [c |-> c, o |-> k] ELSE [c |-> c + 1, o |-> 1]]
<1>1. m \in Nat /\ m > 0 /\ \A k \in 1 .. m : so[k] = ItemFrom(c)
  BY DEF Each
<1> HIDE DEF so
<1>2. DOMAIN b = 1 .. m + 1 /\ \A k \in 1 .. m + 1 :
        b[k] = IF k <= m THEN [c |-> c, o |-> k] ELSE [c |-> c + 1, o |-> 1]
  OBVIOUS
<1>8. b = [k \in 1 .. m + 1 |-> b[k]]
  OBVIOUS
<1> HIDE DEF b, m
<1>9. b[m + 1] = [c |-> c + 1, o |-> 1]
  <2>1. m + 1 \in 1 .. m + 1 /\ ~(m + 1 <= m)
    BY <1>1
  <2> QED
    BY <1>2, <2>1
<1>10. ASSUME NEW k \in 1 .. m
       PROVE  b[k] = [c |-> c, o |-> k] /\ k <= m /\ k \in Nat \ {0}
  <2>1. k \in 1 .. m + 1 /\ k <= m /\ k \in Nat \ {0}
    BY <1>1
  <2> QED
    BY <1>2, <2>1
<1>3. ASSUME NEW k \in 1 .. m + 1
      PROVE  b[k] \in Cells
  <2>1. CASE k = m + 1
    BY <1>9, <2>1 DEF Cells
  <2>2. CASE k # m + 1
    <3>1. k \in 1 .. m
      BY <1>1, <2>2
    <3>2. b[k] = [c |-> c, o |-> k] /\ k \in Nat \ {0}
      BY <1>10, <3>1
    <3> QED
      BY <3>2 DEF Cells
  <2> QED
    BY <2>1, <2>2
<1>4. b \in [1 .. m + 1 -> Cells]
  BY <1>3, <1>8
<1>5. ASSUME NEW k \in 1 .. m
      PROVE  /\ b[k].c = c /\ b[k].o = k /\ k <= m
             /\ b[k + 1] = NextCell(b[k])
  <2>1. b[k] = [c |-> c, o |-> k] /\ k <= m
    BY <1>10
  <2>2. NextCell(b[k]) = IF k < m THEN [c |-> c, o |-> k + 1] ELSE [c |-> c + 1, o |-> 1]
    BY <2>1 DEF NextCell, m
  <2>3. CASE k < m
    <3>1. k + 1 \in 1 .. m
      BY <1>1, <2>3
    <3> QED
      BY <1>10, <2>1, <2>2, <2>3, <3>1
  <2>4. CASE ~(k < m)
    <3>1. k = m
      BY <1>1, <2>4
    <3> QED
      BY <1>9, <2>1, <2>2, <2>4, <3>1
  <2> QED
    BY <2>3, <2>4
<1>6. Segment(b, s, so)
  BY <1>1, <1>4, <1>5 DEF Segment, m
<1>7. 1 \in 1 .. m
  BY <1>1
<1> QED
  BY <1>6, <1>7, <1>9, <1>10 DEF so, m

\* The cells stay what they are while allocate_stack runs.
LEMMA SegmentStays ==
  ASSUME UNCHANGED <<code, from, opmap>>, NEW g, Segment(g, fixed', fixedFrom')
  PROVE  Segment(g, fixed, fixedFrom)'
  BY DEF Segment, Item, ItemFrom, NextCell

LEMMA FixListed ==
  ASSUME ListingInv, FixInstr
  PROVE  ListingInv'
<1>1. /\ TypeInv /\ TypeInv'
      /\ phase = "fixup" /\ phase' = "fixup" /\ pos \in 1 .. Len(code) /\ pos' = pos + 1
      /\ UNCHANGED <<code, from, opmap>>
      /\ fixed' = fixed \o Fix(code[pos])
      /\ fixedFrom' = fixedFrom \o Each(Fix(code[pos]), from[pos])
      /\ Len(fixedFrom) = Len(fixed)
      /\ Len(code) \in Nat
  BY TypeInvStep DEF ListingInv, FixInstr, TypeInv, CallInv, Next, Pass, Each
<1>2. PICK g : Listed(g)
  BY <1>1 DEF ListingInv
<1> DEFINE new == Fix(code[pos])
           each == Each(new, from[pos])
<1>3. new \in Seq(Instrs) /\ Len(new) > 0 /\ from[pos] \in Nat
  <2>1. code \in Seq(Instrs) /\ from \in Seq(Nat) /\ Len(from) = Len(code)
    BY <1>1 DEF TypeInv
  <2>2. code[pos] \in Instrs /\ from[pos] \in Nat
    BY <1>1, <2>1
  <2> QED
    BY <2>2, FixTypes, FixKeeps
<1>4. Item(pos) = new /\ ItemFrom(pos) = from[pos] /\ pos \in Nat /\ pos <= Len(code)
  BY <1>1 DEF Item, ItemFrom
<1>5. each \in Seq(Nat) /\ Len(each) = Len(new)
  BY <1>3, EachTypes
<1> HIDE DEF new
<1>6. PICK b : /\ Segment(b, new, each)
               /\ b[1] = [c |-> pos, o |-> 1]
               /\ b[Len(new) + 1] = [c |-> pos + 1, o |-> 1]
  BY <1>3, <1>4, ItemSegment
<1> HIDE DEF each
<1>7. /\ Segment(g, fixed, fixedFrom) /\ g[1] = FirstCell /\ b[1] = g[Len(fixed) + 1]
      /\ Len(fixedFrom) = Len(fixed) /\ fixed \in Seq(Instrs) /\ fixedFrom \in Seq(Nat)
  BY <1>1, <1>2, <1>6 DEF Listed, TypeInv
<1>8. /\ Len(fixed \o new) = Len(fixedFrom \o each)
      /\ \E v : /\ Segment(v, fixed \o new, fixedFrom \o each)
                /\ v[1] = g[1]
                /\ v[Len(fixed \o new) + 1] = b[Len(new) + 1]
  BY <1>3, <1>5, <1>6, <1>7, SegmentsJoin
<1>9. fixed' = fixed \o new /\ fixedFrom' = fixedFrom \o each
  BY <1>1 DEF new, each
<1>10. PICK v : Segment(v, fixed', fixedFrom') /\ v[1] = g[1] /\ v[Len(fixed') + 1] = [c |-> pos', o |-> 1]
  BY <1>1, <1>6, <1>8, <1>9
<1>11. Segment(v, fixed, fixedFrom)'
  BY <1>1, <1>10, SegmentStays
<1>12. FirstCell' = FirstCell
  BY <1>1 DEF FirstCell
<1>13. Listed(v)'
  BY <1>7, <1>10, <1>11, <1>12 DEF Listed
<1>14. Len(fixedFrom') = Len(fixed') /\ pos' <= Len(code') + 1
  BY <1>1, <1>8, <1>9
<1> QED
  BY <1>1, <1>13, <1>14 DEF ListingInv

LEMMA FrameListed ==
  ASSUME ListingInv, InsertFrame
  PROVE  ListingInv'
<1> DEFINE frame == Frame(opmap.stack_offset)
           new == AllocIfAny(frame)
           each == Each(new, 0)
<1>1. /\ TypeInv /\ TypeInv'
      /\ phase = "fixup" /\ phase' = "done" /\ pos > Len(code) /\ pos' = pos
      /\ UNCHANGED <<code, from, opmap>>
      /\ fixed' = new \o fixed /\ fixedFrom' = each \o fixedFrom
      /\ Len(fixedFrom) = Len(fixed) /\ Len(code) \in Nat /\ pos \in Nat /\ pos <= Len(code) + 1
  BY TypeInvStep DEF ListingInv, InsertFrame, TypeInv, CallInv, Next, Pass, Each
<1>2. PICK g : Listed(g)
  BY <1>1 DEF ListingInv
<1>3. /\ Segment(g, fixed, fixedFrom) /\ g[1] = [c |-> 1, o |-> 1]
      /\ g[Len(fixed) + 1] = [c |-> pos, o |-> 1]
      /\ Len(fixedFrom) = Len(fixed) /\ fixed \in Seq(Instrs) /\ fixedFrom \in Seq(Nat)
  BY <1>1, <1>2 DEF Listed, FirstCell, TypeInv
<1>4. frame \in Nat
  BY <1>1, FrameRounds DEF TypeInv, MapInv
<1>5. FirstCell' = [c |-> IF frame # 0 THEN 0 ELSE 1, o |-> 1]
  BY <1>1 DEF FirstCell
<1>6. pos' = Len(code') + 1 /\ pos' <= Len(code') + 1
  BY <1>1
<1>7. CASE frame = 0
  <2>1. new = <<>> /\ each = <<>>
    BY <1>7 DEF AllocIfAny, Each
  <2>2. fixed' = fixed /\ fixedFrom' = fixedFrom
    BY <1>1, <1>3, <2>1, ConcatEmptySeq
  <2>3. Segment(g, fixed, fixedFrom)'
    BY <1>1, <1>3, <2>2, SegmentStays
  <2>4. Listed(g)'
    BY <1>1, <1>3, <1>5, <1>7, <2>2, <2>3 DEF Listed
  <2> QED
    BY <1>1, <1>6, <2>2, <2>4 DEF ListingInv
<1>8. CASE frame # 0
  <2>1. new = <<Alloc(frame)>> /\ Item(0) = new /\ ItemFrom(0) = 0
    BY <1>8 DEF AllocIfAny, Item, ItemFrom
  <2>2. new \in Seq(Instrs) /\ Len(new) = 1
    <3> HIDE DEF frame
    <3>1. Alloc(frame) \in Instrs
      BY <1>4, NoOperandTypes
    <3>2. new = <<Alloc(frame)>>
      BY <2>1
    <3> HIDE DEF new
    <3> QED
      BY <3>1, <3>2
  <2>3. each \in Seq(Nat) /\ Len(each) = Len(new)
    BY <2>2, EachTypes
  <2> HIDE DEF new, frame
  <2>4. PICK b : /\ Segment(b, new, each)
                 /\ b[1] = [c |-> 0, o |-> 1]
                 /\ b[Len(new) + 1] = [c |-> 0 + 1, o |-> 1]
    <3>1. 0 \in Nat /\ 0 <= Len(code) /\ Item(0) \in Seq(Instrs) /\ Len(Item(0)) > 0
      <4>1. 0 <= Len(code)
        BY <1>1
      <4>2. Item(0) = new
        BY <2>1
      <4>3. Item(0) \in Seq(Instrs) /\ Len(Item(0)) = 1
        BY <2>2, <4>2
      <4> QED
        BY <4>1, <4>3
    <3> QED
      BY <2>1, <3>1, ItemSegment
  <2> HIDE DEF each
  <2>5. g[1] = b[Len(new) + 1]
    BY <1>3, <2>4
  <2>6. /\ Len(new \o fixed) = Len(each \o fixedFrom)
        /\ \E v : /\ Segment(v, new \o fixed, each \o fixedFrom)
                  /\ v[1] = b[1]
                  /\ v[Len(new \o fixed) + 1] = g[Len(fixed) + 1]
    <3>1. /\ fixed \in Seq(Instrs) /\ fixedFrom \in Seq(Nat) /\ Len(fixedFrom) = Len(fixed)
          /\ new \in Seq(Instrs) /\ each \in Seq(Nat) /\ Len(each) = Len(new)
          /\ Segment(b, new, each) /\ Segment(g, fixed, fixedFrom)
      BY <1>3, <2>2, <2>3, <2>4
    <3> QED
      BY <2>5, <3>1, SegmentsJoin
  <2>7. PICK v : Segment(v, fixed', fixedFrom') /\ v[1] = b[1] /\ v[Len(fixed') + 1] = [c |-> pos', o |-> 1]
    BY <1>1, <1>3, <2>6
  <2>8. Segment(v, fixed, fixedFrom)'
    BY <1>1, <2>7, SegmentStays
  <2>9. Listed(v)'
    BY <1>5, <1>8, <2>4, <2>7, <2>8 DEF Listed
  <2> QED
    BY <1>1, <1>6, <2>6, <2>9 DEF ListingInv
<1> QED
  BY <1>7, <1>8

LEMMA ListingInvStep ==
  ASSUME ListingInv, [Next]_passVars
  PROVE  ListingInv'
<1>1. TypeInv /\ TypeInv'
  BY TypeInvStep DEF ListingInv
<1>2. CASE SaveParams \/ GenInstr \/ CallBegin \/ CallPush \/ CallFinish \/ EndCodegen \/ RenameInstr
  <2>1. phase' \notin {"fixup", "done"} /\ phase \notin {"fixup", "done"} /\ UNCHANGED <<fixed, fixedFrom>>
    BY <1>2 DEF SaveParams, GenInstr, AtInstr, CallBegin, CallPush, CallFinish, EndCodegen, RenameInstr
  <2> QED
    BY <1>1, <2>1 DEF ListingInv
<1>3. CASE EndRename
  <2>1. /\ phase' = "fixup" /\ phase = "rename" /\ pos' = 1 /\ fixed' = <<>> /\ Len(fixedFrom') = Len(fixed')
        /\ code' = code /\ Len(code) \in Nat
    BY <1>1, <1>3 DEF EndRename, ListingInv, TypeInv
  <2> DEFINE g == [j \in 1 .. 1 |-> [c |-> 1, o |-> 1]]
  <2>2. g[1] = [c |-> 1, o |-> 1] /\ g \in [1 .. 0 + 1 -> Cells]
    BY DEF Cells
  <2> HIDE DEF g
  <2>3. Len(fixed') = 0
    BY <2>1
  <2>4. Segment(g, fixed, fixedFrom)'
    BY <2>2, <2>3 DEF Segment
  <2>5. FirstCell' = [c |-> 1, o |-> 1]
    BY <2>1 DEF FirstCell
  <2>6. Listed(g)'
    BY <2>1, <2>2, <2>3, <2>4, <2>5 DEF Listed
  <2> QED
    BY <1>1, <2>1, <2>6 DEF ListingInv
<1>4. CASE FixInstr
  BY <1>4, FixListed
<1>5. CASE InsertFrame
  BY <1>5, FrameListed
<1>6. CASE UNCHANGED passVars
  <2>1. UNCHANGED <<phase, pos, code, opmap, from, fixed, fixedFrom>>
    BY <1>6 DEF passVars
  <2>2. ASSUME NEW g, Listed(g)
        PROVE  Listed(g)'
    BY <2>1, <2>2 DEF Listed, Segment, Item, ItemFrom, NextCell, FirstCell
  <2> QED
    BY <1>1, <2>1, <2>2 DEF ListingInv
<1> QED
  BY <1>2, <1>3, <1>4, <1>5, <1>6 DEF Next, Pass, Compiled

-----------------------------------------------------------------------------
(* The list that is printed *)

\* A spot of the list: the o-th instruction allocate_stack left for the one at
\* place p.
Spots == [p : Places, o : Nat \ {0}]
FramePlace == Place(0, "frame", 0)

Rewritten(p) == IF p.part = "frame" THEN AllocIfAny(Frame(opmap.stack_offset))
                ELSE Fix(RenameOperands(opmap, Source(fn, p)))

NextSpot(x) == IF x.o < Len(Rewritten(x.p)) THEN [x EXCEPT !.o = @ + 1]
               ELSE [p |-> IF x.p.part = "frame" THEN Start(fn) ELSE Successor(fn, x.p), o |-> 1]

AtSpot(x, instr, origin) ==
  /\ \/ x.p = FramePlace
     \/ IsPlace(fn, x.p) /\ x.p.part # "end" /\ Named(opmap, Source(fn, x.p))
  /\ x.o <= Len(Rewritten(x.p))
  /\ instr = Rewritten(x.p)[x.o]
  /\ origin = x.p.at

Printed(h) ==
  /\ h \in [1 .. Len(fixed) + 1 -> Spots]
  /\ h[1] = [p |-> IF Frame(opmap.stack_offset) # 0 THEN FramePlace ELSE Start(fn), o |-> 1]
  /\ h[Len(fixed) + 1] = [p |-> Place(Len(fn.instrs) + 1, "end", 0), o |-> 1]
  /\ \A j \in 1 .. Len(fixed) : AtSpot(h[j], fixed[j], fixedFrom[j]) /\ h[j + 1] = NextSpot(h[j])

\* What is printed, instruction by instruction: the code of the function's IR,
\* renamed and rewritten, and nothing else.
LEMMA CodeIsPrinted ==
  ASSUME LayoutInv, ListingInv, phase = "done"
  PROVE  \E h : Printed(h)
<1>1. PICK w : LaidOut(w)
  BY DEF LayoutInv
<1>2. PICK g : Listed(g)
  BY DEF ListingInv
<1> DEFINE n == Len(code)
           m == Len(fixed)
           there(c) == IF c = 0 THEN FramePlace ELSE w[c]
           h == [j \in 1 .. m + 1 |-> [p |-> there(g[j].c), o |-> g[j].o]]
<1>3. /\ n \in Nat /\ m \in Nat /\ pos = n + 1 /\ fn \in IrFunctions
  BY DEF ListingInv, TypeInv, CallInv
<1>4. /\ w \in [1 .. n + 1 -> Places] /\ w[1] = Start(fn)
      /\ w[n + 1] = Place(Len(fn.instrs) + 1, "end", 0)
      /\ \A k \in 1 .. n : /\ IsPlace(fn, w[k]) /\ w[k].part # "end" /\ from[k] = w[k].at
                           /\ w[k + 1] = Successor(fn, w[k])
                           /\ code[k] = RenameOperands(opmap, Source(fn, w[k]))
                           /\ Named(opmap, Source(fn, w[k]))
  BY <1>1 DEF LaidOut, Walk, AsRenamed, CurrentPlace
<1>5. /\ g \in [1 .. m + 1 -> Cells]
      /\ g[1] = [c |-> IF Frame(opmap.stack_offset) # 0 THEN 0 ELSE 1, o |-> 1]
      /\ g[m + 1] = [c |-> n + 1, o |-> 1]
      /\ \A j \in 1 .. m : /\ g[j].c <= n
                           /\ g[j].o <= Len(Item(g[j].c))
                           /\ fixed[j] = Item(g[j].c)[g[j].o]
                           /\ fixedFrom[j] = ItemFrom(g[j].c)
                           /\ g[j + 1] = NextCell(g[j])
  BY <1>2, <1>3 DEF Listed, Segment, FirstCell
<1>6. FramePlace \in Places /\ FramePlace.part = "frame" /\ FramePlace.at = 0
  BY DEF FramePlace, Place, Places, Parts
<1>7. ASSUME NEW c \in 1 .. n
      PROVE  /\ there(c) = w[c] /\ w[c].part # "frame"
             /\ Item(c) = Rewritten(w[c]) /\ ItemFrom(c) = w[c].at
  <2>1. c # 0 /\ there(c) = w[c]
    BY <1>3
  <2>2. w[c].part # "frame"
    <3>1. Place(Len(fn.instrs) + 1, "end", 0).part = "end"
      BY DEF Place
    <3> QED
      BY <1>4, <3>1 DEF IsPlace, InBlock
  <2> HIDE DEF there
  <2> QED
    BY <1>4, <2>1, <2>2 DEF Item, ItemFrom, Rewritten
<1>8. there(0) = FramePlace /\ Item(0) = Rewritten(FramePlace) /\ ItemFrom(0) = 0 /\ there(1) = Start(fn)
  <2>1. there(0) = FramePlace /\ there(1) = w[1]
    OBVIOUS
  <2> HIDE DEF there
  <2> QED
    BY <1>4, <1>6, <2>1 DEF Item, ItemFrom, Rewritten
<1>9. ASSUME NEW c \in 0 .. n + 1
      PROVE  there(c) \in Places
  <2>1. CASE c = 0
    BY <1>6, <2>1
  <2>2. CASE c # 0
    <3>1. c \in 1 .. n + 1
      BY <1>3, <2>2
    <3> QED
      BY <1>4, <2>2, <3>1
  <2> QED
    BY <2>1, <2>2
<1>10. there(n + 1) = w[n + 1]
  <2>1. n + 1 # 0
    BY <1>3
  <2> QED
    BY <2>1
<1> HIDE DEF there, n, m
<1>11. ASSUME NEW j \in 1 .. m + 1
       PROVE  /\ g[j].c \in 0 .. n + 1 /\ g[j].o \in Nat \ {0}
              /\ h[j] = [p |-> there(g[j].c), o |-> g[j].o]
  <2>1. g[j] \in Cells
    BY <1>5
  <2>2. g[j].c <= n + 1
    <3>1. CASE j = m + 1
      BY <1>3, <1>5, <3>1
    <3>2. CASE j # m + 1
      <4>1. j \in 1 .. m
        BY <1>3, <3>2
      <4>2. g[j].c <= n /\ g[j].c \in Nat
        BY <1>5, <2>1, <4>1 DEF Cells
      <4> QED
        BY <1>3, <4>2
    <3> QED
      BY <3>1, <3>2
  <2>3. g[j].c \in Nat /\ g[j].o \in Nat \ {0}
    BY <2>1 DEF Cells
  <2>4. g[j].c \in 0 .. n + 1
    BY <1>3, <2>2, <2>3
  <2> QED
    BY <2>3, <2>4
<1>12. h = [j \in 1 .. m + 1 |-> h[j]]
  OBVIOUS
<1> HIDE DEF h
<1>13. h \in [1 .. m + 1 -> Spots]
  <2>1. ASSUME NEW j \in 1 .. m + 1
        PROVE  h[j] \in Spots
    <3>1. there(g[j].c) \in Places /\ g[j].o \in Nat \ {0} /\ h[j] = [p |-> there(g[j].c), o |-> g[j].o]
      BY <1>9, <1>11
    <3> QED
      BY <3>1 DEF Spots
  <2> QED
    BY <1>12, <2>1
<1>14. /\ h[1] = [p |-> IF Frame(opmap.stack_offset) # 0 THEN FramePlace ELSE Start(fn), o |-> 1]
       /\ h[m + 1] = [p |-> Place(Len(fn.instrs) + 1, "end", 0), o |-> 1]
  <2>1. 1 \in 1 .. m + 1 /\ m + 1 \in 1 .. m + 1
    BY <1>3
  <2>2. h[1] = [p |-> there(g[1].c), o |-> g[1].o] /\ h[m + 1] = [p |-> there(g[m + 1].c), o |-> g[m + 1].o]
    BY <1>11, <2>1
  <2>3. h[m + 1] = [p |-> there(n + 1), o |-> 1]
    BY <1>5, <2>2
  <2>4. h[1] = [p |-> there(IF Frame(opmap.stack_offset) # 0 THEN 0 ELSE 1), o |-> 1]
    BY <1>5, <2>2
  <2> QED
    BY <1>4, <1>8, <1>10, <2>3, <2>4
<1>15. ASSUME NEW j \in 1 .. m
       PROVE  AtSpot(h[j], fixed[j], fixedFrom[j]) /\ h[j + 1] = NextSpot(h[j])
  <2>1. j \in 1 .. m + 1 /\ j + 1 \in 1 .. m + 1
    BY <1>3
  <2> DEFINE x == g[j]
             q == there(x.c)
  <2>2. /\ x.c \in 0 .. n /\ x.o \in Nat \ {0} /\ x.o <= Len(Item(x.c))
        /\ fixed[j] = Item(x.c)[x.o] /\ fixedFrom[j] = ItemFrom(x.c) /\ g[j + 1] = NextCell(x)
        /\ x \in Cells
    <3>1. x.c \in 0 .. n + 1 /\ x.o \in Nat \ {0} /\ x.c <= n /\ x \in Cells
      BY <1>5, <1>11, <2>1
    <3>2. x.c \in 0 .. n
      BY <1>3, <3>1
    <3> QED
      BY <1>5, <3>1, <3>2
  <2>3. h[j] = [p |-> q, o |-> x.o] /\ h[j + 1] = [p |-> there(g[j + 1].c), o |-> g[j + 1].o]
    BY <1>11, <2>1
  <2>4. Item(x.c) = Rewritten(q) /\ ItemFrom(x.c) = q.at
    <3>1. CASE x.c = 0
      BY <1>6, <1>8, <3>1
    <3>2. CASE x.c # 0
      <4>1. x.c \in 1 .. n
        BY <1>3, <2>2, <3>2
      <4> QED
        BY <1>7, <4>1
    <3> QED
      BY <3>1, <3>2
  <2>5. q = FramePlace \/ (IsPlace(fn, q) /\ q.part # "end" /\ Named(opmap, Source(fn, q)))
    <3>1. CASE x.c = 0
      <4>1. q = FramePlace
        BY <1>8, <3>1
      <4> QED
        BY <4>1
    <3>2. CASE x.c # 0
      <4>1. x.c \in 1 .. n
        BY <1>3, <2>2, <3>2
      <4> QED
        BY <1>4, <1>7, <4>1
    <3> QED
      BY <3>1, <3>2
  <2>6. there(x.c + 1) = IF q.part = "frame" THEN Start(fn) ELSE Successor(fn, q)
    <3>1. CASE x.c = 0
      <4>1. x.c + 1 = 1 /\ q = FramePlace
        BY <1>8, <3>1
      <4> QED
        BY <1>6, <1>8, <4>1
    <3>2. CASE x.c # 0
      <4>1. x.c \in 1 .. n
        BY <1>3, <2>2, <3>2
      <4>2. x.c + 1 \in 1 .. n \/ x.c + 1 = n + 1
        BY <1>3, <4>1
      <4>3. there(x.c + 1) = w[x.c + 1]
        BY <1>7, <1>10, <4>2
      <4> QED
        BY <1>4, <1>7, <4>1, <4>3
    <3> QED
      BY <3>1, <3>2
  <2> HIDE DEF q, x
  <2>7. h[j].p = q /\ h[j].o = x.o
    BY <2>3
  <2>8. AtSpot(h[j], fixed[j], fixedFrom[j])
    BY <2>2, <2>4, <2>5, <2>7 DEF AtSpot
  <2>9. h[j + 1] = NextSpot(h[j])
    <3>1. CASE x.o < Len(Item(x.c))
      <4>1. g[j + 1] = [x EXCEPT !.o = x.o + 1]
        BY <2>2, <3>1 DEF NextCell
      <4>2. g[j + 1].c = x.c /\ g[j + 1].o = x.o + 1
        BY <2>2, <4>1 DEF Cells
      <4>3. h[j + 1] = [p |-> q, o |-> x.o + 1]
        BY <2>3, <4>2 DEF q
      <4>4. NextSpot(h[j]) = [h[j] EXCEPT !.o = h[j].o + 1]
        BY <2>4, <2>7, <3>1 DEF NextSpot
      <4>5. h[j] = [p |-> q, o |-> x.o]
        BY <2>3 DEF q
      <4> QED
        BY <4>3, <4>4, <4>5
    <3>2. CASE ~(x.o < Len(Item(x.c)))
      <4>1. g[j + 1] = [c |-> x.c + 1, o |-> 1]
        BY <2>2, <3>2 DEF NextCell
      <4>2. h[j + 1] = [p |-> there(x.c + 1), o |-> 1]
        BY <2>3, <4>1
      <4>3. NextSpot(h[j]) = [p |-> IF q.part = "frame" THEN Start(fn) ELSE Successor(fn, q), o |-> 1]
        BY <2>4, <2>7, <3>2 DEF NextSpot
      <4> QED
        BY <2>6, <4>2, <4>3
    <3> QED
      BY <3>1, <3>2
  <2> QED
    BY <2>8, <2>9
<1>16. Printed(h)
  BY <1>13, <1>14, <1>15 DEF Printed, m
<1> QED
  BY <1>16

\* The list of a compiled function is entered at the code of an IR instruction
\* where that code begins, and nowhere else.
LEMMA CodeBegins ==
  ASSUME NEW h, Printed(h), fn \in IrFunctions, fixed \in Seq(Instrs), NEW k \in 2 .. Len(fixed) + 1,
         h[k].p.at > 0
  PROVE  fixedFrom[k - 1] # h[k].p.at <=> h[k].o = 1 /\ h[k].p = FirstOf(fn, h[k].p.at)
<1> DEFINE j == k - 1
           x == h[j]
           y == h[k]
<1>1. j \in 1 .. Len(fixed) /\ j \in 1 .. Len(fixed) + 1 /\ k = j + 1 /\ k \in 1 .. Len(fixed) + 1
  OBVIOUS
<1>2. /\ AtSpot(x, fixed[j], fixedFrom[j]) /\ y = NextSpot(x) /\ x \in Spots
  BY <1>1 DEF Printed
<1> HIDE DEF x, y, j
<1>3. fixedFrom[j] = x.p.at /\ x.o \in Nat \ {0} /\ x.p \in Places
  BY <1>2 DEF AtSpot, Spots
<1>4. y.p.at > 0
  BY DEF y
<1>5. CASE x.o < Len(Rewritten(x.p))
  <2>1. y = [x EXCEPT !.o = x.o + 1]
    BY <1>2, <1>5 DEF NextSpot
  <2>2. y.p = x.p /\ y.o = x.o + 1
    BY <1>2, <2>1 DEF Spots
  <2> QED
    BY <1>3, <2>2 DEF j, y
<1>6. CASE ~(x.o < Len(Rewritten(x.p)))
  <2>1. y = [p |-> IF x.p.part = "frame" THEN Start(fn) ELSE Successor(fn, x.p), o |-> 1]
    BY <1>2, <1>6 DEF NextSpot
  <2>2. CASE x.p = FramePlace
    <3>1. x.p.part = "frame" /\ x.p.at = 0
      BY <2>2 DEF FramePlace, Place
    <3>2. y.p = Start(fn) /\ y.o = 1
      BY <2>1, <3>1
    <3>3. y.p = FirstOf(fn, y.p.at)
      BY <1>4, <3>2, StartIsPlace
    <3>4. y.p.at # 0
      BY <1>4
    <3> QED
      BY <1>3, <3>1, <3>2, <3>3, <3>4 DEF j, y
  <2>3. CASE x.p # FramePlace
    <3>1. IsPlace(fn, x.p) /\ x.p.part # "end"
      BY <1>2, <2>3 DEF AtSpot
    <3>2. x.p.part # "frame"
      BY <3>1 DEF IsPlace, InBlock, Place
    <3>3. y.p = Successor(fn, x.p) /\ y.o = 1
      BY <2>1, <3>2
    <3>4. y.p.at # x.p.at <=> y.p = FirstOf(fn, y.p.at)
      BY <1>4, <3>1, <3>3, SuccessorIsPlace
    <3> QED
      BY <1>3, <3>3, <3>4 DEF j, y
  <2> QED
    BY <2>2, <2>3
<1> QED
  BY <1>5, <1>6

\* The first spot is the beginning of an instruction's code when there is
\* nothing to set up.
LEMMA PrintedBegins ==
  ASSUME NEW h, Printed(h), fn \in IrFunctions, h[1].p.at > 0
  PROVE  h[1].o = 1 /\ h[1].p = FirstOf(fn, h[1].p.at)
<1>1. FramePlace.at = 0
  BY DEF FramePlace, Place
<1>2. h[1].p = (IF Frame(opmap.stack_offset) # 0 THEN FramePlace ELSE Start(fn)) /\ h[1].o = 1
  BY DEF Printed
<1>3. h[1].p = Start(fn)
  BY <1>1, <1>2
<1> QED
  BY <1>2, <1>3, StartIsPlace

LEMMA CodeInvAlways == Spec => [](LayoutInv /\ ListingInv)
<1>1. Init => LayoutInv /\ ListingInv
  <2> SUFFICES ASSUME Init PROVE LayoutInv /\ ListingInv
    OBVIOUS
  <2>1. LayoutInv
    BY LayoutInvInit
  <2> QED
    BY <2>1 DEF Init, LayoutInv, ListingInv
<1>2. LayoutInv /\ ListingInv /\ [Next]_passVars => (LayoutInv /\ ListingInv)'
  BY LayoutInvStep, ListingInvStep
<1> QED
  BY <1>1, <1>2, PTL DEF Spec

\* The list emit_asm is handed is the code of the function's IR, instruction by
\* instruction and in order, renamed with the final slots and rewritten, behind
\* the frame: nothing is lost, repeated or reordered by the three passes, and
\* fixedFrom names the IR instruction each element comes from.
THEOREM OutputIsTheCode == Spec => [](phase = "done" => \E h : Printed(h))
  BY CodeInvAlways, CodeIsPrinted, PTL
=============================================================================
