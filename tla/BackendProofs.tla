--------------------------- MODULE BackendProofs ---------------------------
(***************************************************************************)
(* Proofs about the three passes of Backend, for every set of functions.    *)
(***************************************************************************)
EXTENDS Backend, TLAPS, SequenceTheorems

\* What rename_registers maintains of its map between two instructions: the
\* slots handed out tile the bytes from stack_offset up to %rbp.
MapInv(m) ==
  /\ m.size \in Nat
  /\ m.capacity \in Nat \ {0}
  /\ m.size <= m.capacity
  /\ m.stack_offset \in Int
  /\ m.stack_offset <= 0
  /\ m.slot \in [DOMAIN m.slot -> Int]
  /\ m.stack_offset % 4 = 0
  /\ \A x \in DOMAIN m.slot :
       m.slot[x] % 4 = 0 /\ m.stack_offset <= m.slot[x] /\ m.slot[x] + 4 <= 0
  /\ \A x, y \in DOMAIN m.slot :
       x # y => m.slot[x] + 4 <= m.slot[y] \/ m.slot[y] + 4 <= m.slot[x]

Extends(m, n) ==
  \A x \in DOMAIN m.slot : x \in DOMAIN n.slot /\ n.slot[x] = m.slot[x]

\* operand_map_put keeps the slots apart and moves none.
LEMMA PutPreserves ==
  ASSUME NEW m, MapInv(m), NEW op
  PROVE  MapInv(Put(m, op)) /\ Extends(m, Put(m, op))
<1>1. CASE op.kind # "ID" \/ op.id \in DOMAIN m.slot
  BY <1>1 DEF Put, Extends
<1>2. CASE ~(op.kind # "ID" \/ op.id \in DOMAIN m.slot)
  <2> DEFINE n == Put(m, op)
  <2>1. n = [slot |-> [x \in DOMAIN m.slot \cup {op.id} |->
                         IF x = op.id THEN m.stack_offset - 4 ELSE m.slot[x]],
             stack_offset |-> m.stack_offset - 4,
             size |-> m.size + 1,
             capacity |-> IF m.size = m.capacity THEN 2 * m.capacity ELSE m.capacity]
    BY <1>2 DEF Put
  <2>2. /\ DOMAIN n.slot = DOMAIN m.slot \cup {op.id}
        /\ n.slot[op.id] = m.stack_offset - 4
        /\ \A x \in DOMAIN m.slot : n.slot[x] = m.slot[x]
        /\ n.slot \in [DOMAIN n.slot -> Int]
    BY <2>1, <1>2 DEF MapInv
  <2>3. /\ n.stack_offset = m.stack_offset - 4
        /\ n.size = m.size + 1
        /\ n.capacity = IF m.size = m.capacity THEN 2 * m.capacity ELSE m.capacity
    BY <2>1
  <2> HIDE DEF n
  <2>4. n.size \in Nat /\ n.capacity \in Nat \ {0} /\ n.size <= n.capacity
    BY <2>3 DEF MapInv
  <2>5. n.stack_offset \in Int /\ n.stack_offset <= 0 /\ n.stack_offset % 4 = 0
    BY <2>3 DEF MapInv
  <2>6. \A x \in DOMAIN n.slot :
          n.slot[x] % 4 = 0 /\ n.stack_offset <= n.slot[x] /\ n.slot[x] + 4 <= 0
    BY <2>2, <2>3, <2>5 DEF MapInv
  <2>7. \A x, y \in DOMAIN n.slot :
          x # y => n.slot[x] + 4 <= n.slot[y] \/ n.slot[y] + 4 <= n.slot[x]
    BY <2>2, <2>3 DEF MapInv
  <2>8. MapInv(n) /\ Extends(m, n)
    BY <2>2, <2>4, <2>5, <2>6, <2>7 DEF MapInv, Extends
  <2> QED
    BY <2>8 DEF n
<1> QED
  BY <1>1, <1>2

\* rename_registers on one instruction: at most two operands.
LEMMA PutOperandsPreserves ==
  ASSUME NEW m, MapInv(m), NEW instr
  PROVE  MapInv(PutOperands(m, instr)) /\ Extends(m, PutOperands(m, instr))
<1> DEFINE fields == OperandFields(instr)
<1>1. fields \in {<<>>, <<"operand">>, <<"op">>, <<"dst", "src">>, <<"rhs", "dst">>,
                  <<"lhs", "rhs">>}
  BY DEF OperandFields
<1>2. Len(fields) \in {0, 1, 2}
  BY <1>1
<1> HIDE DEF fields
<1>3. CASE Len(fields) = 0
  <2>1. PutOperands(m, instr) = m
    BY <1>3 DEF PutOperands, fields
  <2> QED
    BY <2>1 DEF Extends
<1>4. CASE Len(fields) = 1
  <2>1. PutOperands(m, instr) = Put(m, instr[fields[1]])
    BY <1>4 DEF PutOperands, fields
  <2> QED
    BY <2>1, PutPreserves
<1>5. CASE Len(fields) = 2
  <2> DEFINE n == Put(m, instr[fields[1]])
  <2>1. PutOperands(m, instr) = Put(n, instr[fields[2]])
    BY <1>5 DEF PutOperands, fields
  <2>2. MapInv(n) /\ Extends(m, n)
    BY PutPreserves
  <2> HIDE DEF n
  <2>3. MapInv(Put(n, instr[fields[2]])) /\ Extends(n, Put(n, instr[fields[2]]))
    BY <2>2, PutPreserves
  <2> QED
    BY <2>1, <2>2, <2>3 DEF Extends
<1> QED
  BY <1>2, <1>3, <1>4, <1>5

\* allocate_stack's rounding reaches down to the lowest slot.
LEMMA FrameRounds ==
  ASSUME NEW offset \in Int, offset <= 0
  PROVE  Frame(offset) \in Nat /\ Frame(offset) % 16 = 0 /\ -Frame(offset) <= offset
<1> DEFINE q == (15 - offset) \div 16
<1>1. q \in Int /\ 16 * q <= 15 - offset /\ 15 - offset < 16 * q + 16
  OBVIOUS
<1>2. Frame(offset) = 16 * q
  BY DEF Frame
<1> HIDE DEF q
<1> QED
  BY <1>1, <1>2

\* The invariant of the map gives the property.
LEMMA MapInvSlotsDisjoint ==
  ASSUME MapInv(opmap)
  PROVE  SlotsDisjoint
<1>1. -Frame(opmap.stack_offset) <= opmap.stack_offset
      /\ Frame(opmap.stack_offset) \in Nat /\ Frame(opmap.stack_offset) % 16 = 0
  BY FrameRounds DEF MapInv
<1> QED
  BY <1>1 DEF MapInv, SlotsDisjoint

\* The only action that touches the map is one iteration of rename_registers.
LEMMA MapInvStep ==
  ASSUME MapInv(opmap), [Next]_passVars
  PROVE  MapInv(opmap') /\ Extends(opmap, opmap')
<1>1. CASE RenameInstr
  BY <1>1, PutOperandsPreserves DEF RenameInstr
<1>2. CASE UNCHANGED opmap
  BY <1>2 DEF Extends, MapInv
<1>3. RenameInstr \/ UNCHANGED opmap
  BY DEF Next, Pass, Compiled, passVars, SaveParams, GenInstr, CallBegin, CallPush, CallFinish,
         EndCodegen, EndRename, FixInstr, InsertFrame
<1> QED
  BY <1>1, <1>2, <1>3

\* The map invariant holds throughout.
LEMMA MapInvAlways == Spec => []MapInv(opmap)
<1>1. Init => MapInv(opmap)
  BY CapacityAssumption DEF Init, MapInv, EmptyMap
<1>2. MapInv(opmap) /\ [Next]_passVars => MapInv(opmap)'
  BY MapInvStep
<1> QED
  BY <1>1, <1>2, PTL DEF Spec

\* No two variables of a function overlap on the stack, whatever the function
\* and however many variables it has (rename_registers, operand_map_put).
THEOREM SlotsAreDisjoint == Spec => []SlotsDisjoint
  BY MapInvAlways, MapInvSlotsDisjoint, PTL

\* A slot, once given to a variable, is its slot in every later instruction.
THEOREM SlotsAreStable == Spec => SlotsNeverMove
<1>1. MapInv(opmap) /\ [Next]_passVars =>
        [\A x \in DOMAIN opmap.slot :
           x \in DOMAIN opmap'.slot /\ opmap'.slot[x] = opmap.slot[x]]_passVars
  BY MapInvStep DEF Extends
<1> QED
  BY <1>1, MapInvAlways, PTL DEF Spec, SlotsNeverMove

-----------------------------------------------------------------------------
(* The call sequence *)

\* What a call expansion has done to %rsp when its push loop is at arg.
CallInv ==
  /\ fn \in IrFunctions
  /\ pos \in Nat \ {0}
  /\ phase # "call" => depth = 0
  /\ phase = "call" =>
       LET args == fn.instrs[pos].args
       IN /\ pos <= Len(fn.instrs)
          /\ fn.instrs[pos].kind = "FUNCALL"
          /\ arg \in Nat
          /\ arg <= Len(args)
          /\ arg >= 6 \/ arg = Len(args)
          /\ depth = Padding(args) + 8 * (Len(args) - arg)

\* Six registers carry arguments.
LEMMA SixArgRegisters == Len(ArgRegisters) = 6
  BY DEF ArgRegisters

\* The instruction codegen_function is at is an IR instruction.
LEMMA InstructionTypes ==
  ASSUME fn \in IrFunctions, pos \in Nat \ {0}, pos <= Len(fn.instrs)
  PROVE  fn.instrs[pos] \in IrInstructions(Ids)
  BY FunctionsAssumption

\* The fields of a call.
LEMMA ArgumentsAreSequences ==
  ASSUME NEW i \in IrInstructions(Ids), i.kind = "FUNCALL"
  PROVE  i.args \in Seq(IrValues(Ids)) /\ Len(i.args) \in Nat /\ i.dst \in IrVariables(Ids)
         /\ i.f \in STRING
  BY DEF IrInstructions

\* The bytes the expansion takes before the call: a multiple of 16, and what
\* it gives back after.
LEMMA CallBytes ==
  ASSUME NEW args, Len(args) \in Nat,
         NEW a \in Nat, a <= Len(args), a >= 6 \/ a = Len(args), a <= 6
  PROVE  LET bytes == Padding(args) + 8 * (Len(args) - a)
         IN bytes % 16 = 0 /\ bytes = BytesToRemove(args)
<1>1. StackArgs(args) = Len(args) - a /\ StackArgs(args) \in Nat
  BY SixArgRegisters DEF StackArgs
<1>2. CASE StackArgs(args) % 2 = 0
  BY <1>1, <1>2 DEF Padding, BytesToRemove
<1>3. CASE StackArgs(args) % 2 # 0
  BY <1>1, <1>3 DEF Padding, BytesToRemove
<1> QED
  BY <1>2, <1>3

\* The invariant of the call sequence gives the property.
LEMMA CallInvImpliesBalanced == CallInv => CallsBalanced
<1> SUFFICES ASSUME CallInv, phase = "call", arg <= Len(ArgRegisters)
             PROVE  depth % 16 = 0
  BY DEF CallInv, CallsBalanced
<1> DEFINE args == fn.instrs[pos].args
<1>1. fn.instrs[pos] \in IrInstructions(Ids)
  BY InstructionTypes DEF CallInv, AtInstr
<1>2. Len(args) \in Nat
  BY <1>1, ArgumentsAreSequences DEF CallInv
<1> QED
  BY <1>2, CallBytes, SixArgRegisters DEF CallInv

\* The call sequence keeps its invariant, action by action.
LEMMA CallInvStep ==
  ASSUME CallInv, [Next]_passVars
  PROVE  CallInv'
<1> DEFINE args == fn.instrs[pos].args
<1>1. CASE CallBegin
  <2>1. fn.instrs[pos] \in IrInstructions(Ids)
    BY <1>1, InstructionTypes DEF CallInv, CallBegin, AtInstr
  <2>2. Len(args) \in Nat
    BY <1>1, <2>1, ArgumentsAreSequences DEF CallBegin
  <2>3. depth' = Padding(args) + 8 * (Len(args) - Len(args))
    BY <1>1, <2>2 DEF CallBegin, AtInstr, CallInv, Padding
  <2> QED
    BY <1>1, <2>2, <2>3 DEF CallBegin, CallInv, AtInstr
<1>2. CASE CallPush
  <2>1. fn.instrs[pos] \in IrInstructions(Ids)
    BY <1>2, InstructionTypes DEF CallInv, CallPush, AtInstr
  <2>2. Len(args) \in Nat
    BY <1>2, <2>1, ArgumentsAreSequences DEF CallPush, CallInv
  <2>3. Padding(args) \in Nat
    BY DEF Padding
  <2>4. arg' \in Nat /\ arg' <= Len(args) /\ arg' >= 6
    BY <1>2, <2>2, SixArgRegisters DEF CallPush, CallInv
  <2>5. depth' = Padding(args) + 8 * (Len(args) - arg')
    <3>1. depth = Padding(args) + 8 * (Len(args) - arg) /\ arg \in Nat
      BY <1>2 DEF CallPush, CallInv
    <3>2. depth' = depth + 8 /\ arg' = arg - 1
      BY <1>2 DEF CallPush
    <3> HIDE DEF args
    <3> QED
      BY <2>2, <2>3, <3>1, <3>2
  <2> QED
    BY <1>2, <2>4, <2>5 DEF CallPush, CallInv, AtInstr
<1>3. CASE CallFinish
  <2>1. fn.instrs[pos] \in IrInstructions(Ids)
    BY <1>3, InstructionTypes DEF CallInv, CallFinish, AtInstr
  <2>2. Len(args) \in Nat
    BY <1>3, <2>1, ArgumentsAreSequences DEF CallFinish, CallInv
  <2>3. depth = BytesToRemove(args)
    BY <1>3, <2>2, CallBytes, SixArgRegisters DEF CallFinish, CallInv
  <2>4. BytesToRemove(args) \in Int
    BY <2>2, SixArgRegisters DEF BytesToRemove, StackArgs, Padding
  <2>5. depth' = 0
    BY <1>3, <2>3, <2>4 DEF CallFinish
  <2> QED
    BY <1>3, <2>5 DEF CallFinish, CallInv
<1>4. CASE GenInstr \/ EndCodegen \/ SaveParams \/ RenameInstr \/ EndRename \/ FixInstr \/ InsertFrame
  BY <1>4 DEF GenInstr, EndCodegen, SaveParams, RenameInstr, EndRename, FixInstr, InsertFrame,
              CallInv, AtInstr
<1>5. CASE UNCHANGED passVars
  BY <1>5 DEF passVars, CallInv
<1> QED
  BY <1>1, <1>2, <1>3, <1>4, <1>5 DEF Next, Pass, Compiled

\* Every call is made with %rsp a multiple of 16 below the frame, and gives
\* back what it took, for any number of arguments (codegen_instr, IR_FUNCALL).
THEOREM CallsAreBalanced == Spec => []CallsBalanced
<1>1. Init => CallInv
  BY DEF Init, CallInv
<1>2. CallInv /\ [Next]_passVars => CallInv'
  BY CallInvStep
<1> QED
  BY <1>1, <1>2, CallInvImpliesBalanced, PTL DEF Spec

-----------------------------------------------------------------------------
(* The lists the passes build hold assembly instructions only: types *)

Op == X86Operands(Ids)
Instrs == X86Instructions(Ids)

-----------------------------------------------------------------------------
(* Constructors and short sequences *)

\* The constructors of x86_ast.c build operands.
LEMMA OperandTypes ==
  /\ \A r \in Registers : Reg(r) \in Op
  /\ \A n \in Int : Imm(n) \in Op /\ Stack(n) \in Op
  /\ \A x \in Ids : Id(x) \in Op
  BY DEF Op, X86Operands, Reg, Imm, Id, Stack

\* codegen_val turns a constant or a variable into an operand.
LEMMA ValueTypes ==
  ASSUME NEW v \in IrValues(Ids)
  PROVE  CodegenVal(v) \in Op
<1>1. CASE v \in IrVariables(Ids)
  BY <1>1, OperandTypes DEF CodegenVal, IrVariables
<1>2. CASE v \in [kind : {"CONSTANT"}, int_val : Int]
  BY <1>2, OperandTypes DEF CodegenVal
<1> QED
  BY <1>1, <1>2 DEF IrValues

\* Instructions with two operands, of any kinds.
LEMMA TwoOperandTypes ==
  ASSUME NEW a \in Op, NEW b \in Op
  PROVE  /\ Mov(a, b) \in Instrs
         /\ Cmp(a, b) \in Instrs
         /\ \A t \in X86Binops : Binary(t, a, b) \in Instrs
  BY DEF Op, Instrs, X86Instructions, Mov, Cmp, Binary

\* Instructions with one operand.
LEMMA OneOperandTypes ==
  ASSUME NEW a \in Op
  PROVE  /\ Idiv(a) \in Instrs
         /\ Push(a) \in Instrs
         /\ \A u \in {"NEG", "COMP"} : Unary(u, a) \in Instrs
         /\ \A c \in ConditionCodes : SetCC(c, a) \in Instrs
  BY DEF Op, Instrs, X86Instructions, Idiv, Push, Unary, SetCC

\* Instructions without operands.
LEMMA NoOperandTypes ==
  /\ Ret \in Instrs
  /\ Cdq \in Instrs
  /\ \A n \in Int : Alloc(n) \in Instrs /\ Deallocate(n) \in Instrs
  /\ \A l \in STRING : Jmp(l) \in Instrs /\ Label(l) \in Instrs /\ Call(l) \in Instrs
  /\ \A c \in ConditionCodes, l \in STRING : JmpCC(c, l) \in Instrs
  BY DEF Instrs, X86Instructions, Ret, Cdq, Alloc, Deallocate, Jmp, Label, Call, JmpCC

\* Appending to a list of one kind.
LEMMA Concatenation ==
  ASSUME NEW S, NEW s \in Seq(S), NEW t \in Seq(S)
  PROVE  s \o t \in Seq(S)
  BY ConcatProperties

-----------------------------------------------------------------------------
(* codegen_function *)

\* The registers the passes name are registers.
LEMMA RegisterNames ==
  /\ {"AX", "DX", "R10", "R11"} \subseteq Registers
  /\ \A k \in 1 .. 6 : ArgRegisters[k] \in Registers
  BY DEF Registers, ArgRegisters

\* codegen_instr on a unary operation.
LEMMA UnopTypes ==
  ASSUME NEW i \in IrInstructions(Ids), i.kind = "UNOP"
  PROVE  CodegenUnop(i) \in Seq(Instrs)
<1>1. i.op \in IrUnops /\ i.src \in IrValues(Ids) /\ i.dst \in IrValues(Ids)
  BY DEF IrInstructions, IrValues
<1> DEFINE src == CodegenVal(i.src)
           dst == CodegenVal(i.dst)
<1>2. src \in Op /\ dst \in Op /\ Imm(0) \in Op
  BY <1>1, ValueTypes, OperandTypes
<1> HIDE DEF src, dst
<1>3. CASE i.op = "NOT"
  <2>1. CodegenUnop(i) = <<Cmp(src, Imm(0)), Mov(dst, Imm(0)), SetCC("E", dst)>>
    BY <1>3 DEF CodegenUnop, src, dst
  <2>2. Cmp(src, Imm(0)) \in Instrs /\ Mov(dst, Imm(0)) \in Instrs
    BY <1>2, TwoOperandTypes
  <2>3. SetCC("E", dst) \in Instrs
    BY <1>2, OneOperandTypes DEF ConditionCodes
  <2> QED
    BY <2>1, <2>2, <2>3
<1>4. CASE i.op # "NOT"
  <2>1. CodegenUnop(i) = <<Mov(dst, src), Unary(i.op, dst)>>
    BY <1>4 DEF CodegenUnop, src, dst
  <2>2. i.op \in {"NEG", "COMP"}
    BY <1>1, <1>4 DEF IrUnops
  <2>3. Mov(dst, src) \in Instrs /\ Unary(i.op, dst) \in Instrs
    BY <2>2, <1>2, TwoOperandTypes, OneOperandTypes
  <2> QED
    BY <2>1, <2>3
<1> QED
  BY <1>3, <1>4

\* codegen_instr on a binary operation: division, comparison, the others.
LEMMA BinopTypes ==
  ASSUME NEW i \in IrInstructions(Ids), i.kind = "BINOP"
  PROVE  CodegenBinop(i) \in Seq(Instrs)
<1>1. i.op \in IrBinops /\ i.lhs \in IrValues(Ids) /\ i.rhs \in IrValues(Ids) /\ i.dst \in IrValues(Ids)
  BY DEF IrInstructions, IrValues
<1> DEFINE lhs == CodegenVal(i.lhs)
           rhs == CodegenVal(i.rhs)
           dst == CodegenVal(i.dst)
<1>2. lhs \in Op /\ rhs \in Op /\ dst \in Op /\ Imm(0) \in Op /\ Reg("AX") \in Op /\ Reg("DX") \in Op
  BY <1>1, ValueTypes, OperandTypes, RegisterNames
<1> HIDE DEF lhs, rhs, dst
<1>3. CASE i.op \in {"DIV", "MOD"}
  <2> DEFINE Divide(answer) == <<Mov(Reg("AX"), lhs), Cdq, Idiv(rhs), Mov(dst, Reg(answer))>>
  <2>1. i.op = "DIV" => CodegenBinop(i) = Divide("AX")
    BY DEF CodegenBinop, IrRelations, lhs, rhs, dst
  <2>2. i.op = "MOD" => CodegenBinop(i) = Divide("DX")
    BY DEF CodegenBinop, IrRelations, lhs, rhs, dst
  <2>3. Divide("AX") \in Seq(Instrs) /\ Divide("DX") \in Seq(Instrs)
    <3>1. /\ Mov(Reg("AX"), lhs) \in Instrs /\ Mov(dst, Reg("AX")) \in Instrs
          /\ Mov(dst, Reg("DX")) \in Instrs /\ Cdq \in Instrs /\ Idiv(rhs) \in Instrs
      BY <1>2, TwoOperandTypes, OneOperandTypes, NoOperandTypes
    <3> QED
      BY <3>1
  <2> QED
    BY <2>1, <2>2, <2>3, <1>3
<1>4. CASE i.op \in IrRelations
  <2>1. CodegenBinop(i) = <<Cmp(rhs, lhs), Mov(dst, Imm(0)), SetCC(ConditionCode(i.op), dst)>>
    BY <1>4 DEF CodegenBinop, IrRelations, lhs, rhs, dst
  <2>2. ConditionCode(i.op) \in ConditionCodes
    BY <1>4 DEF ConditionCode, IrRelations, ConditionCodes
  <2>3. /\ Cmp(rhs, lhs) \in Instrs
        /\ Mov(dst, Imm(0)) \in Instrs
        /\ SetCC(ConditionCode(i.op), dst) \in Instrs
    BY <2>2, <1>2, TwoOperandTypes, OneOperandTypes
  <2> QED
    BY <2>1, <2>3
<1>5. CASE i.op \notin {"DIV", "MOD"} \cup IrRelations
  <2>1. CodegenBinop(i) = <<Mov(dst, lhs), Binary(i.op, rhs, dst)>>
    BY <1>5 DEF CodegenBinop, lhs, rhs, dst
  <2>2. i.op \in X86Binops
    BY <1>1, <1>5 DEF IrBinops, X86Binops
  <2>3. Mov(dst, lhs) \in Instrs /\ Binary(i.op, rhs, dst) \in Instrs
    BY <2>2, <1>2, TwoOperandTypes
  <2> QED
    BY <2>1, <2>3
<1> QED
  BY <1>3, <1>4, <1>5

\* codegen_instr on everything but a call.
LEMMA InstrTypes ==
  ASSUME NEW i \in IrInstructions(Ids), i.kind # "FUNCALL"
  PROVE  CodegenInstr(i) \in Seq(Instrs)
<1>1. Imm(0) \in Op /\ Reg("AX") \in Op
  BY OperandTypes, RegisterNames
<1>2. CASE i.kind = "RETURN"
  <2>1. CodegenInstr(i) = <<Mov(Reg("AX"), CodegenVal(i.val)), Ret>> /\ i.val \in IrValues(Ids)
    BY <1>2 DEF CodegenInstr, CodegenReturn, IrInstructions
  <2>2. Mov(Reg("AX"), CodegenVal(i.val)) \in Instrs /\ Ret \in Instrs
    BY <2>1, <1>1, ValueTypes, TwoOperandTypes, NoOperandTypes
  <2> QED
    BY <2>1, <2>2
<1>3. CASE i.kind = "UNOP"
  BY <1>3, UnopTypes DEF CodegenInstr
<1>4. CASE i.kind = "BINOP"
  BY <1>4, BinopTypes DEF CodegenInstr
<1>5. CASE i.kind = "JUMP"
  <2>1. CodegenInstr(i) = <<Jmp(i.target)>> /\ i.target \in STRING
    BY <1>5 DEF CodegenInstr, IrInstructions
  <2>2. Jmp(i.target) \in Instrs
    BY <2>1, NoOperandTypes
  <2> QED
    BY <2>1, <2>2
<1>6. CASE i.kind \in {"JUMP_ZERO", "JUMP_NOT_ZERO"}
  <2> DEFINE cond == IF i.kind = "JUMP_ZERO" THEN "E" ELSE "NE"
  <2>1. /\ CodegenInstr(i) = <<Cmp(Imm(0), CodegenVal(i.cond)), JmpCC(cond, i.target)>>
        /\ i.cond \in IrValues(Ids) /\ i.target \in STRING
    BY <1>6 DEF CodegenInstr, IrInstructions
  <2>2. cond \in ConditionCodes
    BY DEF ConditionCodes
  <2> HIDE DEF cond
  <2>3. Cmp(Imm(0), CodegenVal(i.cond)) \in Instrs /\ JmpCC(cond, i.target) \in Instrs
    BY <2>1, <2>2, <1>1, ValueTypes, TwoOperandTypes, NoOperandTypes
  <2> QED
    BY <2>1, <2>3
<1>7. CASE i.kind = "COPY"
  <2>1. /\ CodegenInstr(i) = <<Mov(CodegenVal(i.dst), CodegenVal(i.src))>>
        /\ i.dst \in IrValues(Ids) /\ i.src \in IrValues(Ids)
    BY <1>7 DEF CodegenInstr, IrInstructions, IrValues
  <2> QED
    BY <2>1, ValueTypes, TwoOperandTypes
<1>8. CASE i.kind = "LABEL"
  <2>1. CodegenInstr(i) = <<Label(i.id)>> /\ i.id \in STRING
    BY <1>8 DEF CodegenInstr, IrInstructions
  <2>2. Label(i.id) \in Instrs
    BY <2>1, NoOperandTypes
  <2> QED
    BY <2>1, <2>2
<1> QED
  BY <1>2, <1>3, <1>4, <1>5, <1>6, <1>7, <1>8 DEF IrInstructions

\* codegen_function copies parameters with well-formed moves.
LEMMA SaveParamsTypes ==
  ASSUME NEW params \in Seq(Ids)
  PROVE  [i \in 1 .. Len(params) |-> Mov(Id(params[i]), ParamSource(i))] \in Seq(Instrs)
<1>1. ASSUME NEW i \in 1 .. Len(params)
      PROVE  Mov(Id(params[i]), ParamSource(i)) \in Instrs
  <2>1. Id(params[i]) \in Op
    BY OperandTypes
  <2>2. ParamSource(i) \in Op
    BY OperandTypes, RegisterNames, SixArgRegisters DEF ParamSource
  <2> QED
    BY <2>1, <2>2, TwoOperandTypes
<1> QED
  BY <1>1

\* %rsp is adjusted only by integers.
LEMMA PaddingTypes ==
  ASSUME NEW n \in Int
  PROVE  AllocIfAny(n) \in Seq(Instrs) /\ DeallocateIfAny(n) \in Seq(Instrs)
<1>1. Alloc(n) \in Instrs /\ Deallocate(n) \in Instrs
  BY NoOperandTypes
<1> QED
  BY <1>1 DEF AllocIfAny, DeallocateIfAny

\* At most six arguments travel in registers, the others on the stack.
LEMMA ArgumentCounts ==
  ASSUME NEW args, Len(args) \in Nat
  PROVE  /\ StackArgs(args) \in Nat
         /\ Padding(args) \in Nat
         /\ BytesToRemove(args) \in Nat
         /\ Len(args) - StackArgs(args) \in Nat
         /\ Len(args) - StackArgs(args) <= 6
<1>1. StackArgs(args) \in Nat /\ Len(args) - StackArgs(args) \in Nat /\ Len(args) - StackArgs(args) <= 6
  BY SixArgRegisters DEF StackArgs
<1>2. Padding(args) \in Nat
  BY DEF Padding
<1> QED
  BY <1>1, <1>2 DEF BytesToRemove

\* The arguments that travel in registers.
LEMMA RegisterMovesTypes ==
  ASSUME NEW args \in Seq(IrValues(Ids))
  PROVE  RegisterMoves(args) \in Seq(Instrs)
<1> DEFINE n == Len(args) - StackArgs(args)
<1>1. n \in Nat /\ n <= 6 /\ n <= Len(args)
  BY ArgumentCounts
<1>2. ASSUME NEW k \in 1 .. n
      PROVE  Mov(Reg(ArgRegisters[k]), CodegenVal(args[k])) \in Instrs
  <2>1. args[k] \in IrValues(Ids) /\ k \in 1 .. 6
    BY <1>1
  <2> QED
    BY <2>1, RegisterNames, OperandTypes, ValueTypes, TwoOperandTypes
<1> HIDE DEF n
<1>3. [k \in 1 .. n |-> Mov(Reg(ArgRegisters[k]), CodegenVal(args[k]))] \in Seq(Instrs)
  BY <1>1, <1>2
<1> QED
  BY <1>3 DEF RegisterMoves, n

\* One argument that travels on the stack.
LEMMA PushArgTypes ==
  ASSUME NEW v \in IrValues(Ids)
  PROVE  PushArg(v) \in Seq(Instrs)
<1>1. /\ Push(CodegenVal(v)) \in Instrs
      /\ Push(Reg("AX")) \in Instrs
      /\ Mov(Reg("AX"), CodegenVal(v)) \in Instrs
  BY ValueTypes, OperandTypes, RegisterNames, OneOperandTypes, TwoOperandTypes
<1> QED
  BY <1>1 DEF PushArg

-----------------------------------------------------------------------------
(* rename_registers *)

\* operand_map_put always leaves a slot for the operand it is given.
LEMMA PutBinds ==
  ASSUME NEW m, MapInv(m), NEW op, op.kind = "ID"
  PROVE  op.id \in DOMAIN Put(m, op).slot
  BY DEF Put

\* A pseudo-register with a slot becomes a stack operand.
LEMMA RenamedTypes ==
  ASSUME NEW m, MapInv(m), NEW op \in Op, op.kind = "ID" => op.id \in DOMAIN m.slot
  PROVE  Renamed(m, op) \in Op
  BY OperandTypes DEF Renamed, MapInv

\* After both operands of an instruction are put in the map, both have slots.
LEMMA RenamedOperands ==
  ASSUME NEW m, MapInv(m), NEW instr \in Instrs
  PROVE  \A f \in Range(OperandFields(instr)) :
           instr[f] \in Op /\ Renamed(PutOperands(m, instr), instr[f]) \in Op
<1> DEFINE n == PutOperands(m, instr)
<1>1. MapInv(n)
  BY PutOperandsPreserves
<1>2. ASSUME NEW f \in Range(OperandFields(instr))
      PROVE  instr[f] \in Op
  BY DEF Instrs, X86Instructions, OperandFields, Range, Op
<1>3. ASSUME NEW f \in Range(OperandFields(instr)), instr[f].kind = "ID"
      PROVE  instr[f].id \in DOMAIN n.slot
  <2> DEFINE fields == OperandFields(instr)
  <2>1. /\ fields \in {<<>>, <<"operand">>, <<"op">>, <<"dst", "src">>, <<"rhs", "dst">>,
                        <<"lhs", "rhs">>}
        /\ f \in Range(fields)
    BY <1>3 DEF OperandFields
  <2>2. \/ Len(fields) = 1 /\ f = fields[1]
        \/ Len(fields) = 2 /\ (f = fields[1] \/ f = fields[2])
    BY <2>1 DEF Range
  <2> HIDE DEF fields
  <2>3. CASE Len(fields) = 1 /\ f = fields[1]
    <3>1. n = Put(m, instr[f])
      BY <2>3 DEF PutOperands, fields
    <3> QED
      BY <3>1, <1>3, PutBinds
  <2>4. CASE Len(fields) = 2 /\ (f = fields[1] \/ f = fields[2])
    <3> DEFINE first == Put(m, instr[fields[1]])
    <3>1. n = Put(first, instr[fields[2]])
      BY <2>4 DEF PutOperands, fields
    <3>2. MapInv(first)
      BY PutPreserves
    <3>3. CASE f = fields[2]
      <4> HIDE DEF first
      <4> QED
        BY <3>1, <3>2, <3>3, <1>3, PutBinds
    <3>4. CASE f = fields[1]
      <4>1. instr[f].id \in DOMAIN first.slot
        BY <3>4, <1>3, PutBinds
      <4> HIDE DEF first
      <4>2. Extends(first, Put(first, instr[fields[2]]))
        BY <3>2, PutPreserves
      <4> QED
        BY <3>1, <4>1, <4>2 DEF Extends
    <3> QED
      BY <3>3, <3>4, <2>4
  <2> QED
    BY <2>2, <2>3, <2>4
<1> HIDE DEF n
<1>4. ASSUME NEW f \in Range(OperandFields(instr))
      PROVE  Renamed(n, instr[f]) \in Op
  BY <1>1, <1>2, <1>3, RenamedTypes
<1> QED
  BY <1>2, <1>4 DEF n

\* Renaming keeps the kind of an instruction.
LEMMA RenameTypes ==
  ASSUME NEW m, MapInv(m), NEW instr \in Instrs
  PROVE  RenameOperands(PutOperands(m, instr), instr) \in Instrs
<1> DEFINE n == PutOperands(m, instr)
           out == RenameOperands(n, instr)
           fields == Range(OperandFields(instr))
<1>1. /\ DOMAIN out = DOMAIN instr
      /\ \A f \in fields \cap DOMAIN instr : out[f] \in Op
      /\ \A f \in DOMAIN instr \ fields : out[f] = instr[f]
  BY RenamedOperands DEF RenameOperands
<1>2. out = [f \in DOMAIN instr |-> out[f]]
  BY DEF RenameOperands
<1> SUFFICES out \in Instrs
  OBVIOUS
<1> HIDE DEF out
<1>3. CASE instr.kind = "MOV"
  <2>1. /\ DOMAIN instr = {"kind", "dst", "src"}
        /\ fields = {"dst", "src"}
    BY <1>3 DEF Instrs, X86Instructions, OperandFields, Range
  <2>2. /\ out = Mov(out.dst, out.src)
        /\ out.dst \in Op
        /\ out.src \in Op
    BY <1>1, <1>2, <1>3, <2>1 DEF Mov
  <2> QED
    BY <2>1, <2>2, TwoOperandTypes
<1>4. CASE instr.kind = "CMP"
  <2>1. /\ DOMAIN instr = {"kind", "lhs", "rhs"}
        /\ fields = {"lhs", "rhs"}
    BY <1>4 DEF Instrs, X86Instructions, OperandFields, Range
  <2>2. /\ out = Cmp(out.lhs, out.rhs)
        /\ out.lhs \in Op
        /\ out.rhs \in Op
    BY <1>1, <1>2, <1>4, <2>1 DEF Cmp
  <2> QED
    BY <2>1, <2>2, TwoOperandTypes
<1>5. CASE instr.kind = "BINOP"
  <2>1. /\ DOMAIN instr = {"kind", "optype", "rhs", "dst"}
        /\ fields = {"rhs", "dst"}
        /\ instr.optype \in X86Binops
    BY <1>5 DEF Instrs, X86Instructions, OperandFields, Range
  <2>2. /\ out = Binary(instr.optype, out.rhs, out.dst)
        /\ out.rhs \in Op
        /\ out.dst \in Op
    BY <1>1, <1>2, <1>5, <2>1 DEF Binary
  <2> QED
    BY <2>1, <2>2, TwoOperandTypes
<1>6. CASE instr.kind = "UNOP"
  <2>1. /\ DOMAIN instr = {"kind", "unop", "operand"}
        /\ fields = {"operand"}
        /\ instr.unop \in {"NEG", "COMP"}
    BY <1>6 DEF Instrs, X86Instructions, OperandFields, Range
  <2>2. /\ out = Unary(instr.unop, out.operand)
        /\ out.operand \in Op
    BY <1>1, <1>2, <1>6, <2>1 DEF Unary
  <2> QED
    BY <2>1, <2>2, OneOperandTypes
<1>7. CASE instr.kind = "SETCC"
  <2>1. /\ DOMAIN instr = {"kind", "cond", "op"}
        /\ fields = {"op"}
        /\ instr.cond \in ConditionCodes
    BY <1>7 DEF Instrs, X86Instructions, OperandFields, Range
  <2>2. /\ out = SetCC(instr.cond, out.op)
        /\ out.op \in Op
    BY <1>1, <1>2, <1>7, <2>1 DEF SetCC
  <2> QED
    BY <2>1, <2>2, OneOperandTypes
<1>8. CASE instr.kind = "IDIV"
  <2>1. /\ DOMAIN instr = {"kind", "operand"}
        /\ fields = {"operand"}
    BY <1>8 DEF Instrs, X86Instructions, OperandFields, Range
  <2>2. /\ out = Idiv(out.operand)
        /\ out.operand \in Op
    BY <1>1, <1>2, <1>8, <2>1 DEF Idiv
  <2> QED
    BY <2>1, <2>2, OneOperandTypes
<1>9. CASE instr.kind = "PUSH"
  <2>1. /\ DOMAIN instr = {"kind", "operand"}
        /\ fields = {"operand"}
    BY <1>9 DEF Instrs, X86Instructions, OperandFields, Range
  <2>2. /\ out = Push(out.operand)
        /\ out.operand \in Op
    BY <1>1, <1>2, <1>9, <2>1 DEF Push
  <2> QED
    BY <2>1, <2>2, OneOperandTypes
<1>10. CASE instr.kind \notin {"MOV", "CMP", "BINOP", "UNOP", "SETCC", "IDIV", "PUSH"}
  <2>1. fields = {}
    BY <1>10 DEF OperandFields, Range
  <2>2. instr = [f \in DOMAIN instr |-> instr[f]]
    BY DEF Instrs, X86Instructions
  <2>3. out = instr
    BY <1>1, <1>2, <2>1, <2>2
  <2> QED
    BY <2>3
<1> QED
  BY <1>3, <1>4, <1>5, <1>6, <1>7, <1>8, <1>9, <1>10

-----------------------------------------------------------------------------
(* allocate_stack *)

\* allocate_stack replaces an instruction by well-formed ones.
LEMMA FixTypes ==
  ASSUME NEW instr \in Instrs
  PROVE  Fix(instr) \in Seq(Instrs)
<1>1. Reg("R10") \in Op /\ Reg("R11") \in Op
  BY OperandTypes, RegisterNames
<1>2. CASE instr.kind = "MOV"
  <2>1. instr.src \in Op /\ instr.dst \in Op
    BY <1>2 DEF Instrs, X86Instructions, Op
  <2>2. Mov(Reg("R10"), instr.src) \in Instrs /\ Mov(instr.dst, Reg("R10")) \in Instrs
    BY <1>1, <2>1, TwoOperandTypes
  <2>3. Fix(instr) \in {<<instr>>, <<Mov(Reg("R10"), instr.src), Mov(instr.dst, Reg("R10"))>>}
    BY <1>2 DEF Fix
  <2>4. /\ <<instr>> \in Seq(Instrs)
        /\ <<Mov(Reg("R10"), instr.src), Mov(instr.dst, Reg("R10"))>> \in Seq(Instrs)
    BY <2>2
  <2> QED
    BY <2>3, <2>4
<1>3. CASE instr.kind = "BINOP"
  <2>1. instr.rhs \in Op /\ instr.dst \in Op /\ instr.optype \in X86Binops
    BY <1>3 DEF Instrs, X86Instructions, Op
  <2>2. /\ Mov(Reg("R10"), instr.rhs) \in Instrs
        /\ Mov(Reg("R11"), instr.dst) \in Instrs
        /\ Mov(instr.dst, Reg("R11")) \in Instrs
        /\ Binary("MUL", instr.rhs, Reg("R11")) \in Instrs
        /\ Binary(instr.optype, Reg("R10"), instr.dst) \in Instrs
    BY <1>1, <2>1, TwoOperandTypes DEF X86Binops
  <2>3. Fix(instr) \in
          {<<instr>>,
           <<Mov(Reg("R11"), instr.dst), Binary("MUL", instr.rhs, Reg("R11")),
             Mov(instr.dst, Reg("R11"))>>,
           <<Mov(Reg("R10"), instr.rhs), Binary(instr.optype, Reg("R10"), instr.dst)>>}
    BY <1>3 DEF Fix
  <2>4. /\ <<instr>> \in Seq(Instrs)
        /\ <<Mov(Reg("R11"), instr.dst), Binary("MUL", instr.rhs, Reg("R11")),
             Mov(instr.dst, Reg("R11"))>> \in Seq(Instrs)
        /\ <<Mov(Reg("R10"), instr.rhs), Binary(instr.optype, Reg("R10"), instr.dst)>> \in Seq(Instrs)
    BY <2>2
  <2> QED
    BY <2>3, <2>4
<1>4. CASE instr.kind = "CMP"
  <2>1. instr.lhs \in Op /\ instr.rhs \in Op
    BY <1>4 DEF Instrs, X86Instructions, Op
  <2>2. /\ Mov(Reg("R10"), instr.lhs) \in Instrs
        /\ Cmp(Reg("R10"), instr.rhs) \in Instrs
        /\ Mov(Reg("R11"), instr.rhs) \in Instrs
        /\ Cmp(instr.lhs, Reg("R11")) \in Instrs
    BY <1>1, <2>1, TwoOperandTypes
  <2>3. Fix(instr) \in
          {<<instr>>, <<Mov(Reg("R10"), instr.lhs), Cmp(Reg("R10"), instr.rhs)>>,
           <<Mov(Reg("R11"), instr.rhs), Cmp(instr.lhs, Reg("R11"))>>}
    BY <1>4 DEF Fix
  <2>4. /\ <<instr>> \in Seq(Instrs)
        /\ <<Mov(Reg("R10"), instr.lhs), Cmp(Reg("R10"), instr.rhs)>> \in Seq(Instrs)
        /\ <<Mov(Reg("R11"), instr.rhs), Cmp(instr.lhs, Reg("R11"))>> \in Seq(Instrs)
    BY <2>2
  <2> QED
    BY <2>3, <2>4
<1>5. CASE instr.kind \notin {"MOV", "BINOP", "CMP"}
  <2>1. Fix(instr) = <<instr>>
    BY <1>5 DEF Fix
  <2> QED
    BY <2>1
<1> QED
  BY <1>2, <1>3, <1>4, <1>5

-----------------------------------------------------------------------------
(* The type invariant *)

\* TypeOK with what it rests on: the call expansion is inside a call, every
\* element of code has an origin.
TypeInv ==
  /\ CallInv
  /\ MapInv(opmap)
  /\ phase \in {"params", "codegen", "call", "rename", "fixup", "done"}
  /\ arg \in Nat
  /\ depth \in Int
  /\ code \in Seq(Instrs)
  /\ fixed \in Seq(Instrs)
  /\ from \in Seq(Nat)
  /\ Len(from) = Len(code)
  /\ fixedFrom \in Seq(Nat)

\* Appending instructions that all come from one place.
LEMMA EmitTypes ==
  ASSUME NEW new \in Seq(Instrs), NEW origin \in Nat, Emit(new, origin), TypeInv
  PROVE  code' \in Seq(Instrs) /\ from' \in Seq(Nat) /\ Len(from') = Len(code')
<1> DEFINE origins == [k \in 1 .. Len(new) |-> origin]
<1>1. Len(new) \in Nat /\ origins \in Seq(Nat) /\ Len(origins) = Len(new)
  OBVIOUS
<1>2. code' = code \o new /\ from' = from \o origins
  BY DEF Emit
<1> HIDE DEF origins
<1>3. code' \in Seq(Instrs) /\ Len(code') = Len(code) + Len(new)
  BY <1>2, ConcatProperties DEF TypeInv
<1>4. from' \in Seq(Nat) /\ Len(from') = Len(from) + Len(origins)
  BY <1>1, <1>2, ConcatProperties DEF TypeInv
<1> QED
  BY <1>1, <1>3, <1>4 DEF TypeInv

\* Every pass keeps the types, action by action.
LEMMA TypeInvStep ==
  ASSUME TypeInv, [Next]_passVars
  PROVE  TypeInv'
<1>1. CallInv' /\ MapInv(opmap)'
  BY CallInvStep, MapInvStep DEF TypeInv
<1>2. CASE SaveParams
  <2>1. fn.params \in Seq(Ids)
    BY FunctionsAssumption DEF TypeInv, CallInv
  <2>2. code' \in Seq(Instrs) /\ from' \in Seq(Nat) /\ Len(from') = Len(code')
    BY <1>2, <2>1, SaveParamsTypes, EmitTypes DEF SaveParams
  <2> QED
    BY <1>1, <1>2, <2>2 DEF SaveParams, TypeInv
<1>3. CASE GenInstr
  <2>1. fn.instrs[pos] \in IrInstructions(Ids)
    BY <1>3, InstructionTypes DEF GenInstr, AtInstr, TypeInv, CallInv
  <2>2. code' \in Seq(Instrs) /\ from' \in Seq(Nat) /\ Len(from') = Len(code')
    BY <1>3, <2>1, InstrTypes, EmitTypes DEF GenInstr, TypeInv, CallInv
  <2> QED
    BY <1>1, <1>3, <2>2 DEF GenInstr, AtInstr, TypeInv
<1>4. CASE CallBegin
  <2> DEFINE args == fn.instrs[pos].args
             new == AllocIfAny(Padding(args)) \o RegisterMoves(args)
  <2>1. fn.instrs[pos] \in IrInstructions(Ids)
    BY <1>4, InstructionTypes DEF CallBegin, AtInstr, TypeInv, CallInv
  <2>2. args \in Seq(IrValues(Ids)) /\ Len(args) \in Nat
    BY <1>4, <2>1, ArgumentsAreSequences DEF CallBegin
  <2>3. new \in Seq(Instrs) /\ Padding(args) \in Nat
    <3>1. Padding(args) \in Nat
      BY DEF Padding
    <3>2. AllocIfAny(Padding(args)) \in Seq(Instrs)
      BY <3>1, PaddingTypes
    <3>3. RegisterMoves(args) \in Seq(Instrs)
      BY <2>2, RegisterMovesTypes
    <3> QED
      BY <3>1, <3>2, <3>3, Concatenation
  <2> HIDE DEF new
  <2>4. Emit(new, pos) /\ pos \in Nat
    BY <1>4 DEF CallBegin, new, TypeInv, CallInv
  <2>5. code' \in Seq(Instrs) /\ from' \in Seq(Nat) /\ Len(from') = Len(code')
    BY <2>3, <2>4, EmitTypes
  <2>6. arg' \in Nat /\ depth' \in Int
    BY <1>4, <2>2, <2>3 DEF CallBegin, TypeInv
  <2> QED
    BY <1>1, <1>4, <2>5, <2>6 DEF CallBegin, TypeInv
<1>5. CASE CallPush
  <2> DEFINE args == fn.instrs[pos].args
  <2>1. fn.instrs[pos] \in IrInstructions(Ids) /\ fn.instrs[pos].kind = "FUNCALL"
    BY <1>5, InstructionTypes DEF CallPush, TypeInv, CallInv
  <2>2. args[arg] \in IrValues(Ids) /\ arg \in Nat /\ arg > 6
    <3>1. args \in Seq(IrValues(Ids))
      BY <2>1, ArgumentsAreSequences
    <3>2. arg \in Nat /\ arg > 6 /\ arg <= Len(args)
      BY <1>5, SixArgRegisters DEF CallPush, TypeInv, CallInv
    <3> HIDE DEF args
    <3> QED
      BY <3>1, <3>2
  <2>3. code' \in Seq(Instrs) /\ from' \in Seq(Nat) /\ Len(from') = Len(code')
    BY <1>5, <2>2, PushArgTypes, EmitTypes DEF CallPush, TypeInv, CallInv
  <2> QED
    BY <1>1, <1>5, <2>2, <2>3 DEF CallPush, TypeInv
<1>6. CASE CallFinish
  <2> DEFINE i == fn.instrs[pos]
             new == <<Call(i.f)>> \o DeallocateIfAny(BytesToRemove(i.args))
                                  \o <<Mov(CodegenVal(i.dst), Reg("AX"))>>
  <2>1. i \in IrInstructions(Ids) /\ i.kind = "FUNCALL"
    BY <1>6, InstructionTypes DEF CallFinish, TypeInv, CallInv
  <2>2. Len(i.args) \in Nat /\ i.dst \in IrValues(Ids) /\ i.f \in STRING
    BY <2>1, ArgumentsAreSequences DEF IrValues
  <2>3. <<Call(i.f)>> \in Seq(Instrs) /\ <<Mov(CodegenVal(i.dst), Reg("AX"))>> \in Seq(Instrs)
    <3>1. Call(i.f) \in Instrs /\ Mov(CodegenVal(i.dst), Reg("AX")) \in Instrs
      BY <2>2, NoOperandTypes, TwoOperandTypes, ValueTypes, OperandTypes, RegisterNames
    <3> QED
      BY <3>1
  <2>4. BytesToRemove(i.args) \in Nat /\ DeallocateIfAny(BytesToRemove(i.args)) \in Seq(Instrs)
    <3>1. BytesToRemove(i.args) \in Nat
      BY <2>2, ArgumentCounts
    <3> QED
      BY <3>1, PaddingTypes
  <2>5. new \in Seq(Instrs)
    BY <2>3, <2>4, Concatenation
  <2>6. Emit(new, pos) /\ pos \in Nat
    BY <1>6 DEF CallFinish, TypeInv, CallInv
  <2> HIDE DEF new
  <2>7. code' \in Seq(Instrs) /\ from' \in Seq(Nat) /\ Len(from') = Len(code')
    BY <2>5, <2>6, EmitTypes
  <2>8. depth' \in Int
    BY <1>6, <2>4 DEF CallFinish, TypeInv
  <2> QED
    BY <1>1, <1>6, <2>7, <2>8 DEF CallFinish, TypeInv
<1>7. CASE EndCodegen \/ EndRename
  BY <1>1, <1>7 DEF EndCodegen, EndRename, TypeInv
<1>8. CASE RenameInstr
  <2>1. pos \in 1 .. Len(code) /\ code[pos] \in Instrs
    BY <1>8 DEF RenameInstr, TypeInv, CallInv
  <2>2. RenameOperands(opmap', code[pos]) \in Instrs
    BY <1>8, <2>1, RenameTypes DEF RenameInstr, TypeInv
  <2>3. code' \in Seq(Instrs) /\ Len(code') = Len(code)
    BY <1>8, <2>1, <2>2, ExceptSeq DEF RenameInstr, TypeInv
  <2> QED
    BY <1>1, <1>8, <2>3 DEF RenameInstr, TypeInv
<1>9. CASE FixInstr
  <2> DEFINE new == Fix(code[pos])
             origins == [k \in 1 .. Len(new) |-> from[pos]]
  <2>1. pos \in 1 .. Len(code) /\ code[pos] \in Instrs /\ from[pos] \in Nat
    BY <1>9 DEF FixInstr, TypeInv, CallInv
  <2>2. new \in Seq(Instrs)
    BY <2>1, FixTypes
  <2> HIDE DEF new
  <2>3. Len(new) \in Nat /\ origins \in Seq(Nat)
    BY <2>1, <2>2
  <2>4. fixed' = fixed \o new /\ fixedFrom' = fixedFrom \o origins
    BY <1>9 DEF FixInstr, new
  <2> HIDE DEF origins
  <2>5. fixed' \in Seq(Instrs) /\ fixedFrom' \in Seq(Nat)
    BY <2>2, <2>3, <2>4, ConcatProperties DEF TypeInv
  <2> QED
    BY <1>1, <1>9, <2>5 DEF FixInstr, TypeInv
<1>10. CASE InsertFrame
  <2> DEFINE new == AllocIfAny(Frame(opmap.stack_offset))
             origins == [k \in 1 .. Len(new) |-> 0]
  <2>1. new \in Seq(Instrs)
    <3>1. Frame(opmap.stack_offset) \in Nat
      BY FrameRounds DEF TypeInv, MapInv
    <3> QED
      BY <3>1, PaddingTypes
  <2>2. fixed' = new \o fixed /\ fixedFrom' = origins \o fixedFrom
    BY <1>10 DEF InsertFrame
  <2> HIDE DEF new
  <2>3. Len(new) \in Nat /\ origins \in Seq(Nat)
    BY <2>1
  <2> HIDE DEF origins
  <2>4. fixed' \in Seq(Instrs) /\ fixedFrom' \in Seq(Nat)
    BY <2>1, <2>2, <2>3, ConcatProperties DEF TypeInv
  <2> QED
    BY <1>1, <1>10, <2>4 DEF InsertFrame, TypeInv
<1>11. CASE UNCHANGED passVars
  BY <1>1, <1>11 DEF passVars, TypeInv
<1> QED
  BY <1>2, <1>3, <1>4, <1>5, <1>6, <1>7, <1>8, <1>9, <1>10, <1>11 DEF Next, Pass, Compiled

\* Whatever IR function is compiled, the lists the passes build hold only
\* assembly instructions, with operands of their kinds (codegen_function,
\* rename_registers, allocate_stack).
THEOREM TypeCorrect == Spec => []TypeOK
<1>1. Init => TypeInv
  <2> SUFFICES ASSUME Init PROVE TypeInv
    OBVIOUS
  <2>1. CallInv
    BY DEF Init, CallInv
  <2>2. MapInv(opmap)
    BY CapacityAssumption DEF Init, MapInv, EmptyMap
  <2> QED
    BY <2>1, <2>2 DEF Init, TypeInv
<1>2. TypeInv /\ [Next]_passVars => TypeInv'
  BY TypeInvStep
<1>3. TypeInv => TypeOK
  BY DEF TypeInv, TypeOK, CallInv, MapInv, Instrs
<1> QED
  BY <1>1, <1>2, <1>3, PTL DEF Spec

-----------------------------------------------------------------------------
(* What emit_asm prints, the assembler accepts: proved for every function   *)
(* that divides by no constant and shifts by no variable, the operands      *)
(* allocate_stack does not rewrite.                                         *)

\* The operands the passes can turn into instructions the hardware has.
Supported(i) ==
  i.kind = "BINOP" =>
    /\ i.op \in {"DIV", "MOD"} => i.rhs.kind = "VARIABLE"
    /\ i.op \in {"LSHIFT", "RSHIFT"} => i.rhs.kind = "CONSTANT"

AllSupported == \A f \in IrFunctions : \A k \in DOMAIN f.instrs : Supported(f.instrs[k])

\* What codegen_function leaves for allocate_stack: only sources are immediate,
\* and shift amounts always are.
Fixable(instr) ==
  /\ instr.kind = "MOV" => instr.dst.kind # "IMM"
  /\ instr.kind = "BINOP" =>
       /\ instr.dst.kind # "IMM"
       /\ instr.optype \in {"LSHIFT", "RSHIFT"} => instr.rhs.kind = "IMM"
  /\ instr.kind \in {"UNOP", "IDIV"} => instr.operand.kind # "IMM"
  /\ instr.kind = "SETCC" => instr.op.kind # "IMM"

AllFixable(list) == \A k \in DOMAIN list : Fixable(list[k])

NoPseudo(instr) == \A f \in Range(OperandFields(instr)) : instr[f].kind # "ID"

-----------------------------------------------------------------------------
(* codegen_function *)

\* Instructions whose destination is no immediate.
LEMMA ConstructorsFixable ==
  ASSUME NEW a, NEW b
  PROVE  /\ a.kind # "IMM" => Fixable(Mov(a, b))
         /\ Fixable(Cmp(a, b)) /\ Fixable(Push(a)) /\ Fixable(Ret) /\ Fixable(Cdq)
         /\ Fixable(Jmp(a)) /\ Fixable(JmpCC(a, b)) /\ Fixable(Label(a)) /\ Fixable(Call(a))
         /\ Fixable(Alloc(a)) /\ Fixable(Deallocate(a))
         /\ a.kind # "IMM" => /\ Fixable(Idiv(a))
                              /\ Fixable(Unary(b, a))
                              /\ Fixable(SetCC(b, a))
  BY DEF Fixable, Mov, Cmp, Push, Ret, Cdq, Jmp, JmpCC, Label, Call, Alloc, Deallocate, Idiv, Unary, SetCC

\* Appending keeps it so.
LEMMA ConcatFixable ==
  ASSUME NEW s \in Seq(Instrs), NEW t \in Seq(Instrs), AllFixable(s), AllFixable(t)
  PROVE  AllFixable(s \o t)
<1>1. Len(s \o t) = Len(s) + Len(t) /\ s \o t \in Seq(Instrs)
  BY ConcatProperties
<1>2. ASSUME NEW k \in 1 .. Len(s \o t)
      PROVE  Fixable((s \o t)[k])
  <2>1. CASE k <= Len(s)
    BY <1>2, <2>1, ConcatProperties DEF AllFixable
  <2>2. CASE k > Len(s)
    <3>1. (s \o t)[k] = t[k - Len(s)] /\ k - Len(s) \in 1 .. Len(t)
      BY <1>1, <1>2, <2>2, ConcatProperties
    <3> QED
      BY <3>1 DEF AllFixable
  <2> QED
    BY <1>1, <2>1, <2>2
<1> QED
  BY <1>1, <1>2 DEF AllFixable

\* Variables become pseudo-registers, constants immediates.
LEMMA ValueKinds ==
  ASSUME NEW v \in IrValues(Ids)
  PROVE  /\ v.kind \in {"VARIABLE", "CONSTANT"}
         /\ v.kind = "VARIABLE" => CodegenVal(v).kind = "ID"
         /\ v.kind = "CONSTANT" => CodegenVal(v).kind = "IMM"
  BY DEF IrValues, IrVariables, CodegenVal, Id, Imm

\* codegen_instr on a binary operation.
LEMMA BinopFixable ==
  ASSUME NEW i \in IrInstructions(Ids), i.kind = "BINOP", Supported(i)
  PROVE  AllFixable(CodegenBinop(i))
<1>1. /\ i.op \in IrBinops /\ i.lhs \in IrValues(Ids) /\ i.rhs \in IrValues(Ids)
      /\ i.dst \in IrValues(Ids) /\ i.dst.kind = "VARIABLE"
  BY DEF IrInstructions, IrValues, IrVariables
<1> DEFINE lhs == CodegenVal(i.lhs)
           rhs == CodegenVal(i.rhs)
           dst == CodegenVal(i.dst)
<1>2. dst.kind # "IMM" /\ Reg("AX").kind # "IMM"
  BY <1>1, ValueKinds DEF Reg
<1>3. CASE i.op \in {"DIV", "MOD"}
  <2>1. rhs.kind # "IMM"
    BY <1>1, <1>3, ValueKinds DEF Supported
  <2>2. PICK answer \in {"AX", "DX"} :
          CodegenBinop(i) = <<Mov(Reg("AX"), lhs), Cdq, Idiv(rhs), Mov(dst, Reg(answer))>>
    <3>1. i.op = "DIV" => CodegenBinop(i) = <<Mov(Reg("AX"), lhs), Cdq, Idiv(rhs), Mov(dst, Reg("AX"))>>
      BY DEF CodegenBinop, IrRelations
    <3>2. i.op = "MOD" => CodegenBinop(i) = <<Mov(Reg("AX"), lhs), Cdq, Idiv(rhs), Mov(dst, Reg("DX"))>>
      BY DEF CodegenBinop, IrRelations
    <3> HIDE DEF lhs, rhs, dst
    <3> QED
      BY <1>3, <3>1, <3>2
  <2>3. /\ Fixable(Mov(Reg("AX"), lhs)) /\ Fixable(Cdq) /\ Fixable(Idiv(rhs))
        /\ Fixable(Mov(dst, Reg(answer)))
    BY <1>2, <2>1, ConstructorsFixable
  <2> HIDE DEF lhs, rhs, dst
  <2> QED
    BY <2>2, <2>3 DEF AllFixable
<1>4. CASE i.op \in IrRelations
  <2>1. CodegenBinop(i) = <<Cmp(rhs, lhs), Mov(dst, Imm(0)), SetCC(ConditionCode(i.op), dst)>>
    BY <1>4 DEF CodegenBinop, IrRelations
  <2>2. Fixable(Cmp(rhs, lhs)) /\ Fixable(Mov(dst, Imm(0))) /\ Fixable(SetCC(ConditionCode(i.op), dst))
    BY <1>2, ConstructorsFixable
  <2> HIDE DEF lhs, rhs, dst
  <2> QED
    BY <2>1, <2>2 DEF AllFixable
<1>5. CASE i.op \notin {"DIV", "MOD"} \cup IrRelations
  <2>1. CodegenBinop(i) = <<Mov(dst, lhs), Binary(i.op, rhs, dst)>>
    BY <1>5 DEF CodegenBinop
  <2>2. i.op \in {"LSHIFT", "RSHIFT"} => rhs.kind = "IMM"
    BY <1>1, ValueKinds DEF Supported
  <2>3. Fixable(Mov(dst, lhs))
    BY <1>2, ConstructorsFixable
  <2> HIDE DEF lhs, rhs, dst
  <2>4. Fixable(Binary(i.op, rhs, dst))
    BY <1>2, <2>2 DEF Fixable, Binary
  <2> QED
    BY <2>1, <2>3, <2>4 DEF AllFixable
<1> QED
  BY <1>3, <1>4, <1>5

\* codegen_instr on every other kind but a call.
LEMMA InstrFixable ==
  ASSUME NEW i \in IrInstructions(Ids), i.kind # "FUNCALL", Supported(i)
  PROVE  AllFixable(CodegenInstr(i))
<1>1. CASE i.kind = "RETURN"
  <2>1. CodegenInstr(i) = <<Mov(Reg("AX"), CodegenVal(i.val)), Ret>>
    BY <1>1 DEF CodegenInstr, CodegenReturn
  <2>2. Fixable(Mov(Reg("AX"), CodegenVal(i.val))) /\ Fixable(Ret)
    BY ConstructorsFixable DEF Reg
  <2> QED
    BY <2>1, <2>2 DEF AllFixable
<1>2. CASE i.kind = "UNOP"
  <2>1. i.dst \in IrValues(Ids) /\ i.dst.kind = "VARIABLE"
    BY <1>2 DEF IrInstructions, IrValues, IrVariables
  <2> DEFINE src == CodegenVal(i.src)
             dst == CodegenVal(i.dst)
  <2>2. dst.kind # "IMM"
    BY <2>1, ValueKinds
  <2>3. \/ CodegenInstr(i) = <<Cmp(src, Imm(0)), Mov(dst, Imm(0)), SetCC("E", dst)>>
        \/ CodegenInstr(i) = <<Mov(dst, src), Unary(i.op, dst)>>
    BY <1>2 DEF CodegenInstr, CodegenUnop
  <2>4. /\ Fixable(Cmp(src, Imm(0))) /\ Fixable(Mov(dst, Imm(0))) /\ Fixable(SetCC("E", dst))
        /\ Fixable(Mov(dst, src)) /\ Fixable(Unary(i.op, dst))
    BY <2>2, ConstructorsFixable
  <2> HIDE DEF src, dst
  <2> QED
    BY <2>3, <2>4 DEF AllFixable
<1>3. CASE i.kind = "BINOP"
  BY <1>3, BinopFixable DEF CodegenInstr
<1>4. CASE i.kind \in {"JUMP", "LABEL"}
  <2>1. CodegenInstr(i) \in {<<Jmp(i.target)>>, <<Label(i.id)>>}
    BY <1>4 DEF CodegenInstr
  <2>2. Fixable(Jmp(i.target)) /\ Fixable(Label(i.id))
    BY ConstructorsFixable
  <2> QED
    BY <2>1, <2>2 DEF AllFixable
<1>5. CASE i.kind \in {"JUMP_ZERO", "JUMP_NOT_ZERO"}
  <2>1. PICK c \in {"E", "NE"} : CodegenInstr(i) = <<Cmp(Imm(0), CodegenVal(i.cond)), JmpCC(c, i.target)>>
    BY <1>5 DEF CodegenInstr
  <2>2. Fixable(Cmp(Imm(0), CodegenVal(i.cond))) /\ Fixable(JmpCC(c, i.target))
    BY ConstructorsFixable
  <2> QED
    BY <2>1, <2>2 DEF AllFixable
<1>6. CASE i.kind = "COPY"
  <2>1. i.dst \in IrValues(Ids) /\ i.dst.kind = "VARIABLE"
    BY <1>6 DEF IrInstructions, IrValues, IrVariables
  <2>2. CodegenInstr(i) = <<Mov(CodegenVal(i.dst), CodegenVal(i.src))>>
    BY <1>6 DEF CodegenInstr
  <2>3. Fixable(Mov(CodegenVal(i.dst), CodegenVal(i.src)))
    BY <2>1, ValueKinds, ConstructorsFixable
  <2> QED
    BY <2>2, <2>3 DEF AllFixable
<1> QED
  BY <1>1, <1>2, <1>3, <1>4, <1>5, <1>6 DEF IrInstructions

\* The parameters are copied into their pseudo-registers.
LEMMA SaveParamsFixable ==
  ASSUME NEW params
  PROVE  AllFixable([i \in 1 .. Len(params) |-> Mov(Id(params[i]), ParamSource(i))])
<1>1. ASSUME NEW i \in 1 .. Len(params)
      PROVE  Fixable(Mov(Id(params[i]), ParamSource(i)))
  BY ConstructorsFixable DEF Id
<1> QED
  BY <1>1 DEF AllFixable

\* The expansion of a call writes registers and one variable.
LEMMA CallFixable ==
  /\ \A n : AllFixable(AllocIfAny(n)) /\ AllFixable(DeallocateIfAny(n))
  /\ \A args : AllFixable(RegisterMoves(args))
  /\ \A v : AllFixable(PushArg(v))
  /\ \A f : AllFixable(<<Call(f)>>)
  /\ \A v \in IrVariables(Ids) : AllFixable(<<Mov(CodegenVal(v), Reg("AX"))>>)
<1>1. ASSUME NEW n
      PROVE  AllFixable(AllocIfAny(n)) /\ AllFixable(DeallocateIfAny(n))
  <2>1. Fixable(Alloc(n)) /\ Fixable(Deallocate(n))
    BY ConstructorsFixable
  <2> QED
    BY <2>1 DEF AllFixable, AllocIfAny, DeallocateIfAny
<1>2. ASSUME NEW args
      PROVE  AllFixable(RegisterMoves(args))
  <2>1. \A k : Fixable(Mov(Reg(ArgRegisters[k]), CodegenVal(args[k])))
    BY ConstructorsFixable DEF Reg
  <2> QED
    BY <2>1 DEF AllFixable, RegisterMoves
<1>3. ASSUME NEW v
      PROVE  AllFixable(PushArg(v))
  <2>1. /\ Fixable(Push(CodegenVal(v))) /\ Fixable(Push(Reg("AX")))
        /\ Fixable(Mov(Reg("AX"), CodegenVal(v)))
    BY ConstructorsFixable DEF Reg
  <2> QED
    BY <2>1 DEF AllFixable, PushArg
<1>4. ASSUME NEW f
      PROVE  AllFixable(<<Call(f)>>)
  BY ConstructorsFixable DEF AllFixable
<1>5. ASSUME NEW v \in IrVariables(Ids)
      PROVE  AllFixable(<<Mov(CodegenVal(v), Reg("AX"))>>)
  <2>1. CodegenVal(v).kind # "IMM"
    BY ValueKinds DEF IrValues, IrVariables
  <2>2. Fixable(Mov(CodegenVal(v), Reg("AX")))
    BY <2>1, ConstructorsFixable
  <2> QED
    BY <2>2 DEF AllFixable
<1> QED
  BY <1>1, <1>2, <1>3, <1>4, <1>5

-----------------------------------------------------------------------------
(* rename_registers *)

\* Renaming leaves no pseudo-register, and what is immediate stays so.
LEMMA RenamedFixable ==
  ASSUME NEW m, NEW instr \in Instrs, Fixable(instr)
  PROVE  Fixable(RenameOperands(m, instr)) /\ NoPseudo(RenameOperands(m, instr))
<1> DEFINE out == RenameOperands(m, instr)
           fields == Range(OperandFields(instr))
<1>1. /\ DOMAIN out = DOMAIN instr
      /\ \A f \in fields \cap DOMAIN instr : out[f] = Renamed(m, instr[f])
      /\ \A f \in DOMAIN instr \ fields : out[f] = instr[f]
  BY DEF RenameOperands
<1>2. \A op : /\ Renamed(m, op).kind # "ID"
              /\ Renamed(m, op).kind = "IMM" <=> op.kind = "IMM"
  BY DEF Renamed, Stack
<1>3. /\ "kind" \in DOMAIN instr /\ "kind" \notin fields /\ fields \subseteq DOMAIN instr
      /\ instr.kind = "MOV" => fields = {"dst", "src"}
      /\ instr.kind = "BINOP" => fields = {"rhs", "dst"} /\ "optype" \in DOMAIN instr
      /\ instr.kind \in {"UNOP", "IDIV"} => fields = {"operand"}
      /\ instr.kind = "SETCC" => fields = {"op"}
  BY DEF Instrs, X86Instructions, OperandFields, Range
<1> HIDE DEF out, fields
<1>4. out.kind = instr.kind
  BY <1>1, <1>3
<1>5. Fixable(out)
  BY <1>1, <1>2, <1>3, <1>4 DEF Fixable
<1>6. OperandFields(out) = OperandFields(instr)
  BY <1>4 DEF OperandFields
<1>7. NoPseudo(out)
  BY <1>1, <1>2, <1>3, <1>6 DEF NoPseudo, fields
<1> QED
  BY <1>5, <1>7 DEF out

-----------------------------------------------------------------------------
(* allocate_stack *)

\* What is encodable, in terms of the fields of each kind.
LEMMA MeaningOfNoPseudo ==
  ASSUME NEW instr, NoPseudo(instr)
  PROVE  \A op \in Operands(instr) : op.kind # "ID"
  BY DEF NoPseudo, Operands, OperandFields, Range

\* What the hardware demands of an instruction with two operands.
LEMMA TwoOperandsEncodable ==
  ASSUME NEW a, NEW b, a.kind # "ID", b.kind # "ID", ~(InMemory(a) /\ InMemory(b))
  PROVE  /\ a.kind # "IMM" => Encodable(Mov(a, b))
         /\ b.kind # "IMM" => Encodable(Cmp(a, b))
         /\ \A t : /\ b.kind # "IMM"
                   /\ t = "MUL" => b.kind = "REG"
                   /\ t \in {"LSHIFT", "RSHIFT"} => a.kind = "IMM"
                   => Encodable(Binary(t, a, b))
<1>1. Operands(Mov(a, b)) = {a, b} /\ Operands(Cmp(a, b)) = {a, b}
  BY DEF Operands, OperandFields, Mov, Cmp
<1>2. \A t : Operands(Binary(t, a, b)) = {a, b}
  BY DEF Operands, OperandFields, Binary
<1>3. a.kind # "IMM" => Encodable(Mov(a, b))
  BY <1>1 DEF Encodable, Mov
<1>4. b.kind # "IMM" => Encodable(Cmp(a, b))
  BY <1>1 DEF Encodable, Cmp
<1>5. ASSUME NEW t, b.kind # "IMM", t = "MUL" => b.kind = "REG", t \in {"LSHIFT", "RSHIFT"} => a.kind = "IMM"
      PROVE  Encodable(Binary(t, a, b))
  BY <1>2, <1>5 DEF Encodable, Binary
<1> QED
  BY <1>3, <1>4, <1>5

\* The rewriting of allocate_stack is enough.
LEMMA FixEncodable ==
  ASSUME NEW instr \in Instrs, Fixable(instr), NoPseudo(instr)
  PROVE  \A k \in DOMAIN Fix(instr) : Encodable(Fix(instr)[k])
<1> DEFINE R10 == Reg("R10")
           R11 == Reg("R11")
<1>1. R10.kind = "REG" /\ R11.kind = "REG"
  BY DEF Reg
<1>2. \A op \in Operands(instr) : op.kind # "ID"
  BY MeaningOfNoPseudo
<1> HIDE DEF R10, R11
<1>3. CASE instr.kind = "MOV"
  <2> DEFINE dst == instr.dst
             src == instr.src
  <2>1. instr = Mov(dst, src) /\ dst.kind # "ID" /\ src.kind # "ID" /\ dst.kind # "IMM"
    BY <1>2, <1>3 DEF Instrs, X86Instructions, Mov, Fixable, Operands, OperandFields
  <2>2. CASE InMemory(dst) /\ InMemory(src)
    <3>1. Fix(instr) = <<Mov(R10, src), Mov(dst, R10)>>
      BY <1>3, <2>2 DEF Fix, R10
    <3>2. Encodable(Mov(R10, src)) /\ Encodable(Mov(dst, R10))
      BY <1>1, <2>1, TwoOperandsEncodable DEF InMemory
    <3> QED
      BY <3>1, <3>2
  <2>3. CASE ~(InMemory(dst) /\ InMemory(src))
    <3>1. Fix(instr) = <<instr>>
      BY <1>3, <2>3 DEF Fix
    <3>2. Encodable(Mov(dst, src))
      BY <2>1, <2>3, TwoOperandsEncodable
    <3> QED
      BY <2>1, <3>1, <3>2
  <2> QED
    BY <2>2, <2>3
<1>4. CASE instr.kind = "BINOP"
  <2> DEFINE dst == instr.dst
             rhs == instr.rhs
             t == instr.optype
  <2>1. /\ instr = Binary(t, rhs, dst) /\ dst \in Op
        /\ dst.kind # "ID" /\ rhs.kind # "ID" /\ dst.kind # "IMM"
        /\ t \in {"LSHIFT", "RSHIFT"} => rhs.kind = "IMM"
    BY <1>2, <1>4 DEF Instrs, X86Instructions, Binary, Fixable, Operands, OperandFields, Op
  <2>2. InMemory(dst) \/ dst.kind = "REG"
    BY <2>1 DEF Op, X86Operands, InMemory
  <2>3. CASE t = "MUL" /\ InMemory(dst)
    <3>1. Fix(instr) = <<Mov(R11, dst), Binary("MUL", rhs, R11), Mov(dst, R11)>>
      BY <1>4, <2>3 DEF Fix, R11
    <3>2. Encodable(Mov(R11, dst)) /\ Encodable(Mov(dst, R11)) /\ Encodable(Binary("MUL", rhs, R11))
      BY <1>1, <2>1, TwoOperandsEncodable DEF InMemory
    <3> QED
      BY <3>1, <3>2
  <2>4. CASE t # "MUL" /\ InMemory(dst) /\ InMemory(rhs)
    <3>1. Fix(instr) = <<Mov(R10, rhs), Binary(t, R10, dst)>>
      BY <1>4, <2>4 DEF Fix, R10
    <3>2. t \notin {"LSHIFT", "RSHIFT"}
      BY <2>1, <2>4 DEF InMemory
    <3>3. Encodable(Mov(R10, rhs)) /\ Encodable(Binary(t, R10, dst))
      BY <1>1, <2>1, <2>4, <3>2, TwoOperandsEncodable DEF InMemory
    <3> QED
      BY <3>1, <3>3
  <2>5. CASE IF t = "MUL" THEN ~InMemory(dst) ELSE ~(InMemory(dst) /\ InMemory(rhs))
    <3>1. Fix(instr) = <<instr>>
      BY <1>4, <2>5 DEF Fix
    <3>2. Encodable(Binary(t, rhs, dst))
      BY <2>1, <2>2, <2>5, TwoOperandsEncodable
    <3> QED
      BY <2>1, <3>1, <3>2
  <2> QED
    BY <2>3, <2>4, <2>5
<1>5. CASE instr.kind = "CMP"
  <2> DEFINE lhs == instr.lhs
             rhs == instr.rhs
  <2>1. instr = Cmp(lhs, rhs) /\ lhs.kind # "ID" /\ rhs.kind # "ID"
    BY <1>2, <1>5 DEF Instrs, X86Instructions, Cmp, Operands, OperandFields
  <2>2. CASE InMemory(lhs) /\ InMemory(rhs)
    <3>1. Fix(instr) = <<Mov(R10, lhs), Cmp(R10, rhs)>>
      BY <1>5, <2>2 DEF Fix, R10, InMemory
    <3>2. Encodable(Mov(R10, lhs)) /\ Encodable(Cmp(R10, rhs))
      BY <1>1, <2>1, <2>2, TwoOperandsEncodable DEF InMemory
    <3> QED
      BY <3>1, <3>2
  <2>3. CASE rhs.kind = "IMM"
    <3>1. Fix(instr) = <<Mov(R11, rhs), Cmp(lhs, R11)>>
      BY <1>5, <2>3 DEF Fix, R11, InMemory
    <3>2. Encodable(Mov(R11, rhs)) /\ Encodable(Cmp(lhs, R11))
      BY <1>1, <2>1, <2>3, TwoOperandsEncodable DEF InMemory
    <3> QED
      BY <3>1, <3>2
  <2>4. CASE ~(InMemory(lhs) /\ InMemory(rhs)) /\ rhs.kind # "IMM"
    <3>1. Fix(instr) = <<instr>>
      BY <1>5, <2>4 DEF Fix
    <3>2. Encodable(Cmp(lhs, rhs))
      BY <2>1, <2>4, TwoOperandsEncodable
    <3> QED
      BY <2>1, <3>1, <3>2
  <2> QED
    BY <2>2, <2>3, <2>4
<1>6. CASE instr.kind \notin {"MOV", "BINOP", "CMP"}
  <2>1. Fix(instr) = <<instr>>
    BY <1>6 DEF Fix
  <2>2. Encodable(instr)
    BY <1>2, <1>6 DEF Encodable, Fixable
  <2> QED
    BY <2>1, <2>2
<1> QED
  BY <1>3, <1>4, <1>5, <1>6

-----------------------------------------------------------------------------
(* The invariant *)

\* What each pass leaves for the next.
EncodingInv ==
  /\ TypeInv
  /\ AllFixable(code)
  /\ phase = "rename" => \A k \in 1 .. pos - 1 : k <= Len(code) => NoPseudo(code[k])
  /\ phase \in {"fixup", "done"} => \A k \in DOMAIN code : NoPseudo(code[k])
  /\ \A k \in DOMAIN fixed : Encodable(fixed[k])

\* Appending encodable instructions.
LEMMA ConcatEncodable ==
  ASSUME NEW s \in Seq(Instrs), NEW t \in Seq(Instrs),
         \A k \in DOMAIN s : Encodable(s[k]), \A k \in DOMAIN t : Encodable(t[k])
  PROVE  \A k \in DOMAIN (s \o t) : Encodable((s \o t)[k])
<1>1. Len(s \o t) = Len(s) + Len(t) /\ s \o t \in Seq(Instrs)
  BY ConcatProperties
<1>2. ASSUME NEW k \in 1 .. Len(s \o t)
      PROVE  Encodable((s \o t)[k])
  <2>1. CASE k <= Len(s)
    BY <1>2, <2>1, ConcatProperties
  <2>2. CASE k > Len(s)
    <3>1. (s \o t)[k] = t[k - Len(s)] /\ k - Len(s) \in 1 .. Len(t)
      BY <1>1, <1>2, <2>2, ConcatProperties
    <3> QED
      BY <3>1
  <2> QED
    BY <1>1, <2>1, <2>2
<1> QED
  BY <1>1, <1>2

\* Code generation appends instructions that can be fixed.
LEMMA EmitFixable ==
  ASSUME EncodingInv, NEW new \in Seq(Instrs), AllFixable(new), NEW origin, Emit(new, origin)
  PROVE  AllFixable(code')
  BY ConcatFixable DEF EncodingInv, TypeInv, Emit

LEMMA EncodingInvStep ==
  ASSUME AllSupported, EncodingInv, [Next]_passVars
  PROVE  EncodingInv'
<1>1. TypeInv' /\ TypeInv
  BY TypeInvStep DEF EncodingInv
<1>2. CASE SaveParams
  <2>1. fn.params \in Seq(Ids)
    BY FunctionsAssumption DEF EncodingInv, TypeInv, CallInv
  <2>2. AllFixable(code')
    BY <1>2, <2>1, SaveParamsTypes, SaveParamsFixable, EmitFixable DEF SaveParams
  <2> QED
    BY <1>1, <1>2, <2>2 DEF SaveParams, EncodingInv
<1>3. CASE GenInstr
  <2>1. fn.instrs[pos] \in IrInstructions(Ids)
    BY <1>3, InstructionTypes DEF GenInstr, AtInstr, EncodingInv, TypeInv, CallInv
  <2>2. Supported(fn.instrs[pos])
    <3>1. fn \in IrFunctions /\ pos \in Nat \ {0} /\ pos <= Len(fn.instrs) /\ fn.instrs \in Seq(IrInstructions(Ids))
      BY <1>3, FunctionsAssumption DEF GenInstr, AtInstr, EncodingInv, TypeInv, CallInv
    <3> QED
      BY <3>1 DEF AllSupported
  <2>3. AllFixable(code')
    BY <1>3, <2>1, <2>2, InstrTypes, InstrFixable, EmitFixable DEF GenInstr
  <2> QED
    BY <1>1, <1>3, <2>3 DEF GenInstr, AtInstr, EncodingInv
<1>4. CASE CallBegin
  <2> DEFINE args == fn.instrs[pos].args
             first == AllocIfAny(Padding(args))
             second == RegisterMoves(args)
  <2>1. fn.instrs[pos] \in IrInstructions(Ids)
    BY <1>4, InstructionTypes DEF CallBegin, AtInstr, EncodingInv, TypeInv, CallInv
  <2>2. args \in Seq(IrValues(Ids))
    BY <1>4, <2>1, ArgumentsAreSequences DEF CallBegin
  <2>3. first \in Seq(Instrs) /\ second \in Seq(Instrs)
    <3>1. Padding(args) \in Nat
      BY DEF Padding
    <3>2. first \in Seq(Instrs)
      BY <3>1, PaddingTypes
    <3>3. second \in Seq(Instrs)
      BY <2>2, RegisterMovesTypes
    <3> QED
      BY <3>2, <3>3
  <2>4. AllFixable(first) /\ AllFixable(second)
    BY CallFixable
  <2>5. Emit(first \o second, pos)
    BY <1>4 DEF CallBegin
  <2> HIDE DEF first, second
  <2>6. AllFixable(first \o second) /\ first \o second \in Seq(Instrs)
    BY <2>3, <2>4, ConcatFixable, Concatenation
  <2>7. AllFixable(code')
    BY <2>5, <2>6, EmitFixable
  <2> QED
    BY <1>1, <1>4, <2>7 DEF CallBegin, EncodingInv
<1>5. CASE CallPush
  <2> DEFINE args == fn.instrs[pos].args
  <2>1. args \in Seq(IrValues(Ids)) /\ arg \in 1 .. Len(args)
    <3>1. fn.instrs[pos] \in IrInstructions(Ids) /\ fn.instrs[pos].kind = "FUNCALL"
      BY <1>5, InstructionTypes DEF CallPush, EncodingInv, TypeInv, CallInv
    <3>2. args \in Seq(IrValues(Ids))
      BY <3>1, ArgumentsAreSequences
    <3> QED
      BY <1>5, <3>2, SixArgRegisters DEF CallPush, EncodingInv, TypeInv, CallInv
  <2>2. args[arg] \in IrValues(Ids)
    BY <2>1
  <2>3. AllFixable(code')
    BY <1>5, <2>2, PushArgTypes, CallFixable, EmitFixable DEF CallPush
  <2> QED
    BY <1>1, <1>5, <2>3 DEF CallPush, EncodingInv
<1>6. CASE CallFinish
  <2> DEFINE i == fn.instrs[pos]
             first == <<Call(i.f)>>
             second == DeallocateIfAny(BytesToRemove(i.args))
             third == <<Mov(CodegenVal(i.dst), Reg("AX"))>>
  <2>1. i \in IrInstructions(Ids) /\ i.kind = "FUNCALL"
    BY <1>6, InstructionTypes DEF CallFinish, EncodingInv, TypeInv, CallInv
  <2>2. Len(i.args) \in Nat /\ i.dst \in IrVariables(Ids) /\ i.dst \in IrValues(Ids) /\ i.f \in STRING
    BY <2>1, ArgumentsAreSequences DEF IrValues
  <2>3. first \in Seq(Instrs) /\ second \in Seq(Instrs) /\ third \in Seq(Instrs)
    <3>1. Call(i.f) \in Instrs /\ Mov(CodegenVal(i.dst), Reg("AX")) \in Instrs
      BY <2>2, NoOperandTypes, TwoOperandTypes, ValueTypes, OperandTypes, RegisterNames
    <3>2. BytesToRemove(i.args) \in Nat
      BY <2>2, ArgumentCounts
    <3> QED
      BY <3>1, <3>2, PaddingTypes
  <2>4. AllFixable(first) /\ AllFixable(second) /\ AllFixable(third)
    BY <2>2, CallFixable
  <2>5. Emit(first \o second \o third, pos)
    BY <1>6 DEF CallFinish
  <2> HIDE DEF first, second, third
  <2>6. AllFixable(first \o second) /\ first \o second \in Seq(Instrs)
    BY <2>3, <2>4, ConcatFixable, Concatenation
  <2>7. AllFixable(first \o second \o third) /\ first \o second \o third \in Seq(Instrs)
    BY <2>3, <2>4, <2>6, ConcatFixable, Concatenation
  <2>8. AllFixable(code')
    BY <2>5, <2>7, EmitFixable
  <2> QED
    BY <1>1, <1>6, <2>8 DEF CallFinish, EncodingInv
<1>7. CASE EndCodegen
  BY <1>1, <1>7 DEF EndCodegen, EncodingInv, AllFixable
<1>8. CASE RenameInstr
  <2> DEFINE new == RenameOperands(opmap', code[pos])
  <2>1. pos \in 1 .. Len(code) /\ code[pos] \in Instrs /\ code \in Seq(Instrs)
    BY <1>1, <1>8 DEF RenameInstr, TypeInv, CallInv
  <2>2. Fixable(new) /\ NoPseudo(new)
    BY <2>1, RenamedFixable DEF EncodingInv, AllFixable
  <2>3. code' = [code EXCEPT ![pos] = new]
    BY <1>8 DEF RenameInstr
  <2> HIDE DEF new
  <2>4. AllFixable(code') /\ DOMAIN code' = DOMAIN code
    BY <2>1, <2>2, <2>3 DEF EncodingInv, AllFixable
  <2>5. \A k \in 1 .. pos : NoPseudo(code'[k])
    BY <1>8, <2>1, <2>2, <2>3 DEF EncodingInv, RenameInstr
  <2> QED
    BY <1>1, <1>8, <2>1, <2>4, <2>5 DEF RenameInstr, EncodingInv
<1>9. CASE EndRename
  <2>1. pos \in Nat \ {0} /\ pos > Len(code) /\ code \in Seq(Instrs)
    BY <1>1, <1>9 DEF EndRename, TypeInv, CallInv
  <2>2. \A k \in DOMAIN code : NoPseudo(code[k])
    BY <1>9, <2>1 DEF EndRename, EncodingInv
  <2> QED
    BY <1>1, <1>9, <2>2 DEF EndRename, EncodingInv, AllFixable
<1>10. CASE FixInstr
  <2> DEFINE new == Fix(code[pos])
  <2>1. pos \in DOMAIN code /\ code[pos] \in Instrs /\ fixed \in Seq(Instrs)
    BY <1>1, <1>10 DEF FixInstr, TypeInv, CallInv
  <2>2. Fixable(code[pos]) /\ NoPseudo(code[pos])
    BY <1>10, <2>1 DEF FixInstr, EncodingInv, AllFixable
  <2>3. new \in Seq(Instrs) /\ \A k \in DOMAIN new : Encodable(new[k])
    BY <2>1, <2>2, FixTypes, FixEncodable
  <2>4. fixed' = fixed \o new
    BY <1>10 DEF FixInstr
  <2> HIDE DEF new
  <2>5. \A k \in DOMAIN fixed' : Encodable(fixed'[k])
    BY <2>1, <2>3, <2>4, ConcatEncodable DEF EncodingInv
  <2> QED
    BY <1>1, <1>10, <2>5 DEF FixInstr, EncodingInv, AllFixable
<1>11. CASE InsertFrame
  <2> DEFINE new == AllocIfAny(Frame(opmap.stack_offset))
  <2>1. new \in Seq(Instrs)
    <3>1. Frame(opmap.stack_offset) \in Nat
      BY FrameRounds DEF EncodingInv, TypeInv, MapInv
    <3> QED
      BY <3>1, PaddingTypes
  <2>2. \A k \in DOMAIN new : Encodable(new[k])
    <3>1. \A n : Encodable(Alloc(n))
      BY DEF Encodable, Alloc, Operands, OperandFields
    <3> QED
      BY <3>1 DEF AllocIfAny
  <2>3. fixed' = new \o fixed
    BY <1>11 DEF InsertFrame
  <2> HIDE DEF new
  <2>4. \A k \in DOMAIN fixed' : Encodable(fixed'[k])
    BY <1>1, <2>1, <2>2, <2>3, ConcatEncodable DEF EncodingInv, TypeInv
  <2> QED
    BY <1>1, <1>11, <2>4 DEF InsertFrame, EncodingInv, AllFixable
<1>12. CASE UNCHANGED passVars
  BY <1>1, <1>12 DEF passVars, EncodingInv, AllFixable
<1> QED
  BY <1>2, <1>3, <1>4, <1>5, <1>6, <1>7, <1>8, <1>9, <1>10, <1>11, <1>12 DEF Next, Pass, Compiled

\* Everything emit_asm prints, the assembler accepts, for every set of
\* functions without a constant divisor and without a shift by a variable.
THEOREM OutputEncodable ==
  ASSUME AllSupported
  PROVE  Spec => []AllEncodable
<1>1. Init => EncodingInv
  <2> SUFFICES ASSUME Init PROVE EncodingInv
    OBVIOUS
  <2>1. CallInv
    BY DEF Init, CallInv
  <2>2. MapInv(opmap)
    BY CapacityAssumption DEF Init, MapInv, EmptyMap
  <2>3. TypeInv
    BY <2>1, <2>2 DEF Init, TypeInv
  <2> QED
    BY <2>3 DEF Init, EncodingInv, AllFixable
<1>2. EncodingInv /\ [Next]_passVars => EncodingInv'
  BY EncodingInvStep
<1>3. EncodingInv => AllEncodable
  BY DEF EncodingInv, AllEncodable
<1> QED
  BY <1>1, <1>2, <1>3, PTL DEF Spec
=============================================================================
