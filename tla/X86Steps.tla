------------------------------ MODULE X86Steps ------------------------------
(***************************************************************************)
(* The running program: that its stack is aligned, balanced and covers the  *)
(* slots; what registers, flags and stack hold at one place of the printed  *)
(* code, the steps that prepare an instruction and the IR does not see, and *)
(* the code of every IR instruction that calls nothing.  Proved for every   *)
(* compiled function, every word width and every part of the stack that is  *)
(* modelled.                                                                *)
(***************************************************************************)
EXTENDS X86Machine, BackendLayout, WordProofs

-----------------------------------------------------------------------------
(* The stack *)

\* While the passes run the processor waits; then %rsp is where the depth of
\* the next instruction says.
RunInv ==
  /\ ~Loaded => pc = 1 /\ rsp = 0
  /\ Loaded => /\ pc \in 1 .. Len(fixed) + 1
               /\ \E e \in [1 .. Len(fixed) + 1 -> Nat] :
                    FrameDepths(fixed, fixedFrom, Frame(opmap.stack_offset), e) /\ rsp = 0 - e[pc]

MachineInv == StackInv /\ RunInv

-----------------------------------------------------------------------------
(* The passes *)

\* No pass runs once the function is compiled.
LEMMA PassesCompile ==
  ASSUME StackInv, Pass
  PROVE  ~Loaded
  BY DEF Loaded, AtInstr, Pass, SaveParams, GenInstr, CallBegin, CallPush, CallFinish, EndCodegen, RenameInstr,
         EndRename, FixInstr, InsertFrame

\* Compiling leaves the processor at the first instruction.
LEMMA CompileRun ==
  ASSUME MachineInv, Compile
  PROVE  MachineInv'
<1>1. StackInv'
  BY StackInvStep DEF MachineInv, Compile, Next
<1>2. ~Loaded /\ pc' = 1 /\ rsp' = 0
  BY PassesCompile DEF Compile, MachineInv, RunInv, machineVars
<1>3. CASE ~Loaded'
  BY <1>1, <1>2, <1>3 DEF MachineInv, RunInv
<1>4. CASE Loaded'
  <2>1. PICK e \in [1 .. Len(fixed') + 1 -> Nat] : FrameDepths(fixed', fixedFrom', Frame(opmap'.stack_offset), e)
    BY <1>1, <1>4 DEF StackInv, Loaded
  <2>2. fixed' \in Seq(Instrs)
    BY <1>1 DEF StackInv, TypeInv
  <2>3. 1 \in 1 .. Len(fixed') + 1
    BY <2>2
  <2>4. e[1] = 0
    BY <2>1 DEF FrameDepths
  <2> QED
    BY <1>1, <1>2, <1>4, <2>1, <2>3, <2>4 DEF MachineInv, RunInv
<1> QED
  BY <1>3, <1>4

-----------------------------------------------------------------------------
(* The processor *)

\* What an instruction does to %rsp and where it goes on.
Moves(k) ==
  \/ pc' = pc + 1 /\ rsp' = rsp - Taken(fixed[pc]) /\ k = pc + 1
  \/ pc' = k /\ rsp' = rsp /\ k \in 1 .. Len(fixed) /\ Transfers(fixed[pc]) /\ Transfers(fixed[k])

\* Instructions that leave %rsp alone and go on to the next one.
LEMMA StepsOn ==
  ASSUME ExecMov \/ ExecUnop \/ ExecBinop \/ ExecCdq \/ ExecCmp \/ ExecSetCC \/ ExecLabel \/ ExecCall
  PROVE  /\ Loaded /\ pc <= Len(fixed) /\ UNCHANGED passVars
         /\ pc' = pc + 1 /\ rsp' = rsp /\ Taken(fixed[pc]) = 0
  BY DEF ExecMov, ExecUnop, ExecBinop, ExecCdq, ExecCmp, ExecSetCC, ExecLabel, ExecCall, Executing, Advance, Taken

\* The depth map says where %rsp is after every instruction.
LEMMA MovesKeep ==
  ASSUME MachineInv, Loaded, pc <= Len(fixed), UNCHANGED passVars, NEW k, Moves(k)
  PROVE  MachineInv'
<1>1. fixed \in Seq(Instrs) /\ Len(fixed) \in Nat /\ pc \in 1 .. Len(fixed)
  BY DEF MachineInv, StackInv, TypeInv, RunInv
<1>2. PICK e \in [1 .. Len(fixed) + 1 -> Nat] :
        FrameDepths(fixed, fixedFrom, Frame(opmap.stack_offset), e) /\ rsp = 0 - e[pc]
  BY DEF MachineInv, RunInv
<1>3. e[pc] \in Nat /\ e[pc + 1] \in Nat /\ Taken(fixed[pc]) \in Int
  <2>1. pc \in 1 .. Len(fixed) + 1 /\ pc + 1 \in 1 .. Len(fixed) + 1
    BY <1>1
  <2>2. fixed[pc] \in Instrs
    BY <1>1
  <2> QED
    BY <2>1, <2>2, TakenIsInteger
<1>4. StackInv'
  BY StackInvStep DEF MachineInv
<1>5. CASE pc' = pc + 1 /\ rsp' = rsp - Taken(fixed[pc]) /\ k = pc + 1
  <2>1. e[pc + 1] = e[pc] + Taken(fixed[pc])
    BY <1>1, <1>2 DEF FrameDepths
  <2>2. rsp' = 0 - e[pc'] /\ pc' \in 1 .. Len(fixed) + 1
    BY <1>1, <1>2, <1>3, <1>5, <2>1
  <2> QED
    BY <1>2, <1>4, <2>2 DEF MachineInv, RunInv, Loaded, passVars
<1>6. CASE pc' = k /\ rsp' = rsp /\ k \in 1 .. Len(fixed) /\ Transfers(fixed[pc]) /\ Transfers(fixed[k])
  <2>1. e[k] = e[pc]
    BY <1>1, <1>2, <1>6 DEF FrameDepths
  <2>2. rsp' = 0 - e[pc'] /\ pc' \in 1 .. Len(fixed) + 1
    BY <1>1, <1>2, <1>6, <2>1
  <2> QED
    BY <1>2, <1>4, <2>2 DEF MachineInv, RunInv, Loaded, passVars
<1> QED
  BY <1>5, <1>6 DEF Moves

\* A processor that stops keeps %rsp.
LEMMA StopsKeep ==
  ASSUME MachineInv, Loaded, UNCHANGED passVars, UNCHANGED <<pc, rsp>>
  PROVE  MachineInv'
<1>1. StackInv'
  BY StackInvStep DEF MachineInv
<1> QED
  BY <1>1 DEF MachineInv, RunInv, Loaded, passVars

\* Every instruction keeps the invariant.
LEMMA ExecRun ==
  ASSUME MachineInv, Exec
  PROVE  MachineInv'
<1>1. rsp \in Int
  <2>1. ASSUME Loaded
        PROVE  rsp \in Int
    <3>1. PICK e \in [1 .. Len(fixed) + 1 -> Nat] : rsp = 0 - e[pc] /\ pc \in 1 .. Len(fixed) + 1
      BY <2>1 DEF MachineInv, RunInv
    <3> QED
      BY <3>1
  <2> QED
    BY <2>1 DEF MachineInv, RunInv
<1>2. CASE ExecMov \/ ExecUnop \/ ExecBinop \/ ExecCdq \/ ExecCmp \/ ExecSetCC \/ ExecLabel \/ ExecCall
  <2>1. /\ Loaded /\ pc <= Len(fixed) /\ UNCHANGED passVars
        /\ pc' = pc + 1 /\ rsp' = rsp /\ Taken(fixed[pc]) = 0
    BY <1>2, StepsOn
  <2>2. Moves(pc + 1)
    BY <1>1, <2>1 DEF Moves
  <2> QED
    BY <2>1, <2>2, MovesKeep
<1>3. CASE ExecIdiv
  <2>1. Loaded /\ pc <= Len(fixed) /\ UNCHANGED passVars /\ rsp' = rsp /\ Taken(fixed[pc]) = 0
    BY <1>3 DEF ExecIdiv, Executing, Taken
  <2>2. pc' = pc \/ pc' = pc + 1
    BY <1>3 DEF ExecIdiv, Advance
  <2>3. CASE pc' = pc
    BY <2>1, <2>3, StopsKeep
  <2>4. CASE pc' = pc + 1
    <3>1. Moves(pc + 1)
      BY <1>1, <2>1, <2>4 DEF Moves
    <3> QED
      BY <2>1, <3>1, MovesKeep
  <2> QED
    BY <2>2, <2>3, <2>4
<1>4. CASE ExecJump \/ ExecBranch
  <2>1. /\ Loaded /\ pc <= Len(fixed) /\ UNCHANGED passVars /\ rsp' = rsp /\ Taken(fixed[pc]) = 0
        /\ Transfers(fixed[pc])
    BY <1>4 DEF ExecJump, ExecBranch, Executing, Taken, Transfers
  <2>2. JumpTo(fixed[pc].target) \/ Advance
    BY <1>4 DEF ExecJump, ExecBranch
  <2>3. CASE JumpTo(fixed[pc].target)
    <3>1. PICK k \in 1 .. Len(fixed) : fixed[k] = Label(fixed[pc].target) /\ pc' = k
      BY <2>3 DEF JumpTo
    <3>2. Moves(k)
      BY <2>1, <3>1 DEF Moves, Transfers, Label
    <3> QED
      BY <2>1, <3>2, MovesKeep
  <2>4. CASE Advance
    <3>1. Moves(pc + 1)
      BY <1>1, <2>1, <2>4 DEF Moves, Advance
    <3> QED
      BY <2>1, <3>1, MovesKeep
  <2> QED
    BY <2>2, <2>3, <2>4
<1>5. CASE ExecAlloc \/ ExecDeallocate \/ ExecPush
  <2>1. Loaded /\ pc <= Len(fixed) /\ UNCHANGED passVars /\ pc' = pc + 1
    BY <1>5 DEF ExecAlloc, ExecDeallocate, ExecPush, Executing, Advance
  <2>2. fixed[pc] \in Instrs
    BY <2>1 DEF MachineInv, StackInv, TypeInv, RunInv
  <2>3. ExecDeallocate => fixed[pc].val \in Int /\ fixed[pc].kind = "DEALLOCATE" /\ rsp' = rsp + fixed[pc].val
    BY <2>2 DEF ExecDeallocate, Executing, Instrs, X86Instructions
  <2>4. rsp' = rsp - Taken(fixed[pc])
    <3>1. CASE ExecAlloc
      BY <3>1 DEF ExecAlloc, Executing, Taken
    <3>2. CASE ExecPush
      BY <3>2 DEF ExecPush, Executing, Taken
    <3>3. CASE ExecDeallocate
      <4>1. Taken(fixed[pc]) = -fixed[pc].val
        BY <2>3, <3>3 DEF Taken
      <4> QED
        BY <1>1, <2>3, <3>3, <4>1
    <3> QED
      BY <1>5, <3>1, <3>2, <3>3
  <2>5. Moves(pc + 1)
    BY <2>1, <2>4 DEF Moves
  <2> QED
    BY <2>1, <2>5, MovesKeep
<1>6. CASE ExecRet \/ ExecPastEnd
  <2>1. Loaded /\ UNCHANGED passVars /\ UNCHANGED <<pc, rsp>>
    BY <1>6 DEF ExecRet, ExecPastEnd, Executing
  <2> QED
    BY <2>1, StopsKeep
<1> QED
  BY <1>2, <1>3, <1>4, <1>5, <1>6 DEF Exec

-----------------------------------------------------------------------------
(* The theorems *)

LEMMA MachineInvAlways == MachineSpec => []MachineInv
<1>1. MachineInit => MachineInv
  <2> SUFFICES ASSUME MachineInit PROVE MachineInv
    OBVIOUS
  <2>1. StackInv
    BY StackInvInit DEF MachineInit
  <2> QED
    BY <2>1 DEF MachineInit, Init, MachineInv, RunInv, Loaded
<1>2. MachineInv /\ [MachineNext]_allVars => MachineInv'
  <2> SUFFICES ASSUME MachineInv, [MachineNext]_allVars PROVE MachineInv'
    OBVIOUS
  <2>1. CASE Compile
    BY <2>1, CompileRun
  <2>2. CASE Exec
    BY <2>2, ExecRun
  <2>3. CASE UNCHANGED allVars
    <3>1. UNCHANGED passVars /\ UNCHANGED <<pc, rsp>>
      BY <2>3 DEF allVars, machineVars
    <3>2. StackInv'
      BY <3>1, StackInvStep DEF MachineInv
    <3> QED
      BY <3>1, <3>2 DEF MachineInv, RunInv, Loaded, passVars
  <2> QED
    BY <2>1, <2>2, <2>3 DEF MachineNext, Stopped
<1> QED
  BY <1>1, <1>2, PTL DEF MachineSpec

\* %rsp is a multiple of 16 whenever a call is executed, for every function,
\* whatever the number of its variables and of the arguments it passes
\* (codegen_instr's padding and allocate_stack's rounding together).
THEOREM CallsAreAligned == MachineSpec => []AlignedAtCalls
<1>1. MachineInv => AlignedAtCalls
  <2> SUFFICES ASSUME MachineInv, Loaded, pc <= Len(fixed), fixed[pc].kind = "CALL"
               PROVE  rsp % 16 = 0
    BY DEF AlignedAtCalls
  <2>1. PICK e \in [1 .. Len(fixed) + 1 -> Nat] :
          FrameDepths(fixed, fixedFrom, Frame(opmap.stack_offset), e) /\ rsp = 0 - e[pc]
    BY DEF MachineInv, RunInv
  <2>2. pc \in 1 .. Len(fixed)
    BY DEF MachineInv, RunInv, StackInv, TypeInv
  <2>3. e[pc] % 16 = 0 /\ e[pc] \in Nat
    BY <2>1, <2>2 DEF FrameDepths
  <2> QED
    BY <2>1, <2>3
<1> QED
  BY <1>1, MachineInvAlways, PTL

\* Between two IR instructions %rsp is at the bottom of the frame, on every
\* path through the function.
THEOREM StackIsBalanced == MachineSpec => []StackBalanced
<1>1. MachineInv => StackBalanced
  <2> SUFFICES ASSUME MachineInv, AtBoundary
               PROVE  rsp = -Frame(opmap.stack_offset)
    BY DEF StackBalanced
  <2> DEFINE frame == Frame(opmap.stack_offset)
  <2>1. Loaded /\ Origin > 0 /\ (pc = 1 \/ fixedFrom[pc - 1] # Origin)
    BY DEF AtBoundary
  <2>2. PICK e \in [1 .. Len(fixed) + 1 -> Nat] : FrameDepths(fixed, fixedFrom, frame, e) /\ rsp = 0 - e[pc]
    BY <2>1 DEF MachineInv, RunInv
  <2>3. pc \in 1 .. Len(fixed) + 1 /\ Len(fixed) \in Nat
    BY <2>1 DEF MachineInv, RunInv, StackInv, TypeInv
  <2>4. frame \in Nat
    BY FrameRounds DEF MachineInv, StackInv, TypeInv, MapInv
  <2> HIDE DEF frame
  <2>5. e[pc] = frame
    <3>1. CASE pc = Len(fixed) + 1
      BY <2>2, <3>1 DEF FrameDepths
    <3>2. CASE pc \in 2 .. Len(fixed)
      <4>1. Origin = fixedFrom[pc] /\ fixedFrom[pc - 1] # fixedFrom[pc]
        BY <2>1, <2>3, <3>2 DEF Origin
      <4> QED
        BY <2>2, <3>2, <4>1 DEF FrameDepths
    <3>3. CASE pc = 1 /\ pc <= Len(fixed)
      <4>1. fixedFrom[1] # 0
        BY <2>1, <3>3 DEF Origin
      <4> QED
        BY <2>2, <3>3, <4>1 DEF FrameDepths
    <3> QED
      BY <2>3, <3>1, <3>2, <3>3
  <2> QED
    BY <2>2, <2>4, <2>5 DEF frame
<1> QED
  BY <1>1, MachineInvAlways, PTL

\* Beyond the instruction that reserves the frame %rsp is below every variable.
LEMMA ReservedSlots ==
  ASSUME MachineInv
  PROVE  SlotsStayReserved
<1> SUFFICES ASSUME Loaded, pc > 1, NEW x \in DOMAIN opmap.slot
             PROVE  opmap.slot[x] >= rsp
  BY DEF SlotsStayReserved
<1> DEFINE frame == Frame(opmap.stack_offset)
<1>1. MapInv(opmap)
  BY DEF MachineInv, StackInv, TypeInv
<1>2. PICK e \in [1 .. Len(fixed) + 1 -> Nat] : FrameDepths(fixed, fixedFrom, frame, e) /\ rsp = 0 - e[pc]
  BY DEF MachineInv, RunInv
<1>3. pc \in 2 .. Len(fixed) + 1
  BY DEF MachineInv, RunInv, StackInv, TypeInv
<1>4. frame \in Nat /\ -frame <= opmap.stack_offset
  BY <1>1, FrameRounds DEF MapInv
<1>5. opmap.slot[x] \in Int /\ opmap.stack_offset \in Int /\ opmap.stack_offset <= opmap.slot[x]
  BY <1>1 DEF MapInv
<1> HIDE DEF frame
<1>6. frame <= e[pc] /\ e[pc] \in Nat
  BY <1>2, <1>3 DEF FrameDepths
<1> QED
  BY <1>2, <1>4, <1>5, <1>6

\* No variable is ever below %rsp once the frame is reserved: neither a push
\* nor a callee can overwrite it.
THEOREM SlotsAreReserved == MachineSpec => []SlotsStayReserved
  BY ReservedSlots, MachineInvAlways, PTL

-----------------------------------------------------------------------------
(* Operands *)

\* No operand of codegen_function names a register allocate_stack rewrites with.
NotScratch(op) ==
  \/ op.kind \in {"IMM", "STACK"}
  \/ op.kind = "REG" /\ op.reg \in Registers \ {"R10", "R11"}

Tame(c) ==
  /\ c.kind = "MOV" => NotScratch(c.dst) /\ NotScratch(c.src)
  /\ c.kind = "BINOP" => NotScratch(c.dst) /\ NotScratch(c.rhs)
  /\ c.kind = "CMP" => NotScratch(c.lhs) /\ NotScratch(c.rhs)

\* rename_registers replaces operands and nothing else.
LEMMA RenamedShapes ==
  ASSUME NEW m, NEW a, NEW b, NEW t
  PROVE  /\ LET c == RenameOperands(m, Mov(a, b))
            IN c.kind = "MOV" /\ c.dst = Renamed(m, a) /\ c.src = Renamed(m, b)
         /\ LET c == RenameOperands(m, Cmp(a, b))
            IN c.kind = "CMP" /\ c.lhs = Renamed(m, a) /\ c.rhs = Renamed(m, b)
         /\ LET c == RenameOperands(m, Binary(t, a, b))
            IN c.kind = "BINOP" /\ c.optype = t /\ c.rhs = Renamed(m, a) /\ c.dst = Renamed(m, b)
         /\ LET c == RenameOperands(m, Unary(t, a))
            IN c.kind = "UNOP" /\ c.unop = t /\ c.operand = Renamed(m, a)
         /\ LET c == RenameOperands(m, SetCC(t, a))
            IN c.kind = "SETCC" /\ c.cond = t /\ c.op = Renamed(m, a)
         /\ LET c == RenameOperands(m, Idiv(a)) IN c.kind = "IDIV" /\ c.operand = Renamed(m, a)
         /\ LET c == RenameOperands(m, Push(a)) IN c.kind = "PUSH" /\ c.operand = Renamed(m, a)
<1>1. LET c == RenameOperands(m, Mov(a, b))
      IN c.kind = "MOV" /\ c.dst = Renamed(m, a) /\ c.src = Renamed(m, b)
  BY DEF RenameOperands, OperandFields, Mov, Range
<1>2. LET c == RenameOperands(m, Cmp(a, b))
      IN c.kind = "CMP" /\ c.lhs = Renamed(m, a) /\ c.rhs = Renamed(m, b)
  BY DEF RenameOperands, OperandFields, Cmp, Range
<1>3. LET c == RenameOperands(m, Binary(t, a, b))
      IN c.kind = "BINOP" /\ c.optype = t /\ c.rhs = Renamed(m, a) /\ c.dst = Renamed(m, b)
  BY DEF RenameOperands, OperandFields, Binary, Range
<1>4. LET c == RenameOperands(m, Unary(t, a))
      IN c.kind = "UNOP" /\ c.unop = t /\ c.operand = Renamed(m, a)
  BY DEF RenameOperands, OperandFields, Unary, Range
<1>5. LET c == RenameOperands(m, SetCC(t, a))
      IN c.kind = "SETCC" /\ c.cond = t /\ c.op = Renamed(m, a)
  BY DEF RenameOperands, OperandFields, SetCC, Range
<1>6. LET c == RenameOperands(m, Idiv(a)) IN c.kind = "IDIV" /\ c.operand = Renamed(m, a)
  BY DEF RenameOperands, OperandFields, Idiv, Range
<1>7. LET c == RenameOperands(m, Push(a)) IN c.kind = "PUSH" /\ c.operand = Renamed(m, a)
  BY DEF RenameOperands, OperandFields, Push, Range
<1> QED
  BY <1>1, <1>2, <1>3, <1>4, <1>5, <1>6, <1>7

LEMMA OtherShapes ==
  ASSUME NEW m, NEW a, NEW b
  PROVE  /\ RenameOperands(m, Ret).kind = "RET" /\ RenameOperands(m, Cdq).kind = "CDQ"
         /\ LET c == RenameOperands(m, Jmp(a)) IN c.kind = "JMP" /\ c.target = a
         /\ LET c == RenameOperands(m, JmpCC(a, b)) IN c.kind = "JMPCC" /\ c.cond = a /\ c.target = b
         /\ LET c == RenameOperands(m, Label(a)) IN c.kind = "LABEL" /\ c.id = a
         /\ LET c == RenameOperands(m, Call(a)) IN c.kind = "CALL" /\ c.f = a
         /\ LET c == RenameOperands(m, Alloc(a)) IN c.kind = "ALLOC" /\ c.size = a
         /\ LET c == RenameOperands(m, Deallocate(a)) IN c.kind = "DEALLOCATE" /\ c.val = a
<1>1. RenameOperands(m, Ret).kind = "RET" /\ RenameOperands(m, Cdq).kind = "CDQ"
  BY DEF RenameOperands, OperandFields, Ret, Cdq, Range
<1>2. LET c == RenameOperands(m, Jmp(a)) IN c.kind = "JMP" /\ c.target = a
  BY DEF RenameOperands, OperandFields, Jmp, Range
<1>3. LET c == RenameOperands(m, JmpCC(a, b)) IN c.kind = "JMPCC" /\ c.cond = a /\ c.target = b
  BY DEF RenameOperands, OperandFields, JmpCC, Range
<1>4. LET c == RenameOperands(m, Label(a)) IN c.kind = "LABEL" /\ c.id = a
  BY DEF RenameOperands, OperandFields, Label, Range
<1>5. LET c == RenameOperands(m, Call(a)) IN c.kind = "CALL" /\ c.f = a
  BY DEF RenameOperands, OperandFields, Call, Range
<1>6. LET c == RenameOperands(m, Alloc(a)) IN c.kind = "ALLOC" /\ c.size = a
  BY DEF RenameOperands, OperandFields, Alloc, Range
<1>7. LET c == RenameOperands(m, Deallocate(a)) IN c.kind = "DEALLOCATE" /\ c.val = a
  BY DEF RenameOperands, OperandFields, Deallocate, Range
<1> QED
  BY <1>1, <1>2, <1>3, <1>4, <1>5, <1>6, <1>7

-----------------------------------------------------------------------------
(* allocate_stack: the instructions that stand for one *)

Running == Loaded /\ status = "running"

\* The next instruction decides what the processor does.
LEMMA ExecKinds ==
  ASSUME Exec, Running, pc \in 1 .. Len(fixed), Len(fixed) \in Nat
  PROVE  LET kind == fixed[pc].kind
         IN /\ kind = "MOV" => ExecMov
            /\ kind = "UNOP" => ExecUnop
            /\ kind = "BINOP" => ExecBinop
            /\ kind = "CDQ" => ExecCdq
            /\ kind = "IDIV" => ExecIdiv
            /\ kind = "CMP" => ExecCmp
            /\ kind = "SETCC" => ExecSetCC
            /\ kind = "JMP" => ExecJump
            /\ kind = "JMPCC" => ExecBranch
            /\ kind = "LABEL" => ExecLabel
            /\ kind = "ALLOC" => ExecAlloc
            /\ kind = "DEALLOCATE" => ExecDeallocate
            /\ kind = "PUSH" => ExecPush
            /\ kind = "CALL" => ExecCall
            /\ kind = "RET" => ExecRet
<1>1. /\ ExecMov => fixed[pc].kind = "MOV"
      /\ ExecUnop => fixed[pc].kind = "UNOP"
      /\ ExecBinop => fixed[pc].kind = "BINOP"
      /\ ExecCdq => fixed[pc].kind = "CDQ"
      /\ ExecIdiv => fixed[pc].kind = "IDIV"
      /\ ExecCmp => fixed[pc].kind = "CMP"
      /\ ExecSetCC => fixed[pc].kind = "SETCC"
      /\ ExecJump => fixed[pc].kind = "JMP"
      /\ ExecBranch => fixed[pc].kind = "JMPCC"
      /\ ExecLabel => fixed[pc].kind = "LABEL"
      /\ ExecAlloc => fixed[pc].kind = "ALLOC"
      /\ ExecDeallocate => fixed[pc].kind = "DEALLOCATE"
      /\ ExecPush => fixed[pc].kind = "PUSH"
      /\ ExecCall => fixed[pc].kind = "CALL"
      /\ ExecRet => fixed[pc].kind = "RET"
  BY DEF ExecMov, ExecUnop, ExecBinop, ExecCdq, ExecIdiv, ExecCmp, ExecSetCC, ExecJump, ExecBranch,
         ExecLabel, ExecAlloc, ExecDeallocate, ExecPush, ExecCall, ExecRet, Executing
<1>2. ~ExecPastEnd
  <2>1. ~(pc > Len(fixed))
    OBVIOUS
  <2> QED
    BY <2>1 DEF ExecPastEnd
<1> QED
  BY <1>1, <1>2 DEF Exec

\* What the instruction says, were every operand allowed.
Performs(c) ==
  CASE c.kind = "MOV" -> Write(c.dst, Value(c.src)) /\ UNCHANGED <<flags, rsp, lastCall>>
    [] c.kind = "BINOP" -> /\ Write(c.dst, Alu(c.optype, Value(c.dst), Value(c.rhs)))
                           /\ UNCHANGED <<rsp, lastCall>>
    [] c.kind = "CMP" -> /\ SetFlags(Value(c.rhs) - Value(c.lhs))
                         /\ UNCHANGED <<regs, mem, rsp, lastCall>>
    [] OTHER -> fixed[pc] = c

\* What the scratch registers hold before the o-th of the instructions that
\* stand for c.
Scratch(c, o) ==
  o > 1 =>
    /\ c.kind = "MOV" => regs["R10"] = Value(c.src)
    /\ c.kind = "BINOP" /\ c.optype = "MUL" =>
         regs["R11"] = IF o = 2 THEN Value(c.dst) ELSE Alu("MUL", Value(c.dst), Value(c.rhs))
    /\ c.kind = "BINOP" /\ c.optype # "MUL" => regs["R10"] = Value(c.rhs)
    /\ c.kind = "CMP" /\ InMemory(c.lhs) /\ InMemory(c.rhs) => regs["R10"] = Value(c.lhs)
    /\ c.kind = "CMP" /\ ~(InMemory(c.lhs) /\ InMemory(c.rhs)) => regs["R11"] = Value(c.rhs)

\* An instruction before the last of those that stand for c changes no more
\* than a scratch register, and the flags if c changes them.
Prepares(c) ==
  /\ Advance
  /\ UNCHANGED <<mem, rsp, lastCall>>
  /\ regs' = [regs EXCEPT !["R10"] = regs'["R10"], !["R11"] = regs'["R11"]]
  /\ c.kind # "BINOP" => flags' = flags

\* The operands of c do not see the scratch registers.
LEMMA ValuesKept ==
  ASSUME NEW op, NotScratch(op), UNCHANGED mem,
         regs' = [regs EXCEPT !["R10"] = regs'["R10"], !["R11"] = regs'["R11"]], DOMAIN regs = Registers
  PROVE  Value(op)' = Value(op)
  BY DEF NotScratch, Value, Registers

LEMMA ScratchOnly ==
  ASSUME DOMAIN regs = Registers, NEW r \in {"R10", "R11"}, NEW w, regs' = [regs EXCEPT ![r] = w]
  PROVE  /\ regs'[r] = w
         /\ regs' = [regs EXCEPT !["R10"] = regs'["R10"], !["R11"] = regs'["R11"]]
<1>1. "R10" \in DOMAIN regs /\ "R11" \in DOMAIN regs
  BY DEF Registers
<1>2. CASE r = "R10"
  BY <1>1, <1>2
<1>3. CASE r = "R11"
  BY <1>1, <1>3
<1> QED
  BY <1>2, <1>3

\* A word goes into a scratch register on the way.
LEMMA LoadPrepares ==
  ASSUME DOMAIN regs = Registers, Exec, Running, pc \in 1 .. Len(fixed), Len(fixed) \in Nat,
         NEW r \in {"R10", "R11"}, NEW op, fixed[pc] = Mov(Reg(r), op), NEW c
  PROVE  Prepares(c) /\ regs'[r] = Value(op)
<1>1. ExecMov
  <2>1. fixed[pc].kind = "MOV"
    BY DEF Mov
  <2> QED
    BY <2>1, ExecKinds
<1>2. Write(Reg(r), Value(op)) /\ Advance /\ UNCHANGED <<flags, rsp, lastCall>>
  <2>1. fixed[pc].dst = Reg(r) /\ fixed[pc].src = op
    BY DEF Mov
  <2> QED
    BY <1>1, <2>1 DEF ExecMov
<1>3. regs' = [regs EXCEPT ![r] = Value(op)] /\ mem' = mem
  BY <1>2 DEF Write, Reg
<1>4. regs'[r] = Value(op) /\ regs' = [regs EXCEPT !["R10"] = regs'["R10"], !["R11"] = regs'["R11"]]
  BY <1>3, ScratchOnly
<1> QED
  BY <1>2, <1>3, <1>4 DEF Prepares

\* A move from memory to memory goes through %r10d.
LEMMA RewriteMov ==
  ASSUME DOMAIN regs = Registers, Exec, Running, pc \in 1 .. Len(fixed), Len(fixed) \in Nat,
         NEW c, c.kind = "MOV", Tame(c), NEW o \in 1 .. Len(Fix(c)), fixed[pc] = Fix(c)[o], Scratch(c, o)
  PROVE  /\ o < Len(Fix(c)) => Prepares(c) /\ Scratch(c, o + 1)'
         /\ o = Len(Fix(c)) => Performs(c) /\ Advance
<1>1. CASE InMemory(c.src) /\ InMemory(c.dst)
  <2>1. Fix(c) = <<Mov(Reg("R10"), c.src), Mov(c.dst, Reg("R10"))>>
    BY <1>1 DEF Fix
  <2>2. CASE o = 1
    <3>1. Prepares(c) /\ regs'["R10"] = Value(c.src)
      BY <2>1, <2>2, LoadPrepares
    <3>2. Value(c.src)' = Value(c.src)
      BY <3>1, ValuesKept DEF Tame, Prepares
    <3>3. Scratch(c, o + 1)'
      BY <3>1, <3>2 DEF Scratch
    <3> QED
      BY <2>1, <2>2, <3>1, <3>3
  <2>3. CASE o = 2
    <3>1. fixed[pc] = Mov(c.dst, Reg("R10")) /\ regs["R10"] = Value(c.src)
      BY <2>1, <2>3 DEF Scratch
    <3>2. ExecMov
      <4>1. fixed[pc].kind = "MOV"
        BY <3>1 DEF Mov
      <4> QED
        BY <4>1, ExecKinds
    <3>3. Value(Reg("R10")) = Value(c.src)
      BY <3>1 DEF Value, Reg
    <3>4. fixed[pc].dst = c.dst /\ fixed[pc].src = Reg("R10")
      BY <3>1 DEF Mov
    <3>5. Write(c.dst, Value(c.src)) /\ UNCHANGED <<flags, rsp, lastCall>> /\ Advance
      BY <3>2, <3>3, <3>4 DEF ExecMov
    <3> QED
      BY <2>1, <2>3, <3>5 DEF Performs
  <2> QED
    BY <2>1, <2>2, <2>3
<1>2. CASE ~(InMemory(c.src) /\ InMemory(c.dst))
  <2>1. Fix(c) = <<c>>
    BY <1>2 DEF Fix
  <2>2. fixed[pc] = c /\ o = 1
    BY <2>1
  <2>3. ExecMov
    BY <2>2, ExecKinds
  <2> QED
    BY <2>1, <2>2, <2>3 DEF ExecMov, Performs
<1> QED
  BY <1>1, <1>2

\* imull writes a register, so the product is made in %r11d.
LEMMA RewriteMul ==
  ASSUME DOMAIN regs = Registers, Exec, Running, pc \in 1 .. Len(fixed), Len(fixed) \in Nat,
         NEW c, c.kind = "BINOP", c.optype = "MUL", InMemory(c.dst), Tame(c),
         NEW o \in 1 .. Len(Fix(c)), fixed[pc] = Fix(c)[o], Scratch(c, o)
  PROVE  /\ o < Len(Fix(c)) => Prepares(c) /\ Scratch(c, o + 1)'
         /\ o = Len(Fix(c)) => Performs(c) /\ Advance
<1>1. Fix(c) = <<Mov(Reg("R11"), c.dst), Binary("MUL", c.rhs, Reg("R11")), Mov(c.dst, Reg("R11"))>>
  BY DEF Fix, InMemory
<1>2. CASE o = 1
  <2>1. Prepares(c) /\ regs'["R11"] = Value(c.dst)
    BY <1>1, <1>2, LoadPrepares
  <2>2. Value(c.dst)' = Value(c.dst)
    BY <2>1, ValuesKept DEF Tame, Prepares
  <2>3. Scratch(c, o + 1)'
    BY <1>2, <2>1, <2>2 DEF Scratch
  <2> QED
    BY <1>1, <1>2, <2>1, <2>3
<1>3. CASE o = 2
  <2>1. fixed[pc] = Binary("MUL", c.rhs, Reg("R11")) /\ regs["R11"] = Value(c.dst)
    BY <1>1, <1>3 DEF Scratch
  <2>2. fixed[pc].kind = "BINOP" /\ fixed[pc].optype = "MUL" /\ fixed[pc].rhs = c.rhs /\ fixed[pc].dst = Reg("R11")
    BY <2>1 DEF Binary
  <2> DEFINE w == Alu("MUL", Value(c.dst), Value(c.rhs))
  <2>3. ExecBinop
    BY <2>2, ExecKinds
  <2>4. Value(Reg("R11")) = Value(c.dst)
    BY <2>1 DEF Value, Reg
  <2>5. Write(Reg("R11"), w) /\ Advance /\ UNCHANGED <<rsp, lastCall>>
    BY <2>2, <2>3, <2>4 DEF ExecBinop
  <2> HIDE DEF w
  <2>6. regs' = [regs EXCEPT !["R11"] = w] /\ mem' = mem
    BY <2>5 DEF Write, Reg
  <2>7. regs'["R11"] = w /\ regs' = [regs EXCEPT !["R10"] = regs'["R10"], !["R11"] = regs'["R11"]]
    BY <2>6, ScratchOnly
  <2>8. Prepares(c)
    BY <2>5, <2>6, <2>7 DEF Prepares
  <2>9. Value(c.dst)' = Value(c.dst) /\ Value(c.rhs)' = Value(c.rhs)
    BY <2>6, <2>7, ValuesKept DEF Tame
  <2>10. regs'["R11"] = Alu("MUL", Value(c.dst)', Value(c.rhs)')
    BY <2>7, <2>9 DEF w
  <2>11. Scratch(c, o + 1)'
    BY <1>3, <2>10 DEF Scratch, Alu
  <2> QED
    BY <1>1, <1>3, <2>8, <2>11
<1>4. CASE o = 3
  <2>1. fixed[pc] = Mov(c.dst, Reg("R11")) /\ regs["R11"] = Alu("MUL", Value(c.dst), Value(c.rhs))
    BY <1>1, <1>4 DEF Scratch
  <2>2. fixed[pc].kind = "MOV" /\ fixed[pc].dst = c.dst /\ fixed[pc].src = Reg("R11")
    BY <2>1 DEF Mov
  <2>3. ExecMov
    BY <2>2, ExecKinds
  <2>4. Value(Reg("R11")) = Alu("MUL", Value(c.dst), Value(c.rhs))
    BY <2>1 DEF Value, Reg
  <2>5. Write(c.dst, Alu("MUL", Value(c.dst), Value(c.rhs))) /\ UNCHANGED <<flags, rsp, lastCall>> /\ Advance
    BY <2>2, <2>3, <2>4 DEF ExecMov
  <2> QED
    BY <1>1, <1>4, <2>5 DEF Performs
<1> QED
  BY <1>1, <1>2, <1>3, <1>4

\* The other operators take one operand from memory, not two.
LEMMA RewriteBinop ==
  ASSUME DOMAIN regs = Registers, Exec, Running, pc \in 1 .. Len(fixed), Len(fixed) \in Nat,
         NEW c, c.kind = "BINOP", c.optype # "MUL" \/ ~InMemory(c.dst), Tame(c),
         NEW o \in 1 .. Len(Fix(c)), fixed[pc] = Fix(c)[o], Scratch(c, o)
  PROVE  /\ o < Len(Fix(c)) => Prepares(c) /\ Scratch(c, o + 1)'
         /\ o = Len(Fix(c)) => Performs(c) /\ Advance
<1>1. CASE InMemory(c.dst) /\ InMemory(c.rhs)
  <2>1. Fix(c) = <<Mov(Reg("R10"), c.rhs), Binary(c.optype, Reg("R10"), c.dst)>> /\ c.optype # "MUL"
    BY <1>1 DEF Fix
  <2>2. CASE o = 1
    <3>1. Prepares(c) /\ regs'["R10"] = Value(c.rhs)
      BY <2>1, <2>2, LoadPrepares
    <3>2. Value(c.rhs)' = Value(c.rhs)
      BY <3>1, ValuesKept DEF Tame, Prepares
    <3>3. Scratch(c, o + 1)'
      BY <2>1, <3>1, <3>2 DEF Scratch
    <3> QED
      BY <2>1, <2>2, <3>1, <3>3
  <2>3. CASE o = 2
    <3>1. fixed[pc] = Binary(c.optype, Reg("R10"), c.dst) /\ regs["R10"] = Value(c.rhs)
      BY <2>1, <2>3 DEF Scratch
    <3>2. fixed[pc].kind = "BINOP" /\ fixed[pc].optype = c.optype /\ fixed[pc].rhs = Reg("R10")
          /\ fixed[pc].dst = c.dst
      BY <3>1 DEF Binary
    <3>3. ExecBinop
      BY <3>2, ExecKinds
    <3>4. Value(Reg("R10")) = Value(c.rhs)
      BY <3>1 DEF Value, Reg
    <3>5. Write(c.dst, Alu(c.optype, Value(c.dst), Value(c.rhs))) /\ UNCHANGED <<rsp, lastCall>> /\ Advance
      BY <3>2, <3>3, <3>4 DEF ExecBinop
    <3> QED
      BY <2>1, <2>3, <3>5 DEF Performs
  <2> QED
    BY <2>1, <2>2, <2>3
<1>2. CASE ~(InMemory(c.dst) /\ InMemory(c.rhs))
  <2>1. Fix(c) = <<c>>
    BY <1>2 DEF Fix, InMemory
  <2>2. fixed[pc] = c /\ o = 1
    BY <2>1
  <2>3. ExecBinop
    BY <2>2, ExecKinds
  <2> QED
    BY <2>1, <2>2, <2>3 DEF ExecBinop, Performs
<1> QED
  BY <1>1, <1>2

\* cmpl: one operand from memory, and no immediate on the right.
LEMMA RewriteCmp ==
  ASSUME DOMAIN regs = Registers, Exec, Running, pc \in 1 .. Len(fixed), Len(fixed) \in Nat,
         NEW c, c.kind = "CMP", Tame(c), NEW o \in 1 .. Len(Fix(c)), fixed[pc] = Fix(c)[o], Scratch(c, o)
  PROVE  /\ o < Len(Fix(c)) => Prepares(c) /\ Scratch(c, o + 1)'
         /\ o = Len(Fix(c)) => Performs(c) /\ Advance
<1>1. CASE InMemory(c.lhs) /\ InMemory(c.rhs)
  <2>1. Fix(c) = <<Mov(Reg("R10"), c.lhs), Cmp(Reg("R10"), c.rhs)>>
    BY <1>1 DEF Fix, InMemory
  <2>2. CASE o = 1
    <3>1. Prepares(c) /\ regs'["R10"] = Value(c.lhs)
      BY <2>1, <2>2, LoadPrepares
    <3>2. Value(c.lhs)' = Value(c.lhs)
      BY <3>1, ValuesKept DEF Tame, Prepares
    <3>3. Scratch(c, o + 1)'
      BY <1>1, <3>1, <3>2 DEF Scratch
    <3> QED
      BY <2>1, <2>2, <3>1, <3>3
  <2>3. CASE o = 2
    <3>1. fixed[pc] = Cmp(Reg("R10"), c.rhs) /\ regs["R10"] = Value(c.lhs)
      BY <1>1, <2>1, <2>3 DEF Scratch
    <3>2. fixed[pc].kind = "CMP" /\ fixed[pc].lhs = Reg("R10") /\ fixed[pc].rhs = c.rhs
      BY <3>1 DEF Cmp
    <3>3. ExecCmp
      BY <3>2, ExecKinds
    <3>4. Value(Reg("R10")) = Value(c.lhs)
      BY <3>1 DEF Value, Reg
    <3>5. SetFlags(Value(c.rhs) - Value(c.lhs)) /\ UNCHANGED <<regs, mem, rsp, lastCall>> /\ Advance
      BY <3>2, <3>3, <3>4 DEF ExecCmp
    <3> QED
      BY <2>1, <2>3, <3>5 DEF Performs
  <2> QED
    BY <2>1, <2>2, <2>3
<1>2. CASE ~(InMemory(c.lhs) /\ InMemory(c.rhs)) /\ c.rhs.kind = "IMM"
  <2>1. Fix(c) = <<Mov(Reg("R11"), c.rhs), Cmp(c.lhs, Reg("R11"))>>
    BY <1>2 DEF Fix
  <2>2. CASE o = 1
    <3>1. Prepares(c) /\ regs'["R11"] = Value(c.rhs)
      BY <2>1, <2>2, LoadPrepares
    <3>2. Value(c.rhs)' = Value(c.rhs)
      BY <3>1, ValuesKept DEF Tame, Prepares
    <3>3. Scratch(c, o + 1)'
      BY <1>2, <3>1, <3>2 DEF Scratch
    <3> QED
      BY <2>1, <2>2, <3>1, <3>3
  <2>3. CASE o = 2
    <3>1. fixed[pc] = Cmp(c.lhs, Reg("R11")) /\ regs["R11"] = Value(c.rhs)
      BY <1>2, <2>1, <2>3 DEF Scratch
    <3>2. fixed[pc].kind = "CMP" /\ fixed[pc].lhs = c.lhs /\ fixed[pc].rhs = Reg("R11")
      BY <3>1 DEF Cmp
    <3>3. ExecCmp
      BY <3>2, ExecKinds
    <3>4. Value(Reg("R11")) = Value(c.rhs)
      BY <3>1 DEF Value, Reg
    <3>5. SetFlags(Value(c.rhs) - Value(c.lhs)) /\ UNCHANGED <<regs, mem, rsp, lastCall>> /\ Advance
      BY <3>2, <3>3, <3>4 DEF ExecCmp
    <3> QED
      BY <2>1, <2>3, <3>5 DEF Performs
  <2> QED
    BY <2>1, <2>2, <2>3
<1>3. CASE ~(InMemory(c.lhs) /\ InMemory(c.rhs)) /\ c.rhs.kind # "IMM"
  <2>1. Fix(c) = <<c>>
    BY <1>3 DEF Fix
  <2>2. fixed[pc] = c /\ o = 1
    BY <2>1
  <2>3. ExecCmp
    BY <2>2, ExecKinds
  <2> QED
    BY <2>1, <2>2, <2>3 DEF ExecCmp, Performs
<1> QED
  BY <1>1, <1>2, <1>3

\* Whatever allocate_stack puts in the place of an instruction does what the
\* instruction says, by way of the scratch registers.
LEMMA Rewriting ==
  ASSUME DOMAIN regs = Registers, Exec, Running, pc \in 1 .. Len(fixed), Len(fixed) \in Nat,
         NEW c, Tame(c), NEW o \in 1 .. Len(Fix(c)), fixed[pc] = Fix(c)[o], Scratch(c, o)
  PROVE  /\ o < Len(Fix(c)) => Prepares(c) /\ Scratch(c, o + 1)'
         /\ o = Len(Fix(c)) => Performs(c) /\ (c.kind \in {"MOV", "BINOP", "CMP"} => Advance)
<1>1. CASE c.kind = "MOV"
  BY <1>1, RewriteMov
<1>2. CASE c.kind = "BINOP" /\ c.optype = "MUL" /\ InMemory(c.dst)
  BY <1>2, RewriteMul
<1>3. CASE c.kind = "BINOP" /\ ~(c.optype = "MUL" /\ InMemory(c.dst))
  BY <1>3, RewriteBinop
<1>4. CASE c.kind = "CMP"
  BY <1>4, RewriteCmp
<1>5. CASE c.kind \notin {"MOV", "BINOP", "CMP"}
  <2>1. Fix(c) = <<c>>
    BY <1>5 DEF Fix
  <2>2. fixed[pc] = c /\ o = 1
    BY <2>1
  <2> QED
    BY <1>5, <2>1, <2>2 DEF Performs
<1> QED
  BY <1>1, <1>2, <1>3, <1>4, <1>5

-----------------------------------------------------------------------------
(* Where the processor is *)

\* The instruction the one at a place becomes when its operands are renamed.
Meant(p) == IF p.part = "frame" THEN Alloc(Frame(opmap.stack_offset)) ELSE RenameOperands(opmap, Source(fn, p))

\* The code of an IR instruction, or the end, begins at spot x.
Begins(x) == x.p.at > 0 /\ x.o = 1 /\ x.p = FirstOf(fn, x.p.at)

LEMMA MachineTypes ==
  ASSUME MachineInv
  PROVE  /\ fn \in IrFunctions
         /\ fixed \in Seq(Instrs) /\ Len(fixed) \in Nat
         /\ fixedFrom \in Seq(Nat) /\ Len(fixedFrom) = Len(fixed)
         /\ MapInv(opmap)
         /\ Frame(opmap.stack_offset) \in Nat /\ Frame(opmap.stack_offset) % 16 = 0
         /\ -Frame(opmap.stack_offset) <= opmap.stack_offset
         /\ Loaded => pc \in 1 .. Len(fixed) + 1 /\ rsp \in Int
<1>1. /\ fn \in IrFunctions
      /\ fixed \in Seq(Instrs) /\ fixedFrom \in Seq(Nat) /\ Len(fixedFrom) = Len(fixed)
      /\ MapInv(opmap)
  BY DEF MachineInv, StackInv, TypeInv, CallInv
<1>2. Len(fixed) \in Nat
  BY <1>1
<1>3. opmap.stack_offset \in Int /\ opmap.stack_offset <= 0
  BY <1>1 DEF MapInv
<1>4. /\ Frame(opmap.stack_offset) \in Nat /\ Frame(opmap.stack_offset) % 16 = 0
      /\ -Frame(opmap.stack_offset) <= opmap.stack_offset
  BY <1>3, FrameRounds
<1>5. ASSUME Loaded
      PROVE  pc \in 1 .. Len(fixed) + 1 /\ rsp \in Int
  <2>1. PICK e \in [1 .. Len(fixed) + 1 -> Nat] : rsp = 0 - e[pc] /\ pc \in 1 .. Len(fixed) + 1
    BY <1>5 DEF MachineInv, RunInv
  <2>2. e[pc] \in Nat
    BY <2>1
  <2> QED
    BY <2>1, <2>2
<1> QED
  BY <1>1, <1>2, <1>4, <1>5

\* What a position in the list has to do with the refinement mapping.
OriginAt(k) == IF k <= Len(fixed) THEN fixedFrom[k] ELSE Len(fn.instrs) + 1

LEMMA SpotTypes ==
  ASSUME MachineInv, NEW h, Printed(h), NEW k \in 1 .. Len(fixed) + 1
  PROVE  /\ h[k] \in Spots /\ h[k].p \in Places /\ h[k].o \in Nat \ {0} /\ h[k].p.at \in Nat
         /\ OriginAt(k) = h[k].p.at
         /\ k <= Len(fixed) => /\ AtSpot(h[k], fixed[k], fixedFrom[k])
                               /\ h[k + 1] = NextSpot(h[k])
<1>1. Len(fixed) \in Nat
  BY MachineTypes
<1>2. h[k] \in Spots
  BY DEF Printed
<1>3. h[k].p \in Places /\ h[k].o \in Nat \ {0}
  BY <1>2 DEF Spots
<1>4. h[k].p.at \in Nat
  BY <1>3 DEF Places
<1>5. CASE k <= Len(fixed)
  <2>1. k \in 1 .. Len(fixed)
    BY <1>1, <1>5
  <2>2. AtSpot(h[k], fixed[k], fixedFrom[k]) /\ h[k + 1] = NextSpot(h[k])
    BY <2>1 DEF Printed
  <2>3. fixedFrom[k] = h[k].p.at
    BY <2>2 DEF AtSpot
  <2> QED
    BY <1>2, <1>3, <1>4, <1>5, <2>2, <2>3 DEF OriginAt
<1>6. CASE ~(k <= Len(fixed))
  <2>1. k = Len(fixed) + 1
    BY <1>1, <1>6
  <2>2. h[k].p = Place(Len(fn.instrs) + 1, "end", 0)
    BY <2>1 DEF Printed
  <2>3. h[k].p.at = Len(fn.instrs) + 1
    BY <2>2 DEF Place
  <2> QED
    BY <1>2, <1>3, <1>4, <1>6, <2>3 DEF OriginAt
<1> QED
  BY <1>5, <1>6

LEMMA BoundarySpot ==
  ASSUME MachineInv, NEW h, Printed(h), NEW k \in 1 .. Len(fixed) + 1
  PROVE  OriginAt(k) > 0 /\ (k = 1 \/ fixedFrom[k - 1] # OriginAt(k)) <=> Begins(h[k])
<1>1. h[k].p.at \in Nat /\ OriginAt(k) = h[k].p.at
  BY SpotTypes
<1>2. fn \in IrFunctions /\ fixed \in Seq(Instrs) /\ Len(fixed) \in Nat
  BY MachineTypes
<1>3. CASE h[k].p.at = 0
  BY <1>1, <1>3 DEF Begins
<1>4. CASE h[k].p.at > 0 /\ k = 1
  <2>1. h[1].o = 1 /\ h[1].p = FirstOf(fn, h[1].p.at)
    BY <1>2, <1>4, PrintedBegins
  <2> QED
    BY <1>1, <1>4, <2>1 DEF Begins
<1>5. CASE h[k].p.at > 0 /\ k # 1
  <2>1. k \in 2 .. Len(fixed) + 1
    BY <1>2, <1>5
  <2>2. fixedFrom[k - 1] # h[k].p.at <=> h[k].o = 1 /\ h[k].p = FirstOf(fn, h[k].p.at)
    BY <1>2, <1>5, <2>1, CodeBegins
  <2> QED
    BY <1>1, <1>5, <2>2 DEF Begins
<1> QED
  BY <1>1, <1>3, <1>4, <1>5

\* The refinement mapping at a spot.
LEMMA MappingHere ==
  ASSUME MachineInv, NEW h, Printed(h), Running
  PROVE  /\ Origin = h[pc].p.at
         /\ AtBoundary <=> Begins(h[pc])
<1>1. pc \in 1 .. Len(fixed) + 1
  BY MachineTypes DEF Running
<1>2. Origin = OriginAt(pc)
  BY DEF Origin, OriginAt
<1>3. OriginAt(pc) = h[pc].p.at /\ (OriginAt(pc) > 0 /\ (pc = 1 \/ fixedFrom[pc - 1] # OriginAt(pc)) <=> Begins(h[pc]))
  BY <1>1, SpotTypes, BoundarySpot
<1> QED
  BY <1>2, <1>3 DEF AtBoundary, Running

\* Where a step leads, as the IR sees it.
LEMMA MappingThere ==
  ASSUME MachineInv, NEW h, Printed(h), Running, UNCHANGED passVars, status' = "running",
         saved' = [env |-> IrEnv, call |-> IrLastCall], pc' \in 1 .. Len(fixed) + 1
  PROVE  /\ Running' /\ Printed(h)'
         /\ IrIp' = (IF h[pc'].p.at > 0 THEN h[pc'].p.at ELSE 1)
         /\ ~Begins(h[pc']) => IrEnv' = IrEnv /\ IrLastCall' = IrLastCall
         /\ Begins(h[pc']) =>
              /\ IrLastCall' = lastCall'
              /\ IrEnv' = [x \in Ids |-> IF x \in DOMAIN opmap.slot THEN mem'[opmap.slot[x]] ELSE IrEnv[x]]
<1>1. UNCHANGED <<fn, phase, opmap, fixed, fixedFrom>>
  BY DEF passVars
<1>2. Running' /\ Loaded'
  BY <1>1 DEF Running, Loaded
<1>3. Printed(h)'
  BY <1>1 DEF Printed, AtSpot, NextSpot, Rewritten
<1>4. Origin' = OriginAt(pc')
  BY <1>1 DEF Origin, OriginAt
<1>5. OriginAt(pc') = h[pc'].p.at /\ h[pc'].p.at \in Nat
      /\ (OriginAt(pc') > 0 /\ (pc' = 1 \/ fixedFrom[pc' - 1] # OriginAt(pc')) <=> Begins(h[pc']))
  BY SpotTypes, BoundarySpot
<1>6. AtBoundary' <=> Begins(h[pc'])
  BY <1>1, <1>2, <1>4, <1>5 DEF AtBoundary
<1>7. IrIp' = (IF h[pc'].p.at > 0 THEN h[pc'].p.at ELSE 1)
  BY <1>2, <1>4, <1>5 DEF IrIp
<1>8. ASSUME ~Begins(h[pc'])
      PROVE  IrEnv' = IrEnv /\ IrLastCall' = IrLastCall
  <2>1. IrEnv' = saved'.env /\ IrLastCall' = saved'.call
    BY <1>6, <1>8 DEF IrEnv, IrLastCall
  <2> QED
    BY <2>1
<1>9. ASSUME Begins(h[pc'])
      PROVE  /\ IrLastCall' = lastCall'
             /\ IrEnv' = [x \in Ids |-> IF x \in DOMAIN opmap.slot THEN mem'[opmap.slot[x]] ELSE IrEnv[x]]
  <2>1. IrLastCall' = lastCall'
        /\ IrEnv' = [x \in Ids |-> IF x \in DOMAIN opmap'.slot THEN mem'[opmap'.slot[x]] ELSE saved'.env[x]]
    BY <1>6, <1>9 DEF IrEnv, IrLastCall
  <2>2. saved'.env = IrEnv
    OBVIOUS
  <2> QED
    BY <1>1, <2>1, <2>2
<1> QED
  BY <1>2, <1>3, <1>7, <1>8, <1>9

-----------------------------------------------------------------------------
(* What the registers, the flags and the stack hold between instructions *)

Val(v) == IF v.kind = "CONSTANT" THEN v.int_val ELSE IrEnv[v.id]

Variables == Ids \cap DOMAIN opmap.slot
Slot(x) == mem[opmap.slot[x]]

\* Every variable but those in X has its value in its slot.
Slots(X) == \A x \in Variables \ X : Slot(x) = IrEnv[x]

FlagsOf(n) == flags = [zero |-> n = 0, less |-> n < 0]

\* The operators that leave an operand in the slot of the result, to work on
\* it there; `!` and the relations clear the slot first.
Clears(i) == (i.kind = "UNOP" /\ i.op = "NOT") \/ (i.kind = "BINOP" /\ i.op \in IrRelations)
Divides(i) == i.kind = "BINOP" /\ i.op \in {"DIV", "MOD"}
InPlace(i) == i.kind \in {"UNOP", "BINOP"} /\ ~Clears(i) /\ ~Divides(i)
Branches(i) == i.kind \in {"JUMP_ZERO", "JUMP_NOT_ZERO"}

\* Variables whose slots do not hold their values at a place: parameters that
\* are not saved yet, a result that is being made.
InFlux(p) ==
  CASE p.part = "frame" -> Range(fn.params)
    [] p.part = "params" -> {fn.params[m] : m \in p.n .. Len(fn.params)}
    [] p.part = "instr" /\ p.n > 1 /\ (Clears(fn.instrs[p.at]) \/ InPlace(fn.instrs[p.at])) ->
         {fn.instrs[p.at].dst.id}
    [] OTHER -> {}

\* The parameters from the n-th on are where the caller has put them.
Given(n) == \A m \in n .. Len(fn.params) : Value(ParamSource(m)) = IrEnv[fn.params[m]]

Compared(i) == CASE i.kind = "UNOP" -> 0 - Val(i.src)
                 [] i.kind = "BINOP" -> Val(i.lhs) - Val(i.rhs)
                 [] OTHER -> Val(i.cond) - 0

Extension(w) == IF w < 0 THEN -1 ELSE 0

\* The code of an instruction before its n-th step.
Underway(i, n) ==
  /\ i.kind = "RETURN" => regs["AX"] = Val(i.val)
  /\ Clears(i) \/ Branches(i) => FlagsOf(Compared(i))
  /\ Clears(i) /\ n = 3 => Slot(i.dst.id) = 0
  /\ InPlace(i) => Slot(i.dst.id) = IF i.kind = "UNOP" THEN Val(i.src) ELSE Val(i.lhs)
  /\ Divides(i) =>
       IF n < 4 THEN regs["AX"] = Val(i.lhs) /\ (n = 3 => regs["DX"] = Extension(Val(i.lhs)))
       ELSE /\ ~DivTraps(Val(i.lhs), Val(i.rhs))
            /\ regs["AX"] = Quotient(Val(i.lhs), Val(i.rhs))
            /\ regs["DX"] = Remainder(Val(i.lhs), Val(i.rhs))

\* The first n arguments that travel in registers are there.
InRegisters(args, n) ==
  \A k \in 1 .. Len(args) : (k <= n /\ k <= 6) => regs[ArgRegisters[k]] = Val(args[k])

\* The arguments after the a-th are on the stack.
Pushed(args, a) == \A k \in 1 .. Len(args) : k > a => mem[rsp + 8 * (k - a - 1)] = Val(args[k])

Pads(args) == Len(AllocIfAny(Padding(args)))
Passed(i) == <<i.f, [k \in DOMAIN i.args |-> Val(i.args[k])]>>

Holding(p) ==
  LET i == fn.instrs[p.at]
  IN /\ Slots(InFlux(p))
     /\ p.part = "frame" => Given(1)
     /\ p.part = "params" => Given(p.n)
     /\ p.part = "instr" /\ p.n > 1 => Underway(i, p.n)
     /\ p.part = "begin" => InRegisters(i.args, p.n - 1 - Pads(i.args))
     /\ p.part = "push" => /\ InRegisters(i.args, 6) /\ Pushed(i.args, p.arg)
                           /\ p.n = 2 => regs["AX"] = Val(i.args[p.arg])
     /\ p.part = "finish" /\ p.n = 1 => InRegisters(i.args, 6) /\ Pushed(i.args, 6)
     /\ p.part = "finish" /\ p.n > 1 => lastCall = Passed(i) /\ regs["AX"] \in Word
     /\ ~(p.part = "finish" /\ p.n > 1) => lastCall = IrLastCall

Wide == \A k \in Int : 4 * k \in Addresses

\* At a spot of the list that is printed.
At(x) == Holding(x.p) /\ Scratch(Meant(x.p), x.o)

Stored ==
  /\ DOMAIN regs = Registers
  /\ DOMAIN mem = Addresses
  /\ IrEnv \in [Ids -> Word]
  /\ rsp % 8 = 0

Ready(h) == MachineInv /\ Running /\ Printed(h) /\ Stored /\ At(h[pc])

-----------------------------------------------------------------------------
(* Operands and slots *)

\* The operand a value becomes.
Placed(v) == Renamed(opmap, CodegenVal(v))
Bound(v) == v.kind = "VARIABLE" => v.id \in DOMAIN opmap.slot

LEMMA PlacedKinds ==
  ASSUME NEW v \in IrValues(Ids)
  PROVE  /\ NotScratch(Placed(v))
         /\ v.kind \in {"CONSTANT", "VARIABLE"}
         /\ v.kind = "CONSTANT" => Placed(v) = Imm(v.int_val)
         /\ v.kind = "VARIABLE" => Placed(v) = Stack(opmap.slot[v.id]) /\ v.id \in Ids
<1>1. CASE v.kind = "CONSTANT"
  BY <1>1 DEF Placed, CodegenVal, Renamed, Imm, NotScratch
<1>2. CASE v.kind = "VARIABLE"
  <2>1. v.id \in Ids
    BY <1>2 DEF IrValues, IrVariables
  <2>2. Placed(v) = Stack(opmap.slot[v.id])
    BY <1>2 DEF Placed, CodegenVal, Renamed, Id
  <2> QED
    BY <1>2, <2>1, <2>2 DEF NotScratch, Stack
<1> QED
  BY <1>1, <1>2 DEF IrValues, IrVariables

LEMMA PlacedValue ==
  ASSUME NEW v \in IrValues(Ids), Bound(v), NEW X, Slots(X), v.kind = "VARIABLE" => v.id \notin X
  PROVE  Value(Placed(v)) = Val(v)
<1>1. CASE v.kind = "CONSTANT"
  <2>1. Placed(v) = Imm(v.int_val)
    BY <1>1, PlacedKinds
  <2> QED
    BY <1>1, <2>1 DEF Value, Imm, Val
<1>2. CASE v.kind = "VARIABLE"
  <2>1. Placed(v) = Stack(opmap.slot[v.id]) /\ v.id \in Ids
    BY <1>2, PlacedKinds
  <2>2. v.id \in Variables \ X
    BY <1>2, <2>1 DEF Bound, Variables
  <2>3. Slot(v.id) = IrEnv[v.id]
    BY <2>2 DEF Slots
  <2>4. Value(Placed(v)) = Slot(v.id)
    BY <2>1 DEF Value, Stack, Slot
  <2> QED
    BY <1>2, <2>3, <2>4 DEF Val
<1> QED
  BY <1>1, <1>2, PlacedKinds

\* A destination is a slot; the others are elsewhere, and so is everything
\* above the frame.
LEMMA StoreInSlot ==
  ASSUME Wide, DOMAIN mem = Addresses, MapInv(opmap), NEW x \in Variables, NEW w,
         mem' = [mem EXCEPT ![opmap.slot[x]] = w], opmap' = opmap
  PROVE  /\ DOMAIN mem' = Addresses
         /\ Slot(x)' = w
         /\ \A y \in Variables \ {x} : Slot(y)' = Slot(y)
         /\ \A a \in Addresses : a \in Nat => mem'[a] = mem[a]
<1>1. opmap.slot[x] \in Int /\ opmap.slot[x] % 4 = 0 /\ opmap.slot[x] + 4 <= 0
  BY DEF MapInv, Variables
<1>2. opmap.slot[x] \in Addresses
  <2>1. PICK k \in Int : opmap.slot[x] = 4 * k
    BY <1>1
  <2> QED
    BY <2>1 DEF Wide
<1>3. Slot(x)' = w /\ DOMAIN mem' = Addresses
  BY <1>2 DEF Slot
<1>4. ASSUME NEW y \in Variables \ {x}
      PROVE  Slot(y)' = Slot(y)
  <2>1. /\ opmap.slot[y] \in Int
        /\ opmap.slot[x] + 4 <= opmap.slot[y] \/ opmap.slot[y] + 4 <= opmap.slot[x]
    BY DEF MapInv, Variables
  <2>2. opmap.slot[y] # opmap.slot[x]
    BY <1>1, <2>1
  <2>3. opmap.slot[y] \in Addresses
    <3>1. opmap.slot[y] % 4 = 0
      BY DEF MapInv, Variables
    <3>2. PICK k \in Int : opmap.slot[y] = 4 * k
      BY <2>1, <3>1
    <3> QED
      BY <3>2 DEF Wide
  <2> QED
    BY <2>2, <2>3 DEF Slot
<1>5. ASSUME NEW a \in Addresses, a \in Nat
      PROVE  mem'[a] = mem[a]
  <2>1. a # opmap.slot[x]
    BY <1>1, <1>5
  <2> QED
    BY <2>1
<1> QED
  BY <1>3, <1>4, <1>5

LEMMA SlotsAbove ==
  ASSUME MachineInv, Running, NEW h, Printed(h), h[pc].p # FramePlace
  PROVE  \A x \in Variables : opmap.slot[x] \in Int /\ opmap.slot[x] % 4 = 0 /\ opmap.slot[x] >= rsp
<1>1. MapInv(opmap) /\ pc \in 1 .. Len(fixed) + 1 /\ Len(fixed) \in Nat
  BY MachineTypes DEF Running
<1>2. \A x \in Variables : opmap.slot[x] \in Int /\ opmap.slot[x] % 4 = 0
  BY <1>1 DEF MapInv, Variables
<1>3. CASE pc > 1
  <2>1. \A x \in DOMAIN opmap.slot : opmap.slot[x] >= rsp
    BY <1>3, ReservedSlots DEF SlotsStayReserved, Running
  <2> QED
    BY <1>2, <2>1 DEF Variables
<1>4. CASE ~(pc > 1)
  <2>1. pc = 1
    BY <1>1, <1>4
  <2>2. Frame(opmap.stack_offset) = 0
    BY <2>1 DEF Printed
  <2>3. opmap.stack_offset \in Int /\ 0 <= opmap.stack_offset
    BY <1>1, <2>2, MachineTypes DEF MapInv
  <2>4. \A x \in DOMAIN opmap.slot : FALSE
    BY <1>1, <2>3 DEF MapInv
  <2> QED
    BY <2>4 DEF Variables
<1> QED
  BY <1>3, <1>4

\* A part of the stack at or above an address that is left alone.
LEMMA StackKept ==
  ASSUME opmap' = opmap, NEW low, \A x \in Variables : opmap.slot[x] >= low,
         \A a \in Addresses : a >= low => mem'[a] = mem[a],
         Wide, \A x \in Variables : opmap.slot[x] \in Int /\ opmap.slot[x] % 4 = 0
  PROVE  \A x \in Variables : Slot(x)' = Slot(x)
<1> SUFFICES ASSUME NEW x \in Variables
             PROVE  Slot(x)' = Slot(x)
  OBVIOUS
<1>1. PICK k \in Int : opmap.slot[x] = 4 * k
  OBVIOUS
<1>2. opmap.slot[x] \in Addresses
  BY <1>1 DEF Wide
<1> QED
  BY <1>2 DEF Slot

\* What holds at a place does not depend on the scratch registers.
LEMMA HoldingKept ==
  ASSUME UNCHANGED <<fn, opmap, mem, rsp, lastCall>>, IrEnv' = IrEnv, IrLastCall' = IrLastCall,
         \A r \in Registers \ {"R10", "R11"} : regs'[r] = regs[r],
         NEW p \in Places,
         flags' = flags \/ ~(p.part = "instr" /\ (Clears(fn.instrs[p.at]) \/ Branches(fn.instrs[p.at]))),
         Holding(p)
  PROVE  Holding(p)'
<1> DEFINE i == fn.instrs[p.at]
<1>1. i' = i /\ \A v : Val(v)' = Val(v)
  BY DEF Val
<1>2. \A x : Slot(x)' = Slot(x)
  BY DEF Slot
<1>3. Slots(InFlux(p))'
  BY <1>2 DEF Holding, Slots, InFlux, Variables
<1>4. ASSUME NEW n \in Nat, Given(n), n > 0
      PROVE  Given(n)'
  <2>1. ASSUME NEW m \in n .. Len(fn.params)
        PROVE  Value(ParamSource(m))' = Value(ParamSource(m))
    <3>1. CASE m <= 6
      <4>1. ParamSource(m) = Reg(ArgRegisters[m])
        BY <3>1, SixArgRegisters DEF ParamSource
      <4>2. m \in 1 .. 6
        BY <1>4, <3>1
      <4>3. ArgRegisters[m] \in Registers \ {"R10", "R11"}
        BY <4>2 DEF ArgRegisters, Registers
      <4> QED
        BY <4>1, <4>3 DEF Value, Reg
    <3>2. CASE ~(m <= 6)
      <4>1. ParamSource(m) = Stack(16 + 8 * (m - Len(ArgRegisters) - 1))
        BY <3>2, SixArgRegisters DEF ParamSource
      <4> QED
        BY <4>1 DEF Value, Stack
    <3> QED
      BY <3>1, <3>2
  <2> QED
    BY <1>4, <2>1 DEF Given
<1>5. p.part = "frame" => Given(1)'
  BY <1>4 DEF Holding
<1>6. p.part = "params" => Given(p.n)'
  BY <1>4 DEF Holding, Places
<1>7. regs'["AX"] = regs["AX"] /\ regs'["DX"] = regs["DX"]
  BY DEF Registers
<1>8. ASSUME p.part = "instr", p.n > 1
      PROVE  Underway(i, p.n)'
  <2>1. Underway(i, p.n)
    BY <1>8 DEF Holding
  <2>2. flags' = flags \/ ~(Clears(i) \/ Branches(i))
    BY <1>8
  <2>3. Compared(i)' = Compared(i)
    BY <1>1 DEF Compared
  <2>4. (Clears(i) \/ Branches(i)) => FlagsOf(Compared(i)) /\ flags' = flags
    BY <2>1, <2>2 DEF Underway
  <2>5. (Clears(i) \/ Branches(i)) => FlagsOf(Compared(i))'
    BY <2>3, <2>4 DEF FlagsOf
  <2>6. Clears(i)' = Clears(i) /\ Branches(i)' = Branches(i) /\ InPlace(i)' = InPlace(i) /\ Divides(i)' = Divides(i)
    BY <1>1 DEF Clears, Branches, InPlace, Divides
  <2> HIDE DEF i
  <2> QED
    BY <1>1, <1>2, <1>7, <2>1, <2>5, <2>6 DEF Underway
<1>9. ASSUME NEW args, NEW n, InRegisters(args, n)
      PROVE  InRegisters(args, n)'
  <2>1. \A k \in 1 .. Len(args) : k <= 6 => regs'[ArgRegisters[k]] = regs[ArgRegisters[k]]
    <3> SUFFICES ASSUME NEW k \in 1 .. Len(args), k <= 6
                 PROVE  regs'[ArgRegisters[k]] = regs[ArgRegisters[k]]
      OBVIOUS
    <3>1. k \in 1 .. 6
      OBVIOUS
    <3>2. ArgRegisters[k] \in Registers \ {"R10", "R11"}
      BY <3>1 DEF ArgRegisters, Registers
    <3> QED
      BY <3>2
  <2> QED
    BY <1>1, <1>9, <2>1 DEF InRegisters
<1>10. ASSUME NEW args, NEW a, Pushed(args, a)
       PROVE  Pushed(args, a)'
  BY <1>1, <1>10 DEF Pushed
<1> HIDE DEF i
<1>11. p.part = "begin" => InRegisters(i.args, p.n - 1 - Pads(i.args))'
  BY <1>9 DEF Holding, i
<1>12. p.part = "push" => /\ InRegisters(i.args, 6)' /\ Pushed(i.args, p.arg)'
                          /\ p.n = 2 => regs'["AX"] = Val(i.args[p.arg])'
  BY <1>1, <1>7, <1>9, <1>10 DEF Holding, i
<1>13. p.part = "finish" /\ p.n = 1 => InRegisters(i.args, 6)' /\ Pushed(i.args, 6)'
  BY <1>9, <1>10 DEF Holding, i
<1>14. (p.part = "finish" /\ p.n > 1) => lastCall' = Passed(i)' /\ regs'["AX"] \in Word
  BY <1>1, <1>7 DEF Holding, Passed, i
<1>15. ~(p.part = "finish" /\ p.n > 1) => lastCall' = IrLastCall'
  BY DEF Holding
<1> QED
  BY <1>3, <1>5, <1>6, <1>8, <1>11, <1>12, <1>13, <1>14, <1>15 DEF Holding, i

-----------------------------------------------------------------------------
(* The blocks of code, as they are written *)

LEMMA InstrFields ==
  ASSUME NEW i \in IrInstructions(Ids)
  PROVE  /\ i.kind = "RETURN" => i.val \in IrValues(Ids)
         /\ i.kind = "UNOP" => i.op \in IrUnops /\ i.src \in IrValues(Ids)
         /\ i.kind = "BINOP" => i.op \in IrBinops /\ i.lhs \in IrValues(Ids) /\ i.rhs \in IrValues(Ids)
         /\ i.kind = "COPY" => i.src \in IrValues(Ids)
         /\ Branches(i) => i.cond \in IrValues(Ids)
         /\ i.kind \in {"UNOP", "BINOP", "COPY"} =>
              i.dst \in IrValues(Ids) /\ i.dst.kind = "VARIABLE" /\ i.dst.id \in Ids
         /\ i.kind \in {"RETURN", "UNOP", "BINOP", "COPY", "JUMP", "JUMP_ZERO", "JUMP_NOT_ZERO", "LABEL", "FUNCALL"}
  BY DEF IrInstructions, IrValues, IrVariables, Branches

LEMMA InstrBlocks ==
  ASSUME NEW i \in IrInstructions(Ids)
  PROVE  /\ i.kind = "RETURN" => CodegenInstr(i) = <<Mov(Reg("AX"), CodegenVal(i.val)), Ret>>
         /\ i.kind = "UNOP" /\ i.op = "NOT" =>
              CodegenInstr(i) = <<Cmp(CodegenVal(i.src), Imm(0)), Mov(CodegenVal(i.dst), Imm(0)),
                                  SetCC("E", CodegenVal(i.dst))>>
         /\ i.kind = "UNOP" /\ i.op # "NOT" =>
              CodegenInstr(i) = <<Mov(CodegenVal(i.dst), CodegenVal(i.src)), Unary(i.op, CodegenVal(i.dst))>>
         /\ Divides(i) =>
              CodegenInstr(i) = <<Mov(Reg("AX"), CodegenVal(i.lhs)), Cdq, Idiv(CodegenVal(i.rhs)),
                                  Mov(CodegenVal(i.dst), Reg(IF i.op = "DIV" THEN "AX" ELSE "DX"))>>
         /\ i.kind = "BINOP" /\ Clears(i) =>
              CodegenInstr(i) = <<Cmp(CodegenVal(i.rhs), CodegenVal(i.lhs)), Mov(CodegenVal(i.dst), Imm(0)),
                                  SetCC(ConditionCode(i.op), CodegenVal(i.dst))>>
         /\ i.kind = "BINOP" /\ InPlace(i) =>
              CodegenInstr(i) = <<Mov(CodegenVal(i.dst), CodegenVal(i.lhs)),
                                  Binary(i.op, CodegenVal(i.rhs), CodegenVal(i.dst))>>
         /\ i.kind = "JUMP" => CodegenInstr(i) = <<Jmp(i.target)>>
         /\ Branches(i) =>
              CodegenInstr(i) = <<Cmp(Imm(0), CodegenVal(i.cond)),
                                  JmpCC(IF i.kind = "JUMP_ZERO" THEN "E" ELSE "NE", i.target)>>
         /\ i.kind = "COPY" => CodegenInstr(i) = <<Mov(CodegenVal(i.dst), CodegenVal(i.src))>>
         /\ i.kind = "LABEL" => CodegenInstr(i) = <<Label(i.id)>>
<1>1. i.kind = "RETURN" => CodegenInstr(i) = <<Mov(Reg("AX"), CodegenVal(i.val)), Ret>>
  BY DEF CodegenInstr, CodegenReturn
<1>2. i.kind = "UNOP" => CodegenInstr(i) = CodegenUnop(i)
  BY DEF CodegenInstr
<1>3. i.kind = "BINOP" => CodegenInstr(i) = CodegenBinop(i)
  BY DEF CodegenInstr
<1>4. /\ i.kind = "JUMP" => CodegenInstr(i) = <<Jmp(i.target)>>
      /\ i.kind = "COPY" => CodegenInstr(i) = <<Mov(CodegenVal(i.dst), CodegenVal(i.src))>>
      /\ i.kind = "LABEL" => CodegenInstr(i) = <<Label(i.id)>>
  BY DEF CodegenInstr
<1>5. Branches(i) => CodegenInstr(i) = <<Cmp(Imm(0), CodegenVal(i.cond)),
                                         JmpCC(IF i.kind = "JUMP_ZERO" THEN "E" ELSE "NE", i.target)>>
  <2>1. i.kind = "JUMP_ZERO" => CodegenInstr(i) = <<Cmp(Imm(0), CodegenVal(i.cond)), JmpCC("E", i.target)>>
    BY DEF CodegenInstr
  <2>2. i.kind = "JUMP_NOT_ZERO" => CodegenInstr(i) = <<Cmp(Imm(0), CodegenVal(i.cond)), JmpCC("NE", i.target)>>
    BY DEF CodegenInstr
  <2> QED
    BY <2>1, <2>2 DEF Branches
<1>6. /\ i.op = "NOT" => CodegenUnop(i) = <<Cmp(CodegenVal(i.src), Imm(0)), Mov(CodegenVal(i.dst), Imm(0)),
                                            SetCC("E", CodegenVal(i.dst))>>
      /\ i.op # "NOT" => CodegenUnop(i) = <<Mov(CodegenVal(i.dst), CodegenVal(i.src)),
                                            Unary(i.op, CodegenVal(i.dst))>>
  BY DEF CodegenUnop
<1>7. i.op \in {"DIV", "MOD"} =>
        CodegenBinop(i) = <<Mov(Reg("AX"), CodegenVal(i.lhs)), Cdq, Idiv(CodegenVal(i.rhs)),
                            Mov(CodegenVal(i.dst), Reg(IF i.op = "DIV" THEN "AX" ELSE "DX"))>>
  <2>1. i.op = "DIV" => CodegenBinop(i) = <<Mov(Reg("AX"), CodegenVal(i.lhs)), Cdq, Idiv(CodegenVal(i.rhs)),
                                            Mov(CodegenVal(i.dst), Reg("AX"))>>
    BY DEF CodegenBinop, IrRelations
  <2>2. i.op = "MOD" => CodegenBinop(i) = <<Mov(Reg("AX"), CodegenVal(i.lhs)), Cdq, Idiv(CodegenVal(i.rhs)),
                                            Mov(CodegenVal(i.dst), Reg("DX"))>>
    BY DEF CodegenBinop, IrRelations
  <2> QED
    BY <2>1, <2>2
<1>8. i.op \in IrRelations =>
        CodegenBinop(i) = <<Cmp(CodegenVal(i.rhs), CodegenVal(i.lhs)), Mov(CodegenVal(i.dst), Imm(0)),
                            SetCC(ConditionCode(i.op), CodegenVal(i.dst))>>
  BY DEF CodegenBinop, IrRelations
<1>9. i.op \notin {"DIV", "MOD"} \cup IrRelations =>
        CodegenBinop(i) = <<Mov(CodegenVal(i.dst), CodegenVal(i.lhs)),
                            Binary(i.op, CodegenVal(i.rhs), CodegenVal(i.dst))>>
  BY DEF CodegenBinop
<1> QED
  BY <1>1, <1>2, <1>3, <1>4, <1>5, <1>6, <1>7, <1>8, <1>9 DEF Divides, Clears, InPlace

-----------------------------------------------------------------------------
(* No block names a scratch register *)

Clean(op) == op.kind \in {"IMM", "STACK", "ID"} \/ NotScratch(op)
CleanInstr(s) ==
  /\ s.kind = "MOV" => Clean(s.dst) /\ Clean(s.src)
  /\ s.kind = "BINOP" => Clean(s.dst) /\ Clean(s.rhs)
  /\ s.kind = "CMP" => Clean(s.lhs) /\ Clean(s.rhs)

LEMMA CleanOperands ==
  /\ \A v \in IrValues(Ids) : Clean(CodegenVal(v))
  /\ \A n : Clean(Imm(n)) /\ Clean(Stack(n)) /\ Clean(Id(n))
  /\ Clean(Reg("AX")) /\ Clean(Reg("DX"))
  /\ \A k \in 1 .. 6 : Clean(Reg(ArgRegisters[k]))
<1>1. \A v \in IrValues(Ids) : Clean(CodegenVal(v))
  BY DEF Clean, IrValues, IrVariables, CodegenVal, Id, Imm
<1>2. \A n : Clean(Imm(n)) /\ Clean(Stack(n)) /\ Clean(Id(n))
  BY DEF Clean, Imm, Stack, Id
<1>3. \A r \in Registers \ {"R10", "R11"} : Clean(Reg(r))
  BY DEF Clean, NotScratch, Reg
<1>4. /\ "AX" \in Registers \ {"R10", "R11"} /\ "DX" \in Registers \ {"R10", "R11"}
      /\ \A k \in 1 .. 6 : ArgRegisters[k] \in Registers \ {"R10", "R11"}
  BY DEF Registers, ArgRegisters
<1> QED
  BY <1>1, <1>2, <1>3, <1>4

LEMMA CleanConstructors ==
  ASSUME NEW a, NEW b, NEW t
  PROVE  /\ Clean(a) /\ Clean(b) => CleanInstr(Mov(a, b)) /\ CleanInstr(Cmp(a, b)) /\ CleanInstr(Binary(t, a, b))
         /\ CleanInstr(Ret) /\ CleanInstr(Cdq) /\ CleanInstr(Unary(t, a)) /\ CleanInstr(Idiv(a))
         /\ CleanInstr(Jmp(a)) /\ CleanInstr(JmpCC(t, a)) /\ CleanInstr(SetCC(t, a)) /\ CleanInstr(Label(a))
         /\ CleanInstr(Push(a)) /\ CleanInstr(Call(a)) /\ CleanInstr(Alloc(a)) /\ CleanInstr(Deallocate(a))
  BY DEF CleanInstr, Mov, Cmp, Binary, Ret, Cdq, Unary, Idiv, Jmp, JmpCC, SetCC, Label, Push, Call, Alloc, Deallocate

LEMMA CleanBecomesTame ==
  ASSUME NEW m, NEW s \in Instrs, CleanInstr(s)
  PROVE  Tame(RenameOperands(m, s)) /\ RenameOperands(m, s).kind = s.kind
<1> DEFINE c == RenameOperands(m, s)
           fields == Range(OperandFields(s))
<1>1. /\ DOMAIN c = DOMAIN s
      /\ \A f \in fields \cap DOMAIN s : c[f] = Renamed(m, s[f])
      /\ \A f \in DOMAIN s \ fields : c[f] = s[f]
  BY DEF RenameOperands
<1>2. \A op : Clean(op) => NotScratch(Renamed(m, op))
  BY DEF Renamed, Stack, Clean, NotScratch
<1>3. /\ "kind" \in DOMAIN s /\ "kind" \notin fields
      /\ s.kind = "MOV" => fields = {"dst", "src"} /\ {"dst", "src"} \subseteq DOMAIN s
      /\ s.kind = "BINOP" => fields = {"rhs", "dst"} /\ {"rhs", "dst"} \subseteq DOMAIN s
      /\ s.kind = "CMP" => fields = {"lhs", "rhs"} /\ {"lhs", "rhs"} \subseteq DOMAIN s
  BY DEF Instrs, X86Instructions, OperandFields, Range
<1> HIDE DEF c, fields
<1>4. c.kind = s.kind
  BY <1>1, <1>3
<1>5. Tame(c)
  BY <1>1, <1>2, <1>3, <1>4 DEF Tame, CleanInstr
<1> QED
  BY <1>4, <1>5 DEF c

LEMMA BeginShape ==
  ASSUME NEW i \in IrInstructions(Ids), i.kind = "FUNCALL",
         NEW n \in 1 .. Len(AllocIfAny(Padding(i.args)) \o RegisterMoves(i.args))
  PROVE  LET block == AllocIfAny(Padding(i.args)) \o RegisterMoves(i.args)
         IN /\ Pads(i.args) \in {0, 1}
            /\ Len(block) = Pads(i.args) + (Len(i.args) - StackArgs(i.args))
            /\ n <= Pads(i.args) => block[n] = Alloc(Padding(i.args))
            /\ n > Pads(i.args) =>
                 /\ n - Pads(i.args) \in 1 .. Len(i.args) /\ n - Pads(i.args) <= 6
                 /\ block[n] = Mov(Reg(ArgRegisters[n - Pads(i.args)]), CodegenVal(i.args[n - Pads(i.args)]))
<1> DEFINE args == i.args
           alloc == AllocIfAny(Padding(args))
           moves == RegisterMoves(args)
           m == Len(args) - StackArgs(args)
<1>1. args \in Seq(IrValues(Ids)) /\ Len(args) \in Nat
  BY ArgumentsAreSequences
<1>2. alloc \in Seq(Instrs) /\ moves \in Seq(Instrs)
  <2>1. Padding(args) \in Int
    BY DEF Padding
  <2> QED
    BY <1>1, <2>1, PaddingTypes, RegisterMovesTypes
<1>3. m \in Nat /\ m <= 6 /\ StackArgs(args) \in Nat
  BY <1>1, ArgumentCounts
<1>4. moves = [k \in 1 .. m |-> Mov(Reg(ArgRegisters[k]), CodegenVal(args[k]))]
  BY DEF RegisterMoves
<1>5. Len(moves) = m
  BY <1>3, <1>4
<1>6. /\ Len(alloc \o moves) = Len(alloc) + Len(moves) /\ Len(alloc) \in Nat
      /\ \A k \in 1 .. Len(alloc) : (alloc \o moves)[k] = alloc[k]
      /\ \A k \in 1 .. Len(moves) : (alloc \o moves)[Len(alloc) + k] = moves[k]
  BY <1>2, ConcatIndex
<1>7. Len(alloc) \in {0, 1} /\ (Len(alloc) = 1 => alloc[1] = Alloc(Padding(args)))
  BY DEF AllocIfAny
<1>11. n \in Nat \ {0}
  OBVIOUS
<1> HIDE DEF alloc, moves, m
<1>8. n <= Len(alloc) => (alloc \o moves)[n] = Alloc(Padding(args))
  <2> SUFFICES ASSUME n <= Len(alloc)
               PROVE  (alloc \o moves)[n] = Alloc(Padding(args))
    OBVIOUS
  <2> DEFINE l == Len(alloc)
  <2>1. l \in {0, 1} /\ n <= l
    BY <1>7
  <2> HIDE DEF l
  <2>2. l = 1 /\ n = 1
    BY <1>11, <2>1
  <2>3. n \in 1 .. Len(alloc) /\ n = 1 /\ Len(alloc) = 1
    BY <2>2 DEF l
  <2> QED
    BY <1>6, <1>7, <2>3
<1>9. n > Len(alloc) => /\ n - Len(alloc) \in 1 .. Len(args) /\ n - Len(alloc) <= 6
                        /\ (alloc \o moves)[n] = Mov(Reg(ArgRegisters[n - Len(alloc)]), CodegenVal(args[n - Len(alloc)]))
  <2> SUFFICES ASSUME n > Len(alloc)
               PROVE  /\ n - Len(alloc) \in 1 .. Len(args) /\ n - Len(alloc) <= 6
                      /\ (alloc \o moves)[n] = Mov(Reg(ArgRegisters[n - Len(alloc)]), CodegenVal(args[n - Len(alloc)]))
    OBVIOUS
  <2> DEFINE k == n - Len(alloc)
  <2>1. n \in 1 .. Len(alloc) + m
    BY <1>5, <1>6 DEF alloc, moves
  <2>2. k \in 1 .. m /\ n = Len(alloc) + k
    BY <1>3, <1>6, <2>1
  <2> HIDE DEF k
  <2>3. (alloc \o moves)[n] = moves[k]
    BY <1>5, <1>6, <2>2
  <2>4. m <= Len(args)
    BY <1>1, <1>3 DEF m
  <2>5. k \in 1 .. Len(args) /\ k <= 6
    BY <1>1, <1>3, <2>2, <2>4
  <2>6. moves[k] = Mov(Reg(ArgRegisters[k]), CodegenVal(args[k]))
    BY <1>4, <2>2
  <2> QED
    BY <2>3, <2>5, <2>6 DEF k
<1>10. Len(alloc) = Pads(args) /\ Len(alloc \o moves) = Len(alloc) + m
  BY <1>5, <1>6 DEF Pads, alloc
<1> QED
  BY <1>7, <1>8, <1>9, <1>10 DEF alloc, moves, m

LEMMA FinishShape ==
  ASSUME NEW i \in IrInstructions(Ids), i.kind = "FUNCALL"
  PROVE  LET block == <<Call(i.f)>> \o DeallocateIfAny(BytesToRemove(i.args))
                                    \o <<Mov(CodegenVal(i.dst), Reg("AX"))>>
         IN /\ Len(block) \in {2, 3}
            /\ block[1] = Call(i.f)
            /\ block[Len(block)] = Mov(CodegenVal(i.dst), Reg("AX"))
            /\ Len(block) = 3 => block[2] = Deallocate(BytesToRemove(i.args))
<1>1. CASE BytesToRemove(i.args) # 0
  BY <1>1 DEF DeallocateIfAny
<1>2. CASE BytesToRemove(i.args) = 0
  BY <1>2 DEF DeallocateIfAny
<1> QED
  BY <1>1, <1>2

\* codegen_instr on one instruction: no scratch register, and no arithmetic
\* while the flags of a comparison are in use.
LEMMA InstrClean ==
  ASSUME NEW i \in IrInstructions(Ids), i.kind # "FUNCALL", NEW n \in 1 .. Len(CodegenInstr(i))
  PROVE  /\ CleanInstr(CodegenInstr(i)[n])
         /\ Clears(i) \/ Branches(i) => CodegenInstr(i)[n].kind # "BINOP"
<1> DEFINE s == CodegenInstr(i)
<1>1. CASE i.kind = "RETURN"
  <2>1. s = <<Mov(Reg("AX"), CodegenVal(i.val)), Ret>>
    BY <1>1, InstrBlocks
  <2>2. CleanInstr(Mov(Reg("AX"), CodegenVal(i.val))) /\ CleanInstr(Ret)
    BY <1>1, InstrFields, CleanOperands, CleanConstructors
  <2>3. ~Clears(i) /\ ~Branches(i)
    BY <1>1 DEF Clears, Branches
  <2> QED
    BY <2>1, <2>2, <2>3
<1>2. CASE i.kind = "UNOP" /\ i.op = "NOT"
  <2> DEFINE src == CodegenVal(i.src)
             dst == CodegenVal(i.dst)
  <2>1. s = <<Cmp(src, Imm(0)), Mov(dst, Imm(0)), SetCC("E", dst)>>
    BY <1>2, InstrBlocks
  <2>2. Clean(src) /\ Clean(dst) /\ Clean(Imm(0))
    BY <1>2, InstrFields, CleanOperands
  <2>3. CleanInstr(Cmp(src, Imm(0))) /\ CleanInstr(Mov(dst, Imm(0))) /\ CleanInstr(SetCC("E", dst))
    BY <2>2, CleanConstructors
  <2>4. Cmp(src, Imm(0)).kind # "BINOP" /\ Mov(dst, Imm(0)).kind # "BINOP" /\ SetCC("E", dst).kind # "BINOP"
    BY DEF Cmp, Mov, SetCC
  <2> HIDE DEF src, dst
  <2> QED
    BY <2>1, <2>3, <2>4
<1>3. CASE i.kind = "UNOP" /\ i.op # "NOT"
  <2> DEFINE src == CodegenVal(i.src)
             dst == CodegenVal(i.dst)
  <2>1. s = <<Mov(dst, src), Unary(i.op, dst)>>
    BY <1>3, InstrBlocks
  <2>2. Clean(src) /\ Clean(dst)
    BY <1>3, InstrFields, CleanOperands
  <2>3. CleanInstr(Mov(dst, src)) /\ CleanInstr(Unary(i.op, dst))
    BY <2>2, CleanConstructors
  <2>4. ~Clears(i) /\ ~Branches(i)
    BY <1>3 DEF Clears, Branches
  <2> HIDE DEF src, dst
  <2> QED
    BY <2>1, <2>3, <2>4
<1>4. CASE Divides(i)
  <2> DEFINE lhs == CodegenVal(i.lhs)
             rhs == CodegenVal(i.rhs)
             dst == CodegenVal(i.dst)
             answer == Reg(IF i.op = "DIV" THEN "AX" ELSE "DX")
  <2>1. s = <<Mov(Reg("AX"), lhs), Cdq, Idiv(rhs), Mov(dst, answer)>>
    BY <1>4, InstrBlocks
  <2>2. Clean(lhs) /\ Clean(rhs) /\ Clean(dst) /\ Clean(answer) /\ Clean(Reg("AX"))
    BY <1>4, InstrFields, CleanOperands DEF Divides
  <2> HIDE DEF lhs, rhs, dst, answer
  <2>3. CleanInstr(Mov(Reg("AX"), lhs)) /\ CleanInstr(Cdq) /\ CleanInstr(Idiv(rhs)) /\ CleanInstr(Mov(dst, answer))
    BY <2>2, CleanConstructors
  <2>4. ~Clears(i) /\ ~Branches(i)
    BY <1>4 DEF Clears, Branches, Divides, IrRelations
  <2> QED
    BY <2>1, <2>3, <2>4
<1>5. CASE i.kind = "BINOP" /\ Clears(i)
  <2> DEFINE lhs == CodegenVal(i.lhs)
             rhs == CodegenVal(i.rhs)
             dst == CodegenVal(i.dst)
             cc == ConditionCode(i.op)
  <2>1. s = <<Cmp(rhs, lhs), Mov(dst, Imm(0)), SetCC(cc, dst)>>
    BY <1>5, InstrBlocks
  <2>2. Clean(lhs) /\ Clean(rhs) /\ Clean(dst) /\ Clean(Imm(0))
    BY <1>5, InstrFields, CleanOperands
  <2>3. CleanInstr(Cmp(rhs, lhs)) /\ CleanInstr(Mov(dst, Imm(0))) /\ CleanInstr(SetCC(cc, dst))
    BY <2>2, CleanConstructors
  <2>4. Cmp(rhs, lhs).kind # "BINOP" /\ Mov(dst, Imm(0)).kind # "BINOP" /\ SetCC(cc, dst).kind # "BINOP"
    BY DEF Cmp, Mov, SetCC
  <2> HIDE DEF lhs, rhs, dst, cc
  <2> QED
    BY <2>1, <2>3, <2>4
<1>6. CASE i.kind = "BINOP" /\ InPlace(i)
  <2> DEFINE lhs == CodegenVal(i.lhs)
             rhs == CodegenVal(i.rhs)
             dst == CodegenVal(i.dst)
  <2>1. s = <<Mov(dst, lhs), Binary(i.op, rhs, dst)>>
    BY <1>6, InstrBlocks
  <2>2. Clean(lhs) /\ Clean(rhs) /\ Clean(dst)
    BY <1>6, InstrFields, CleanOperands
  <2>3. CleanInstr(Mov(dst, lhs)) /\ CleanInstr(Binary(i.op, rhs, dst))
    BY <2>2, CleanConstructors
  <2>4. ~Clears(i) /\ ~Branches(i)
    BY <1>6 DEF InPlace, Branches
  <2> HIDE DEF lhs, rhs, dst
  <2> QED
    BY <2>1, <2>3, <2>4
<1>7. CASE i.kind \in {"JUMP", "LABEL"}
  <2>1. s \in {<<Jmp(i.target)>>, <<Label(i.id)>>}
    BY <1>7, InstrBlocks
  <2>2. CleanInstr(Jmp(i.target)) /\ CleanInstr(Label(i.id))
    BY CleanConstructors
  <2>3. ~Clears(i) /\ ~Branches(i)
    BY <1>7 DEF Clears, Branches
  <2> QED
    BY <2>1, <2>2, <2>3
<1>8. CASE Branches(i)
  <2> DEFINE cond == CodegenVal(i.cond)
             cc == IF i.kind = "JUMP_ZERO" THEN "E" ELSE "NE"
  <2>1. s = <<Cmp(Imm(0), cond), JmpCC(cc, i.target)>>
    BY <1>8, InstrBlocks
  <2>2. Clean(cond) /\ Clean(Imm(0))
    BY <1>8, InstrFields, CleanOperands
  <2>3. CleanInstr(Cmp(Imm(0), cond)) /\ CleanInstr(JmpCC(cc, i.target))
    BY <2>2, CleanConstructors
  <2>4. Cmp(Imm(0), cond).kind # "BINOP" /\ JmpCC(cc, i.target).kind # "BINOP"
    BY DEF Cmp, JmpCC
  <2> HIDE DEF cond, cc
  <2> QED
    BY <2>1, <2>3, <2>4
<1>9. CASE i.kind = "COPY"
  <2>1. s = <<Mov(CodegenVal(i.dst), CodegenVal(i.src))>>
    BY <1>9, InstrBlocks
  <2>2. CleanInstr(Mov(CodegenVal(i.dst), CodegenVal(i.src)))
    BY <1>9, InstrFields, CleanOperands, CleanConstructors
  <2>3. ~Clears(i) /\ ~Branches(i)
    BY <1>9 DEF Clears, Branches
  <2> QED
    BY <2>1, <2>2, <2>3
<1> QED
  BY <1>1, <1>2, <1>3, <1>4, <1>5, <1>6, <1>7, <1>8, <1>9, InstrFields DEF InPlace, Branches

\* Everything between two registers, slots and constants: so allocate_stack
\* may use its scratch registers anywhere.
LEMMA MeantTame ==
  ASSUME fn \in IrFunctions, NEW p \in Places, IsPlace(fn, p), p.part # "end"
  PROVE  /\ Source(fn, p) \in Instrs
         /\ Meant(p) = RenameOperands(opmap, Source(fn, p))
         /\ Tame(Meant(p))
         /\ p.part = "instr" /\ (Clears(fn.instrs[p.at]) \/ Branches(fn.instrs[p.at])) => Meant(p).kind # "BINOP"
<1> DEFINE i == fn.instrs[p.at]
           block == Block(fn, p)
           n == p.n
<1>1. InBlock(fn, p) /\ n \in 1 .. Len(block)
  BY DEF IsPlace, Place
<1>2. block \in Seq(Instrs) /\ Source(fn, p) = block[n]
  BY <1>1, BlockTypes DEF Source
<1>3. Source(fn, p) \in Instrs
  <2> HIDE DEF block, n
  <2> QED
    BY <1>1, <1>2
<1>4. Meant(p) = RenameOperands(opmap, Source(fn, p))
  BY <1>1 DEF Meant, InBlock
<1>5. p.part \in {"instr", "begin", "push", "finish"} => i \in IrInstructions(Ids)
  BY <1>1, FunctionTypes DEF InBlock
<1>6. CleanInstr(Source(fn, p)) /\ (p.part = "instr" /\ (Clears(i) \/ Branches(i)) => Source(fn, p).kind # "BINOP")
  <2>1. CASE p.part = "params"
    <3>1. block = [k \in 1 .. Len(fn.params) |-> Mov(Id(fn.params[k]), ParamSource(k))]
      BY <2>1 DEF Block
    <3>2. Len(fn.params) \in Nat
      BY FunctionTypes
    <3>3. n \in 1 .. Len(fn.params)
      BY <1>1, <3>1, <3>2
    <3>4. block[n] = Mov(Id(fn.params[n]), ParamSource(n))
      BY <3>1, <3>3
    <3>5. Clean(ParamSource(n))
      <4>1. n <= 6 => n \in 1 .. 6
        BY <3>3
      <4> HIDE DEF n
      <4>2. ParamSource(n) = IF n <= 6 THEN Reg(ArgRegisters[n]) ELSE Stack(16 + 8 * (n - Len(ArgRegisters) - 1))
        BY SixArgRegisters DEF ParamSource
      <4> QED
        BY <4>1, <4>2, CleanOperands
    <3>6. Clean(Id(fn.params[n]))
      BY CleanOperands
    <3>7. CleanInstr(Mov(Id(fn.params[n]), ParamSource(n)))
      BY <3>5, <3>6, CleanConstructors
    <3> QED
      BY <1>2, <2>1, <3>4, <3>7
  <2>2. CASE p.part = "instr"
    <3>1. block = CodegenInstr(i) /\ i \in IrInstructions(Ids) /\ i.kind # "FUNCALL"
      BY <1>1, <1>5, <2>2 DEF Block, InBlock
    <3> HIDE DEF i, n, block
    <3>2. n \in 1 .. Len(CodegenInstr(i))
      BY <1>1, <3>1
    <3>3. CleanInstr(CodegenInstr(i)[n]) /\ (Clears(i) \/ Branches(i) => CodegenInstr(i)[n].kind # "BINOP")
      BY <3>1, <3>2, InstrClean
    <3> QED
      BY <1>2, <3>1, <3>3
  <2>3. ASSUME p.part \in {"begin", "push", "finish"}
        PROVE  /\ i \in IrInstructions(Ids) /\ i.kind = "FUNCALL"
               /\ i.args \in Seq(IrValues(Ids)) /\ Len(i.args) \in Nat /\ i.dst \in IrValues(Ids)
    <3>1. i \in IrInstructions(Ids) /\ i.kind = "FUNCALL"
      BY <1>1, <1>5, <2>3 DEF InBlock
    <3> HIDE DEF i
    <3> QED
      BY <3>1, ArgumentsAreSequences DEF IrValues
  <2>4. CASE p.part = "begin"
    <3>1. block = AllocIfAny(Padding(i.args)) \o RegisterMoves(i.args)
      BY <2>4 DEF Block
    <3>2. i \in IrInstructions(Ids) /\ i.kind = "FUNCALL" /\ i.args \in Seq(IrValues(Ids)) /\ Len(i.args) \in Nat
      BY <2>3, <2>4
    <3> DEFINE k == n - Pads(i.args)
    <3> HIDE DEF i, n, block
    <3>3. /\ Pads(i.args) \in {0, 1}
          /\ n <= Pads(i.args) => block[n] = Alloc(Padding(i.args))
          /\ n > Pads(i.args) => /\ k \in 1 .. Len(i.args) /\ k <= 6
                                 /\ block[n] = Mov(Reg(ArgRegisters[k]), CodegenVal(i.args[k]))
      BY <1>1, <3>1, <3>2, BeginShape
    <3>4. n \in Nat
      <4>1. Len(block) \in Nat
        BY <1>2
      <4> QED
        BY <1>1, <4>1
    <3> HIDE DEF k
    <3>5. CASE n <= Pads(i.args)
      BY <1>2, <2>4, <3>3, <3>5, CleanConstructors
    <3>6. CASE ~(n <= Pads(i.args))
      <4>1. n > Pads(i.args)
        BY <3>3, <3>4, <3>6
      <4>2. k \in 1 .. Len(i.args) /\ k <= 6 /\ block[n] = Mov(Reg(ArgRegisters[k]), CodegenVal(i.args[k]))
        BY <3>3, <4>1
      <4>3. k \in 1 .. 6 /\ i.args[k] \in IrValues(Ids)
        BY <3>2, <4>2
      <4>4. Clean(Reg(ArgRegisters[k])) /\ Clean(CodegenVal(i.args[k]))
        BY <4>3, CleanOperands
      <4>5. CleanInstr(Mov(Reg(ArgRegisters[k]), CodegenVal(i.args[k])))
        BY <4>4, CleanConstructors
      <4> QED
        BY <1>2, <2>4, <4>2, <4>5
    <3> QED
      BY <3>5, <3>6
  <2>5. CASE p.part = "push"
    <3>1. block = PushArg(i.args[p.arg]) /\ p.arg \in 7 .. Len(i.args)
      BY <1>1, <2>5 DEF Block, InBlock
    <3>2. i.args[p.arg] \in IrValues(Ids)
      <4>1. p.arg \in 1 .. Len(i.args)
        BY <2>3, <2>5, <3>1
      <4> HIDE DEF i
      <4> QED
        BY <2>3, <2>5, <4>1
    <3> DEFINE v == i.args[p.arg]
    <3> HIDE DEF v
    <3>3. CleanInstr(Push(CodegenVal(v))) /\ CleanInstr(Push(Reg("AX"))) /\ CleanInstr(Mov(Reg("AX"), CodegenVal(v)))
      BY <3>2, CleanConstructors, CleanOperands DEF v
    <3>4. block \in {<<Push(CodegenVal(v))>>, <<Mov(Reg("AX"), CodegenVal(v)), Push(Reg("AX"))>>}
      BY <3>1 DEF PushArg, v
    <3> HIDE DEF block, n
    <3>5. CleanInstr(block[n])
      BY <1>1, <3>3, <3>4
    <3> QED
      BY <1>2, <2>5, <3>5
  <2>6. CASE p.part = "finish"
    <3>1. block = <<Call(i.f)>> \o DeallocateIfAny(BytesToRemove(i.args)) \o <<Mov(CodegenVal(i.dst), Reg("AX"))>>
      BY <2>6 DEF Block
    <3>2. i \in IrInstructions(Ids) /\ i.kind = "FUNCALL" /\ i.dst \in IrValues(Ids)
      BY <2>3, <2>6
    <3> HIDE DEF i, n, block
    <3>3. /\ Len(block) \in {2, 3}
          /\ block[1] = Call(i.f)
          /\ block[Len(block)] = Mov(CodegenVal(i.dst), Reg("AX"))
          /\ Len(block) = 3 => block[2] = Deallocate(BytesToRemove(i.args))
      BY <3>1, <3>2, FinishShape
    <3>4. CleanInstr(Call(i.f)) /\ CleanInstr(Deallocate(BytesToRemove(i.args)))
          /\ CleanInstr(Mov(CodegenVal(i.dst), Reg("AX")))
      BY <3>2, CleanConstructors, CleanOperands
    <3>5. CleanInstr(block[n])
      BY <1>1, <3>3, <3>4
    <3> QED
      BY <1>2, <2>6, <3>5
  <2> QED
    BY <1>1, <2>1, <2>2, <2>4, <2>5, <2>6 DEF InBlock
<1> QED
  BY <1>3, <1>4, <1>6, CleanBecomesTame

-----------------------------------------------------------------------------
(* Steps the IR does not see *)

Unseen == UNCHANGED <<fn, IrEnv, IrIp, IrLastCall, status, result>>

\* While the function runs, the processor stays on the course of the code.
Continues(h) == status' = "running" => Stored' /\ At(h[pc])'

LEMMA ExecFrame ==
  ASSUME Exec
  PROVE  UNCHANGED passVars /\ saved' = [env |-> IrEnv, call |-> IrLastCall]
<1> DEFINE Framed == UNCHANGED passVars /\ saved' = [env |-> IrEnv, call |-> IrLastCall]
<1>1. \A kind : Executing(kind) => Framed
  BY DEF Executing
<1>2. ExecPastEnd => Framed
  BY DEF ExecPastEnd
<1> HIDE DEF Framed
<1>3. Framed
  BY <1>1, <1>2 DEF Exec, ExecMov, ExecUnop, ExecBinop, ExecCdq, ExecIdiv, ExecCmp, ExecSetCC, ExecJump,
     ExecBranch, ExecLabel, ExecAlloc, ExecDeallocate, ExecPush, ExecCall, ExecRet
<1> QED
  BY <1>3 DEF Framed

LEMMA ReadyFacts ==
  ASSUME NEW h, Ready(h)
  PROVE  /\ fn \in IrFunctions /\ MapInv(opmap) /\ Len(fixed) \in Nat
         /\ pc \in 1 .. Len(fixed) + 1 /\ rsp \in Int
         /\ h[pc].p \in Places /\ h[pc].o \in Nat \ {0}
         /\ IrIp = (IF h[pc].p.at > 0 THEN h[pc].p.at ELSE 1)
<1>1. fn \in IrFunctions /\ MapInv(opmap) /\ Len(fixed) \in Nat /\ pc \in 1 .. Len(fixed) + 1 /\ rsp \in Int
  BY MachineTypes DEF Ready, Running
<1>2. h[pc].p \in Places /\ h[pc].o \in Nat \ {0}
  BY <1>1, SpotTypes DEF Ready
<1>3. Origin = h[pc].p.at
  BY MappingHere DEF Ready
<1> QED
  BY <1>1, <1>2, <1>3 DEF IrIp, Ready, Running

\* A step to a spot where no IR instruction begins.
LEMMA StepsWithin ==
  ASSUME NEW h, Ready(h), Exec, Advance, pc \in 1 .. Len(fixed),
         ~Begins(h[pc + 1]), h[pc + 1].p.at = h[pc].p.at
  PROVE  Unseen
<1>1. MachineInv /\ Printed(h) /\ Running
  BY DEF Ready
<1>2. UNCHANGED passVars /\ saved' = [env |-> IrEnv, call |-> IrLastCall]
  BY ExecFrame
<1>3. pc' = pc + 1 /\ status' = "running" /\ result' = result /\ status' = status
  BY DEF Advance, Ready, Running
<1>4. pc' \in 1 .. Len(fixed) + 1
  BY <1>3, ReadyFacts
<1>5. /\ IrIp' = (IF h[pc'].p.at > 0 THEN h[pc'].p.at ELSE 1)
      /\ ~Begins(h[pc']) => IrEnv' = IrEnv /\ IrLastCall' = IrLastCall
  BY <1>1, <1>2, <1>3, <1>4, MappingThere
<1>6. IrIp = (IF h[pc].p.at > 0 THEN h[pc].p.at ELSE 1)
  BY ReadyFacts
<1>7. fn' = fn
  BY <1>2 DEF passVars
<1> QED
  BY <1>3, <1>5, <1>6, <1>7 DEF Unseen

\* An instruction allocate_stack put before the one that is meant.
LEMMA PreparationStep ==
  ASSUME NEW h, Ready(h), Exec, pc \in 1 .. Len(fixed), NEW x, x = h[pc],
         IsPlace(fn, x.p), x.p.part # "end", x.o < Len(Fix(Meant(x.p)))
  PROVE  Unseen /\ Continues(h)
<1> DEFINE p == x.p
           o == x.o
<1> PICK c : c = Meant(p)
  OBVIOUS
<1>1. MachineInv /\ Printed(h) /\ Running /\ Stored /\ Holding(p) /\ Scratch(c, o)
  BY DEF Ready, At
<1>2. /\ fn \in IrFunctions /\ Len(fixed) \in Nat /\ rsp \in Int
      /\ p \in Places /\ o \in Nat \ {0}
  BY ReadyFacts
<1>3. UNCHANGED passVars
  BY ExecFrame
<1>4. /\ c = RenameOperands(opmap, Source(fn, p))
      /\ Tame(c)
      /\ p.part = "instr" /\ (Clears(fn.instrs[p.at]) \/ Branches(fn.instrs[p.at])) => c.kind # "BINOP"
  BY <1>2, MeantTame
<1>5. x \in Spots /\ AtSpot(x, fixed[pc], fixedFrom[pc]) /\ h[pc + 1] = NextSpot(x)
  BY <1>1, <1>2, SpotTypes
<1>6. Rewritten(p) = Fix(c)
  <2>1. p.part # "frame"
    BY DEF IsPlace, InBlock, Place
  <2> QED
    BY <1>4, <2>1 DEF Rewritten
<1>7. fixed[pc] = Fix(c)[o] /\ h[pc + 1] = [x EXCEPT !.o = o + 1]
  BY <1>5, <1>6 DEF AtSpot, NextSpot
<1>8. h[pc + 1].p = p /\ h[pc + 1].o = o + 1
  BY <1>5, <1>7 DEF Spots
<1>9. ~Begins(h[pc + 1])
  BY <1>2, <1>8 DEF Begins
<1> HIDE DEF o, p
<1>10. Prepares(c) /\ Scratch(c, o + 1)'
  <2>1. o \in 1 .. Len(Fix(c)) /\ o < Len(Fix(c))
    <3>1. o < Len(Fix(c))
      BY DEF o, p
    <3>2. Len(Fix(c)) \in Nat
      BY DEF Fix
    <3> QED
      BY <1>2, <3>1, <3>2
  <2>2. DOMAIN regs = Registers
    BY <1>1 DEF Stored
  <2> QED
    BY <1>1, <1>2, <1>4, <1>7, <2>1, <2>2, Rewriting
<1>11. Advance /\ UNCHANGED <<mem, rsp, lastCall>> /\ (c.kind # "BINOP" => flags' = flags)
       /\ regs' = [regs EXCEPT !["R10"] = regs'["R10"], !["R11"] = regs'["R11"]]
  BY <1>10 DEF Prepares
<1>12. Unseen
  BY <1>8, <1>9, <1>11, StepsWithin DEF p
<1>13. IrEnv' = IrEnv /\ IrLastCall' = IrLastCall /\ UNCHANGED <<fn, opmap>>
  BY <1>3, <1>12 DEF Unseen, passVars
<1>14. DOMAIN regs' = Registers /\ \A r \in Registers \ {"R10", "R11"} : regs'[r] = regs[r]
  BY <1>1, <1>11 DEF Stored
<1>15. Holding(p)'
  <2>1. flags' = flags \/ ~(p.part = "instr" /\ (Clears(fn.instrs[p.at]) \/ Branches(fn.instrs[p.at])))
    BY <1>4, <1>11
  <2> QED
    BY <1>1, <1>2, <1>11, <1>13, <1>14, <2>1, HoldingKept
<1>16. Stored'
  BY <1>1, <1>11, <1>13, <1>14 DEF Stored
<1>17. h[pc'].p = p /\ h[pc'].o = o + 1
  BY <1>8, <1>11 DEF Advance
<1>18. Meant(p)' = c
  BY <1>3 DEF Meant, passVars, p
<1>19. At(h[pc])'
  BY <1>10, <1>15, <1>17, <1>18 DEF At
<1> QED
  BY <1>12, <1>16, <1>19 DEF Continues

-----------------------------------------------------------------------------
(* Steps that do what the code says *)

\* The processor is at the last of the instructions that stand for c, the
\* renamed instruction of place x.p.
Meaning(h, x, c) ==
  /\ Ready(h) /\ Exec
  /\ pc \in 1 .. Len(fixed)
  /\ x = h[pc]
  /\ IsPlace(fn, x.p) /\ x.p.part # "end"
  /\ c = Meant(x.p)
  /\ ~(x.o < Len(Fix(c)))

\* The IR takes the step or does not see it.
Simulated(h) == (Unseen \/ Abstract!IrNext) /\ Continues(h)

LEMMA MeantStep ==
  ASSUME NEW h, NEW x, NEW c, Meaning(h, x, c)
  PROVE  /\ fn \in IrFunctions /\ MapInv(opmap) /\ Running /\ Stored /\ rsp \in Int
         /\ x.p \in Places /\ InBlock(fn, x.p) /\ x.p.n \in 1 .. Len(Block(fn, x.p))
         /\ Holding(x.p)
         /\ c = RenameOperands(opmap, Source(fn, x.p)) /\ Named(opmap, Source(fn, x.p))
         /\ Performs(c) /\ (c.kind \in {"MOV", "BINOP", "CMP"} => Advance)
         /\ fixedFrom[pc] = x.p.at
         /\ h[pc + 1].p = Successor(fn, x.p) /\ h[pc + 1].o = 1
         /\ UNCHANGED passVars
         /\ IrIp = (IF x.p.at > 0 THEN x.p.at ELSE 1)
<1> DEFINE p == x.p
           o == x.o
<1>1. /\ Ready(h) /\ Exec /\ pc \in 1 .. Len(fixed) /\ x = h[pc]
      /\ IsPlace(fn, p) /\ p.part # "end" /\ c = Meant(p) /\ ~(o < Len(Fix(c)))
  BY DEF Meaning
<1>2. MachineInv /\ Printed(h) /\ Running /\ Stored /\ Holding(p) /\ Scratch(c, o)
  BY <1>1 DEF Ready, At
<1>3. /\ fn \in IrFunctions /\ MapInv(opmap) /\ Len(fixed) \in Nat /\ rsp \in Int
      /\ p \in Places /\ o \in Nat \ {0}
      /\ IrIp = (IF p.at > 0 THEN p.at ELSE 1)
  BY <1>1, ReadyFacts
<1>4. c = RenameOperands(opmap, Source(fn, p)) /\ Tame(c)
  BY <1>1, <1>3, MeantTame
<1>5. x \in Spots /\ AtSpot(x, fixed[pc], fixedFrom[pc]) /\ h[pc + 1] = NextSpot(x)
  BY <1>1, <1>2, <1>3, SpotTypes
<1>6. InBlock(fn, p) /\ p.n \in 1 .. Len(Block(fn, p))
  <2>1. Place(Len(fn.instrs) + 1, "end", 0).part = "end"
    BY DEF Place
  <2> QED
    BY <1>1, <2>1 DEF IsPlace
<1>7. p.part # "frame" /\ p # FramePlace
  <2>1. FramePlace.part = "frame"
    BY DEF FramePlace, Place
  <2> QED
    BY <1>6, <2>1 DEF InBlock
<1>8. Rewritten(p) = Fix(c)
  BY <1>4, <1>7 DEF Rewritten
<1>9. o <= Len(Fix(c)) /\ fixed[pc] = Fix(c)[o] /\ fixedFrom[pc] = p.at /\ Named(opmap, Source(fn, p))
  BY <1>5, <1>7, <1>8 DEF AtSpot
<1>10. o = Len(Fix(c)) /\ o \in 1 .. Len(Fix(c))
  <2>1. Len(Fix(c)) \in Nat
    BY DEF Fix
  <2> QED
    BY <1>1, <1>3, <1>9, <2>1
<1>11. h[pc + 1] = [p |-> Successor(fn, p), o |-> 1]
  BY <1>1, <1>5, <1>7, <1>8 DEF NextSpot
<1> HIDE DEF o
<1>12. Performs(c) /\ (c.kind \in {"MOV", "BINOP", "CMP"} => Advance)
  <2>1. DOMAIN regs = Registers
    BY <1>2 DEF Stored
  <2> QED
    BY <1>1, <1>2, <1>3, <1>4, <1>9, <1>10, <2>1, Rewriting
<1>13. UNCHANGED passVars
  BY <1>1, ExecFrame
<1> QED
  BY <1>2, <1>3, <1>4, <1>6, <1>9, <1>11, <1>12, <1>13

\* The step goes on inside the code of the IR instruction.
LEMMA Inside ==
  ASSUME NEW h, NEW x, NEW c, Meaning(h, x, c), Advance, NEW q, q = Successor(fn, x.p), q.at = x.p.at
  PROVE  /\ Unseen /\ IrEnv' = IrEnv /\ IrLastCall' = IrLastCall /\ UNCHANGED <<fn, opmap>>
         /\ \A v : Val(v)' = Val(v)
         /\ Stored' /\ Holding(q)' => Simulated(h)
<1>1. /\ Ready(h) /\ Exec /\ pc \in 1 .. Len(fixed) /\ x = h[pc] /\ IsPlace(fn, x.p) /\ x.p.part # "end"
  BY DEF Meaning
<1>2. /\ fn \in IrFunctions /\ h[pc + 1].p = q /\ h[pc + 1].o = 1 /\ UNCHANGED passVars
      /\ x.p \in Places
  BY MeantStep
<1>3. ~Begins(h[pc + 1])
  <2>1. q.at > 0 => q # FirstOf(fn, q.at)
    BY <1>1, <1>2, SuccessorIsPlace
  <2> QED
    BY <1>2, <2>1 DEF Begins
<1>4. Unseen
  BY <1>1, <1>2, <1>3, StepsWithin
<1>5. IrEnv' = IrEnv /\ IrLastCall' = IrLastCall /\ UNCHANGED <<fn, opmap>>
  BY <1>2, <1>4 DEF Unseen, passVars
<1>6. \A v : Val(v)' = Val(v)
  BY <1>5 DEF Val
<1>7. ASSUME Stored', Holding(q)'
      PROVE  Simulated(h)
  <2>1. h[pc'].p = q /\ h[pc'].o = 1
    BY <1>2 DEF Advance
  <2>2. Scratch(Meant(q), 1)'
    BY DEF Scratch
  <2>3. At(h[pc])'
    BY <1>7, <2>1, <2>2 DEF At
  <2> QED
    BY <1>4, <1>7, <2>3 DEF Simulated, Continues
<1> QED
  BY <1>4, <1>5, <1>6, <1>7

\* Where the code of an IR instruction begins, nothing is asked but that the
\* slots hold the variables.
LEMMA BoundaryHolds ==
  ASSUME fn \in IrFunctions, fn' = fn, NEW i \in 1 .. Len(fn.instrs) + 1, NEW p, p = FirstOf(fn, i),
         Slots({})', lastCall' = IrLastCall'
  PROVE  Holding(p)'
<1>1. p.at = i /\ p.n = 1 /\ p.part \in {"instr", "begin", "finish", "end"}
  BY FirstIsPlace
<1>2. InFlux(p)' = {}
  BY <1>1 DEF InFlux
<1>3. p.part = "begin" => InRegisters(fn.instrs[i].args, 1 - 1 - Pads(fn.instrs[i].args))'
  <2>1. Pads(fn.instrs[i].args) \in {0, 1}
    BY DEF Pads, AllocIfAny
  <2>2. \A k \in 1 .. Len(fn.instrs[i].args) : ~(k <= 1 - 1 - Pads(fn.instrs[i].args))
    BY <2>1
  <2> QED
    BY <2>2 DEF InRegisters
<1>4. p.part = "finish" => InRegisters(fn.instrs[i].args, 6)' /\ Pushed(fn.instrs[i].args, 6)'
  <2>1. p.part = "finish" => Len(fn.instrs[i].args) = 0
    BY DEF FirstOf, Place
  <2>2. ASSUME Len(fn.instrs[i].args) = 0
        PROVE  \A k \in 1 .. Len(fn.instrs[i].args) : FALSE
    BY <2>2
  <2> QED
    BY <2>1, <2>2 DEF InRegisters, Pushed
<1> QED
  BY <1>1, <1>2, <1>3, <1>4 DEF Holding

\* The processor comes to the code of the i-th IR instruction, or to the end:
\* the slots say what the variables are worth.
LEMMA Arrives ==
  ASSUME NEW h, Ready(h), Exec, status' = "running", pc' \in 1 .. Len(fixed) + 1, Begins(h[pc']),
         NEW i \in 1 .. Len(fn.instrs) + 1, h[pc'].p.at = i,
         DOMAIN regs' = Registers, DOMAIN mem' = Addresses, rsp' % 8 = 0,
         NEW E \in [Ids -> Word], \A y \in Variables : Slot(y)' = E[y],
         \A y \in Ids \ Variables : E[y] = IrEnv[y]
  PROVE  IrEnv' = E /\ IrIp' = i /\ IrLastCall' = lastCall' /\ fn' = fn /\ Continues(h)
<1>1. MachineInv /\ Printed(h) /\ Running /\ fn \in IrFunctions
  BY ReadyFacts DEF Ready
<1>2. UNCHANGED passVars /\ saved' = [env |-> IrEnv, call |-> IrLastCall]
  BY ExecFrame
<1>3. UNCHANGED <<fn, opmap>>
  BY <1>2 DEF passVars
<1>4. /\ IrIp' = (IF h[pc'].p.at > 0 THEN h[pc'].p.at ELSE 1)
      /\ IrLastCall' = lastCall'
      /\ IrEnv' = [y \in Ids |-> IF y \in DOMAIN opmap.slot THEN mem'[opmap.slot[y]] ELSE IrEnv[y]]
  BY <1>1, <1>2, MappingThere
<1>5. IrIp' = i
  BY <1>4
<1>6. IrEnv' = E
  <2>1. ASSUME NEW y \in Ids
        PROVE  (IF y \in DOMAIN opmap.slot THEN mem'[opmap.slot[y]] ELSE IrEnv[y]) = E[y]
    <3>1. CASE y \in DOMAIN opmap.slot
      <4>1. y \in Variables
        BY <3>1 DEF Variables
      <4>2. Slot(y)' = mem'[opmap.slot[y]]
        BY <1>3 DEF Slot
      <4> QED
        BY <3>1, <4>1, <4>2
    <3>2. CASE y \notin DOMAIN opmap.slot
      BY <3>2 DEF Variables
    <3> QED
      BY <3>1, <3>2
  <2>2. E = [y \in Ids |-> E[y]]
    OBVIOUS
  <2> QED
    BY <1>4, <2>1, <2>2
<1>7. Stored'
  BY <1>6 DEF Stored
<1>8. Slots({})'
  BY <1>3, <1>6 DEF Slots, Variables
<1>9. At(h[pc])'
  <2> PICK z : z = h[pc']
    OBVIOUS
  <2>1. z.p = FirstOf(fn, i) /\ z.o = 1
    BY DEF Begins
  <2>2. Holding(z.p)'
    BY <1>1, <1>3, <1>4, <1>8, <2>1, BoundaryHolds
  <2>3. Scratch(Meant(z.p), 1)'
    BY DEF Scratch
  <2> QED
    BY <2>1, <2>2, <2>3 DEF At
<1> QED
  BY <1>3, <1>4, <1>5, <1>6, <1>7, <1>9 DEF Continues

\* The step is the last of the code of an IR instruction, and leaves the
\* variables with the values E.
LEMMA Ends ==
  ASSUME NEW h, NEW x, NEW c, Meaning(h, x, c), Advance, x.p.at \in 1 .. Len(fn.instrs),
         Successor(fn, x.p) = FirstOf(fn, x.p.at + 1),
         DOMAIN regs' = Registers, DOMAIN mem' = Addresses, rsp' % 8 = 0,
         NEW E \in [Ids -> Word], \A y \in Variables : Slot(y)' = E[y],
         \A y \in Ids \ Variables : E[y] = IrEnv[y]
  PROVE  /\ IrEnv' = E /\ IrIp' = IrIp + 1 /\ IrLastCall' = lastCall' /\ UNCHANGED <<fn, status, result>>
         /\ Continues(h)
<1> PICK i : i = x.p.at + 1
  OBVIOUS
<1>1. Ready(h) /\ Exec /\ pc \in 1 .. Len(fixed)
  BY DEF Meaning
<1>2. /\ fn \in IrFunctions /\ h[pc + 1].p = FirstOf(fn, i) /\ h[pc + 1].o = 1 /\ x.p \in Places
      /\ IrIp = (IF x.p.at > 0 THEN x.p.at ELSE 1)
  BY MeantStep
<1>3. x.p.at \in Nat \ {0} /\ Len(fn.instrs) \in Nat /\ i \in 1 .. Len(fn.instrs) + 1
  BY <1>2, FunctionTypes
<1>4. FirstOf(fn, i).at = i /\ i > 0
  BY <1>2, <1>3, FirstIsPlace
<1>5. pc' = pc + 1 /\ status' = "running" /\ UNCHANGED <<status, result>>
  BY <1>1 DEF Advance, Ready, Running
<1>6. Begins(h[pc']) /\ h[pc'].p.at = i
  BY <1>2, <1>4, <1>5 DEF Begins
<1>7. pc' \in 1 .. Len(fixed) + 1
  BY <1>1, <1>5, ReadyFacts
<1>8. IrEnv' = E /\ IrIp' = i /\ IrLastCall' = lastCall' /\ fn' = fn /\ Continues(h)
  BY <1>1, <1>3, <1>5, <1>6, <1>7, Arrives
<1> QED
  BY <1>2, <1>3, <1>5, <1>8

\* The same, when one variable gets a value.
LEMMA EndsAssigning ==
  ASSUME NEW h, NEW x, NEW c, Meaning(h, x, c), Advance, x.p.at \in 1 .. Len(fn.instrs),
         Successor(fn, x.p) = FirstOf(fn, x.p.at + 1),
         DOMAIN regs' = Registers, DOMAIN mem' = Addresses, rsp' % 8 = 0,
         NEW d \in Variables, NEW w \in Word, Slot(d)' = w,
         \A y \in Variables \ {d} : Slot(y)' = IrEnv[y]
  PROVE  /\ IrEnv' = [IrEnv EXCEPT ![d] = w] /\ IrIp' = IrIp + 1 /\ IrLastCall' = lastCall'
         /\ UNCHANGED <<fn, status, result>>
         /\ Continues(h)
<1> PICK E : E = [IrEnv EXCEPT ![d] = w]
  OBVIOUS
<1>1. IrEnv \in [Ids -> Word] /\ d \in Ids
  BY MeantStep DEF Stored, Variables
<1>2. E \in [Ids -> Word] /\ \A y \in Ids : E[y] = IF y = d THEN w ELSE IrEnv[y]
  BY <1>1
<1>3. \A y \in Variables : Slot(y)' = E[y]
  BY <1>2 DEF Variables
<1>4. \A y \in Ids \ Variables : E[y] = IrEnv[y]
  BY <1>2
<1> QED
  BY <1>2, <1>3, <1>4, Ends

\* And when no variable is written.
LEMMA EndsQuietly ==
  ASSUME NEW h, NEW x, NEW c, Meaning(h, x, c), Advance, x.p.at \in 1 .. Len(fn.instrs),
         Successor(fn, x.p) = FirstOf(fn, x.p.at + 1),
         DOMAIN regs' = Registers, UNCHANGED <<mem, rsp>>, Slots({})
  PROVE  /\ IrEnv' = IrEnv /\ IrIp' = IrIp + 1 /\ IrLastCall' = lastCall'
         /\ UNCHANGED <<fn, status, result>>
         /\ Continues(h)
<1> PICK E : E = IrEnv
  OBVIOUS
<1>1. E \in [Ids -> Word] /\ DOMAIN mem' = Addresses /\ rsp' % 8 = 0 /\ UNCHANGED passVars
  BY MeantStep DEF Stored
<1>2. \A y \in Variables : Slot(y)' = E[y]
  BY <1>1 DEF Slots, Slot, passVars
<1>3. \A y \in Ids \ Variables : E[y] = IrEnv[y]
  OBVIOUS
<1> QED
  BY <1>1, <1>2, <1>3, Ends

\* A processor that stops leaves the variables as they were at the boundary.
LEMMA StopsHere ==
  ASSUME NEW h, Ready(h), Exec, status' # "running", pc' = pc
  PROVE  UNCHANGED <<fn, IrEnv, IrIp, IrLastCall>> /\ Continues(h)
<1>1. UNCHANGED passVars /\ saved' = [env |-> IrEnv, call |-> IrLastCall]
  BY ExecFrame
<1>2. ~AtBoundary'
  BY DEF AtBoundary
<1>3. IrEnv' = saved'.env /\ IrLastCall' = saved'.call
  BY <1>2 DEF IrEnv, IrLastCall
<1>4. IrEnv' = IrEnv /\ IrLastCall' = IrLastCall
  BY <1>1, <1>3
<1>5. fn' = fn /\ IrIp' = IrIp
  BY <1>1 DEF IrIp, Loaded, Origin, passVars
<1> QED
  BY <1>4, <1>5 DEF Continues

-----------------------------------------------------------------------------
(* The code of an IR instruction that is not a call *)

InMap(m, op) == op.kind = "ID" => op.id \in DOMAIN m.slot

LEMMA NamedOperands ==
  ASSUME NEW m, NEW a, NEW b, NEW t
  PROVE  /\ Named(m, Mov(a, b)) \/ Named(m, Cmp(a, b)) \/ Named(m, Binary(t, a, b)) => InMap(m, a) /\ InMap(m, b)
         /\ Named(m, Unary(t, a)) \/ Named(m, SetCC(t, a)) \/ Named(m, Idiv(a)) \/ Named(m, Push(a)) => InMap(m, a)
<1>1. Named(m, Mov(a, b)) => InMap(m, a) /\ InMap(m, b)
  BY DEF Named, OperandFields, Mov, Range, InMap
<1>2. Named(m, Cmp(a, b)) => InMap(m, a) /\ InMap(m, b)
  BY DEF Named, OperandFields, Cmp, Range, InMap
<1>3. Named(m, Binary(t, a, b)) => InMap(m, a) /\ InMap(m, b)
  BY DEF Named, OperandFields, Binary, Range, InMap
<1>4. Named(m, Unary(t, a)) => InMap(m, a)
  BY DEF Named, OperandFields, Unary, Range, InMap
<1>5. Named(m, SetCC(t, a)) => InMap(m, a)
  BY DEF Named, OperandFields, SetCC, Range, InMap
<1>6. Named(m, Idiv(a)) => InMap(m, a)
  BY DEF Named, OperandFields, Idiv, Range, InMap
<1>7. Named(m, Push(a)) => InMap(m, a)
  BY DEF Named, OperandFields, Push, Range, InMap
<1> QED
  BY <1>1, <1>2, <1>3, <1>4, <1>5, <1>6, <1>7

LEMMA BoundValue ==
  ASSUME NEW v, InMap(opmap, CodegenVal(v))
  PROVE  v \in IrValues(Ids) => Bound(v) /\ (v.kind = "VARIABLE" => v.id \in Variables)
  BY DEF InMap, CodegenVal, Id, Bound, Variables, IrValues, IrVariables

\* Constants are words because emit_ir takes them from the source, variables
\* because the machine computes words.
LEMMA ValueIsWord ==
  ASSUME fn \in IrFunctions, Stored, NEW k \in 1 .. Len(fn.instrs), NEW v \in Values(fn.instrs[k]),
         v \in IrValues(Ids)
  PROVE  Val(v) \in Word
<1>1. CASE v.kind = "CONSTANT"
  <2>1. IrContract(fn)
    BY ContractAssumption
  <2>2. fn.instrs[k] \in Range(fn.instrs)
    BY FunctionTypes DEF Range
  <2>3. v.int_val \in Word
    BY <1>1, <2>1, <2>2 DEF IrContract
  <2> QED
    BY <1>1, <2>3 DEF Val
<1>2. CASE v.kind = "VARIABLE"
  <2>1. v.id \in Ids
    BY <1>2 DEF IrValues, IrVariables
  <2> QED
    BY <1>2, <2>1 DEF Val, Stored
<1> QED
  BY <1>1, <1>2 DEF IrValues, IrVariables

\* The processor is at the last of the instructions that stand for the n-th of
\* IR instruction i, which is not a call.
Doing(h, x, c, i, n) ==
  /\ Meaning(h, x, c)
  /\ x.p.part = "instr"
  /\ i = fn.instrs[x.p.at]
  /\ n = x.p.n

LEMMA InstrStep ==
  ASSUME NEW h, NEW x, NEW c, NEW i, NEW n, Doing(h, x, c, i, n)
  PROVE  /\ fn \in IrFunctions /\ MapInv(opmap) /\ Stored /\ status = "running" /\ UNCHANGED <<fn, opmap>>
         /\ i \in IrInstructions(Ids) /\ i.kind # "FUNCALL"
         /\ IrIp = x.p.at /\ x.p.at \in 1 .. Len(fn.instrs) /\ IrIp <= Len(fn.instrs)
         /\ n \in 1 .. Len(CodegenInstr(i)) /\ n \in Nat
         /\ c = RenameOperands(opmap, CodegenInstr(i)[n]) /\ Named(opmap, CodegenInstr(i)[n])
         /\ Performs(c) /\ (c.kind \in {"MOV", "BINOP", "CMP"} => Advance)
         /\ Slots(InFlux(x.p)) /\ lastCall = IrLastCall /\ (n > 1 => Underway(i, n))
         /\ n = Len(CodegenInstr(i)) => Successor(fn, x.p) = FirstOf(fn, x.p.at + 1)
<1> Meaning(h, x, c) /\ x.p.part = "instr" /\ i = fn.instrs[x.p.at] /\ n = x.p.n
  BY DEF Doing
<1>1. /\ fn \in IrFunctions /\ MapInv(opmap) /\ Running /\ Stored
      /\ x.p \in Places /\ InBlock(fn, x.p) /\ x.p.n \in 1 .. Len(Block(fn, x.p))
      /\ Holding(x.p)
      /\ c = RenameOperands(opmap, Source(fn, x.p)) /\ Named(opmap, Source(fn, x.p))
      /\ Performs(c) /\ (c.kind \in {"MOV", "BINOP", "CMP"} => Advance)
      /\ UNCHANGED passVars
      /\ IrIp = (IF x.p.at > 0 THEN x.p.at ELSE 1)
  BY MeantStep
<1>2. x.p.at \in 1 .. Len(fn.instrs) /\ i.kind # "FUNCALL" /\ Len(fn.instrs) \in Nat
  BY <1>1, FunctionTypes DEF InBlock
<1>3. i \in IrInstructions(Ids) /\ Block(fn, x.p) = CodegenInstr(i)
  BY <1>1, <1>2, FunctionTypes DEF Block
<1>4. Source(fn, x.p) = CodegenInstr(i)[n]
  BY <1>3 DEF Source
<1>5. IrIp = x.p.at /\ IrIp <= Len(fn.instrs)
  BY <1>1, <1>2
<1>6. Slots(InFlux(x.p)) /\ lastCall = IrLastCall /\ (n > 1 => Underway(i, n))
  BY <1>1 DEF Holding
<1>7. n = Len(CodegenInstr(i)) => Successor(fn, x.p) = FirstOf(fn, x.p.at + 1)
  <2> SUFFICES ASSUME n = Len(CodegenInstr(i))
               PROVE  Successor(fn, x.p) = FirstOf(fn, x.p.at + 1)
    OBVIOUS
  <2>1. Len(Block(fn, x.p)) \in Nat
    BY <1>1, BlockTypes
  <2>2. ~(x.p.n < Len(Block(fn, x.p)))
    BY <1>3, <2>1
  <2>3. Successor(fn, x.p) = After(fn, x.p)
    BY <2>2 DEF Successor
  <2> QED
    BY <2>3 DEF After
<1>8. n \in 1 .. Len(CodegenInstr(i)) /\ n \in Nat
  BY <1>1, <1>3
<1>9. c = RenameOperands(opmap, CodegenInstr(i)[n]) /\ Named(opmap, CodegenInstr(i)[n])
  BY <1>1, <1>4
<1>10. status = "running" /\ UNCHANGED <<fn, opmap>>
  BY <1>1 DEF Running, passVars
<1> QED
  BY <1>1, <1>2, <1>3, <1>5, <1>6, <1>7, <1>8, <1>9, <1>10

\* It goes on to the next instruction of the block.
LEMMA InstrNext ==
  ASSUME NEW h, NEW x, NEW c, NEW i, NEW n, Doing(h, x, c, i, n), n < Len(CodegenInstr(i)), Advance
  PROVE  /\ IrEnv' = IrEnv /\ UNCHANGED <<fn, opmap>> /\ \A v : Val(v)' = Val(v)
         /\ \A q : q = [x.p EXCEPT !.n = n + 1] =>
              /\ q.at = x.p.at /\ q.part = "instr" /\ q.n = n + 1 /\ n + 1 > 1
              /\ IrLastCall' = lastCall
              /\ Stored' /\ Holding(q)' => Simulated(h)
<1> Meaning(h, x, c) /\ x.p.part = "instr" /\ i = fn.instrs[x.p.at] /\ n = x.p.n
  BY DEF Doing
<1> SUFFICES ASSUME NEW q, q = [x.p EXCEPT !.n = n + 1]
             PROVE  /\ IrEnv' = IrEnv /\ UNCHANGED <<fn, opmap>> /\ \A v : Val(v)' = Val(v)
                    /\ q.at = x.p.at /\ q.part = "instr" /\ q.n = n + 1 /\ n + 1 > 1
                    /\ IrLastCall' = lastCall
                    /\ Stored' /\ Holding(q)' => Simulated(h)
  OBVIOUS
<1>1. /\ x.p \in Places /\ n \in 1 .. Len(Block(fn, x.p)) /\ fn \in IrFunctions
      /\ InBlock(fn, x.p)
  BY MeantStep
<1>2. Block(fn, x.p) = CodegenInstr(i)
  BY DEF Block
<1>3. q = Successor(fn, x.p)
  BY <1>2 DEF Successor
<1>4. q.at = x.p.at /\ q.part = "instr" /\ q.n = n + 1
  BY <1>1 DEF Places
<1>5. /\ IrEnv' = IrEnv /\ IrLastCall' = IrLastCall /\ UNCHANGED <<fn, opmap>>
      /\ \A v : Val(v)' = Val(v)
      /\ Stored' /\ Holding(q)' => Simulated(h)
  BY <1>3, <1>4, Inside
<1>6. n + 1 > 1
  <2>1. Len(Block(fn, x.p)) \in Nat
    BY <1>1, BlockTypes
  <2> QED
    BY <1>1, <2>1
<1>7. lastCall = IrLastCall
  BY InstrStep
<1> QED
  BY <1>4, <1>5, <1>6, <1>7

LEMMA InstrGoesOn ==
  ASSUME NEW h, NEW x, NEW c, NEW i, NEW n, Doing(h, x, c, i, n), n < Len(CodegenInstr(i)), Advance,
         DOMAIN regs' = Registers, DOMAIN mem' = Addresses, rsp' = rsp, lastCall' = lastCall,
         NEW X, X = (IF Clears(i) \/ InPlace(i) THEN {i.dst.id} ELSE {}),
         \A y \in Variables \ X : Slot(y)' = IrEnv[y],
         Underway(i, n + 1)'
  PROVE  Simulated(h)
<1> Meaning(h, x, c) /\ x.p.part = "instr" /\ i = fn.instrs[x.p.at] /\ n = x.p.n
  BY DEF Doing
<1> PICK q : q = [x.p EXCEPT !.n = n + 1]
  OBVIOUS
<1>1. /\ IrEnv' = IrEnv /\ UNCHANGED <<fn, opmap>>
      /\ q.at = x.p.at /\ q.part = "instr" /\ q.n = n + 1 /\ n + 1 > 1
      /\ IrLastCall' = lastCall
      /\ Stored' /\ Holding(q)' => Simulated(h)
  BY InstrNext
<1>2. Stored'
  <2>1. Stored
    BY MeantStep
  <2> QED
    BY <1>1, <2>1 DEF Stored
<1>3. q.n > 1 /\ fn'.instrs[q.at] = i
  BY <1>1
<1>4. InFlux(q)' = X
  BY <1>1, <1>3 DEF InFlux
<1>5. Slots(X)'
  BY <1>1 DEF Slots, Variables
<1>6. Slots(InFlux(q))'
  BY <1>4, <1>5 DEF Slots
<1>7. Holding(q)'
  BY <1>1, <1>3, <1>6 DEF Holding
<1> QED
  BY <1>1, <1>2, <1>7

LEMMA RenamedPlain ==
  ASSUME NEW m, NEW a
  PROVE  Renamed(m, Reg(a)) = Reg(a) /\ Renamed(m, Imm(a)) = Imm(a) /\ Renamed(m, Stack(a)) = Stack(a)
  BY DEF Renamed, Reg, Imm, Stack

\* What the IR is at, and what its operands are worth.
LEMMA InstrAt ==
  ASSUME NEW h, NEW x, NEW c, NEW i, NEW n, Doing(h, x, c, i, n)
  PROVE  /\ Abstract!At(i.kind) /\ fn.instrs[IrIp] = i
         /\ \A v : Abstract!ValueIn(IrEnv, v) = Val(v)
         /\ \A v \in Values(i) : v \in IrValues(Ids) => Val(v) \in Word
         /\ n = 1 \/ ~(Clears(i) \/ InPlace(i)) => Slots({})
         /\ n > 1 /\ (Clears(i) \/ InPlace(i)) => Slots({i.dst.id})
<1> Meaning(h, x, c) /\ x.p.part = "instr" /\ i = fn.instrs[x.p.at] /\ n = x.p.n
  BY DEF Doing
<1>1. IrIp = x.p.at /\ status = "running" /\ IrIp <= Len(fn.instrs) /\ Slots(InFlux(x.p))
  BY InstrStep
<1>2. Abstract!At(i.kind) /\ fn.instrs[IrIp] = i
  BY <1>1 DEF Abstract!At
<1>3. \A v : Abstract!ValueIn(IrEnv, v) = Val(v)
  BY DEF Abstract!ValueIn, Val
<1>4. \A v \in Values(i) : v \in IrValues(Ids) => Val(v) \in Word
  <2>1. fn \in IrFunctions /\ Stored /\ x.p.at \in 1 .. Len(fn.instrs)
    BY InstrStep
  <2> QED
    BY <2>1, ValueIsWord
<1>5. InFlux(x.p) = IF n > 1 /\ (Clears(i) \/ InPlace(i)) THEN {i.dst.id} ELSE {}
  BY DEF InFlux
<1>6. n = 1 => ~(n > 1)
  OBVIOUS
<1> QED
  BY <1>1, <1>2, <1>3, <1>4, <1>5, <1>6

\* A word goes to the slot of a variable.
LEMMA Stores ==
  ASSUME Wide, NEW h, NEW x, NEW c, Meaning(h, x, c), NEW d \in Variables, NEW w,
         Write(Stack(opmap.slot[d]), w)
  PROVE  /\ regs' = regs /\ DOMAIN regs' = Registers /\ DOMAIN mem' = Addresses
         /\ Slot(d)' = w
         /\ \A y \in Variables \ {d} : Slot(y)' = Slot(y)
         /\ \A a \in Addresses : a \in Nat => mem'[a] = mem[a]
<1>1. mem' = [mem EXCEPT ![opmap.slot[d]] = w] /\ regs' = regs
  BY DEF Write, Stack
<1>2. MapInv(opmap) /\ Stored /\ opmap' = opmap
  BY MeantStep DEF passVars
<1> QED
  BY <1>1, <1>2, StoreInSlot DEF Stored

\* A move to the slot of the result.
LEMMA MovesToResult ==
  ASSUME Wide, NEW h, NEW x, NEW c, NEW i, NEW n, Doing(h, x, c, i, n),
         i.kind \in {"UNOP", "BINOP", "COPY"},
         NEW src, CodegenInstr(i)[n] = Mov(CodegenVal(i.dst), src)
  PROVE  /\ Advance /\ UNCHANGED <<regs, flags, rsp, lastCall>>
         /\ i.dst.id \in Variables
         /\ DOMAIN regs' = Registers /\ DOMAIN mem' = Addresses
         /\ Slot(i.dst.id)' = Value(Renamed(opmap, src))
         /\ \A y \in Variables \ {i.dst.id} : Slot(y)' = Slot(y)
<1> Meaning(h, x, c)
  BY DEF Doing
<1>1. /\ c = RenameOperands(opmap, CodegenInstr(i)[n]) /\ Named(opmap, CodegenInstr(i)[n])
      /\ Performs(c) /\ (c.kind \in {"MOV", "BINOP", "CMP"} => Advance)
      /\ i \in IrInstructions(Ids)
  BY InstrStep
<1>2. c.kind = "MOV" /\ c.dst = Placed(i.dst) /\ c.src = Renamed(opmap, src)
  BY <1>1, RenamedShapes DEF Placed
<1>3. i.dst \in IrValues(Ids) /\ i.dst.kind = "VARIABLE"
  BY <1>1, InstrFields
<1>4. i.dst.id \in Variables /\ Placed(i.dst) = Stack(opmap.slot[i.dst.id])
  <2>1. Named(opmap, Mov(CodegenVal(i.dst), src))
    BY <1>1
  <2>2. InMap(opmap, CodegenVal(i.dst))
    BY <2>1, NamedOperands
  <2> QED
    BY <1>3, <2>2, BoundValue, PlacedKinds
<1>5. Write(Stack(opmap.slot[i.dst.id]), Value(Renamed(opmap, src))) /\ UNCHANGED <<flags, rsp, lastCall>>
  BY <1>1, <1>2, <1>4 DEF Performs
<1> PICK d : d = i.dst.id
  OBVIOUS
<1>6. d \in Variables /\ Write(Stack(opmap.slot[d]), Value(Renamed(opmap, src)))
  BY <1>4, <1>5
<1>7. /\ regs' = regs /\ DOMAIN regs' = Registers /\ DOMAIN mem' = Addresses
      /\ Slot(d)' = Value(Renamed(opmap, src))
      /\ \A y \in Variables \ {d} : Slot(y)' = Slot(y)
  BY <1>6, Stores
<1> QED
  BY <1>1, <1>2, <1>5, <1>6, <1>7

\* A move to a register.
LEMMA MovesToRegister ==
  ASSUME NEW h, NEW x, NEW c, Meaning(h, x, c),
         NEW r \in Registers, NEW src, Source(fn, x.p) = Mov(Reg(r), src)
  PROVE  /\ Advance /\ UNCHANGED <<mem, flags, rsp, lastCall>>
         /\ DOMAIN regs' = Registers /\ DOMAIN mem' = Addresses
         /\ regs' = [regs EXCEPT ![r] = Value(Renamed(opmap, src))]
         /\ \A y : Slot(y)' = Slot(y)
         /\ InMap(opmap, src)
<1>1. /\ c = RenameOperands(opmap, Source(fn, x.p)) /\ Named(opmap, Source(fn, x.p))
      /\ Performs(c) /\ (c.kind \in {"MOV", "BINOP", "CMP"} => Advance)
      /\ Stored /\ opmap' = opmap
  BY MeantStep DEF passVars
<1>2. c.kind = "MOV" /\ c.dst = Reg(r) /\ c.src = Renamed(opmap, src)
  BY <1>1, RenamedShapes, RenamedPlain
<1>3. Write(Reg(r), Value(Renamed(opmap, src))) /\ UNCHANGED <<flags, rsp, lastCall>>
  BY <1>1, <1>2 DEF Performs
<1>4. regs' = [regs EXCEPT ![r] = Value(Renamed(opmap, src))] /\ mem' = mem
  BY <1>3 DEF Write, Reg
<1>5. InMap(opmap, src)
  BY <1>1, NamedOperands
<1>6. \A y : Slot(y)' = Slot(y)
  BY <1>1, <1>4 DEF Slot
<1> QED
  BY <1>1, <1>2, <1>3, <1>4, <1>5, <1>6 DEF Stored

\* return: the value goes to %eax.
LEMMA ReturnStep ==
  ASSUME Wide, NEW h, NEW x, NEW c, NEW i, NEW n, Doing(h, x, c, i, n), i.kind = "RETURN"
  PROVE  Simulated(h)
<1> Meaning(h, x, c) /\ x.p.part = "instr" /\ i = fn.instrs[x.p.at] /\ n = x.p.n
  BY DEF Doing
<1>1. /\ i \in IrInstructions(Ids) /\ n \in 1 .. Len(CodegenInstr(i))
      /\ c = RenameOperands(opmap, CodegenInstr(i)[n]) /\ Named(opmap, CodegenInstr(i)[n])
      /\ Performs(c) /\ (n > 1 => Underway(i, n)) /\ Stored
  BY InstrStep
<1>2. CodegenInstr(i) = <<Mov(Reg("AX"), CodegenVal(i.val)), Ret>> /\ i.val \in IrValues(Ids)
  BY <1>1, InstrBlocks, InstrFields
<1>3. ~Clears(i) /\ ~InPlace(i) /\ ~Branches(i) /\ ~Divides(i)
  BY DEF Clears, InPlace, Branches, Divides
<1>4. Slots({})
  BY <1>3, InstrAt
<1>5. CASE n = 1
  <2>1. Source(fn, x.p) = Mov(Reg("AX"), CodegenVal(i.val))
    BY <1>2, <1>5 DEF Source, Block
  <2>2. /\ Advance /\ UNCHANGED <<mem, flags, rsp, lastCall>>
        /\ DOMAIN regs' = Registers /\ DOMAIN mem' = Addresses
        /\ regs' = [regs EXCEPT !["AX"] = Value(Renamed(opmap, CodegenVal(i.val)))]
        /\ \A y : Slot(y)' = Slot(y)
        /\ InMap(opmap, CodegenVal(i.val))
    BY <2>1, MovesToRegister DEF Registers
  <2>3. Value(Placed(i.val)) = Val(i.val)
    BY <1>2, <1>4, <2>2, BoundValue, PlacedValue
  <2>4. \A v : Val(v)' = Val(v)
    <3>1. n < Len(CodegenInstr(i))
      BY <1>2, <1>5
    <3> QED
      BY <2>2, <3>1, InstrNext
  <2>5. regs'["AX"] = Val(i.val)'
    BY <1>1, <2>2, <2>3, <2>4 DEF Stored, Placed, Registers
  <2>6. Underway(i, n + 1)'
    BY <1>3, <2>5 DEF Underway, Clears, InPlace, Branches, Divides
  <2>7. \A y \in Variables \ {} : Slot(y)' = IrEnv[y]
    BY <1>4, <2>2 DEF Slots
  <2>8. n < Len(CodegenInstr(i))
    BY <1>2, <1>5
  <2> QED
    BY <1>3, <2>2, <2>6, <2>7, <2>8, InstrGoesOn
<1>6. CASE n = 2
  <2>1. c.kind = "RET"
    BY <1>1, <1>2, <1>6, OtherShapes
  <2>2. ExecRet
    <3>1. fixed[pc] = c
      BY <1>1, <2>1 DEF Performs
    <3>2. Exec /\ pc \in 1 .. Len(fixed) /\ Running /\ Len(fixed) \in Nat
      BY ReadyFacts DEF Meaning, Ready
    <3> QED
      BY <2>1, <3>1, <3>2, ExecKinds
  <2>3. regs["AX"] = Val(i.val)
    BY <1>1, <1>6 DEF Underway
  <2>4. UNCHANGED <<fn, IrEnv, IrIp, IrLastCall>> /\ Continues(h)
    <3>1. status' # "running" /\ pc' = pc
      BY <2>2 DEF ExecRet
    <3> QED
      BY <3>1, StopsHere DEF Meaning
  <2>5. status' = "returned" /\ result' = Val(i.val)
    BY <2>2, <2>3 DEF ExecRet
  <2>6. Abstract!DoReturn
    BY <2>4, <2>5, InstrAt DEF Abstract!DoReturn
  <2> QED
    BY <2>4, <2>6 DEF Simulated, Abstract!IrNext
<1>7. n = 1 \/ n = 2
  <2>1. n \in 1 .. 2
    BY <1>1, <1>2
  <2> QED
    BY <2>1
<1> QED
  BY <1>5, <1>6, <1>7

\* The IR computes with the words the processor computes with.
LEMMA SameWords ==
  /\ Abstract!Word = Word
  /\ \A op, a : Abstract!UnopValue(op, a) = UnopValue(op, a)
  /\ \A op, a, b : Abstract!BinopValue(op, a, b) = BinopValue(op, a, b)
  /\ \A a, b : Abstract!DivTraps(a, b) = DivTraps(a, b)
<1>1. Abstract!Word = Word
  BY DEF Abstract!Word, Word, Abstract!HalfWord, HalfWord, Abstract!Pow2, Pow2
<1>2. \A op, a : Abstract!UnopValue(op, a) = UnopValue(op, a)
  BY DEF Abstract!UnopValue, UnopValue, Abstract!NotWord, NotWord, Abstract!Wrap, Wrap, Abstract!WordSize, WordSize,
         Abstract!HalfWord, HalfWord, Abstract!Pow2, Pow2
<1>3. \A op, a, b : Abstract!BinopValue(op, a, b) = BinopValue(op, a, b)
  BY DEF Abstract!BinopValue, BinopValue, Abstract!AndWord, AndWord, Abstract!OrWord, OrWord, Abstract!XorWord, XorWord,
         Abstract!FromBits, FromBits, Abstract!BitsOf, BitsOf, Abstract!Bit, Bit, Abstract!Wrap, Wrap,
         Abstract!WordSize, WordSize, Abstract!HalfWord, HalfWord, Abstract!Pow2, Pow2,
         Abstract!ShiftLeft, ShiftLeft, Abstract!ShiftRight, ShiftRight,
         Abstract!Quotient, Quotient, Abstract!Remainder, Remainder, Abstract!Truth, Truth, Abstract!Abs, Abs
<1>4. \A a, b : Abstract!DivTraps(a, b) = DivTraps(a, b)
  BY DEF Abstract!DivTraps, DivTraps, Abstract!HalfWord, HalfWord, Abstract!Pow2, Pow2
<1> QED
  BY <1>1, <1>2, <1>3, <1>4

LEMMA SmallWords == 0 \in Word /\ 1 \in Word /\ -1 \in Word
  BY WordSizes DEF Word

\* setcc after cmp: the condition code is the relation.
LEMMA ConditionsHold ==
  ASSUME NEW a \in Int, NEW b \in Int, NEW op \in IrRelations, FlagsOf(a - b)
  PROVE  (IF Holds(ConditionCode(op)) THEN 1 ELSE 0) = BinopValue(op, a, b)
<1>1. flags.zero = (a = b) /\ flags.less = (a < b)
  <2>1. flags.zero = (a - b = 0) /\ flags.less = (a - b < 0)
    BY DEF FlagsOf
  <2> QED
    BY <2>1
<1>8. /\ (a > b) = (~(a < b) /\ ~(a = b))
      /\ (a <= b) = ((a < b) \/ (a = b))
      /\ (a >= b) = ~(a < b)
  OBVIOUS
<1>2. CASE op = "EQ"
  BY <1>1, <1>2 DEF ConditionCode, Holds, BinopValue, Truth
<1>3. CASE op = "NEQ"
  BY <1>1, <1>3 DEF ConditionCode, Holds, BinopValue, Truth
<1>4. CASE op = "LESS"
  BY <1>1, <1>4 DEF ConditionCode, Holds, BinopValue, Truth
<1>5. CASE op = "GREATER"
  <2>1. BinopValue(op, a, b) = IF a > b THEN 1 ELSE 0
    BY <1>5 DEF BinopValue, Truth
  <2>2. Holds(ConditionCode(op)) = (a > b)
    BY <1>1, <1>8, <1>5 DEF ConditionCode, Holds
  <2> QED
    BY <2>1, <2>2
<1>6. CASE op = "LEQ"
  <2>1. BinopValue(op, a, b) = IF a <= b THEN 1 ELSE 0
    BY <1>6 DEF BinopValue, Truth
  <2>2. Holds(ConditionCode(op)) = (a <= b)
    BY <1>1, <1>8, <1>6 DEF ConditionCode, Holds
  <2> QED
    BY <2>1, <2>2
<1>7. CASE op = "GEQ"
  <2>1. BinopValue(op, a, b) = IF a >= b THEN 1 ELSE 0
    BY <1>7 DEF BinopValue, Truth
  <2>2. Holds(ConditionCode(op)) = (a >= b)
    BY <1>1, <1>8, <1>7 DEF ConditionCode, Holds
  <2> QED
    BY <2>1, <2>2
<1> QED
  BY <1>2, <1>3, <1>4, <1>5, <1>6, <1>7 DEF IrRelations

\* copy.
LEMMA CopyStep ==
  ASSUME Wide, NEW h, NEW x, NEW c, NEW i, NEW n, Doing(h, x, c, i, n), i.kind = "COPY"
  PROVE  Simulated(h)
<1> Meaning(h, x, c)
  BY DEF Doing
<1>1. /\ i \in IrInstructions(Ids) /\ n \in 1 .. Len(CodegenInstr(i)) /\ Stored
      /\ Named(opmap, CodegenInstr(i)[n]) /\ lastCall = IrLastCall /\ x.p.at \in 1 .. Len(fn.instrs)
      /\ n = Len(CodegenInstr(i)) => Successor(fn, x.p) = FirstOf(fn, x.p.at + 1)
  BY InstrStep
<1>2. CodegenInstr(i) = <<Mov(CodegenVal(i.dst), CodegenVal(i.src))>> /\ i.src \in IrValues(Ids)
  BY <1>1, InstrBlocks, InstrFields
<1>3. n = 1 /\ CodegenInstr(i)[n] = Mov(CodegenVal(i.dst), CodegenVal(i.src))
      /\ Successor(fn, x.p) = FirstOf(fn, x.p.at + 1)
  BY <1>1, <1>2
<1>4. /\ Advance /\ UNCHANGED <<regs, flags, rsp, lastCall>>
      /\ i.dst.id \in Variables
      /\ DOMAIN regs' = Registers /\ DOMAIN mem' = Addresses
      /\ Slot(i.dst.id)' = Value(Placed(i.src))
      /\ \A y \in Variables \ {i.dst.id} : Slot(y)' = Slot(y)
  <2>1. Renamed(opmap, CodegenVal(i.src)) = Placed(i.src)
    BY DEF Placed
  <2>2. i.kind \in {"UNOP", "BINOP", "COPY"}
    OBVIOUS
  <2> PICK src : src = CodegenVal(i.src)
    OBVIOUS
  <2>3. CodegenInstr(i)[n] = Mov(CodegenVal(i.dst), src)
    BY <1>3
  <2>4. Slot(i.dst.id)' = Value(Renamed(opmap, src))
        /\ Advance /\ UNCHANGED <<regs, flags, rsp, lastCall>>
        /\ i.dst.id \in Variables
        /\ DOMAIN regs' = Registers /\ DOMAIN mem' = Addresses
        /\ \A y \in Variables \ {i.dst.id} : Slot(y)' = Slot(y)
    BY <2>2, <2>3, MovesToResult
  <2> QED
    BY <2>1, <2>4
<1>5. Slots({}) /\ Val(i.src) \in Word
  <2>1. i.src \in Values(i)
    BY DEF Values
  <2> QED
    BY <1>2, <1>3, <2>1, InstrAt
<1>6. Value(Placed(i.src)) = Val(i.src)
  <2>1. Named(opmap, Mov(CodegenVal(i.dst), CodegenVal(i.src)))
    BY <1>1, <1>3
  <2>2. InMap(opmap, CodegenVal(i.src))
    BY <2>1, NamedOperands
  <2> QED
    BY <1>2, <1>5, <2>2, BoundValue, PlacedValue
<1> PICK d : d = i.dst.id
  OBVIOUS
<1> PICK w : w = Val(i.src)
  OBVIOUS
<1>7. /\ IrEnv' = [IrEnv EXCEPT ![d] = w] /\ IrIp' = IrIp + 1 /\ IrLastCall' = lastCall'
      /\ UNCHANGED <<fn, status, result>>
      /\ Continues(h)
  <2>1. d \in Variables /\ w \in Word /\ Slot(d)' = w /\ \A y \in Variables \ {d} : Slot(y)' = IrEnv[y]
    BY <1>4, <1>5, <1>6 DEF Slots
  <2>2. rsp' % 8 = 0
    BY <1>1, <1>4 DEF Stored
  <2> QED
    BY <1>1, <1>3, <1>4, <2>1, <2>2, EndsAssigning
<1>8. Abstract!DoCopy
  BY <1>1, <1>4, <1>7, InstrAt DEF Abstract!DoCopy, Abstract!Assign
<1> QED
  BY <1>7, <1>8 DEF Simulated, Abstract!IrNext

\* A label takes no time.
LEMMA LabelStep ==
  ASSUME Wide, NEW h, NEW x, NEW c, NEW i, NEW n, Doing(h, x, c, i, n), i.kind = "LABEL"
  PROVE  Simulated(h)
<1> Meaning(h, x, c)
  BY DEF Doing
<1>1. /\ i \in IrInstructions(Ids) /\ n \in 1 .. Len(CodegenInstr(i)) /\ Stored
      /\ c = RenameOperands(opmap, CodegenInstr(i)[n]) /\ Performs(c)
      /\ lastCall = IrLastCall /\ x.p.at \in 1 .. Len(fn.instrs)
      /\ n = Len(CodegenInstr(i)) => Successor(fn, x.p) = FirstOf(fn, x.p.at + 1)
  BY InstrStep
<1>2. CodegenInstr(i) = <<Label(i.id)>>
  BY <1>1, InstrBlocks
<1>3. n = 1 /\ c.kind = "LABEL" /\ Successor(fn, x.p) = FirstOf(fn, x.p.at + 1)
  <2>1. n = 1 /\ Len(CodegenInstr(i)) = 1
    BY <1>1, <1>2
  <2>2. c = RenameOperands(opmap, Label(i.id))
    BY <1>1, <1>2, <2>1
  <2> QED
    BY <1>1, <2>1, <2>2, OtherShapes
<1>4. ExecLabel
  <2>1. fixed[pc] = c
    BY <1>1, <1>3 DEF Performs
  <2>2. Exec /\ pc \in 1 .. Len(fixed) /\ Running /\ Len(fixed) \in Nat
    BY ReadyFacts DEF Meaning, Ready
  <2> QED
    BY <1>3, <2>1, <2>2, ExecKinds
<1>5. Advance /\ UNCHANGED <<regs, flags, mem, rsp, lastCall>>
  BY <1>4 DEF ExecLabel
<1>6. /\ IrEnv' = IrEnv /\ IrIp' = IrIp + 1 /\ IrLastCall' = lastCall'
      /\ UNCHANGED <<fn, status, result>>
      /\ Continues(h)
  <2>1. Slots({})
    BY <1>3, InstrAt
  <2> QED
    BY <1>1, <1>3, <1>5, <2>1, EndsQuietly DEF Stored
<1>7. Abstract!DoLabel
  BY <1>1, <1>5, <1>6, InstrAt DEF Abstract!DoLabel
<1> QED
  BY <1>6, <1>7 DEF Simulated, Abstract!IrNext

\* A comparison.
LEMMA Compares ==
  ASSUME NEW h, NEW x, NEW c, NEW i, NEW n, Doing(h, x, c, i, n),
         NEW a, NEW b, CodegenInstr(i)[n] = Cmp(a, b)
  PROVE  /\ Advance /\ UNCHANGED <<regs, mem, rsp, lastCall>>
         /\ DOMAIN regs' = Registers /\ DOMAIN mem' = Addresses
         /\ SetFlags(Value(Renamed(opmap, b)) - Value(Renamed(opmap, a)))
         /\ \A y : Slot(y)' = Slot(y)
         /\ InMap(opmap, a) /\ InMap(opmap, b)
<1>1. /\ c = RenameOperands(opmap, CodegenInstr(i)[n]) /\ Named(opmap, CodegenInstr(i)[n])
      /\ Performs(c) /\ (c.kind \in {"MOV", "BINOP", "CMP"} => Advance)
      /\ Stored /\ opmap' = opmap
  BY InstrStep
<1>2. c.kind = "CMP" /\ c.lhs = Renamed(opmap, a) /\ c.rhs = Renamed(opmap, b)
  BY <1>1, RenamedShapes
<1>3. Advance /\ SetFlags(Value(Renamed(opmap, b)) - Value(Renamed(opmap, a)))
      /\ UNCHANGED <<regs, mem, rsp, lastCall>>
  BY <1>1, <1>2 DEF Performs
<1>4. InMap(opmap, a) /\ InMap(opmap, b)
  <2>1. Named(opmap, Cmp(a, b))
    BY <1>1
  <2> QED
    BY <2>1, NamedOperands
<1>5. \A y : Slot(y)' = Slot(y)
  BY <1>1, <1>3 DEF Slot
<1> QED
  BY <1>1, <1>3, <1>4, <1>5 DEF Stored

\* What a value is worth, wherever the code names it and its slot holds it.
LEMMA NamedValue ==
  ASSUME NEW v \in IrValues(Ids), InMap(opmap, CodegenVal(v)), Slots({})
  PROVE  Value(Renamed(opmap, CodegenVal(v))) = Val(v)
  BY BoundValue, PlacedValue DEF Placed

\* The instructions that compare, clear the result and set its low byte.
LEMMA ClearsCompare ==
  ASSUME NEW h, NEW x, NEW c, NEW i, NEW n, Doing(h, x, c, i, n), Clears(i), n = 1, n < Len(CodegenInstr(i)),
         NEW a, NEW b, CodegenInstr(i)[n] = Cmp(a, b),
         Slots({}) /\ InMap(opmap, a) /\ InMap(opmap, b) =>
           Value(Renamed(opmap, b)) - Value(Renamed(opmap, a)) = Compared(i)
  PROVE  Simulated(h)
<1>1. /\ Advance /\ UNCHANGED <<regs, mem, rsp, lastCall>>
      /\ DOMAIN regs' = Registers /\ DOMAIN mem' = Addresses
      /\ SetFlags(Value(Renamed(opmap, b)) - Value(Renamed(opmap, a)))
      /\ \A y : Slot(y)' = Slot(y)
      /\ InMap(opmap, a) /\ InMap(opmap, b)
  BY Compares
<1>2. Slots({})
  BY InstrAt
<1>3. \A v : Val(v)' = Val(v)
  BY <1>1, InstrNext
<1>4. Compared(i)' = Compared(i)
  BY <1>3 DEF Compared
<1>5. FlagsOf(Compared(i))'
  BY <1>1, <1>2, <1>4 DEF SetFlags, FlagsOf
<1>6. ~InPlace(i) /\ ~Divides(i) /\ i.kind # "RETURN"
  BY DEF Clears, InPlace, Divides, IrRelations
<1>7. (i.kind = "RETURN")' = FALSE /\ InPlace(i)' = InPlace(i) /\ Divides(i)' = Divides(i) /\ n + 1 # 3
  BY <1>6 DEF InPlace, Divides, Clears
<1>8. Underway(i, n + 1)'
  BY <1>5, <1>6, <1>7 DEF Underway
<1> PICK X : X = (IF Clears(i) \/ InPlace(i) THEN {i.dst.id} ELSE {})
  OBVIOUS
<1>9. \A y \in Variables \ X : Slot(y)' = IrEnv[y]
  BY <1>1, <1>2 DEF Slots
<1> QED
  BY <1>1, <1>8, <1>9, InstrGoesOn

LEMMA ClearsMove ==
  ASSUME Wide, NEW h, NEW x, NEW c, NEW i, NEW n, Doing(h, x, c, i, n), Clears(i), n = 2, n < Len(CodegenInstr(i)),
         NEW src, src = Imm(0), CodegenInstr(i)[n] = Mov(CodegenVal(i.dst), src)
  PROVE  Simulated(h)
<1>1. i.kind \in {"UNOP", "BINOP", "COPY"}
  BY DEF Clears
<1>2. /\ Advance /\ UNCHANGED <<regs, flags, rsp, lastCall>>
      /\ i.dst.id \in Variables
      /\ DOMAIN regs' = Registers /\ DOMAIN mem' = Addresses
      /\ Slot(i.dst.id)' = Value(Renamed(opmap, src))
      /\ \A y \in Variables \ {i.dst.id} : Slot(y)' = Slot(y)
  BY <1>1, MovesToResult
<1>3. n > 1 /\ Slots({i.dst.id}) /\ Underway(i, n)
  <2>1. n > 1
    OBVIOUS
  <2>2. Underway(i, n)
    BY <2>1, InstrStep
  <2> QED
    BY <2>1, <2>2, InstrAt
<1>4. \A v : Val(v)' = Val(v)
  BY <1>2, InstrNext
<1>5. Compared(i)' = Compared(i)
  BY <1>4 DEF Compared
<1>6. FlagsOf(Compared(i))'
  BY <1>2, <1>3, <1>5 DEF Underway, FlagsOf
<1>7. Slot(i.dst.id)' = 0
  BY <1>2, RenamedPlain DEF Value, Imm
<1>8. ~InPlace(i) /\ ~Divides(i) /\ i.kind # "RETURN"
  BY DEF Clears, InPlace, Divides, IrRelations
<1>9. InPlace(i)' = InPlace(i) /\ Divides(i)' = Divides(i)
  BY DEF InPlace, Divides, Clears
<1>10. Underway(i, n + 1)'
  BY <1>6, <1>7, <1>8, <1>9 DEF Underway
<1> PICK X : X = (IF Clears(i) \/ InPlace(i) THEN {i.dst.id} ELSE {})
  OBVIOUS
<1>11. X = {i.dst.id}
  OBVIOUS
<1>12. \A y \in Variables \ X : Slot(y)' = IrEnv[y]
  BY <1>2, <1>3, <1>11 DEF Slots
<1> QED
  BY <1>2, <1>10, <1>12, InstrGoesOn

\* The IR instruction gives d the value w and is done.
Assigns(h, d, w) ==
  /\ IrEnv' = [IrEnv EXCEPT ![d] = w] /\ IrIp' = IrIp + 1 /\ IrLastCall' = IrLastCall
  /\ UNCHANGED <<fn, status, result>>
  /\ Continues(h)

LEMMA ClearsSet ==
  ASSUME Wide, NEW h, NEW x, NEW c, NEW i, NEW n, Doing(h, x, c, i, n), Clears(i), n = 3, n = Len(CodegenInstr(i)),
         NEW cc, CodegenInstr(i)[n] = SetCC(cc, CodegenVal(i.dst))
  PROVE  FlagsOf(Compared(i)) /\ Assigns(h, i.dst.id, IF Holds(cc) THEN 1 ELSE 0)
<1> Meaning(h, x, c)
  BY DEF Doing
<1> PICK d : d = i.dst.id
  OBVIOUS
<1> PICK w : w = (IF Holds(cc) THEN 1 ELSE 0)
  OBVIOUS
<1>1. /\ i \in IrInstructions(Ids) /\ Stored
      /\ c = RenameOperands(opmap, CodegenInstr(i)[n]) /\ Named(opmap, CodegenInstr(i)[n])
      /\ Performs(c)
      /\ lastCall = IrLastCall /\ x.p.at \in 1 .. Len(fn.instrs)
  BY InstrStep
<1>13. (n > 1 => Underway(i, n)) /\ (n = Len(CodegenInstr(i)) => Successor(fn, x.p) = FirstOf(fn, x.p.at + 1))
  BY InstrStep
<1>14. Successor(fn, x.p) = FirstOf(fn, x.p.at + 1)
  BY <1>13
<1>2. n > 1 /\ Slots({d}) /\ FlagsOf(Compared(i)) /\ Slot(d) = 0
  <2>1. n > 1
    OBVIOUS
  <2> QED
    BY <1>13, <2>1, InstrAt DEF Underway
<1>3. i.dst \in IrValues(Ids) /\ i.dst.kind = "VARIABLE"
  <2>1. i.kind \in {"UNOP", "BINOP", "COPY"}
    BY DEF Clears
  <2> QED
    BY <1>1, <2>1, InstrFields
<1>4. d \in Variables /\ Placed(i.dst) = Stack(opmap.slot[d])
  <2>1. Named(opmap, SetCC(cc, CodegenVal(i.dst)))
    BY <1>1
  <2>2. InMap(opmap, CodegenVal(i.dst))
    BY <2>1, NamedOperands
  <2> QED
    BY <1>3, <2>2, BoundValue, PlacedKinds
<1>5. c.kind = "SETCC" /\ c.cond = cc /\ c.op = Stack(opmap.slot[d])
  <2>1. c = RenameOperands(opmap, SetCC(cc, CodegenVal(i.dst)))
    BY <1>1
  <2>2. c.kind = "SETCC" /\ c.cond = cc /\ c.op = Renamed(opmap, CodegenVal(i.dst))
    BY <2>1, RenamedShapes
  <2> QED
    BY <1>4, <2>2 DEF Placed
<1>6. ExecSetCC /\ fixed[pc] = c
  <2>1. fixed[pc] = c
    BY <1>1, <1>5 DEF Performs
  <2>2. Exec /\ pc \in 1 .. Len(fixed) /\ Running /\ Len(fixed) \in Nat
    BY ReadyFacts DEF Meaning, Ready
  <2> QED
    BY <1>5, <2>1, <2>2, ExecKinds
<1>7. Value(Stack(opmap.slot[d])) = 0
  BY <1>2 DEF Slot, Value, Stack
<1>8. SetLowBits(0, w) = w /\ w \in Word
  <2>1. w \in {0, 1}
    OBVIOUS
  <2> QED
    BY <2>1, SetLowBitsOfZero, SmallWords
<1>9. Write(Stack(opmap.slot[d]), w) /\ Advance /\ UNCHANGED <<flags, rsp, lastCall>>
  BY <1>5, <1>6, <1>7, <1>8 DEF ExecSetCC
<1>10. /\ DOMAIN regs' = Registers /\ DOMAIN mem' = Addresses
       /\ Slot(d)' = w /\ \A y \in Variables \ {d} : Slot(y)' = Slot(y)
  BY <1>4, <1>9, Stores
<1>11. \A y \in Variables \ {d} : Slot(y)' = IrEnv[y]
  BY <1>2, <1>10 DEF Slots
<1>12. /\ IrEnv' = [IrEnv EXCEPT ![d] = w] /\ IrIp' = IrIp + 1 /\ IrLastCall' = lastCall'
       /\ UNCHANGED <<fn, status, result>>
       /\ Continues(h)
  <2>1. rsp' % 8 = 0
    BY <1>1, <1>9 DEF Stored
  <2> QED
    BY <1>1, <1>4, <1>8, <1>9, <1>10, <1>11, <1>14, <2>1, EndsAssigning
<1> QED
  BY <1>1, <1>2, <1>9, <1>12 DEF Assigns

\* `!`: the operand is compared with 0.
LEMMA NotStep ==
  ASSUME Wide, NEW h, NEW x, NEW c, NEW i, NEW n, Doing(h, x, c, i, n), i.kind = "UNOP", i.op = "NOT"
  PROVE  Simulated(h)
<1>1. i \in IrInstructions(Ids) /\ n \in 1 .. Len(CodegenInstr(i))
  BY InstrStep
<1>2. /\ CodegenInstr(i) = <<Cmp(CodegenVal(i.src), Imm(0)), Mov(CodegenVal(i.dst), Imm(0)),
                             SetCC("E", CodegenVal(i.dst))>>
      /\ i.src \in IrValues(Ids)
  BY <1>1, InstrBlocks, InstrFields
<1>3. Clears(i) /\ Len(CodegenInstr(i)) = 3
  BY <1>2 DEF Clears
<1>4. Val(i.src) \in Int
  <2>1. i.src \in Values(i)
    BY DEF Values
  <2>2. Val(i.src) \in Word
    BY <1>2, <2>1, InstrAt
  <2> QED
    BY <2>2, WordsAreIntegers
<1>5. CASE n = 1
  <2> PICK a : a = CodegenVal(i.src)
    OBVIOUS
  <2> PICK b : b = Imm(0)
    OBVIOUS
  <2>1. CodegenInstr(i)[n] = Cmp(a, b) /\ n < Len(CodegenInstr(i))
    BY <1>2, <1>5
  <2>2. ASSUME Slots({}), InMap(opmap, a), InMap(opmap, b)
        PROVE  Value(Renamed(opmap, b)) - Value(Renamed(opmap, a)) = Compared(i)
    <3>1. Value(Renamed(opmap, b)) = 0
      BY RenamedPlain DEF Value, Imm
    <3>2. Value(Renamed(opmap, a)) = Val(i.src)
      BY <1>2, <2>2, NamedValue
    <3> QED
      BY <3>1, <3>2 DEF Compared
  <2> QED
    BY <1>3, <1>5, <2>1, <2>2, ClearsCompare
<1>6. CASE n = 2
  <2> PICK src : src = Imm(0)
    OBVIOUS
  <2>1. CodegenInstr(i)[n] = Mov(CodegenVal(i.dst), src) /\ n < Len(CodegenInstr(i))
    BY <1>2, <1>6
  <2> QED
    BY <1>3, <1>6, <2>1, ClearsMove
<1>7. CASE n = 3
  <2> PICK w : w = (IF Holds("E") THEN 1 ELSE 0)
    OBVIOUS
  <2>1. CodegenInstr(i)[n] = SetCC("E", CodegenVal(i.dst)) /\ n = Len(CodegenInstr(i))
    BY <1>2, <1>7
  <2>2. FlagsOf(Compared(i)) /\ Assigns(h, i.dst.id, w)
    BY <1>3, <1>7, <2>1, ClearsSet
  <2>3. w = UnopValue("NOT", Val(i.src))
    <3>1. FlagsOf(0 - Val(i.src))
      BY <2>2 DEF Compared
    <3>2. flags.zero = (Val(i.src) = 0)
      <4>1. flags.zero = (0 - Val(i.src) = 0)
        BY <3>1 DEF FlagsOf
      <4> QED
        BY <1>4, <4>1
    <3> QED
      BY <3>2 DEF Holds, UnopValue
  <2>4. w = Abstract!UnopValue(i.op, Abstract!ValueIn(IrEnv, i.src))
    BY <2>3, InstrAt, SameWords
  <2>5. Abstract!DoUnop
    BY <2>2, <2>4, InstrAt DEF Abstract!DoUnop, Abstract!Assign, Assigns
  <2> QED
    BY <2>2, <2>5 DEF Simulated, Abstract!IrNext, Assigns
<1>8. n = 1 \/ n = 2 \/ n = 3
  <2>1. n \in 1 .. 3
    BY <1>1, <1>3
  <2> QED
    BY <2>1
<1> QED
  BY <1>5, <1>6, <1>7, <1>8

\* The relations: the left operand is compared with the right one.
LEMMA RelationStep ==
  ASSUME Wide, NEW h, NEW x, NEW c, NEW i, NEW n, Doing(h, x, c, i, n), i.kind = "BINOP", i.op \in IrRelations
  PROVE  Simulated(h)
<1>1. i \in IrInstructions(Ids) /\ n \in 1 .. Len(CodegenInstr(i))
  BY InstrStep
<1>2. Clears(i)
  BY DEF Clears
<1>3. /\ CodegenInstr(i) = <<Cmp(CodegenVal(i.rhs), CodegenVal(i.lhs)), Mov(CodegenVal(i.dst), Imm(0)),
                             SetCC(ConditionCode(i.op), CodegenVal(i.dst))>>
      /\ i.lhs \in IrValues(Ids) /\ i.rhs \in IrValues(Ids)
  BY <1>1, <1>2, InstrBlocks, InstrFields
<1>4. Len(CodegenInstr(i)) = 3
  BY <1>3
<1>5. Val(i.lhs) \in Int /\ Val(i.rhs) \in Int
  <2>1. i.lhs \in Values(i) /\ i.rhs \in Values(i)
    BY DEF Values
  <2>2. Val(i.lhs) \in Word /\ Val(i.rhs) \in Word
    BY <1>3, <2>1, InstrAt
  <2> QED
    BY <2>2, WordsAreIntegers
<1>6. CASE n = 1
  <2> PICK a : a = CodegenVal(i.rhs)
    OBVIOUS
  <2> PICK b : b = CodegenVal(i.lhs)
    OBVIOUS
  <2>1. CodegenInstr(i)[n] = Cmp(a, b) /\ n < Len(CodegenInstr(i))
    BY <1>3, <1>6
  <2>2. ASSUME Slots({}), InMap(opmap, a), InMap(opmap, b)
        PROVE  Value(Renamed(opmap, b)) - Value(Renamed(opmap, a)) = Compared(i)
    <3>1. Value(Renamed(opmap, b)) = Val(i.lhs) /\ Value(Renamed(opmap, a)) = Val(i.rhs)
      BY <1>3, <2>2, NamedValue
    <3> QED
      BY <3>1 DEF Compared
  <2> QED
    BY <1>2, <1>6, <2>1, <2>2, ClearsCompare
<1>7. CASE n = 2
  <2> PICK src : src = Imm(0)
    OBVIOUS
  <2>1. CodegenInstr(i)[n] = Mov(CodegenVal(i.dst), src) /\ n < Len(CodegenInstr(i))
    BY <1>3, <1>7
  <2> QED
    BY <1>2, <1>7, <2>1, ClearsMove
<1>8. CASE n = 3
  <2> PICK cc : cc = ConditionCode(i.op)
    OBVIOUS
  <2> PICK w : w = (IF Holds(cc) THEN 1 ELSE 0)
    OBVIOUS
  <2>1. CodegenInstr(i)[n] = SetCC(cc, CodegenVal(i.dst)) /\ n = Len(CodegenInstr(i))
    BY <1>3, <1>8
  <2>2. FlagsOf(Compared(i)) /\ Assigns(h, i.dst.id, w)
    BY <1>2, <1>8, <2>1, ClearsSet
  <2>3. w = BinopValue(i.op, Val(i.lhs), Val(i.rhs))
    <3>1. FlagsOf(Val(i.lhs) - Val(i.rhs))
      BY <2>2 DEF Compared
    <3> QED
      BY <1>5, <3>1, ConditionsHold
  <2>4. w = Abstract!BinopValue(i.op, Abstract!ValueIn(IrEnv, i.lhs), Abstract!ValueIn(IrEnv, i.rhs))
    <3>1. Abstract!ValueIn(IrEnv, i.lhs) = Val(i.lhs) /\ Abstract!ValueIn(IrEnv, i.rhs) = Val(i.rhs)
      BY InstrAt
    <3> QED
      BY <2>3, <3>1, SameWords
  <2>5. ~Abstract!Traps(i)
    BY DEF Abstract!Traps, IrRelations
  <2>6. Abstract!DoBinop
    BY <2>2, <2>4, <2>5, InstrAt DEF Abstract!DoBinop, Abstract!Assign, Assigns
  <2> QED
    BY <2>2, <2>6 DEF Simulated, Abstract!IrNext, Assigns
<1>9. n = 1 \/ n = 2 \/ n = 3
  <2>1. n \in 1 .. 3
    BY <1>1, <1>4
  <2> QED
    BY <2>1
<1> QED
  BY <1>6, <1>7, <1>8, <1>9

\* The operators that work in place: the first operand goes to the slot of
\* the result.
LEMMA InPlaceMove ==
  ASSUME Wide, NEW h, NEW x, NEW c, NEW i, NEW n, Doing(h, x, c, i, n), InPlace(i), n = 1, n < Len(CodegenInstr(i)),
         NEW v \in IrValues(Ids), v = (IF i.kind = "UNOP" THEN i.src ELSE i.lhs),
         NEW src, src = CodegenVal(v), CodegenInstr(i)[n] = Mov(CodegenVal(i.dst), src)
  PROVE  Simulated(h)
<1>1. i.kind \in {"UNOP", "BINOP", "COPY"} /\ ~Clears(i) /\ ~Divides(i) /\ ~Branches(i) /\ i.kind # "RETURN"
  BY DEF InPlace, Branches
<1>2. /\ Advance /\ UNCHANGED <<regs, flags, rsp, lastCall>>
      /\ i.dst.id \in Variables
      /\ DOMAIN regs' = Registers /\ DOMAIN mem' = Addresses
      /\ Slot(i.dst.id)' = Value(Renamed(opmap, src))
      /\ \A y \in Variables \ {i.dst.id} : Slot(y)' = Slot(y)
  BY <1>1, MovesToResult
<1>3. Slots({})
  BY InstrAt
<1>4. InMap(opmap, src)
  <2>1. Named(opmap, Mov(CodegenVal(i.dst), src))
    BY InstrStep
  <2> QED
    BY <2>1, NamedOperands
<1>5. Slot(i.dst.id)' = Val(v)
  BY <1>2, <1>3, <1>4, NamedValue
<1>6. \A u : Val(u)' = Val(u)
  BY <1>2, InstrNext
<1>7. Slot(i.dst.id)' = IF i.kind = "UNOP" THEN Val(i.src)' ELSE Val(i.lhs)'
  BY <1>5, <1>6
<1>8. Clears(i)' = Clears(i) /\ Divides(i)' = Divides(i) /\ Branches(i)' = Branches(i)
  BY DEF Clears, Divides, Branches
<1>9. Underway(i, n + 1)'
  BY <1>1, <1>7, <1>8 DEF Underway
<1> PICK X : X = (IF Clears(i) \/ InPlace(i) THEN {i.dst.id} ELSE {})
  OBVIOUS
<1>10. X = {i.dst.id}
  OBVIOUS
<1>11. \A y \in Variables \ X : Slot(y)' = IrEnv[y]
  BY <1>2, <1>3, <1>10 DEF Slots
<1> QED
  BY <1>2, <1>9, <1>11, InstrGoesOn

\* What the place of the result of an operator holds when the work is done
\* there.
LEMMA ResultPlace ==
  ASSUME NEW h, NEW x, NEW c, NEW i, NEW n, Doing(h, x, c, i, n), InPlace(i), n > 1,
         InMap(opmap, CodegenVal(i.dst))
  PROVE  /\ i.dst.id \in Variables
         /\ Placed(i.dst) = Stack(opmap.slot[i.dst.id])
         /\ Value(Stack(opmap.slot[i.dst.id])) = IF i.kind = "UNOP" THEN Val(i.src) ELSE Val(i.lhs)
         /\ Slots({i.dst.id})
<1>1. i \in IrInstructions(Ids) /\ (n > 1 => Underway(i, n))
  BY InstrStep
<1>2. i.dst \in IrValues(Ids) /\ i.dst.kind = "VARIABLE"
  <2>1. i.kind \in {"UNOP", "BINOP", "COPY"}
    BY DEF InPlace
  <2> QED
    BY <1>1, <2>1, InstrFields
<1>3. i.dst.id \in Variables /\ Placed(i.dst) = Stack(opmap.slot[i.dst.id])
  BY <1>2, BoundValue, PlacedKinds
<1>4. Slot(i.dst.id) = IF i.kind = "UNOP" THEN Val(i.src) ELSE Val(i.lhs)
  BY <1>1 DEF Underway
<1>5. Value(Stack(opmap.slot[i.dst.id])) = Slot(i.dst.id)
  BY DEF Value, Stack, Slot
<1>6. Slots({i.dst.id})
  BY InstrAt
<1> QED
  BY <1>3, <1>4, <1>5, <1>6

\* The work is done there, and the IR instruction is over.
LEMMA InPlaceEnds ==
  ASSUME Wide, NEW h, NEW x, NEW c, NEW i, NEW n, Doing(h, x, c, i, n), n = Len(CodegenInstr(i)),
         Advance, UNCHANGED <<rsp, lastCall>>,
         NEW d \in Variables, d = i.dst.id, Slots({d}), NEW w \in Word, Write(Stack(opmap.slot[d]), w)
  PROVE  Assigns(h, d, w)
<1> Meaning(h, x, c)
  BY DEF Doing
<1>1. Stored /\ lastCall = IrLastCall /\ x.p.at \in 1 .. Len(fn.instrs)
  BY InstrStep
<1>2. n = Len(CodegenInstr(i)) => Successor(fn, x.p) = FirstOf(fn, x.p.at + 1)
  BY InstrStep
<1>3. Successor(fn, x.p) = FirstOf(fn, x.p.at + 1)
  BY <1>2
<1>4. /\ DOMAIN regs' = Registers /\ DOMAIN mem' = Addresses
      /\ Slot(d)' = w /\ \A y \in Variables \ {d} : Slot(y)' = Slot(y)
  BY Stores
<1>5. \A y \in Variables \ {d} : Slot(y)' = IrEnv[y]
  BY <1>4 DEF Slots
<1>6. rsp' % 8 = 0
  BY <1>1 DEF Stored
<1>7. /\ IrEnv' = [IrEnv EXCEPT ![d] = w] /\ IrIp' = IrIp + 1 /\ IrLastCall' = lastCall'
      /\ UNCHANGED <<fn, status, result>>
      /\ Continues(h)
  BY <1>1, <1>3, <1>4, <1>5, <1>6, EndsAssigning
<1> QED
  BY <1>1, <1>7 DEF Assigns

\* `-` and `~`.
LEMMA UnopStep ==
  ASSUME Wide, NEW h, NEW x, NEW c, NEW i, NEW n, Doing(h, x, c, i, n), i.kind = "UNOP", i.op # "NOT"
  PROVE  Simulated(h)
<1> Meaning(h, x, c)
  BY DEF Doing
<1>1. /\ i \in IrInstructions(Ids) /\ n \in 1 .. Len(CodegenInstr(i))
      /\ c = RenameOperands(opmap, CodegenInstr(i)[n]) /\ Named(opmap, CodegenInstr(i)[n]) /\ Performs(c)
  BY InstrStep
<1>2. /\ CodegenInstr(i) = <<Mov(CodegenVal(i.dst), CodegenVal(i.src)), Unary(i.op, CodegenVal(i.dst))>>
      /\ i.src \in IrValues(Ids) /\ i.op \in {"COMP", "NEG"}
  BY <1>1, InstrBlocks, InstrFields DEF IrUnops
<1>3. InPlace(i) /\ Len(CodegenInstr(i)) = 2
  BY <1>2 DEF InPlace, Clears, Divides
<1>4. CASE n = 1
  <2> PICK src : src = CodegenVal(i.src)
    OBVIOUS
  <2> PICK v : v = i.src
    OBVIOUS
  <2>1. CodegenInstr(i)[n] = Mov(CodegenVal(i.dst), src) /\ n < Len(CodegenInstr(i))
    BY <1>2, <1>4
  <2>2. v \in IrValues(Ids) /\ src = CodegenVal(v) /\ v = (IF i.kind = "UNOP" THEN i.src ELSE i.lhs)
    BY <1>2
  <2> QED
    BY <1>3, <1>4, <2>1, <2>2, InPlaceMove
<1>5. CASE n = 2
  <2>1. CodegenInstr(i)[n] = Unary(i.op, CodegenVal(i.dst)) /\ n = Len(CodegenInstr(i)) /\ n > 1
    BY <1>2, <1>5
  <2>2. InMap(opmap, CodegenVal(i.dst))
    <3>1. Named(opmap, Unary(i.op, CodegenVal(i.dst)))
      BY <1>1, <2>1
    <3> QED
      BY <3>1, NamedOperands
  <2>3. c.kind = "UNOP" /\ c.unop = i.op /\ c.operand = Placed(i.dst)
    <3>1. c = RenameOperands(opmap, Unary(i.op, CodegenVal(i.dst)))
      BY <1>1, <2>1
    <3> QED
      BY <3>1, RenamedShapes DEF Placed
  <2> PICK d : d = i.dst.id
    OBVIOUS
  <2>4. d \in Variables /\ Placed(i.dst) = Stack(opmap.slot[d]) /\ Slots({d})
        /\ Value(Stack(opmap.slot[d])) = Val(i.src)
    BY <1>3, <2>1, <2>2, ResultPlace
  <2>5. ExecUnop /\ fixed[pc] = c
    <3>1. fixed[pc] = c
      BY <1>1, <2>3 DEF Performs
    <3>2. Exec /\ pc \in 1 .. Len(fixed) /\ Running /\ Len(fixed) \in Nat
      BY ReadyFacts DEF Meaning, Ready
    <3> QED
      BY <2>3, <3>1, <3>2, ExecKinds
  <2> PICK w : w = UnopValue(i.op, Val(i.src))
    OBVIOUS
  <2>6. w \in Word
    <3>1. i.src \in Values(i)
      BY DEF Values
    <3>2. Val(i.src) \in Word
      BY <1>2, <3>1, InstrAt
    <3> QED
      BY <1>2, <3>2, UnopWord
  <2>7. w = IF c.unop = "NEG" THEN Wrap(-Val(i.src)) ELSE NotWord(Val(i.src))
    BY <1>2, <2>3 DEF UnopValue
  <2>8. Write(Stack(opmap.slot[d]), w) /\ Advance /\ UNCHANGED <<rsp, lastCall>>
    BY <2>3, <2>4, <2>5, <2>7 DEF ExecUnop
  <2>9. Assigns(h, d, w)
    BY <2>1, <2>4, <2>6, <2>8, InPlaceEnds
  <2>10. w = Abstract!UnopValue(i.op, Abstract!ValueIn(IrEnv, i.src))
    BY InstrAt, SameWords
  <2>11. Abstract!DoUnop
    BY <2>9, <2>10, InstrAt DEF Abstract!DoUnop, Abstract!Assign, Assigns
  <2> QED
    BY <2>9, <2>11 DEF Simulated, Abstract!IrNext, Assigns
<1>6. n = 1 \/ n = 2
  <2>1. n \in 1 .. 2
    BY <1>1, <1>3
  <2> QED
    BY <2>1
<1> QED
  BY <1>4, <1>5, <1>6

\* The second operand of an operator that works in place is not what the
\* first has overwritten, or it is the same value.
LEMMA RightOperand ==
  ASSUME NEW h, NEW x, NEW c, NEW i, NEW n, Doing(h, x, c, i, n), InPlace(i), i.kind = "BINOP", n > 1,
         InMap(opmap, CodegenVal(i.dst)), InMap(opmap, CodegenVal(i.rhs))
  PROVE  Value(Placed(i.rhs)) = Val(i.rhs)
<1>1. /\ i \in IrInstructions(Ids) /\ fn \in IrFunctions /\ IrIp \in 1 .. Len(fn.instrs)
  BY InstrStep
<1>2. i.rhs \in IrValues(Ids) /\ i.dst \in IrVariables(Ids) /\ i.dst \in IrValues(Ids)
  <2>1. i.rhs \in IrValues(Ids) /\ i.dst \in IrValues(Ids) /\ i.dst.kind = "VARIABLE"
    BY <1>1, InstrFields
  <2> QED
    BY <2>1 DEF IrValues
<1>3. /\ Placed(i.dst) = Stack(opmap.slot[i.dst.id])
      /\ Value(Stack(opmap.slot[i.dst.id])) = Val(i.lhs)
      /\ Slots({i.dst.id})
  BY ResultPlace
<1>4. CASE i.rhs = i.dst
  <2>1. i.lhs = i.dst
    <3>1. fn.instrs[IrIp] = i
      BY InstrAt
    <3>2. i \in Range(fn.instrs)
      BY <1>1, <3>1, FunctionTypes DEF Range
    <3>3. i.op \notin {"DIV", "MOD"} \cup IrRelations
      BY DEF InPlace, Clears, Divides
    <3> QED
      BY <1>1, <1>4, <3>2, <3>3, ContractAssumption DEF IrContract
  <2> QED
    BY <1>3, <1>4, <2>1
<1>5. CASE i.rhs # i.dst
  <2> PICK d : d = i.dst.id
    OBVIOUS
  <2>1. i.rhs.kind = "VARIABLE" => i.rhs.id # d
    BY <1>2, <1>5 DEF IrValues, IrVariables
  <2>2. i.rhs.kind = "VARIABLE" => i.rhs.id \notin {d}
    BY <2>1
  <2>3. Bound(i.rhs)
    BY <1>2, BoundValue
  <2> QED
    BY <1>2, <1>3, <2>2, <2>3, PlacedValue
<1> QED
  BY <1>4, <1>5

\* +, -, *, the bit operators and the shifts.
LEMMA BinopStep ==
  ASSUME Wide, NEW h, NEW x, NEW c, NEW i, NEW n, Doing(h, x, c, i, n), i.kind = "BINOP", InPlace(i)
  PROVE  Simulated(h)
<1> Meaning(h, x, c)
  BY DEF Doing
<1>1. /\ i \in IrInstructions(Ids) /\ n \in 1 .. Len(CodegenInstr(i))
      /\ c = RenameOperands(opmap, CodegenInstr(i)[n]) /\ Named(opmap, CodegenInstr(i)[n])
      /\ Performs(c) /\ (c.kind \in {"MOV", "BINOP", "CMP"} => Advance)
  BY InstrStep
<1>2. /\ CodegenInstr(i) = <<Mov(CodegenVal(i.dst), CodegenVal(i.lhs)),
                             Binary(i.op, CodegenVal(i.rhs), CodegenVal(i.dst))>>
      /\ i.lhs \in IrValues(Ids) /\ i.rhs \in IrValues(Ids)
      /\ i.op \in {"ADD", "SUB", "MUL", "AND", "OR", "XOR", "LSHIFT", "RSHIFT"}
  <2>1. i.op \in IrBinops \ ({"DIV", "MOD"} \cup IrRelations)
    BY <1>1, InstrFields DEF InPlace, Clears, Divides
  <2>2. i.op \in {"ADD", "SUB", "MUL", "AND", "OR", "XOR", "LSHIFT", "RSHIFT"}
    BY <2>1 DEF IrBinops
  <2> QED
    BY <1>1, <2>2, InstrBlocks, InstrFields
<1>3. Len(CodegenInstr(i)) = 2
  BY <1>2
<1>4. CASE n = 1
  <2> PICK src : src = CodegenVal(i.lhs)
    OBVIOUS
  <2> PICK v : v = i.lhs
    OBVIOUS
  <2>1. CodegenInstr(i)[n] = Mov(CodegenVal(i.dst), src) /\ n < Len(CodegenInstr(i))
    BY <1>2, <1>4
  <2>2. v \in IrValues(Ids) /\ src = CodegenVal(v) /\ v = (IF i.kind = "UNOP" THEN i.src ELSE i.lhs)
    BY <1>2
  <2> QED
    BY <1>4, <2>1, <2>2, InPlaceMove
<1>5. CASE n = 2
  <2>1. CodegenInstr(i)[n] = Binary(i.op, CodegenVal(i.rhs), CodegenVal(i.dst)) /\ n = Len(CodegenInstr(i)) /\ n > 1
    BY <1>2, <1>5
  <2>2. InMap(opmap, CodegenVal(i.dst)) /\ InMap(opmap, CodegenVal(i.rhs))
    <3>1. Named(opmap, Binary(i.op, CodegenVal(i.rhs), CodegenVal(i.dst)))
      BY <1>1, <2>1
    <3> QED
      BY <3>1, NamedOperands
  <2>3. c.kind = "BINOP" /\ c.optype = i.op /\ c.rhs = Placed(i.rhs) /\ c.dst = Placed(i.dst)
    <3>1. c = RenameOperands(opmap, Binary(i.op, CodegenVal(i.rhs), CodegenVal(i.dst)))
      BY <1>1, <2>1
    <3> QED
      BY <3>1, RenamedShapes DEF Placed
  <2> PICK d : d = i.dst.id
    OBVIOUS
  <2>4. d \in Variables /\ Placed(i.dst) = Stack(opmap.slot[d]) /\ Slots({d})
        /\ Value(Stack(opmap.slot[d])) = Val(i.lhs)
    BY <2>1, <2>2, ResultPlace
  <2>5. Value(Placed(i.rhs)) = Val(i.rhs)
    BY <2>1, <2>2, RightOperand
  <2> PICK w : w = BinopValue(i.op, Val(i.lhs), Val(i.rhs))
    OBVIOUS
  <2>6. w \in Word
    <3>1. i.lhs \in Values(i) /\ i.rhs \in Values(i)
      BY DEF Values
    <3>2. Val(i.lhs) \in Word /\ Val(i.rhs) \in Word
      BY <1>2, <3>1, InstrAt
    <3> QED
      BY <1>2, <3>2, BinopWord
  <2>7. w = Alu(i.op, Val(i.lhs), Val(i.rhs))
    BY <1>2 DEF Alu, BinopValue
  <2>8. Write(Stack(opmap.slot[d]), w) /\ Advance /\ UNCHANGED <<rsp, lastCall>>
    BY <1>1, <2>3, <2>4, <2>5, <2>7 DEF Performs
  <2>9. Assigns(h, d, w)
    BY <2>1, <2>4, <2>6, <2>8, InPlaceEnds
  <2>10. w = Abstract!BinopValue(i.op, Abstract!ValueIn(IrEnv, i.lhs), Abstract!ValueIn(IrEnv, i.rhs))
    <3>1. Abstract!ValueIn(IrEnv, i.lhs) = Val(i.lhs) /\ Abstract!ValueIn(IrEnv, i.rhs) = Val(i.rhs)
      BY InstrAt
    <3> QED
      BY <3>1, SameWords
  <2>11. ~Abstract!Traps(i)
    BY <1>2 DEF Abstract!Traps
  <2>12. Abstract!DoBinop
    BY <2>9, <2>10, <2>11, InstrAt DEF Abstract!DoBinop, Abstract!Assign, Assigns
  <2> QED
    BY <2>9, <2>12 DEF Simulated, Abstract!IrNext, Assigns
<1>6. n = 1 \/ n = 2
  <2>1. n \in 1 .. 2
    BY <1>1, <1>3
  <2> QED
    BY <2>1
<1> QED
  BY <1>4, <1>5, <1>6

-----------------------------------------------------------------------------
(* Division: idivl works on %eax and %edx *)

\* The step goes on, with the slots as they are.
LEMMA DivisionGoesOn ==
  ASSUME NEW h, NEW x, NEW c, NEW i, NEW n, Doing(h, x, c, i, n), Divides(i), n < Len(CodegenInstr(i)), Advance,
         DOMAIN regs' = Registers, UNCHANGED <<mem, rsp, lastCall>>,
         (\A v : Val(v)' = Val(v)) => Underway(i, n + 1)'
  PROVE  Simulated(h)
<1>1. ~Clears(i) /\ ~InPlace(i)
  BY DEF Clears, InPlace, Divides, IrRelations
<1>2. Slots({}) /\ Stored
  BY <1>1, InstrAt, InstrStep
<1>3. (\A v : Val(v)' = Val(v)) /\ opmap' = opmap
  BY InstrNext, InstrStep
<1>4. \A y : Slot(y)' = Slot(y)
  BY <1>3 DEF Slot
<1> PICK X : X = (IF Clears(i) \/ InPlace(i) THEN {i.dst.id} ELSE {})
  OBVIOUS
<1>5. \A y \in Variables \ X : Slot(y)' = IrEnv[y]
  BY <1>1, <1>2, <1>4 DEF Slots
<1>6. DOMAIN mem' = Addresses
  BY <1>2 DEF Stored
<1> QED
  BY <1>3, <1>5, <1>6, InstrGoesOn

LEMMA DividesOnly ==
  ASSUME NEW i, Divides(i)
  PROVE  /\ ~Clears(i) /\ ~Branches(i) /\ ~InPlace(i) /\ i.kind = "BINOP"
         /\ Clears(i)' = Clears(i) /\ Branches(i)' = Branches(i) /\ InPlace(i)' = InPlace(i)
         /\ Divides(i)' = Divides(i)
  BY DEF Clears, Branches, InPlace, Divides, IrRelations

LEMMA DivisionLoads ==
  ASSUME NEW h, NEW x, NEW c, NEW i, NEW n, Doing(h, x, c, i, n), Divides(i), n = 1, n < Len(CodegenInstr(i)),
         NEW src, src = CodegenVal(i.lhs), CodegenInstr(i)[n] = Mov(Reg("AX"), src), i.lhs \in IrValues(Ids)
  PROVE  Simulated(h)
<1> Meaning(h, x, c)
  BY DEF Doing
<1>1. Source(fn, x.p) = Mov(Reg("AX"), src)
  BY DEF Source, Block, Doing
<1>2. "AX" \in Registers
  BY DEF Registers
<1>3. /\ Advance /\ UNCHANGED <<mem, flags, rsp, lastCall>>
      /\ DOMAIN regs' = Registers /\ DOMAIN mem' = Addresses
      /\ regs' = [regs EXCEPT !["AX"] = Value(Renamed(opmap, src))]
      /\ InMap(opmap, src)
  BY <1>1, <1>2, MovesToRegister
<1>4. Slots({}) /\ DOMAIN regs = Registers
  BY InstrAt, InstrStep DEF Stored
<1>5. regs'["AX"] = Val(i.lhs)
  BY <1>2, <1>3, <1>4, NamedValue
<1>6. ASSUME \A v : Val(v)' = Val(v)
      PROVE  Underway(i, n + 1)'
  <2>1. regs'["AX"] = Val(i.lhs)'
    BY <1>5, <1>6
  <2>2. n + 1 < 4 /\ n + 1 # 3
    OBVIOUS
  <2> QED
    BY <2>1, <2>2, DividesOnly DEF Underway
<1> QED
  BY <1>3, <1>6, DivisionGoesOn

LEMMA DivisionExtends ==
  ASSUME NEW h, NEW x, NEW c, NEW i, NEW n, Doing(h, x, c, i, n), Divides(i), n = 2, n < Len(CodegenInstr(i)),
         CodegenInstr(i)[n] = Cdq
  PROVE  Simulated(h)
<1>1. /\ c = RenameOperands(opmap, CodegenInstr(i)[n]) /\ Performs(c) /\ DOMAIN regs = Registers
      /\ n > 1 => Underway(i, n)
  BY InstrStep DEF Stored
<1>2. c.kind = "CDQ"
  <2>1. c = RenameOperands(opmap, Cdq)
    BY <1>1
  <2> QED
    BY <2>1, OtherShapes
<1>3. ExecCdq
  <2>1. fixed[pc] = c
    BY <1>1, <1>2 DEF Performs
  <2>2. Exec /\ pc \in 1 .. Len(fixed) /\ Running /\ Len(fixed) \in Nat
    BY ReadyFacts DEF Meaning, Ready, Doing
  <2> QED
    BY <1>2, <2>1, <2>2, ExecKinds
<1>4. /\ Advance /\ UNCHANGED <<flags, mem, rsp, lastCall>>
      /\ regs' = [regs EXCEPT !["DX"] = IF regs["AX"] < 0 THEN -1 ELSE 0]
  BY <1>3 DEF ExecCdq
<1>5. regs["AX"] = Val(i.lhs)
  <2>1. n > 1 /\ n < 4
    OBVIOUS
  <2> QED
    BY <1>1, <2>1 DEF Underway
<1>6. DOMAIN regs' = Registers /\ regs'["AX"] = Val(i.lhs) /\ regs'["DX"] = Extension(Val(i.lhs))
  BY <1>1, <1>4, <1>5 DEF Registers, Extension
<1>7. ASSUME \A v : Val(v)' = Val(v)
      PROVE  Underway(i, n + 1)'
  <2>1. regs'["AX"] = Val(i.lhs)' /\ regs'["DX"] = Extension(Val(i.lhs)')
    BY <1>6, <1>7
  <2>2. n + 1 < 4
    OBVIOUS
  <2> QED
    BY <2>1, <2>2, DividesOnly DEF Underway, Extension
<1> QED
  BY <1>4, <1>6, <1>7, DivisionGoesOn

\* What idivl divides is the sign-extended left operand.
LEMMA DividendIs ==
  ASSUME NEW a \in Word, regs["AX"] = a, regs["DX"] = Extension(a)
  PROVE  /\ Dividend = a
         /\ \A b \in Word : IdivTraps(b) <=> DivTraps(a, b)
<1>1. Dividend = a
  BY SignExtended DEF Dividend, Extension
<1> QED
  BY <1>1, TrapsWithoutQuotient DEF IdivTraps

LEMMA DivisionDivides ==
  ASSUME NEW h, NEW x, NEW c, NEW i, NEW n, Doing(h, x, c, i, n), Divides(i), n = 3, n < Len(CodegenInstr(i)),
         CodegenInstr(i)[n] = Idiv(CodegenVal(i.rhs)), i.lhs \in IrValues(Ids), i.rhs \in IrValues(Ids)
  PROVE  Simulated(h)
<1>1. /\ c = RenameOperands(opmap, CodegenInstr(i)[n]) /\ Named(opmap, CodegenInstr(i)[n]) /\ Performs(c)
      /\ DOMAIN regs = Registers /\ lastCall = IrLastCall
      /\ n > 1 => Underway(i, n)
  BY InstrStep DEF Stored
<1>2. c.kind = "IDIV" /\ c.operand = Placed(i.rhs)
  <2>1. c = RenameOperands(opmap, Idiv(CodegenVal(i.rhs)))
    BY <1>1
  <2> QED
    BY <2>1, RenamedShapes DEF Placed
<1>3. ExecIdiv /\ fixed[pc] = c
  <2>1. fixed[pc] = c
    BY <1>1, <1>2 DEF Performs
  <2>2. Exec /\ pc \in 1 .. Len(fixed) /\ Running /\ Len(fixed) \in Nat
    BY ReadyFacts DEF Meaning, Ready, Doing
  <2> QED
    BY <1>2, <2>1, <2>2, ExecKinds
<1> PICK a : a = Val(i.lhs)
  OBVIOUS
<1> PICK b : b = Val(i.rhs)
  OBVIOUS
<1>4. regs["AX"] = a /\ regs["DX"] = Extension(a)
  <2>1. n > 1 /\ n < 4
    OBVIOUS
  <2> QED
    BY <1>1, <2>1 DEF Underway
<1>5. a \in Word /\ b \in Word
  <2>1. i.kind = "BINOP"
    BY DividesOnly
  <2>2. i.lhs \in Values(i) /\ i.rhs \in Values(i)
    BY <2>1 DEF Values
  <2> QED
    BY <2>2, InstrAt
<1>6. Value(fixed[pc].operand) = b
  <2>1. InMap(opmap, CodegenVal(i.rhs))
    <3>1. Named(opmap, Idiv(CodegenVal(i.rhs)))
      BY <1>1
    <3> QED
      BY <3>1, NamedOperands
  <2>2. Slots({})
    BY DividesOnly, InstrAt
  <2> QED
    BY <1>2, <1>3, <2>1, <2>2, NamedValue DEF Placed
<1>7. Dividend = a /\ (IdivTraps(b) <=> DivTraps(a, b))
  BY <1>4, <1>5, DividendIs
<1>8. CASE DivTraps(a, b)
  <2>1. status' = "trapped" /\ UNCHANGED <<regs, pc, result>>
    BY <1>3, <1>6, <1>7, <1>8 DEF ExecIdiv
  <2>2. UNCHANGED <<fn, IrEnv, IrIp, IrLastCall>> /\ Continues(h)
    <3>1. status' # "running" /\ pc' = pc
      BY <2>1
    <3> QED
      BY <3>1, StopsHere DEF Meaning, Doing
  <2>3. Abstract!Traps(i)
    <3>1. Abstract!ValueIn(IrEnv, i.lhs) = a /\ Abstract!ValueIn(IrEnv, i.rhs) = b
      BY InstrAt
    <3> QED
      BY <1>8, <3>1, SameWords DEF Abstract!Traps, Divides
  <2>4. Abstract!DoTrap
    BY <2>1, <2>2, <2>3, InstrAt, DividesOnly DEF Abstract!DoTrap
  <2> QED
    BY <2>2, <2>4 DEF Simulated, Abstract!IrNext
<1>9. CASE ~DivTraps(a, b)
  <2>1. /\ regs' = [regs EXCEPT !["AX"] = Quotient(a, b), !["DX"] = Remainder(a, b)]
        /\ Advance /\ UNCHANGED <<flags, mem, rsp, lastCall>>
    BY <1>3, <1>6, <1>7, <1>9 DEF ExecIdiv
  <2>2. DOMAIN regs' = Registers /\ regs'["AX"] = Quotient(a, b) /\ regs'["DX"] = Remainder(a, b)
    BY <1>1, <2>1 DEF Registers
  <2>3. ASSUME \A v : Val(v)' = Val(v)
        PROVE  Underway(i, n + 1)'
    <3>1. a = Val(i.lhs)' /\ b = Val(i.rhs)'
      BY <2>3
    <3>2. ~(n + 1 < 4)
      OBVIOUS
    <3>3. /\ ~DivTraps(Val(i.lhs)', Val(i.rhs)')
          /\ regs'["AX"] = Quotient(Val(i.lhs)', Val(i.rhs)')
          /\ regs'["DX"] = Remainder(Val(i.lhs)', Val(i.rhs)')
      BY <1>9, <2>2, <3>1
    <3> QED
      BY <3>2, <3>3, DividesOnly DEF Underway, DivTraps, Quotient, Remainder, Abs, HalfWord
  <2> QED
    BY <2>1, <2>2, <2>3, DivisionGoesOn
<1> QED
  BY <1>8, <1>9

LEMMA DivisionStores ==
  ASSUME Wide, NEW h, NEW x, NEW c, NEW i, NEW n, Doing(h, x, c, i, n), Divides(i), n = 4, n = Len(CodegenInstr(i)),
         NEW src, src = Reg(IF i.op = "DIV" THEN "AX" ELSE "DX"), CodegenInstr(i)[n] = Mov(CodegenVal(i.dst), src),
         i.lhs \in IrValues(Ids), i.rhs \in IrValues(Ids)
  PROVE  Simulated(h)
<1> Meaning(h, x, c)
  BY DEF Doing
<1>1. Stored /\ lastCall = IrLastCall /\ x.p.at \in 1 .. Len(fn.instrs)
  BY InstrStep
<1>2. (n > 1 => Underway(i, n)) /\ (n = Len(CodegenInstr(i)) => Successor(fn, x.p) = FirstOf(fn, x.p.at + 1))
  BY InstrStep
<1>3. Successor(fn, x.p) = FirstOf(fn, x.p.at + 1)
  BY <1>2
<1>4. /\ Advance /\ UNCHANGED <<regs, flags, rsp, lastCall>>
      /\ i.dst.id \in Variables
      /\ DOMAIN regs' = Registers /\ DOMAIN mem' = Addresses
      /\ Slot(i.dst.id)' = Value(Renamed(opmap, src))
      /\ \A y \in Variables \ {i.dst.id} : Slot(y)' = Slot(y)
  BY DividesOnly, MovesToResult
<1> PICK a : a = Val(i.lhs)
  OBVIOUS
<1> PICK b : b = Val(i.rhs)
  OBVIOUS
<1> PICK w : w = BinopValue(i.op, a, b)
  OBVIOUS
<1>5. ~DivTraps(a, b) /\ regs["AX"] = Quotient(a, b) /\ regs["DX"] = Remainder(a, b)
  <2>1. n > 1 /\ ~(n < 4)
    OBVIOUS
  <2> QED
    BY <1>2, <2>1 DEF Underway
<1>6. Value(Renamed(opmap, src)) = w
  <2>1. Value(Renamed(opmap, src)) = IF i.op = "DIV" THEN regs["AX"] ELSE regs["DX"]
    BY RenamedPlain DEF Value, Reg
  <2> QED
    BY <1>5, <2>1 DEF Divides, BinopValue
<1>7. w \in Word
  <2>1. i.lhs \in Values(i) /\ i.rhs \in Values(i)
    BY DividesOnly DEF Values
  <2>2. a \in Word /\ b \in Word
    BY <2>1, InstrAt
  <2> QED
    BY <1>5, <2>2, BinopWord DEF Divides
<1>8. Slots({})
  BY DividesOnly, InstrAt
<1> PICK d : d = i.dst.id
  OBVIOUS
<1>9. /\ IrEnv' = [IrEnv EXCEPT ![d] = w] /\ IrIp' = IrIp + 1 /\ IrLastCall' = lastCall'
      /\ UNCHANGED <<fn, status, result>>
      /\ Continues(h)
  <2>1. d \in Variables /\ Slot(d)' = w /\ \A y \in Variables \ {d} : Slot(y)' = IrEnv[y]
    BY <1>4, <1>6, <1>8 DEF Slots
  <2>2. rsp' % 8 = 0
    BY <1>1, <1>4 DEF Stored
  <2> QED
    BY <1>1, <1>3, <1>4, <1>7, <2>1, <2>2, EndsAssigning
<1>10. /\ w = Abstract!BinopValue(i.op, Abstract!ValueIn(IrEnv, i.lhs), Abstract!ValueIn(IrEnv, i.rhs))
       /\ ~Abstract!Traps(i)
  <2>1. Abstract!ValueIn(IrEnv, i.lhs) = a /\ Abstract!ValueIn(IrEnv, i.rhs) = b
    BY InstrAt
  <2> QED
    BY <1>5, <2>1, SameWords DEF Abstract!Traps
<1>11. Abstract!DoBinop
  BY <1>1, <1>4, <1>9, <1>10, InstrAt, DividesOnly DEF Abstract!DoBinop, Abstract!Assign
<1> QED
  BY <1>9, <1>11 DEF Simulated, Abstract!IrNext

\* / and %.
LEMMA DivisionStep ==
  ASSUME Wide, NEW h, NEW x, NEW c, NEW i, NEW n, Doing(h, x, c, i, n), Divides(i)
  PROVE  Simulated(h)
<1>1. i \in IrInstructions(Ids) /\ n \in 1 .. Len(CodegenInstr(i))
  BY InstrStep
<1>2. /\ CodegenInstr(i) = <<Mov(Reg("AX"), CodegenVal(i.lhs)), Cdq, Idiv(CodegenVal(i.rhs)),
                             Mov(CodegenVal(i.dst), Reg(IF i.op = "DIV" THEN "AX" ELSE "DX"))>>
      /\ i.lhs \in IrValues(Ids) /\ i.rhs \in IrValues(Ids)
  BY <1>1, DividesOnly, InstrBlocks, InstrFields
<1>3. Len(CodegenInstr(i)) = 4
  BY <1>2
<1>4. CASE n = 1
  <2> PICK src : src = CodegenVal(i.lhs)
    OBVIOUS
  <2>1. CodegenInstr(i)[n] = Mov(Reg("AX"), src) /\ n < Len(CodegenInstr(i))
    BY <1>2, <1>4
  <2> QED
    BY <1>2, <1>4, <2>1, DivisionLoads
<1>5. CASE n = 2
  <2>1. CodegenInstr(i)[n] = Cdq /\ n < Len(CodegenInstr(i))
    BY <1>2, <1>5
  <2> QED
    BY <1>5, <2>1, DivisionExtends
<1>6. CASE n = 3
  <2>1. CodegenInstr(i)[n] = Idiv(CodegenVal(i.rhs)) /\ n < Len(CodegenInstr(i))
    BY <1>2, <1>6
  <2> QED
    BY <1>2, <1>6, <2>1, DivisionDivides
<1>7. CASE n = 4
  <2> PICK src : src = Reg(IF i.op = "DIV" THEN "AX" ELSE "DX")
    OBVIOUS
  <2>1. CodegenInstr(i)[n] = Mov(CodegenVal(i.dst), src) /\ n = Len(CodegenInstr(i))
    BY <1>2, <1>7
  <2> QED
    BY <1>2, <1>7, <2>1, DivisionStores
<1>8. n = 1 \/ n = 2 \/ n = 3 \/ n = 4
  <2>1. n \in 1 .. 4
    BY <1>1, <1>3
  <2> QED
    BY <2>1
<1> QED
  BY <1>4, <1>5, <1>6, <1>7, <1>8

-----------------------------------------------------------------------------
(* Labels and jumps *)

LEMMA NoLabels ==
  ASSUME NEW a, NEW b, NEW t
  PROVE  /\ Mov(a, b).kind # "LABEL" /\ Cmp(a, b).kind # "LABEL" /\ Binary(t, a, b).kind # "LABEL"
         /\ Unary(t, a).kind # "LABEL" /\ SetCC(t, a).kind # "LABEL" /\ Idiv(a).kind # "LABEL"
         /\ Push(a).kind # "LABEL" /\ Ret.kind # "LABEL" /\ Cdq.kind # "LABEL" /\ Jmp(a).kind # "LABEL"
         /\ JmpCC(t, a).kind # "LABEL" /\ Call(a).kind # "LABEL" /\ Alloc(a).kind # "LABEL"
         /\ Deallocate(a).kind # "LABEL"
  BY DEF Mov, Cmp, Binary, Unary, SetCC, Idiv, Push, Ret, Cdq, Jmp, JmpCC, Call, Alloc, Deallocate

LEMMA LabelInstr ==
  ASSUME NEW i \in IrInstructions(Ids), i.kind # "FUNCALL", NEW n \in 1 .. Len(CodegenInstr(i)),
         CodegenInstr(i)[n].kind = "LABEL"
  PROVE  i = IrLabel(i.id) /\ n = 1 /\ CodegenInstr(i)[n] = Label(i.id)
<1> DEFINE s == CodegenInstr(i)
<1>1. ASSUME i.kind # "LABEL"
      PROVE  FALSE
  <2>1. CASE i.kind = "RETURN"
    <3>1. s = <<Mov(Reg("AX"), CodegenVal(i.val)), Ret>>
      BY <2>1, InstrBlocks
    <3> QED
      BY <3>1, NoLabels
  <2>2. CASE i.kind = "UNOP" /\ i.op = "NOT"
    <3>1. s = <<Cmp(CodegenVal(i.src), Imm(0)), Mov(CodegenVal(i.dst), Imm(0)), SetCC("E", CodegenVal(i.dst))>>
      BY <2>2, InstrBlocks
    <3> QED
      BY <3>1, NoLabels
  <2>3. CASE i.kind = "UNOP" /\ i.op # "NOT"
    <3>1. s = <<Mov(CodegenVal(i.dst), CodegenVal(i.src)), Unary(i.op, CodegenVal(i.dst))>>
      BY <2>3, InstrBlocks
    <3> QED
      BY <3>1, NoLabels
  <2>4. CASE Divides(i)
    <3>1. s = <<Mov(Reg("AX"), CodegenVal(i.lhs)), Cdq, Idiv(CodegenVal(i.rhs)),
                Mov(CodegenVal(i.dst), Reg(IF i.op = "DIV" THEN "AX" ELSE "DX"))>>
      BY <2>4, InstrBlocks
    <3> QED
      BY <3>1, NoLabels
  <2>5. CASE i.kind = "BINOP" /\ Clears(i)
    <3>1. s = <<Cmp(CodegenVal(i.rhs), CodegenVal(i.lhs)), Mov(CodegenVal(i.dst), Imm(0)),
                SetCC(ConditionCode(i.op), CodegenVal(i.dst))>>
      BY <2>5, InstrBlocks
    <3> QED
      BY <3>1, NoLabels
  <2>6. CASE i.kind = "BINOP" /\ InPlace(i)
    <3>1. s = <<Mov(CodegenVal(i.dst), CodegenVal(i.lhs)), Binary(i.op, CodegenVal(i.rhs), CodegenVal(i.dst))>>
      BY <2>6, InstrBlocks
    <3> QED
      BY <3>1, NoLabels
  <2>7. CASE i.kind = "JUMP"
    <3>1. s = <<Jmp(i.target)>>
      BY <2>7, InstrBlocks
    <3> QED
      BY <3>1, NoLabels
  <2>8. CASE Branches(i)
    <3>1. s = <<Cmp(Imm(0), CodegenVal(i.cond)), JmpCC(IF i.kind = "JUMP_ZERO" THEN "E" ELSE "NE", i.target)>>
      BY <2>8, InstrBlocks
    <3> QED
      BY <3>1, NoLabels
  <2>9. CASE i.kind = "COPY"
    <3>1. s = <<Mov(CodegenVal(i.dst), CodegenVal(i.src))>>
      BY <2>9, InstrBlocks
    <3> QED
      BY <3>1, NoLabels
  <2> QED
    BY <1>1, <2>1, <2>2, <2>3, <2>4, <2>5, <2>6, <2>7, <2>8, <2>9, InstrFields DEF InPlace, Branches
<1>2. i = IrLabel(i.id)
  BY <1>1 DEF IrInstructions, IrLabel, IrValues, IrVariables
<1>3. CodegenInstr(i) = <<Label(i.id)>>
  BY <1>1, InstrBlocks
<1>4. Len(CodegenInstr(i)) = 1
  BY <1>3
<1>5. n = 1
  BY <1>4
<1> QED
  BY <1>2, <1>3, <1>5

\* Labels come from nowhere but the IR's labels.
LEMMA LabelPlace ==
  ASSUME NEW f \in IrFunctions, NEW p \in Places, IsPlace(f, p), p.part # "end", Source(f, p).kind = "LABEL"
  PROVE  /\ p.at \in 1 .. Len(f.instrs) /\ p = FirstOf(f, p.at)
         /\ \E l : f.instrs[p.at] = IrLabel(l) /\ Source(f, p) = Label(l)
<1> DEFINE i == f.instrs[p.at]
           block == Block(f, p)
           n == p.n
<1>1. InBlock(f, p) /\ n \in 1 .. Len(block) /\ block[n].kind = "LABEL"
  BY DEF IsPlace, Place, Source
<1>2. block \in Seq(Instrs) /\ Len(block) \in Nat
  BY <1>1, BlockTypes
<1>3. CASE p.part = "params"
  <2>1. block = [k \in 1 .. Len(f.params) |-> Mov(Id(f.params[k]), ParamSource(k))] /\ Len(f.params) \in Nat
    BY <1>3, FunctionTypes DEF Block
  <2>2. n \in 1 .. Len(f.params)
    BY <1>1, <2>1
  <2>3. block[n] = Mov(Id(f.params[n]), ParamSource(n))
    BY <2>1, <2>2
  <2> QED
    BY <1>1, <2>3, NoLabels
<1>4. CASE p.part = "instr"
  <2>1. /\ block = CodegenInstr(i) /\ i \in IrInstructions(Ids) /\ i.kind # "FUNCALL"
        /\ p.at \in 1 .. Len(f.instrs) /\ Len(f.instrs) \in Nat
    BY <1>1, <1>4, FunctionTypes DEF Block, InBlock
  <2>2. Source(f, p) = CodegenInstr(i)[n]
    BY <2>1 DEF Source
  <2> HIDE DEF i, n, block
  <2>3. n \in 1 .. Len(CodegenInstr(i)) /\ CodegenInstr(i)[n].kind = "LABEL"
    BY <1>1, <2>1
  <2>4. i = IrLabel(i.id) /\ n = 1 /\ CodegenInstr(i)[n] = Label(i.id)
    BY <2>1, <2>3, LabelInstr
  <2>5. FirstOf(f, p.at) = Place(p.at, "instr", 0)
    BY <2>1 DEF FirstOf, i
  <2>6. p = Place(p.at, "instr", 0)
    <3>1. p.n = 1 /\ p.arg = 0
      BY <1>1, <1>4, <2>4 DEF n, InBlock
    <3> QED
      BY <1>4, <3>1 DEF Places, Place
  <2> QED
    BY <2>1, <2>2, <2>4, <2>5, <2>6 DEF i
<1>5. CASE p.part = "begin"
  <2>1. block = AllocIfAny(Padding(i.args)) \o RegisterMoves(i.args) /\ i.kind = "FUNCALL" /\ i \in IrInstructions(Ids)
    BY <1>1, <1>5, FunctionTypes DEF Block, InBlock
  <2> DEFINE k == n - Pads(i.args)
  <2>3. n \in Nat
    BY <1>1, <1>2
  <2> HIDE DEF i, n, block
  <2>2. /\ Pads(i.args) \in {0, 1}
        /\ n <= Pads(i.args) => block[n] = Alloc(Padding(i.args))
        /\ n > Pads(i.args) => block[n] = Mov(Reg(ArgRegisters[k]), CodegenVal(i.args[k]))
    BY <1>1, <2>1, BeginShape
  <2>4. n <= Pads(i.args) \/ n > Pads(i.args)
    BY <2>2, <2>3
  <2> HIDE DEF k
  <2> QED
    BY <1>1, <2>2, <2>4, NoLabels
<1>6. CASE p.part = "push"
  <2> DEFINE v == i.args[p.arg]
  <2>1. block = PushArg(v)
    BY <1>6 DEF Block
  <2> HIDE DEF v
  <2>2. block \in {<<Push(CodegenVal(v))>>, <<Mov(Reg("AX"), CodegenVal(v)), Push(Reg("AX"))>>}
    BY <2>1 DEF PushArg
  <2> HIDE DEF block, n
  <2>3. Push(CodegenVal(v)).kind # "LABEL" /\ Mov(Reg("AX"), CodegenVal(v)).kind # "LABEL"
        /\ Push(Reg("AX")).kind # "LABEL"
    BY NoLabels
  <2> QED
    BY <1>1, <2>2, <2>3
<1>7. CASE p.part = "finish"
  <2>1. block = <<Call(i.f)>> \o DeallocateIfAny(BytesToRemove(i.args)) \o <<Mov(CodegenVal(i.dst), Reg("AX"))>>
        /\ i.kind = "FUNCALL" /\ i \in IrInstructions(Ids)
    BY <1>1, <1>7, FunctionTypes DEF Block, InBlock
  <2> HIDE DEF i, n, block
  <2>2. /\ Len(block) \in {2, 3}
        /\ block[1] = Call(i.f)
        /\ block[Len(block)] = Mov(CodegenVal(i.dst), Reg("AX"))
        /\ Len(block) = 3 => block[2] = Deallocate(BytesToRemove(i.args))
    BY <2>1, FinishShape
  <2>3. n = 1 \/ n = Len(block) \/ (Len(block) = 3 /\ n = 2)
    BY <1>1, <2>2
  <2> QED
    BY <1>1, <2>2, <2>3, NoLabels
<1> QED
  BY <1>1, <1>3, <1>4, <1>5, <1>6, <1>7 DEF InBlock

LEMMA FixedLabels ==
  ASSUME NEW c, NEW o \in 1 .. Len(Fix(c)), Fix(c)[o].kind = "LABEL"
  PROVE  Fix(c) = <<c>> /\ o = 1
<1>1. Fix(c) \in {<<c>>, <<Mov(Reg("R10"), c.src), Mov(c.dst, Reg("R10"))>>,
                  <<Mov(Reg("R11"), c.dst), Binary("MUL", c.rhs, Reg("R11")), Mov(c.dst, Reg("R11"))>>,
                  <<Mov(Reg("R10"), c.rhs), Binary(c.optype, Reg("R10"), c.dst)>>,
                  <<Mov(Reg("R10"), c.lhs), Cmp(Reg("R10"), c.rhs)>>,
                  <<Mov(Reg("R11"), c.rhs), Cmp(c.lhs, Reg("R11"))>>}
  BY DEF Fix
<1>2. \A a, b, t : Mov(a, b).kind # "LABEL" /\ Cmp(a, b).kind # "LABEL" /\ Binary(t, a, b).kind # "LABEL"
  BY NoLabels
<1> SUFFICES ASSUME Fix(c) # <<c>>
             PROVE  FALSE
  OBVIOUS
<1>3. CASE \E a, b, d, e : Fix(c) = <<Mov(a, b), Mov(d, e)>>
  BY <1>2, <1>3
<1>4. CASE \E a, b, t, d, e, m, l : Fix(c) = <<Mov(a, b), Binary(t, d, e), Mov(m, l)>>
  BY <1>2, <1>4
<1>5. CASE \E a, b, t, d, e : Fix(c) = <<Mov(a, b), Binary(t, d, e)>>
  BY <1>2, <1>5
<1>6. CASE \E a, b, d, e : Fix(c) = <<Mov(a, b), Cmp(d, e)>>
  BY <1>2, <1>6
<1> QED
  BY <1>1, <1>3, <1>4, <1>5, <1>6

LEMMA RenamedKind ==
  ASSUME NEW m, NEW s \in Instrs
  PROVE  /\ RenameOperands(m, s).kind = s.kind
         /\ s.kind = "LABEL" => RenameOperands(m, s) = s
<1> DEFINE c == RenameOperands(m, s)
           fields == Range(OperandFields(s))
<1>1. /\ DOMAIN c = DOMAIN s
      /\ \A f \in DOMAIN s \ fields : c[f] = s[f]
      /\ c = [f \in DOMAIN s |-> IF f \in fields THEN Renamed(m, s[f]) ELSE s[f]]
  BY DEF RenameOperands
<1>2. "kind" \in DOMAIN s /\ "kind" \notin fields
  BY DEF Instrs, X86Instructions, OperandFields, Range
<1>3. s.kind = "LABEL" => fields = {} /\ s = [f \in DOMAIN s |-> s[f]]
  BY DEF Instrs, X86Instructions, OperandFields, Range
<1> HIDE DEF c, fields
<1>4. s.kind = "LABEL" => c = s
  BY <1>1, <1>3
<1> QED
  BY <1>1, <1>2, <1>4 DEF c

\* A label in the list is where the code of the IR's label begins.
LEMMA LabelSpot ==
  ASSUME MachineInv, NEW h, Printed(h), NEW k \in 1 .. Len(fixed), NEW l, fixed[k] = Label(l)
  PROVE  /\ Begins(h[k]) /\ h[k].p.at \in 1 .. Len(fn.instrs)
         /\ fn.instrs[h[k].p.at] = IrLabel(l)
<1> PICK z : z = h[k]
  OBVIOUS
<1> PICK p : p = z.p
  OBVIOUS
<1> PICK o : o = z.o
  OBVIOUS
<1>1. fn \in IrFunctions /\ Len(fixed) \in Nat
  BY MachineTypes
<1>2. k \in 1 .. Len(fixed) + 1 /\ k <= Len(fixed)
  BY <1>1
<1>3. AtSpot(z, fixed[k], fixedFrom[k]) /\ p \in Places /\ o \in Nat \ {0}
  BY <1>2, SpotTypes
<1>4. fixed[k].kind = "LABEL"
  BY DEF Label
<1>5. p # FramePlace
  <2> SUFFICES ASSUME p = FramePlace
               PROVE  FALSE
    OBVIOUS
  <2>1. p.part = "frame"
    BY DEF FramePlace, Place
  <2>2. Rewritten(p) = AllocIfAny(Frame(opmap.stack_offset))
    BY <2>1 DEF Rewritten
  <2>3. fixed[k] = Rewritten(p)[o] /\ o <= Len(Rewritten(p))
    BY <1>3 DEF AtSpot
  <2>4. Rewritten(p) = <<>> \/ Rewritten(p) = <<Alloc(Frame(opmap.stack_offset))>>
    BY <2>2 DEF AllocIfAny
  <2>5. Rewritten(p) # <<>>
    BY <1>3, <2>3
  <2>6. o = 1 /\ Rewritten(p) = <<Alloc(Frame(opmap.stack_offset))>>
    BY <1>3, <2>3, <2>4, <2>5
  <2>7. fixed[k] = Alloc(Frame(opmap.stack_offset))
    BY <2>3, <2>6
  <2> QED
    BY <1>4, <2>7, NoLabels
<1>6. IsPlace(fn, p) /\ p.part # "end"
  BY <1>3, <1>5 DEF AtSpot
<1> PICK s : s = Source(fn, p)
  OBVIOUS
<1> PICK c : c = RenameOperands(opmap, s)
  OBVIOUS
<1>7. s \in Instrs
  BY <1>1, <1>3, <1>6, MeantTame
<1>8. Rewritten(p) = Fix(c)
  <2>1. p.part # "frame"
    BY <1>6 DEF IsPlace, InBlock, Place
  <2> QED
    BY <2>1 DEF Rewritten
<1>9. fixed[k] = Fix(c)[o] /\ o \in 1 .. Len(Fix(c))
  <2>1. fixed[k] = Fix(c)[o] /\ o <= Len(Fix(c))
    BY <1>3, <1>8 DEF AtSpot
  <2>2. Len(Fix(c)) \in Nat
    BY DEF Fix
  <2> QED
    BY <1>3, <2>1, <2>2
<1>10. Fix(c) = <<c>> /\ o = 1
  BY <1>4, <1>9, FixedLabels
<1>11. fixed[k] = c
  BY <1>9, <1>10
<1>12. s.kind = "LABEL" /\ c = s
  BY <1>4, <1>7, <1>11, RenamedKind
<1>13. /\ p.at \in 1 .. Len(fn.instrs) /\ p = FirstOf(fn, p.at)
       /\ \E m : fn.instrs[p.at] = IrLabel(m) /\ s = Label(m)
  BY <1>1, <1>3, <1>6, <1>12, LabelPlace
<1>14. PICK m : fn.instrs[p.at] = IrLabel(m) /\ s = Label(m)
  BY <1>13
<1>15. m = l
  <2>1. Label(m) = Label(l)
    BY <1>11, <1>12, <1>14
  <2>2. Label(m).id = m /\ Label(l).id = l
    BY DEF Label
  <2> QED
    BY <2>1, <2>2
<1>16. Len(fn.instrs) \in Nat
  BY <1>1, FunctionTypes
<1> QED
  BY <1>10, <1>13, <1>14, <1>15, <1>16 DEF Begins

\* No label is placed twice, so that is where the IR jumps to.
LEMMA LabelIsUnique ==
  ASSUME NEW f \in IrFunctions, NEW j \in 1 .. Len(f.instrs), NEW l, f.instrs[j] = IrLabel(l)
  PROVE  LabelIndex(f.instrs, l) = j
<1> DEFINE at == {i \in 1 .. Len(f.instrs) : f.instrs[i] = IrLabel(l)}
<1>1. ASSUME NEW i \in at
      PROVE  i = j
  <2>1. f.instrs[i].kind = "LABEL" /\ f.instrs[i] = f.instrs[j]
    BY DEF IrLabel
  <2> QED
    BY <2>1, ContractAssumption DEF IrContract
<1>2. at = {j} /\ j \in Nat
  BY <1>1
<1>3. LabelIndex(f.instrs, l) = IF at = {} THEN 0 ELSE CHOOSE i \in at : \A m \in at : i <= m
  BY DEF LabelIndex
<1> HIDE DEF at
<1>4. (CHOOSE i \in at : \A m \in at : i <= m) = j
  BY <1>2
<1> QED
  BY <1>2, <1>3, <1>4

\* A jump that is taken.
LEMMA Jumps ==
  ASSUME NEW h, Ready(h), Exec, NEW l, JumpTo(l), UNCHANGED <<regs, mem, rsp, lastCall>>, Slots({})
  PROVE  /\ IrEnv' = IrEnv /\ IrIp' = LabelIndex(fn.instrs, l) /\ IrLastCall' = lastCall'
         /\ UNCHANGED <<fn, status, result>> /\ Continues(h)
<1>1. MachineInv /\ Printed(h) /\ Stored /\ status = "running" /\ fn \in IrFunctions /\ Len(fixed) \in Nat
  BY ReadyFacts DEF Ready, Running
<1>2. PICK k \in 1 .. Len(fixed) : fixed[k] = Label(l) /\ pc' = k
  BY DEF JumpTo
<1> PICK j : j = h[k].p.at
  OBVIOUS
<1>3. Begins(h[k]) /\ j \in 1 .. Len(fn.instrs) /\ fn.instrs[j] = IrLabel(l)
  BY <1>1, <1>2, LabelSpot
<1>4. LabelIndex(fn.instrs, l) = j
  BY <1>1, <1>3, LabelIsUnique
<1> PICK E : E = IrEnv
  OBVIOUS
<1>5. status' = "running" /\ UNCHANGED <<status, result>>
  BY <1>1 DEF JumpTo
<1>6. UNCHANGED passVars
  BY ExecFrame
<1>7. /\ E \in [Ids -> Word] /\ DOMAIN regs' = Registers /\ DOMAIN mem' = Addresses /\ rsp' % 8 = 0
      /\ \A y \in Variables : Slot(y)' = E[y]
      /\ \A y \in Ids \ Variables : E[y] = IrEnv[y]
  BY <1>1, <1>6 DEF Stored, Slots, Slot, passVars
<1>8. j \in 1 .. Len(fn.instrs) + 1 /\ pc' \in 1 .. Len(fixed) + 1
  BY <1>1, <1>2, <1>3, FunctionTypes
<1>9. Begins(h[pc']) /\ h[pc'].p.at = j
  BY <1>2, <1>3
<1>10. IrEnv' = E /\ IrIp' = j /\ IrLastCall' = lastCall' /\ fn' = fn /\ Continues(h)
  BY <1>5, <1>7, <1>8, <1>9, Arrives
<1> QED
  BY <1>4, <1>5, <1>10

\* goto, and the jumps of loops and short-circuit operators.
LEMMA JumpStep ==
  ASSUME Wide, NEW h, NEW x, NEW c, NEW i, NEW n, Doing(h, x, c, i, n), i.kind = "JUMP"
  PROVE  Simulated(h)
<1>1. /\ i \in IrInstructions(Ids) /\ n \in 1 .. Len(CodegenInstr(i))
      /\ c = RenameOperands(opmap, CodegenInstr(i)[n]) /\ Performs(c)
      /\ lastCall = IrLastCall
  BY InstrStep
<1>2. CodegenInstr(i) = <<Jmp(i.target)>>
  BY <1>1, InstrBlocks
<1>3. n = 1 /\ c.kind = "JMP" /\ c.target = i.target
  <2>1. Len(CodegenInstr(i)) = 1
    BY <1>2
  <2>2. n = 1
    BY <1>1, <2>1
  <2>3. c = RenameOperands(opmap, Jmp(i.target))
    BY <1>1, <1>2, <2>2
  <2> QED
    BY <2>2, <2>3, OtherShapes
<1>4. ExecJump /\ fixed[pc] = c
  <2>1. fixed[pc] = c
    BY <1>1, <1>3 DEF Performs
  <2>2. Exec /\ pc \in 1 .. Len(fixed) /\ Running /\ Len(fixed) \in Nat
    BY ReadyFacts DEF Meaning, Ready, Doing
  <2> QED
    BY <1>3, <2>1, <2>2, ExecKinds
<1>5. JumpTo(i.target) /\ UNCHANGED <<regs, flags, mem, rsp, lastCall>>
  BY <1>3, <1>4 DEF ExecJump
<1>6. Slots({})
  BY <1>3, InstrAt
<1>7. /\ IrEnv' = IrEnv /\ IrIp' = LabelIndex(fn.instrs, i.target) /\ IrLastCall' = lastCall'
      /\ UNCHANGED <<fn, status, result>> /\ Continues(h)
  BY <1>5, <1>6, Jumps DEF Doing, Meaning
<1>8. Abstract!LabelIndex(fn.instrs, i.target) = LabelIndex(fn.instrs, i.target)
  BY DEF Abstract!LabelIndex, LabelIndex, Abstract!IrLabel, IrLabel
<1>9. Abstract!DoJump
  BY <1>1, <1>5, <1>7, <1>8, InstrAt DEF Abstract!DoJump
<1> QED
  BY <1>7, <1>9 DEF Simulated, Abstract!IrNext

LEMMA BranchesOnly ==
  ASSUME NEW i, Branches(i)
  PROVE  /\ ~Clears(i) /\ ~InPlace(i) /\ ~Divides(i) /\ i.kind # "RETURN"
         /\ ~Clears(i)' /\ ~InPlace(i)' /\ ~Divides(i)'
         /\ Compared(i) = Val(i.cond) - 0
         /\ Compared(i)' = Val(i.cond)' - 0
  BY DEF Branches, Clears, InPlace, Divides, Compared

\* The comparison with zero before a conditional jump.
LEMMA BranchCompares ==
  ASSUME NEW h, NEW x, NEW c, NEW i, NEW n, Doing(h, x, c, i, n), Branches(i), n = 1, n < Len(CodegenInstr(i)),
         NEW a, NEW b, a = Imm(0), b = CodegenVal(i.cond), CodegenInstr(i)[n] = Cmp(a, b), i.cond \in IrValues(Ids)
  PROVE  Simulated(h)
<1>1. /\ Advance /\ UNCHANGED <<regs, mem, rsp, lastCall>>
      /\ DOMAIN regs' = Registers /\ DOMAIN mem' = Addresses
      /\ SetFlags(Value(Renamed(opmap, b)) - Value(Renamed(opmap, a)))
      /\ \A y : Slot(y)' = Slot(y)
      /\ InMap(opmap, a) /\ InMap(opmap, b)
  BY Compares
<1>2. Slots({})
  BY InstrAt
<1>3. \A v : Val(v)' = Val(v)
  BY <1>1, InstrNext
<1>4. Value(Renamed(opmap, b)) = Val(i.cond)
  BY <1>1, <1>2, NamedValue
<1>5. Value(Renamed(opmap, a)) = 0
  BY RenamedPlain DEF Value, Imm
<1>6. FlagsOf(Compared(i))'
  <2>1. SetFlags(Val(i.cond) - 0) /\ Compared(i)' = Val(i.cond) - 0
    BY <1>1, <1>3, <1>4, <1>5, BranchesOnly
  <2> QED
    BY <2>1 DEF SetFlags, FlagsOf
<1>7. Underway(i, n + 1)'
  BY <1>6, BranchesOnly DEF Underway
<1> PICK X : X = (IF Clears(i) \/ InPlace(i) THEN {i.dst.id} ELSE {})
  OBVIOUS
<1>8. \A y \in Variables \ X : Slot(y)' = IrEnv[y]
  BY <1>1, <1>2, BranchesOnly DEF Slots
<1> QED
  BY <1>1, <1>7, <1>8, InstrGoesOn

\* The conditional jump itself.
LEMMA BranchJumps ==
  ASSUME NEW h, NEW x, NEW c, NEW i, NEW n, Doing(h, x, c, i, n), Branches(i), n = 2, n = Len(CodegenInstr(i)),
         NEW cc, cc = (IF i.kind = "JUMP_ZERO" THEN "E" ELSE "NE"),
         CodegenInstr(i)[n] = JmpCC(cc, i.target), i.cond \in IrValues(Ids)
  PROVE  Simulated(h)
<1> Meaning(h, x, c)
  BY DEF Doing
<1>1. /\ c = RenameOperands(opmap, CodegenInstr(i)[n]) /\ Performs(c)
      /\ lastCall = IrLastCall /\ Stored /\ x.p.at \in 1 .. Len(fn.instrs)
  BY InstrStep
<1>2. c.kind = "JMPCC" /\ c.cond = cc /\ c.target = i.target
  BY <1>1, OtherShapes
<1>3. ExecBranch /\ fixed[pc] = c
  <2>1. fixed[pc] = c
    BY <1>1, <1>2 DEF Performs
  <2>2. Exec /\ pc \in 1 .. Len(fixed) /\ Running /\ Len(fixed) \in Nat
    BY ReadyFacts DEF Meaning, Ready
  <2> QED
    BY <1>2, <2>1, <2>2, ExecKinds
<1>4. /\ IF Holds(cc) THEN JumpTo(i.target) ELSE Advance
      /\ UNCHANGED <<regs, flags, mem, rsp, lastCall>>
  BY <1>2, <1>3 DEF ExecBranch
<1>5. Slots({})
  BY BranchesOnly, InstrAt
<1>6. Holds(cc) <=> ((Val(i.cond) = 0) = (i.kind = "JUMP_ZERO"))
  <2>1. (n > 1 => Underway(i, n))
    BY InstrStep
  <2>2. FlagsOf(Val(i.cond) - 0)
    BY <2>1, BranchesOnly DEF Underway
  <2>3. Val(i.cond) \in Int
    <3>1. i.cond \in Values(i)
      BY DEF Values, Branches
    <3>2. Val(i.cond) \in Word
      BY <3>1, InstrAt
    <3> QED
      BY <3>2, WordsAreIntegers
  <2>4. flags.zero = (Val(i.cond) = 0)
    BY <2>2, <2>3 DEF FlagsOf
  <2>5. cc = "E" \/ cc = "NE"
    OBVIOUS
  <2>6. i.kind = "JUMP_ZERO" => cc = "E"
    OBVIOUS
  <2>7. i.kind # "JUMP_ZERO" => cc = "NE"
    OBVIOUS
  <2>8. Holds("E") = flags.zero /\ Holds("NE") = ~flags.zero
    BY DEF Holds
  <2> QED
    BY <2>4, <2>6, <2>7, <2>8
<1>7. /\ IrEnv' = IrEnv /\ IrLastCall' = lastCall' /\ UNCHANGED <<fn, status, result>> /\ Continues(h)
      /\ IrIp' = IF Holds(cc) THEN LabelIndex(fn.instrs, i.target) ELSE IrIp + 1
  <2>1. CASE Holds(cc)
    BY <1>4, <1>5, <2>1, Jumps DEF Meaning
  <2>2. CASE ~Holds(cc)
    <3>1. Advance /\ DOMAIN regs' = Registers /\ Successor(fn, x.p) = FirstOf(fn, x.p.at + 1)
      BY <1>1, <1>4, <2>2, InstrStep DEF Stored
    <3>2. UNCHANGED <<mem, rsp>>
      BY <1>4
    <3> QED
      BY <1>1, <1>5, <2>2, <3>1, <3>2, EndsQuietly
  <2> QED
    BY <2>1, <2>2
<1>8. Abstract!LabelIndex(fn.instrs, i.target) = LabelIndex(fn.instrs, i.target)
  BY DEF Abstract!LabelIndex, LabelIndex, Abstract!IrLabel, IrLabel
<1>9. Abstract!DoBranch
  <2>1. Abstract!At("JUMP_ZERO") \/ Abstract!At("JUMP_NOT_ZERO")
    BY InstrAt DEF Branches
  <2>2. fn.instrs[IrIp] = i /\ Abstract!ValueIn(IrEnv, i.cond) = Val(i.cond)
    BY InstrAt
  <2>3. IrLastCall' = IrLastCall
    BY <1>1, <1>4, <1>7
  <2> QED
    BY <1>6, <1>7, <1>8, <2>1, <2>2, <2>3 DEF Abstract!DoBranch
<1> QED
  BY <1>7, <1>9 DEF Simulated, Abstract!IrNext

\* if, the loops, ?:, && and ||.
LEMMA BranchStep ==
  ASSUME Wide, NEW h, NEW x, NEW c, NEW i, NEW n, Doing(h, x, c, i, n), Branches(i)
  PROVE  Simulated(h)
<1>1. i \in IrInstructions(Ids) /\ n \in 1 .. Len(CodegenInstr(i))
  BY InstrStep
<1> PICK cc : cc = (IF i.kind = "JUMP_ZERO" THEN "E" ELSE "NE")
  OBVIOUS
<1> PICK a : a = Imm(0)
  OBVIOUS
<1> PICK b : b = CodegenVal(i.cond)
  OBVIOUS
<1>2. CodegenInstr(i) = <<Cmp(a, b), JmpCC(cc, i.target)>> /\ i.cond \in IrValues(Ids)
  BY <1>1, InstrBlocks, InstrFields
<1>3. CASE n = 1
  <2>1. CodegenInstr(i)[n] = Cmp(a, b) /\ n < Len(CodegenInstr(i))
    BY <1>2, <1>3
  <2> QED
    BY <1>2, <1>3, <2>1, BranchCompares
<1>4. CASE n = 2
  <2>1. CodegenInstr(i)[n] = JmpCC(cc, i.target) /\ n = Len(CodegenInstr(i))
    BY <1>2, <1>4
  <2> QED
    BY <1>2, <1>4, <2>1, BranchJumps
<1> QED
  BY <1>1, <1>2, <1>3, <1>4

\* All instructions but calls.
LEMMA InstructionStep ==
  ASSUME Wide, NEW h, NEW x, NEW c, Meaning(h, x, c), x.p.part = "instr"
  PROVE  Simulated(h)
<1> PICK i : i = fn.instrs[x.p.at]
  OBVIOUS
<1> PICK n : n = x.p.n
  OBVIOUS
<1>1. Doing(h, x, c, i, n)
  BY DEF Doing
<1>2. i \in IrInstructions(Ids) /\ i.kind # "FUNCALL"
  BY <1>1, InstrStep
<1>3. /\ i.kind \in {"RETURN", "UNOP", "BINOP", "COPY", "JUMP", "JUMP_ZERO", "JUMP_NOT_ZERO", "LABEL"}
      /\ i.kind = "BINOP" => i.op \in IrRelations \/ Divides(i) \/ InPlace(i)
  BY <1>2, InstrFields DEF InPlace, Clears
<1>4. CASE i.kind = "UNOP"
  BY <1>1, <1>4, NotStep, UnopStep
<1>5. CASE i.kind = "BINOP"
  BY <1>1, <1>3, <1>5, RelationStep, DivisionStep, BinopStep
<1>6. CASE i.kind \in {"JUMP_ZERO", "JUMP_NOT_ZERO"}
  BY <1>1, <1>6, BranchStep DEF Branches
<1> QED
  BY <1>1, <1>3, <1>4, <1>5, <1>6, ReturnStep, CopyStep, LabelStep, JumpStep

-----------------------------------------------------------------------------
(* Before the first IR instruction *)

\* A step that leaves the IR where it starts.
LEMMA Prologue ==
  ASSUME NEW h, Ready(h), Exec, Advance, pc \in 1 .. Len(fixed), h[pc].p.at = 0,
         NEW q, q = h[pc + 1].p, h[pc + 1].o = 1, q.at = 0 \/ q = FirstOf(fn, 1),
         q.at = 0 => q.part = "params",
         DOMAIN regs' = Registers, DOMAIN mem' = Addresses, rsp' % 8 = 0, lastCall' = IrLastCall,
         \A y \in Variables \ InFlux(q) : Slot(y)' = IrEnv[y],
         \A m \in q.n .. Len(fn.params) : q.at = 0 => Value(ParamSource(m))' = IrEnv[fn.params[m]]
  PROVE  Simulated(h)
<1>1. /\ MachineInv /\ Printed(h) /\ Stored /\ status = "running" /\ fn \in IrFunctions
      /\ Len(fixed) \in Nat /\ IrIp = 1 /\ Len(fn.instrs) \in Nat
  BY ReadyFacts, FunctionTypes DEF Ready, Running
<1>2. pc' = pc + 1 /\ status' = "running" /\ UNCHANGED <<status, result>> /\ UNCHANGED passVars
  BY <1>1, ExecFrame DEF Advance
<1>3. CASE q = FirstOf(fn, 1)
  <2>1. q.at = 1 /\ q.part \in {"instr", "begin", "finish", "end"} /\ q.n = 1
    BY <1>1, <1>3, FirstIsPlace
  <2>2. InFlux(q) = {}
    BY <2>1 DEF InFlux
  <2>3. Begins(h[pc']) /\ h[pc'].p.at = 1
    BY <1>2, <1>3, <2>1 DEF Begins
  <2> PICK E : E = IrEnv
    OBVIOUS
  <2> PICK i : i = 1
    OBVIOUS
  <2>4. /\ E \in [Ids -> Word]
        /\ \A y \in Variables : Slot(y)' = E[y]
        /\ \A y \in Ids \ Variables : E[y] = IrEnv[y]
    BY <1>1, <2>2 DEF Stored
  <2>5. pc' \in 1 .. Len(fixed) + 1 /\ i \in 1 .. Len(fn.instrs) + 1 /\ h[pc'].p.at = i
    BY <1>1, <1>2, <2>3
  <2>6. IrEnv' = E /\ IrIp' = i /\ IrLastCall' = lastCall' /\ fn' = fn /\ Continues(h)
    BY <1>2, <2>3, <2>4, <2>5, Arrives
  <2>7. Unseen
    BY <1>1, <1>2, <2>6 DEF Unseen
  <2> QED
    BY <2>6, <2>7 DEF Simulated
<1>4. CASE q.at = 0
  <2>1. ~Begins(h[pc + 1])
    BY <1>4 DEF Begins
  <2>2. Unseen
    BY <1>4, <2>1, StepsWithin
  <2>3. IrEnv' = IrEnv /\ IrLastCall' = IrLastCall /\ UNCHANGED <<fn, opmap>>
    BY <1>2, <2>2 DEF Unseen, passVars
  <2>4. Slots(InFlux(q))'
    BY <1>4, <2>3 DEF Slots, InFlux, Variables
  <2>5. Given(q.n)'
    BY <1>4, <2>3 DEF Given
  <2>6. Holding(q)'
    BY <1>4, <2>3, <2>4, <2>5 DEF Holding
  <2>7. Scratch(Meant(q), 1)'
    BY DEF Scratch
  <2>8. At(h[pc])'
    BY <1>2, <2>6, <2>7 DEF At
  <2>9. Stored'
    BY <1>1, <2>3 DEF Stored
  <2> QED
    BY <2>2, <2>8, <2>9 DEF Simulated, Continues
<1> QED
  BY <1>3, <1>4

\* The spot of the frame.
LEMMA FrameSpot ==
  ASSUME MachineInv, NEW h, Printed(h), NEW k \in 1 .. Len(fixed), h[k].p = FramePlace
  PROVE  /\ fixed[k] = Alloc(Frame(opmap.stack_offset))
         /\ h[k + 1].p = Start(fn) /\ h[k + 1].o = 1 /\ h[k].o = 1
<1> PICK z : z = h[k]
  OBVIOUS
<1> PICK p : p = z.p
  OBVIOUS
<1> PICK o : o = z.o
  OBVIOUS
<1>1. Len(fixed) \in Nat
  BY MachineTypes
<1>2. k \in 1 .. Len(fixed) + 1 /\ k <= Len(fixed)
  BY <1>1
<1>3. AtSpot(z, fixed[k], fixedFrom[k]) /\ o \in Nat \ {0} /\ h[k + 1] = NextSpot(z)
  BY <1>2, SpotTypes
<1>4. p.part = "frame"
  BY DEF FramePlace, Place
<1>5. Rewritten(p) = AllocIfAny(Frame(opmap.stack_offset))
  BY <1>4 DEF Rewritten
<1>6. fixed[k] = Rewritten(p)[o] /\ o <= Len(Rewritten(p))
  BY <1>3 DEF AtSpot
<1>7. Rewritten(p) = <<>> \/ Rewritten(p) = <<Alloc(Frame(opmap.stack_offset))>>
  BY <1>5 DEF AllocIfAny
<1>8. Rewritten(p) # <<>>
  BY <1>3, <1>6
<1>9. o = 1 /\ Rewritten(p) = <<Alloc(Frame(opmap.stack_offset))>>
  BY <1>3, <1>6, <1>7, <1>8
<1>10. fixed[k] = Alloc(Frame(opmap.stack_offset))
  BY <1>6, <1>9
<1>11. h[k + 1] = [p |-> Start(fn), o |-> 1]
  BY <1>3, <1>4, <1>9 DEF NextSpot
<1> QED
  BY <1>9, <1>10, <1>11

\* The frame is reserved.
LEMMA FrameStep ==
  ASSUME NEW h, Ready(h), Exec, pc \in 1 .. Len(fixed), h[pc].p = FramePlace
  PROVE  Simulated(h)
<1>1. /\ MachineInv /\ Printed(h) /\ Running /\ Stored /\ fn \in IrFunctions /\ Len(fixed) \in Nat
      /\ Holding(FramePlace) /\ rsp \in Int
  BY ReadyFacts DEF Ready, At
<1>2. fixed[pc] = Alloc(Frame(opmap.stack_offset)) /\ h[pc + 1].p = Start(fn) /\ h[pc + 1].o = 1
  BY <1>1, FrameSpot
<1>3. fixed[pc].kind = "ALLOC" /\ fixed[pc].size = Frame(opmap.stack_offset)
  BY <1>2 DEF Alloc
<1>4. ExecAlloc
  BY <1>1, <1>3, ExecKinds
<1>5. rsp' = rsp - Frame(opmap.stack_offset) /\ Advance /\ UNCHANGED <<regs, flags, mem, lastCall>>
  BY <1>3, <1>4 DEF ExecAlloc
<1>6. rsp' % 8 = 0
  <2>1. rsp % 8 = 0
    BY <1>1 DEF Stored
  <2> PICK F : F = Frame(opmap.stack_offset)
    OBVIOUS
  <2>2. F \in Nat /\ F % 16 = 0
    BY <1>1, MachineTypes
  <2>3. (rsp - F) % 8 = 0
    BY <1>1, <2>1, <2>2
  <2> QED
    BY <1>5, <2>3
<1> PICK q : q = Start(fn)
  OBVIOUS
<1>7. /\ FramePlace.part = "frame" /\ FramePlace.at = 0
      /\ Slots(Range(fn.params)) /\ Given(1) /\ lastCall = IrLastCall
  <2>1. FramePlace.part = "frame" /\ FramePlace.at = 0
    BY DEF FramePlace, Place
  <2>2. InFlux(FramePlace) = Range(fn.params)
    BY <2>1 DEF InFlux
  <2> QED
    BY <1>1, <2>1, <2>2 DEF Holding
<1>8. UNCHANGED passVars /\ opmap' = opmap
  BY ExecFrame DEF passVars
<1>9. \A y : Slot(y)' = Slot(y)
  BY <1>5, <1>8 DEF Slot
<1>10. fn.params \in Seq(Ids) /\ Len(fn.params) \in Nat
  BY <1>1, FunctionTypes
<1>11. CASE Len(fn.params) = 0
  <2>1. q = FirstOf(fn, 1)
    BY <1>11 DEF Start
  <2>2. Range(fn.params) = {}
    BY <1>10, <1>11 DEF Range
  <2>3. \A y \in Variables : Slot(y)' = IrEnv[y]
    BY <1>7, <1>9, <2>2 DEF Slots
  <2>4. q.at = 1
    <3>1. Len(fn.instrs) \in Nat
      BY <1>1, FunctionTypes
    <3> QED
      BY <1>1, <2>1, <3>1, FirstIsPlace
  <2> QED
    BY <1>1, <1>2, <1>5, <1>6, <1>7, <2>1, <2>3, <2>4, Prologue DEF Stored
<1>12. CASE Len(fn.params) # 0
  <2>1. q.at = 0 /\ q.part = "params" /\ q.n = 1
    BY <1>12 DEF Start, Place
  <2>2. InFlux(q) = Range(fn.params)
    BY <1>10, <2>1 DEF InFlux, Range
  <2>3. \A y \in Variables \ InFlux(q) : Slot(y)' = IrEnv[y]
    BY <1>7, <1>9, <2>2 DEF Slots
  <2>4. \A m \in q.n .. Len(fn.params) : Value(ParamSource(m))' = IrEnv[fn.params[m]]
    <3>1. \A op : Value(op)' = Value(op)
      BY <1>5 DEF Value
    <3>2. \A m : ParamSource(m)' = ParamSource(m)
      BY DEF ParamSource
    <3> QED
      BY <1>7, <2>1, <3>1, <3>2 DEF Given
  <2> QED
    BY <1>1, <1>2, <1>5, <1>6, <1>7, <2>1, <2>3, <2>4, Prologue DEF Stored
<1> QED
  BY <1>11, <1>12

\* A parameter is saved in its slot.
LEMMA ParamStep ==
  ASSUME Wide, NEW h, NEW x, NEW c, Meaning(h, x, c), x.p.part = "params"
  PROVE  Simulated(h)
<1> PICK p : p = x.p
  OBVIOUS
<1> PICK n : n = p.n
  OBVIOUS
<1>1. /\ fn \in IrFunctions /\ MapInv(opmap) /\ Running /\ Stored /\ rsp \in Int
      /\ p \in Places /\ InBlock(fn, p) /\ n \in 1 .. Len(Block(fn, p))
      /\ Holding(p)
      /\ c = RenameOperands(opmap, Source(fn, p)) /\ Named(opmap, Source(fn, p))
      /\ Performs(c) /\ (c.kind \in {"MOV", "BINOP", "CMP"} => Advance)
      /\ h[pc + 1].p = Successor(fn, p) /\ h[pc + 1].o = 1
      /\ UNCHANGED passVars
  BY MeantStep
<1>2. p.at = 0 /\ p.part = "params" /\ Len(fn.params) \in Nat /\ fn.params \in Seq(Ids)
  BY <1>1, FunctionTypes DEF InBlock
<1>3. Block(fn, p) = [k \in 1 .. Len(fn.params) |-> Mov(Id(fn.params[k]), ParamSource(k))]
  BY <1>2 DEF Block
<1>4. Len(Block(fn, p)) = Len(fn.params) /\ n \in 1 .. Len(fn.params)
  BY <1>1, <1>2, <1>3
<1>5. Source(fn, p) = Mov(Id(fn.params[n]), ParamSource(n))
  BY <1>3, <1>4 DEF Source
<1> PICK d : d = fn.params[n]
  OBVIOUS
<1> PICK src : src = ParamSource(n)
  OBVIOUS
<1>6. d \in Variables
  <2>1. Named(opmap, Mov(Id(d), src))
    BY <1>1, <1>5
  <2>2. InMap(opmap, Id(d))
    BY <2>1, NamedOperands
  <2>3. d \in Ids
    BY <1>2, <1>4
  <2> QED
    BY <2>2, <2>3 DEF InMap, Id, Variables
<1>7. Renamed(opmap, Id(d)) = Stack(opmap.slot[d]) /\ Renamed(opmap, src) = src
  BY RenamedPlain DEF Renamed, Id, ParamSource
<1>8. c.kind = "MOV" /\ c.dst = Stack(opmap.slot[d]) /\ c.src = src
  <2>1. c = RenameOperands(opmap, Mov(Id(d), src))
    BY <1>1, <1>5
  <2> QED
    BY <1>7, <2>1, RenamedShapes
<1>9. Advance /\ Write(Stack(opmap.slot[d]), Value(src)) /\ UNCHANGED <<flags, rsp, lastCall>>
  BY <1>1, <1>8 DEF Performs
<1> PICK w : w = Value(src)
  OBVIOUS
<1>10. /\ regs' = regs /\ DOMAIN regs' = Registers /\ DOMAIN mem' = Addresses
       /\ Slot(d)' = w
       /\ \A y \in Variables \ {d} : Slot(y)' = Slot(y)
       /\ \A a \in Addresses : a \in Nat => mem'[a] = mem[a]
  BY <1>6, <1>9, Stores
<1>11. /\ Slots({fn.params[m] : m \in n .. Len(fn.params)}) /\ Given(n) /\ lastCall = IrLastCall
  BY <1>1, <1>2 DEF Holding, InFlux
<1>12. w = IrEnv[d]
  BY <1>4, <1>11 DEF Given
<1>13. \A y \in Variables : y \notin {fn.params[m] : m \in n + 1 .. Len(fn.params)} => Slot(y)' = IrEnv[y]
  <2> SUFFICES ASSUME NEW y \in Variables, y \notin {fn.params[m] : m \in n + 1 .. Len(fn.params)}, y # d
               PROVE  Slot(y)' = IrEnv[y]
    BY <1>10, <1>12
  <2>1. ASSUME NEW m \in n .. Len(fn.params)
        PROVE  fn.params[m] # y
    <3>1. m = n \/ m \in n + 1 .. Len(fn.params)
      BY <1>4
    <3> QED
      BY <3>1
  <2>2. Slot(y) = IrEnv[y]
    BY <1>11, <2>1 DEF Slots
  <2> QED
    BY <1>10, <2>2
<1>14. \A m \in 1 .. Len(fn.params) : Value(ParamSource(m))' = Value(ParamSource(m))
  <2> SUFFICES ASSUME NEW m \in 1 .. Len(fn.params)
               PROVE  Value(ParamSource(m))' = Value(ParamSource(m))
    OBVIOUS
  <2>1. CASE ParamSource(m).kind = "REG"
    BY <1>10, <2>1 DEF Value, ParamSource
  <2>2. CASE ParamSource(m).kind # "REG"
    <3>1. m > 6 /\ ParamSource(m) = Stack(16 + 8 * (m - 7))
      BY <2>2, SixArgRegisters DEF ParamSource, Reg
    <3>2. ParamSource(m)' = ParamSource(m)
      BY DEF ParamSource
    <3>3. 16 + 8 * (m - 7) \in Nat /\ 16 + 8 * (m - 7) \in Addresses
      <4>1. 16 + 8 * (m - 7) = 4 * (4 + 2 * (m - 7)) /\ 4 + 2 * (m - 7) \in Int
        OBVIOUS
      <4>2. 16 + 8 * (m - 7) \in Addresses
        BY <4>1 DEF Wide
      <4> QED
        BY ONLY <3>1, <4>2, m \in 1 .. Len(fn.params), <1>2
    <3> QED
      BY <1>10, <3>1, <3>2, <3>3 DEF Value, Stack
  <2> QED
    BY <2>1, <2>2
<1> PICK q : q = Successor(fn, p)
  OBVIOUS
<1>15. rsp' % 8 = 0 /\ lastCall' = IrLastCall /\ Ready(h) /\ Exec /\ pc \in 1 .. Len(fixed) /\ h[pc].p.at = 0
       /\ q = h[pc + 1].p /\ h[pc + 1].o = 1
  BY <1>1, <1>2, <1>9, <1>11 DEF Stored, Meaning
<1>16. CASE n < Len(fn.params)
  <2>1. q = [p EXCEPT !.n = n + 1]
    BY <1>4, <1>16 DEF Successor
  <2>2. q.at = 0 /\ q.part = "params" /\ q.n = n + 1
    BY <1>1, <1>2, <2>1 DEF Places
  <2>3. InFlux(q) = {fn.params[m] : m \in n + 1 .. Len(fn.params)}
    BY <2>2 DEF InFlux
  <2>4. \A y \in Variables \ InFlux(q) : Slot(y)' = IrEnv[y]
    BY <1>13, <2>3
  <2>5. \A m \in q.n .. Len(fn.params) : Value(ParamSource(m))' = IrEnv[fn.params[m]]
    <3> SUFFICES ASSUME NEW m \in q.n .. Len(fn.params)
                 PROVE  Value(ParamSource(m))' = IrEnv[fn.params[m]]
      OBVIOUS
    <3>1. m \in n .. Len(fn.params) /\ m \in 1 .. Len(fn.params)
      BY <1>4, <2>2
    <3> QED
      BY <1>11, <1>14, <3>1 DEF Given
  <2> QED
    BY <1>9, <1>10, <1>15, <2>2, <2>4, <2>5, Prologue
<1>17. CASE n = Len(fn.params)
  <2>1. q = FirstOf(fn, 1)
    BY <1>2, <1>4, <1>17 DEF Successor, After
  <2>2. q.at = 1
    <3>1. Len(fn.instrs) \in Nat
      BY <1>1, FunctionTypes
    <3> QED
      BY <1>1, <2>1, <3>1, FirstIsPlace
  <2>3. n + 1 .. Len(fn.params) = {}
    BY <1>4, <1>17
  <2>4. \A y \in Variables \ InFlux(q) : Slot(y)' = IrEnv[y]
    BY <1>13, <2>3
  <2>5. (q.at = 0 \/ q = FirstOf(fn, 1)) /\ (q.at = 0 => q.part = "params")
        /\ \A m \in q.n .. Len(fn.params) : q.at = 0 => Value(ParamSource(m))' = IrEnv[fn.params[m]]
    BY <2>1, <2>2
  <2> QED
    BY <1>9, <1>10, <1>15, <2>4, <2>5, Prologue
<1> QED
  BY <1>4, <1>16, <1>17
=============================================================================
