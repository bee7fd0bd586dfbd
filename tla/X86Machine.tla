----------------------------- MODULE X86Machine -----------------------------
(***************************************************************************)
(* The compiled function running.  The passes of Backend compile a          *)
(* function; then the processor executes the emitted list, one instruction  *)
(* per step, on the registers and the stack.  The state is shown to         *)
(* implement IrMachine: at every boundary between the code of two IR        *)
(* instructions the stack slots hold the values of the IR variables.        *)
(*                                                                         *)
(* The processor is not in the repository: its instructions are modelled    *)
(* from the text emit.c prints for them (suffix l: one word; q: two).       *)
(* Addresses are relative to %rbp, which the ABI keeps a multiple of 16, and *)
(* memory is an array of words at multiples of 4.                           *)
(***************************************************************************)
EXTENDS Backend, IrRules

CONSTANTS Environments(_),  \* the values the parameters of a function may be
                            \* given: a set of functions from them to Word
          Garbage,          \* what a register or a slot may hold that nobody wrote:
                            \* a set of words
          Addresses         \* the part of the stack that is modelled

\* What emit_ir hands over keeps the rules of the IR.
ASSUME ContractAssumption == \A f \in IrFunctions : IrContract(f)

\* A caller passes ints, and what nobody wrote is a word as well.
ASSUME EnvironmentsAssumption ==
  /\ \A f \in IrFunctions : \A given \in Environments(f) : \A x \in Range(f.params) : given[x] \in Word
  /\ Garbage \subseteq Word

VARIABLES
  regs,      \* register |-> word
  flags,     \* what the last arithmetic left for jcc and setcc
  mem,       \* address |-> word
  rsp,       \* the stack pointer
  pc,        \* index of the next instruction in fixed
  status,    \* as in IrMachine
  result,    \* %eax when the function returned
  lastCall,  \* the latest call and the arguments its callee finds
  saved      \* history: env and lastCall at the latest IR boundary

machineVars == <<regs, flags, mem, rsp, pc, status, result, lastCall, saved>>
allVars == <<passVars, machineVars>>

\* The caller has put argument values where the callee looks for them
\* (codegen_function reads them there); everything else is garbage.
Entry(env, garbage) ==
  LET registerArg(r) == {i \in 1 .. Len(fn.params) : i <= 6 /\ ArgRegisters[i] = r}
      stackArg(a) == {i \in 7 .. Len(fn.params) : a = 16 + 8 * (i - 7)}
      valueOf(params) == IF params = {} THEN garbage
                         ELSE env[fn.params[CHOOSE i \in params : TRUE]]
  IN /\ regs = [r \in Registers |-> valueOf(registerArg(r))]
     /\ mem = [a \in Addresses |-> valueOf(stackArg(a))]

MachineInit ==
  /\ Init
  /\ \E given \in Environments(fn), garbage \in Garbage :
       LET env == [x \in Ids |-> IF x \in Range(fn.params) THEN given[x] ELSE garbage]
       IN /\ Entry(env, garbage)
          /\ saved = [env |-> env, call |-> <<>>]
  /\ flags = [zero |-> FALSE, less |-> FALSE]
  /\ rsp = 0
  /\ pc = 1
  /\ status = "running"
  /\ result = 0
  /\ lastCall = <<>>

-----------------------------------------------------------------------------
(* The refinement mapping *)

Loaded == phase = "done"
Origin == IF pc <= Len(fixed) THEN fixedFrom[pc] ELSE Len(fn.instrs) + 1

AtBoundary ==
  /\ Loaded
  /\ status = "running"
  /\ Origin > 0
  /\ pc = 1 \/ fixedFrom[pc - 1] # Origin

IrEnv ==
  IF AtBoundary
    THEN [x \in Ids |-> IF x \in DOMAIN opmap.slot THEN mem[opmap.slot[x]] ELSE saved.env[x]]
    ELSE saved.env
IrLastCall == IF AtBoundary THEN lastCall ELSE saved.call
IrIp == IF Loaded /\ Origin > 0 THEN Origin ELSE 1

Abstract == INSTANCE IrMachine WITH
  Functions <- IrFunctions, env <- IrEnv, ip <- IrIp, lastCall <- IrLastCall

-----------------------------------------------------------------------------
(* The processor *)

Value(op) ==
  CASE op.kind = "REG" -> regs[op.reg]
    [] op.kind = "IMM" -> op.imm
    [] op.kind = "STACK" -> mem[op.stack]

Write(op, w) ==
  \/ op.kind = "REG" /\ regs' = [regs EXCEPT ![op.reg] = w] /\ UNCHANGED mem
  \/ op.kind = "STACK" /\ mem' = [mem EXCEPT ![op.stack] = w] /\ UNCHANGED regs

SetFlags(n) == flags' = [zero |-> n = 0, less |-> n < 0]

Executing(kind) ==
  /\ Loaded
  /\ status = "running"
  /\ pc <= Len(fixed)
  /\ fixed[pc].kind = kind
  /\ saved' = [env |-> IrEnv, call |-> IrLastCall]
  /\ UNCHANGED passVars

Advance == pc' = pc + 1 /\ UNCHANGED <<status, result>>

ExecMov ==
  /\ Executing("MOV")
  /\ Write(fixed[pc].dst, Value(fixed[pc].src))
  /\ Advance
  /\ UNCHANGED <<flags, rsp, lastCall>>

ExecUnop ==
  /\ Executing("UNOP")
  /\ LET i == fixed[pc]
         w == IF i.unop = "NEG" THEN Wrap(-Value(i.operand)) ELSE NotWord(Value(i.operand))
     IN Write(i.operand, w) /\ SetFlags(w)
  /\ Advance
  /\ UNCHANGED <<rsp, lastCall>>

\* addl, subl, imull, andl, orl, xorl, shll, shrl: destination op= source.
Alu(optype, d, s) ==
  CASE optype = "ADD" -> Wrap(d + s)
    [] optype = "SUB" -> Wrap(d - s)
    [] optype = "MUL" -> Wrap(d * s)
    [] optype = "AND" -> AndWord(d, s)
    [] optype = "OR" -> OrWord(d, s)
    [] optype = "XOR" -> XorWord(d, s)
    [] optype = "LSHIFT" -> ShiftLeft(d, s)
    [] optype = "RSHIFT" -> ShiftRight(d, s)

ExecBinop ==
  /\ Executing("BINOP")
  /\ LET i == fixed[pc]
         w == Alu(i.optype, Value(i.dst), Value(i.rhs))
     IN Write(i.dst, w) /\ SetFlags(w)
  /\ Advance
  /\ UNCHANGED <<rsp, lastCall>>

ExecCdq ==
  /\ Executing("CDQ")
  /\ regs' = [regs EXCEPT !["DX"] = IF regs["AX"] < 0 THEN -1 ELSE 0]
  /\ Advance
  /\ UNCHANGED <<flags, mem, rsp, lastCall>>

\* idivl divides the double word %edx:%eax.
Dividend == regs["DX"] * WordSize + (regs["AX"] % WordSize)
IdivTraps(d) == d = 0 \/ Quotient(Dividend, d) \notin Word

ExecIdiv ==
  /\ Executing("IDIV")
  /\ LET d == Value(fixed[pc].operand)
     IN IF IdivTraps(d)
          THEN /\ status' = "trapped"
               /\ UNCHANGED <<regs, pc, result>>
          ELSE /\ regs' = [regs EXCEPT !["AX"] = Quotient(Dividend, d),
                                       !["DX"] = Remainder(Dividend, d)]
               /\ Advance
  /\ UNCHANGED <<flags, mem, rsp, lastCall>>

\* cmpl a, b sets the flags of b - a.
ExecCmp ==
  /\ Executing("CMP")
  /\ SetFlags(Value(fixed[pc].rhs) - Value(fixed[pc].lhs))
  /\ Advance
  /\ UNCHANGED <<regs, mem, rsp, lastCall>>

Holds(cond) ==
  CASE cond = "E" -> flags.zero
    [] cond = "NE" -> ~flags.zero
    [] cond = "L" -> flags.less
    [] cond = "LE" -> flags.less \/ flags.zero
    [] cond = "G" -> ~flags.less /\ ~flags.zero
    [] cond = "GE" -> ~flags.less

ExecSetCC ==
  /\ Executing("SETCC")
  /\ LET i == fixed[pc]
     IN Write(i.op, SetLowBits(Value(i.op), IF Holds(i.cond) THEN 1 ELSE 0))
  /\ Advance
  /\ UNCHANGED <<flags, rsp, lastCall>>

JumpTo(l) ==
  /\ \E k \in 1 .. Len(fixed) : fixed[k] = Label(l) /\ pc' = k
  /\ UNCHANGED <<status, result>>

ExecJump ==
  /\ Executing("JMP")
  /\ JumpTo(fixed[pc].target)
  /\ UNCHANGED <<regs, flags, mem, rsp, lastCall>>

ExecBranch ==
  /\ Executing("JMPCC")
  /\ IF Holds(fixed[pc].cond) THEN JumpTo(fixed[pc].target) ELSE Advance
  /\ UNCHANGED <<regs, flags, mem, rsp, lastCall>>

ExecLabel ==
  /\ Executing("LABEL")
  /\ Advance
  /\ UNCHANGED <<regs, flags, mem, rsp, lastCall>>

ExecAlloc ==
  /\ Executing("ALLOC")
  /\ rsp' = rsp - fixed[pc].size
  /\ Advance
  /\ UNCHANGED <<regs, flags, mem, lastCall>>

ExecDeallocate ==
  /\ Executing("DEALLOCATE")
  /\ rsp' = rsp + fixed[pc].val
  /\ Advance
  /\ UNCHANGED <<regs, flags, mem, lastCall>>

\* pushq writes two words; movl cleared the upper half of the register.
ExecPush ==
  /\ Executing("PUSH")
  /\ LET op == fixed[pc].operand
         upper == IF op.kind = "IMM" /\ op.imm < 0 THEN -1 ELSE 0
     IN mem' = [mem EXCEPT ![rsp - 8] = Value(op), ![rsp - 4] = upper]
  /\ rsp' = rsp - 8
  /\ Advance
  /\ UNCHANGED <<regs, flags, lastCall>>

\* Where a callee finds its i-th argument: call and the callee's own pushq
\* %rbp take 16 bytes, so 16 + 8k(%rbp) there is 8k(%rsp) here.
Argument(i) == IF i <= Len(ArgRegisters) THEN regs[ArgRegisters[i]]
                                        ELSE mem[rsp + 8 * (i - Len(ArgRegisters) - 1)]

\* The callee returns any word in %eax.  It keeps %rbp, %rsp and the stack at
\* and above %rsp; every other register and the stack below are lost to it.
ExecCall ==
  /\ Executing("CALL")
  /\ LET args == fn.instrs[fixedFrom[pc]].args
     IN lastCall' = <<fixed[pc].f, [i \in DOMAIN args |-> Argument(i)]>>
  /\ \E w \in Word :
       /\ regs' = [r \in Registers |-> IF r = "AX" THEN w ELSE NotWord(w)]
       /\ mem' = [a \in Addresses |-> IF a < rsp THEN NotWord(w) ELSE mem[a]]
  /\ Advance
  /\ UNCHANGED <<flags, rsp>>

ExecRet ==
  /\ Executing("RET")
  /\ status' = "returned"
  /\ result' = regs["AX"]
  /\ UNCHANGED <<regs, flags, mem, rsp, pc, lastCall>>

\* emit_asm prints nothing after the last instruction: control runs into
\* whatever function comes next.
ExecPastEnd ==
  /\ Loaded
  /\ status = "running"
  /\ pc > Len(fixed)
  /\ status' = "fell off"
  /\ saved' = [env |-> IrEnv, call |-> IrLastCall]
  /\ UNCHANGED <<passVars, regs, flags, mem, rsp, pc, result, lastCall>>

Exec == \/ ExecMov \/ ExecUnop \/ ExecBinop \/ ExecCdq \/ ExecIdiv \/ ExecCmp
        \/ ExecSetCC \/ ExecJump \/ ExecBranch \/ ExecLabel \/ ExecAlloc
        \/ ExecDeallocate \/ ExecPush \/ ExecCall \/ ExecRet \/ ExecPastEnd

Compile == Pass /\ UNCHANGED machineVars

Stopped == status # "running" /\ UNCHANGED allVars

MachineNext == Compile \/ Exec \/ Stopped

MachineSpec == MachineInit /\ [][MachineNext]_allVars

-----------------------------------------------------------------------------
(* Properties *)

\* The emitted code does what the IR says: the same calls with the same
\* argument values in the same order, the same branches, the same variable
\* values between instructions and the same result (codegen_instr,
\* rename_registers and allocate_stack together).
ImplementsIr == Abstract!IrSpec

\* The System V ABI: %rsp is a multiple of 16 whenever a call is executed
\* (the padding of codegen_instr and the frame rounding of allocate_stack).
AlignedAtCalls ==
  (Loaded /\ status = "running" /\ pc <= Len(fixed) /\ fixed[pc].kind = "CALL")
     => rsp % 16 = 0

\* A call gives back exactly what it pushed and padded: between two IR
\* instructions %rsp is always at the bottom of the frame (codegen_instr).
StackBalanced == AtBoundary => rsp = -Frame(opmap.stack_offset)

\* A variable that will still be read is never below %rsp, where a callee or
\* a push may overwrite it (allocate_stack reserves the whole frame).
SlotsStayReserved ==
  (Loaded /\ status = "running" /\ pc > 1) =>
     \A x \in DOMAIN opmap.slot : opmap.slot[x] >= rsp
=============================================================================
