------------------------------ MODULE Backend ------------------------------
(***************************************************************************)
(* The back end of tinyC on one function (src/codegen/codegen.c):           *)
(* codegen_function turns IR into assembly over pseudo-registers,           *)
(* rename_registers gives every pseudo-register a stack slot, and           *)
(* allocate_stack rewrites what the hardware cannot encode and reserves the *)
(* frame.  Each pass is a loop over an instruction list; an action is one   *)
(* iteration of it.                                                         *)
(***************************************************************************)
EXTENDS Ir, X86, Functions

CONSTANTS Ids,              \* names of variables
          IrFunctions,      \* the functions that may be compiled
          InitialCapacity   \* entries the operand map is created with (128)

ASSUME FunctionsAssumption ==
  IrFunctions \subseteq [params : Seq(Ids), instrs : Seq(IrInstructions(Ids))]

ASSUME CapacityAssumption == InitialCapacity \in Nat \ {0}

VARIABLES
  fn,        \* the function: params (a sequence of names) and instrs (IR)
  phase,     \* the pass that is running; "call" is codegen inside the
             \* expansion of one call (codegen_instr, IR_FUNCALL)
  pos,       \* index of the pass in the list it walks
  arg,       \* the argument the push loop of that expansion is at
  code,      \* the list codegen_function builds, then rename_registers edits
  opmap,     \* the OperandMap of rename_registers
  fixed,     \* the list allocate_stack builds
  depth,     \* history: bytes the call expansion has taken off %rsp so far
  from,      \* history: the IR instruction each element of code comes from
  fixedFrom  \* history: the same for fixed; 0 is the prologue

passVars == <<fn, phase, pos, arg, code, opmap, fixed, depth, from, fixedFrom>>

EmptyMap(capacity) ==
  [slot |-> [x \in {} |-> 0], stack_offset |-> 0, size |-> 0, capacity |-> capacity]

Init ==
  /\ fn \in IrFunctions
  /\ phase = "params"
  /\ pos = 1
  /\ arg = 0
  /\ code = <<>>
  /\ opmap = EmptyMap(InitialCapacity)
  /\ fixed = <<>>
  /\ depth = 0
  /\ from = <<>>
  /\ fixedFrom = <<>>

-----------------------------------------------------------------------------
(* Pass 1: codegen_function *)

CodegenVal(v) == IF v.kind = "CONSTANT" THEN Imm(v.int_val) ELSE Id(v.id)

\* Variant: the conditions of the operands the other way round.
ConditionCode_Swapped(op) ==
  [EQ |-> "E", NEQ |-> "NE", LESS |-> "G", GREATER |-> "L", LEQ |-> "GE", GEQ |-> "LE"][op]

ConditionCode(op) ==
  [EQ |-> "E", NEQ |-> "NE", LESS |-> "L", GREATER |-> "G", LEQ |-> "LE", GEQ |-> "GE"][op]

CodegenReturn(i) == <<Mov(Reg("AX"), CodegenVal(i.val)), Ret>>

\* Variant: `!` treated like the operators that have an instruction.
CodegenUnop_NoNot(i) == <<Mov(CodegenVal(i.dst), CodegenVal(i.src)), Unary(i.op, CodegenVal(i.dst))>>

CodegenUnop(i) ==
  LET src == CodegenVal(i.src)
      dst == CodegenVal(i.dst)
  IN IF i.op = "NOT"
       THEN <<Cmp(src, Imm(0)), Mov(dst, Imm(0)), SetCC("E", dst)>>
       ELSE <<Mov(dst, src), Unary(i.op, dst)>>

\* idivl leaves the quotient in %eax and the remainder in %edx.
CodegenBinop(i) ==
  LET lhs == CodegenVal(i.lhs)
      rhs == CodegenVal(i.rhs)
      dst == CodegenVal(i.dst)
      Divide(answer) == <<Mov(Reg("AX"), lhs), Cdq, Idiv(rhs), Mov(dst, Reg(answer))>>
  IN CASE i.op = "DIV" -> Divide("AX")
       [] i.op = "MOD" -> Divide("DX")
       [] i.op \in IrRelations ->
            <<Cmp(rhs, lhs), Mov(dst, Imm(0)), SetCC(ConditionCode(i.op), dst)>>
       [] OTHER -> <<Mov(dst, lhs), Binary(i.op, rhs, dst)>>

CodegenInstr(i) ==
  CASE i.kind = "RETURN" -> CodegenReturn(i)
    [] i.kind = "UNOP" -> CodegenUnop(i)
    [] i.kind = "BINOP" -> CodegenBinop(i)
    [] i.kind = "JUMP" -> <<Jmp(i.target)>>
    [] i.kind = "JUMP_ZERO" -> <<Cmp(Imm(0), CodegenVal(i.cond)), JmpCC("E", i.target)>>
    [] i.kind = "JUMP_NOT_ZERO" -> <<Cmp(Imm(0), CodegenVal(i.cond)), JmpCC("NE", i.target)>>
    [] i.kind = "COPY" -> <<Mov(CodegenVal(i.dst), CodegenVal(i.src))>>
    [] i.kind = "LABEL" -> <<Label(i.id)>>

Emit(instrs, origin) ==
  /\ code' = code \o instrs
  /\ from' = from \o [k \in 1 .. Len(instrs) |-> origin]

\* A parameter is copied from its register, or from above the caller's saved
\* %rbp and the return address, into its own pseudo-register.
ParamSource(i) ==
  IF i <= Len(ArgRegisters) THEN Reg(ArgRegisters[i])
                            ELSE Stack(16 + 8 * (i - Len(ArgRegisters) - 1))

SaveParams ==
  /\ phase = "params"
  /\ Emit([i \in 1 .. Len(fn.params) |-> Mov(Id(fn.params[i]), ParamSource(i))], 0)
  /\ phase' = "codegen"
  /\ UNCHANGED <<fn, pos, arg, opmap, fixed, depth, fixedFrom>>

AtInstr == phase = "codegen" /\ pos <= Len(fn.instrs)

GenInstr ==
  /\ AtInstr
  /\ fn.instrs[pos].kind # "FUNCALL"
  /\ Emit(CodegenInstr(fn.instrs[pos]), pos)
  /\ pos' = pos + 1
  /\ UNCHANGED <<fn, phase, arg, opmap, fixed, depth, fixedFrom>>

StackArgs(args) == IF Len(args) > Len(ArgRegisters) THEN Len(args) - Len(ArgRegisters) ELSE 0
Padding_Odd(args) == IF StackArgs(args) % 2 = 1 THEN 0 ELSE 8   \* variant: parity mixed up
Padding(args) == IF StackArgs(args) % 2 = 0 THEN 0 ELSE 8
AllocIfAny(bytes) == IF bytes # 0 THEN <<Alloc(bytes)>> ELSE <<>>
DeallocateIfAny(bytes) == IF bytes # 0 THEN <<Deallocate(bytes)>> ELSE <<>>

RegisterMoves(args) ==
  [k \in 1 .. Len(args) - StackArgs(args) |-> Mov(Reg(ArgRegisters[k]), CodegenVal(args[k]))]

CallBegin ==
  /\ AtInstr
  /\ fn.instrs[pos].kind = "FUNCALL"
  /\ LET args == fn.instrs[pos].args
     IN /\ Emit(AllocIfAny(Padding(args)) \o RegisterMoves(args), pos)
        /\ depth' = depth + Padding(args)
        /\ arg' = Len(args)
  /\ phase' = "call"
  /\ UNCHANGED <<fn, pos, opmap, fixed, fixedFrom>>

PushArg(v) ==
  IF v.kind = "CONSTANT" THEN <<Push(CodegenVal(v))>>
                         ELSE <<Mov(Reg("AX"), CodegenVal(v)), Push(Reg("AX"))>>

\* Variant: the first stack argument is pushed first.
CallPush_Forward ==
  /\ phase = "call"
  /\ arg > Len(ArgRegisters)
  /\ LET args == fn.instrs[pos].args
     IN Emit(PushArg(args[Len(args) + Len(ArgRegisters) + 1 - arg]), pos)
  /\ depth' = depth + 8
  /\ arg' = arg - 1
  /\ UNCHANGED <<fn, phase, pos, opmap, fixed, fixedFrom>>

\* The last argument is pushed first.
CallPush ==
  /\ phase = "call"
  /\ arg > Len(ArgRegisters)
  /\ Emit(PushArg(fn.instrs[pos].args[arg]), pos)
  /\ depth' = depth + 8
  /\ arg' = arg - 1
  /\ UNCHANGED <<fn, phase, pos, opmap, fixed, fixedFrom>>

BytesToRemove_NoPadding(args) == 8 * StackArgs(args)   \* variant: the padding stays
BytesToRemove(args) == 8 * StackArgs(args) + Padding(args)

CallFinish ==
  /\ phase = "call"
  /\ arg <= Len(ArgRegisters)
  /\ LET i == fn.instrs[pos]
     IN /\ Emit(<<Call(i.f)>> \o DeallocateIfAny(BytesToRemove(i.args))
                              \o <<Mov(CodegenVal(i.dst), Reg("AX"))>>, pos)
        /\ depth' = depth - BytesToRemove(i.args)
  /\ phase' = "codegen"
  /\ pos' = pos + 1
  /\ UNCHANGED <<fn, arg, opmap, fixed, fixedFrom>>

EndCodegen ==
  /\ phase = "codegen"
  /\ pos > Len(fn.instrs)
  /\ phase' = "rename"
  /\ pos' = 1
  /\ UNCHANGED <<fn, arg, code, opmap, fixed, depth, from, fixedFrom>>

-----------------------------------------------------------------------------
(* Pass 2: rename_registers *)

\* Variants: the offset is handed out before it is lowered; the map is not
\* searched first.
Put_BeforeDecrement(m, op) ==
  IF op.kind # "ID" \/ op.id \in DOMAIN m.slot THEN m
  ELSE [m EXCEPT !.slot = [x \in DOMAIN @ \cup {op.id} |-> IF x = op.id THEN m.stack_offset ELSE @[x]],
                 !.stack_offset = @ - 4]
Put_NoGet(m, op) ==
  IF op.kind # "ID" THEN m
  ELSE [m EXCEPT !.slot = [x \in DOMAIN @ \cup {op.id} |-> IF x = op.id THEN m.stack_offset - 4 ELSE @[x]],
                 !.stack_offset = @ - 4]

\* operand_map_put: the first occurrence of a pseudo-register gets the next
\* four bytes below the ones handed out so far; a full map is doubled first.
Put(m, op) ==
  IF op.kind # "ID" \/ op.id \in DOMAIN m.slot THEN m
  ELSE [slot |-> [x \in DOMAIN m.slot \cup {op.id} |->
                    IF x = op.id THEN m.stack_offset - 4 ELSE m.slot[x]],
        stack_offset |-> m.stack_offset - 4,
        size |-> m.size + 1,
        capacity |-> IF m.size = m.capacity THEN 2 * m.capacity ELSE m.capacity]

Renamed(m, op) == IF op.kind = "ID" THEN Stack(m.slot[op.id]) ELSE op

PutOperands(m, instr) ==
  LET fields == OperandFields(instr)
  IN CASE Len(fields) = 0 -> m
       [] Len(fields) = 1 -> Put(m, instr[fields[1]])
       [] Len(fields) = 2 -> Put(Put(m, instr[fields[1]]), instr[fields[2]])

RenameOperands(m, instr) ==
  [f \in DOMAIN instr |->
     IF f \in Range(OperandFields(instr)) THEN Renamed(m, instr[f]) ELSE instr[f]]

RenameInstr ==
  /\ phase = "rename"
  /\ pos <= Len(code)
  /\ opmap' = PutOperands(opmap, code[pos])
  /\ code' = [code EXCEPT ![pos] = RenameOperands(opmap', @)]
  /\ pos' = pos + 1
  /\ UNCHANGED <<fn, phase, arg, fixed, depth, from, fixedFrom>>

EndRename ==
  /\ phase = "rename"
  /\ pos > Len(code)
  /\ phase' = "fixup"
  /\ pos' = 1
  /\ UNCHANGED <<fn, arg, code, opmap, fixed, depth, from, fixedFrom>>

-----------------------------------------------------------------------------
(* Pass 3: allocate_stack *)

\* Variant: only mov and cmp of two memory operands are rewritten.
Fix_MemoryOnly(instr) ==
  CASE instr.kind = "MOV" /\ InMemory(instr.src) /\ InMemory(instr.dst) ->
         <<Mov(Reg("R10"), instr.src), Mov(instr.dst, Reg("R10"))>>
    [] instr.kind = "CMP" /\ InMemory(instr.lhs) /\ InMemory(instr.rhs) ->
         <<Mov(Reg("R10"), instr.lhs), Cmp(Reg("R10"), instr.rhs)>>
    [] OTHER -> <<instr>>

Fix(instr) ==
  CASE instr.kind = "MOV" /\ InMemory(instr.src) /\ InMemory(instr.dst) ->
         <<Mov(Reg("R10"), instr.src), Mov(instr.dst, Reg("R10"))>>
    [] instr.kind = "BINOP" /\ instr.optype = "MUL" /\ InMemory(instr.dst) ->
         <<Mov(Reg("R11"), instr.dst), Binary("MUL", instr.rhs, Reg("R11")),
           Mov(instr.dst, Reg("R11"))>>
    [] instr.kind = "BINOP" /\ instr.optype # "MUL"
                            /\ InMemory(instr.dst) /\ InMemory(instr.rhs) ->
         <<Mov(Reg("R10"), instr.rhs), Binary(instr.optype, Reg("R10"), instr.dst)>>
    [] instr.kind = "CMP" /\ InMemory(instr.lhs) /\ InMemory(instr.rhs) ->
         <<Mov(Reg("R10"), instr.lhs), Cmp(Reg("R10"), instr.rhs)>>
    [] instr.kind = "CMP" /\ instr.rhs.kind = "IMM" ->
         <<Mov(Reg("R11"), instr.rhs), Cmp(instr.lhs, Reg("R11"))>>
    [] OTHER -> <<instr>>

FixInstr ==
  /\ phase = "fixup"
  /\ pos <= Len(code)
  /\ fixed' = fixed \o Fix(code[pos])
  /\ fixedFrom' = fixedFrom \o [k \in 1 .. Len(Fix(code[pos])) |-> from[pos]]
  /\ pos' = pos + 1
  /\ UNCHANGED <<fn, phase, arg, code, opmap, depth, from>>

Frame_RoundDown(stack_offset) == 16 * ((-stack_offset) \div 16)   \* variant: + 15 forgotten

\* Bytes the slots take, rounded up to a multiple of 16.
Frame(stack_offset) == 16 * ((15 - stack_offset) \div 16)

InsertFrame ==
  /\ phase = "fixup"
  /\ pos > Len(code)
  /\ LET alloc == AllocIfAny(Frame(opmap.stack_offset))
     IN /\ fixed' = alloc \o fixed
        /\ fixedFrom' = [k \in 1 .. Len(alloc) |-> 0] \o fixedFrom
  /\ phase' = "done"
  /\ UNCHANGED <<fn, pos, arg, code, opmap, depth, from>>

-----------------------------------------------------------------------------
Pass == \/ SaveParams \/ GenInstr \/ CallBegin \/ CallPush \/ CallFinish \/ EndCodegen
        \/ RenameInstr \/ EndRename \/ FixInstr \/ InsertFrame

\* The passes have run: emit_asm prints fixed.
Compiled == phase = "done" /\ UNCHANGED passVars

Next == Pass \/ Compiled

Spec == Init /\ [][Next]_passVars

-----------------------------------------------------------------------------
(* Properties *)

TypeOK ==
  /\ fn \in IrFunctions
  /\ phase \in {"params", "codegen", "call", "rename", "fixup", "done"}
  /\ pos \in Nat \ {0}
  /\ arg \in Nat
  /\ code \in Seq(X86Instructions(Ids))
  /\ fixed \in Seq(X86Instructions(Ids))
  /\ opmap.slot \in [DOMAIN opmap.slot -> Int]
  /\ opmap.stack_offset \in Int
  /\ opmap.size \in Nat
  /\ opmap.capacity \in Nat
  /\ depth \in Int
  /\ from \in Seq(Nat)
  /\ fixedFrom \in Seq(Nat)

\* Two variables never share a byte of stack, every slot is a word of the
\* frame below %rbp, and the entries fit the array operand_map_put writes
\* (operand_map_put, allocate_stack's frame).
SlotsDisjoint ==
  LET slot == opmap.slot
      frame == Frame(opmap.stack_offset)
  IN /\ \A x, y \in DOMAIN slot :
          x # y => slot[x] + 4 <= slot[y] \/ slot[y] + 4 <= slot[x]
     /\ \A x \in DOMAIN slot : slot[x] % 4 = 0 /\ -frame <= slot[x] /\ slot[x] + 4 <= 0
     /\ frame % 16 = 0
     /\ opmap.size <= opmap.capacity

\* A variable keeps the slot of its first occurrence for the whole function
\* (operand_map_get before operand_map_put hands out a new one).
SlotsNeverMove ==
  [][\A x \in DOMAIN opmap.slot :
       x \in DOMAIN opmap'.slot /\ opmap'.slot[x] = opmap.slot[x]]_passVars

\* When the call instruction of an expansion is emitted, the padding and the
\* pushes before it have taken a multiple of 16 bytes, whatever the number of
\* arguments; and after it all of them are given back (codegen_instr).
CallsBalanced ==
  /\ (phase = "call" /\ arg <= Len(ArgRegisters)) => depth % 16 = 0
  /\ phase # "call" => depth = 0

\* Everything emit_asm prints, the assembler accepts (the rewriting done by
\* allocate_stack is enough).
AllEncodable == phase = "done" => \A k \in DOMAIN fixed : Encodable(fixed[k])
=============================================================================
