-------------------------------- MODULE X86 --------------------------------
(***************************************************************************)
(* The assembly AST (src/codegen/x86/x86_ast.h and its constructors) and    *)
(* which of its instructions the assembler accepts once emit.c has printed  *)
(* them.  An instruction list is a sequence.                                *)
(***************************************************************************)
EXTENDS Integers, Sequences

Reg(r) == [kind |-> "REG", reg |-> r]
Imm(n) == [kind |-> "IMM", imm |-> n]
Id(x) == [kind |-> "ID", id |-> x]
Stack(o) == [kind |-> "STACK", stack |-> o]

\* x86_Reg; the first six argument values travel in ArgRegisters, in order.
Registers == {"AX", "DI", "SI", "DX", "CX", "R8", "R9", "R10", "R11"}
ArgRegisters == <<"DI", "SI", "DX", "CX", "R8", "R9">>

Mov(dst, src) == [kind |-> "MOV", dst |-> dst, src |-> src]
Ret == [kind |-> "RET"]
Alloc(size) == [kind |-> "ALLOC", size |-> size]
Unary(unop, operand) == [kind |-> "UNOP", unop |-> unop, operand |-> operand]
Binary(optype, rhs, dst) ==
  [kind |-> "BINOP", optype |-> optype, rhs |-> rhs, dst |-> dst]
Idiv(operand) == [kind |-> "IDIV", operand |-> operand]
Cdq == [kind |-> "CDQ"]
Cmp(lhs, rhs) == [kind |-> "CMP", lhs |-> lhs, rhs |-> rhs]
Jmp(target) == [kind |-> "JMP", target |-> target]
JmpCC(cond, target) == [kind |-> "JMPCC", cond |-> cond, target |-> target]
SetCC(cond, op) == [kind |-> "SETCC", cond |-> cond, op |-> op]
Label(id) == [kind |-> "LABEL", id |-> id]
Deallocate(val) == [kind |-> "DEALLOCATE", val |-> val]
Push(operand) == [kind |-> "PUSH", operand |-> operand]
Call(f) == [kind |-> "CALL", f |-> f]

X86Operands(Ids) ==
  [kind : {"REG"}, reg : Registers] \cup [kind : {"IMM"}, imm : Int]
    \cup [kind : {"ID"}, id : Ids] \cup [kind : {"STACK"}, stack : Int]

ConditionCodes == {"E", "NE", "L", "LE", "G", "GE"}
X86Binops == {"ADD", "SUB", "MUL", "AND", "OR", "XOR", "LSHIFT", "RSHIFT"}

X86Instructions(Ids) ==
  LET Op == X86Operands(Ids)
  IN [kind : {"MOV"}, dst : Op, src : Op]
       \cup [kind : {"RET", "CDQ"}]
       \cup [kind : {"ALLOC"}, size : Int]
       \cup [kind : {"UNOP"}, unop : {"NEG", "COMP"}, operand : Op]
       \cup [kind : {"BINOP"}, optype : X86Binops, rhs : Op, dst : Op]
       \cup [kind : {"IDIV", "PUSH"}, operand : Op]
       \cup [kind : {"CMP"}, lhs : Op, rhs : Op]
       \cup [kind : {"JMP"}, target : STRING]
       \cup [kind : {"JMPCC"}, cond : ConditionCodes, target : STRING]
       \cup [kind : {"SETCC"}, cond : ConditionCodes, op : Op]
       \cup [kind : {"LABEL"}, id : STRING]
       \cup [kind : {"DEALLOCATE"}, val : Int]
       \cup [kind : {"CALL"}, f : STRING]

\* The operand fields of each kind, in the order rename_registers visits them.
OperandFields(instr) ==
  CASE instr.kind = "MOV" -> <<"dst", "src">>
    [] instr.kind = "BINOP" -> <<"rhs", "dst">>
    [] instr.kind = "CMP" -> <<"lhs", "rhs">>
    [] instr.kind \in {"UNOP", "IDIV", "PUSH"} -> <<"operand">>
    [] instr.kind = "SETCC" -> <<"op">>
    [] OTHER -> <<>>

Operands(instr) ==
  LET fields == OperandFields(instr) IN {instr[fields[k]] : k \in DOMAIN fields}

InMemory(op) == op.kind = "STACK"

\* What the hardware can encode, as the assembler that is handed the emitted
\* text demands it: no pseudo-register is left; at most one operand is in
\* memory; an immediate is only ever a source; imull writes a register; idivl
\* takes no immediate; a shift amount is an immediate (or %cl, never used).
Encodable(instr) ==
  /\ \A op \in Operands(instr) : op.kind # "ID"
  /\ instr.kind = "MOV" =>
       /\ instr.dst.kind # "IMM"
       /\ ~(InMemory(instr.dst) /\ InMemory(instr.src))
  /\ instr.kind = "BINOP" =>
       /\ instr.dst.kind # "IMM"
       /\ ~(InMemory(instr.dst) /\ InMemory(instr.rhs))
       /\ instr.optype = "MUL" => instr.dst.kind = "REG"
       /\ instr.optype \in {"LSHIFT", "RSHIFT"} => instr.rhs.kind = "IMM"
  /\ instr.kind = "CMP" =>
       /\ instr.rhs.kind # "IMM"
       /\ ~(InMemory(instr.lhs) /\ InMemory(instr.rhs))
  /\ instr.kind \in {"UNOP", "IDIV"} => instr.operand.kind # "IMM"
  /\ instr.kind = "SETCC" => instr.op.kind # "IMM"
=============================================================================
