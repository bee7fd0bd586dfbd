--------------------------------- MODULE Ir ---------------------------------
(***************************************************************************)
(* The three-address intermediate representation (src/ir/ir.h, the          *)
(* constructors of src/ir/ir.c): what emit_ir produces and codegen consumes.*)
(***************************************************************************)
EXTENDS Integers, Sequences

IrConstant(n) == [kind |-> "CONSTANT", int_val |-> n]
IrVariable(x) == [kind |-> "VARIABLE", id |-> x]

IrReturn(val) == [kind |-> "RETURN", val |-> val]
IrUnop(op, src, dst) == [kind |-> "UNOP", op |-> op, src |-> src, dst |-> dst]
IrBinop(op, lhs, rhs, dst) ==
  [kind |-> "BINOP", op |-> op, lhs |-> lhs, rhs |-> rhs, dst |-> dst]
IrCopy(src, dst) == [kind |-> "COPY", src |-> src, dst |-> dst]
IrJump(target) == [kind |-> "JUMP", target |-> target]
IrJumpZero(cond, target) ==
  [kind |-> "JUMP_ZERO", cond |-> cond, target |-> target]
IrJumpNotZero(cond, target) ==
  [kind |-> "JUMP_NOT_ZERO", cond |-> cond, target |-> target]
IrLabel(id) == [kind |-> "LABEL", id |-> id]
IrFuncall(f, args, dst) ==
  [kind |-> "FUNCALL", f |-> f, args |-> args, dst |-> dst]

IrUnops == {"COMP", "NEG", "NOT"}
IrRelations == {"EQ", "NEQ", "LESS", "GREATER", "LEQ", "GEQ"}

\* The binary operators an instruction can hold: emit_ir_short_circuit lowers
\* && and || to jumps.
IrBinops == IrRelations \cup
  {"ADD", "SUB", "MUL", "DIV", "MOD", "AND", "OR", "XOR", "LSHIFT", "RSHIFT"}

IrVariables(Ids) == [kind : {"VARIABLE"}, id : Ids]
IrValues(Ids) == IrVariables(Ids) \cup [kind : {"CONSTANT"}, int_val : Int]

\* An instruction writes variables only.
IrInstructions(Ids) ==
  LET Val == IrValues(Ids)
      Var == IrVariables(Ids)
  IN [kind : {"RETURN"}, val : Val]
       \cup [kind : {"UNOP"}, op : IrUnops, src : Val, dst : Var]
       \cup [kind : {"BINOP"}, op : IrBinops, lhs : Val, rhs : Val, dst : Var]
       \cup [kind : {"COPY"}, src : Val, dst : Var]
       \cup [kind : {"JUMP"}, target : STRING]
       \cup [kind : {"JUMP_ZERO", "JUMP_NOT_ZERO"}, cond : Val, target : STRING]
       \cup [kind : {"LABEL"}, id : STRING]
       \cup [kind : {"FUNCALL"}, f : STRING, args : Seq(Val), dst : Var]

\* Where a jump to l lands: the position of the label, 0 when there is none.
LabelIndex(instrs, l) ==
  LET at == {i \in 1 .. Len(instrs) : instrs[i] = IrLabel(l)}
  IN IF at = {} THEN 0 ELSE CHOOSE i \in at : \A j \in at : i <= j
=============================================================================
