------------------------------ MODULE IrRules ------------------------------
(***************************************************************************)
(* What emit_ir promises of a function beyond the shape of its              *)
(* instructions.  Translation checks that lowering keeps it; X86Machine     *)
(* relies on it.                                                            *)
(***************************************************************************)
EXTENDS Ir, Words, Functions

\* The values an instruction reads.
Values(i) ==
  CASE i.kind = "RETURN" -> {i.val}
    [] i.kind \in {"UNOP", "COPY"} -> {i.src}
    [] i.kind = "BINOP" -> {i.lhs, i.rhs}
    [] i.kind \in {"JUMP_ZERO", "JUMP_NOT_ZERO"} -> {i.cond}
    [] i.kind = "FUNCALL" -> Range(i.args)
    [] OTHER -> {}

\* A constant is an int; the result of an operator goes to a new temporary, or
\* to the left operand for `x op= e`, so that the code, which starts with
\* `movl lhs, dst`, never overwrites the right operand; no label is placed twice.
IrContract(f) ==
  /\ \A i \in Range(f.instrs) : \A v \in Values(i) : v.kind = "CONSTANT" => v.int_val \in Word
  /\ \A i \in Range(f.instrs) :
       (i.kind = "BINOP" /\ i.op \notin {"DIV", "MOD"} \cup IrRelations /\ i.rhs = i.dst) => i.lhs = i.dst
  /\ \A k, l \in 1 .. Len(f.instrs) :
       (f.instrs[k].kind = "LABEL" /\ f.instrs[k] = f.instrs[l]) => k = l
=============================================================================
