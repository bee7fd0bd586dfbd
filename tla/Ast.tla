-------------------------------- MODULE Ast --------------------------------
(***************************************************************************)
(* The syntax tree the parser builds (src/parser/ast.h, ast.c).  A nullable *)
(* part is a sequence of length 0 or 1.  A block is a sequence of           *)
(* declarations and statements, a program of declarations.                  *)
(*                                                                         *)
(* A name is a tuple, so that the names the compiler makes up compare with  *)
(* the names in the source: <<"x">> is the source identifier x,             *)
(* <<"x", ".", 3>> is x.3, <<"label", "_", 5>> is label_5.                  *)
(***************************************************************************)
EXTENDS Integers, Sequences

Int_(n) == [kind |-> "INT", value |-> n]
Var(x) == [kind |-> "VAR", id |-> x]
Unop(op, e) == [kind |-> "UNOP", op |-> op, operand |-> e]
Binop(op, l, r) == [kind |-> "BINOP", op |-> op, lhs |-> l, rhs |-> r]
AssignTo(op, l, r) == [kind |-> "ASSIGN", op |-> op, lhs |-> l, rhs |-> r]
Conditional(c, a, b) == [kind |-> "CONDITIONAL", lhs |-> c, mid |-> a, rhs |-> b]
CallOf(f, args) == [kind |-> "CALL", id |-> f, args |-> args]

Return(e) == [kind |-> "RETURN", exp |-> e]
ExpStmt(e) == [kind |-> "EXP", exp |-> e]
If(c, t, else) == [kind |-> "IF", cond |-> c, then_br |-> t, else_br |-> else]
Compound(block) == [kind |-> "COMPOUND", block |-> block]
\* init is a declaration or InitExp.
For(init, cond, post, body) ==
  [kind |-> "FOR", label |-> <<>>, init |-> init, cond |-> cond, post |-> post, body |-> body]
While(c, body) == [kind |-> "WHILE", label |-> <<>>, cond |-> c, body |-> body]
DoWhile(body, c) == [kind |-> "DO_WHILE", label |-> <<>>, cond |-> c, body |-> body]
Break == [kind |-> "BREAK", label |-> <<>>]
Continue == [kind |-> "CONTINUE", label |-> <<>>]
LabelStmt(l) == [kind |-> "LABEL", id |-> l]
Goto(l) == [kind |-> "GOTO", target |-> l]
\* A clause is [default |-> a Boolean, value |-> an integer, body |-> a block].
Switch(c, clauses) == [kind |-> "SWITCH", label |-> <<>>, cond |-> c, clauses |-> clauses]

\* The first part of a for that is not a declaration: a nullable expression.
InitExp(opt) == [kind |-> "EXP", exp |-> opt]

VarDecl(x, init, storage) == [kind |-> "DECL", id |-> x, init |-> init, storage |-> storage]
\* The body is nullable; a parameter of a prototype may have no name, <<>>.
Function(f, params, body) == [kind |-> "FUNC", id |-> f, params |-> params, body |-> body]

Loops == {"FOR", "WHILE", "DO_WHILE"}
IsDeclaration(item) == item.kind \in {"DECL", "FUNC"}
=============================================================================
