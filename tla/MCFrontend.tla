----------------------------- MODULE MCFrontend -----------------------------
(***************************************************************************)
(* Programs whose texts the front end reads back, and texts that are mostly *)
(* not programs.                                                            *)
(***************************************************************************)
EXTENDS Frontend

A == Var(<<"a">>)
B == Var(<<"b">>)
C == Var(<<"c">>)
D == Var(<<"d">>)
DoA == ExpStmt(A)

-----------------------------------------------------------------------------
(* Every operator inside every other, in every place; one operator of each  *)
(* tier between two others.                                                 *)

Binaries == UNION {BinaryTiers[k] : k \in DOMAIN BinaryTiers}
Unaries == {"NEG", "NOT", "COMP"}
AssignOps == {"NOP", "ADD", "SUB", "MUL", "DIV", "MOD", "AND", "OR", "XOR", "LSHIFT", "RSHIFT"}

Inners ==
  {Binop(op, A, B) : op \in Binaries} \cup {Unop(op, A) : op \in DOMAIN Sign \ (Binaries \cup {"NOP"})}
    \cup {AssignTo(op, A, B) : op \in {"NOP", "RSHIFT"}}
    \cup {Conditional(A, B, C), CallOf(<<"f">>, <<A, Int_(1)>>), CallOf(<<"f">>, <<>>), Int_(10)}

Around(e) ==
  {Binop(op, e, D) : op \in Binaries} \cup {Binop(op, D, e) : op \in Binaries}
    \cup {Unop(op, e) : op \in Unaries} \cup {AssignTo(op, D, e) : op \in AssignOps}
    \cup {AssignTo("NOP", e, D), Conditional(e, C, D), Conditional(C, e, D), Conditional(C, D, e),
          CallOf(<<"f">>, <<e, D>>)}

OneOfEachTier == {CHOOSE op \in BinaryTiers[k] : TRUE : k \in DOMAIN BinaryTiers}
Middles == {Binop(op, Binop(l, A, B), Binop(r, C, D)) : op \in OneOfEachTier, l \in OneOfEachTier, r \in OneOfEachTier}

Global(e) == <<VarDecl(<<"x">>, <<e>>, "AUTO")>>
ExpressionPrograms == {Global(e) : e \in UNION {Around(i) : i \in Inners} \cup Middles}

-----------------------------------------------------------------------------
(* Statements in one another and declarations *)

Simple == {DoA, Return(B), Break, Continue, Goto(<<"l">>), LabelStmt(<<"l">>), Compound(<<>>)}
Case(n, body) == [default |-> FALSE, value |-> n, body |-> body]
Default(body) == [default |-> TRUE, value |-> 0, body |-> body]
Local == VarDecl(<<"y">>, <<>>, "STATIC")

ForParts == {InitExp(<<>>), InitExp(<<A>>), VarDecl(<<"i">>, <<A>>, "AUTO"), VarDecl(<<"i">>, <<>>, "AUTO")}
Holding(s) ==
  {If(A, s, <<>>), If(A, s, <<DoA>>), If(A, DoA, <<s>>), While(A, s), DoWhile(s, A),
   Compound(<<s, Local, DoA>>),
   Switch(A, <<Case(0, <<s, DoA>>), Default(<<>>), Case(1, <<s>>)>>), Switch(A, <<>>)}
  \cup {For(InitExp(<<>>), <<>>, <<>>, s), For(VarDecl(<<"i">>, <<A>>, "AUTO"), <<B>>, <<C>>, s)}
Fors == {For(init, cond, post, DoA) : init \in ForParts, cond \in {<<>>, <<B>>}, post \in {<<>>, <<C>>}}

\* An else after such a statement would belong to an if inside it.
RECURSIVE TakesElse(_)
TakesElse(s) ==
  CASE s.kind = "IF" -> s.else_br = <<>> \/ TakesElse(s.else_br[1])
    [] s.kind \in {"WHILE", "FOR"} -> TakesElse(s.body)
    [] OTHER -> FALSE

\* No else of the tree is written where another if would take it.
RECURSIVE Writable(_)
Writable(s) ==
  CASE s.kind = "IF" -> /\ s.else_br # <<>> => ~TakesElse(s.then_br) /\ Writable(s.else_br[1])
                        /\ Writable(s.then_br)
    [] s.kind \in {"WHILE", "FOR", "DO_WHILE"} -> Writable(s.body)
    [] OTHER -> TRUE

InFunction(items) == <<Function(<<"g">>, <<<<"p">>, <<"q">>>>, <<items>>)>>
StatementPrograms ==
  LET once == UNION {Holding(s) : s \in Simple}
      twice == UNION {Holding(s) : s \in Holding(DoA)}
  IN {InFunction(<<s, DoA>>) : s \in {t \in once \cup twice \cup Fors : Writable(t)}}

DeclarationPrograms ==
  {<<VarDecl(<<"x">>, init, storage), Function(<<"f">>, params, <<>>), Function(<<"g">>, <<>>, <<<<Local>>>>)>> :
     init \in {<<>>, <<A>>}, storage \in {"AUTO", "STATIC", "EXTERN"},
     params \in {<<>>, <<<<>>>>, <<<<"p">>, <<>>>>, <<<<>>, <<"p">>, <<"q">>>>}}

MCWritten == ExpressionPrograms \cup StatementPrograms \cup DeclarationPrograms

-----------------------------------------------------------------------------
(* Arbitrary texts *)

Glued(parts) == FoldLeft(LAMBDA s, p : s \o p, "", parts)
Soups(S, n) == {Glued(s) : s \in UNION {[1 .. k -> S] : k \in 0 .. n}}

Characters == Soups({"+", "-", "=", "<", ">", "&", "a", "1", " ", "@"}, 3) \cup Soups({"+", "=", "<", ">", "&", "|"}, 4)
Literals == {"int x=" \o n \o ";" : n \in {"0", "007", "127", "128", "255", "256", "1000"}}
Initialisers == {"int x=" \o start \o s \o ";" : start \in {"", "a?", "(a"},
  s \in Soups({"a ", "1 ", "( ", ") ", "- ", "++ ", "= ", "? ", ": ", "== ", ", "}, 3)}
Bodies == {"int f(void){" \o s \o "}" :
  s \in Soups({"if(a)", "else ", "a;", ";", "{", "}", "do ", "while(a)", "l:"}, 3)}
Switches == {"int f(void){switch(a){" \o s \o "}}" :
  s \in Soups({"case 1:", "case a:", "default:", "a;", "break ", ";"}, 3)}

MCTexts == Characters \cup Literals \cup Initialisers \cup Bodies \cup Switches

\* An operator that is not a unary one where an operand should be, and a text
\* that ends too early.
MalformedTexts == {"int x=++(y);", "int x=1+*y;", "int f(void){return 1", "int x=1"}
=============================================================================
