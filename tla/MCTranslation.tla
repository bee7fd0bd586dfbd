--------------------------- MODULE MCTranslation ---------------------------
(***************************************************************************)
(* Families of source programs.  Variables are x, y, z; f, g and h are      *)
(* functions of 0, 1 and 2 parameters, declared first.                      *)
(***************************************************************************)
EXTENDS Translation

N(name) == <<name>>
X == Var(N("x"))
Y == Var(N("y"))
Z == Var(N("z"))
One == Int_(1)
Set(x, e) == AssignTo("NOP", x, e)
F == CallOf(N("f"), <<>>)
G(a) == CallOf(N("g"), <<a>>)
H(a, b) == CallOf(N("h"), <<a, b>>)
Do(e) == ExpStmt(e)
Auto(name, e) == VarDecl(N(name), <<e>>, "AUTO")

Externals == << Function(N("f"), <<>>, <<>>), Function(N("g"), <<N("a")>>, <<>>),
                Function(N("h"), <<<<>>, <<>>>>, <<>>) >>
Main(params, body) == Function(N("main"), params, <<body>>)
Program(params, body) == Append(Externals, Main(params, body))
XY == <<N("x"), N("y")>>
Case(n, body) == [default |-> FALSE, value |-> n, body |-> body]
Default(body) == [default |-> TRUE, value |-> 0, body |-> body]

-----------------------------------------------------------------------------
(* Expressions: every operator that emit_ir treats differently, on operands *)
(* with and without effects.                                                *)

Plain == {X, Y, One}
Effects == {Unop("POSTINC", X), Unop("PREDEC", Y), Set(X, Y), G(X)}
Atoms == Plain \cup Effects

Simple == {Binop(op, a, b) : op \in {"SUB", "LAND", "LOR"}, a \in Atoms, b \in Atoms}
  \cup {Binop(op, a, b) : op \in {"DIV", "LESS"}, a \in {X, G(X)}, b \in {Y, F}}
  \cup {Unop(op, a) : op \in {"NEG", "NOT", "COMP"}, a \in Atoms}
  \cup {Set(X, a) : a \in Plain \cup {G(X), Set(Y, One)}}
  \cup {H(a, b) : a \in Plain \cup {F, Set(Y, X)}, b \in Plain \cup {G(Y), Unop("POSTINC", Z)}}
Nested == {Binop(op, Binop(inner, a, b), c) : op \in {"LAND", "LOR"}, inner \in {"LAND", "LOR", "ADD"},
             a \in {X, F}, b \in {Y, Unop("POSTINC", Z)}, c \in {G(X), Set(Z, One)}}
  \cup {Conditional(a, b, c) : a \in Plain \cup {F, Unop("PREINC", X)},
          b \in {Y, Set(X, One), G(X)}, c \in {X, Unop("POSTDEC", Y), Conditional(Y, F, One)}}

\* Operands whose order C leaves open must not conflict.
RECURSIVE Uses(_)
RECURSIVE Changes(_)
Parts(e) ==
  CASE e.kind = "UNOP" -> {e.operand}
    [] e.kind \in {"BINOP", "ASSIGN"} -> {e.lhs, e.rhs}
    [] e.kind = "CONDITIONAL" -> {e.lhs, e.mid, e.rhs}
    [] e.kind = "CALL" -> ToSet(e.args)
    [] OTHER -> {}
Uses(e) == IF e.kind = "VAR" THEN {e.id} ELSE UNION {Uses(p) : p \in Parts(e)}
Changes(e) ==
  (CASE e.kind = "ASSIGN" -> {e.lhs.id}
     [] e.kind = "UNOP" /\ e.op \in Prefix \cup Postfix -> {e.operand.id}
     [] OTHER -> {})
  \cup UNION {Changes(p) : p \in Parts(e)}

Apart(a, b) == Changes(a) \cap Uses(b) = {} /\ Changes(b) \cap Uses(a) = {}

RECURSIVE Sequenced(_)
Sequenced(e) ==
  /\ \A p \in Parts(e) : Sequenced(p)
  /\ e.kind = "BINOP" /\ e.op \notin {"LAND", "LOR"} => Apart(e.lhs, e.rhs)
  /\ e.kind = "ASSIGN" => e.lhs.id \notin Changes(e.rhs)
  /\ e.kind = "CALL" => \A i, j \in DOMAIN e.args : i # j => Apart(e.args[i], e.args[j])

\* The value of the expression and what it leaves in the variables, passed to
\* the next call.
Observing(e) == Program(XY, <<Auto("z", One), Auto("r", e), Do(H(X, Y)), Do(H(Z, Var(N("r")))), Return(X)>>)
ExpressionPrograms == {Observing(e) : e \in {s \in Simple \cup Nested : Sequenced(s)}}

\* Every compound assignment as a statement of its own.
CompoundPrograms == {Program(XY, <<Do(AssignTo(op, X, Y)), Return(X)>>) :
                       op \in {"ADD", "SUB", "MUL", "DIV", "MOD", "AND", "OR", "XOR"}}

\* The same name in nested scopes, read after each of them has ended.
Shadowing(inner) == Program(XY, <<Auto("z", X), inner, Do(H(X, Z)), Return(Y)>>)
ShadowPrograms == {Shadowing(s) :
  s \in {Compound(<<Auto("x", e), Do(G(X)), Compound(<<Auto("z", X), Do(Set(Z, Y)), Do(Set(X, Z))>>), Do(H(X, Z))>>)
          : e \in {Y, Z, One}}
        \cup {For(Auto("x", e), <<Unop("POSTDEC", X)>>, <<>>, Compound(<<Auto("x", Z), Do(G(X))>>))
          : e \in {Y, One}}
        \cup {Switch(Y, <<Case(0, <<Auto("z", e), Do(G(Z))>>), Default(<<Do(Set(X, Y))>>)>>) : e \in {X, Y}}}

\* A variable of one clause in the clauses after it, reached by falling into them
\* or by a jump past its initialiser; the block around declares the same name.
Clauses(e) == <<Case(0, <<Auto("z", e), Do(G(Z))>>), Case(1, <<Do(Set(Z, Y)), Do(G(Z))>>)>>
SharingPrograms == {Program(XY, <<Auto("z", One), Switch(s, c), Do(H(X, Z)), Return(Z)>>) :
  s \in {X, F},
  c \in UNION {{Clauses(e) \o <<Default(<<Do(Set(Z, X)), Compound(<<Do(Unop("PREINC", Z)), Do(H(Z, X))>>)>>)>>,
                <<Default(<<Auto("z", e), Break>>), Clauses(e)[2]>>,
                Clauses(e) \o <<Case(2, <<Auto("x", Y), Break>>), Default(<<Do(Set(X, Y)), Do(G(X))>>)>>} : e \in {Y, One}}}

Expressions == ExpressionPrograms \cup CompoundPrograms \cup ShadowPrograms \cup SharingPrograms

\* `y += (x -= 1)` and other uses of the value of a compound assignment.
CompoundValues == {Observing(e) : e \in {AssignTo("ADD", X, Y), AssignTo("SUB", Y, AssignTo("ADD", X, One)),
                                          G(AssignTo("MUL", X, Y))}}

\* A variable with the name the compiler gives to its temporaries.
VariableNamedVar == {Program(<<N("x")>>, <<Auto("var", One), Auto("y", Int_(0)), Do(Set(Y, Unop("NEG", X))),
                                           Do(H(Var(N("var")), Y)), Return(Var(N("var")))>>),
                     Program(<<N("var")>>, <<Do(G(Unop("NEG", Var(N("var"))))), Return(Var(N("var")))>>)}

-----------------------------------------------------------------------------
(* Control flow *)

Jumps == {Break, Continue, Do(G(X)), Return(Y), Goto(N("out"))}

Inner ==
  {If(F, j, <<>>) : j \in Jumps}
    \cup {If(F, j, <<k>>) : j \in Jumps, k \in {Continue, Do(G(One))}}
    \cup {Switch(F, <<Case(0, <<j>>), Case(1, <<Do(G(Y)), k>>)>>) : j \in Jumps, k \in {Break, Continue}}
    \cup {Switch(F, <<Default(<<j>>), Case(1, <<Do(G(Y))>>)>>) : j \in Jumps}

Countdown == Binop("GREATER", Unop("POSTDEC", X), One)
LoopsOver(body) == {
  For(Auto("i", Int_(0)), <<Binop("LESS", Var(N("i")), Int_(2))>>, <<Unop("PREINC", Var(N("i")))>>, body),
  For(InitExp(<<Set(Y, One)>>), <<>>, <<G(Y)>>, Compound(<<If(Unop("NOT", F), Break, <<>>), body>>)),
  While(Countdown, body),
  DoWhile(body, Countdown)}

Outer(s) == Program(XY, <<s, LabelStmt(N("out")), Return(X)>>)
LoopPrograms == {Outer(s) : s \in UNION {LoopsOver(Compound(<<i, Do(G(Y))>>)) : i \in Inner}}
NestedPrograms == {Outer(s) : s \in UNION {LoopsOver(Compound(<<i, j, Do(G(X))>>)) :
    i \in LoopsOver(If(F, Break, <<Continue>>)), j \in {Break, If(F, Continue, <<>>)}}}

\* A goto back, over a declaration, into a loop and into a branch.
GotoPrograms == {
  Program(XY, <<LabelStmt(N("out")), Do(G(X)), If(F, Goto(N("out")), <<>>), Return(X)>>),
  Program(XY, <<Goto(N("in")), Auto("z", One), LabelStmt(N("in")), Do(Set(Z, Y)), Return(Z)>>),
  Program(XY, <<Goto(N("in")), While(F, Compound(<<Do(G(X)), LabelStmt(N("in")), Do(G(Y))>>)), Return(X)>>),
  Program(XY, <<If(X, Goto(N("in")), <<>>),
                If(Y, Do(G(One)), <<Compound(<<LabelStmt(N("in")), Do(G(X))>>)>>), Do(F)>>),
  Program(XY, <<For(InitExp(<<>>), <<F>>, <<>>, Compound(<<Auto("z", One), LabelStmt(N("again")),
                  Do(G(Z)), If(F, Compound(<<Do(Set(Z, Y)), Goto(N("again"))>>), <<>>)>>)), Return(X)>>)}

\* Loops in which nothing is called: only the jumps can make them end.
Quiet == {If(X, j, <<k>>) : j \in {Break, Continue, Goto(N("out"))}, k \in {Continue, Do(Set(Y, X))}}
  \cup {Switch(Y, <<Case(0, <<Do(Set(Y, One)), j>>), Default(<<Continue>>)>>) : j \in {Break, Continue}}
QuietLoops(body) == {
  For(Auto("i", Int_(0)), <<Binop("LESS", Var(N("i")), Int_(2))>>, <<Unop("PREINC", Var(N("i")))>>, body),
  While(Countdown, body),
  DoWhile(body, Countdown)}
QuietPrograms == {Program(XY, <<s, LabelStmt(N("out")), Do(H(X, Y)), Return(X)>>) :
  s \in UNION {QuietLoops(b) : b \in Quiet \cup UNION {QuietLoops(q) : q \in Quiet}}}

ControlPrograms == LoopPrograms \cup NestedPrograms \cup GotoPrograms \cup QuietPrograms

MeaningPrograms == Expressions \cup ControlPrograms

-----------------------------------------------------------------------------
(* Scopes and constraints: blocks two deep around declarations and uses, two *)
(* functions and a file-scope variable; most are not programs.              *)

Item == {Auto("x", One), VarDecl(N("x"), <<>>, "EXTERN"), Auto("z", X), Do(Set(X, Y)), Do(G(Var(N("z")))),
         Compound(<<Auto("x", Y), Do(G(X))>>), Break, LabelStmt(N("l")), Goto(N("l"))}
Around(items) == {
  Compound(items),
  For(Auto("x", X), <<F>>, <<Set(X, Y)>>, Compound(items)),
  While(G(Y), Compound(items)),
  Switch(Y, <<Case(1, items), Case(2, <<Do(G(X)), LabelStmt(N("l"))>>)>>)}

Bodies == UNION {{<<a, s, Return(Y)>> : s \in Around(<<b, c>>)} : a \in Item, b \in Item, c \in Item}
Global == VarDecl(N("x"), <<Int_(2)>>, "AUTO")
ScopePrograms ==
  {<<Global>> \o Program(<<N("y")>>, b) : b \in Bodies}

WrongCalls == {
  Program(XY, <<Do(G(CallOf(N("h"), <<X>>))), Return(Y)>>),
  Program(XY, <<Do(CallOf(N("x"), <<>>)), Return(Y)>>),
  Program(XY, <<Return(Var(N("f")))>>),
  Program(XY, <<Auto("f", One), Return(F)>>),
  Program(<<N("x"), N("x")>>, <<Return(One)>>),
  Program(XY, <<Do(Set(One, Y)), Return(One)>>),
  Program(XY, <<Auto("x", One), Return(X)>>),
  Program(XY, <<Continue>>),
  Program(XY, <<Switch(X, <<Case(0, <<Continue>>)>>)>>),
  Program(<<>>, <<Return(One)>>) \o <<Main(<<>>, <<Return(One)>>)>>,
  Program(<<>>, <<Return(One)>>) \o <<Function(N("f"), <<N("x")>>, <<>>)>>,
  Program(<<>>, <<Return(One)>>) \o <<Function(N("f"), <<>>, <<<<Return(One)>>>>)>>,
  Program(<<>>, <<Return(CallOf(N("later"), <<>>))>>) \o <<Function(N("later"), <<>>, <<<<Return(One)>>>>)>>}

\* Two functions with the same local names, labels and loops.
TwoFunctions == {
  Externals \o << Function(N("k"), <<N("x")>>, <<b>>), Main(<<N("y")>>, <<Auto("x", Y)>> \o b) >> :
  b \in {<<LabelStmt(N("l")), DoWhile(If(F, Break, <<Do(G(X))>>), X), Return(X)>>,
         <<Auto("y", X), If(Binop("LAND", X, F), Goto(N("l")), <<>>), LabelStmt(N("l")), Return(X)>>}}

\* A temporary that two of the instructions ir_program_destroy looks at mention,
\* and values that only one does.
UnaryResults == {Program(<<N("x")>>, <<Return(e)>>) :
  e \in {X, G(X), Unop("NEG", X), Unop("NOT", Unop("NEG", X)), Set(X, Unop("COMP", X)), Unop("PREINC", X)}}

ScopingPrograms == ScopePrograms \cup WrongCalls \cup TwoFunctions
=============================================================================
