---------------------------- MODULE CConstraints ----------------------------
(***************************************************************************)
(* The constraints of C a tinyC program must satisfy, stated without        *)
(* looking at how the passes check them: scopes are nested functions from   *)
(* names to what they name, and the rules for labels and jumps are about    *)
(* positions in the text.                                                   *)
(***************************************************************************)
EXTENDS Ast, FiniteSets, SequencesExt

IntObject == [arity |-> -1]
FunctionOf(n) == [arity |-> n]

RECURSIVE ValidExp(_, _)
ValidExp(e, scope) ==
  CASE e.kind = "INT" -> TRUE
    [] e.kind = "VAR" -> e.id \in DOMAIN scope /\ scope[e.id] = IntObject
    [] e.kind = "CALL" -> /\ e.id \in DOMAIN scope
                          /\ scope[e.id] = FunctionOf(Len(e.args))
                          /\ \A i \in DOMAIN e.args : ValidExp(e.args[i], scope)
    [] e.kind = "UNOP" -> ValidExp(e.operand, scope)
    [] e.kind = "ASSIGN" ->
         e.lhs.kind = "VAR" /\ ValidExp(e.lhs, scope) /\ ValidExp(e.rhs, scope)
    [] e.kind = "BINOP" -> ValidExp(e.lhs, scope) /\ ValidExp(e.rhs, scope)
    [] e.kind = "CONDITIONAL" -> \A part \in {e.lhs, e.mid, e.rhs} : ValidExp(part, scope)

ValidOptional(opt, scope) == \A i \in DOMAIN opt : ValidExp(opt[i], scope)

Declaring(scope, x) == [y \in DOMAIN scope \cup {x} |-> IF y = x THEN IntObject ELSE scope[y]]

\* own: the names declared in this scope, by storage class.
MayDeclare(d, own) == d.id \in DOMAIN own => own[d.id] = "EXTERN" /\ d.storage = "EXTERN"
Owning(own, d) == [y \in DOMAIN own \cup {d.id} |-> IF y = d.id THEN d.storage ELSE own[y]]
NoNames == [x \in {} |-> "AUTO"]

RECURSIVE ValidStatement(_, _)
RECURSIVE ValidBlock(_, _, _, _)
\* Item i and what follows it in a block.
ValidBlock(items, i, scope, own) ==
  \/ i > Len(items)
  \/ /\ items[i].kind = "DECL"
     /\ MayDeclare(items[i], own)
     /\ ValidOptional(items[i].init, Declaring(scope, items[i].id))
     /\ ValidBlock(items, i + 1, Declaring(scope, items[i].id), Owning(own, items[i]))
  \/ /\ items[i].kind = "FUNC"
     /\ items[i].body = <<>>
     /\ ValidBlock(items, i + 1, scope, own)
  \/ /\ ~IsDeclaration(items[i])
     /\ ValidStatement(items[i], scope)
     /\ ValidBlock(items, i + 1, scope, own)

ValidFor(s, scope) ==
  LET inner == IF s.init.kind = "DECL" THEN Declaring(scope, s.init.id) ELSE scope
  IN /\ ValidOptional(IF s.init.kind = "DECL" THEN s.init.init ELSE s.init.exp, inner)
     /\ ValidOptional(s.cond, inner)
     /\ ValidOptional(s.post, inner)
     /\ ValidStatement(s.body, inner)

ValidStatement(s, scope) ==
  CASE s.kind \in {"EXP", "RETURN"} -> ValidExp(s.exp, scope)
    [] s.kind = "IF" -> /\ ValidExp(s.cond, scope)
                        /\ ValidStatement(s.then_br, scope)
                        /\ \A i \in DOMAIN s.else_br : ValidStatement(s.else_br[i], scope)
    [] s.kind = "COMPOUND" -> ValidBlock(s.block, 1, scope, NoNames)
    [] s.kind = "FOR" -> ValidFor(s, scope)
    [] s.kind \in {"WHILE", "DO_WHILE"} -> ValidExp(s.cond, scope) /\ ValidStatement(s.body, scope)
    [] s.kind = "SWITCH" -> /\ ValidExp(s.cond, scope)
                            /\ ValidBlock(FlattenSeq([k \in DOMAIN s.clauses |-> s.clauses[k].body]),
                                          1, scope, NoNames)
    [] OTHER -> TRUE

-----------------------------------------------------------------------------
(* Labels and jumps *)

Inside(s) ==
  CASE s.kind \in Loops -> <<s.body>>
    [] s.kind = "IF" -> <<s.then_br>> \o s.else_br
    [] s.kind = "COMPOUND" -> s.block
    [] s.kind = "SWITCH" -> FlattenSeq([k \in DOMAIN s.clauses |-> s.clauses[k].body])
    [] OTHER -> <<>>

RECURSIVE Nodes(_, _)
\* Every statement and declaration of a block with its position in the text.
Nodes(items, path) ==
  UNION {{[at |-> Append(path, i), item |-> items[i]]}
           \cup Nodes(Inside(items[i]), Append(path, i)) : i \in DOMAIN items}

Encloses(outer, inner) == IsStrictPrefix(outer.at, inner.at)

ValidJumps(body) ==
  LET nodes == Nodes(body, <<>>)
      Of(kinds) == {n \in nodes : n.item.kind \in kinds}
      InsideOf(kinds, n) == \E outer \in Of(kinds) : Encloses(outer, n)
  IN /\ \A l, m \in Of({"LABEL"}) : l.item.id = m.item.id => l = m
     /\ \A g \in Of({"GOTO"}) : \E l \in Of({"LABEL"}) : l.item.id = g.item.target
     /\ \A b \in Of({"BREAK"}) : InsideOf(Loops \cup {"SWITCH"}, b)
     /\ \A c \in Of({"CONTINUE"}) : InsideOf(Loops, c)

-----------------------------------------------------------------------------
(* Programs *)

\* Every file-scope name is visible in every function (a function may be
\* called above its declaration).
FileScope(program) ==
  [x \in {program[i].id : i \in DOMAIN program} |->
     LET d == program[CHOOSE i \in DOMAIN program : program[i].id = x]
     IN IF d.kind = "FUNC" THEN FunctionOf(Len(d.params)) ELSE IntObject]

Compatible(d, e) ==
  d.id = e.id => /\ d.kind = e.kind
                 /\ d.kind = "FUNC" => /\ Len(d.params) = Len(e.params)
                                       /\ d.body = <<>> \/ e.body = <<>>

ValidFunction(f, scope) ==
  LET named == {x \in ToSet(f.params) : x # <<>>}
      own == [x \in named |-> "PARAMETER"]
      inner == [x \in DOMAIN scope \cup named |-> IF x \in named THEN IntObject ELSE scope[x]]
  IN /\ \A i, j \in DOMAIN f.params : i # j /\ f.params[i] = f.params[j] => f.params[i] = <<>>
     /\ f.body # <<>> => ValidBlock(f.body[1], 1, inner, own) /\ ValidJumps(f.body[1])

Valid(program) ==
  LET scope == FileScope(program)
  IN /\ \A i, j \in DOMAIN program : i # j => Compatible(program[i], program[j])
     /\ \A i \in DOMAIN program :
          IF program[i].kind = "FUNC" THEN ValidFunction(program[i], scope)
                                      ELSE ValidOptional(program[i].init, scope)
=============================================================================
