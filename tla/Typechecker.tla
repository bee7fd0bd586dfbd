----------------------------- MODULE Typechecker -----------------------------
(***************************************************************************)
(* typecheck (src/parser/parser.c) on a program whose variables have been   *)
(* renamed: one flat symbol table says what a name is.  symtab_get finds    *)
(* the entry put first, so a later put of the same key changes nothing.     *)
(***************************************************************************)
EXTENDS Ast, Functions

IntSymbol == [kind |-> "INT", param_count |-> 0, defined |-> FALSE]
FunctionSymbol(f) ==
  [kind |-> "FUNCTION", param_count |-> Len(f.params), defined |-> f.body # <<>>]

PutSymbol(table, x, symbol) ==
  IF x \in DOMAIN table THEN table ELSE [y \in DOMAIN table \cup {x} |-> IF y = x THEN symbol ELSE table[y]]

\* Variant: the number of arguments is not looked at.
CallFits_AnyArity(e, table) == e.id \in DOMAIN table => table[e.id].kind = "FUNCTION"
\* A name the table does not hold (yet) is not looked at.
CallFits(e, table) ==
  e.id \in DOMAIN table =>
    table[e.id].kind = "FUNCTION" /\ table[e.id].param_count = Len(e.args)

RECURSIVE WellTyped(_, _)
WellTyped(e, table) ==
  CASE e.kind = "INT" -> TRUE
    [] e.kind = "VAR" -> e.id \in DOMAIN table => table[e.id].kind = "INT"
    [] e.kind = "UNOP" -> WellTyped(e.operand, table)
    [] e.kind \in {"BINOP", "ASSIGN"} -> WellTyped(e.lhs, table) /\ WellTyped(e.rhs, table)
    [] e.kind = "CONDITIONAL" -> \A part \in {e.lhs, e.mid, e.rhs} : WellTyped(part, table)
    [] e.kind = "CALL" ->
         CallFits(e, table) /\ \A i \in DOMAIN e.args : WellTyped(e.args[i], table)

OptionalTyped(opt, table) == \A i \in DOMAIN opt : WellTyped(opt[i], table)

Checked(table, ok) == [table |-> table, ok |-> ok]

RECURSIVE CheckStatement(_, _)
RECURSIVE CheckBlock(_, _)
\* A declaration in a block is taken for a variable's, a prototype too (whose
\* parameters, if it has any, are then read as an initialiser: not modelled).
CheckBlock(items, table) ==
  IF items = <<>> THEN Checked(table, TRUE)
  ELSE LET item == Head(items)
           first == CASE item.kind = "FUNC" -> Checked(PutSymbol(table, item.id, IntSymbol), TRUE)
                      [] item.kind = "DECL" ->
                           Checked(PutSymbol(table, item.id, IntSymbol), OptionalTyped(item.init, table))
                      [] OTHER -> CheckStatement(item, table)
           rest == CheckBlock(Tail(items), first.table)
       IN Checked(rest.table, first.ok /\ rest.ok)

RECURSIVE CheckClauses(_, _)
CheckClauses(clauses, table) ==
  IF clauses = <<>> THEN Checked(table, TRUE)
  ELSE LET first == CheckBlock(Head(clauses).body, table)
           rest == CheckClauses(Tail(clauses), first.table)
       IN Checked(rest.table, first.ok /\ rest.ok)

\* The variable a for declares is not put into the table.
CheckStatement(s, table) ==
  LET After(ok, checked) == Checked(checked.table, ok /\ checked.ok)
  IN CASE s.kind \in {"RETURN", "EXP"} -> Checked(table, WellTyped(s.exp, table))
       [] s.kind = "IF" ->
            LET then == CheckStatement(s.then_br, table)
            IN After(WellTyped(s.cond, table) /\ then.ok, CheckBlock(s.else_br, then.table))
       [] s.kind = "COMPOUND" -> CheckBlock(s.block, table)
       [] s.kind = "FOR" ->
            After(/\ OptionalTyped(IF s.init.kind = "DECL" THEN s.init.init ELSE s.init.exp, table)
                  /\ OptionalTyped(s.cond, table)
                  /\ OptionalTyped(s.post, table),
                  CheckStatement(s.body, table))
       [] s.kind \in {"WHILE", "DO_WHILE"} ->
            After(WellTyped(s.cond, table), CheckStatement(s.body, table))
       [] s.kind = "SWITCH" ->
            After(WellTyped(s.cond, table), CheckClauses(s.clauses, table))
       [] OTHER -> Checked(table, TRUE)

RECURSIVE PutAll(_, _)
PutAll(names, table) ==
  IF names = <<>> THEN table ELSE PutAll(Tail(names), PutSymbol(table, Head(names), IntSymbol))

Redeclares(f, old) ==
  /\ old.kind = "FUNCTION"
  /\ old.param_count = Len(f.params)
  /\ ~(f.body # <<>> /\ old.defined)

CheckFunction(f, table) ==
  LET known == f.id \in DOMAIN table
      bound == IF known THEN [table EXCEPT ![f.id].defined = @ \/ f.body # <<>>]
                        ELSE PutSymbol(table, f.id, FunctionSymbol(f))
  IN IF known /\ ~Redeclares(f, table[f.id]) THEN Checked(table, FALSE)
     ELSE IF f.body = <<>> THEN Checked(bound, TRUE)
     ELSE CheckBlock(f.body[1], PutAll(f.params, bound))

RECURSIVE CheckDeclarations(_, _)
CheckDeclarations(program, table) ==
  IF program = <<>> THEN TRUE
  ELSE LET d == Head(program)
           first == IF d.kind = "FUNC" THEN CheckFunction(d, table)
                    ELSE Checked(PutSymbol(table, d.id, IntSymbol), OptionalTyped(d.init, table))
       IN first.ok /\ CheckDeclarations(Tail(program), first.table)

Typecheck(program) == CheckDeclarations(program, [x \in {} |-> IntSymbol])
=============================================================================
