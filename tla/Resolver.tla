------------------------------ MODULE Resolver ------------------------------
(***************************************************************************)
(* resolve_variables (src/parser/parser.c): every variable of a function is *)
(* renamed to a program-unique name, undeclared names and conflicting       *)
(* declarations are errors.  A scope is entered by copying the map: entries *)
(* added to the copy never reach the enclosing scope.                       *)
(***************************************************************************)
EXTENDS Ast, VarMap, SequencesExt

RECURSIVE ResolvableExp(_, _)
\* No name of e is undeclared and every assignment has a variable on its left.
ResolvableExp(e, map) ==
  CASE e.kind = "INT" -> TRUE
    [] e.kind = "VAR" -> Bound(map, e.id)
    [] e.kind = "UNOP" -> ResolvableExp(e.operand, map)
    [] e.kind = "BINOP" -> ResolvableExp(e.lhs, map) /\ ResolvableExp(e.rhs, map)
    [] e.kind = "ASSIGN" ->
         e.lhs.kind = "VAR" /\ ResolvableExp(e.lhs, map) /\ ResolvableExp(e.rhs, map)
    [] e.kind = "CONDITIONAL" ->
         \A part \in {e.lhs, e.mid, e.rhs} : ResolvableExp(part, map)
    [] e.kind = "CALL" ->
         Bound(map, e.id) /\ \A i \in DOMAIN e.args : ResolvableExp(e.args[i], map)

RECURSIVE ResolveExp(_, _)
ResolveExp(e, map) ==
  CASE e.kind = "INT" -> e
    [] e.kind = "VAR" -> Var(VarMapGet(map, e.id).val)
    [] e.kind = "UNOP" -> Unop(e.op, ResolveExp(e.operand, map))
    [] e.kind \in {"BINOP", "ASSIGN"} ->
         [e EXCEPT !.lhs = ResolveExp(@, map), !.rhs = ResolveExp(@, map)]
    [] e.kind = "CONDITIONAL" ->
         [e EXCEPT !.lhs = ResolveExp(@, map), !.mid = ResolveExp(@, map),
                   !.rhs = ResolveExp(@, map)]
    [] e.kind = "CALL" ->
         CallOf(VarMapGet(map, e.id).val,
                [i \in DOMAIN e.args |-> ResolveExp(e.args[i], map)])

\* The result of a pass over a part of the tree: what the part became, the map
\* and the counter after it, and whether the compiler has not yet exited.
Result(out, map, n, ok) == [out |-> out, map |-> map, n |-> n, ok |-> ok]

OptionalResolvable(opt, map) == \A i \in DOMAIN opt : ResolvableExp(opt[i], map)
ResolveOptional(opt, map) == [i \in DOMAIN opt |-> ResolveExp(opt[i], map)]

\* An extern declaration refers to the file-scope object and keeps its name
\* (its initialiser, if it has one, is not looked at).
ResolveDeclaration(decl, map, n) ==
  LET local == Append(map, LocalEntry(decl.id, n))
      allowed == ~Conflicts(map, decl.id, decl.storage)
  IN IF decl.storage = "EXTERN"
       THEN Result(decl, Append(map, FileEntry(decl.id)), n, allowed)
       ELSE Result([decl EXCEPT !.id = UniqueName(decl.id, n), !.init = ResolveOptional(@, local)],
                   local, n + 1, allowed /\ OptionalResolvable(decl.init, local))

\* A failed check prints an error and exits; otherwise the pass goes on.
Exited == Result(<<>>, <<>>, 0, FALSE)
GoOn(r, Rest(_)) == IF r.ok THEN Rest(r) ELSE Exited
Check(condition, r) == IF condition THEN r ELSE Exited

RECURSIVE ResolveStatement(_, _, _)
RECURSIVE ResolveBlock(_, _, _)
ResolveItem(item, map, n) ==
  CASE item.kind = "FUNC" -> Check(item.body = <<>>, Result(item, map, n, TRUE))
    [] item.kind = "DECL" -> ResolveDeclaration(item, map, n)
    [] OTHER -> ResolveStatement(item, map, n)

ResolveBlock(items, map, n) ==
  IF items = <<>> THEN Result(<<>>, map, n, TRUE)
  ELSE GoOn(ResolveItem(Head(items), map, n), LAMBDA first :
         GoOn(ResolveBlock(Tail(items), first.map, first.n), LAMBDA rest :
           [rest EXCEPT !.out = <<first.out>> \o @]))

RECURSIVE ResolveClauses(_, _, _)
\* The clauses of a switch share one scope.
ResolveClauses(clauses, map, n) ==
  IF clauses = <<>> THEN Result(<<>>, map, n, TRUE)
  ELSE GoOn(ResolveBlock(Head(clauses).body, map, n), LAMBDA first :
         GoOn(ResolveClauses(Tail(clauses), first.map, first.n), LAMBDA rest :
           [rest EXCEPT !.out = <<[Head(clauses) EXCEPT !.body = first.out]>> \o @]))

\* The declaration or the expression in front of the first semicolon.
ResolveForInit(init, map, n) ==
  IF init.kind = "DECL" THEN ResolveDeclaration(init, map, n)
  ELSE Check(OptionalResolvable(init.exp, map),
             Result(InitExp(ResolveOptional(init.exp, map)), map, n, TRUE))

ResolveFor(s, map, n) ==
  GoOn(ResolveForInit(s.init, map, n), LAMBDA init :
    Check(OptionalResolvable(s.cond, init.map) /\ OptionalResolvable(s.post, init.map),
      GoOn(ResolveStatement(s.body, init.map, init.n), LAMBDA body :
        [body EXCEPT !.out = For(init.out, ResolveOptional(s.cond, init.map),
                                 ResolveOptional(s.post, init.map), @)])))

\* The branches are statements; the else branch is nullable.
ResolveIf(s, map, n) ==
  Check(ResolvableExp(s.cond, map),
    GoOn(ResolveStatement(s.then_br, map, n), LAMBDA then :
      GoOn(ResolveBlock(s.else_br, map, then.n), LAMBDA else :
        [else EXCEPT !.out = If(ResolveExp(s.cond, map), then.out, @)])))

\* The scopes inside s end with it: its result carries the map it was given.
ResolveStatement(s, map, n) ==
  LET Inner == VarMapCopy(map)
      Leave(r) == GoOn(r, LAMBDA inside : [inside EXCEPT !.map = map])
  IN CASE s.kind \in {"RETURN", "EXP"} ->
            Check(ResolvableExp(s.exp, map),
                  Result([s EXCEPT !.exp = ResolveExp(@, map)], map, n, TRUE))
       [] s.kind = "IF" -> ResolveIf(s, map, n)
       [] s.kind = "COMPOUND" ->
            Leave(GoOn(ResolveBlock(s.block, Inner, n), LAMBDA block :
                    [block EXCEPT !.out = Compound(@)]))
       [] s.kind = "FOR" -> Leave(ResolveFor(s, Inner, n))
       [] s.kind \in {"WHILE", "DO_WHILE"} ->
            Check(ResolvableExp(s.cond, Inner),
              Leave(GoOn(ResolveStatement(s.body, Inner, n), LAMBDA body :
                [body EXCEPT !.out = [s EXCEPT !.cond = ResolveExp(@, Inner), !.body = body.out]])))
       [] s.kind = "SWITCH" ->
            Check(ResolvableExp(s.cond, map),
              Leave(GoOn(ResolveClauses(s.clauses, Inner, n), LAMBDA clauses :
                [clauses EXCEPT !.out = Switch(ResolveExp(s.cond, map), @)])))
       [] OTHER -> Result(s, map, n, TRUE)

RECURSIVE ResolveParams(_, _, _)
ResolveParams(params, map, n) ==
  IF params = <<>> THEN Result(<<>>, map, n, TRUE)
  ELSE LET x == Head(params)
       IN Check(~BoundInCurrentScope(map, x),
            GoOn(ResolveParams(Tail(params), Append(map, LocalEntry(x, n)), n + 1), LAMBDA rest :
              [rest EXCEPT !.out = <<UniqueName(x, n)>> \o @]))

\* A prototype renames nothing.
ResolvePrototype(f, n) ==
  LET named == SelectSeq(f.params, LAMBDA x : x # <<>>)
  IN Result(f, <<>>, n, IsInjective(named))

\* Parameters and the outermost block of the body share a scope above the
\* file-scope names, which keep their names.
ResolveFunction(f, globals, n) ==
  IF f.body = <<>> THEN ResolvePrototype(f, n)
  ELSE GoOn(ResolveParams(f.params, VarMapCopy(globals), n), LAMBDA params :
         GoOn(ResolveBlock(f.body[1], params.map, params.n), LAMBDA body :
           [body EXCEPT !.out = Function(f.id, params.out, <<@>>)]))

\* Every file-scope name of the program is bound before a body is resolved.
Globals(program) ==
  LET names == SetToSeq({program[i].id : i \in DOMAIN program})
  IN [i \in DOMAIN names |-> FileEntry(names[i])]

\* A file-scope initialiser sees the file-scope names.
ResolveFileScope(d, globals, n) ==
  IF d.kind = "FUNC" THEN ResolveFunction(d, globals, n)
  ELSE Check(OptionalResolvable(d.init, globals),
             Result([d EXCEPT !.init = ResolveOptional(@, globals)], globals, n, TRUE))

RECURSIVE ResolveDeclarations(_, _, _)
ResolveDeclarations(program, globals, n) ==
  IF program = <<>> THEN Result(<<>>, globals, n, TRUE)
  ELSE GoOn(ResolveFileScope(Head(program), globals, n), LAMBDA first :
         GoOn(ResolveDeclarations(Tail(program), globals, first.n), LAMBDA rest :
           [rest EXCEPT !.out = <<first.out>> \o @]))

ResolveVariables(program) == ResolveDeclarations(program, Globals(program), 0)
=============================================================================
