----------------------------- MODULE CSemantics -----------------------------
(***************************************************************************)
(* What a source function means in C, written without looking at how tinyC  *)
(* translates it: lexical scopes are environments, control flow is the      *)
(* structured kind, a goto is a search for its label.  Functions that are   *)
(* called are external: feed holds the results the calls return, in order.  *)
(* An execution that needs one more result is "stuck" at that call.         *)
(*                                                                         *)
(* A variable lives at the place of its declaration in the text, a path of  *)
(* positions.  ctl is "go" as long as control passes to what comes next;    *)
(* everything else leaves the state as it is until a statement catches it.  *)
(***************************************************************************)
EXTENDS Ast, Words, Functions, SequencesExt

CONSTANT MaxRounds    \* bound on loop rounds and gotos in one execution

Start(store, feed) ==
  [ctl |-> "go", target |-> <<>>, val |-> 0, store |-> store, calls |-> <<>>,
   feed |-> feed, rounds |-> MaxRounds]

Going(st) == st.ctl = "go"
Halt(st, ctl) == [st EXCEPT !.ctl = ctl]
Yield(st, w) == IF Going(st) THEN [st EXCEPT !.val = w] ELSE st
StoreAt(st, place) == IF Going(st) THEN [st EXCEPT !.store = (place :> <<st.val>>) @@ @] ELSE st
Forget(st, place) == IF Going(st) THEN [st EXCEPT !.store = (place :> <<>>) @@ @] ELSE st

\* Reading a variable before it has a value is undefined.
LoadFrom(st, place) ==
  IF ~Going(st) THEN st
  ELSE IF place \in DOMAIN st.store /\ st.store[place] # <<>>
    THEN Yield(st, st.store[place][1]) ELSE Halt(st, "undefined")

Compute(st, op, a, b) ==
  IF Going(st) /\ op \in {"DIV", "MOD"} /\ DivTraps(a, b) THEN Halt(st, "trapped")
  ELSE IF Going(st) THEN Yield(st, BinopValue(op, a, b)) ELSE st

CallExternal(st, f, vals) ==
  LET called == [st EXCEPT !.calls = Append(@, <<f, vals>>)]
  IN CASE ~Going(st) -> st
       [] Going(st) /\ st.feed = <<>> -> Halt(called, "stuck")
       [] Going(st) /\ st.feed # <<>> -> Yield([called EXCEPT !.feed = Tail(@)], Head(st.feed))

RECURSIVE Eval(_, _, _)
RECURSIVE EvalArgs(_, _, _, _)
EvalArgs(args, scope, vals, st) ==
  IF args = <<>> THEN [vals |-> vals, st |-> st]
  ELSE LET first == Eval(Head(args), scope, st)
       IN EvalArgs(Tail(args), scope, Append(vals, first.val), first)

Eval(e, scope, st) ==
  LET EvalNext(sub, after) == Eval(sub, scope, after)
      AsTruth(after) == Yield(after, Truth(after.val # 0))
      Choose(c, sub) == IF Going(c) THEN EvalNext(sub, c) ELSE c
  IN CASE e.kind = "INT" -> Yield(st, e.value)
       [] e.kind = "VAR" -> LoadFrom(st, scope[e.id])
       [] e.kind = "CALL" ->
            LET r == EvalArgs(e.args, scope, <<>>, st) IN CallExternal(r.st, e.id, r.vals)
       [] e.kind = "CONDITIONAL" ->
            LET c == EvalNext(e.lhs, st) IN Choose(c, IF c.val # 0 THEN e.mid ELSE e.rhs)
       [] e.kind = "ASSIGN" /\ e.op = "NOP" -> StoreAt(EvalNext(e.rhs, st), scope[e.lhs.id])
       \* The value of `x op= e` is the one x has afterwards.
       [] e.kind = "ASSIGN" /\ e.op # "NOP" ->
            LET rhs == EvalNext(e.rhs, st)
                x == LoadFrom(rhs, scope[e.lhs.id])
            IN StoreAt(Compute(x, e.op, x.val, rhs.val), scope[e.lhs.id])
       [] e.kind = "BINOP" ->
            LET a == EvalNext(e.lhs, st)
            IN CASE e.op = "LAND" -> AsTruth(IF a.val = 0 THEN a ELSE EvalNext(e.rhs, a))
                 [] e.op = "LOR" -> AsTruth(IF a.val # 0 THEN a ELSE EvalNext(e.rhs, a))
                 [] OTHER -> LET b == EvalNext(e.rhs, a) IN Compute(b, e.op, a.val, b.val)
       [] e.kind = "UNOP" /\ e.op \in {"NEG", "COMP", "NOT"} ->
            LET a == EvalNext(e.operand, st) IN Yield(a, UnopValue(e.op, a.val))
       [] e.kind = "UNOP" /\ e.op \notin {"NEG", "COMP", "NOT"} ->
            LET a == EvalNext(e.operand, st)
                by == IF e.op \in {"PREINC", "POSTINC"} THEN 1 ELSE -1
                new == StoreAt(Yield(a, Wrap(a.val + by)), scope[e.operand.id])
            IN IF e.op \in {"POSTINC", "POSTDEC"} THEN Yield(new, a.val) ELSE new

-----------------------------------------------------------------------------
(* Statements.  While control is looking for a label (ctl "seek") nothing is *)
(* executed until the label is found.                                        *)

Seeking(st) == st.ctl = "seek"
Catch(st, ctl) == IF st.ctl = ctl THEN Halt(st, "go") ELSE st
Seek(st, l) == [st EXCEPT !.ctl = "seek", !.target = l]

OneRoundLess(st) ==
  IF st.rounds = 0 THEN Halt(st, "diverges") ELSE [st EXCEPT !.rounds = @ - 1]

EvalOptional(opt, scope, st) == IF opt = <<>> THEN st ELSE Eval(opt[1], scope, st)

\* A declaration binds its name from here to the end of its block, whether or
\* not control passes it.
Bind(scope, x, place) == (x :> place) @@ scope
Declare(d, scope, place, st) ==
  IF d.init = <<>> THEN Forget(st, place)
  ELSE StoreAt(Eval(d.init[1], Bind(scope, d.id, place), st), place)

\* The clauses of a switch as one block: its case labels become labels.
CaseLabel(path, k) == <<"case", path, k>>
ClausesAsBlock(clauses, path) ==
  FlattenSeq([k \in DOMAIN clauses |-> <<LabelStmt(CaseLabel(path, k))>> \o clauses[k].body])

SelectedClauses(clauses, w) ==
  LET matching == {k \in DOMAIN clauses : ~clauses[k].default /\ clauses[k].value = w}
      defaults == {k \in DOMAIN clauses : clauses[k].default}
  IN IF matching # {} THEN matching ELSE defaults

RECURSIVE ExecStatement(_, _, _, _)
RECURSIVE ExecBlock(_, _, _, _, _)
RECURSIVE ExecRounds(_, _, _, _)

ExecBlock(items, i, scope, path, st) ==
  IF i > Len(items) THEN st
  ELSE LET item == items[i]
           place == Append(path, i)
       IN IF item.kind = "DECL"
            THEN ExecBlock(items, i + 1, Bind(scope, item.id, place), path,
                           Declare(item, scope, place, st))
            ELSE ExecBlock(items, i + 1, scope, path,
                           IF item.kind = "FUNC" THEN st ELSE ExecStatement(item, scope, place, st))

LoopCond(s, scope, st) ==
  EvalOptional(IF s.kind = "FOR" THEN s.cond ELSE <<s.cond>>, scope, Yield(st, 1))

AnotherRound(s, scope, path, cond) ==
  IF Going(cond) /\ cond.val # 0 THEN ExecRounds(s, scope, path, OneRoundLess(cond)) ELSE cond

\* A loop from the beginning of its body on.
ExecRounds(s, scope, path, st) ==
  LET body == Catch(ExecStatement(s.body, scope, Append(path, 1), st), "continue")
      post == EvalOptional(IF s.kind = "FOR" THEN s.post ELSE <<>>, scope, body)
  IN AnotherRound(s, scope, path, LoopCond(s, scope, post))

\* A loop whose condition is tested before the first round, unless control
\* jumps into its body.
FirstRound(s, scope, path, cond) ==
  IF Going(cond) /\ cond.val = 0 THEN cond ELSE ExecRounds(s, scope, path, cond)
ExecTested(s, scope, path, st) == FirstRound(s, scope, path, LoopCond(s, scope, st))

ExecFor(s, scope, path, st) ==
  LET place == Append(path, 0)
      declares == s.init.kind = "DECL"
  IN ExecTested(s, IF declares THEN Bind(scope, s.init.id, place) ELSE scope, path,
                IF declares THEN Declare(s.init, scope, place, st)
                            ELSE EvalOptional(s.init.exp, scope, st))

Else(s, scope, path, st) == ExecBlock(s.else_br, 1, scope, Append(path, 2), st)
ElseIfSeeking(s, scope, path, st) == IF Seeking(st) THEN Else(s, scope, path, st) ELSE st

ExecIf(s, scope, path, c) ==
  IF Going(c) /\ c.val = 0 THEN Else(s, scope, path, c)
  ELSE LET then == ExecStatement(s.then_br, scope, Append(path, 1), c)
       IN IF Going(c) THEN then ELSE ElseIfSeeking(s, scope, path, then)

\* Control goes to a clause as if by a goto to its case label; a switch with
\* no clause to go to ends.
ToClause(clauses, path, c) ==
  LET selected == SelectedClauses(clauses, c.val)
  IN CASE ~Going(c) -> c
       [] Going(c) /\ selected = {} -> Halt(c, "break")
       [] Going(c) /\ selected # {} -> Seek(c, CaseLabel(path, Min(selected)))

ExecSwitch(s, scope, path, c) ==
  ExecBlock(ClausesAsBlock(s.clauses, path), 1, scope, path, ToClause(s.clauses, path, c))

\* A statement control has jumped past is left out.
ExecStatement(s, scope, path, st) ==
  IF ~Going(st) /\ ~Seeking(st) THEN st ELSE
  CASE s.kind = "EXP" -> Eval(s.exp, scope, st)
    [] s.kind = "RETURN" ->
         LET r == Eval(s.exp, scope, st) IN IF Going(r) THEN Halt(r, "returned") ELSE r
    [] s.kind = "IF" -> ExecIf(s, scope, path, Eval(s.cond, scope, st))
    [] s.kind = "COMPOUND" -> ExecBlock(s.block, 1, scope, path, st)
    [] s.kind = "FOR" -> Catch(ExecFor(s, scope, path, st), "break")
    [] s.kind = "WHILE" -> Catch(ExecTested(s, scope, path, st), "break")
    [] s.kind = "DO_WHILE" -> Catch(ExecRounds(s, scope, path, st), "break")
    [] s.kind = "SWITCH" -> Catch(ExecSwitch(s, scope, path, Eval(s.cond, scope, st)), "break")
    [] s.kind = "BREAK" -> IF Going(st) THEN Halt(st, "break") ELSE st
    [] s.kind = "CONTINUE" -> IF Going(st) THEN Halt(st, "continue") ELSE st
    [] s.kind = "LABEL" -> IF Seeking(st) /\ st.target = s.id THEN Halt(st, "go") ELSE st
    [] s.kind = "GOTO" -> IF Going(st) THEN Seek(st, s.target) ELSE st

RECURSIVE FindTargets(_, _, _)
\* A goto whose label has not been found on the way is looked for from the top.
FindTargets(body, scope, st) ==
  IF Seeking(st) THEN FindTargets(body, scope, ExecBlock(body, 1, scope, <<1>>, OneRoundLess(st)))
                 ELSE st
ExecBody(body, scope, st) == FindTargets(body, scope, ExecBlock(body, 1, scope, <<1>>, st))

\* Where a call of f with these arguments gets to when the calls it makes
\* return the results in feed.
Execution(f, args, feed) ==
  LET place(i) == <<0, i>>
      scope == [x \in Range(f.params) |-> place(CHOOSE i \in DOMAIN f.params : f.params[i] = x)]
      store == [p \in {place(i) : i \in DOMAIN f.params} |-> <<args[p[2]]>>]
  IN ExecBody(f.body[1], scope, Start(store, feed))
=============================================================================
