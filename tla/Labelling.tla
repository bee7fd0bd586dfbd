----------------------------- MODULE Labelling -----------------------------
(***************************************************************************)
(* The two label passes of src/parser/parser.c.  resolve_labels gives every *)
(* loop and switch a program-unique base name and every break and continue  *)
(* the base of its target; resolve_goto_labels renames the labels of a      *)
(* function and points its gotos at them.                                   *)
(***************************************************************************)
EXTENDS Ast, SequencesExt

\* generate_label.
LoopName(n) == <<"loop", ".", n>>

\* What a pass over a part of the tree returns: the part, the counter, and
\* whether the compiler has not exited.
Labelled(out, n, ok) == [out |-> out, n |-> n, ok |-> ok]

\* Variant: a switch is the target of continue, too.
ClauseContinue_Switch(label, cont) == <<label>>
\* continue passes through a switch to the enclosing loop.
ClauseContinue(label, cont) == cont

RECURSIVE LabelStatement(_, _, _, _)
RECURSIVE LabelBlock(_, _, _, _)
RECURSIVE LabelClauses(_, _, _, _)

LabelBlock(items, brk, cont, n) ==
  IF items = <<>> THEN Labelled(<<>>, n, TRUE)
  ELSE LET first == IF IsDeclaration(Head(items)) THEN Labelled(Head(items), n, TRUE)
                    ELSE LabelStatement(Head(items), brk, cont, n)
           rest == LabelBlock(Tail(items), brk, cont, first.n)
       IN Labelled(<<first.out>> \o rest.out, rest.n, first.ok /\ rest.ok)

LabelClauses(clauses, brk, cont, n) ==
  IF clauses = <<>> THEN Labelled(<<>>, n, TRUE)
  ELSE LET first == LabelBlock(Head(clauses).body, brk, cont, n)
           rest == LabelClauses(Tail(clauses), brk, cont, first.n)
       IN Labelled(<<[Head(clauses) EXCEPT !.body = first.out]>> \o rest.out,
                   rest.n, first.ok /\ rest.ok)

\* brk and cont are the enclosing targets, <<>> where there is none.
LabelStatement(s, brk, cont, n) ==
  LET label == LoopName(n)
  IN CASE s.kind \in Loops ->
            LET body == LabelStatement(s.body, <<label>>, <<label>>, n + 1)
            IN Labelled([s EXCEPT !.label = <<label>>, !.body = body.out], body.n, body.ok)
       [] s.kind = "SWITCH" ->
            LET r == LabelClauses(s.clauses, <<label>>, ClauseContinue(label, cont), n + 1)
            IN Labelled([s EXCEPT !.label = <<label>>, !.clauses = r.out], r.n, r.ok)
       [] s.kind = "BREAK" -> Labelled([s EXCEPT !.label = brk], n, brk # <<>>)
       [] s.kind = "CONTINUE" -> Labelled([s EXCEPT !.label = cont], n, cont # <<>>)
       [] s.kind = "IF" ->
            LET then == LabelStatement(s.then_br, brk, cont, n)
                else == LabelBlock(s.else_br, brk, cont, then.n)
            IN Labelled(If(s.cond, then.out, else.out), else.n, then.ok /\ else.ok)
       [] s.kind = "COMPOUND" ->
            LET r == LabelBlock(s.block, brk, cont, n)
            IN Labelled(Compound(r.out), r.n, r.ok)
       [] OTHER -> Labelled(s, n, TRUE)

-----------------------------------------------------------------------------
(* goto *)

\* Variant: the counter is left out of the name.
GotoName_NoCounter(l, n) == <<l[1], ".L", 0>>
GotoName(l, n) == <<l[1], ".L", n>>

\* The blocks directly inside a statement, in source order.
Blocks(s) ==
  CASE s.kind \in Loops -> <<<<s.body>>>>
    [] s.kind = "IF" -> <<<<s.then_br>>, s.else_br>>
    [] s.kind = "COMPOUND" -> <<s.block>>
    [] s.kind = "SWITCH" -> [k \in DOMAIN s.clauses |-> s.clauses[k].body]
    [] OTHER -> <<>>

RECURSIVE CollectLabels(_)
\* The labels of a block in the order collect_labels_block meets them.
CollectLabels(items) ==
  IF items = <<>> THEN <<>>
  ELSE LET s == Head(items)
       IN (IF s.kind = "LABEL" THEN <<s.id>> ELSE CollectLabels(FlattenSeq(Blocks(s))))
            \o CollectLabels(Tail(items))

RECURSIVE RewriteGotos(_, _)
RewriteGotos(items, name) ==
  LET Rewrite(s) ==
        CASE s.kind = "LABEL" -> LabelStmt(name[s.id])
          [] s.kind = "GOTO" -> IF s.target \in DOMAIN name THEN Goto(name[s.target]) ELSE s
          [] s.kind \in Loops -> [s EXCEPT !.body = RewriteGotos(<<@>>, name)[1]]
          [] s.kind = "IF" -> [s EXCEPT !.then_br = RewriteGotos(<<@>>, name)[1],
                                        !.else_br = RewriteGotos(@, name)]
          [] s.kind = "COMPOUND" -> Compound(RewriteGotos(s.block, name))
          [] s.kind = "SWITCH" ->
               [s EXCEPT !.clauses =
                  [k \in DOMAIN @ |-> [@[k] EXCEPT !.body = RewriteGotos(@, name)]]]
          [] OTHER -> s
  IN [i \in DOMAIN items |-> Rewrite(items[i])]

RECURSIVE Targets(_)
Targets(items) ==
  UNION {IF items[i].kind = "GOTO" THEN {items[i].target} ELSE Targets(FlattenSeq(Blocks(items[i])))
         : i \in DOMAIN items}

\* Labels are numbered through the program; each function has its own map.
ResolveGotos(body, n) ==
  LET labels == CollectLabels(body)
      name == [l \in ToSet(labels) |->
                 GotoName(l, n - 1 + CHOOSE i \in DOMAIN labels : labels[i] = l)]
  IN Labelled(RewriteGotos(body, name), n + Len(labels),
              IsInjective(labels) /\ Targets(body) \subseteq ToSet(labels))
-----------------------------------------------------------------------------
(* The passes on a program: a declaration without a body stays as it is. *)

ResolveLabelsOf(body, n) == LabelBlock(body, <<>>, <<>>, n)

RECURSIVE EachBody(_, _, _)
\* Pass(body, n) on the body of every function, the counter threaded through.
EachBody(Pass(_, _), program, n) ==
  LET d == Head(program)
  IN IF program = <<>> THEN Labelled(<<>>, n, TRUE)
     ELSE LET first == IF d.kind = "FUNC" /\ d.body # <<>>
                         THEN LET r == Pass(d.body[1], n)
                              IN [r EXCEPT !.out = [d EXCEPT !.body = <<r.out>>]]
                         ELSE Labelled(d, n, TRUE)
              rest == EachBody(Pass, Tail(program), first.n)
          IN Labelled(<<first.out>> \o rest.out, rest.n, first.ok /\ rest.ok)

ResolveLabels(program) == EachBody(ResolveLabelsOf, program, 0)
ResolveGotoLabels(program) == EachBody(ResolveGotos, program, 0)
=============================================================================
