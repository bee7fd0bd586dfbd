------------------------------ MODULE Lowering ------------------------------
(***************************************************************************)
(* emit_ir (src/ir/ir.c): a checked syntax tree becomes a flat list of IR   *)
(* instructions.  g is the function being built: the instructions emitted   *)
(* so far and the counter temporaries and labels share.                     *)
(***************************************************************************)
EXTENDS Ast, Ir, FiniteSetsExt

Generator(n) == [code |-> <<>>, n |-> n]
Emit(g, instrs) == [g EXCEPT !.code = @ \o instrs]
Taken(g, k) == [g EXCEPT !.n = @ + k]

TempName(n) == <<"var", ".", n>>
LabelName(n) == <<"label", "_", n>>
Temp(n) == IrVariable(TempName(n))

\* loop_label and switch_clause_label: base is the nullable name resolve_labels
\* left in the tree.
LoopLabel(base, suffix) == Append(base[1], suffix)
ClauseLabel(base, i) == base[1] \o <<"_clause_", i - 1>>

Lowered(val, g) == [val |-> val, g |-> g]

Step(op) == IF op \in {"PREINC", "POSTINC"} THEN "ADD" ELSE "SUB"
Prefix == {"PREINC", "PREDEC"}
Postfix == {"POSTINC", "POSTDEC"}

\* Variant: the jump of || for both operators.
DecidedBy_Or(op, cond, target) == IrJumpNotZero(cond, target)
\* A false left operand decides &&, a true one ||.
DecidedBy(op, cond, target) ==
  IF op = "LAND" THEN IrJumpZero(cond, target) ELSE IrJumpNotZero(cond, target)

RECURSIVE EmitExp(_, _)
RECURSIVE EmitArgs(_, _)
EmitArgs(args, g) ==
  IF args = <<>> THEN Lowered(<<>>, g)
  ELSE LET first == EmitExp(Head(args), g)
           rest == EmitArgs(Tail(args), first.g)
       IN Lowered(<<first.val>> \o rest.val, rest.g)

EmitShortCircuit(e, g) ==
  LET target == LabelName(g.n)
      end == LabelName(g.n + 1)
      dst == Temp(g.n + 2)
      decided == IF e.op = "LAND" THEN 0 ELSE 1
      lhs == EmitExp(e.lhs, Taken(g, 3))
      rhs == EmitExp(e.rhs, Emit(lhs.g, <<DecidedBy(e.op, lhs.val, target)>>))
  IN Lowered(dst, Emit(rhs.g, <<
       DecidedBy(e.op, rhs.val, target), IrCopy(IrConstant(1 - decided), dst), IrJump(end),
       IrLabel(target), IrCopy(IrConstant(decided), dst), IrLabel(end)>>))

EmitConditional(e, g) ==
  LET result == Temp(g.n)
      cond == EmitExp(e.lhs, Taken(g, 1))
      false == LabelName(cond.g.n)
      end == LabelName(cond.g.n + 1)
      mid == EmitExp(e.mid, Emit(Taken(cond.g, 2), <<IrJumpZero(cond.val, false)>>))
      rhs == EmitExp(e.rhs, Emit(mid.g, <<IrCopy(mid.val, result), IrJump(end), IrLabel(false)>>))
  IN Lowered(result, Emit(rhs.g, <<IrCopy(rhs.val, result), IrLabel(end)>>))

\* A postfix operator saves the old value first; a prefix operator yields the
\* variable itself.
EmitUnop(e, g) ==
  LET src == EmitExp(e.operand, g)
      dst == Temp(src.g.n)
      step == IrBinop(Step(e.op), src.val, IrConstant(1), src.val)
  IN CASE e.op \in Postfix -> Lowered(dst, Emit(Taken(src.g, 1), <<IrCopy(src.val, dst), step>>))
       [] e.op \in Prefix -> Lowered(src.val, Emit(src.g, <<step>>))
       [] OTHER -> Lowered(dst, Emit(Taken(src.g, 1), <<IrUnop(e.op, src.val, dst)>>))

\* Variant: the operands are evaluated from right to left.
EmitBinop_RightFirst(e, g) ==
  LET rhs == EmitExp(e.rhs, g)
      lhs == EmitExp(e.lhs, rhs.g)
      dst == Temp(lhs.g.n)
  IN Lowered(dst, Emit(Taken(lhs.g, 1), <<IrBinop(e.op, lhs.val, rhs.val, dst)>>))
EmitBinop(e, g) ==
  LET lhs == EmitExp(e.lhs, g)
      rhs == EmitExp(e.rhs, lhs.g)
      dst == Temp(rhs.g.n)
  IN Lowered(dst, Emit(Taken(rhs.g, 1), <<IrBinop(e.op, lhs.val, rhs.val, dst)>>))

\* Variant: a compound assignment reads its operands the other way round.
EmitAssign_Swapped(e, g) ==
  LET var == EmitExp(e.lhs, g)
      rhs == EmitExp(e.rhs, var.g)
  IN Lowered(rhs.val, Emit(rhs.g,
       <<IF e.op = "NOP" THEN IrCopy(rhs.val, var.val)
                         ELSE IrBinop(e.op, rhs.val, var.val, var.val)>>))
\* Every assignment, a compound one too, yields the value of its right side.
EmitAssign(e, g) ==
  LET var == EmitExp(e.lhs, g)
      rhs == EmitExp(e.rhs, var.g)
  IN Lowered(rhs.val, Emit(rhs.g,
       <<IF e.op = "NOP" THEN IrCopy(rhs.val, var.val)
                         ELSE IrBinop(e.op, var.val, rhs.val, var.val)>>))

EmitExp(e, g) ==
  CASE e.kind = "INT" -> Lowered(IrConstant(e.value), g)
    [] e.kind = "VAR" -> Lowered(IrVariable(e.id), g)
    [] e.kind = "UNOP" -> EmitUnop(e, g)
    [] e.kind = "BINOP" /\ e.op \in {"LAND", "LOR"} -> EmitShortCircuit(e, g)
    [] e.kind = "BINOP" /\ e.op \notin {"LAND", "LOR"} -> EmitBinop(e, g)
    [] e.kind = "ASSIGN" -> EmitAssign(e, g)
    [] e.kind = "CONDITIONAL" -> EmitConditional(e, g)
    [] e.kind = "CALL" ->
         LET args == EmitArgs(e.args, g)
             dst == Temp(args.g.n)
         IN Lowered(dst, Emit(Taken(args.g, 1), <<IrFuncall(e.id, args.val, dst)>>))

EmitOptional(opt, g) == IF opt = <<>> THEN g ELSE EmitExp(opt[1], g).g

EmitDeclaration(decl, g) ==
  IF decl.init = <<>> THEN g
  ELSE LET init == EmitExp(decl.init[1], g)
       IN Emit(init.g, <<IrCopy(init.val, IrVariable(decl.id))>>)

-----------------------------------------------------------------------------
(* Statements *)

RECURSIVE EmitStatement(_, _)
RECURSIVE EmitBlock(_, _)
EmitBlock(items, g) ==
  IF items = <<>> THEN g
  ELSE EmitBlock(Tail(items),
         CASE Head(items).kind = "DECL" -> EmitDeclaration(Head(items), g)
           [] Head(items).kind = "FUNC" -> g
           [] OTHER -> EmitStatement(Head(items), g))

EmitIf(s, g) ==
  LET cond == EmitExp(s.cond, g)
      end == LabelName(cond.g.n)
      else == LabelName(cond.g.n + 1)
      then(skip, k) == EmitStatement(s.then_br, Emit(Taken(cond.g, k), <<IrJumpZero(cond.val, skip)>>))
  IN IF s.else_br = <<>> THEN Emit(then(end, 1), <<IrLabel(end)>>)
     ELSE Emit(EmitBlock(s.else_br, Emit(then(else, 2), <<IrJump(end), IrLabel(else)>>)),
               <<IrLabel(end)>>)

\* Variant: the loop goes round without the expression after the body.
EmitPost_Skipped(s, g) == g
EmitPost(s, g) == EmitOptional(s.post, g)

EmitFor(s, g) ==
  LET break == LoopLabel(s.label, "_break")
      init == IF s.init.kind = "DECL" THEN EmitDeclaration(s.init, g)
                                      ELSE EmitOptional(s.init.exp, g)
      start == Emit(init, <<IrLabel(LoopLabel(s.label, "_start"))>>)
      cond == IF s.cond = <<>> THEN start
              ELSE LET c == EmitExp(s.cond[1], start)
                   IN Emit(c.g, <<IrJumpZero(c.val, break)>>)
      body == Emit(EmitStatement(s.body, cond), <<IrLabel(LoopLabel(s.label, "_continue"))>>)
  IN Emit(EmitPost(s, body), <<IrJump(LoopLabel(s.label, "_start")), IrLabel(break)>>)

EmitWhile(s, g) ==
  LET continue == LoopLabel(s.label, "_continue")
      break == LoopLabel(s.label, "_break")
      cond == EmitExp(s.cond, Emit(g, <<IrLabel(continue)>>))
      body == EmitStatement(s.body, Emit(cond.g, <<IrJumpZero(cond.val, break)>>))
  IN Emit(body, <<IrJump(continue), IrLabel(break)>>)

\* Variant: leaves the loop where it should go round.
EmitDoWhile_Inverted(s, g) ==
  LET start == LoopLabel(s.label, "_start")
      body == EmitStatement(s.body, Emit(g, <<IrLabel(start)>>))
      cond == EmitExp(s.cond, Emit(body, <<IrLabel(LoopLabel(s.label, "_continue"))>>))
  IN Emit(cond.g, <<IrJumpZero(cond.val, start), IrLabel(LoopLabel(s.label, "_break"))>>)
EmitDoWhile(s, g) ==
  LET start == LoopLabel(s.label, "_start")
      body == EmitStatement(s.body, Emit(g, <<IrLabel(start)>>))
      cond == EmitExp(s.cond, Emit(body, <<IrLabel(LoopLabel(s.label, "_continue"))>>))
  IN Emit(cond.g, <<IrJumpNotZero(cond.val, start), IrLabel(LoopLabel(s.label, "_break"))>>)

RECURSIVE EmitTests(_, _, _, _)
\* One comparison and one jump for each case, in order; default has none.
EmitTests(s, cond, i, g) ==
  IF i > Len(s.clauses) THEN g
  ELSE EmitTests(s, cond, i + 1,
         IF s.clauses[i].default THEN g
         ELSE Emit(Taken(g, 1), <<
                IrBinop("EQ", cond, IrConstant(s.clauses[i].value), Temp(g.n)),
                IrJumpNotZero(Temp(g.n), ClauseLabel(s.label, i))>>))

RECURSIVE EmitClauses(_, _, _)
EmitClauses(s, i, g) ==
  IF i > Len(s.clauses) THEN g
  ELSE EmitClauses(s, i + 1,
         EmitBlock(s.clauses[i].body, Emit(g, <<IrLabel(ClauseLabel(s.label, i))>>)))

\* Where control goes when no case matches: the last default, if there is one.
Otherwise(s) ==
  LET defaults == {i \in DOMAIN s.clauses : s.clauses[i].default}
  IN IF defaults = {} THEN LoopLabel(s.label, "_break") ELSE ClauseLabel(s.label, Max(defaults))

EmitSwitch(s, g) ==
  LET cond == EmitExp(s.cond, g)
      tests == EmitTests(s, cond.val, 1, cond.g)
      clauses == EmitClauses(s, 1, Emit(tests, <<IrJump(Otherwise(s))>>))
  IN Emit(clauses, <<IrLabel(LoopLabel(s.label, "_break"))>>)

EmitStatement(s, g) ==
  CASE s.kind = "EXP" -> EmitExp(s.exp, g).g
    [] s.kind = "RETURN" -> LET r == EmitExp(s.exp, g) IN Emit(r.g, <<IrReturn(r.val)>>)
    [] s.kind = "IF" -> EmitIf(s, g)
    [] s.kind = "COMPOUND" -> EmitBlock(s.block, g)
    [] s.kind = "FOR" -> EmitFor(s, g)
    [] s.kind = "WHILE" -> EmitWhile(s, g)
    [] s.kind = "DO_WHILE" -> EmitDoWhile(s, g)
    [] s.kind = "SWITCH" -> EmitSwitch(s, g)
    [] s.kind = "BREAK" -> Emit(g, <<IrJump(LoopLabel(s.label, "_break"))>>)
    [] s.kind = "CONTINUE" -> Emit(g, <<IrJump(LoopLabel(s.label, "_continue"))>>)
    [] s.kind = "LABEL" -> Emit(g, <<IrLabel(s.id)>>)
    [] s.kind = "GOTO" -> Emit(g, <<IrJump(s.target)>>)

\* emit_ir_function: no return is added at the end.
EmitFunction(f, n) ==
  LET g == EmitBlock(f.body[1], Generator(n))
  IN [out |-> [id |-> f.id, params |-> f.params, instrs |-> g.code], n |-> g.n]

RECURSIVE EmitProgram(_, _)
\* Only functions with a body are lowered; file-scope variables are not.
EmitProgram(program, n) ==
  IF program = <<>> THEN <<>>
  ELSE LET d == Head(program)
           f == EmitFunction(d, n)
       IN IF d.kind = "FUNC" /\ d.body # <<>>
            THEN <<f.out>> \o EmitProgram(Tail(program), f.n)
            ELSE EmitProgram(Tail(program), n)

\* ir_program_destroy: the names it frees, each with the place it is found at.
\* A temporary is one string, shared by every instruction that mentions it; a
\* reading of a source variable has a copy of its own.
Destroyed(instrs) ==
  UNION {LET i == instrs[k]
             values == CASE i.kind = "RETURN" -> <<i.val>> [] i.kind = "UNOP" -> <<i.dst, i.src>> [] OTHER -> <<>>
         IN {[at |-> <<k, j>>, id |-> values[j].id] : j \in {h \in DOMAIN values : values[h].kind = "VARIABLE"}}
         : k \in DOMAIN instrs}
=============================================================================
