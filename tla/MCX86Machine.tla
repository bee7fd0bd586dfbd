---------------------------- MODULE MCX86Machine ----------------------------
(***************************************************************************)
(* The functions whose compilation and execution TLC explores: every        *)
(* instruction shape emit_ir can produce that the emitter can encode, and   *)
(* hand-written functions with jumps, loops and calls of 0 to 8 arguments.  *)
(***************************************************************************)
EXTENDS X86Machine

C(n) == IrConstant(n)
V(x) == IrVariable(x)
Function(params, instrs) == [params |-> params, instrs |-> instrs]

MCAddresses == {4 * k : k \in -20 .. 9}

\* A destination is a fresh temporary, or the left operand of `x op= e`.
Destinations(lhs) == {V("t")} \cup (IF lhs.kind = "VARIABLE" THEN {lhs} ELSE {})

Arithmetic == {"ADD", "SUB", "MUL", "AND", "XOR"} \cup IrRelations
BinopsOf(ops, lefts, rights) ==
  UNION {{IrBinop(op, lhs, rhs, dst) : op \in ops, rhs \in rights, dst \in Destinations(lhs)}
         : lhs \in lefts}

\* No division by a constant and no shift by a variable: the emitter has no
\* code for them (see AllEncodable).
Binops ==
  BinopsOf(Arithmetic, {V("a"), C(2)}, {V("b"), V("a"), C(-1)})
    \cup BinopsOf({"DIV", "MOD"}, {V("a"), C(-4)}, {V("a"), V("b")})
    \cup BinopsOf({"LSHIFT", "RSHIFT"}, {V("a"), C(3)}, {C(1)})
Unops == {IrUnop(op, src, V("t")) : op \in {"NEG", "COMP", "NOT"}, src \in {V("a"), C(0)}}

OneInstruction ==
  {Function(<<"a", "b">>, <<i, IrReturn(i.dst)>>) : i \in Binops \cup Unops}

\* a counts down to 0; b is doubled each time round.
Loop == Function(<<"a", "b">>, <<
  IrLabel("top"), IrJumpZero(V("a"), "out"), IrBinop("ADD", V("b"), V("b"), V("b")),
  IrBinop("SUB", V("a"), C(1), V("a")), IrJump("top"), IrLabel("out"), IrReturn(V("b"))>>)

Select == Function(<<"a", "b">>, <<
  IrJumpNotZero(V("a"), "else"), IrCopy(C(1), V("t")), IrJump("end"), IrLabel("else"),
  IrCopy(V("b"), V("t")), IrLabel("end"), IrReturn(V("t"))>>)

\* No return: control reaches the end.
NoReturn == Function(<<"a">>, <<IrCopy(V("a"), V("t"))>>)

PlainFunctions == OneInstruction \cup {Loop, Select, NoReturn}

-----------------------------------------------------------------------------
(* Calls *)

MCIds == {"a", "b", "t", "p", "q", "r", "u", "v", "w"}

Args(n) == SubSeq(<<V("a"), C(1), V("b"), C(2), V("t"), C(3), V("b"), V("a")>>, 1, n)

\* Two calls in a row, so that the second sees what the first left behind.
CallTwice(n, m) == Function(<<"a", "b">>, <<
  IrFuncall("f", Args(n), V("t")), IrFuncall("g", Args(m), V("p")),
  IrBinop("ADD", V("t"), V("p"), V("q")), IrReturn(V("q"))>>)

ConstantOnStack == Function(<<"a">>, <<
  IrFuncall("f", <<C(0), C(1), C(2), C(3), C(0), C(1), C(-2), V("a"), C(2)>>, V("t")),
  IrReturn(V("t"))>>)

\* Parameters that arrived in registers and on the stack are passed on.
PassOn == Function(<<"a", "b", "t", "p", "q", "r", "u", "v", "w">>, <<
  IrFuncall("f", <<V("w"), V("u"), V("b"), V("a"), V("p"), V("t"), V("v"), V("r")>>, V("a")),
  IrReturn(V("u"))>>)

CallFunctions ==
  {CallTwice(n, m) : n \in {0, 5, 6, 7, 8}, m \in {1, 7, 8}} \cup {ConstantOnStack, PassOn}

\* One parameter differs from all the others, so a misrouted value shows.
OneHot == {[x \in MCIds |-> IF x = y THEN hot ELSE cold] : y \in MCIds, hot \in {-4, 3}, cold \in {0, 2}}

MCFunctions == PlainFunctions \cup CallFunctions

\* All values of two parameters where nothing is called.
MCEnvironments(f) == IF f \in CallFunctions THEN OneHot ELSE [{"a", "b"} -> Word]
MCGarbage == {-3, 2}
=============================================================================
