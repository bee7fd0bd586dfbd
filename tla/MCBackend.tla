----------------------------- MODULE MCBackend -----------------------------
(***************************************************************************)
(* Functions of two instructions over a handful of variables, and calls    *)
(* with 0 to 9 arguments, as input of the three passes.                     *)
(***************************************************************************)
EXTENDS Backend

C(n) == IrConstant(n)
V(x) == IrVariable(x)

MCIds == {"a", "b", "c", "d", "e", "g1", "g2"}

\* One instruction of every kind and, for the ones allocate_stack rewrites,
\* of every combination of operand kinds.
Values == {V("a"), V("b"), C(1)}
Instructions ==
  {IrBinop(op, lhs, rhs, V("c")) : op \in {"SUB", "MUL", "LESS"}, lhs \in Values, rhs \in Values}
    \cup {IrBinop("DIV", lhs, V("b"), V("d")) : lhs \in Values}
    \cup {IrBinop("LSHIFT", lhs, C(2), V("d")) : lhs \in Values}
    \cup {IrUnop(op, src, V("e")) : op \in {"NOT", "COMP"}, src \in Values}
    \cup {IrCopy(src, V("d")) : src \in Values}
    \cup {IrJumpZero(V("d"), "l"), IrLabel("l"), IrJump("l"), IrJumpNotZero(C(1), "l"), IrReturn(V("c"))}

Args(n) == SubSeq(<<V("a"), C(1), V("b"), C(2), V("c"), C(3), V("d"), C(4), V("e")>>, 1, n)
Calls == {IrFuncall("f", Args(n), V("e")) : n \in 0 .. 9}

MCFunctions ==
  [params : {<<"a", "b">>}, instrs : {<<i, j>> : i \in Instructions, j \in Instructions}]
    \cup [params : {<<>>, <<"e", "d", "c", "b", "a", "g1", "g2">>},
          instrs : {<<i, j>> : i \in Calls, j \in Calls}]

\* A division by a constant and a shift by a variable, which the front end
\* accepts as readily as any other.
UnsupportedOperands == [params : {<<"a", "b">>},
              instrs : {<<IrBinop(op, lhs, rhs, V("c")), IrReturn(V("c"))>> :
                          op \in {"ADD", "DIV", "MOD", "LSHIFT", "RSHIFT"}, lhs \in Values, rhs \in Values}]
=============================================================================
