------------------------------ MODULE MCDriver ------------------------------
(***************************************************************************)
(* Two sources in one directory: p.c holds texts of every fate, q.c one     *)
(* that compiles.                                                           *)
(***************************************************************************)
EXTENDS Driver

CONSTANTS p1, p2

MCPaths == {"p.c", "p.s", "p", "q.c", "q.s", "q", "r.c", "r.s", "r"}

\* A text is called after the stage that refuses it.
MCTextsAt(path) ==
  CASE path = "p.c" -> {"fine", "lex", "parse", "ice", "destroy", "assembler"}
    [] path = "q.c" -> {"fine2"}
    [] OTHER -> {}
MCFate(t) == IF t = "fine2" THEN "fine" ELSE t

MCArguments ==
  {<<o, "p.c">> : o \in StageOptions} \cup {<<"p.c">>, <<"q.c">>, <<"r.c">>}
    \cup {<<"p.c", "--lex", "--codegen">>, <<"--ir", "p.c", "q.c">>, <<".c">>, <<>>, <<"p.c", "--help">>}
=============================================================================
