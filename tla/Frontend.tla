------------------------------ MODULE Frontend ------------------------------
(***************************************************************************)
(* The first two stages of main (src/main.c): tokenize_file and             *)
(* parse_program, from a text to a tree or to a message.                    *)
(***************************************************************************)
EXTENDS Lexer, Parser, CSyntax

CONSTANTS Written,  \* trees; their texts are given to the compiler
          Texts     \* other texts, most of them not programs

VARIABLES
  meant,    \* history: <<the tree the text was written from>>, or <<>>
  outcome,  \* "reading", or how the parser or the lexer stopped
  ast       \* the parsed program

vars == <<lexVars, meant, outcome, ast>>

Init ==
  /\ \/ \E program \in Written : meant = <<program>> /\ text = CharactersOf(TextOf(ProgramTokens(program)))
     \/ meant = <<>> /\ \E s \in Texts : text = CharactersOf(s)
  /\ LexInit
  /\ outcome = "reading"
  /\ ast = <<>>

Tokenize == Lex /\ UNCHANGED <<meant, outcome, ast>>

\* main prints a message and returns 1.
TokenizeFails ==
  /\ outcome = "reading"
  /\ lexed = "unexpected"
  /\ outcome' = "rejected"
  /\ UNCHANGED <<lexVars, meant, ast>>

Parse ==
  /\ outcome = "reading"
  /\ lexed = "ok"
  /\ LET r == ParseProgram(tokens, 1)
     IN /\ outcome' = r.how
        /\ ast' = IF r.how = "parsed" THEN r.out ELSE ast
  /\ UNCHANGED <<lexVars, meant>>

Done == outcome # "reading" /\ UNCHANGED vars

Next == Tokenize \/ TokenizeFails \/ Parse \/ Done

\* The compiler, once started, is not suspended for ever.
Spec == Init /\ [][Next]_vars /\ WF_vars(Tokenize \/ TokenizeFails \/ Parse)

-----------------------------------------------------------------------------
(* Properties *)

\* A program written with no more parentheses and spaces than C asks for is
\* read back as the tree it was written from: precedence and associativity of
\* every pair of operators, the else of nested ifs, the optional parts of a
\* for, the clauses of a switch (parse_expression, parse_statement).
RoundTrip == (outcome # "reading" /\ meant # <<>>) => (outcome = "parsed" /\ ast = meant[1])

Spelling(token) == IF token.kind = "INT_LITERAL" THEN ToString(token.value) ELSE token.as
Unparenthesised(lexemes) == SelectSeq(lexemes, LAMBDA s : s \notin {"(", ")"})

\* A text that is accepted says nothing but what its tree says: no token is
\* skipped, none is read twice (expect_separator and the loops of the parser).
NothingElseAccepted ==
  outcome = "parsed" =>
    Unparenthesised(ProgramTokens(ast)) = Unparenthesised([k \in DOMAIN tokens |-> Spelling(tokens[k])])

\* Malformed input is reported as a diagnostic, not by an internal compiler
\* error nor by a read past the end of the token list (ice.h, tok_to_unop).
MalformedIsDiagnosed == outcome \notin {"ice", "undefined"}

\* Lexing and parsing end, whatever the text (the loop of tokenize).
EveryTextIsDecided == <>(outcome # "reading")
=============================================================================
