------------------------------- MODULE Tokens -------------------------------
(***************************************************************************)
(* The tokens of src/lexer/token.h.  A token is its kind and the spelling   *)
(* that stands for the enumerator, or the value of a literal.               *)
(***************************************************************************)
EXTENDS Integers, Sequences, SequencesExt

\* A text is a sequence of characters, a character a string of one.
CharactersOf(s) == [k \in 1 .. Len(s) |-> SubSeq(s, k, k)]
Joined(chars) == FoldLeft(LAMBDA s, c : s \o c, "", chars)

Letter == {
  "a", "b", "c", "d", "e", "f", "g", "h", "i", "j", "k", "l", "m", "n", "o",
  "p", "q", "r", "s", "t", "u", "v", "w", "x", "y", "z", "A", "B", "C", "D",
  "E", "F", "G", "H", "I", "J", "K", "L", "M", "N", "O", "P", "Q", "R", "S",
  "T", "U", "V", "W", "X", "Y", "Z", "_"}
Digits == <<"0", "1", "2", "3", "4", "5", "6", "7", "8", "9">>
Digit == {"0", "1", "2", "3", "4", "5", "6", "7", "8", "9"}
\* isspace; TLA+ has no way to write the vertical tab, which is one too.
Blank == {" ", "\t", "\n", "\f", "\r"}

Keywords == {"if", "else", "int", "return", "void", "for", "while", "do", "break",
             "continue", "goto", "switch", "case", "default", "static", "extern"}

\* In the order of the table: a lexeme comes before its prefixes.
PunctTable == <<
  <<">",">","=">>, <<"<","<","=">>, <<"+","+">>, <<"-","-">>, <<"<","<">>,
  <<">",">">>, <<"=","=">>, <<"!","=">>, <<"<","=">>, <<">","=">>,
  <<"&","&">>, <<"|","|">>, <<"+","=">>, <<"-","=">>, <<"*","=">>,
  <<"/","=">>, <<"%","=">>, <<"&","=">>, <<"|","=">>, <<"^","=">>, <<"+">>,
  <<"-">>, <<"*">>, <<"/">>, <<"%">>, <<"~">>, <<"&">>, <<"|">>, <<"^">>,
  <<"!">>, <<"<">>, <<">">>, <<"=">>, <<"(">>, <<")">>, <<"{">>, <<"}">>,
  <<",">>, <<";">>, <<":">>, <<"?">>>>
Separators == {"(", ")", "{", "}", ",", ";", ":"}

Sep(s) == [kind |-> "SEPARATOR", as |-> s]
Op(s) == [kind |-> "OPERATOR", as |-> s]
Keyword(s) == [kind |-> "KEYWORD", as |-> s]
Identifier(s) == [kind |-> "IDENTIFIER", as |-> s]
Literal(n) == [kind |-> "INT_LITERAL", value |-> n]
=============================================================================
