------------------------------- MODULE Lexer -------------------------------
(***************************************************************************)
(* tokenize (src/lexer/token.c): one pass over the text, one iteration of   *)
(* its loop per action.                                                     *)
(***************************************************************************)
EXTENDS Tokens, Words, FiniteSetsExt

VARIABLES
  text,     \* the source text, a sequence of characters
  at,       \* index of the next character (source + i)
  tokens,   \* the token list
  spans,    \* history: <<first, past>>, the characters each token was read from
  lexed     \* "running", or what tokenize returned: "ok", "unexpected"

lexVars == <<text, at, tokens, spans, lexed>>

-----------------------------------------------------------------------------
AtEnd(i) == i > Len(text)
Char(i) == text[i]

\* Where the run of characters of S that starts at i ends.
RunEnd(i, S) ==
  CHOOSE j \in i .. Len(text) + 1 : /\ \A k \in i .. j - 1 : Char(k) \in S
                                    /\ AtEnd(j) \/ Char(j) \notin S

DigitValue(c) == CHOOSE d \in 0 .. 9 : c \in Digit => Digits[d + 1] = c

\* val = val * 10 + digit, in an int: the overflow of a literal that does not
\* fit is undefined in C and wraps around in the build of the Makefile.
LiteralValue(digits) ==
  LET val[n \in Nat] == IF n = 0 THEN 0 ELSE Wrap(val[n - 1] * 10 + DigitValue(digits[n]))
  IN val[Len(digits)]

\* The entries of the table the text goes on with.
PunctsAt(i) ==
  {k \in DOMAIN PunctTable :
     LET n == Len(PunctTable[k])
     IN i + n - 1 <= Len(text) /\ SubSeq(text, i, i + n - 1) = PunctTable[k]}

\* Variant: the last entry that fits wins.
PunctLookup_Last(i) == IF PunctsAt(i) = {} THEN 0 ELSE Max(PunctsAt(i))
PunctLookup(i) == IF PunctsAt(i) = {} THEN 0 ELSE Min(PunctsAt(i))

-----------------------------------------------------------------------------
LexInit == at = 1 /\ tokens = <<>> /\ spans = <<>> /\ lexed = "running"

Lexing == lexed = "running" /\ UNCHANGED text

Push(token, past) ==
  /\ tokens' = Append(tokens, token)
  /\ spans' = Append(spans, <<at, past>>)
  /\ at' = past
  /\ UNCHANGED lexed

LexWord ==
  /\ Lexing
  /\ ~AtEnd(at) /\ Char(at) \in Letter
  /\ LET past == RunEnd(at, Letter \cup Digit)
         word == Joined(SubSeq(text, at, past - 1))
     IN Push(IF word \in Keywords THEN Keyword(word) ELSE Identifier(word), past)

LexNumber ==
  /\ Lexing
  /\ ~AtEnd(at) /\ Char(at) \in Digit
  /\ LET past == RunEnd(at, Digit)
     IN Push(Literal(LiteralValue(SubSeq(text, at, past - 1))), past)

\* Variant: the loop does not move past a space.
LexSpace_Stays ==
  /\ Lexing
  /\ ~AtEnd(at) /\ Char(at) \in Blank
  /\ UNCHANGED <<at, tokens, spans, lexed>>
LexSpace ==
  /\ Lexing
  /\ ~AtEnd(at) /\ Char(at) \in Blank
  /\ at' = at + 1
  /\ UNCHANGED <<tokens, spans, lexed>>

LexPunct ==
  /\ Lexing
  /\ ~AtEnd(at) /\ Char(at) \notin Letter \cup Digit \cup Blank
  /\ PunctLookup(at) # 0
  /\ LET p == PunctTable[PunctLookup(at)]
     IN Push(IF Joined(p) \in Separators THEN Sep(Joined(p)) ELSE Op(Joined(p)), at + Len(p))

LexUnexpected ==
  /\ Lexing
  /\ ~AtEnd(at) /\ Char(at) \notin Letter \cup Digit \cup Blank
  /\ PunctLookup(at) = 0
  /\ lexed' = "unexpected"
  /\ UNCHANGED <<at, tokens, spans>>

LexEnd ==
  /\ Lexing
  /\ AtEnd(at)
  /\ lexed' = "ok"
  /\ UNCHANGED <<at, tokens, spans>>

Lex == LexWord \/ LexNumber \/ LexSpace \/ LexPunct \/ LexUnexpected \/ LexEnd

\* tokenize by itself, on any text.
LexSpec == text \in Seq(STRING) /\ LexInit /\ [][Lex]_lexVars

-----------------------------------------------------------------------------
(* What C says a token is *)

Puncts == ToSet(PunctTable)

\* The characters from i up to, not including, j are a token.
IsLexeme(i, j) ==
  \/ Char(i) \in Letter /\ \A k \in i .. j - 1 : Char(k) \in Letter \cup Digit
  \/ \A k \in i .. j - 1 : Char(k) \in Digit
  \/ SubSeq(text, i, j - 1) \in Puncts

\* The number written there, however large.
DecimalValue(digits) ==
  LET number[n \in Nat] == IF n = 0 THEN 0 ELSE 10 * number[n - 1] + DigitValue(digits[n])
  IN number[Len(digits)]

\* The token with this spelling, a sequence of characters.
Denotes(token, spelling) ==
  CASE token.kind = "INT_LITERAL" -> token.value = Wrap(DecimalValue(spelling))
    [] token.kind = "KEYWORD" -> token.as = Joined(spelling) /\ Joined(spelling) \in Keywords
    [] token.kind = "IDENTIFIER" -> token.as = Joined(spelling) /\ Joined(spelling) \notin Keywords
    [] OTHER -> token.as = Joined(spelling)

OnlySpace(i, j) == \A k \in i .. j - 1 : Char(k) \in Blank

\* Where the k tokens read first end.
Past(k) == IF k = 0 THEN 1 ELSE spans[k][2]

\* Token n is the longest one the text goes on with after token n - 1 and some
\* space, and means what is written there.
WellRead(n) ==
  LET first == spans[n][1]
  IN /\ IsLexeme(first, Past(n))
     /\ \A longer \in Past(n) + 1 .. Len(text) + 1 : ~IsLexeme(first, longer)
     /\ Denotes(tokens[n], SubSeq(text, first, Past(n) - 1))
     /\ Past(n - 1) <= first /\ OnlySpace(Past(n - 1), first)

\* The token read last is the longest one the text went on with and means what
\* is written there, between it and the one before, and after it, is only
\* space, and the lexer gives up only where no token starts (the order of
\* punct_table and the loop of tokenize).
LongestMatch ==
  LET n == Len(spans)
  IN /\ n = Len(tokens)
     /\ n > 0 => WellRead(n)
     /\ OnlySpace(Past(n), at)
     /\ lexed = "ok" => at = Len(text) + 1
     /\ lexed = "unexpected" => /\ Char(at) \notin Blank
                                /\ \A j \in at + 1 .. Len(text) + 1 : ~IsLexeme(at, j)
=============================================================================
