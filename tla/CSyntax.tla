------------------------------ MODULE CSyntax ------------------------------
(***************************************************************************)
(* How a tree is written in C: the grammar of the standard read from left   *)
(* to right, one tier for each of its expression productions, with the      *)
(* parentheses and the spaces that are needed and no others.  Only the tree *)
(* (Ast) and the spellings (Tokens) are shared with the parser.             *)
(***************************************************************************)
EXTENDS Ast, Tokens, TLC

Sign == [MUL |-> "*", DIV |-> "/", MOD |-> "%", ADD |-> "+", SUB |-> "-", LSHIFT |-> "<<", RSHIFT |-> ">>",
         LESS |-> "<", GREATER |-> ">", LEQ |-> "<=", GEQ |-> ">=", EQ |-> "==", NEQ |-> "!=",
         AND |-> "&", XOR |-> "^", OR |-> "|", LAND |-> "&&", LOR |-> "||", NEG |-> "-", NOT |-> "!",
         COMP |-> "~", PREINC |-> "++", PREDEC |-> "--", POSTINC |-> "++", POSTDEC |-> "--", NOP |-> ""]

\* The binary operators, tightest first; the first tier is multiplicative-expression.
BinaryTiers == << {"MUL", "DIV", "MOD"}, {"ADD", "SUB"}, {"LSHIFT", "RSHIFT"},
                  {"LESS", "GREATER", "LEQ", "GEQ"}, {"EQ", "NEQ"}, {"AND"}, {"XOR"}, {"OR"}, {"LAND"}, {"LOR"} >>

Primary == 0
PostfixTier == 1
UnaryTier == 2
LorTier == UnaryTier + Len(BinaryTiers)
ConditionalTier == LorTier + 1
Expression == ConditionalTier + 1

Tier(e) ==
  CASE e.kind \in {"INT", "VAR"} -> Primary
    [] e.kind = "CALL" \/ (e.kind = "UNOP" /\ e.op \in {"POSTINC", "POSTDEC"}) -> PostfixTier
    [] e.kind = "UNOP" /\ e.op \notin {"POSTINC", "POSTDEC"} -> UnaryTier
    [] e.kind = "BINOP" -> UnaryTier + CHOOSE k \in DOMAIN BinaryTiers : e.op \in BinaryTiers[k]
    [] e.kind = "CONDITIONAL" -> ConditionalTier
    [] e.kind = "ASSIGN" -> Expression

Commas(parts) ==
  FlattenSeq([k \in 1 .. Len(parts) |-> IF k = 1 THEN parts[k] ELSE <<",">> \o parts[k]])

RECURSIVE ExpTokens(_)
\* e where the grammar asks for a production of at most this tier.
Within(e, tier) == IF Tier(e) > tier THEN <<"(">> \o ExpTokens(e) \o <<")">> ELSE ExpTokens(e)

ExpTokens(e) ==
  CASE e.kind = "INT" -> <<ToString(e.value)>>
    [] e.kind = "VAR" -> e.id
    [] e.kind = "CALL" ->
         e.id \o <<"(">> \o Commas([k \in DOMAIN e.args |-> Within(e.args[k], Expression)]) \o <<")">>
    [] e.kind = "UNOP" /\ Tier(e) = PostfixTier -> Within(e.operand, PostfixTier) \o <<Sign[e.op]>>
    [] e.kind = "UNOP" /\ Tier(e) = UnaryTier -> <<Sign[e.op]>> \o Within(e.operand, UnaryTier)
    [] e.kind = "BINOP" -> Within(e.lhs, Tier(e)) \o <<Sign[e.op]>> \o Within(e.rhs, Tier(e) - 1)
    [] e.kind = "CONDITIONAL" -> Within(e.lhs, LorTier) \o <<"?">> \o Within(e.mid, Expression)
                                   \o <<":">> \o Within(e.rhs, ConditionalTier)
    [] e.kind = "ASSIGN" -> Within(e.lhs, UnaryTier) \o <<Sign[e.op] \o "=">> \o Within(e.rhs, Expression)

InParentheses(e) == <<"(">> \o ExpTokens(e) \o <<")">>
OptionalTokens(opt) == IF opt = <<>> THEN <<>> ELSE ExpTokens(opt[1])

StorageTokens(storage) ==
  CASE storage = "AUTO" -> <<>> [] storage = "STATIC" -> <<"static">> [] storage = "EXTERN" -> <<"extern">>

RECURSIVE StatementTokens(_)
RECURSIVE DeclarationTokens(_)
BlockTokens(items) == FlattenSeq([k \in DOMAIN items |->
  IF IsDeclaration(items[k]) THEN DeclarationTokens(items[k]) ELSE StatementTokens(items[k])])
Braced(items) == <<"{">> \o BlockTokens(items) \o <<"}">>

DeclarationTokens(d) ==
  IF d.kind = "DECL"
    THEN StorageTokens(d.storage) \o <<"int">> \o d.id
           \o (IF d.init = <<>> THEN <<>> ELSE <<"=">> \o ExpTokens(d.init[1])) \o <<";">>
    ELSE <<"int">> \o d.id \o <<"(">>
           \o (IF d.params = <<>> THEN <<"void">>
               ELSE Commas([k \in DOMAIN d.params |-> <<"int">> \o d.params[k]]))
           \o <<")">> \o (IF d.body = <<>> THEN <<";">> ELSE Braced(d.body[1]))

ClauseTokens(c) ==
  (IF c.default THEN <<"default">> ELSE <<"case", ToString(c.value)>>) \o <<":">> \o BlockTokens(c.body)

\* Statements and items in the order of their parts; an if whose first branch
\* ends in an if without else is not written as an else would join it.
StatementTokens(s) ==
  CASE s.kind = "EXP" -> ExpTokens(s.exp) \o <<";">>
    [] s.kind = "RETURN" -> <<"return">> \o ExpTokens(s.exp) \o <<";">>
    [] s.kind = "COMPOUND" -> Braced(s.block)
    [] s.kind = "IF" -> <<"if">> \o InParentheses(s.cond) \o StatementTokens(s.then_br)
         \o (IF s.else_br = <<>> THEN <<>> ELSE <<"else">> \o StatementTokens(s.else_br[1]))
    [] s.kind = "FOR" ->
         <<"for", "(">> \o (IF s.init.kind = "DECL" THEN DeclarationTokens(s.init)
                                                    ELSE OptionalTokens(s.init.exp) \o <<";">>)
           \o OptionalTokens(s.cond) \o <<";">> \o OptionalTokens(s.post) \o <<")">> \o StatementTokens(s.body)
    [] s.kind = "WHILE" -> <<"while">> \o InParentheses(s.cond) \o StatementTokens(s.body)
    [] s.kind = "DO_WHILE" ->
         <<"do">> \o StatementTokens(s.body) \o <<"while">> \o InParentheses(s.cond) \o <<";">>
    [] s.kind = "SWITCH" -> <<"switch">> \o InParentheses(s.cond) \o <<"{">>
         \o FlattenSeq([k \in DOMAIN s.clauses |-> ClauseTokens(s.clauses[k])]) \o <<"}">>
    [] s.kind = "BREAK" -> <<"break", ";">>
    [] s.kind = "CONTINUE" -> <<"continue", ";">>
    [] s.kind = "LABEL" -> s.id \o <<":">>
    [] s.kind = "GOTO" -> <<"goto">> \o s.target \o <<";">>

ProgramTokens(program) == FlattenSeq([k \in DOMAIN program |-> DeclarationTokens(program[k])])

-----------------------------------------------------------------------------
(* Spaces *)

FirstChar(s) == SubSeq(s, 1, 1)
LastChar(s) == SubSeq(s, Len(s), Len(s))

PunctSpellings == [k \in DOMAIN PunctTable |-> Joined(PunctTable[k])]

\* Without a space between them, p and q would be read as something else.
WouldMerge(p, q) ==
  \/ {LastChar(p), FirstChar(q)} \subseteq Letter \cup Digit
  \/ \E k \in DOMAIN PunctTable :
       LET n == Len(PunctTable[k])
       IN n > Len(p) /\ n <= Len(p \o q) /\ SubSeq(p \o q, 1, n) = PunctSpellings[k]

TextOf(lexemes) ==
  FoldLeft(LAMBDA s, k : s \o (IF k > 1 /\ WouldMerge(lexemes[k - 1], lexemes[k]) THEN " " ELSE "") \o lexemes[k],
           "", [k \in DOMAIN lexemes |-> k])
=============================================================================
