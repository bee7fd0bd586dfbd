------------------------------- MODULE Parser -------------------------------
(***************************************************************************)
(* The recursive descent of src/parser/parser.c (lines 1-666) over a token  *)
(* list t from index i, one operator per C function.  What a function       *)
(* returns is Parsed(tree, index of the next token), or how it stopped:     *)
(*   "rejected"   a message and exit(1)                                     *)
(*   "ice"        an internal compiler error, abort()                       *)
(*   "undefined"  current() read past the end of the list to decide what    *)
(*                comes next; anything may follow                           *)
(* The storage class of a function is not kept: nothing reads it.           *)
(***************************************************************************)
EXTENDS Ast, Tokens

Parsed(out, i) == [how |-> "parsed", out |-> out, at |-> i]
Stop(how) == [how |-> how]

\* r is bound by a set so that TLC computes it once, however often it is used.
Then(r, Rest(_, _)) ==
  CHOOSE after \in {IF x.how = "parsed" THEN Rest(x.out, x.at) ELSE x : x \in {r}} : TRUE
Mapped(r, F(_)) == Then(r, LAMBDA out, i : Parsed(F(out), i))

EndOfInput == [kind |-> "END", as |-> ""]
Tok(t, i) == IF i <= Len(t) THEN t[i] ELSE EndOfInput

\* A decision taken on the current token, whether or not there is one.
Current(t, i, decision) == IF i <= Len(t) THEN decision ELSE Stop("undefined")

\* expect_separator, expect_keyword: at the end of the list, too, they exit.
Expect(t, i, token) == IF Tok(t, i) = token THEN Parsed(token, i + 1) ELSE Stop("rejected")
\* Variant: the token is skipped, whatever it is.
Followed_Unchecked(r, t, token) == Then(r, LAMBDA out, i : Parsed(out, i + 1))
Followed(r, t, token) ==
  Then(r, LAMBDA out, i : IF Tok(t, i) = token THEN Parsed(out, i + 1) ELSE Stop("rejected"))

-----------------------------------------------------------------------------
(* Expressions: precedence climbing *)

AssignOpOf(sign) ==
  CASE sign = "=" -> "NOP" [] sign = "+=" -> "ADD" [] sign = "-=" -> "SUB" [] sign = "*=" -> "MUL"
    [] sign = "/=" -> "DIV" [] sign = "%=" -> "MOD" [] sign = "&=" -> "AND" [] sign = "|=" -> "OR"
    [] sign = "^=" -> "XOR" [] sign = ">>=" -> "RSHIFT" [] sign = "<<=" -> "LSHIFT"
Assignments == {"=", "+=", "-=", "*=", "/=", "%=", "&=", "|=", "^=", ">>=", "<<="}

BinopOf(sign) ==
  CASE sign = "+" -> "ADD" [] sign = "-" -> "SUB" [] sign = "*" -> "MUL" [] sign = "/" -> "DIV"
    [] sign = "%" -> "MOD" [] sign = "&" -> "AND" [] sign = "|" -> "OR" [] sign = "^" -> "XOR"
    [] sign = "<<" -> "LSHIFT" [] sign = ">>" -> "RSHIFT" [] sign = "&&" -> "LAND" [] sign = "||" -> "LOR"
    [] sign = "==" -> "EQ" [] sign = "!=" -> "NEQ" [] sign = "<" -> "LESS" [] sign = ">" -> "GREATER"
    [] sign = "<=" -> "LEQ" [] sign = ">=" -> "GEQ"

\* is_binop: every operator but these.
IsBinop(token) == token.kind = "OPERATOR" /\ token.as \notin {"++", "--", "~", "!"}

Precedence(sign) ==
  CASE sign \in {"*", "/", "%"} -> 50 [] sign \in {"+", "-"} -> 45 [] sign \in {"<<", ">>"} -> 40
    [] sign \in {"<", ">", "<=", ">="} -> 35 [] sign \in {"==", "!="} -> 30 [] sign = "&" -> 25
    [] sign = "^" -> 20 [] sign = "|" -> 15 [] sign = "&&" -> 10 [] sign = "||" -> 5
    [] sign = "?" -> 3 [] sign \in Assignments -> 1

\* The least precedence that still belongs to the right operand.
RightMin_Same(sign) == Precedence(sign)
RightMin(sign) == IF sign \in Assignments \cup {"?"} THEN Precedence(sign) ELSE Precedence(sign) + 1

UnopOf(sign) == CASE sign = "~" -> "COMP" [] sign = "-" -> "NEG" [] sign = "!" -> "NOT"

RECURSIVE ParseFactor(_, _)
RECURSIVE ParseExp(_, _, _)
RECURSIVE Climb(_, _, _, _)

\* The operand is parsed before the operator is looked at (tok_to_unop).
ParseUnary(t, i) ==
  LET sign == t[i].as
      name == Tok(t, i + 1)
  IN IF sign \in {"++", "--"} /\ name.kind = "IDENTIFIER"
       THEN Parsed(Unop(IF sign = "++" THEN "PREINC" ELSE "PREDEC", Var(<<name.as>>)), i + 2)
       ELSE Then(ParseFactor(t, i + 1), LAMBDA e, j :
              IF sign \in {"~", "-", "!"} THEN Parsed(Unop(UnopOf(sign), e), j) ELSE Stop("ice"))

RECURSIVE ParseArgs(_, _)
ParseArgs(t, i) ==
  Then(ParseExp(t, i, 0), LAMBDA e, j : Current(t, j,
    IF t[j] = Sep(",") THEN Mapped(ParseArgs(t, j + 1), LAMBDA es : <<e>> \o es)
                       ELSE Parsed(<<e>>, j)))

ParseName(t, i) ==
  LET name == <<t[i].as>>
      next == Tok(t, i + 1)
  IN Current(t, i + 1,
       CASE next \in {Op("++"), Op("--")} ->
              Parsed(Unop(IF next.as = "++" THEN "POSTINC" ELSE "POSTDEC", Var(name)), i + 2)
         [] next = Sep("(") -> Current(t, i + 2,
              IF t[i + 2] = Sep(")") THEN Parsed(CallOf(name, <<>>), i + 3)
              ELSE Mapped(Followed(ParseArgs(t, i + 2), t, Sep(")")), LAMBDA args : CallOf(name, args)))
         [] OTHER -> Parsed(Var(name), i + 1))

ParseFactor(t, i) == Current(t, i,
  CASE t[i].kind = "INT_LITERAL" -> Parsed(Int_(t[i].value), i + 1)
    [] t[i].kind = "OPERATOR" -> ParseUnary(t, i)
    [] t[i].kind = "IDENTIFIER" -> ParseName(t, i)
    [] t[i] = Sep("(") -> Followed(ParseExp(t, i + 1, 0), t, Sep(")"))
    [] OTHER -> Stop("rejected"))

ParseExp(t, i, min) == Then(ParseFactor(t, i), LAMBDA e, j : Climb(t, j, min, e))

\* The loop of parse_expression, with lhs parsed so far.
Climb(t, i, min, lhs) == Current(t, i,
  IF ~IsBinop(t[i]) \/ (IsBinop(t[i]) /\ Precedence(t[i].as) < min) THEN Parsed(lhs, i)
  ELSE LET sign == t[i].as
           Right(j) == ParseExp(t, j, RightMin(sign))
       IN CASE sign = "?" ->
                 Then(Followed(ParseExp(t, i + 1, 0), t, Sep(":")), LAMBDA mid, j :
                   Then(Right(j), LAMBDA rhs, k : Climb(t, k, min, Conditional(lhs, mid, rhs))))
            [] sign \in Assignments ->
                 Then(Right(i + 1), LAMBDA rhs, j : Climb(t, j, min, AssignTo(AssignOpOf(sign), lhs, rhs)))
            [] OTHER ->
                 Then(Right(i + 1), LAMBDA rhs, j : Climb(t, j, min, Binop(BinopOf(sign), lhs, rhs))))

Parenthesised(t, i) ==
  Then(Expect(t, i, Sep("(")), LAMBDA open, j : Followed(ParseExp(t, j, 0), t, Sep(")")))

\* The second and third part of a for.
ParseOptional(t, i, close) == Current(t, i,
  IF t[i] = close THEN Parsed(<<>>, i + 1)
  ELSE Followed(Mapped(ParseExp(t, i, 0), LAMBDA e : <<e>>), t, close))

-----------------------------------------------------------------------------
(* Declarations *)

RECURSIVE ParseItems(_, _, _)
RECURSIVE ParseStatement(_, _)

ParseBlock(t, i) ==
  Then(Expect(t, i, Sep("{")), LAMBDA open, j : Followed(ParseItems(t, j, {Sep("}")}), t, Sep("}")))

Specifiers == {Keyword("int"), Keyword("static"), Keyword("extern")}

RECURSIVE ParseSpecifiers(_, _, _, _)
ParseSpecifiers(t, i, intSeen, storage) == Current(t, i,
  CASE t[i].kind # "KEYWORD" -> IF intSeen THEN Parsed(storage, i) ELSE Stop("rejected")
    [] t[i] = Keyword("int") /\ ~intSeen -> ParseSpecifiers(t, i + 1, TRUE, storage)
    [] t[i] = Keyword("static") /\ storage = "AUTO" -> ParseSpecifiers(t, i + 1, intSeen, "STATIC")
    [] t[i] = Keyword("extern") /\ storage = "AUTO" -> ParseSpecifiers(t, i + 1, intSeen, "EXTERN")
    [] OTHER -> Stop("rejected"))

RECURSIVE ParseParams(_, _)
\* A parameter begins with any keyword; after void there is none.
ParseParams(t, i) ==
  IF Tok(t, i).kind # "KEYWORD" THEN Parsed(<<>>, i)
  ELSE IF t[i] = Keyword("void") THEN Parsed(<<>>, i + 1)
  ELSE LET named == Tok(t, i + 1).kind = "IDENTIFIER"
           param == IF named THEN <<t[i + 1].as>> ELSE <<>>
           j == IF named THEN i + 2 ELSE i + 1
       IN Current(t, j,
            IF t[j] # Sep(",") THEN Parsed(<<param>>, j)
            ELSE IF Tok(t, j + 1).kind # "KEYWORD" THEN Stop("rejected")
            ELSE Mapped(ParseParams(t, j + 1), LAMBDA params : <<param>> \o params))

\* From after the "(": a body needs a name for every parameter.
ParseTail(t, i, name) ==
  Then(Followed(ParseParams(t, i), t, Sep(")")), LAMBDA params, j : Current(t, j,
    IF t[j] = Sep(";") THEN Parsed(Function(name, params, <<>>), j + 1)
    ELSE IF <<>> \in ToSet(params) THEN Stop("rejected")
    ELSE Mapped(ParseBlock(t, j), LAMBDA b : Function(name, params, <<b>>))))

ParseDeclarator(t, i, storage) ==
  LET name == <<t[i].as>>
  IN Current(t, i + 1,
       CASE t[i + 1] = Sep("(") -> ParseTail(t, i + 2, name)
         [] t[i + 1] = Op("=") ->
              Mapped(Followed(ParseExp(t, i + 2, 0), t, Sep(";")), LAMBDA e : VarDecl(name, <<e>>, storage))
         [] OTHER -> Mapped(Expect(t, i + 1, Sep(";")), LAMBDA s : VarDecl(name, <<>>, storage)))

ParseDeclaration(t, i) ==
  Then(ParseSpecifiers(t, i, FALSE, "AUTO"), LAMBDA storage, j :
    IF t[j].kind = "IDENTIFIER" THEN ParseDeclarator(t, j, storage) ELSE Stop("rejected"))

-----------------------------------------------------------------------------
(* Statements *)

\* The items up to a token that ends the block or the clause.
ParseItems(t, i, ends) ==
  IF i > Len(t) \/ Tok(t, i) \in ends THEN Parsed(<<>>, i)
  ELSE Then(IF t[i] \in Specifiers THEN ParseDeclaration(t, i) ELSE ParseStatement(t, i), LAMBDA item, j :
         Mapped(ParseItems(t, j, ends), LAMBDA items : <<item>> \o items))

\* Variant: an else is left to the outermost if.
ParseIf_NoElse(t, i) ==
  Then(Parenthesised(t, i + 1), LAMBDA c, j : Then(ParseStatement(t, j), LAMBDA s, k : Parsed(If(c, s, <<>>), k)))
ParseIf(t, i) ==
  Then(Parenthesised(t, i + 1), LAMBDA c, j : Then(ParseStatement(t, j), LAMBDA s, k : Current(t, k,
    IF t[k] = Keyword("else") THEN Mapped(ParseStatement(t, k + 1), LAMBDA e : If(c, s, <<e>>))
                              ELSE Parsed(If(c, s, <<>>), k))))

ParseForInit(t, i) == Current(t, i,
  CASE t[i] = Keyword("int") ->
         Then(ParseDeclaration(t, i), LAMBDA d, j : IF d.kind = "DECL" THEN Parsed(d, j) ELSE Stop("rejected"))
    [] t[i] = Sep(";") -> Parsed(InitExp(<<>>), i + 1)
    [] OTHER -> Mapped(Followed(ParseExp(t, i, 0), t, Sep(";")), LAMBDA e : InitExp(<<e>>)))

ParseFor(t, i) ==
  Then(Expect(t, i + 1, Sep("(")), LAMBDA open, j :
  Then(ParseForInit(t, j), LAMBDA init, k :
  Then(ParseOptional(t, k, Sep(";")), LAMBDA cond, l :
  Then(ParseOptional(t, l, Sep(")")), LAMBDA post, m :
  Mapped(ParseStatement(t, m), LAMBDA body : For(init, cond, post, body))))))

ParseWhile(t, i) ==
  Then(Parenthesised(t, i + 1), LAMBDA c, j : Mapped(ParseStatement(t, j), LAMBDA s : While(c, s)))

ParseDo(t, i) ==
  Then(Followed(ParseStatement(t, i + 1), t, Keyword("while")), LAMBDA s, j :
    Mapped(Followed(Parenthesised(t, j), t, Sep(";")), LAMBDA c : DoWhile(s, c)))

RECURSIVE ParseClauses(_, _, _)
ParseClause(t, i, isDefault, value, haveDefault) ==
  Then(Expect(t, i, Sep(":")), LAMBDA colon, j :
  Then(ParseItems(t, j, {Sep("}"), Keyword("case"), Keyword("default")}), LAMBDA body, k :
  Mapped(ParseClauses(t, k, haveDefault), LAMBDA rest :
    <<[default |-> isDefault, value |-> value, body |-> body]>> \o rest)))

ParseClauses(t, i, haveDefault) ==
  CASE i > Len(t) \/ Tok(t, i) = Sep("}") -> Parsed(<<>>, i)
    [] Tok(t, i) = Keyword("case") -> Current(t, i + 1,
         IF t[i + 1].kind = "INT_LITERAL" THEN ParseClause(t, i + 2, FALSE, t[i + 1].value, haveDefault)
                                          ELSE Stop("rejected"))
    [] Tok(t, i) = Keyword("default") /\ ~haveDefault -> ParseClause(t, i + 1, TRUE, 0, TRUE)
    [] OTHER -> Stop("rejected")

ParseSwitch(t, i) ==
  Then(Followed(Parenthesised(t, i + 1), t, Sep("{")), LAMBDA c, j :
    Mapped(Followed(ParseClauses(t, j, FALSE), t, Sep("}")), LAMBDA clauses : Switch(c, clauses)))

ParseGoto(t, i) == Current(t, i + 1,
  IF t[i + 1].kind = "IDENTIFIER"
    THEN Followed(Parsed(Goto(<<t[i + 1].as>>), i + 2), t, Sep(";")) ELSE Stop("rejected"))

ParseKeyword(t, i) ==
  CASE t[i].as = "return" -> Mapped(Followed(ParseExp(t, i + 1, 0), t, Sep(";")), Return)
    [] t[i].as = "if" -> ParseIf(t, i)
    [] t[i].as = "for" -> ParseFor(t, i)
    [] t[i].as = "while" -> ParseWhile(t, i)
    [] t[i].as = "do" -> ParseDo(t, i)
    [] t[i].as = "continue" -> Followed(Parsed(Continue, i + 1), t, Sep(";"))
    [] t[i].as = "break" -> Followed(Parsed(Break, i + 1), t, Sep(";"))
    [] t[i].as = "goto" -> ParseGoto(t, i)
    [] t[i].as = "switch" -> ParseSwitch(t, i)
    [] OTHER -> Stop("rejected")

\* A label is a statement by itself; it does not take the next one in.
ParseStatement(t, i) == Current(t, i,
  CASE t[i].kind = "IDENTIFIER" /\ Tok(t, i + 1) = Sep(":") -> Parsed(LabelStmt(<<t[i].as>>), i + 2)
    [] t[i] = Sep("{") -> Mapped(ParseBlock(t, i), Compound)
    [] t[i].kind = "KEYWORD" -> ParseKeyword(t, i)
    [] OTHER -> Mapped(Followed(ParseExp(t, i, 0), t, Sep(";")), ExpStmt))

RECURSIVE ParseProgram(_, _)
ParseProgram(t, i) ==
  IF i > Len(t) THEN Parsed(<<>>, i)
  ELSE Then(ParseDeclaration(t, i), LAMBDA d, j : Mapped(ParseProgram(t, j), LAMBDA ds : <<d>> \o ds))
=============================================================================
