--------------------------- MODULE LexicalScopes ---------------------------
(***************************************************************************)
(* C's rules for the names of a file, as its text is read: a scope maps     *)
(* each name declared in it to an object, an identifier stands for what the *)
(* innermost scope that declares it says, and a scope declares a name once, *)
(* but for extern declarations, which all stand for one object of the file. *)
(* In one thing the rules are those of resolve_variables and not C's: what  *)
(* the file declares is known in all of it, above its declaration too.      *)
(***************************************************************************)
EXTENDS Integers, Sequences

CONSTANT Names

VARIABLES
  scopes,     \* the scopes the text is in, the file first: functions from names to objects
  prototype,  \* the parameters named so far of the prototype the text is in
  number,     \* how many variables with storage of their own were declared
  phase,      \* where in the file the text is, or how it ended
  at,         \* the identifier that was met last: <<what it is there, name>>
  meant       \* the object that the last identifier of a function stands for

lexicalVars == <<scopes, prototype, number, phase, at, meant>>

\* The object a file-scope name stands for, the n-th variable, and none.
File(x) == <<"file", x>>
Variable(x, n) == <<"variable", x, n>>
Nothing == <<"nothing">>

Empty == [x \in {} |-> Nothing]
Bind(scope, x, object) == [y \in DOMAIN scope \cup {x} |-> IF y = x THEN object ELSE scope[y]]

Innermost == scopes[Len(scopes)]
Declared(x) == x \in DOMAIN Innermost

\* Scope k is the innermost one that declares x.
DeclaredBy(k, x) ==
  /\ k \in DOMAIN scopes /\ x \in DOMAIN scopes[k]
  /\ \A j \in DOMAIN scopes : x \in DOMAIN scopes[j] => j <= k

-----------------------------------------------------------------------------
Meets(what, x) == at' = <<what, x>>
Declares(x, object) == scopes' = [scopes EXCEPT ![Len(scopes)] = Bind(@, x, object)]
Invalid(reason) == phase' = reason /\ UNCHANGED <<scopes, prototype, number, meant>>

LexicalInit ==
  /\ scopes = <<Empty>> /\ prototype = {} /\ number = 0
  /\ phase = "globals" /\ at = <<>> /\ meant = Nothing

\* The names of a file are known in all of it.
FileName(x) ==
  /\ phase = "globals" /\ Meets("global", x) /\ Declares(x, File(x))
  /\ UNCHANGED <<prototype, number, phase, meant>>

\* From one part of the file to the next.
Proceed(from, to) ==
  /\ phase = from /\ phase' = to
  /\ UNCHANGED <<scopes, prototype, number, at, meant>>

Open(from, to) ==
  /\ phase = from /\ phase' = to
  /\ scopes' = Append(scopes, Empty)
  /\ UNCHANGED <<prototype, number, at, meant>>

Close ==
  /\ phase = "body"
  /\ scopes' = SubSeq(scopes, 1, Len(scopes) - 1)
  /\ phase' = IF Len(scopes) = 2 THEN "file" ELSE "body"
  /\ UNCHANGED <<prototype, number, at, meant>>

\* A declaration of a variable, or of a parameter.
Define(in, what, x) ==
  /\ phase = in /\ Meets(what, x)
  /\ \/ /\ ~Declared(x)
        /\ Declares(x, Variable(x, number))
        /\ number' = number + 1
        /\ meant' = Variable(x, number)
        /\ UNCHANGED <<prototype, phase>>
     \/ Declared(x) /\ Invalid("conflicting")

Refer(x) ==
  /\ phase = "body" /\ Meets("extern", x)
  /\ LET another == Declared(x) /\ Innermost[x] # File(x)
     IN \/ /\ ~another
           /\ Declares(x, File(x))
           /\ meant' = File(x)
           /\ UNCHANGED <<prototype, number, phase>>
        \/ another /\ Invalid("conflicting")

Use(x) ==
  /\ phase \in {"file", "body"} /\ Meets("use", x)
  /\ \/ /\ \E k \in DOMAIN scopes : DeclaredBy(k, x) /\ meant' = scopes[k][x]
        /\ UNCHANGED <<scopes, prototype, number, phase>>
     \/ (\A k \in DOMAIN scopes : x \notin DOMAIN scopes[k]) /\ Invalid("undeclared")

\* The parameters of a prototype are a scope of their own, and stand for nothing.
Prototype ==
  \/ /\ phase = "file" /\ phase' = "prototype"
     /\ UNCHANGED <<scopes, prototype, number, at, meant>>
  \/ /\ phase = "prototype" /\ phase' = "file" /\ prototype' = {}
     /\ UNCHANGED <<scopes, number, at, meant>>

PrototypeName(x) ==
  /\ phase = "prototype" /\ Meets("prototype parameter", x)
  /\ \/ /\ x \notin prototype
        /\ prototype' = prototype \cup {x}
        /\ UNCHANGED <<scopes, number, phase, meant>>
     \/ x \in prototype /\ Invalid("conflicting")

LexicalNext ==
  \/ Proceed("globals", "file") \/ Proceed("params", "body") \/ Proceed("file", "finished")
  \/ Open("file", "params") \/ Open("body", "body") \/ Close \/ Prototype
  \/ \E x \in Names :
       \/ FileName(x) \/ Refer(x) \/ Use(x) \/ PrototypeName(x)
       \/ Define("params", "parameter", x) \/ Define("body", "variable", x)

LexicalSpec == LexicalInit /\ [][LexicalNext]_lexicalVars
=============================================================================
