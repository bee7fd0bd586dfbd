------------------------------- MODULE Scopes -------------------------------
(***************************************************************************)
(* resolve_variables (src/parser/parser.c) as it walks over a file: the map *)
(* of each scope it is in, and what it does at each declaration, at each    *)
(* use of a name and where a scope begins and ends.  The walk is that over  *)
(* any tree: which of these comes next is left open.  Resolver is the same  *)
(* pass over a given tree, with the errors it reports that are not about a  *)
(* name: a function within a function, an assignment to no variable.        *)
(***************************************************************************)
EXTENDS VarMap

CONSTANTS
  Names,           \* the identifiers of the file
  GlobalsRoom,     \* varmap_create(16): entries there is room for at first,
  PrototypeRoom,   \* varmap_create(8)
  MaxDepth,        \* bounds: scopes inside one another,
  MaxEntries,      \* entries of a map,
  MaxVariables     \* and variables of a file

\* An identifier has no dot in it, and a map has room for an entry.
ASSUME NamesAssumption == \A x \in Names : x = <<x[1]>>
ASSUME RoomAssumption == GlobalsRoom \in Nat \ {0} /\ PrototypeRoom \in Nat \ {0}

VARIABLES
  maps,       \* the VarMaps on the stack: globals, the function's, the scopes in it
  rooms,      \* and the capacities of their arrays
  seen,       \* the map a prototype's parameters are put in
  seenRoom,   \* and its capacity
  counter,    \* RESOLVE_COUNTER
  phase,      \* where in resolve_variables the walk is, or how it ended
  at,         \* history: the identifier it met last, <<what it is there, name>>
  written     \* history: the identifier it last put into the tree

vars == <<maps, rooms, seen, seenRoom, counter, phase, at, written>>

Top == maps[Len(maps)]

\* Variant: the array grows when it is too late.
Grown_Late(room, size) == IF size > room THEN 2 * room ELSE room
Grown(room, size) == IF size = room THEN 2 * room ELSE room

\* varmap_put
Put(entry) ==
  /\ Len(Top) < MaxEntries
  /\ maps' = [maps EXCEPT ![Len(maps)] = Append(@, entry)]
  /\ rooms' = [rooms EXCEPT ![Len(maps)] = Grown(@, Len(Top))]
  /\ UNCHANGED <<seen, seenRoom>>

Meet(what, x) == at' = <<what, x>>

\* An error message and exit(1).
Exit(reason) == phase' = reason /\ UNCHANGED <<maps, rooms, seen, seenRoom, counter, written>>

-----------------------------------------------------------------------------
Init ==
  /\ maps = <<<<>>>> /\ rooms = <<GlobalsRoom>>
  /\ seen = <<>> /\ seenRoom = PrototypeRoom
  /\ counter = 0 /\ phase = "globals" /\ at = <<>> /\ written = <<>>

\* The first loop of resolve_variables: every name of the file is bound once.
BindGlobal(x) ==
  /\ phase = "globals" /\ Meet("global", x)
  /\ \/ ~Bound(Top, x) /\ Put(FileEntry(x))
     \/ Bound(Top, x) /\ UNCHANGED <<maps, rooms, seen, seenRoom>>
  /\ UNCHANGED <<counter, phase, written>>

GlobalsBound ==
  /\ phase = "globals" /\ phase' = "file"
  /\ UNCHANGED <<maps, rooms, seen, seenRoom, counter, at, written>>

\* varmap_copy: the copy has the capacity of its original.
Copy(from, to) ==
  /\ phase = from /\ phase' = to
  /\ Len(maps) < MaxDepth
  /\ maps' = Append(maps, VarMapCopy(Top))
  /\ rooms' = Append(rooms, rooms[Len(rooms)])
  /\ UNCHANGED <<seen, seenRoom, counter, at, written>>

\* resolve_function, of a definition.
BeginFunction == Copy("file", "params")

\* A name of its own for the next variable.
Rename(x) ==
  /\ counter < MaxVariables
  /\ Put(LocalEntry(x, counter))
  /\ counter' = counter + 1
  /\ written' = UniqueName(x, counter)
  /\ UNCHANGED phase

DeclareParam(x) ==
  /\ phase = "params" /\ Meet("parameter", x)
  /\ \/ ~BoundInCurrentScope(Top, x) /\ Rename(x)
     \/ BoundInCurrentScope(Top, x) /\ Exit("conflicting")

BeginBody ==
  /\ phase = "params" /\ phase' = "body"
  /\ UNCHANGED <<maps, rooms, seen, seenRoom, counter, at, written>>

\* A compound statement, a loop or the clauses of a switch.
EnterScope == Copy("body", "body")

\* varmap_destroy
LeaveScope ==
  /\ phase = "body"
  /\ maps' = SubSeq(maps, 1, Len(maps) - 1)
  /\ rooms' = SubSeq(rooms, 1, Len(rooms) - 1)
  /\ phase' = IF Len(maps) = 2 THEN "file" ELSE "body"
  /\ UNCHANGED <<seen, seenRoom, counter, at, written>>

\* resolve_declaration; its initialiser is resolved by what follows.
DeclareLocal(x) ==
  /\ phase = "body" /\ Meet("variable", x)
  /\ \/ ~Conflicts(Top, x, "AUTO") /\ Rename(x)
     \/ Conflicts(Top, x, "AUTO") /\ Exit("conflicting")

DeclareExtern(x) ==
  /\ phase = "body" /\ Meet("extern", x)
  /\ \/ /\ ~Conflicts(Top, x, "EXTERN")
        /\ Put(FileEntry(x))
        /\ written' = x
        /\ UNCHANGED <<counter, phase>>
     \/ Conflicts(Top, x, "EXTERN") /\ Exit("conflicting")

\* resolve_expression, at a variable or at the name of a call; in the file, of
\* the initialiser of a variable.
Use(x) ==
  /\ phase \in {"file", "body"} /\ Meet("use", x)
  /\ \/ /\ Bound(Top, x)
        /\ written' = VarMapGet(Top, x).val
        /\ UNCHANGED <<maps, rooms, seen, seenRoom, counter, phase>>
     \/ ~Bound(Top, x) /\ Exit("undeclared")

\* resolve_function, of a prototype: its parameters are put in a map of their own.
BeginPrototype ==
  /\ phase = "file" /\ phase' = "prototype"
  /\ UNCHANGED <<maps, rooms, seen, seenRoom, counter, at, written>>

PrototypeParam(x) ==
  /\ phase = "prototype" /\ Meet("prototype parameter", x)
  /\ \/ /\ ~BoundInCurrentScope(seen, x)
        /\ Len(seen) < MaxEntries
        /\ seen' = Append(seen, Entry(x, x, TRUE, FALSE))
        /\ seenRoom' = Grown(seenRoom, Len(seen))
        /\ UNCHANGED <<maps, rooms, counter, phase, written>>
     \/ BoundInCurrentScope(seen, x) /\ Exit("conflicting")

EndPrototype ==
  /\ phase = "prototype" /\ phase' = "file"
  /\ seen' = <<>> /\ seenRoom' = PrototypeRoom
  /\ UNCHANGED <<maps, rooms, counter, at, written>>

Finish ==
  /\ phase = "file" /\ phase' = "finished"
  /\ UNCHANGED <<maps, rooms, seen, seenRoom, counter, at, written>>

Ended == phase \in {"conflicting", "undeclared", "finished"} /\ UNCHANGED vars

Next ==
  \/ GlobalsBound \/ BeginFunction \/ BeginBody \/ EnterScope \/ LeaveScope
  \/ BeginPrototype \/ EndPrototype \/ Finish \/ Ended
  \/ \E x \in Names :
       \/ BindGlobal(x) \/ DeclareParam(x) \/ DeclareLocal(x) \/ DeclareExtern(x)
       \/ Use(x) \/ PrototypeParam(x)

Spec == Init /\ [][Next]_vars

-----------------------------------------------------------------------------
\* varmap_put and varmap_copy write within the array they allocated, however
\* often a map is copied and grows (src/parser/parser.c:692, 724).
EntriesFit ==
  /\ \A k \in DOMAIN maps : Len(maps[k]) <= rooms[k]
  /\ Len(seen) <= seenRoom

-----------------------------------------------------------------------------
(* What the maps stand for: the entries of the current scope are the scope. *)

\* The object that has the name val in the resolved tree.
ObjectOf(val) ==
  IF val = <<>> THEN <<"nothing">>
  ELSE IF Len(val) = 1 THEN <<"file", val>>
  ELSE <<"variable", <<val[1]>>, val[3]>>

Own(map) == {i \in DOMAIN map : map[i].is_cur_scope}
OwnIndexes(map, x) == {i \in Own(map) : map[i].key = x}
ScopeOf(map) ==
  [x \in {map[i].key : i \in Own(map)} |-> ObjectOf(map[Max(OwnIndexes(map, x))].val)]

ScopesOf(stack) == [k \in DOMAIN stack |-> ScopeOf(stack[k])]

\* The walk follows C's rules for scopes: a declaration is refused exactly if it
\* conflicts with one of its scope, a name exactly if no scope around it declares
\* it, and every name in the tree is replaced by the one of the object it stands
\* for, which no other object has (src/parser/parser.c:670).
Lexical == INSTANCE LexicalScopes WITH
  scopes <- ScopesOf(maps),
  prototype <- {seen[i].key : i \in DOMAIN seen},
  number <- counter,
  meant <- ObjectOf(written)

ImplementsLexicalScopes == Lexical!LexicalSpec
=============================================================================
