------------------------------- MODULE VarMap -------------------------------
(***************************************************************************)
(* The scope map of resolve_variables (src/parser/parser.c): a list of      *)
(* entries that is searched from its end.  A name is a sequence of strings; *)
(* in the source it has one, and x.3 is <<"x", ".", 3>>.                    *)
(***************************************************************************)
EXTENDS Integers, Sequences, FiniteSetsExt

Entry(key, val, cur, linkage) ==
  [key |-> key, val |-> val, is_cur_scope |-> cur, has_linkage |-> linkage]

\* A scope is entered with a copy of the map around it, in which nothing belongs
\* to the current scope.
VarMapCopy(map) == [i \in DOMAIN map |-> [map[i] EXCEPT !.is_cur_scope = FALSE]]

VarMapIndexes(map, key) == {i \in DOMAIN map : map[i].key = key}
Bound(map, key) == VarMapIndexes(map, key) # {}

\* Variant: the search starts at the front.
VarMapGet_Forwards(map, key) == map[Min(VarMapIndexes(map, key))]
VarMapGet(map, key) == map[Max(VarMapIndexes(map, key))]

BoundInCurrentScope(map, key) == \E i \in VarMapIndexes(map, key) : map[i].is_cur_scope

\* Variant: the counter is left out of the name.
UniqueName_NoCounter(x, n) == <<x[1], ".", 0>>
UniqueName(x, n) == <<x[1], ".", n>>

\* The entry of a variable with storage of its own, and of a name that refers
\* to the file scope and is not renamed.
LocalEntry(x, n) == Entry(x, UniqueName(x, n), TRUE, FALSE)
FileEntry(x) == Entry(x, x, TRUE, TRUE)

\* A declaration may repeat one of its own scope only if both are extern.
Conflicts(map, x, storage) ==
  /\ Bound(map, x)
  /\ VarMapGet(map, x).is_cur_scope
  /\ ~(VarMapGet(map, x).has_linkage /\ storage = "EXTERN")
=============================================================================
