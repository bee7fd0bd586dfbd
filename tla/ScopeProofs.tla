---------------------------- MODULE ScopeProofs ----------------------------
(***************************************************************************)
(* resolve_variables follows C's rules for scopes, for any number of names, *)
(* declarations and scopes inside one another.                              *)
(***************************************************************************)
EXTENDS Scopes, WellFoundedInduction, SequenceTheorems, TLAPS

-----------------------------------------------------------------------------
(* Numbers *)

LEMMA Least ==
  ASSUME NEW S \in SUBSET Nat, S # {}
  PROVE  \E x \in S : \A y \in S : x <= y
<1> DEFINE R == OpToRel(<, Nat)
<1>1. IsWellFoundedOn(R, Nat)
  BY NatLessThanWellFounded
<1> HIDE DEF R
<1>2. PICK x \in S : \A y \in S : ~(<<y, x>> \in R)
  BY <1>1, WFMin
<1>3. \A y \in S : ~(y < x)
  BY <1>2 DEF R, OpToRel
<1> QED
  BY <1>3

\* The last of some indexes of a list.
LEMMA LastOf ==
  ASSUME NEW n \in Nat, NEW S \in SUBSET (1 .. n), S # {}
  PROVE  Max(S) \in S /\ \A y \in S : y <= Max(S)
<1> DEFINE T == {n - y : y \in S}
<1>1. T \in SUBSET Nat /\ T # {}
  <2>1. \A y \in S : n - y \in Nat
    OBVIOUS
  <2> QED
    BY <2>1
<1>2. PICK t \in T : \A u \in T : t <= u
  BY <1>1, Least
<1>3. PICK x \in S : t = n - x
  OBVIOUS
<1>4. \A y \in S : x >= y
  <2> TAKE y \in S
  <2>1. n - y \in T
    OBVIOUS
  <2>2. n - x <= n - y
    BY <1>2, <1>3, <2>1
  <2> QED
    BY <2>2
<1>5. \E z \in S : \A y \in S : z >= y
  BY <1>4
<1>6. Max(S) \in S /\ \A y \in S : Max(S) >= y
  BY <1>5 DEF Max
<1> QED
  BY <1>6

-----------------------------------------------------------------------------
(* Entries and maps *)

UniqueNames == {UniqueName(x, n) : x \in Names, n \in Nat}
Entries == [key : Names, val : Names \cup UniqueNames, is_cur_scope : BOOLEAN, has_linkage : BOOLEAN]

\* An entry with linkage keeps its name, any other has a number the counter has
\* given out.
Sound(e, n) ==
  IF e.has_linkage THEN e.val = e.key ELSE \E k \in 0 .. n - 1 : e.val = UniqueName(e.key, k)

LEMMA ObjectsOfNames ==
  /\ \A x \in Names : ObjectOf(x) = Lexical!File(x)
  /\ \A x \in Names, n \in Nat : ObjectOf(UniqueName(x, n)) = Lexical!Variable(x, n)
  /\ \A x, y \in Names, n \in Nat : Lexical!File(x) # Lexical!Variable(y, n)
<1>1. ASSUME NEW x \in Names
      PROVE  Len(x) = 1 /\ x # <<>> /\ x = <<x[1]>>
  BY NamesAssumption
<1>2. \A x \in Names : ObjectOf(x) = Lexical!File(x)
  BY <1>1 DEF ObjectOf, Lexical!File
<1>3. ASSUME NEW x \in Names, NEW n \in Nat
      PROVE  ObjectOf(UniqueName(x, n)) = Lexical!Variable(x, n)
  <2>1. Len(UniqueName(x, n)) = 3 /\ UniqueName(x, n) # <<>>
    BY DEF UniqueName
  <2>2. <<UniqueName(x, n)[1]>> = x /\ UniqueName(x, n)[3] = n
    BY <1>1 DEF UniqueName
  <2> QED
    BY <2>1, <2>2 DEF ObjectOf, Lexical!Variable
<1>4. \A x, y \in Names, n \in Nat : Lexical!File(x) # Lexical!Variable(y, n)
  BY DEF Lexical!File, Lexical!Variable
<1> QED
  BY <1>2, <1>3, <1>4

LEMMA EntriesMade ==
  ASSUME NEW x \in Names, NEW n \in Nat
  PROVE  /\ FileEntry(x) \in Entries /\ FileEntry(x).key = x /\ FileEntry(x).val = x
         /\ FileEntry(x).is_cur_scope /\ FileEntry(x).has_linkage
         /\ LocalEntry(x, n) \in Entries /\ LocalEntry(x, n).key = x
         /\ LocalEntry(x, n).val = UniqueName(x, n)
         /\ LocalEntry(x, n).is_cur_scope /\ ~LocalEntry(x, n).has_linkage
<1>1. UniqueName(x, n) \in UniqueNames
  BY DEF UniqueNames
<1> QED
  BY <1>1 DEF FileEntry, LocalEntry, Entry, Entries

\* Where a name stands in a map.
LEMMA Indexes ==
  ASSUME NEW m \in Seq(Entries), NEW x
  PROVE  /\ DOMAIN m = 1 .. Len(m) /\ Len(m) \in Nat
         /\ VarMapIndexes(m, x) \in SUBSET (1 .. Len(m))
         /\ OwnIndexes(m, x) \in SUBSET VarMapIndexes(m, x)
         /\ OwnIndexes(m, x) = {i \in VarMapIndexes(m, x) : m[i].is_cur_scope}
         /\ x \in DOMAIN ScopeOf(m) <=> OwnIndexes(m, x) # {}
         /\ x \in DOMAIN ScopeOf(m) => ScopeOf(m)[x] = ObjectOf(m[Max(OwnIndexes(m, x))].val)
<1>1. DOMAIN m = 1 .. Len(m) /\ Len(m) \in Nat
  OBVIOUS
<1>2. OwnIndexes(m, x) = {i \in VarMapIndexes(m, x) : m[i].is_cur_scope}
  BY DEF OwnIndexes, Own, VarMapIndexes
<1>3. DOMAIN ScopeOf(m) = {m[i].key : i \in Own(m)}
  BY DEF ScopeOf
<1>4. x \in {m[i].key : i \in Own(m)} <=> OwnIndexes(m, x) # {}
  BY DEF OwnIndexes
<1>5. x \in DOMAIN ScopeOf(m) => ScopeOf(m)[x] = ObjectOf(m[Max(OwnIndexes(m, x))].val)
  BY DEF ScopeOf
<1> QED
  BY <1>1, <1>2, <1>3, <1>4, <1>5 DEF VarMapIndexes

\* A scope with one more entry is the scope with the name bound.
LEMMA ScopeOfAppend ==
  ASSUME NEW m \in Seq(Entries), NEW e \in Entries, e.is_cur_scope
  PROVE  ScopeOf(Append(m, e)) = Lexical!Bind(ScopeOf(m), e.key, ObjectOf(e.val))
<1> DEFINE w == Append(m, e)
           n == Len(m)
<1>1. w \in Seq(Entries) /\ n \in Nat /\ Len(w) = n + 1 /\ w[n + 1] = e /\ \A i \in 1 .. n : w[i] = m[i]
  OBVIOUS
<1> HIDE DEF w
<1>2. Own(w) = Own(m) \cup {n + 1}
  <2>1. DOMAIN w = 1 .. n + 1 /\ DOMAIN m = 1 .. n
    BY <1>1
  <2> QED
    BY <1>1, <2>1 DEF Own
<1>3. n + 1 \notin Own(m) /\ Own(m) \subseteq 1 .. n
  BY <1>1 DEF Own
<1>4. DOMAIN ScopeOf(w) = DOMAIN ScopeOf(m) \cup {e.key}
  <2>1. {w[i].key : i \in Own(w)} = {m[i].key : i \in Own(m)} \cup {e.key}
    BY <1>1, <1>2, <1>3
  <2> QED
    BY <2>1 DEF ScopeOf
<1>5. ASSUME NEW y \in DOMAIN ScopeOf(w), y # e.key
      PROVE  ScopeOf(w)[y] = ScopeOf(m)[y]
  <2>1. y \in DOMAIN ScopeOf(m)
    BY <1>4, <1>5
  <2>2. OwnIndexes(w, y) = OwnIndexes(m, y)
    BY <1>1, <1>2, <1>3, <1>5 DEF OwnIndexes
  <2>3. OwnIndexes(m, y) # {} /\ OwnIndexes(m, y) \in SUBSET (1 .. n)
    BY <2>1, Indexes
  <2>4. Max(OwnIndexes(m, y)) \in 1 .. n
    BY <1>1, <2>3, LastOf
  <2> QED
    BY <1>1, <2>1, <2>2, <2>4, Indexes
<1>6. ScopeOf(w)[e.key] = ObjectOf(e.val)
  <2>1. n + 1 \in OwnIndexes(w, e.key)
    BY <1>1, <1>2 DEF OwnIndexes
  <2>2. OwnIndexes(w, e.key) \in SUBSET (1 .. n + 1)
    BY <1>1, Indexes
  <2>3. Max(OwnIndexes(w, e.key)) = n + 1
    <3> DEFINE i == Max(OwnIndexes(w, e.key))
    <3>1. i \in OwnIndexes(w, e.key) /\ \A j \in OwnIndexes(w, e.key) : j <= i
      <4>1. OwnIndexes(w, e.key) \in SUBSET (1 .. n + 1) /\ OwnIndexes(w, e.key) # {} /\ n + 1 \in Nat
        BY <1>1, <2>1, <2>2
      <4> QED
        BY ONLY <4>1, LastOf
    <3> HIDE DEF i
    <3> QED
      BY <1>1, <2>1, <2>2, <3>1 DEF i
  <2> QED
    BY <1>1, <1>4, <2>3, Indexes
<1>7. ScopeOf(w) = [y \in DOMAIN ScopeOf(m) \cup {e.key} |->
                      IF y = e.key THEN ObjectOf(e.val) ELSE ScopeOf(m)[y]]
  <2>1. ScopeOf(w) = [y \in DOMAIN ScopeOf(w) |-> ScopeOf(w)[y]]
    BY DEF ScopeOf
  <2> QED
    BY <1>4, <1>5, <1>6, <2>1
<1> QED
  BY <1>7 DEF Lexical!Bind, w

\* A copy is a scope in which nothing is declared yet.
LEMMA ScopeOfCopy ==
  ASSUME NEW m \in Seq(Entries)
  PROVE  /\ VarMapCopy(m) \in Seq(Entries) /\ Len(VarMapCopy(m)) = Len(m)
         /\ \A i \in 1 .. Len(m) : /\ VarMapCopy(m)[i].key = m[i].key
                                   /\ VarMapCopy(m)[i].val = m[i].val
                                   /\ VarMapCopy(m)[i].has_linkage = m[i].has_linkage
                                   /\ ~VarMapCopy(m)[i].is_cur_scope
         /\ ScopeOf(VarMapCopy(m)) = Lexical!Empty
<1> DEFINE c == VarMapCopy(m)
           n == Len(m)
<1>1. n \in Nat /\ DOMAIN m = 1 .. n /\ \A i \in 1 .. n : m[i] \in Entries
  OBVIOUS
<1>2. c = [i \in 1 .. n |-> [m[i] EXCEPT !.is_cur_scope = FALSE]]
  BY <1>1 DEF VarMapCopy
<1>3. \A i \in 1 .. n : /\ c[i] \in Entries
                        /\ c[i].key = m[i].key /\ c[i].val = m[i].val
                        /\ c[i].has_linkage = m[i].has_linkage /\ ~c[i].is_cur_scope
  BY <1>1, <1>2 DEF Entries
<1>4. c \in Seq(Entries) /\ Len(c) = n
  BY <1>1, <1>2, <1>3
<1>5. Own(c) = {}
  BY <1>3, <1>4 DEF Own
<1>6. ScopeOf(c) = [x \in {} |-> ObjectOf(c[Max(OwnIndexes(c, x))].val)]
  <2>1. {c[i].key : i \in Own(c)} = {}
    BY <1>5
  <2> QED
    BY <2>1 DEF ScopeOf
<1>7. ScopeOf(c) = Lexical!Empty
  BY <1>6 DEF Lexical!Empty
<1> QED
  BY <1>3, <1>4, <1>7

-----------------------------------------------------------------------------
(* The stack of maps *)

\* w began as a copy of m, or of a copy of m.
Above(m, w) ==
  /\ Len(m) <= Len(w)
  /\ \A i \in 1 .. Len(m) : w[i].key = m[i].key /\ w[i].val = m[i].val /\ ~w[i].is_cur_scope

\* What a map holds beyond the map below it is of its own scope.
OwnBeyond(m, w) == \A i \in 1 .. Len(w) : i > Len(m) => w[i].is_cur_scope

\* The entries of the current scope are those from some index on.
OwnFrom(m, b) == \A i \in 1 .. Len(m) : m[i].is_cur_scope <=> i > b

SoundMap(m, n) == \A i \in 1 .. Len(m) : Sound(m[i], n)

Layered(P) ==
  /\ \A j, k \in 1 .. Len(P) : j < k => Above(P[j], P[k])
  /\ \A k \in 2 .. Len(P) : OwnBeyond(P[k - 1], P[k])
  /\ OwnBeyond(<<>>, P[1])

\* Map k is that of the innermost scope which declares x, as the object o.
InnermostIs(P, x, k, o) ==
  /\ x \in DOMAIN ScopeOf(P[k]) /\ ScopeOf(P[k])[x] = o
  /\ \A j \in 1 .. Len(P) : x \in DOMAIN ScopeOf(P[j]) => j <= k

\* The last entry for a name stands for what the innermost scope says of it.
LEMMA LastIsInnermost ==
  ASSUME NEW P \in Seq(Seq(Entries)), NEW d \in Nat \ {0}, d = Len(P), Layered(P),
         NEW t, t = P[d], NEW x, Bound(t, x)
  PROVE  \E k \in 1 .. d : InnermostIs(P, x, k, ObjectOf(VarMapGet(t, x).val))
<1> DEFINE i == Max(VarMapIndexes(t, x))
<1>1. \A k \in 1 .. d : P[k] \in Seq(Entries) /\ Len(P[k]) \in Nat
  OBVIOUS
<1>2. t \in Seq(Entries)
  BY <1>1
<1>3. i \in VarMapIndexes(t, x) /\ \A a \in VarMapIndexes(t, x) : a <= i
  <2>1. VarMapIndexes(t, x) # {} /\ VarMapIndexes(t, x) \in SUBSET (1 .. Len(t)) /\ Len(t) \in Nat
    BY <1>2, Indexes DEF Bound
  <2> QED
    BY ONLY <2>1, LastOf
<1>4. i \in 1 .. Len(t) /\ t[i].key = x
  BY <1>2, <1>3 DEF VarMapIndexes
<1> HIDE DEF i
<1>5. ASSUME NEW k \in 1 .. d, NEW a \in 1 .. Len(P[k])
      PROVE  a \in 1 .. Len(t) /\ t[a].key = P[k][a].key /\ t[a].val = P[k][a].val
  <2>1. CASE k = d
    BY <2>1
  <2>2. CASE k # d
    <3>1. Above(P[k], t)
      BY <2>2 DEF Layered
    <3> QED
      BY <1>1, <1>2, <3>1 DEF Above
  <2> QED
    BY <2>1, <2>2
<1>6. \A k \in 1 .. d : \A a \in 1 .. Len(P[k]) : P[k][a].key = x => a <= i
  BY <1>2, <1>3, <1>5 DEF VarMapIndexes
<1>7. PICK k \in {j \in 1 .. d : i <= Len(P[j])} : \A j \in {l \in 1 .. d : i <= Len(P[l])} : k <= j
  <2>1. d \in {j \in 1 .. d : i <= Len(P[j])}
    BY <1>2, <1>4
  <2>2. {j \in 1 .. d : i <= Len(P[j])} \in SUBSET Nat
    OBVIOUS
  <2> QED
    BY <2>1, <2>2, Least
<1> HIDE DEF i
<1>8. k \in 1 .. d /\ i \in 1 .. Len(P[k])
  BY <1>1, <1>2, <1>4, <1>7
<1>9. P[k][i].is_cur_scope
  <2>1. CASE k = 1
    <3>1. OwnBeyond(<<>>, P[k]) /\ Len(<<>>) = 0
      BY <2>1 DEF Layered
    <3> QED
      BY <1>8, <3>1 DEF OwnBeyond
  <2>2. CASE k # 1
    <3>1. k \in 2 .. d /\ k - 1 \in 1 .. d /\ ~(k <= k - 1)
      BY <1>8, <2>2
    <3>2. OwnBeyond(P[k - 1], P[k])
      BY <3>1 DEF Layered
    <3>3. ~(i <= Len(P[k - 1]))
      BY <1>7, <3>1
    <3>4. i > Len(P[k - 1])
      BY <1>1, <1>2, <1>4, <3>1, <3>3
    <3> QED
      BY <1>8, <3>2, <3>4 DEF OwnBeyond
  <2> QED
    BY <2>1, <2>2
<1>10. P[k][i].key = x /\ P[k][i].val = t[i].val
  BY <1>4, <1>5, <1>8
<1>11. Max(OwnIndexes(P[k], x)) = i
  <2> DEFINE O == OwnIndexes(P[k], x)
  <2>1. O \in SUBSET (1 .. Len(P[k])) /\ Len(P[k]) \in Nat /\ \A a \in O : P[k][a].key = x
    BY <1>1, <1>8 DEF OwnIndexes, Own
  <2>2. i \in O
    BY <1>1, <1>8, <1>9, <1>10 DEF OwnIndexes, Own
  <2> HIDE DEF O
  <2>3. Max(O) \in O /\ \A a \in O : a <= Max(O)
    BY ONLY <2>1, <2>2, LastOf
  <2>4. \A a \in O : a <= i
    BY <1>6, <1>8, <2>1
  <2>5. Max(O) <= i /\ i <= Max(O) /\ Max(O) \in 1 .. Len(P[k]) /\ i \in 1 .. Len(P[k])
    BY ONLY <1>8, <2>1, <2>2, <2>3, <2>4
  <2>6. Max(O) = i
    BY ONLY <2>1, <2>5
  <2> QED
    BY <2>6 DEF O
<1>12. x \in DOMAIN ScopeOf(P[k])
  BY <1>1, <1>8, <1>9, <1>10, Indexes DEF OwnIndexes, Own
<1>13. ASSUME NEW j \in 1 .. d, x \in DOMAIN ScopeOf(P[j]), ~(j <= k)
       PROVE  FALSE
  <2>1. PICK a \in OwnIndexes(P[j], x) : TRUE
    BY <1>1, <1>13, Indexes
  <2>2. a \in 1 .. Len(P[j]) /\ P[j][a].key = x /\ P[j][a].is_cur_scope
    BY <1>1, <2>1 DEF OwnIndexes, Own
  <2>3. Above(P[k], P[j])
    BY <1>8, <1>13 DEF Layered
  <2>4. a > Len(P[k])
    BY <1>1, <1>8, <2>2, <2>3 DEF Above
  <2>5. a <= i
    BY <1>6, <2>2
  <2> QED
    BY <1>1, <1>8, <2>2, <2>4, <2>5
<1>14. VarMapGet(t, x) = t[i]
  BY DEF VarMapGet, i
<1>15. ObjectOf(VarMapGet(t, x).val) = ScopeOf(P[k])[x]
  BY <1>1, <1>8, <1>10, <1>11, <1>12, <1>14, Indexes
<1> QED
  BY <1>8, <1>12, <1>13, <1>15 DEF InnermostIs

\* A name no entry is for is declared nowhere.
LEMMA UnboundIsUndeclared ==
  ASSUME NEW P \in Seq(Seq(Entries)), NEW d \in Nat \ {0}, d = Len(P), Layered(P),
         NEW t, t = P[d], NEW x, ~Bound(t, x), NEW k \in 1 .. d
  PROVE  x \notin DOMAIN ScopeOf(P[k])
<1>1. P[k] \in Seq(Entries) /\ t \in Seq(Entries) /\ Len(P[k]) \in Nat
  OBVIOUS
<1> SUFFICES ASSUME x \in DOMAIN ScopeOf(P[k])
             PROVE  FALSE
  OBVIOUS
<1>2. PICK a \in OwnIndexes(P[k], x) : TRUE
  BY <1>1, Indexes
<1>3. a \in 1 .. Len(P[k]) /\ P[k][a].key = x
  BY <1>1, <1>2 DEF OwnIndexes, Own
<1>4. a \in 1 .. Len(t) /\ t[a].key = x
  <2>1. CASE k = d
    BY <1>3, <2>1
  <2>2. CASE k # d
    <3>1. Above(P[k], t)
      BY <2>2 DEF Layered
    <3> QED
      BY <1>1, <1>3, <3>1 DEF Above
  <2> QED
    BY <2>1, <2>2
<1> QED
  BY <1>1, <1>4 DEF Bound, VarMapIndexes

\* The entries of the top map from some index on are those of its scope.
LEMMA TopIsSplit ==
  ASSUME NEW P \in Seq(Seq(Entries)), NEW d \in Nat \ {0}, d = Len(P), Layered(P)
  PROVE  \E b \in Nat : OwnFrom(P[d], b)
<1>1. CASE d = 1
  <2>1. OwnBeyond(<<>>, P[d]) /\ Len(<<>>) = 0
    BY <1>1 DEF Layered
  <2>2. OwnFrom(P[d], 0)
    BY <2>1 DEF OwnBeyond, OwnFrom
  <2> QED
    BY <2>2
<1>2. CASE d # 1
  <2>1. d \in 2 .. Len(P) /\ d - 1 \in 1 .. Len(P) /\ d - 1 < d /\ d \in 1 .. Len(P)
    BY <1>2
  <2>2. OwnBeyond(P[d - 1], P[d]) /\ Above(P[d - 1], P[d])
    BY <2>1 DEF Layered
  <2>3. Len(P[d - 1]) \in Nat /\ Len(P[d]) \in Nat
    BY <2>1
  <2>4. OwnFrom(P[d], Len(P[d - 1]))
    BY <2>2, <2>3 DEF OwnBeyond, Above, OwnFrom
  <2> QED
    BY <2>3, <2>4
<1> QED
  BY <1>1, <1>2

\* The last entry for a name is of the current scope exactly if that scope
\* declares the name, and says what the scope says.
LEMMA LastIsOwn ==
  ASSUME NEW m \in Seq(Entries), NEW b \in Nat, OwnFrom(m, b), NEW x
  PROVE  /\ BoundInCurrentScope(m, x) <=> x \in DOMAIN ScopeOf(m)
         /\ Bound(m, x) /\ VarMapGet(m, x).is_cur_scope <=> x \in DOMAIN ScopeOf(m)
         /\ x \in DOMAIN ScopeOf(m) => ScopeOf(m)[x] = ObjectOf(VarMapGet(m, x).val)
         /\ Bound(m, x) => \E i \in 1 .. Len(m) : m[i].key = x /\ VarMapGet(m, x) = m[i]
<1> DEFINE all == VarMapIndexes(m, x)
           own == OwnIndexes(m, x)
<1>1. /\ Len(m) \in Nat /\ all \in SUBSET (1 .. Len(m)) /\ own \in SUBSET all
      /\ own = {i \in all : m[i].is_cur_scope}
      /\ x \in DOMAIN ScopeOf(m) <=> own # {}
      /\ x \in DOMAIN ScopeOf(m) => ScopeOf(m)[x] = ObjectOf(m[Max(own)].val)
  BY Indexes
<1>2. Bound(m, x) <=> all # {}
  BY DEF Bound
<1>3. VarMapGet(m, x) = m[Max(all)]
  BY DEF VarMapGet
<1>4. BoundInCurrentScope(m, x) <=> own # {}
  BY <1>1 DEF BoundInCurrentScope
<1>5. \A i \in all : m[i].key = x
  BY DEF VarMapIndexes
<1> HIDE DEF all, own
<1>6. all # {} => Max(all) \in all /\ \A i \in all : i <= Max(all)
  BY ONLY <1>1, LastOf
<1>7. own # {} => Max(own) \in own /\ \A i \in own : i <= Max(own)
  <2>1. own \in SUBSET (1 .. Len(m))
    BY <1>1
  <2> QED
    BY ONLY <1>1, <2>1, LastOf
<1>8. ASSUME own # {}
      PROVE  Max(own) = Max(all) /\ m[Max(all)].is_cur_scope /\ all # {}
  <2>0. Max(own) \in own /\ Max(own) \in all /\ all # {}
    BY ONLY <1>1, <1>7, <1>8
  <2>1. /\ Max(own) \in all /\ all # {} /\ Max(own) \in Nat /\ Max(all) \in Nat
        /\ Max(own) > b
    <3>1. Max(own) \in 1 .. Len(m) /\ m[Max(own)].is_cur_scope
      BY ONLY <1>1, <2>0
    <3>2. Max(own) > b
      BY <3>1 DEF OwnFrom
    <3>3. Max(all) \in 1 .. Len(m)
      BY ONLY <1>1, <1>6, <2>0
    <3> QED
      BY ONLY <1>1, <2>0, <3>1, <3>2, <3>3
  <2>2. Max(own) <= Max(all) /\ Max(all) \in all
    BY ONLY <1>6, <2>1
  <2>3. Max(all) \in 1 .. Len(m) /\ Max(all) > b
    BY <1>1, <2>1, <2>2
  <2>4. m[Max(all)].is_cur_scope
    BY <2>3 DEF OwnFrom
  <2>5. Max(all) \in own
    BY <1>1, <2>2, <2>4
  <2>6. Max(all) <= Max(own)
    BY <1>7, <1>8, <2>5
  <2>7. Max(own) = Max(all)
    BY ONLY <2>1, <2>2, <2>6
  <2> QED
    BY <2>1, <2>4, <2>7
<1>9. ASSUME all # {}, m[Max(all)].is_cur_scope
      PROVE  own # {}
  BY <1>1, <1>6, <1>9
<1> QED
  BY <1>1, <1>2, <1>3, <1>4, <1>5, <1>6, <1>8, <1>9

\* A local declaration conflicts with any of its scope, an extern one with those
\* that stand for something else than the file's object.
LEMMA ConflictsAreRedeclarations ==
  ASSUME NEW m \in Seq(Entries), NEW b \in Nat, NEW n \in Nat,
         OwnFrom(m, b), SoundMap(m, n), NEW x \in Names
  PROVE  /\ Conflicts(m, x, "AUTO") <=> x \in DOMAIN ScopeOf(m)
         /\ Conflicts(m, x, "EXTERN") <=> x \in DOMAIN ScopeOf(m) /\ ScopeOf(m)[x] # Lexical!File(x)
<1>1. /\ Bound(m, x) /\ VarMapGet(m, x).is_cur_scope <=> x \in DOMAIN ScopeOf(m)
      /\ x \in DOMAIN ScopeOf(m) => ScopeOf(m)[x] = ObjectOf(VarMapGet(m, x).val)
      /\ Bound(m, x) => \E i \in 1 .. Len(m) : m[i].key = x /\ VarMapGet(m, x) = m[i]
  BY LastIsOwn
<1>2. Conflicts(m, x, "AUTO") <=> x \in DOMAIN ScopeOf(m)
  BY <1>1 DEF Conflicts
<1>3. ASSUME x \in DOMAIN ScopeOf(m)
      PROVE  VarMapGet(m, x).has_linkage <=> ScopeOf(m)[x] = Lexical!File(x)
  <2>1. PICK i \in 1 .. Len(m) : m[i].key = x /\ VarMapGet(m, x) = m[i]
    BY <1>1, <1>3
  <2>2. Sound(m[i], n)
    BY <2>1 DEF SoundMap
  <2>3. CASE m[i].has_linkage
    <3>1. m[i].val = x
      BY <2>1, <2>2, <2>3 DEF Sound
    <3> QED
      BY <1>1, <1>3, <2>1, <2>3, <3>1, ObjectsOfNames
  <2>4. CASE ~m[i].has_linkage
    <3>1. PICK k \in 0 .. n - 1 : m[i].val = UniqueName(x, k)
      BY <2>1, <2>2, <2>4 DEF Sound
    <3>2. k \in Nat
      OBVIOUS
    <3>3. ScopeOf(m)[x] = Lexical!Variable(x, k)
      BY <1>1, <1>3, <2>1, <3>1, <3>2, ObjectsOfNames
    <3> QED
      BY <2>1, <2>4, <3>2, <3>3, ObjectsOfNames
  <2> QED
    BY <2>3, <2>4
<1>4. Conflicts(m, x, "EXTERN") <=>
        Bound(m, x) /\ VarMapGet(m, x).is_cur_scope /\ ~VarMapGet(m, x).has_linkage
  BY DEF Conflicts
<1> QED
  BY <1>1, <1>2, <1>3, <1>4

-----------------------------------------------------------------------------
(* What varmap_put, varmap_copy and varmap_destroy do to the stack *)

PutOn(P, d, e, Q) == Q = [P EXCEPT ![d] = Append(@, e)]
CopyOn(P, d, Q) == Q = Append(P, VarMapCopy(P[d]))

LEMMA PutKeepsLayers ==
  ASSUME NEW P \in Seq(Seq(Entries)), NEW d \in Nat \ {0}, d = Len(P), Layered(P),
         NEW e \in Entries, e.is_cur_scope,
         NEW Q, PutOn(P, d, e, Q)
  PROVE  /\ Q \in Seq(Seq(Entries)) /\ Len(Q) = d
         /\ Q[d] = Append(P[d], e) /\ \A k \in 1 .. d : k # d => Q[k] = P[k]
         /\ Layered(Q)
<1>1. d \in 1 .. Len(P) /\ P[d] \in Seq(Entries) /\ Append(P[d], e) \in Seq(Entries)
  OBVIOUS
<1>2. Q \in Seq(Seq(Entries)) /\ Len(Q) = d
  BY <1>1 DEF PutOn
<1>3. Q[d] = Append(P[d], e) /\ \A k \in 1 .. d : k # d => Q[k] = P[k]
  BY <1>1 DEF PutOn
<1> PICK n \in Nat : n = Len(P[d])
  BY <1>1
<1>4. Len(Q[d]) = n + 1 /\ Q[d][n + 1] = e /\ \A i \in 1 .. n : Q[d][i] = P[d][i]
  BY <1>1, <1>3
<1>5. ASSUME NEW m, Len(m) \in Nat, Above(m, P[d])
      PROVE  Above(m, Q[d])
  <2>1. /\ Len(m) <= n
        /\ \A i \in 1 .. Len(m) : P[d][i].key = m[i].key /\ P[d][i].val = m[i].val /\ ~P[d][i].is_cur_scope
    BY <1>5 DEF Above
  <2>2. Len(m) <= Len(Q[d]) /\ \A i \in 1 .. Len(m) : i \in 1 .. n
    BY <1>4, <1>5, <2>1
  <2>3. \A i \in 1 .. Len(m) : Q[d][i] = P[d][i]
    BY ONLY <1>4, <2>2
  <2> QED
    BY ONLY <2>1, <2>2, <2>3 DEF Above
<1>6. ASSUME NEW m, Len(m) \in Nat, OwnBeyond(m, P[d])
      PROVE  OwnBeyond(m, Q[d])
  <2> SUFFICES ASSUME NEW i \in 1 .. n + 1, i > Len(m)
               PROVE  Q[d][i].is_cur_scope
    BY <1>4 DEF OwnBeyond
  <2>1. CASE i = n + 1
    BY <1>4, <2>1
  <2>2. CASE i # n + 1
    BY <1>4, <1>6, <2>2 DEF OwnBeyond
  <2> QED
    BY <2>1, <2>2
<1>7. \A k \in 1 .. d : Len(P[k]) \in Nat
  OBVIOUS
<1>8. ASSUME NEW j \in 1 .. d, NEW k \in 1 .. d, j < k
      PROVE  Above(Q[j], Q[k])
  <2>1. Above(P[j], P[k]) /\ Q[j] = P[j]
    BY <1>3, <1>8 DEF Layered
  <2>2. CASE k = d
    BY <1>5, <1>7, <2>1, <2>2
  <2>3. CASE k # d
    BY <1>3, <2>1, <2>3
  <2> QED
    BY <2>2, <2>3
<1>9. ASSUME NEW k \in 2 .. d
      PROVE  OwnBeyond(Q[k - 1], Q[k])
  <2>1. k - 1 \in 1 .. d /\ k - 1 # d /\ k \in 1 .. d
    OBVIOUS
  <2>2. OwnBeyond(P[k - 1], P[k]) /\ Q[k - 1] = P[k - 1]
    BY <1>3, <2>1 DEF Layered
  <2>3. CASE k = d
    BY <1>6, <1>7, <2>1, <2>2, <2>3
  <2>4. CASE k # d
    BY <1>3, <2>1, <2>2, <2>4
  <2> QED
    BY <2>3, <2>4
<1>10. OwnBeyond(<<>>, Q[1])
  <2>1. OwnBeyond(<<>>, P[1]) /\ Len(<<>>) \in Nat
    BY DEF Layered
  <2>2. CASE d = 1
    BY <1>6, <2>1, <2>2
  <2>3. CASE d # 1
    BY <1>3, <2>1, <2>3
  <2> QED
    BY <2>2, <2>3
<1> QED
  BY <1>2, <1>3, <1>8, <1>9, <1>10 DEF Layered

LEMMA CopyKeepsLayers ==
  ASSUME NEW P \in Seq(Seq(Entries)), NEW d \in Nat \ {0}, d = Len(P), Layered(P),
         NEW Q, CopyOn(P, d, Q)
  PROVE  /\ Q \in Seq(Seq(Entries)) /\ Len(Q) = d + 1
         /\ Q[d + 1] = VarMapCopy(P[d]) /\ \A k \in 1 .. d : Q[k] = P[k]
         /\ Layered(Q)
<1>1. d \in 1 .. Len(P) /\ P[d] \in Seq(Entries)
  OBVIOUS
<1> PICK c : c = VarMapCopy(P[d])
  OBVIOUS
<1>2. c \in Seq(Entries) /\ Len(c) = Len(P[d])
  BY <1>1, ScopeOfCopy
<1>3. \A i \in 1 .. Len(P[d]) : c[i].key = P[d][i].key /\ c[i].val = P[d][i].val /\ ~c[i].is_cur_scope
  BY <1>1, ScopeOfCopy
<1>4. Q \in Seq(Seq(Entries)) /\ Len(Q) = d + 1 /\ Q[d + 1] = c /\ \A k \in 1 .. d : Q[k] = P[k]
  BY <1>2 DEF CopyOn
<1>5. \A k \in 1 .. d : Len(P[k]) \in Nat
  OBVIOUS
<1>6. ASSUME NEW j \in 1 .. d
      PROVE  Above(P[j], c)
  <2>1. CASE j = d
    BY <1>2, <1>3, <1>5, <2>1 DEF Above
  <2>2. CASE j # d
    <3>1. Above(P[j], P[d])
      BY <1>1, <2>2 DEF Layered
    <3> QED
      BY <1>1, <1>2, <1>3, <1>5, <3>1 DEF Above
  <2> QED
    BY <2>1, <2>2
<1>7. OwnBeyond(P[d], c)
  BY <1>1, <1>2, <1>5 DEF OwnBeyond
<1>8. ASSUME NEW j \in 1 .. d + 1, NEW k \in 1 .. d + 1, j < k
      PROVE  Above(Q[j], Q[k])
  <2>1. j \in 1 .. d /\ Q[j] = P[j]
    BY <1>4, <1>8
  <2>2. CASE k = d + 1
    BY <1>4, <1>6, <2>1, <2>2
  <2>3. CASE k # d + 1
    <3>1. k \in 1 .. Len(P) /\ Q[k] = P[k]
      BY <1>4, <2>3
    <3> QED
      BY <1>8, <2>1, <3>1 DEF Layered
  <2> QED
    BY <2>2, <2>3
<1>9. ASSUME NEW k \in 2 .. d + 1
      PROVE  OwnBeyond(Q[k - 1], Q[k])
  <2>1. CASE k = d + 1
    BY <1>1, <1>4, <1>7, <2>1
  <2>2. CASE k # d + 1
    <3>1. k \in 2 .. Len(P) /\ k \in 1 .. d /\ k - 1 \in 1 .. d
      BY <2>2
    <3> QED
      BY <1>4, <3>1 DEF Layered
  <2> QED
    BY <2>1, <2>2
<1>10. OwnBeyond(<<>>, Q[1])
  BY <1>1, <1>4 DEF Layered
<1> QED
  BY <1>4, <1>8, <1>9, <1>10 DEF Layered

LEMMA LeaveKeepsLayers ==
  ASSUME NEW P \in Seq(Seq(Entries)), NEW d \in Nat \ {0, 1}, d = Len(P), Layered(P),
         NEW Q, Q = SubSeq(P, 1, d - 1)
  PROVE  /\ Q \in Seq(Seq(Entries)) /\ Len(Q) = d - 1
         /\ \A k \in 1 .. d - 1 : Q[k] = P[k]
         /\ Layered(Q)
<1>1. Q \in Seq(Seq(Entries)) /\ Len(Q) = d - 1 /\ \A k \in 1 .. d - 1 : Q[k] = P[k]
  OBVIOUS
<1>2. \A j, k \in 1 .. d - 1 : j < k => Above(Q[j], Q[k])
  BY <1>1 DEF Layered
<1>3. ASSUME NEW k \in 2 .. d - 1
      PROVE  OwnBeyond(Q[k - 1], Q[k])
  <2>1. k \in 2 .. Len(P) /\ k \in 1 .. d - 1 /\ k - 1 \in 1 .. d - 1
    OBVIOUS
  <2> QED
    BY <1>1, <2>1 DEF Layered
<1>4. OwnBeyond(<<>>, Q[1])
  <2>1. 1 \in 1 .. d - 1
    OBVIOUS
  <2> QED
    BY <1>1, <2>1 DEF Layered
<1> QED
  BY <1>1, <1>2, <1>3, <1>4 DEF Layered

-----------------------------------------------------------------------------
(* The invariant *)

TypeInv ==
  /\ maps \in Seq(Seq(Entries)) /\ Len(maps) \in Nat \ {0}
  /\ rooms \in Seq(Nat \ {0}) /\ Len(rooms) = Len(maps)
  /\ seen \in Seq(Entries) /\ seenRoom \in Nat \ {0}
  /\ counter \in Nat

SoundStack(P, n) == \A k \in 1 .. Len(P) : SoundMap(P[k], n)

\* Only what the file declares is in the map of the file.
FileInv(P) == \A i \in 1 .. Len(P[1]) : P[1][i].has_linkage

DepthInv ==
  /\ phase = "globals" => Len(maps) = 1
  /\ phase \in {"params", "body"} => Len(maps) >= 2

Fits(P, R) == \A k \in 1 .. Len(P) : Len(P[k]) <= R[k]

SeenInv == Len(seen) <= seenRoom /\ \A i \in 1 .. Len(seen) : seen[i].is_cur_scope

ScopesInv ==
  /\ TypeInv /\ DepthInv /\ SeenInv
  /\ Layered(maps) /\ SoundStack(maps, counter) /\ FileInv(maps) /\ Fits(maps, rooms)

LEMMA SoundLater ==
  ASSUME NEW e, NEW m \in Nat, NEW n \in Nat, m <= n, Sound(e, m)
  PROVE  Sound(e, n)
  BY DEF Sound

\* The scopes the maps stand for.
LEMMA StackFacts ==
  ASSUME NEW P \in Seq(Seq(Entries)), NEW d \in Nat, d = Len(P)
  PROVE  /\ DOMAIN ScopesOf(P) = 1 .. d /\ Len(ScopesOf(P)) = d
         /\ \A k \in 1 .. d : ScopesOf(P)[k] = ScopeOf(P[k])
<1>1. DOMAIN P = 1 .. d
  OBVIOUS
<1>2. ScopesOf(P) = [k \in 1 .. d |-> ScopeOf(P[k])]
  BY <1>1 DEF ScopesOf
<1> QED
  BY <1>2

LEMMA TopFacts ==
  ASSUME ScopesInv, NEW x
  PROVE  /\ Top \in Seq(Entries) /\ Len(Top) \in Nat /\ Len(Top) <= rooms[Len(maps)]
         /\ SoundMap(Top, counter)
         /\ \E b \in Nat : OwnFrom(Top, b)
         /\ Lexical!Innermost = ScopeOf(Top)
         /\ Lexical!Declared(x) <=> x \in DOMAIN ScopeOf(Top)
<1> PICK P : P = maps
  OBVIOUS
<1> PICK d : d = Len(maps)
  OBVIOUS
<1>1. /\ P \in Seq(Seq(Entries)) /\ d = Len(P) /\ d \in Nat \ {0} /\ Layered(P)
      /\ SoundStack(P, counter) /\ Fits(P, rooms)
  BY DEF ScopesInv, TypeInv
<1>2. d \in 1 .. Len(P) /\ Top = P[d]
  BY <1>1 DEF Top
<1>3. P[d] \in Seq(Entries) /\ Len(P[d]) \in Nat /\ Len(P[d]) <= rooms[d]
  BY <1>1, <1>2 DEF Fits
<1>4. SoundMap(P[d], counter)
  BY <1>1, <1>2 DEF SoundStack, SoundMap
<1>5. \E b \in Nat : OwnFrom(P[d], b)
  BY <1>1, TopIsSplit
<1>6. Lexical!Innermost = ScopeOf(Top)
  <2>1. Len(ScopesOf(P)) = d /\ ScopesOf(P)[d] = ScopeOf(P[d])
    BY <1>1, <1>2, StackFacts
  <2> QED
    BY <1>2, <2>1 DEF Lexical!Innermost
<1> QED
  BY <1>2, <1>3, <1>4, <1>5, <1>6 DEF Lexical!Declared

\* What varmap_put adds is bound in the innermost scope, and fits.
LEMMA PutStep ==
  ASSUME ScopesInv, NEW e \in Entries, e.is_cur_scope, Put(e),
         counter' \in Nat, counter <= counter', Sound(e, counter'),
         Len(maps) = 1 => e.has_linkage, UNCHANGED phase
  PROVE  ScopesInv' /\ Lexical!Declares(e.key, ObjectOf(e.val))
<1> PICK P, Q : P = maps /\ Q = maps'
  OBVIOUS
<1> PICK d : d = Len(maps)
  OBVIOUS
<1> PICK R, S : R = rooms /\ S = rooms'
  OBVIOUS
<1>1. /\ P \in Seq(Seq(Entries)) /\ d = Len(P) /\ d \in Nat \ {0} /\ Layered(P)
      /\ SoundStack(P, counter) /\ Fits(P, R) /\ FileInv(P) /\ counter \in Nat
      /\ R \in Seq(Nat \ {0}) /\ Len(R) = d
  BY DEF ScopesInv, TypeInv
<1>2. /\ Q = [P EXCEPT ![d] = Append(@, e)]
      /\ S = [R EXCEPT ![d] = Grown(R[d], Len(P[d]))]
      /\ seen' = seen /\ seenRoom' = seenRoom
  BY DEF Put, Top
<1>3. /\ Q \in Seq(Seq(Entries)) /\ Len(Q) = d /\ Layered(Q)
      /\ Q[d] = Append(P[d], e) /\ \A k \in 1 .. d : k # d => Q[k] = P[k]
  <2>1. e \in Entries /\ e.is_cur_scope /\ PutOn(P, d, e, Q)
    BY <1>2 DEF PutOn
  <2> QED
    BY ONLY <1>1, <2>1, PutKeepsLayers
<1>4. d \in 1 .. d /\ P[d] \in Seq(Entries) /\ Len(P[d]) \in Nat /\ \A k \in 1 .. d : Len(P[k]) \in Nat
  BY <1>1
<1> PICK n \in Nat : n = Len(P[d])
  BY <1>4
<1>5. Len(Q[d]) = n + 1 /\ Q[d][n + 1] = e /\ \A i \in 1 .. n : Q[d][i] = P[d][i]
  BY <1>3, <1>4
<1>6. SoundStack(Q, counter')
  <2> SUFFICES ASSUME NEW k \in 1 .. d, NEW i \in 1 .. Len(Q[k])
               PROVE  Sound(Q[k][i], counter')
    BY <1>3 DEF SoundStack, SoundMap
  <2>1. ASSUME NEW j \in 1 .. d, NEW l \in 1 .. Len(P[j])
        PROVE  Sound(P[j][l], counter')
    <3>1. Sound(P[j][l], counter)
      BY <1>1, <2>1 DEF SoundStack, SoundMap
    <3> QED
      BY <1>1, <3>1, SoundLater
  <2>2. CASE k # d
    BY <1>3, <2>1, <2>2
  <2>3. CASE k = d /\ i = n + 1
    BY <1>5, <2>3
  <2>4. CASE k = d /\ i # n + 1
    <3>1. i \in 1 .. n
      BY <1>5, <2>4
    <3> QED
      BY <1>4, <1>5, <2>1, <2>4, <3>1
  <2> QED
    BY <2>2, <2>3, <2>4
<1>7. FileInv(Q)
  <2>1. CASE d # 1
    <3>1. 1 \in 1 .. d
      BY <1>1
    <3>2. Q[1] = P[1]
      BY <1>3, <2>1, <3>1
    <3> QED
      BY <1>1, <3>2 DEF FileInv
  <2>2. CASE d = 1
    <3>1. ASSUME NEW i \in 1 .. n + 1
          PROVE  Q[d][i].has_linkage
      <4>1. CASE i = n + 1
        BY <1>5, <2>2, <4>1
      <4>2. CASE i # n + 1
        <5>1. i \in 1 .. n /\ Q[d][i] = P[d][i]
          BY <1>5, <4>2
        <5>2. P[d][i].has_linkage
          BY <1>1, <2>2, <5>1 DEF FileInv
        <5> QED
          BY ONLY <5>1, <5>2
      <4> QED
        BY <4>1, <4>2
    <3> QED
      BY <1>5, <2>2, <3>1 DEF FileInv
  <2> QED
    BY <2>1, <2>2
<1>8. S \in Seq(Nat \ {0}) /\ Len(S) = d /\ Fits(Q, S)
  <2>1. R[d] \in Nat \ {0} /\ n <= R[d]
    BY <1>1, <1>4 DEF Fits
  <2> PICK r \in Nat \ {0} : r = R[d]
    BY <2>1
  <2>2. Grown(r, n) \in Nat \ {0} /\ n + 1 <= Grown(r, n)
    BY <2>1 DEF Grown
  <2>3. S = [R EXCEPT ![d] = Grown(r, n)]
    BY <1>2
  <2>4. S \in Seq(Nat \ {0}) /\ Len(S) = d
    BY <1>1, <1>4, <2>2, <2>3
  <2>5. S[d] = Grown(r, n) /\ \A k \in 1 .. d : k # d => S[k] = R[k]
    BY <1>1, <1>4, <2>3
  <2>6. ASSUME NEW k \in 1 .. d
        PROVE  Len(Q[k]) <= S[k]
    <3>1. CASE k = d
      BY <1>5, <2>2, <2>5, <3>1
    <3>2. CASE k # d
      BY <1>1, <1>3, <2>5, <3>2 DEF Fits
    <3> QED
      BY <3>1, <3>2
  <2> QED
    BY <1>3, <2>4, <2>6 DEF Fits
<1>9. TypeInv'
  BY <1>1, <1>2, <1>3, <1>8 DEF ScopesInv, TypeInv
<1>10. DepthInv' /\ SeenInv'
  BY <1>1, <1>2, <1>3 DEF ScopesInv, DepthInv, SeenInv
<1>11. ScopesInv'
  BY <1>3, <1>6, <1>7, <1>8, <1>9, <1>10 DEF ScopesInv
<1>12. ScopesOf(Q) = [ScopesOf(P) EXCEPT ![d] = Lexical!Bind(ScopesOf(P)[d], e.key, ObjectOf(e.val))]
  <2>1. DOMAIN ScopesOf(P) = 1 .. d /\ DOMAIN ScopesOf(Q) = 1 .. d
    BY <1>1, <1>3, StackFacts
  <2>2. /\ \A k \in 1 .. d : ScopesOf(P)[k] = ScopeOf(P[k])
        /\ \A k \in 1 .. d : ScopesOf(Q)[k] = ScopeOf(Q[k])
    BY <1>1, <1>3, StackFacts
  <2>3. ScopeOf(Q[d]) = Lexical!Bind(ScopeOf(P[d]), e.key, ObjectOf(e.val))
    BY <1>3, <1>4, ScopeOfAppend
  <2>4. ScopesOf(Q) = [k \in 1 .. d |-> ScopesOf(Q)[k]]
    BY <2>1 DEF ScopesOf
  <2>5. [ScopesOf(P) EXCEPT ![d] = Lexical!Bind(ScopesOf(P)[d], e.key, ObjectOf(e.val))]
          = [k \in 1 .. d |-> IF k = d THEN Lexical!Bind(ScopesOf(P)[d], e.key, ObjectOf(e.val)) ELSE ScopesOf(P)[k]]
    BY <2>1
  <2>6. \A k \in 1 .. d : ScopesOf(Q)[k] =
          IF k = d THEN Lexical!Bind(ScopesOf(P)[d], e.key, ObjectOf(e.val)) ELSE ScopesOf(P)[k]
    BY <1>3, <1>4, <2>2, <2>3
  <2> QED
    BY <2>4, <2>5, <2>6
<1>13. Len(ScopesOf(P)) = d
  BY <1>1, StackFacts
<1>14. Lexical!Declares(e.key, ObjectOf(e.val))
  BY <1>12, <1>13 DEF Lexical!Declares
<1> QED
  BY <1>11, <1>14

\* What leaves every map as it is.
LEMMA MapsKept ==
  ASSUME ScopesInv, UNCHANGED <<maps, rooms, seen, seenRoom, counter>>, DepthInv'
  PROVE  ScopesInv' /\ UNCHANGED ScopesOf(maps)
<1>1. TypeInv' /\ SeenInv'
  BY DEF ScopesInv, TypeInv, SeenInv
<1>2. Layered(maps') /\ SoundStack(maps', counter') /\ FileInv(maps') /\ Fits(maps', rooms')
  BY DEF ScopesInv
<1>3. ScopesOf(maps)' = ScopesOf(maps)
  OBVIOUS
<1> QED
  BY <1>1, <1>2, <1>3 DEF ScopesInv

\* varmap_copy opens a scope that declares nothing yet.
LEMMA CopyStep ==
  ASSUME ScopesInv, NEW from, NEW to, to \in {"params", "body"}, Copy(from, to)
  PROVE  ScopesInv' /\ Lexical!Open(from, to)
<1> PICK P, Q : P = maps /\ Q = maps'
  OBVIOUS
<1> PICK d : d = Len(maps)
  OBVIOUS
<1> PICK R, S : R = rooms /\ S = rooms'
  OBVIOUS
<1>1. /\ P \in Seq(Seq(Entries)) /\ d = Len(P) /\ d \in Nat \ {0} /\ Layered(P)
      /\ SoundStack(P, counter) /\ Fits(P, R) /\ FileInv(P) /\ counter \in Nat
      /\ R \in Seq(Nat \ {0}) /\ Len(R) = d
  BY DEF ScopesInv, TypeInv
<1>2. /\ Q = Append(P, VarMapCopy(P[d]))
      /\ S = Append(R, R[d])
      /\ seen' = seen /\ seenRoom' = seenRoom /\ counter' = counter /\ written' = written
      /\ phase = from /\ phase' = to /\ at' = at
  BY <1>1 DEF Copy, Top
<1>3. /\ Q \in Seq(Seq(Entries)) /\ Len(Q) = d + 1 /\ Layered(Q)
      /\ Q[d + 1] = VarMapCopy(P[d]) /\ \A k \in 1 .. d : Q[k] = P[k]
  <2>1. CopyOn(P, d, Q)
    BY <1>2 DEF CopyOn
  <2> QED
    BY <1>1, <2>1, CopyKeepsLayers, ZenonT(30)
<1>4. d \in 1 .. d /\ P[d] \in Seq(Entries)
  BY <1>1
<1> PICK c : c = VarMapCopy(P[d])
  OBVIOUS
<1>5. c \in Seq(Entries) /\ Len(c) = Len(P[d]) /\ ScopeOf(c) = Lexical!Empty
  BY <1>4, ScopeOfCopy
<1>6. \A i \in 1 .. Len(P[d]) : /\ c[i].key = P[d][i].key /\ c[i].val = P[d][i].val
                                 /\ c[i].has_linkage = P[d][i].has_linkage
  BY <1>4, ScopeOfCopy
<1>7. SoundStack(Q, counter)
  <2> SUFFICES ASSUME NEW k \in 1 .. d + 1, NEW i \in 1 .. Len(Q[k])
               PROVE  Sound(Q[k][i], counter)
    BY <1>3 DEF SoundStack, SoundMap
  <2>1. CASE k = d + 1
    <3>1. i \in 1 .. Len(P[d]) /\ Q[k][i] = c[i]
      BY <1>3, <1>5, <2>1
    <3>2. Sound(P[d][i], counter)
      BY <1>1, <1>4, <3>1 DEF SoundStack, SoundMap
    <3>3. Sound(c[i], counter)
      BY <1>6, <3>1, <3>2 DEF Sound
    <3> QED
      BY <3>1, <3>3
  <2>2. CASE k # d + 1
    <3>1. k \in 1 .. d
      BY <1>1, <2>2
    <3>2. Q[k] = P[k]
      BY <1>3, <3>1
    <3> QED
      BY <1>1, <3>1, <3>2 DEF SoundStack, SoundMap
  <2> QED
    BY <2>1, <2>2
<1>8. FileInv(Q)
  <2>1. 1 \in 1 .. d
    BY <1>1
  <2> QED
    BY <1>1, <1>3, <2>1 DEF FileInv
<1>9. S \in Seq(Nat \ {0}) /\ Len(S) = d + 1 /\ Fits(Q, S)
  <2>1. R[d] \in Nat \ {0}
    BY <1>1, <1>4
  <2>2. S \in Seq(Nat \ {0}) /\ Len(S) = d + 1 /\ S[d + 1] = R[d] /\ \A k \in 1 .. d : S[k] = R[k]
    BY <1>1, <1>2, <2>1
  <2>3. ASSUME NEW k \in 1 .. d + 1
        PROVE  Len(Q[k]) <= S[k]
    <3>1. CASE k = d + 1
      BY <1>1, <1>3, <1>4, <1>5, <2>2, <3>1 DEF Fits
    <3>2. CASE k # d + 1
      <4>1. k \in 1 .. d
        BY <1>1, <3>2
      <4>2. Len(P[k]) <= R[k]
        BY <1>1, <4>1 DEF Fits
      <4> QED
        BY ONLY <1>3, <2>2, <4>1, <4>2
    <3> QED
      BY <3>1, <3>2
  <2> QED
    BY <1>3, <2>2, <2>3 DEF Fits
<1>10. TypeInv'
  BY <1>1, <1>2, <1>3, <1>9 DEF ScopesInv, TypeInv
<1>11. DepthInv' /\ SeenInv'
  BY <1>1, <1>2, <1>3 DEF ScopesInv, DepthInv, SeenInv
<1>12. ScopesInv'
  BY <1>2, <1>3, <1>7, <1>8, <1>9, <1>10, <1>11 DEF ScopesInv
<1>13. ScopesOf(Q) = Append(ScopesOf(P), Lexical!Empty)
  <2>1. DOMAIN ScopesOf(P) = 1 .. d /\ DOMAIN ScopesOf(Q) = 1 .. d + 1 /\ Len(ScopesOf(P)) = d
    BY <1>1, <1>3, StackFacts
  <2>2. \A k \in 1 .. d : ScopesOf(P)[k] = ScopeOf(P[k])
    BY <1>1, StackFacts
  <2>3. d + 1 \in Nat /\ \A k \in 1 .. d + 1 : ScopesOf(Q)[k] = ScopeOf(Q[k])
    BY <1>1, <1>3, StackFacts
  <2> PICK A, E : A = ScopesOf(P) /\ E = Lexical!Empty
    OBVIOUS
  <2>4. ASSUME NEW k \in 1 .. d + 1
        PROVE  ScopesOf(Q)[k] = IF k = d + 1 THEN E ELSE A[k]
    <3>1. CASE k = d + 1
      BY <1>3, <1>5, <2>3, <3>1
    <3>2. CASE k # d + 1
      <4>1. k \in 1 .. d
        BY <1>1, <3>2
      <4> QED
        BY <1>3, <2>2, <2>3, <3>2, <4>1
    <3> QED
      BY <3>1, <3>2
  <2>5. ScopesOf(Q) = [k \in 1 .. d + 1 |-> ScopesOf(Q)[k]]
    BY <2>1 DEF ScopesOf
  <2>6. ScopesOf(Q) = [k \in 1 .. d + 1 |-> IF k = d + 1 THEN E ELSE A[k]]
    BY <2>4, <2>5
  <2>7. A = [k \in 1 .. d |-> A[k]] /\ Len(A) = d
    BY <2>1 DEF ScopesOf
  <2>8. Append(A, E) = [k \in 1 .. d + 1 |-> IF k = d + 1 THEN E ELSE A[k]]
    BY <1>1, <2>7
  <2> QED
    BY <2>6, <2>8
<1>14. Lexical!Open(from, to)
  BY <1>2, <1>13 DEF Lexical!Open
<1> QED
  BY <1>12, <1>14

\* varmap_destroy closes the innermost scope.
LEMMA LeaveStep ==
  ASSUME ScopesInv, LeaveScope
  PROVE  ScopesInv' /\ Lexical!Close
<1> PICK P, Q : P = maps /\ Q = maps'
  OBVIOUS
<1> PICK d : d = Len(maps)
  OBVIOUS
<1> PICK R, S : R = rooms /\ S = rooms'
  OBVIOUS
<1>1. /\ P \in Seq(Seq(Entries)) /\ d = Len(P) /\ d \in Nat \ {0, 1} /\ Layered(P)
      /\ SoundStack(P, counter) /\ Fits(P, R) /\ FileInv(P) /\ counter \in Nat
      /\ R \in Seq(Nat \ {0}) /\ Len(R) = d
  BY DEF ScopesInv, TypeInv, DepthInv, LeaveScope
<1>2. /\ Q = SubSeq(P, 1, d - 1) /\ S = SubSeq(R, 1, d - 1)
      /\ seen' = seen /\ seenRoom' = seenRoom /\ counter' = counter /\ written' = written
      /\ phase = "body" /\ phase' = (IF d = 2 THEN "file" ELSE "body") /\ at' = at
  BY <1>1 DEF LeaveScope
<1>3. Q \in Seq(Seq(Entries)) /\ Len(Q) = d - 1 /\ Layered(Q) /\ \A k \in 1 .. d - 1 : Q[k] = P[k]
  BY ONLY <1>1, <1>2, LeaveKeepsLayers
<1>4. S \in Seq(Nat \ {0}) /\ Len(S) = d - 1 /\ \A k \in 1 .. d - 1 : S[k] = R[k]
  <2> PICK T : T = Nat \ {0}
    OBVIOUS
  <2>1. R \in Seq(T) /\ d - 1 \in Nat /\ d - 1 <= Len(R) /\ S = SubSeq(R, 1, d - 1)
    BY <1>1, <1>2
  <2>2. S \in Seq(T) /\ Len(S) = d - 1 /\ \A k \in 1 .. d - 1 : S[k] = R[k]
    BY ONLY <2>1
  <2> QED
    BY <2>2
<1>5. 1 \in 1 .. d - 1 /\ \A k \in 1 .. d - 1 : k \in 1 .. d
  BY <1>1
<1>6. SoundStack(Q, counter) /\ FileInv(Q) /\ Fits(Q, S)
  <2>1. SoundStack(Q, counter)
    BY ONLY <1>1, <1>3, <1>5 DEF SoundStack
  <2>2. FileInv(Q)
    BY ONLY <1>1, <1>3, <1>5 DEF FileInv
  <2>3. Fits(Q, S)
    BY ONLY <1>1, <1>3, <1>4, <1>5 DEF Fits
  <2> QED
    BY <2>1, <2>2, <2>3
<1>7. TypeInv'
  <2>1. d - 1 \in Nat \ {0}
    BY <1>1
  <2>2. seen \in Seq(Entries) /\ seenRoom \in Nat \ {0} /\ counter \in Nat
    BY DEF ScopesInv, TypeInv
  <2> QED
    BY <1>2, <1>3, <1>4, <2>1, <2>2 DEF TypeInv
<1>8. DepthInv' /\ SeenInv'
  <2>1. phase' = "body" => Len(Q) >= 2
    BY <1>1, <1>2, <1>3
  <2>2. DepthInv'
    BY <1>2, <2>1 DEF DepthInv
  <2>3. SeenInv'
    BY <1>2 DEF ScopesInv, SeenInv
  <2> QED
    BY <2>2, <2>3
<1>9. ScopesInv'
  BY <1>2, <1>3, <1>6, <1>7, <1>8 DEF ScopesInv
<1>10. ScopesOf(Q) = SubSeq(ScopesOf(P), 1, d - 1)
  <2>1. DOMAIN ScopesOf(P) = 1 .. d /\ \A k \in 1 .. d : ScopesOf(P)[k] = ScopeOf(P[k])
    BY <1>1, StackFacts
  <2>2. d - 1 \in Nat /\ DOMAIN ScopesOf(Q) = 1 .. d - 1 /\ \A k \in 1 .. d - 1 : ScopesOf(Q)[k] = ScopeOf(Q[k])
    <3>1. d - 1 \in Nat /\ d - 1 = Len(Q) /\ Q \in Seq(Seq(Entries))
      BY <1>1, <1>3
    <3> QED
      BY ONLY <3>1, StackFacts
  <2> PICK A : A = ScopesOf(P)
    OBVIOUS
  <2>3. \A k \in 1 .. d - 1 : ScopesOf(Q)[k] = A[k]
    BY <1>3, <1>5, <2>1, <2>2
  <2>4. ScopesOf(Q) = [k \in 1 .. d - 1 |-> A[k]]
    BY <2>2, <2>3 DEF ScopesOf
  <2>5. SubSeq(A, 1, d - 1) = [k \in 1 .. d - 1 |-> A[k]]
    BY <1>1
  <2> QED
    BY <2>4, <2>5
<1>11. Len(ScopesOf(P)) = d
  BY <1>1, StackFacts
<1>12. Lexical!Close
  BY <1>2, <1>10, <1>11 DEF Lexical!Close
<1> QED
  BY <1>9, <1>12

-----------------------------------------------------------------------------
(* The actions *)

LEMMA BindGlobalStep ==
  ASSUME ScopesInv, NEW x \in Names, BindGlobal(x)
  PROVE  ScopesInv' /\ Lexical!FileName(x)
<1>1. phase = "globals" /\ Len(maps) = 1 /\ counter \in Nat
  BY DEF BindGlobal, ScopesInv, DepthInv, TypeInv
<1>2. /\ at' = <<"global", x>> /\ phase' = phase /\ counter' = counter /\ written' = written
      /\ UNCHANGED <<seen, seenRoom>>
  BY DEF BindGlobal, Meet, Put
<1>3. ObjectOf(x) = Lexical!File(x)
  BY ObjectsOfNames
<1>4. CASE Put(FileEntry(x))
  <2>1. /\ FileEntry(x) \in Entries /\ FileEntry(x).is_cur_scope /\ FileEntry(x).has_linkage
        /\ FileEntry(x).key = x /\ FileEntry(x).val = x
    BY <1>1, EntriesMade
  <2>2. Sound(FileEntry(x), counter')
    BY <2>1 DEF Sound
  <2>3. counter' \in Nat /\ counter <= counter' /\ UNCHANGED phase
    BY <1>1, <1>2
  <2> PICK e \in Entries : e = FileEntry(x)
    BY <2>1
  <2>4. Put(e) /\ Sound(e, counter') /\ e.is_cur_scope /\ e.has_linkage
    BY <1>4, <2>1, <2>2
  <2>5. ScopesInv' /\ Lexical!Declares(e.key, ObjectOf(e.val))
    BY <2>3, <2>4, PutStep
  <2>6. Lexical!Declares(x, Lexical!File(x))
    BY <1>3, <2>1, <2>5
  <2> QED
    BY <1>1, <1>2, <2>5, <2>6 DEF Lexical!FileName, Lexical!Meets
<1>5. CASE Bound(Top, x) /\ UNCHANGED <<maps, rooms, seen, seenRoom>>
  <2>1. ScopesInv' /\ UNCHANGED ScopesOf(maps)
    <3>1. DepthInv'
      BY <1>1, <1>2, <1>5 DEF DepthInv
    <3> QED
      BY <1>2, <1>5, <3>1, MapsKept
  <2> PICK P, t : P = maps /\ t = Top
    OBVIOUS
  <2>2. P \in Seq(Seq(Entries)) /\ Len(P) = 1 /\ t = P[1] /\ t \in Seq(Entries) /\ Layered(P) /\ FileInv(P)
    <3>1. P \in Seq(Seq(Entries)) /\ Len(P) = 1 /\ t = P[1]
      BY <1>1 DEF ScopesInv, TypeInv, Top
    <3>2. t \in Seq(Entries)
      BY ONLY <3>1
    <3>3. Layered(P) /\ FileInv(P)
      BY DEF ScopesInv
    <3> QED
      BY <3>1, <3>2, <3>3
  <2>3. OwnFrom(t, 0) /\ \A i \in 1 .. Len(t) : t[i].is_cur_scope /\ t[i].has_linkage /\ Sound(t[i], counter)
    <3>1. \A i \in 1 .. Len(t) : i > 0 /\ t[i].is_cur_scope
      <4>1. OwnBeyond(<<>>, t) /\ Len(<<>>) = 0
        BY <2>2 DEF Layered
      <4> QED
        BY <4>1 DEF OwnBeyond
    <3>2. \A i \in 1 .. Len(t) : t[i].has_linkage
      BY <2>2 DEF FileInv
    <3>3. \A i \in 1 .. Len(t) : Sound(t[i], counter)
      BY TopFacts DEF SoundMap
    <3> QED
      BY <3>1, <3>2, <3>3 DEF OwnFrom
  <2>4. /\ Bound(t, x) /\ VarMapGet(t, x).is_cur_scope <=> x \in DOMAIN ScopeOf(t)
        /\ x \in DOMAIN ScopeOf(t) => ScopeOf(t)[x] = ObjectOf(VarMapGet(t, x).val)
        /\ Bound(t, x) => \E i \in 1 .. Len(t) : t[i].key = x /\ VarMapGet(t, x) = t[i]
    BY <2>2, <2>3, LastIsOwn
  <2>5. PICK i \in 1 .. Len(t) : t[i].key = x /\ VarMapGet(t, x) = t[i]
    BY <1>5, <2>4
  <2>6. t[i].val = x /\ t[i].is_cur_scope
    BY <2>2, <2>3, <2>5 DEF Sound
  <2> PICK f : f = ScopeOf(t)
    OBVIOUS
  <2>7. x \in DOMAIN f /\ f[x] = Lexical!File(x)
    BY <1>3, <1>5, <2>4, <2>5, <2>6
  <2>8. f = [y \in DOMAIN f |-> f[y]]
    BY DEF ScopeOf
  <2>9. Lexical!Bind(f, x, Lexical!File(x)) = f
    <3>1. DOMAIN f \cup {x} = DOMAIN f
      BY <2>7
    <3>2. [y \in DOMAIN f |-> IF y = x THEN Lexical!File(x) ELSE f[y]] = [y \in DOMAIN f |-> f[y]]
      BY <2>7
    <3> QED
      BY <2>8, <3>1, <3>2 DEF Lexical!Bind
  <2>10. ScopesOf(P) = [k \in 1 .. 1 |-> f]
    BY <2>2 DEF ScopesOf
  <2> PICK A : A = ScopesOf(P)
    OBVIOUS
  <2>11. Len(A) = 1 /\ A[1] = f /\ [A EXCEPT ![1] = f] = A
    BY <2>10
  <2>12. Lexical!Declares(x, Lexical!File(x))
    BY <2>1, <2>9, <2>11 DEF Lexical!Declares
  <2> QED
    BY <1>1, <1>2, <2>1, <2>12 DEF Lexical!FileName, Lexical!Meets
<1> QED
  BY <1>4, <1>5 DEF BindGlobal

\* A renamed variable is a new one.
LEMMA RenameStep ==
  ASSUME ScopesInv, NEW x \in Names, Rename(x), phase \in {"params", "body"}
  PROVE  /\ ScopesInv' /\ Lexical!Declares(x, Lexical!Variable(x, counter))
         /\ ObjectOf(written)' = Lexical!Variable(x, counter)
         /\ counter' = counter + 1 /\ UNCHANGED <<seen, seenRoom, phase>>
<1>1. counter \in Nat /\ Len(maps) >= 2 /\ Len(maps) \in Nat
  BY DEF ScopesInv, TypeInv, DepthInv
<1> PICK n \in Nat : n = counter
  BY <1>1
<1>2. /\ Put(LocalEntry(x, n)) /\ counter' = n + 1 /\ written' = UniqueName(x, n) /\ UNCHANGED phase
  BY DEF Rename
<1>3. /\ LocalEntry(x, n) \in Entries /\ LocalEntry(x, n).is_cur_scope /\ ~LocalEntry(x, n).has_linkage
      /\ LocalEntry(x, n).key = x /\ LocalEntry(x, n).val = UniqueName(x, n)
  BY EntriesMade
<1>4. Sound(LocalEntry(x, n), n + 1)
  <2>1. n \in 0 .. (n + 1) - 1
    OBVIOUS
  <2> QED
    BY <1>3, <2>1 DEF Sound
<1> PICK e \in Entries : e = LocalEntry(x, n)
  BY <1>3
<1>5. Put(e) /\ e.is_cur_scope /\ Sound(e, counter') /\ counter' \in Nat /\ counter <= counter'
  BY <1>2, <1>3, <1>4
<1>6. ~(Len(maps) = 1)
  <2> PICK d : d = Len(maps)
    OBVIOUS
  <2>1. d >= 2 /\ d \in Nat
    BY <1>1
  <2>2. d # 1
    BY ONLY <2>1
  <2> QED
    BY <2>2
<1>7. ScopesInv' /\ Lexical!Declares(e.key, ObjectOf(e.val))
  BY <1>2, <1>5, <1>6, PutStep
<1>8. ObjectOf(UniqueName(x, n)) = Lexical!Variable(x, n)
  BY ObjectsOfNames
<1>9. UNCHANGED <<seen, seenRoom>>
  BY <1>2 DEF Put
<1> QED
  BY <1>2, <1>3, <1>7, <1>8, <1>9

\* A refused declaration or name leaves the maps as they are.
LEMMA ExitStep ==
  ASSUME ScopesInv, NEW reason \in {"conflicting", "undeclared"}, Exit(reason)
  PROVE  ScopesInv' /\ Lexical!Invalid(reason)
<1>1. DepthInv'
  BY DEF Exit, DepthInv
<1>2. ScopesInv' /\ UNCHANGED ScopesOf(maps)
  BY <1>1, MapsKept DEF Exit
<1> QED
  BY <1>2 DEF Exit, Lexical!Invalid

LEMMA DeclareParamStep ==
  ASSUME ScopesInv, NEW x \in Names, DeclareParam(x)
  PROVE  ScopesInv' /\ Lexical!Define("params", "parameter", x)
<1>1. BoundInCurrentScope(Top, x) <=> Lexical!Declared(x)
  BY TopFacts, LastIsOwn
<1>2. phase = "params" /\ at' = <<"parameter", x>>
  BY DEF DeclareParam, Meet
<1>3. CASE ~BoundInCurrentScope(Top, x) /\ Rename(x)
  BY <1>1, <1>2, <1>3, RenameStep DEF Lexical!Define, Lexical!Meets
<1>4. CASE BoundInCurrentScope(Top, x) /\ Exit("conflicting")
  BY <1>1, <1>2, <1>4, ExitStep DEF Lexical!Define, Lexical!Meets
<1> QED
  BY <1>3, <1>4 DEF DeclareParam

\* When a declaration conflicts, in terms of the innermost scope.
LEMMA ConflictsAtTop ==
  ASSUME ScopesInv, NEW x \in Names
  PROVE  /\ Conflicts(Top, x, "AUTO") <=> Lexical!Declared(x)
         /\ Conflicts(Top, x, "EXTERN") <=> Lexical!Declared(x) /\ Lexical!Innermost[x] # Lexical!File(x)
<1>1. counter \in Nat
  BY DEF ScopesInv, TypeInv
<1>2. /\ Top \in Seq(Entries) /\ SoundMap(Top, counter)
      /\ Lexical!Innermost = ScopeOf(Top)
      /\ Lexical!Declared(x) <=> x \in DOMAIN ScopeOf(Top)
  BY TopFacts
<1>3. PICK b \in Nat : OwnFrom(Top, b)
  BY TopFacts
<1> PICK m, n : m = Top /\ n = counter
  OBVIOUS
<1>4. /\ Conflicts(m, x, "AUTO") <=> x \in DOMAIN ScopeOf(m)
      /\ Conflicts(m, x, "EXTERN") <=> x \in DOMAIN ScopeOf(m) /\ ScopeOf(m)[x] # Lexical!File(x)
  BY <1>1, <1>2, <1>3, ConflictsAreRedeclarations
<1> QED
  BY <1>2, <1>4

LEMMA DeclareLocalStep ==
  ASSUME ScopesInv, NEW x \in Names, DeclareLocal(x)
  PROVE  ScopesInv' /\ Lexical!Define("body", "variable", x)
<1>1. Conflicts(Top, x, "AUTO") <=> Lexical!Declared(x)
  BY ConflictsAtTop
<1>2. phase = "body" /\ at' = <<"variable", x>>
  BY DEF DeclareLocal, Meet
<1>3. CASE ~Conflicts(Top, x, "AUTO") /\ Rename(x)
  BY <1>1, <1>2, <1>3, RenameStep DEF Lexical!Define, Lexical!Meets
<1>4. CASE Conflicts(Top, x, "AUTO") /\ Exit("conflicting")
  BY <1>1, <1>2, <1>4, ExitStep DEF Lexical!Define, Lexical!Meets
<1> QED
  BY <1>3, <1>4 DEF DeclareLocal

LEMMA DeclareExternStep ==
  ASSUME ScopesInv, NEW x \in Names, DeclareExtern(x)
  PROVE  ScopesInv' /\ Lexical!Refer(x)
<1>1. Conflicts(Top, x, "EXTERN") <=> Lexical!Declared(x) /\ Lexical!Innermost[x] # Lexical!File(x)
  BY ConflictsAtTop
<1>2. phase = "body" /\ at' = <<"extern", x>>
  BY DEF DeclareExtern, Meet
<1>3. CASE /\ ~Conflicts(Top, x, "EXTERN") /\ Put(FileEntry(x)) /\ written' = x
           /\ UNCHANGED <<counter, phase>>
  <2>1. counter \in Nat
    BY DEF ScopesInv, TypeInv
  <2>2. /\ FileEntry(x) \in Entries /\ FileEntry(x).is_cur_scope /\ FileEntry(x).has_linkage
        /\ FileEntry(x).key = x /\ FileEntry(x).val = x
    BY <2>1, EntriesMade
  <2> PICK e \in Entries : e = FileEntry(x)
    BY <2>2
  <2>3. Put(e) /\ Sound(e, counter') /\ e.is_cur_scope /\ e.has_linkage
    BY <1>3, <2>2 DEF Sound
  <2>4. counter' \in Nat /\ counter <= counter' /\ UNCHANGED phase
    BY <1>3, <2>1
  <2>5. ScopesInv' /\ Lexical!Declares(e.key, ObjectOf(e.val))
    BY <2>3, <2>4, PutStep
  <2>6. ObjectOf(x) = Lexical!File(x)
    BY ObjectsOfNames
  <2>7. Lexical!Declares(x, Lexical!File(x)) /\ ObjectOf(written)' = Lexical!File(x)
    BY <1>3, <2>2, <2>5, <2>6
  <2>8. UNCHANGED seen
    BY <2>3 DEF Put
  <2> QED
    BY <1>1, <1>2, <1>3, <2>5, <2>7, <2>8 DEF Lexical!Refer, Lexical!Meets
<1>4. CASE Conflicts(Top, x, "EXTERN") /\ Exit("conflicting")
  BY <1>1, <1>2, <1>4, ExitStep DEF Lexical!Refer, Lexical!Meets
<1> QED
  BY <1>3, <1>4 DEF DeclareExtern

LEMMA UseStep ==
  ASSUME ScopesInv, NEW x \in Names, Use(x)
  PROVE  ScopesInv' /\ Lexical!Use(x)
<1> PICK P, d, t : P = maps /\ d = Len(maps) /\ t = Top
  OBVIOUS
<1>1. P \in Seq(Seq(Entries)) /\ d \in Nat \ {0} /\ d = Len(P) /\ Layered(P) /\ t = P[d]
  BY DEF ScopesInv, TypeInv, Top
<1>2. phase \in {"file", "body"} /\ at' = <<"use", x>>
  BY DEF Use, Meet
<1>3. DOMAIN ScopesOf(P) = 1 .. d /\ \A k \in 1 .. d : ScopesOf(P)[k] = ScopeOf(P[k])
  BY <1>1, StackFacts
<1>4. CASE /\ Bound(t, x) /\ written' = VarMapGet(t, x).val
           /\ UNCHANGED <<maps, rooms, seen, seenRoom, counter, phase>>
  <2> PICK o : o = ObjectOf(VarMapGet(t, x).val)
    OBVIOUS
  <2>0. PICK k \in 1 .. d : InnermostIs(P, x, k, o)
    BY <1>1, <1>4, LastIsInnermost
  <2>1. /\ x \in DOMAIN ScopeOf(P[k]) /\ ObjectOf(VarMapGet(t, x).val) = ScopeOf(P[k])[x]
        /\ \A j \in 1 .. d : x \in DOMAIN ScopeOf(P[j]) => j <= k
    BY <1>1, <2>0 DEF InnermostIs
  <2>2. Lexical!DeclaredBy(k, x)
    BY <1>3, <2>1 DEF Lexical!DeclaredBy
  <2>3. ObjectOf(written)' = ScopesOf(P)[k][x]
    BY <1>3, <1>4, <2>1
  <2>4. DepthInv'
    BY <1>4 DEF ScopesInv, DepthInv
  <2>5. ScopesInv' /\ UNCHANGED ScopesOf(maps)
    BY <1>4, <2>4, MapsKept
  <2> QED
    BY <1>2, <1>3, <1>4, <2>2, <2>3, <2>5 DEF Lexical!Use, Lexical!Meets
<1>5. CASE ~Bound(t, x) /\ Exit("undeclared")
  <2>1. \A k \in 1 .. d : x \notin DOMAIN ScopeOf(P[k])
    BY <1>1, <1>5, UnboundIsUndeclared
  <2>2. ScopesInv' /\ Lexical!Invalid("undeclared")
    BY <1>5, ExitStep
  <2> QED
    BY <1>2, <1>3, <2>1, <2>2 DEF Lexical!Use, Lexical!Meets
<1> QED
  BY <1>4, <1>5 DEF Use

\* The map of a prototype holds its parameters and nothing else.
LEMMA PrototypeStep ==
  ASSUME ScopesInv, BeginPrototype \/ EndPrototype
  PROVE  ScopesInv' /\ Lexical!Prototype
<1>1. CASE BeginPrototype
  <2>1. DepthInv'
    BY <1>1 DEF BeginPrototype, DepthInv
  <2>2. ScopesInv' /\ UNCHANGED ScopesOf(maps)
    BY <1>1, <2>1, MapsKept DEF BeginPrototype
  <2> QED
    BY <1>1, <2>2 DEF BeginPrototype, Lexical!Prototype
<1>2. CASE EndPrototype
  <2>1. UNCHANGED <<maps, rooms, counter, at, written>> /\ seen' = <<>> /\ seenRoom' = PrototypeRoom
    BY <1>2 DEF EndPrototype
  <2>2. TypeInv' /\ DepthInv' /\ SeenInv'
    BY <1>2, <2>1, RoomAssumption DEF ScopesInv, TypeInv, DepthInv, SeenInv, EndPrototype
  <2>3. ScopesInv'
    BY <2>1, <2>2 DEF ScopesInv
  <2>4. {seen[i].key : i \in DOMAIN seen}' = {}
    BY <2>1
  <2> QED
    BY <1>2, <2>1, <2>3, <2>4 DEF EndPrototype, Lexical!Prototype
<1> QED
  BY <1>1, <1>2

LEMMA PrototypeParamStep ==
  ASSUME ScopesInv, NEW x \in Names, PrototypeParam(x)
  PROVE  ScopesInv' /\ Lexical!PrototypeName(x)
<1>1. phase = "prototype" /\ at' = <<"prototype parameter", x>>
  BY DEF PrototypeParam, Meet
<1> PICK m, n : m = seen /\ n = Len(seen)
  OBVIOUS
<1>2. /\ m \in Seq(Entries) /\ n \in Nat /\ DOMAIN m = 1 .. n /\ n <= seenRoom /\ seenRoom \in Nat \ {0}
      /\ \A i \in 1 .. n : m[i].is_cur_scope
  BY DEF ScopesInv, TypeInv, SeenInv
<1>3. BoundInCurrentScope(m, x) <=> x \in {m[i].key : i \in DOMAIN m}
  BY <1>2 DEF BoundInCurrentScope, VarMapIndexes
<1>4. CASE /\ ~BoundInCurrentScope(m, x) /\ seen' = Append(m, Entry(x, x, TRUE, FALSE))
           /\ seenRoom' = Grown(seenRoom, n)
           /\ UNCHANGED <<maps, rooms, counter, phase, written>>
  <2> PICK e : e = Entry(x, x, TRUE, FALSE)
    OBVIOUS
  <2>1. e \in Entries /\ e.key = x /\ e.is_cur_scope
    BY DEF Entry, Entries
  <2> PICK w : w = seen'
    OBVIOUS
  <2>2. /\ w \in Seq(Entries) /\ Len(w) = n + 1 /\ DOMAIN w = 1 .. n + 1 /\ w[n + 1] = e
        /\ \A i \in 1 .. n : w[i] = m[i]
    <3>1. w = Append(m, e)
      BY <1>4
    <3> QED
      BY ONLY <1>2, <2>1, <3>1
  <2>3. {w[i].key : i \in DOMAIN w} = {m[i].key : i \in DOMAIN m} \cup {x}
    <3>1. ASSUME NEW y
          PROVE  y \in {w[i].key : i \in 1 .. n + 1} <=> y \in {m[i].key : i \in 1 .. n} \cup {x}
      <4>1. ASSUME NEW i \in 1 .. n + 1, y = w[i].key
            PROVE  y \in {m[j].key : j \in 1 .. n} \cup {x}
        <5>1. CASE i = n + 1
          BY <2>1, <2>2, <4>1, <5>1
        <5>2. CASE i # n + 1
          <6>1. i \in 1 .. n
            BY <1>2, <5>2
          <6> QED
            BY <2>2, <4>1, <6>1
        <5> QED
          BY <5>1, <5>2
      <4>2. ASSUME NEW i \in 1 .. n, y = m[i].key
            PROVE  y \in {w[j].key : j \in 1 .. n + 1}
        <5>1. i \in 1 .. n + 1 /\ w[i] = m[i]
          BY <1>2, <2>2
        <5> QED
          BY <4>2, <5>1
      <4>3. n + 1 \in 1 .. n + 1 /\ w[n + 1].key = x
        <5>1. n + 1 \in 1 .. n + 1
          BY <1>2
        <5>2. w[n + 1] = e /\ e.key = x
          BY ONLY <2>1, <2>2
        <5> QED
          BY ONLY <5>1, <5>2
      <4> QED
        BY <4>1, <4>2, <4>3
    <3>2. {w[i].key : i \in 1 .. n + 1} = {m[i].key : i \in 1 .. n} \cup {x}
      BY <3>1
    <3> QED
      BY <1>2, <2>2, <3>2
  <2>4. \A i \in 1 .. n + 1 : w[i].is_cur_scope
    <3> TAKE i \in 1 .. n + 1
    <3>1. CASE i = n + 1
      BY <2>1, <2>2, <3>1
    <3>2. CASE i # n + 1
      BY <1>2, <2>2, <3>2
    <3> QED
      BY <3>1, <3>2
  <2>5. seenRoom' \in Nat \ {0} /\ n + 1 <= seenRoom'
    BY <1>2, <1>4 DEF Grown
  <2>6. SeenInv'
    BY <2>2, <2>4, <2>5 DEF SeenInv
  <2>7. TypeInv' /\ DepthInv'
    BY <1>4, <2>2, <2>5 DEF ScopesInv, TypeInv, DepthInv
  <2>8. ScopesInv'
    BY <1>4, <2>6, <2>7 DEF ScopesInv
  <2>9. {seen[i].key : i \in DOMAIN seen}' = {seen[i].key : i \in DOMAIN seen} \cup {x}
    BY <2>3
  <2>10. x \notin {seen[i].key : i \in DOMAIN seen}
    BY <1>3, <1>4
  <2>11. UNCHANGED <<ScopesOf(maps), counter, phase, ObjectOf(written)>>
    BY <1>4
  <2> QED
    BY <1>1, <2>8, <2>9, <2>10, <2>11 DEF Lexical!PrototypeName, Lexical!Meets
<1>5. CASE BoundInCurrentScope(m, x) /\ Exit("conflicting")
  BY <1>1, <1>3, <1>5, ExitStep DEF Lexical!PrototypeName, Lexical!Meets
<1> QED
  BY <1>4, <1>5 DEF PrototypeParam

\* From one part of the file to the next.
LEMMA ProceedStep ==
  ASSUME ScopesInv, GlobalsBound \/ BeginBody \/ Finish
  PROVE  /\ ScopesInv'
         /\ \/ Lexical!Proceed("globals", "file") \/ Lexical!Proceed("params", "body")
            \/ Lexical!Proceed("file", "finished")
<1>1. UNCHANGED <<maps, rooms, seen, seenRoom, counter, at, written>>
  BY DEF GlobalsBound, BeginBody, Finish
<1>2. DepthInv'
  BY DEF GlobalsBound, BeginBody, Finish, ScopesInv, DepthInv
<1>3. ScopesInv' /\ UNCHANGED ScopesOf(maps)
  BY <1>1, <1>2, MapsKept
<1> QED
  BY <1>1, <1>3 DEF GlobalsBound, BeginBody, Finish, Lexical!Proceed

LEMMA ScopesStart ==
  ASSUME Init
  PROVE  ScopesInv /\ Lexical!LexicalInit
<1>1. /\ maps = <<<<>>>> /\ rooms = <<GlobalsRoom>> /\ seen = <<>> /\ seenRoom = PrototypeRoom
      /\ counter = 0 /\ phase = "globals" /\ at = <<>> /\ written = <<>>
  BY DEF Init
<1>2. TypeInv /\ DepthInv /\ SeenInv
  BY <1>1, RoomAssumption DEF TypeInv, DepthInv, SeenInv
<1>3. Len(maps) = 1 /\ maps[1] = <<>> /\ Len(<<>>) = 0
  BY <1>1
<1>4. Layered(maps) /\ SoundStack(maps, counter) /\ FileInv(maps) /\ Fits(maps, rooms)
  <2> PICK P, R : P = maps /\ R = rooms
    OBVIOUS
  <2>1. \A k \in 1 .. Len(P) : k = 1 /\ Len(P[k]) = 0
    BY <1>3
  <2>2. Layered(P)
    <3>1. \A j, k \in 1 .. Len(P) : ~(j < k)
      BY <2>1
    <3>2. 2 .. Len(P) = {}
      BY <1>3
    <3>3. OwnBeyond(<<>>, P[1])
      BY <1>3 DEF OwnBeyond
    <3> QED
      BY <3>1, <3>2, <3>3 DEF Layered
  <2>3. SoundStack(P, counter)
    BY <2>1 DEF SoundStack, SoundMap
  <2>4. FileInv(P)
    BY <1>3 DEF FileInv
  <2>5. Fits(P, R)
    BY <1>1, <2>1, RoomAssumption DEF Fits
  <2> QED
    BY <2>2, <2>3, <2>4, <2>5
<1>5. ScopeOf(<<>>) = Lexical!Empty
  <2>1. Own(<<>>) = {}
    BY DEF Own
  <2>2. {<<>>[i].key : i \in Own(<<>>)} = {}
    BY <2>1
  <2> QED
    BY <2>2 DEF ScopeOf, Lexical!Empty
<1>6. ScopesOf(maps) = <<Lexical!Empty>>
  <2> PICK P, E : P = maps /\ E = Lexical!Empty
    OBVIOUS
  <2>1. ScopesOf(P) = [k \in 1 .. 1 |-> E]
    BY <1>1, <1>3, <1>5 DEF ScopesOf
  <2> QED
    BY <2>1
<1>7. {seen[i].key : i \in DOMAIN seen} = {} /\ ObjectOf(written) = Lexical!Nothing
  BY <1>1 DEF ObjectOf, Lexical!Nothing
<1> QED
  BY <1>1, <1>2, <1>4, <1>6, <1>7 DEF ScopesInv, Lexical!LexicalInit

LEMMA ScopesStep ==
  ASSUME ScopesInv, [Next]_vars
  PROVE  ScopesInv' /\ [Lexical!LexicalNext]_(Lexical!lexicalVars)
<1>1. CASE GlobalsBound \/ BeginBody \/ Finish
  BY <1>1, ProceedStep DEF Lexical!LexicalNext
<1>2. CASE BeginFunction
  BY <1>2, CopyStep DEF BeginFunction, Lexical!LexicalNext
<1>3. CASE EnterScope
  BY <1>3, CopyStep DEF EnterScope, Lexical!LexicalNext
<1>4. CASE LeaveScope
  BY <1>4, LeaveStep DEF Lexical!LexicalNext
<1>5. CASE BeginPrototype \/ EndPrototype
  BY <1>5, PrototypeStep DEF Lexical!LexicalNext
<1>6. CASE Ended \/ UNCHANGED vars
  <2>1. UNCHANGED vars
    BY <1>6 DEF Ended
  <2>2. DepthInv'
    BY <2>1 DEF vars, ScopesInv, DepthInv
  <2>3. ScopesInv' /\ UNCHANGED ScopesOf(maps)
    BY <2>1, <2>2, MapsKept DEF vars
  <2> QED
    BY <2>1, <2>3 DEF vars, Lexical!lexicalVars
<1>7. ASSUME NEW x \in Names, BindGlobal(x)
      PROVE  ScopesInv' /\ Lexical!LexicalNext
  BY <1>7, BindGlobalStep DEF Lexical!LexicalNext
<1>8. ASSUME NEW x \in Names, DeclareParam(x)
      PROVE  ScopesInv' /\ Lexical!LexicalNext
  BY <1>8, DeclareParamStep DEF Lexical!LexicalNext
<1>9. ASSUME NEW x \in Names, DeclareLocal(x)
      PROVE  ScopesInv' /\ Lexical!LexicalNext
  BY <1>9, DeclareLocalStep DEF Lexical!LexicalNext
<1>10. ASSUME NEW x \in Names, DeclareExtern(x)
       PROVE  ScopesInv' /\ Lexical!LexicalNext
  BY <1>10, DeclareExternStep DEF Lexical!LexicalNext
<1>11. ASSUME NEW x \in Names, Use(x)
       PROVE  ScopesInv' /\ Lexical!LexicalNext
  BY <1>11, UseStep DEF Lexical!LexicalNext
<1>12. ASSUME NEW x \in Names, PrototypeParam(x)
       PROVE  ScopesInv' /\ Lexical!LexicalNext
  BY <1>12, PrototypeParamStep DEF Lexical!LexicalNext
<1> QED
  BY <1>1, <1>2, <1>3, <1>4, <1>5, <1>6, <1>7, <1>8, <1>9, <1>10, <1>11, <1>12 DEF Next

-----------------------------------------------------------------------------
(* The theorems *)

\* resolve_variables follows C's rules for scopes: over any tree, with any number
\* of names, scopes and declarations, it refuses exactly the declarations and the
\* names C refuses, and gives every object a name that no other has.
THEOREM NamesAreResolvedAsC == Spec => ImplementsLexicalScopes
<1>1. Init => ScopesInv /\ Lexical!LexicalInit
  BY ScopesStart
<1>2. ScopesInv /\ [Next]_vars => ScopesInv' /\ [Lexical!LexicalNext]_(Lexical!lexicalVars)
  BY ScopesStep
<1> QED
  BY <1>1, <1>2, PTL DEF Spec, ImplementsLexicalScopes, Lexical!LexicalSpec

\* varmap_put and varmap_copy write within their arrays, however many entries a
\* map gets and however often it is copied.
THEOREM MapsFit == Spec => []EntriesFit
<1>1. Init => ScopesInv
  BY ScopesStart
<1>2. ScopesInv /\ [Next]_vars => ScopesInv'
  BY ScopesStep
<1>3. ScopesInv => EntriesFit
  BY DEF ScopesInv, TypeInv, SeenInv, Fits, EntriesFit
<1> QED
  BY <1>1, <1>2, <1>3, PTL DEF Spec
=============================================================================
