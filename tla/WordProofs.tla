----------------------------- MODULE WordProofs -----------------------------
(***************************************************************************)
(* Machine words: what the operators of Words return, for every width.      *)
(***************************************************************************)
EXTENDS Words, WellFoundedInduction, TLAPS

-----------------------------------------------------------------------------
(* Recursion over the natural numbers *)

\* A set of numbers that holds 0 and the successor of each of its members.
LEMMA Induction ==
  ASSUME NEW A, 0 \in A, \A n \in Nat : n \in A => n + 1 \in A
  PROVE  \A n \in Nat : n \in A
<1> DEFINE R == OpToRel(<, Nat)
           T == Nat \ A
<1> SUFFICES ASSUME T # {} PROVE FALSE
  OBVIOUS
<1>1. PICK n \in T : \A m \in T : ~(<<m, n>> \in R)
  <2>1. IsWellFoundedOn(R, Nat) /\ T \subseteq Nat
    BY NatLessThanWellFounded
  <2> HIDE DEF T, R
  <2> QED
    BY <2>1, WFMin
<1>2. n \in Nat /\ n # 0 /\ n - 1 \in Nat
  OBVIOUS
<1>3. n - 1 \notin A
  <2>1. (n - 1) + 1 = n
    BY <1>2
  <2> QED
    BY <1>2, <2>1
<1>4. <<n - 1, n>> \in R
  BY <1>2 DEF OpToRel
<1> QED
  BY <1>1, <1>2, <1>3, <1>4

\* f follows step from c for its first n steps.
Follows(f, c, step, n) == f[0] = c /\ \A k \in 0 .. n - 1 : f[k + 1] = step[k][f[k]]

\* f follows step from c for ever.
Recurses(f, c, step) == f[0] = c /\ \A k \in Nat : f[k + 1] = step[k][f[k]]

\* A first value and a step define a function on the natural numbers.
LEMMA Recursion ==
  ASSUME NEW S, NEW c \in S, NEW step \in [Nat -> [S -> S]]
  PROVE  \E f \in [Nat -> S] : Recurses(f, c, step)
<1> DEFINE A == {n \in Nat : \E g \in [0 .. n -> S] : Follows(g, c, step, n)}
<1>1. 0 \in A
  <2> DEFINE g == [k \in 0 .. 0 |-> c]
  <2>1. g \in [0 .. 0 -> S] /\ Follows(g, c, step, 0)
    BY DEF Follows
  <2> HIDE DEF g
  <2> QED
    BY <2>1
<1>2. ASSUME NEW n \in Nat, n \in A
      PROVE  n + 1 \in A
  <2>1. PICK g \in [0 .. n -> S] : Follows(g, c, step, n)
    BY <1>2
  <2> DEFINE h == [k \in 0 .. n + 1 |-> IF k <= n THEN g[k] ELSE step[n][g[n]]]
  <2>2. g[n] \in S /\ step[n][g[n]] \in S
    OBVIOUS
  <2>3. h \in [0 .. n + 1 -> S]
    BY <2>2
  <2>4. (\A k \in 0 .. n : h[k] = g[k]) /\ h[n + 1] = step[n][g[n]]
    OBVIOUS
  <2> HIDE DEF h
  <2>5. h[0] = c
    BY <2>1, <2>4 DEF Follows
  <2>6. ASSUME NEW k \in 0 .. n
        PROVE  h[k + 1] = step[k][h[k]]
    <3>1. CASE k = n
      BY <2>4, <3>1
    <3>2. CASE k # n
      <4>1. k \in 0 .. n - 1 /\ k + 1 \in 0 .. n
        BY <3>2
      <4> QED
        BY <2>1, <2>4, <4>1 DEF Follows
    <3> QED
      BY <3>1, <3>2
  <2>7. Follows(h, c, step, n + 1)
    BY <2>5, <2>6 DEF Follows
  <2> QED
    BY <2>3, <2>7
<1>3. \A n \in Nat : n \in A
  <2> HIDE DEF A
  <2> QED
    BY <1>1, <1>2, Induction
\* Two approximations agree where both are defined.
<1>4. ASSUME NEW n \in Nat, NEW m \in Nat, NEW g, NEW h, Follows(g, c, step, n), Follows(h, c, step, m)
      PROVE  \A k \in Nat : k <= n /\ k <= m => g[k] = h[k]
  <2> DEFINE B == {k \in Nat : k <= n /\ k <= m => g[k] = h[k]}
  <2>1. 0 \in B
    BY <1>4 DEF Follows
  <2>2. ASSUME NEW k \in Nat, k \in B
        PROVE  k + 1 \in B
    <3> SUFFICES ASSUME k + 1 <= n, k + 1 <= m PROVE g[k + 1] = h[k + 1]
      OBVIOUS
    <3>1. k \in 0 .. n - 1 /\ k \in 0 .. m - 1
      OBVIOUS
    <3>2. g[k] = h[k]
      BY <2>2, <3>1
    <3> QED
      BY <1>4, <3>1, <3>2 DEF Follows
  <2>3. \A k \in Nat : k \in B
    <3> HIDE DEF B
    <3> QED
      BY <2>1, <2>2, Induction
  <2> QED
    BY <2>3
<1> DEFINE a == [n \in Nat |-> CHOOSE g \in [0 .. n -> S] : Follows(g, c, step, n)]
           f == [n \in Nat |-> a[n][n]]
<1>5. ASSUME NEW n \in Nat
      PROVE  a[n] \in [0 .. n -> S] /\ Follows(a[n], c, step, n)
  BY <1>3
<1>6. \A n \in Nat : f[n] = a[n][n]
  OBVIOUS
<1>7. f \in [Nat -> S]
  <2>1. \A n \in Nat : a[n][n] \in S
    BY <1>5
  <2> QED
    BY <2>1
<1> HIDE DEF a, f
<1>8. f[0] = c
  BY <1>5, <1>6 DEF Follows
<1>9. ASSUME NEW k \in Nat
      PROVE  f[k + 1] = step[k][f[k]]
  <2>1. k + 1 \in Nat /\ k \in 0 .. (k + 1) - 1
    OBVIOUS
  <2>2. a[k + 1][k + 1] = step[k][a[k + 1][k]]
    BY <1>5, <2>1 DEF Follows
  <2>3. a[k + 1][k] = a[k][k]
    BY <1>4, <1>5, <2>1
  <2> QED
    BY <1>6, <2>1, <2>2, <2>3
<1> QED
  BY <1>7, <1>8, <1>9 DEF Recurses

-----------------------------------------------------------------------------
(* Powers of two *)

LEMMA Pow2Law ==
  /\ Pow2 \in [Nat -> Nat]
  /\ Pow2[0] = 1
  /\ \A n \in Nat : Pow2[n + 1] = 2 * Pow2[n]
<1> DEFINE step == [n \in Nat |-> [m \in Nat |-> 2 * m]]
           Defines(f) == f = [n \in Nat |-> IF n = 0 THEN 1 ELSE 2 * f[n - 1]]
<1>1. step \in [Nat -> [Nat -> Nat]] /\ \A k, m \in Nat : step[k][m] = 2 * m
  OBVIOUS
<1> HIDE DEF step
<1>2. PICK f \in [Nat -> Nat] : Recurses(f, 1, step)
  BY <1>1, Recursion
<1>3. f[0] = 1 /\ \A k \in Nat : f[k + 1] = 2 * f[k]
  BY <1>1, <1>2 DEF Recurses
<1>4. ASSUME NEW n \in Nat
      PROVE  f[n] = IF n = 0 THEN 1 ELSE 2 * f[n - 1]
  <2>1. CASE n = 0
    BY <1>3, <2>1
  <2>2. CASE n # 0
    <3>1. n - 1 \in Nat /\ (n - 1) + 1 = n
      BY <2>2
    <3> QED
      BY <1>3, <2>2, <3>1
  <2> QED
    BY <2>1, <2>2
<1>5. Defines(f)
  BY <1>4
<1>6. Defines(Pow2)
  <2>1. Pow2 = CHOOSE g : Defines(g)
    BY DEF Pow2
  <2> HIDE DEF Defines
  <2> QED
    BY <1>5, <2>1
<1>7. \A n \in Nat : Pow2[n] = IF n = 0 THEN 1 ELSE 2 * Pow2[n - 1]
  BY <1>6
<1>8. Pow2[0] = 1 /\ \A n \in Nat : Pow2[n + 1] = 2 * Pow2[n]
  BY <1>7
<1>9. \A n \in Nat : Pow2[n] \in Nat
  <2> DEFINE A == {n \in Nat : Pow2[n] \in Nat}
  <2>1. 0 \in A /\ \A n \in Nat : n \in A => n + 1 \in A
    BY <1>8
  <2> HIDE DEF A
  <2>2. \A n \in Nat : n \in A
    BY <2>1, Induction
  <2> QED
    BY <2>2 DEF A
<1>10. Pow2 = [n \in Nat |-> Pow2[n]]
  BY <1>6
<1> QED
  BY <1>8, <1>9, <1>10

LEMMA Pow2Positive == \A n \in Nat : Pow2[n] \in Nat \ {0}
<1> DEFINE A == {n \in Nat : Pow2[n] \in Nat \ {0}}
<1>1. 0 \in A /\ \A n \in Nat : n \in A => n + 1 \in A
  BY Pow2Law
<1> HIDE DEF A
<1>2. \A n \in Nat : n \in A
  BY <1>1, Induction
<1> QED
  BY <1>2 DEF A

\* Half a word is at least 2: the sign bit is not the only one.
LEMMA WordSizes ==
  /\ HalfWord \in Nat
  /\ 2 <= HalfWord
  /\ WordSize = 2 * HalfWord
  /\ Pow2[LowBits] \in Nat
  /\ 2 <= Pow2[LowBits]
<1>1. /\ WordBits - 1 \in Nat /\ WordBits - 2 \in Nat /\ LowBits - 1 \in Nat
      /\ (WordBits - 1) + 1 = WordBits /\ (WordBits - 2) + 1 = WordBits - 1 /\ (LowBits - 1) + 1 = LowBits
  BY WordBitsAssumption
<1>2. /\ WordSize = 2 * HalfWord
      /\ HalfWord = 2 * Pow2[WordBits - 2]
      /\ Pow2[LowBits] = 2 * Pow2[LowBits - 1]
  BY <1>1, Pow2Law DEF WordSize, HalfWord
<1>3. Pow2[WordBits - 2] \in Nat \ {0} /\ Pow2[LowBits - 1] \in Nat \ {0}
  BY <1>1, Pow2Positive
<1> QED
  BY <1>2, <1>3

-----------------------------------------------------------------------------
(* Words *)

LEMMA Remainders ==
  ASSUME NEW n \in Int, NEW m \in Nat, m > 0
  PROVE  /\ n % m \in 0 .. m - 1
         /\ n \div m \in Int
         /\ n = m * (n \div m) + (n % m)
<1>1. n % m \in 0 .. m - 1
  OBVIOUS
<1>2. n \div m \in Int
  OBVIOUS
<1>3. n % m = n - m * (n \div m)
  OBVIOUS
<1>4. m * (n \div m) \in Int
  BY <1>2
<1> QED
  BY <1>1, <1>2, <1>3, <1>4

\* The remainder is the only number in its range that differs by a multiple.
LEMMA RemainderIs ==
  ASSUME NEW m \in Nat, m > 0, NEW n \in Int, NEW q \in Int, NEW r \in 0 .. m - 1, n = m * q + r
  PROVE  n % m = r
  OBVIOUS

\* Wrapping gives a word, and leaves words alone.
LEMMA WrapWord ==
  ASSUME NEW n \in Int
  PROVE  Wrap(n) \in Word
<1>1. n % WordSize \in 0 .. WordSize - 1
  BY WordSizes, Remainders
<1> QED
  BY <1>1, WordSizes DEF Wrap, Word

LEMMA UnsignedWord ==
  ASSUME NEW w \in Word
  PROVE  w % WordSize = IF w < 0 THEN w + WordSize ELSE w
<1>1. WordSize \in Nat /\ WordSize > 0
  BY WordSizes
<1>2. CASE w < 0
  <2>1. w + WordSize \in 0 .. WordSize - 1 /\ w = WordSize * (-1) + (w + WordSize)
    BY <1>2, WordSizes DEF Word
  <2> QED
    BY <1>1, <1>2, <2>1, RemainderIs, WordSizes DEF Word
<1>3. CASE ~(w < 0)
  <2>1. w \in 0 .. WordSize - 1 /\ w = WordSize * 0 + w
    BY <1>3, WordSizes DEF Word
  <2> QED
    BY <1>1, <1>3, <2>1, RemainderIs, WordSizes DEF Word
<1> QED
  BY <1>2, <1>3

LEMMA WrapLeavesWords ==
  ASSUME NEW w \in Word
  PROVE  Wrap(w) = w
<1>1. w % WordSize = IF w < 0 THEN w + WordSize ELSE w
  BY UnsignedWord
<1> QED
  BY <1>1, WordSizes DEF Wrap, Word

LEMMA WordsAreIntegers == ASSUME NEW w \in Word PROVE w \in Int
  BY WordSizes DEF Word

\* setcc on a word that is zero leaves 0 or 1.
LEMMA SetLowBitsOfZero ==
  ASSUME NEW b \in {0, 1}
  PROVE  SetLowBits(0, b) = b
<1> DEFINE m == Pow2[LowBits]
<1>1. m \in Nat /\ m > 0 /\ b \in 0 .. m - 1
  BY WordSizes
<1>2. b % m = b
  <2>1. b = m * 0 + b
    BY <1>1
  <2> QED
    BY <1>1, <2>1, RemainderIs
<1>3. (0 \div m) * m = 0
  <2>1. 0 \div m = 0
    BY <1>1
  <2> QED
    BY <1>1, <2>1
<1>4. b \in Word
  BY WordSizes DEF Word
<1>5. (0 \div m) * m + (b % m) = b
  BY <1>2, <1>3
<1> QED
  BY <1>4, <1>5, WrapLeavesWords DEF SetLowBits

\* A set of bits makes a word.
LEMMA FromBitsWord ==
  ASSUME NEW B
  PROVE  FromBits(B) \in Word
<1> DEFINE Defines(f) == f = [n \in Nat |-> IF n = 0 THEN 0
                                ELSE f[n - 1] + (IF n - 1 \in B THEN Pow2[n - 1] ELSE 0)]
           sum == CHOOSE f : Defines(f)
           step == [n \in Nat |-> [m \in Nat |-> m + (IF n \in B THEN Pow2[n] ELSE 0)]]
<1>1. /\ step \in [Nat -> [Nat -> Nat]]
      /\ \A k, m \in Nat : step[k][m] = m + (IF k \in B THEN Pow2[k] ELSE 0)
  BY Pow2Law
<1> HIDE DEF step
<1>2. PICK f \in [Nat -> Nat] : Recurses(f, 0, step)
  BY <1>1, Recursion
<1>3. f[0] = 0 /\ \A k \in Nat : f[k + 1] = f[k] + (IF k \in B THEN Pow2[k] ELSE 0)
  BY <1>1, <1>2 DEF Recurses
<1>4. ASSUME NEW n \in Nat
      PROVE  f[n] = IF n = 0 THEN 0 ELSE f[n - 1] + (IF n - 1 \in B THEN Pow2[n - 1] ELSE 0)
  <2>1. CASE n = 0
    BY <1>3, <2>1
  <2>2. CASE n # 0
    <3>1. n - 1 \in Nat /\ (n - 1) + 1 = n
      BY <2>2
    <3> QED
      BY <1>3, <2>2, <3>1
  <2> QED
    BY <2>1, <2>2
<1>5. Defines(f)
  BY <1>4
<1>6. Defines(sum)
  <2> HIDE DEF Defines
  <2> QED
    BY <1>5
<1>7. FromBits(B) = Wrap(sum[WordBits])
  BY DEF FromBits
<1> HIDE DEF sum
<1>8. \A n \in Nat : sum[n] = IF n = 0 THEN 0 ELSE sum[n - 1] + (IF n - 1 \in B THEN Pow2[n - 1] ELSE 0)
  BY <1>6
<1>9. \A n \in Nat : sum[n] \in Nat
  <2> DEFINE A == {n \in Nat : sum[n] \in Nat}
  <2>1. 0 \in A
    BY <1>8
  <2>2. ASSUME NEW n \in Nat, n \in A
        PROVE  n + 1 \in A
    <3>1. sum[n + 1] = sum[n] + (IF n \in B THEN Pow2[n] ELSE 0)
      BY <1>8
    <3> QED
      BY <2>2, <3>1, Pow2Law
  <2> HIDE DEF A
  <2>3. \A n \in Nat : n \in A
    BY <2>1, <2>2, Induction
  <2> QED
    BY <2>3 DEF A
<1> QED
  BY <1>7, <1>9, WrapWord, WordBitsAssumption

-----------------------------------------------------------------------------
(* Division *)

LEMMA MagnitudeLaw ==
  ASSUME NEW x \in Nat, NEW y \in Nat, y > 0
  PROVE  /\ x \div y \in Nat
         /\ x \div y <= x
         /\ y >= 2 => 2 * (x \div y) <= x
         /\ x - y * (x \div y) \in 0 .. y - 1
<1> DEFINE q == x \div y
           r == x % y
<1>1. r \in 0 .. y - 1 /\ q \in Int /\ r = x - y * q /\ y * q \in Int
  <2>1. r = x - y * q
    OBVIOUS
  <2>2. r \in 0 .. y - 1 /\ q \in Int
    BY Remainders
  <2>3. y * q \in Int
    BY <2>2
  <2> QED
    BY <2>1, <2>2, <2>3
<1> HIDE DEF q, r
<1>2. q >= 0
  <2>1. q < 0 => y * q <= -y
    BY <1>1
  <2> QED
    BY <1>1, <2>1
<1>3. y * q >= q
  BY <1>1, <1>2
<1>4. y >= 2 => y * q >= 2 * q
  BY <1>1, <1>2
<1> QED
  BY <1>1, <1>2, <1>3, <1>4 DEF q

\* Unless the division traps, quotient and remainder are words.
LEMMA DivisionWords ==
  ASSUME NEW a \in Word, NEW b \in Word, ~DivTraps(a, b)
  PROVE  Quotient(a, b) \in Word /\ Remainder(a, b) \in Word
<1> DEFINE x == Abs(a)
           y == Abs(b)
           q == x \div y
<1>1. a \in Int /\ b \in Int /\ b # 0 /\ (a = -HalfWord => b # -1)
  BY WordsAreIntegers DEF DivTraps
<1>2. /\ x \in Nat /\ y \in Nat /\ y > 0 /\ x <= HalfWord /\ y <= HalfWord
      /\ x = (IF a < 0 THEN -a ELSE a) /\ y = (IF b < 0 THEN -b ELSE b)
  BY <1>1, WordSizes DEF Word, Abs
<1>3. /\ q \in Nat /\ q <= x /\ (y >= 2 => 2 * q <= x)
      /\ x - y * q \in 0 .. y - 1
  BY <1>2, MagnitudeLaw
<1>4. Quotient(a, b) = IF (a < 0) = (b < 0) THEN q ELSE -q
  BY DEF Quotient
<1> HIDE DEF q, x, y
<1>5. Quotient(a, b) \in Word
  <2>1. CASE (a < 0) = (b < 0)
    <3>1. x = HalfWord => y >= 2
      BY <1>1, <1>2, <2>1, WordSizes DEF Word
    <3>2. q <= HalfWord - 1
      BY <1>2, <1>3, <3>1, WordSizes
    <3> QED
      BY <1>3, <1>4, <2>1, <3>2, WordSizes DEF Word
  <2>2. CASE (a < 0) # (b < 0)
    BY <1>2, <1>3, <1>4, <2>2, WordSizes DEF Word
  <2> QED
    BY <2>1, <2>2
<1>6. Remainder(a, b) = a - b * Quotient(a, b)
  BY DEF Remainder
<1>7. b * Quotient(a, b) = IF a < 0 THEN -(y * q) ELSE y * q
  <2>1. CASE a < 0 /\ b < 0
    BY <1>1, <1>2, <1>3, <1>4, <2>1
  <2>2. CASE a < 0 /\ ~(b < 0)
    BY <1>1, <1>2, <1>3, <1>4, <2>2
  <2>3. CASE ~(a < 0) /\ b < 0
    BY <1>1, <1>2, <1>3, <1>4, <2>3
  <2>4. CASE ~(a < 0) /\ ~(b < 0)
    BY <1>1, <1>2, <1>3, <1>4, <2>4
  <2> QED
    BY <2>1, <2>2, <2>3, <2>4
<1>8. y * q \in Int
  BY <1>2, <1>3
<1>9. Remainder(a, b) \in Word
  BY <1>1, <1>2, <1>3, <1>6, <1>7, <1>8, WordSizes DEF Word
<1> QED
  BY <1>5, <1>9

\* The processor traps exactly when the quotient is not a word.
LEMMA TrapsWithoutQuotient ==
  ASSUME NEW a \in Word, NEW b \in Word
  PROVE  (b = 0 \/ Quotient(a, b) \notin Word) <=> DivTraps(a, b)
<1>1. CASE a = -HalfWord /\ b = -1
  <2>1. HalfWord \in Nat /\ HalfWord >= 2 /\ a \in Int /\ b \in Int
    BY WordSizes, WordsAreIntegers
  <2>5. a < 0 /\ -a = HalfWord
    BY <1>1, <2>1
  <2>6. b < 0 /\ -b = 1
    <3>1. b + 1 = 0
      BY <1>1
    <3> QED
      BY <2>1, <3>1
  <2>4. Abs(a) = HalfWord /\ Abs(b) = 1
    BY <2>5, <2>6 DEF Abs
  <2>2. HalfWord \div 1 = HalfWord
    BY WordSizes
  <2>3. Quotient(a, b) = HalfWord
    BY <2>2, <2>4, <2>5, <2>6 DEF Quotient
  <2> QED
    BY <1>1, <2>3, WordSizes DEF DivTraps, Word
<1>2. CASE ~(a = -HalfWord /\ b = -1) /\ b # 0
  BY <1>2, DivisionWords DEF DivTraps
<1>3. CASE b = 0
  BY <1>3 DEF DivTraps
<1> QED
  BY <1>1, <1>2, <1>3

\* cdq extends a word to the same number in two words.
LEMMA SignExtended ==
  ASSUME NEW w \in Word
  PROVE  (IF w < 0 THEN -1 ELSE 0) * WordSize + (w % WordSize) = w
<1>1. w % WordSize = IF w < 0 THEN w + WordSize ELSE w
  BY UnsignedWord
<1> QED
  BY <1>1, WordSizes DEF Word

-----------------------------------------------------------------------------
(* The operators of C *)

LEMMA NotIsWord ==
  ASSUME NEW w \in Word
  PROVE  NotWord(w) \in Word
  BY WordSizes DEF NotWord, Word

LEMMA UnopWord ==
  ASSUME NEW op \in {"NEG", "COMP", "NOT"}, NEW a \in Word
  PROVE  UnopValue(op, a) \in Word
<1>1. Wrap(-a) \in Word
  BY WrapWord, WordsAreIntegers
<1>2. NotWord(a) \in Word
  BY NotIsWord
<1>3. {0, 1} \subseteq Word
  BY WordSizes DEF Word
<1> QED
  BY <1>1, <1>2, <1>3 DEF UnopValue

LEMMA ShiftWord ==
  ASSUME NEW a \in Int, NEW n \in Int
  PROVE  ShiftLeft(a, n) \in Word /\ ShiftRight(a, n) \in Word
<1>1. n % WordBits \in Nat
  BY Remainders, WordBitsAssumption
<1> DEFINE p == Pow2[n % WordBits]
<1>2. p \in Nat /\ p > 0
  BY <1>1, Pow2Positive
<1> HIDE DEF p
<1>3. a * p \in Int
  BY <1>2
<1>4. (a % WordSize) \div p \in Int
  BY <1>2, WordSizes, Remainders
<1> QED
  BY <1>3, <1>4, WrapWord DEF ShiftLeft, ShiftRight, p

LEMMA BinopWord ==
  ASSUME NEW op \in {"ADD", "SUB", "MUL", "DIV", "MOD", "AND", "OR", "XOR", "LSHIFT", "RSHIFT",
                     "EQ", "NEQ", "LESS", "GREATER", "LEQ", "GEQ"},
         NEW a \in Word, NEW b \in Word, op \in {"DIV", "MOD"} => ~DivTraps(a, b)
  PROVE  BinopValue(op, a, b) \in Word
<1>1. a \in Int /\ b \in Int
  BY WordsAreIntegers
<1>2. Wrap(a + b) \in Word /\ Wrap(a - b) \in Word
  BY <1>1, WrapWord
<1>3. Wrap(a * b) \in Word
  <2>1. a * b \in Int
    BY <1>1
  <2> QED
    BY <2>1, WrapWord
<1>4. AndWord(a, b) \in Word /\ OrWord(a, b) \in Word /\ XorWord(a, b) \in Word
  BY FromBitsWord DEF AndWord, OrWord, XorWord
<1>5. ShiftLeft(a, b) \in Word /\ ShiftRight(a, b) \in Word
  BY <1>1, ShiftWord
<1>6. \A t : Truth(t) \in Word
  BY WordSizes DEF Truth, Word
<1>7. op \in {"DIV", "MOD"} => Quotient(a, b) \in Word /\ Remainder(a, b) \in Word
  BY DivisionWords
<1>8. CASE op \in {"ADD", "SUB", "MUL", "DIV", "MOD"}
  BY <1>2, <1>3, <1>7, <1>8 DEF BinopValue
<1>9. CASE op \in {"AND", "OR", "XOR", "LSHIFT", "RSHIFT"}
  BY <1>4, <1>5, <1>9 DEF BinopValue
<1>10. CASE op \in {"EQ", "NEQ", "LESS", "GREATER", "LEQ", "GEQ"}
  BY <1>6, <1>10 DEF BinopValue
<1> QED
  BY <1>8, <1>9, <1>10
=============================================================================
