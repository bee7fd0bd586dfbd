---------------------------- MODULE LexerProofs ----------------------------
(***************************************************************************)
(* The lexer reads every text as C says: proved for all texts of any length *)
(* and every width of an int.                                               *)
(***************************************************************************)
EXTENDS Lexer, WordProofs

-----------------------------------------------------------------------------
(* The characters and the table *)

LEMMA LettersAreNoDigits == Letter \cap Digit = {}
  BY DEF Letter, Digit

LEMMA DigitIsNumber ==
  ASSUME NEW c
  PROVE  DigitValue(c) \in 0 .. 9
<1>1. \E d \in 0 .. 9 : c \in Digit => Digits[d + 1] = c
  <2>1. CASE c \notin Digit
    BY <2>1
  <2>2. CASE c \in Digit
    <3>1. \A s \in Digit : \E d \in 0 .. 9 : Digits[d + 1] = s
      BY DEF Digit, Digits
    <3> QED
      BY <2>2, <3>1
  <2> QED
    BY <2>1, <2>2
<1> QED
  BY <1>1 DEF DigitValue

\* No punctuator starts like a word or a number.
LEMMA PunctHeads ==
  ASSUME NEW k \in DOMAIN PunctTable
  PROVE  PunctTable[k][1] \notin Letter \cup Digit
<1> DEFINE heads == {">", "<", "+", "-", "=", "!", "&", "|", "*", "/", "%", "^", "~",
                     "(", ")", "{", "}", ",", ";", ":", "?"}
<1>1. k \in 1 .. 41
  BY DEF PunctTable
<1>2. /\ PunctTable[1][1] \in heads /\ PunctTable[2][1] \in heads
      /\ PunctTable[3][1] \in heads /\ PunctTable[4][1] \in heads
      /\ PunctTable[5][1] \in heads /\ PunctTable[6][1] \in heads
      /\ PunctTable[7][1] \in heads /\ PunctTable[8][1] \in heads
      /\ PunctTable[9][1] \in heads /\ PunctTable[10][1] \in heads
      /\ PunctTable[11][1] \in heads /\ PunctTable[12][1] \in heads
      /\ PunctTable[13][1] \in heads /\ PunctTable[14][1] \in heads
  BY DEF PunctTable, heads
<1>3. /\ PunctTable[15][1] \in heads /\ PunctTable[16][1] \in heads
      /\ PunctTable[17][1] \in heads /\ PunctTable[18][1] \in heads
      /\ PunctTable[19][1] \in heads /\ PunctTable[20][1] \in heads
      /\ PunctTable[21][1] \in heads /\ PunctTable[22][1] \in heads
      /\ PunctTable[23][1] \in heads /\ PunctTable[24][1] \in heads
      /\ PunctTable[25][1] \in heads /\ PunctTable[26][1] \in heads
      /\ PunctTable[27][1] \in heads /\ PunctTable[28][1] \in heads
  BY DEF PunctTable, heads
<1>4. /\ PunctTable[29][1] \in heads /\ PunctTable[30][1] \in heads
      /\ PunctTable[31][1] \in heads /\ PunctTable[32][1] \in heads
      /\ PunctTable[33][1] \in heads /\ PunctTable[34][1] \in heads
      /\ PunctTable[35][1] \in heads /\ PunctTable[36][1] \in heads
      /\ PunctTable[37][1] \in heads /\ PunctTable[38][1] \in heads
      /\ PunctTable[39][1] \in heads /\ PunctTable[40][1] \in heads
      /\ PunctTable[41][1] \in heads
  BY DEF PunctTable, heads
<1>5. PunctTable[k][1] \in heads
  <2> HIDE DEF heads
  <2>1. \/ k = 1 \/ k = 2 \/ k = 3 \/ k = 4 \/ k = 5 \/ k = 6 \/ k = 7 \/ k = 8 \/ k = 9
        \/ k = 10 \/ k = 11 \/ k = 12 \/ k = 13 \/ k = 14 \/ k = 15 \/ k = 16 \/ k = 17
        \/ k = 18 \/ k = 19 \/ k = 20 \/ k = 21 \/ k = 22 \/ k = 23 \/ k = 24 \/ k = 25
        \/ k = 26 \/ k = 27 \/ k = 28 \/ k = 29 \/ k = 30 \/ k = 31 \/ k = 32 \/ k = 33
        \/ k = 34 \/ k = 35 \/ k = 36 \/ k = 37 \/ k = 38 \/ k = 39 \/ k = 40 \/ k = 41
    BY ONLY <1>1
  <2> QED
    BY ONLY <1>2, <1>3, <1>4, <2>1
<1>6. heads \cap (Letter \cup Digit) = {}
  BY DEF Letter, Digit
<1> HIDE DEF heads
<1> QED
  BY <1>5, <1>6

\* The table goes from long to short.
LEMMA PunctsShrink ==
  /\ DOMAIN PunctTable = 1 .. 41
  /\ \A k \in DOMAIN PunctTable : Len(PunctTable[k]) \in Nat \ {0}
  /\ \A k, l \in DOMAIN PunctTable : k <= l => Len(PunctTable[l]) <= Len(PunctTable[k])
<1>1. DOMAIN PunctTable = 1 .. 41
  BY DEF PunctTable
<1>2. PICK size : size = [k \in 1 .. 41 |-> Len(PunctTable[k])]
  OBVIOUS
<1>3. /\ Len(PunctTable[1]) = 3 /\ Len(PunctTable[2]) = 3 /\ Len(PunctTable[3]) = 2
      /\ Len(PunctTable[4]) = 2 /\ Len(PunctTable[5]) = 2 /\ Len(PunctTable[6]) = 2
      /\ Len(PunctTable[7]) = 2 /\ Len(PunctTable[8]) = 2 /\ Len(PunctTable[9]) = 2
      /\ Len(PunctTable[10]) = 2 /\ Len(PunctTable[11]) = 2 /\ Len(PunctTable[12]) = 2
      /\ Len(PunctTable[13]) = 2 /\ Len(PunctTable[14]) = 2
  BY DEF PunctTable
<1>4. /\ Len(PunctTable[15]) = 2 /\ Len(PunctTable[16]) = 2 /\ Len(PunctTable[17]) = 2
      /\ Len(PunctTable[18]) = 2 /\ Len(PunctTable[19]) = 2 /\ Len(PunctTable[20]) = 2
      /\ Len(PunctTable[21]) = 1 /\ Len(PunctTable[22]) = 1 /\ Len(PunctTable[23]) = 1
      /\ Len(PunctTable[24]) = 1 /\ Len(PunctTable[25]) = 1 /\ Len(PunctTable[26]) = 1
      /\ Len(PunctTable[27]) = 1 /\ Len(PunctTable[28]) = 1
  BY DEF PunctTable
<1>5. /\ Len(PunctTable[29]) = 1 /\ Len(PunctTable[30]) = 1 /\ Len(PunctTable[31]) = 1
      /\ Len(PunctTable[32]) = 1 /\ Len(PunctTable[33]) = 1 /\ Len(PunctTable[34]) = 1
      /\ Len(PunctTable[35]) = 1 /\ Len(PunctTable[36]) = 1 /\ Len(PunctTable[37]) = 1
      /\ Len(PunctTable[38]) = 1 /\ Len(PunctTable[39]) = 1 /\ Len(PunctTable[40]) = 1
      /\ Len(PunctTable[41]) = 1
  BY DEF PunctTable
<1>6. /\ size[1] = 3 /\ size[2] = 3 /\ size[3] = 2 /\ size[4] = 2 /\ size[5] = 2
      /\ size[6] = 2 /\ size[7] = 2 /\ size[8] = 2 /\ size[9] = 2 /\ size[10] = 2
      /\ size[11] = 2 /\ size[12] = 2 /\ size[13] = 2 /\ size[14] = 2 /\ size[15] = 2
      /\ size[16] = 2 /\ size[17] = 2 /\ size[18] = 2 /\ size[19] = 2 /\ size[20] = 2
      /\ size[21] = 1 /\ size[22] = 1 /\ size[23] = 1 /\ size[24] = 1 /\ size[25] = 1
      /\ size[26] = 1 /\ size[27] = 1 /\ size[28] = 1 /\ size[29] = 1 /\ size[30] = 1
      /\ size[31] = 1 /\ size[32] = 1 /\ size[33] = 1 /\ size[34] = 1 /\ size[35] = 1
      /\ size[36] = 1 /\ size[37] = 1 /\ size[38] = 1 /\ size[39] = 1 /\ size[40] = 1
      /\ size[41] = 1
  BY ONLY <1>2, <1>3, <1>4, <1>5
<1>7. \A k \in 1 .. 41 : size[k] = IF k <= 2 THEN 3 ELSE IF k <= 20 THEN 2 ELSE 1
  BY ONLY <1>6
<1>8. \A k \in 1 .. 41 : size[k] \in Nat \ {0}
  BY ONLY <1>7
<1>9. \A k, l \in 1 .. 41 : k <= l => size[l] <= size[k]
  BY ONLY <1>7
<1>10. \A k \in 1 .. 41 : size[k] = Len(PunctTable[k])
  BY <1>2
<1> QED
  BY <1>1, <1>8, <1>9, <1>10

-----------------------------------------------------------------------------
(* What the helpers return *)

LEMMA Smallest ==
  ASSUME NEW S \in SUBSET Nat, S # {}
  PROVE  \E x \in S : \A y \in S : x <= y
<1> DEFINE R == OpToRel(<, Nat)
<1>1. IsWellFoundedOn(R, Nat)
  BY NatLessThanWellFounded
<1> HIDE DEF R
<1>2. PICK x \in S : \A y \in S : ~(<<y, x>> \in R)
  BY <1>1, WFMin
<1>3. \A y \in S : ~(y < x)
  BY <1>2 DEF R, OpToRel
<1> QED
  BY <1>3

\* A run stops within the text, at its first character that is not in S.
LEMMA RunEnds ==
  ASSUME text \in Seq(STRING), NEW i \in 1 .. Len(text) + 1, NEW S
  PROVE  /\ RunEnd(i, S) \in i .. Len(text) + 1
         /\ \A k \in i .. RunEnd(i, S) - 1 : Char(k) \in S
         /\ AtEnd(RunEnd(i, S)) \/ Char(RunEnd(i, S)) \notin S
<1> DEFINE Ends(j) == /\ \A k \in i .. j - 1 : Char(k) \in S
                      /\ AtEnd(j) \/ Char(j) \notin S
           stops == {j \in i .. Len(text) + 1 : AtEnd(j) \/ Char(j) \notin S}
<1>1. Len(text) \in Nat
  OBVIOUS
<1>2. Len(text) + 1 \in stops
  BY <1>1 DEF AtEnd
<1>3. stops \in SUBSET Nat
  BY <1>1
<1>4. PICK j \in stops : \A k \in stops : j <= k
  <2> HIDE DEF stops
  <2> QED
    BY <1>2, <1>3, Smallest
<1>5. j \in i .. Len(text) + 1 /\ (AtEnd(j) \/ Char(j) \notin S)
  OBVIOUS
<1>6. ASSUME NEW k \in i .. j - 1
      PROVE  Char(k) \in S
  <2>1. k \in i .. Len(text) + 1 /\ ~(j <= k)
    BY <1>1, <1>5
  <2>2. k \notin stops
    BY <1>4, <2>1
  <2> QED
    BY <2>1, <2>2
<1>7. \E n \in i .. Len(text) + 1 : Ends(n)
  BY <1>5, <1>6
<1>8. RunEnd(i, S) = CHOOSE n \in i .. Len(text) + 1 : Ends(n)
  BY DEF RunEnd
<1> HIDE DEF Ends
<1>9. RunEnd(i, S) \in i .. Len(text) + 1 /\ Ends(RunEnd(i, S))
  BY <1>7, <1>8
<1> QED
  BY <1>9 DEF Ends

\* PunctLookup finds an entry if there is one, and no longer one fits.
LEMMA LookupFinds ==
  ASSUME NEW i
  PROVE  /\ PunctsAt(i) \subseteq DOMAIN PunctTable
         /\ PunctLookup(i) = 0 <=> PunctsAt(i) = {}
         /\ PunctLookup(i) # 0 =>
              /\ PunctLookup(i) \in PunctsAt(i)
              /\ \A k \in PunctsAt(i) : Len(PunctTable[k]) <= Len(PunctTable[PunctLookup(i)])
<1>1. PunctsAt(i) \subseteq DOMAIN PunctTable
  BY DEF PunctsAt
<1>2. PunctsAt(i) \in SUBSET Nat /\ 0 \notin PunctsAt(i)
  <2>1. PunctsAt(i) \subseteq 1 .. 41
    BY <1>1, PunctsShrink
  <2> QED
    BY ONLY <2>1
<1>3. CASE PunctsAt(i) = {}
  BY <1>1, <1>3 DEF PunctLookup
<1>4. CASE PunctsAt(i) # {}
  <2>1. Min(PunctsAt(i)) \in PunctsAt(i) /\ \A k \in PunctsAt(i) : Min(PunctsAt(i)) <= k
    BY <1>2, <1>4, Smallest DEF Min
  <2>2. PunctLookup(i) = Min(PunctsAt(i))
    BY <1>4 DEF PunctLookup
  <2>3. \A k \in PunctsAt(i) : Len(PunctTable[k]) <= Len(PunctTable[Min(PunctsAt(i))])
    BY <1>1, <2>1, PunctsShrink
  <2> QED
    BY <1>1, <1>2, <1>4, <2>1, <2>2, <2>3
<1> QED
  BY <1>3, <1>4

-----------------------------------------------------------------------------
(* The values of literals *)

LEMMA WrapEarly ==
  ASSUME NEW n \in Int, NEW d \in Int
  PROVE  Wrap(Wrap(n) * 10 + d) = Wrap(n * 10 + d)
<1>1. WordSize \in Nat /\ WordSize > 0
  BY WordSizes
<1>2. PICK q \in Int : n = WordSize * q + Wrap(n)
  <2>1. /\ n % WordSize \in 0 .. WordSize - 1 /\ n \div WordSize \in Int
        /\ n = WordSize * (n \div WordSize) + (n % WordSize)
    BY <1>1, Remainders
  <2>2. CASE n % WordSize < HalfWord
    BY <2>1, <2>2 DEF Wrap
  <2>3. CASE ~(n % WordSize < HalfWord)
    <3>1. Wrap(n) = (n % WordSize) - WordSize
      BY <2>3 DEF Wrap
    <3>2. WordSize * ((n \div WordSize) + 1) = WordSize * (n \div WordSize) + WordSize
      BY <1>1, <2>1
    <3>3. n = WordSize * ((n \div WordSize) + 1) + Wrap(n)
      BY <1>1, <2>1, <3>1, <3>2
    <3>4. (n \div WordSize) + 1 \in Int
      BY <2>1
    <3> QED
      BY <3>3, <3>4
  <2> QED
    BY <2>2, <2>3
<1>3. Wrap(n) \in Int
  BY WrapWord, WordsAreIntegers
<1> DEFINE a == Wrap(n) * 10 + d
           b == n * 10 + d
<1>4. a \in Int /\ b \in Int /\ b = WordSize * (10 * q) + a
  <2>1. n * 10 = (WordSize * q) * 10 + Wrap(n) * 10
    BY <1>1, <1>2, <1>3
  <2>2. (WordSize * q) * 10 = WordSize * (10 * q)
    BY <1>1
  <2>3. PICK x \in Int, y \in Int, z \in Int : x = Wrap(n) * 10 /\ y = n * 10 /\ z = WordSize * (10 * q)
    BY <1>1, <1>3
  <2>4. y = z + x
    BY <2>1, <2>2, <2>3
  <2>5. a = x + d /\ b = y + d
    BY <2>3
  <2>6. x + d \in Int /\ y + d \in Int /\ y + d = z + (x + d)
    BY ONLY <2>4, x \in Int, y \in Int, z \in Int, d \in Int
  <2> QED
    BY <2>3, <2>5, <2>6
<1>5. a % WordSize = b % WordSize
  <2> HIDE DEF a, b
  <2>1. /\ a % WordSize \in 0 .. WordSize - 1 /\ a \div WordSize \in Int
        /\ a = WordSize * (a \div WordSize) + (a % WordSize)
    BY <1>1, <1>4, Remainders
  <2>2. WordSize * (10 * q) + WordSize * (a \div WordSize) = WordSize * (10 * q + (a \div WordSize))
    BY <1>1, <1>2, <2>1
  <2>3. 10 * q + (a \div WordSize) \in Int /\ b = WordSize * (10 * q + (a \div WordSize)) + (a % WordSize)
    BY <1>1, <1>2, <1>4, <2>1, <2>2
  <2> QED
    BY <1>1, <1>4, <2>1, <2>3, RemainderIs
<1> QED
  BY <1>5 DEF Wrap

\* Wrapping around after every digit gives the number wrapped around once.
LEMMA LiteralsAreDecimal ==
  ASSUME NEW digits, Len(digits) \in Nat
  PROVE  LiteralValue(digits) = Wrap(DecimalValue(digits))
<1> DEFINE digit(n) == DigitValue(digits[n])
           Wrapping(f) == f = [n \in Nat |-> IF n = 0 THEN 0 ELSE Wrap(f[n - 1] * 10 + digit(n))]
           Exact(f) == f = [n \in Nat |-> IF n = 0 THEN 0 ELSE 10 * f[n - 1] + digit(n)]
           val == CHOOSE f : Wrapping(f)
           number == CHOOSE f : Exact(f)
<1>1. LiteralValue(digits) = val[Len(digits)] /\ DecimalValue(digits) = number[Len(digits)]
  BY DEF LiteralValue, DecimalValue
<1>2. \A n : digit(n) \in 0 .. 9
  BY DigitIsNumber
<1> HIDE DEF digit
<1>3. Wrapping(val)
  <2> DEFINE step == [n \in Nat |-> [m \in Int |-> Wrap(m * 10 + digit(n + 1))]]
  <2>1. \A d \in 0 .. 9, m \in Int : Wrap(m * 10 + d) \in Int
    <3>1. ASSUME NEW d \in 0 .. 9, NEW m \in Int
          PROVE  Wrap(m * 10 + d) \in Int
      <4>1. m * 10 + d \in Int
        OBVIOUS
      <4> QED
        BY <4>1, WrapWord, WordsAreIntegers
    <3> QED
      BY <3>1
  <2>2. step \in [Nat -> [Int -> Int]]
    BY <1>2, <2>1
  <2>3. \A k \in Nat, m \in Int : step[k][m] = Wrap(m * 10 + digit(k + 1))
    OBVIOUS
  <2> HIDE DEF step
  <2>4. PICK f \in [Nat -> Int] : Recurses(f, 0, step)
    <3>1. 0 \in Int
      OBVIOUS
    <3> QED
      BY ONLY <2>2, <3>1, Recursion
  <2>5. f[0] = 0 /\ \A k \in Nat : f[k + 1] = Wrap(f[k] * 10 + digit(k + 1))
    BY <2>3, <2>4 DEF Recurses
  <2>6. ASSUME NEW n \in Nat
        PROVE  f[n] = IF n = 0 THEN 0 ELSE Wrap(f[n - 1] * 10 + digit(n))
    <3>1. CASE n = 0
      BY <2>5, <3>1
    <3>2. CASE n # 0
      <4>1. n - 1 \in Nat /\ (n - 1) + 1 = n
        BY <3>2
      <4> QED
        BY <2>5, <3>2, <4>1
    <3> QED
      BY <3>1, <3>2
  <2>7. Wrapping(f)
    BY <2>6
  <2> QED
    <3> HIDE DEF Wrapping
    <3> QED
      BY <2>7
<1>4. Exact(number)
  <2> DEFINE step == [n \in Nat |-> [m \in Int |-> 10 * m + digit(n + 1)]]
  <2>1. \A d \in 0 .. 9, m \in Int : 10 * m + d \in Int
    OBVIOUS
  <2>2. step \in [Nat -> [Int -> Int]]
    BY <1>2, <2>1
  <2>3. \A k \in Nat, m \in Int : step[k][m] = 10 * m + digit(k + 1)
    OBVIOUS
  <2> HIDE DEF step
  <2>4. PICK f \in [Nat -> Int] : Recurses(f, 0, step)
    <3>1. 0 \in Int
      OBVIOUS
    <3> QED
      BY ONLY <2>2, <3>1, Recursion
  <2>5. f[0] = 0 /\ \A k \in Nat : f[k + 1] = 10 * f[k] + digit(k + 1)
    BY <2>3, <2>4 DEF Recurses
  <2>6. ASSUME NEW n \in Nat
        PROVE  f[n] = IF n = 0 THEN 0 ELSE 10 * f[n - 1] + digit(n)
    <3>1. CASE n = 0
      BY <2>5, <3>1
    <3>2. CASE n # 0
      <4>1. n - 1 \in Nat /\ (n - 1) + 1 = n
        BY <3>2
      <4> QED
        BY <2>5, <3>2, <4>1
    <3> QED
      BY <3>1, <3>2
  <2>7. Exact(f)
    BY <2>6
  <2> QED
    <3> HIDE DEF Exact
    <3> QED
      BY <2>7
<1> HIDE DEF val, number
<1>5. /\ \A n \in Nat : val[n] = IF n = 0 THEN 0 ELSE Wrap(val[n - 1] * 10 + digit(n))
      /\ \A n \in Nat : number[n] = IF n = 0 THEN 0 ELSE 10 * number[n - 1] + digit(n)
  BY <1>3, <1>4
<1> DEFINE A == {n \in Nat : number[n] \in Int /\ val[n] = Wrap(number[n])}
<1>6. 0 \in A
  <2>1. Wrap(0) = 0
    BY WrapLeavesWords, WordSizes DEF Word
  <2> QED
    BY <1>5, <2>1
<1>7. ASSUME NEW n \in Nat, n \in A
      PROVE  n + 1 \in A
  <2>1. val[n + 1] = Wrap(val[n] * 10 + digit(n + 1)) /\ number[n + 1] = 10 * number[n] + digit(n + 1)
    BY <1>5
  <2>2. number[n] \in Int /\ val[n] = Wrap(number[n]) /\ digit(n + 1) \in Int
    BY <1>2, <1>7
  <2>3. number[n + 1] \in Int /\ number[n + 1] = number[n] * 10 + digit(n + 1)
    BY <2>1, <2>2
  <2>4. val[n + 1] = Wrap(number[n + 1])
    BY <2>1, <2>2, <2>3, WrapEarly
  <2> QED
    BY <2>3, <2>4
<1>8. \A n \in Nat : n \in A
  <2> HIDE DEF A
  <2> QED
    BY <1>6, <1>7, Induction
<1> QED
  BY <1>1, <1>8

-----------------------------------------------------------------------------
(* The invariant: every token, not only the last, was read as C says *)

LexTyped ==
  /\ text \in Seq(STRING)
  /\ at \in 1 .. Len(text) + 1
  /\ \E S : tokens \in Seq(S)
  /\ spans \in Seq(Nat \X Nat)
  /\ Len(spans) = Len(tokens)

EveryTokenWellRead == \A n \in 1 .. Len(spans) : WellRead(n)

LexInv ==
  /\ LexTyped
  /\ EveryTokenWellRead
  /\ Past(Len(spans)) <= at
  /\ LongestMatch

\* What is said of the text stays true of it.
LEMMA SameText ==
  ASSUME text' = text, NEW i, NEW j
  PROVE  /\ IsLexeme(i, j)' <=> IsLexeme(i, j)
         /\ OnlySpace(i, j)' <=> OnlySpace(i, j)
<1>1. IsLexeme(i, j)' <=> IsLexeme(i, j)
  BY DEF IsLexeme, Char
<1>2. OnlySpace(i, j)' <=> OnlySpace(i, j)
  BY DEF OnlySpace, Char
<1> QED
  BY <1>1, <1>2

LEMMA StaysWellRead ==
  ASSUME text' = text, NEW n \in Nat \ {0}, WellRead(n), tokens'[n] = tokens[n],
         spans'[n] = spans[n], n > 1 => spans'[n - 1] = spans[n - 1]
  PROVE  WellRead(n)'
<1> PICK first, past, before : first = spans[n][1] /\ past = Past(n) /\ before = Past(n - 1)
  OBVIOUS
<1>1. first = spans'[n][1] /\ past = Past(n)' /\ before = Past(n - 1)'
  BY DEF Past
<1>2. /\ IsLexeme(first, past)
      /\ \A longer \in past + 1 .. Len(text) + 1 : ~IsLexeme(first, longer)
      /\ Denotes(tokens[n], SubSeq(text, first, past - 1))
      /\ before <= first /\ OnlySpace(before, first)
  BY DEF WellRead
<1>3. /\ IsLexeme(first, past)'
      /\ \A longer \in past + 1 .. Len(text') + 1 : ~IsLexeme(first, longer)'
      /\ OnlySpace(before, first)'
  BY <1>2, SameText
<1>4. Denotes(tokens'[n], SubSeq(text', first, past - 1))
  BY <1>2
<1> QED
  BY <1>1, <1>2, <1>3, <1>4 DEF WellRead

\* A token that was read as C says, and its characters, join the others.
LEMMA PushKeepsInv ==
  ASSUME LexInv, text' = text, lexed = "running",
         NEW token, NEW past \in at + 1 .. Len(text) + 1, Push(token, past),
         IsLexeme(at, past), \A longer \in past + 1 .. Len(text) + 1 : ~IsLexeme(at, longer),
         Denotes(token, SubSeq(text, at, past - 1))
  PROVE  LexInv'
<1> PICK n, first : n = Len(spans) /\ first = at
  OBVIOUS
<1>1. /\ LexTyped /\ Past(n) <= first /\ OnlySpace(Past(n), first)
      /\ \A k \in 1 .. n : WellRead(k)
  BY DEF LexInv, LongestMatch, EveryTokenWellRead
<1>2. n \in Nat /\ n = Len(tokens) /\ first \in 1 .. Len(text) + 1 /\ Len(text) \in Nat
  BY <1>1 DEF LexTyped
<1>3. tokens' = Append(tokens, token) /\ spans' = Append(spans, <<first, past>>) /\ at' = past /\ lexed' = lexed
  BY DEF Push
<1>4. PICK S : tokens \in Seq(S)
  BY <1>1 DEF LexTyped
<1>5. tokens' \in Seq(S \cup {token})
  BY <1>3, <1>4
<1>6. /\ Len(tokens') = n + 1 /\ tokens'[n + 1] = token
      /\ \A k \in 1 .. n : tokens'[k] = tokens[k]
  BY <1>2, <1>3, <1>4
<1>7. /\ spans' \in Seq(Nat \X Nat)
      /\ Len(spans') = n + 1 /\ spans'[n + 1] = <<first, past>>
      /\ \A k \in 1 .. n : spans'[k] = spans[k]
  <2>1. PICK span : span = <<first, past>>
    OBVIOUS
  <2>2. spans \in Seq(Nat \X Nat) /\ n = Len(spans)
    BY <1>1 DEF LexTyped
  <2>3. span \in Nat \X Nat
    BY <1>2, <2>1
  <2>4. spans' = Append(spans, span)
    BY <1>3, <2>1
  <2>5. /\ spans' \in Seq(Nat \X Nat)
        /\ Len(spans') = n + 1 /\ spans'[n + 1] = span
        /\ \A k \in 1 .. n : spans'[k] = spans[k]
    BY ONLY <2>2, <2>3, <2>4
  <2> QED
    BY <2>1, <2>5
<1>8. LexTyped'
  <2>1. at' \in 1 .. Len(text') + 1
    BY <1>2, <1>3
  <2> QED
    BY <1>1, <1>5, <1>6, <1>7, <2>1 DEF LexTyped
<1>9. Past(n)' = Past(n)
  <2>1. n # 0 => n \in 1 .. n
    BY <1>2
  <2>2. n # 0 => spans'[n] = spans[n]
    BY <1>7, <2>1
  <2> QED
    BY <2>2 DEF Past
<1>10. Past(n + 1)' = past
  BY <1>2, <1>7 DEF Past
<1>11. WellRead(n + 1)'
  <2>1. /\ IsLexeme(first, past)'
        /\ \A longer \in past + 1 .. Len(text') + 1 : ~IsLexeme(first, longer)'
    BY SameText
  <2>2. Denotes(token, SubSeq(text', first, past - 1))
    OBVIOUS
  <2>3. PICK before : before = Past(n)
    OBVIOUS
  <2>4. before <= first /\ OnlySpace(before, first)' /\ Past(n)' = before
    BY <1>1, <1>9, <2>3, SameText
  <2>5. (n + 1) - 1 = n
    BY <1>2
  <2> QED
    BY <1>6, <1>7, <1>10, <2>1, <2>2, <2>4, <2>5 DEF WellRead
<1>12. ASSUME NEW k \in 1 .. n
       PROVE  WellRead(k)'
  <2>1. WellRead(k) /\ k \in Nat \ {0}
    BY <1>1, <1>2
  <2>2. k > 1 => k - 1 \in 1 .. n
    BY <1>2
  <2>3. tokens'[k] = tokens[k] /\ spans'[k] = spans[k] /\ (k > 1 => spans'[k - 1] = spans[k - 1])
    BY <1>6, <1>7, <2>2
  <2> QED
    BY <2>1, <2>3, StaysWellRead
<1>13. EveryTokenWellRead'
  <2>1. \A k \in 1 .. n + 1 : k \in 1 .. n \/ k = n + 1
    BY <1>2
  <2> QED
    BY <1>7, <1>11, <1>12, <2>1 DEF EveryTokenWellRead
<1>14. LongestMatch'
  <2>1. OnlySpace(past, past)'
    BY <1>2 DEF OnlySpace
  <2> QED
    BY <1>3, <1>6, <1>7, <1>10, <1>11, <2>1 DEF LongestMatch
<1>15. (Past(Len(spans)) <= at)'
  <2>1. Past(Len(spans))' = past /\ past <= past
    BY <1>2, <1>7, <1>10
  <2> QED
    BY <1>3, <2>1
<1> QED
  BY <1>8, <1>13, <1>14, <1>15 DEF LexInv

-----------------------------------------------------------------------------
(* The steps *)

LEMMA InitHolds == text \in Seq(STRING) /\ LexInit => LexInv
<1> SUFFICES ASSUME text \in Seq(STRING), LexInit PROVE LexInv
  OBVIOUS
<1>1. Len(text) \in Nat /\ Len(spans) = 0 /\ Len(tokens) = 0 /\ at = 1 /\ lexed = "running"
  BY DEF LexInit
<1>2. LexTyped
  <2>1. tokens \in Seq({}) /\ spans \in Seq(Nat \X Nat)
    BY DEF LexInit
  <2> QED
    BY <1>1, <2>1 DEF LexTyped
<1>3. Past(0) = 1
  BY DEF Past
<1>4. OnlySpace(1, 1)
  BY DEF OnlySpace
<1>5. EveryTokenWellRead
  BY <1>1 DEF EveryTokenWellRead
<1>6. LongestMatch
  BY <1>1, <1>3, <1>4 DEF LongestMatch
<1> QED
  BY <1>1, <1>2, <1>3, <1>5, <1>6 DEF LexInv

\* No punctuator is read from a letter or a digit.
LEMMA PunctStart ==
  ASSUME text \in Seq(STRING), NEW i \in 1 .. Len(text), NEW j \in i + 1 .. Len(text) + 1,
         SubSeq(text, i, j - 1) \in Puncts
  PROVE  Char(i) \notin Letter \cup Digit
<1>1. i \in Int /\ j - 1 \in Int /\ i <= j - 1 /\ \A k \in i .. j - 1 : text[k] \in STRING
  OBVIOUS
<1>2. PICK k \in DOMAIN PunctTable : SubSeq(text, i, j - 1) = PunctTable[k]
  BY DEF Puncts, ToSet
<1>3. SubSeq(text, i, j - 1)[1] = text[i]
  OBVIOUS
<1> QED
  BY <1>2, <1>3, PunctHeads DEF Char

LEMMA WordKeepsInv ==
  ASSUME LexInv, LexWord
  PROVE  LexInv'
<1> PICK first, past, spelling, token :
      /\ first = at /\ past = RunEnd(at, Letter \cup Digit)
      /\ spelling = SubSeq(text, first, past - 1)
      /\ token = IF Joined(spelling) \in Keywords THEN Keyword(Joined(spelling))
                                                  ELSE Identifier(Joined(spelling))
  OBVIOUS
<1>1. /\ text' = text /\ lexed = "running" /\ ~AtEnd(first) /\ Char(first) \in Letter
      /\ Push(token, past)
  BY DEF LexWord, Lexing
<1>2. text \in Seq(STRING) /\ first \in 1 .. Len(text) + 1 /\ Len(text) \in Nat
  BY DEF LexInv, LexTyped
<1>3. /\ past \in first .. Len(text) + 1
      /\ \A k \in first .. past - 1 : Char(k) \in Letter \cup Digit
      /\ AtEnd(past) \/ Char(past) \notin Letter \cup Digit
  BY <1>2, RunEnds
<1>4. past \in first + 1 .. Len(text) + 1
  <2>1. past # first
    BY <1>1, <1>3
  <2> QED
    BY ONLY <1>2, <1>3, <2>1
<1>5. first \in 1 .. Len(text)
  BY <1>2, <1>4
<1>6. IsLexeme(first, past)
  BY <1>1, <1>3 DEF IsLexeme
<1>7. ASSUME NEW longer \in past + 1 .. Len(text) + 1
      PROVE  ~IsLexeme(first, longer)
  <2>1. /\ past \in first .. longer - 1 /\ first \in first .. longer - 1
        /\ longer \in first + 1 .. Len(text) + 1 /\ ~(past > Len(text))
    BY <1>2, <1>4
  <2>2. Char(past) \notin Letter \cup Digit
    BY <1>3, <2>1 DEF AtEnd
  <2>3. Char(first) \notin Digit
    BY <1>1, LettersAreNoDigits
  <2>4. SubSeq(text, first, longer - 1) \notin Puncts
    BY <1>1, <1>2, <1>5, <2>1, PunctStart
  <2> QED
    BY <2>1, <2>2, <2>3, <2>4 DEF IsLexeme
<1>8. Denotes(token, spelling)
  BY DEF Denotes, Keyword, Identifier
<1> QED
  BY <1>1, <1>4, <1>6, <1>7, <1>8, PushKeepsInv

LEMMA NumberKeepsInv ==
  ASSUME LexInv, LexNumber
  PROVE  LexInv'
<1> PICK first, past, digits, token :
      /\ first = at /\ past = RunEnd(at, Digit)
      /\ digits = SubSeq(text, first, past - 1) /\ token = Literal(LiteralValue(digits))
  OBVIOUS
<1>1. /\ text' = text /\ lexed = "running" /\ ~AtEnd(first) /\ Char(first) \in Digit
      /\ Push(token, past)
  BY DEF LexNumber, Lexing
<1>2. text \in Seq(STRING) /\ first \in 1 .. Len(text) + 1 /\ Len(text) \in Nat
  BY DEF LexInv, LexTyped
<1>3. /\ past \in first .. Len(text) + 1
      /\ \A k \in first .. past - 1 : Char(k) \in Digit
      /\ AtEnd(past) \/ Char(past) \notin Digit
  BY <1>2, RunEnds
<1>4. past \in first + 1 .. Len(text) + 1
  <2>1. past # first
    BY <1>1, <1>3
  <2> QED
    BY ONLY <1>2, <1>3, <2>1
<1>5. first \in 1 .. Len(text)
  BY <1>2, <1>4
<1>6. IsLexeme(first, past)
  BY <1>3 DEF IsLexeme
<1>7. ASSUME NEW longer \in past + 1 .. Len(text) + 1
      PROVE  ~IsLexeme(first, longer)
  <2>1. /\ past \in first .. longer - 1
        /\ longer \in first + 1 .. Len(text) + 1 /\ ~(past > Len(text))
    BY <1>2, <1>4
  <2>2. Char(past) \notin Digit
    BY <1>3, <2>1 DEF AtEnd
  <2>3. Char(first) \notin Letter
    BY <1>1, LettersAreNoDigits
  <2>4. SubSeq(text, first, longer - 1) \notin Puncts
    BY <1>1, <1>2, <1>5, <2>1, PunctStart
  <2> QED
    BY <2>1, <2>2, <2>3, <2>4 DEF IsLexeme
<1>8. Denotes(token, digits)
  <2>1. Len(digits) \in Nat
    BY <1>2, <1>4
  <2>2. LiteralValue(digits) = Wrap(DecimalValue(digits))
    BY <2>1, LiteralsAreDecimal
  <2> QED
    BY <2>2 DEF Denotes, Literal
<1> QED
  BY <1>1, <1>4, <1>6, <1>7, <1>8, PushKeepsInv

\* The punctuators the text goes on with are those PunctLookup chooses from.
LEMMA PunctLexemes ==
  ASSUME text \in Seq(STRING), NEW i \in 1 .. Len(text), Char(i) \notin Letter \cup Digit,
         NEW j \in i + 1 .. Len(text) + 1
  PROVE  IsLexeme(i, j) <=> \E k \in PunctsAt(i) : Len(PunctTable[k]) = j - i /\ PunctTable[k] = SubSeq(text, i, j - 1)
<1>1. i \in i .. j - 1
  OBVIOUS
<1>2. IsLexeme(i, j) <=> SubSeq(text, i, j - 1) \in Puncts
  BY <1>1 DEF IsLexeme
<1>3. Len(SubSeq(text, i, j - 1)) = j - i
  OBVIOUS
<1>4. ASSUME NEW k \in DOMAIN PunctTable, PunctTable[k] = SubSeq(text, i, j - 1)
      PROVE  k \in PunctsAt(i) /\ Len(PunctTable[k]) = j - i
  <2>1. Len(PunctTable[k]) = j - i
    BY <1>3, <1>4
  <2>2. i + (j - i) - 1 = j - 1 /\ j - 1 <= Len(text)
    OBVIOUS
  <2> QED
    BY <1>4, <2>1, <2>2 DEF PunctsAt
<1>5. \A k \in PunctsAt(i) : k \in DOMAIN PunctTable
  BY DEF PunctsAt
<1>6. SubSeq(text, i, j - 1) \in Puncts <=> \E k \in DOMAIN PunctTable : PunctTable[k] = SubSeq(text, i, j - 1)
  BY DEF Puncts, ToSet
<1> QED
  BY <1>2, <1>4, <1>5, <1>6

LEMMA PunctKeepsInv ==
  ASSUME LexInv, LexPunct
  PROVE  LexInv'
<1> PICK first, k, p, past, token :
      /\ first = at /\ k = PunctLookup(at) /\ p = PunctTable[k] /\ past = first + Len(p)
      /\ token = IF Joined(p) \in Separators THEN Sep(Joined(p)) ELSE Op(Joined(p))
  OBVIOUS
<1>1. /\ text' = text /\ lexed = "running" /\ ~AtEnd(first) /\ Char(first) \notin Letter \cup Digit
      /\ k # 0 /\ Push(token, past)
  BY DEF LexPunct, Lexing
<1>2. text \in Seq(STRING) /\ first \in 1 .. Len(text) + 1 /\ Len(text) \in Nat
  BY DEF LexInv, LexTyped
<1>3. first \in 1 .. Len(text)
  BY <1>1, <1>2 DEF AtEnd
<1>4. /\ k \in DOMAIN PunctTable /\ k \in PunctsAt(first)
      /\ \A l \in PunctsAt(first) : Len(PunctTable[l]) <= Len(p)
  BY <1>1, LookupFinds
<1>5. Len(p) \in Nat \ {0}
  BY <1>4, PunctsShrink
<1>6. first + Len(p) - 1 <= Len(text) /\ SubSeq(text, first, first + Len(p) - 1) = p
  BY <1>4 DEF PunctsAt
<1>7. past \in first + 1 .. Len(text) + 1 /\ past - 1 = first + Len(p) - 1 /\ past - first = Len(p)
  BY <1>2, <1>5, <1>6
<1>8. SubSeq(text, first, past - 1) = p
  BY <1>6, <1>7
<1>9. IsLexeme(first, past)
  BY <1>1, <1>2, <1>3, <1>4, <1>7, <1>8, PunctLexemes
<1>10. ASSUME NEW longer \in past + 1 .. Len(text) + 1
       PROVE  ~IsLexeme(first, longer)
  <2>1. longer \in first + 1 .. Len(text) + 1 /\ ~(longer - first <= Len(p))
    BY <1>2, <1>5, <1>7
  <2> QED
    BY <1>1, <1>2, <1>3, <1>4, <2>1, PunctLexemes
<1>11. Denotes(token, p)
  BY DEF Denotes, Sep, Op
<1> QED
  BY <1>1, <1>7, <1>8, <1>9, <1>10, <1>11, PushKeepsInv

\* A step that reads no token keeps those read before.
LEMMA TokensStay ==
  ASSUME LexInv, text' = text, tokens' = tokens, spans' = spans, at' \in at .. Len(text) + 1
  PROVE  /\ LexTyped'
         /\ EveryTokenWellRead'
         /\ (Past(Len(spans)) <= at)'
         /\ Len(spans') = Len(tokens')
         /\ Len(spans') > 0 => WellRead(Len(spans))'
<1> PICK n : n = Len(spans)
  OBVIOUS
<1>1. /\ LexTyped /\ Past(n) <= at
      /\ \A k \in 1 .. n : WellRead(k)
  BY DEF LexInv, EveryTokenWellRead
<1>2. n \in Nat /\ n = Len(tokens) /\ at \in 1 .. Len(text) + 1 /\ Len(text) \in Nat
  BY <1>1 DEF LexTyped
<1>3. LexTyped'
  <2>1. at' \in 1 .. Len(text') + 1
    BY <1>2
  <2> QED
    BY <1>1, <2>1 DEF LexTyped
<1>4. ASSUME NEW k \in 1 .. n
      PROVE  WellRead(k)'
  <2>1. WellRead(k) /\ k \in Nat \ {0}
    BY <1>1, <1>2
  <2> QED
    BY <2>1, StaysWellRead
<1>5. EveryTokenWellRead'
  BY <1>4 DEF EveryTokenWellRead
<1>6. (Past(Len(spans)) <= at)'
  <2>1. Past(n)' = Past(n)
    BY DEF Past
  <2>2. (IF n = 0 THEN 1 ELSE spans[n][2]) \in Int
    <3>1. n # 0 => n \in 1 .. n
      BY <1>2
    <3>2. n # 0 => spans[n] \in Nat \X Nat
      BY <1>1, <3>1 DEF LexTyped
    <3> QED
      BY <3>2
  <2>3. Past(n) \in Int
    BY <2>2 DEF Past
  <2>4. PICK before, here, there : before = Past(n) /\ here = at /\ there = at'
    OBVIOUS
  <2>5. before <= there
    <3>1. before \in Int /\ here \in Int /\ there \in Int /\ before <= here /\ here <= there
      BY <1>1, <1>2, <2>3, <2>4
    <3> QED
      BY ONLY <3>1
  <2>6. Past(Len(spans))' = before
    BY <2>1, <2>4
  <2> QED
    BY <2>4, <2>5, <2>6
<1>7. n > 0 => WellRead(n)'
  <2>1. n > 0 => n \in 1 .. n
    BY <1>2
  <2> QED
    BY <1>4, <2>1
<1> QED
  BY <1>2, <1>3, <1>5, <1>6, <1>7

LEMMA SpaceKeepsInv ==
  ASSUME LexInv, LexSpace
  PROVE  LexInv'
<1> PICK n, here, before : n = Len(spans) /\ here = at /\ before = Past(n)
  OBVIOUS
<1>1. /\ text' = text /\ tokens' = tokens /\ spans' = spans /\ lexed' = lexed /\ lexed = "running"
      /\ at' = here + 1 /\ ~AtEnd(here) /\ Char(here) \in Blank
  BY DEF LexSpace, Lexing
<1>2. here \in 1 .. Len(text) + 1 /\ Len(text) \in Nat
  BY DEF LexInv, LexTyped
<1>3. at' \in at .. Len(text) + 1
  BY <1>1, <1>2 DEF AtEnd
<1>4. OnlySpace(before, here + 1)'
  <2>1. OnlySpace(before, here)
    BY DEF LexInv, LongestMatch
  <2>2. \A k \in before .. (here + 1) - 1 : k \in before .. here - 1 \/ k = here
    BY <1>2
  <2>3. OnlySpace(before, here + 1)
    BY <1>1, <2>1, <2>2 DEF OnlySpace
  <2> QED
    BY <1>1, <2>3, SameText
<1>5. Past(Len(spans))' = before
  BY <1>1 DEF Past
<1>6. LongestMatch'
  BY <1>1, <1>3, <1>4, <1>5, TokensStay DEF LongestMatch
<1> QED
  BY <1>1, <1>3, <1>6, TokensStay DEF LexInv

LEMMA EndKeepsInv ==
  ASSUME LexInv, LexUnexpected \/ LexEnd
  PROVE  LexInv'
<1> PICK n, here, before : n = Len(spans) /\ here = at /\ before = Past(n)
  OBVIOUS
<1>1. text' = text /\ tokens' = tokens /\ spans' = spans /\ at' = at
  BY DEF LexUnexpected, LexEnd, Lexing
<1>2. text \in Seq(STRING) /\ here \in 1 .. Len(text) + 1 /\ Len(text) \in Nat
  BY DEF LexInv, LexTyped
<1>3. at' \in at .. Len(text) + 1
  BY <1>1, <1>2
<1>4. OnlySpace(before, here)' /\ Past(Len(spans))' = before
  <2>1. OnlySpace(before, here)
    BY DEF LexInv, LongestMatch
  <2>2. Past(Len(spans))' = before
    BY <1>1 DEF Past
  <2> QED
    BY <1>1, <2>1, <2>2, SameText
<1>5. lexed' = "ok" => at' = Len(text') + 1
  BY <1>1, <1>2 DEF LexUnexpected, LexEnd, AtEnd
<1>6. ASSUME lexed' = "unexpected"
      PROVE  (Char(here) \notin Blank)' /\ \A j \in here + 1 .. Len(text') + 1 : ~IsLexeme(here, j)'
  <2>1. ~AtEnd(here) /\ Char(here) \notin Letter \cup Digit \cup Blank /\ PunctLookup(here) = 0
    BY <1>6 DEF LexUnexpected, LexEnd
  <2>2. here \in 1 .. Len(text)
    BY <1>2, <2>1 DEF AtEnd
  <2>3. PunctsAt(here) = {}
    BY <2>1, LookupFinds
  <2>4. \A j \in here + 1 .. Len(text) + 1 : ~IsLexeme(here, j)
    BY <1>2, <2>1, <2>2, <2>3, PunctLexemes
  <2>5. \A j \in here + 1 .. Len(text') + 1 : ~IsLexeme(here, j)'
    BY <1>1, <2>4, SameText
  <2> QED
    BY <1>1, <2>1, <2>5 DEF Char
<1>7. LongestMatch'
  BY <1>1, <1>3, <1>4, <1>5, <1>6, TokensStay DEF LongestMatch
<1> QED
  BY <1>1, <1>3, <1>7, TokensStay DEF LexInv

LEMMA StutterKeepsInv ==
  ASSUME LexInv, UNCHANGED lexVars
  PROVE  LexInv'
  BY DEF LexInv, LexTyped, EveryTokenWellRead, WellRead, LongestMatch, Past, OnlySpace, IsLexeme,
         Char, lexVars

-----------------------------------------------------------------------------

\* Of any text, tokenize has at any time read what C reads: the longest tokens,
\* each with the meaning of its characters, only space between them, and it
\* gives up only where no token starts.
THEOREM TextsAreReadAsC == LexSpec => [](LongestMatch /\ EveryTokenWellRead)
<1>1. text \in Seq(STRING) /\ LexInit => LexInv
  BY InitHolds
<1>2. LexInv /\ [Lex]_lexVars => LexInv'
  BY WordKeepsInv, NumberKeepsInv, PunctKeepsInv, SpaceKeepsInv, EndKeepsInv, StutterKeepsInv
     DEF Lex
<1>3. LexInv => LongestMatch /\ EveryTokenWellRead
  BY DEF LexInv
<1> QED
  BY <1>1, <1>2, <1>3, PTL DEF LexSpec
=============================================================================
