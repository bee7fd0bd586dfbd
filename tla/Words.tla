------------------------------- MODULE Words -------------------------------
(***************************************************************************)
(* Two's-complement machine words of WordBits bits, as signed integers.     *)
(* tinyC's `int` is the 32-bit register the emitted instructions work on;   *)
(* the width is a parameter so that wrap-around is reached by small         *)
(* instances.  LowBits stands for the 8 bits `setcc` writes: what matters   *)
(* is only that it is a proper part of the word.                            *)
(***************************************************************************)
EXTENDS Integers

CONSTANTS WordBits, LowBits

ASSUME WordBitsAssumption ==
  /\ WordBits \in Nat
  /\ LowBits \in Nat
  /\ 0 < LowBits
  /\ LowBits < WordBits

\* Powers of two as a function, which a proof can unfold.
Pow2[n \in Nat] == IF n = 0 THEN 1 ELSE 2 * Pow2[n - 1]

WordSize == Pow2[WordBits]
HalfWord == Pow2[WordBits - 1]
Word == -HalfWord .. HalfWord - 1

\* The word congruent to n modulo 2^WordBits.
Wrap(n) ==
  LET u == n % WordSize
  IN IF u < HalfWord THEN u ELSE u - WordSize

Bit(n, i) == (n \div Pow2[i]) % 2
BitsOf(n) == {i \in 0 .. WordBits - 1 : Bit(n, i) = 1}
FromBits(S) ==
  LET sum[n \in Nat] == IF n = 0 THEN 0
                        ELSE sum[n - 1] + (IF n - 1 \in S THEN Pow2[n - 1] ELSE 0)
  IN Wrap(sum[WordBits])

AndWord(a, b) == FromBits(BitsOf(a) \cap BitsOf(b))
OrWord(a, b) == FromBits(BitsOf(a) \cup BitsOf(b))
XorWord(a, b) == FromBits((BitsOf(a) \ BitsOf(b)) \cup (BitsOf(b) \ BitsOf(a)))
NotWord(a) == -a - 1

\* A shift by an amount outside 0 .. WordBits-1 is undefined in C; the hardware
\* masks the amount.  What a right shift of a negative number gives, C leaves to
\* the implementation: tinyC emits shrl, which shifts zeros in.
ShiftLeft(a, n) == Wrap(a * Pow2[n % WordBits])
ShiftRight(a, n) == Wrap((a % WordSize) \div Pow2[n % WordBits])

Abs(n) == IF n < 0 THEN -n ELSE n

\* C division truncates towards zero; idivl traps when the quotient does not
\* exist or does not fit (b = 0, or the most negative word by -1).
DivTraps(a, b) == b = 0 \/ (a = -HalfWord /\ b = -1)
Quotient(a, b) == IF (a < 0) = (b < 0) THEN Abs(a) \div Abs(b)
                                        ELSE -(Abs(a) \div Abs(b))
Remainder(a, b) == a - b * Quotient(a, b)

\* w with its low LowBits bits replaced by those of b (a byte-sized write).
SetLowBits(w, b) ==
  Wrap((w \div Pow2[LowBits]) * Pow2[LowBits] + (b % Pow2[LowBits]))

-----------------------------------------------------------------------------
(* What the operators of C compute on words, under the names ir.h gives them. *)

UnopValue(op, a) ==
  CASE op = "NEG" -> Wrap(-a)
    [] op = "COMP" -> NotWord(a)
    [] op = "NOT" -> IF a = 0 THEN 1 ELSE 0

Truth(b) == IF b THEN 1 ELSE 0

BinopValue(op, a, b) ==
  CASE op = "ADD" -> Wrap(a + b)
    [] op = "SUB" -> Wrap(a - b)
    [] op = "MUL" -> Wrap(a * b)
    [] op = "DIV" -> Quotient(a, b)
    [] op = "MOD" -> Remainder(a, b)
    [] op = "AND" -> AndWord(a, b)
    [] op = "OR" -> OrWord(a, b)
    [] op = "XOR" -> XorWord(a, b)
    [] op = "LSHIFT" -> ShiftLeft(a, b)
    [] op = "RSHIFT" -> ShiftRight(a, b)
    [] op = "EQ" -> Truth(a = b)
    [] op = "NEQ" -> Truth(a # b)
    [] op = "LESS" -> Truth(a < b)
    [] op = "GREATER" -> Truth(a > b)
    [] op = "LEQ" -> Truth(a <= b)
    [] op = "GEQ" -> Truth(a >= b)
=============================================================================
