-------------------------------- MODULE Bits --------------------------------
(***************************************************************************)
(* The puzzles of bits.c, each an expression on 32-bit words, with a       *)
(* definition of what its comment promises.                                *)
(*                                                                         *)
(* A word is the set of the positions of its one bits, so | and & are      *)
(* union and intersection, and no arithmetic of the checker can overflow.  *)
(* A signed sum that overflows wraps around, as the compiled code does.    *)
(***************************************************************************)
EXTENDS Integers, FiniteSets, FiniteSetsExt, Functions

CONSTANTS
  Words,     \* the words the puzzles are tried on (a bound)
  Pairs,     \* those of them that are tried in pairs (a bound)
  Shifts     \* and the numbers of bits

W == 32
Bit == 0 .. W - 1
Word == SUBSET Bit

ASSUME BitsConstantsOK == Words \subseteq Word /\ Pairs \subseteq Words /\ Shifts \subseteq Bit

-----------------------------------------------------------------------------
(* The operators of C. *)

Not(x) == Bit \ x
Xor(x, y) == (x \ y) \cup (y \ x)
Shl(x, n) == {b + n : b \in x} \cap Bit

\* >> of an int copies the sign, >> of an unsigned does not.
ShrUnsigned(x, n) == {b - n : b \in x} \cap Bit
Shr(x, n) == ShrUnsigned(x, n) \cup (IF W - 1 \in x THEN W - n .. W - 1 ELSE {})

Sum3(p, q, s) == (IF p THEN 1 ELSE 0) + (IF q THEN 1 ELSE 0) + (IF s THEN 1 ELSE 0)

\* x + y, with the carry into each bit.
Add(x, y) ==
  LET carry[b \in 0 .. W] ==
        b > 0 /\ Sum3(b - 1 \in x, b - 1 \in y, carry[b - 1]) >= 2
  IN {b \in Bit : Sum3(b \in x, b \in y, carry[b]) \in {1, 3}}

Flag(p) == IF p THEN {0} ELSE {}
LNot(x) == Flag(x = {})

Power2[n \in Nat] == IF n = 0 THEN 1 ELSE 2 * Power2[n - 1]

\* The number that a word stands for, and a word for a small number.
Value(x) == SumFunctionOnSet(Power2, x)
WordOf(n) == {b \in Bit : b < 31 /\ (n \div Power2[b]) % 2 = 1}

One == {0}
Minus(x) == Add(Not(x), One)

-----------------------------------------------------------------------------
(* The puzzles. *)

bitAnd(x, y) == Not(Not(x) \cup Not(y))
tmin == Shl(One, 31)
negate(x) == Add(Not(x), One)

allEvenBits(x) ==
  LET aa == WordOf(170)
      half == Shl(aa, 8) \cup aa
      yy == Shl(half, 16) \cup half
  IN LNot(Not(yy \cup x))

\* Mutant: the upper nibbles are not added.
bitCount_Half(x) ==
  LET mask == {0, 4, 8, 12, 16, 20, 24, 28}
      low == WordOf(15)
      nibbles == Add(Add(Add(mask \cap x, mask \cap Shr(x, 1)), mask \cap Shr(x, 2)),
                     mask \cap Shr(x, 3))
  IN Add(Add(Add(nibbles \cap low, Shr(nibbles, 4) \cap low), Shr(nibbles, 8) \cap low),
         Shr(nibbles, 12) \cap low)

bitCount(x) ==
  LET byte == Shl(WordOf(17), 8) \cup WordOf(17)
      mask == Shl(byte, 16) \cup byte
      low == WordOf(15)
      nibbles == Add(Add(Add(mask \cap x, mask \cap Shr(x, 1)), mask \cap Shr(x, 2)),
                     mask \cap Shr(x, 3))
      sum1 == Add(nibbles, Shr(nibbles, 16))
  IN Add(Add(Add(sum1 \cap low, Shr(sum1, 4) \cap low), Shr(sum1, 8) \cap low),
         Shr(sum1, 12) \cap low)

logicalShift(x, n) ==
  LET con2 == Value(Add(Add(WordOf(31), Not(WordOf(n))), One))
      var1 == Shr(x, n)
      mask1 == Xor(Not({}), Shl(Not({}), con2))
  IN (mask1 \cap var1) \cup (Shl(One, con2) \cap var1)

isNegative(x) == LNot(LNot(Shr(x, 31)))

isGreater(x, y) ==
  LET judge1 == Not(Xor(x, y)) \cap Add(Add(y, Not(x)), One)
      judge2 == y \cap Xor(x, y)
  IN LNot(LNot(Shr(judge1 \cup judge2, 31)))

isPower2(x) ==
  LET judge1 == LNot(x \cap Add(Not({}), x))
      judge2 == LNot(Shr(x, 31)) \cap LNot(LNot(x))
  IN judge1 \cap judge2

\* n is 1 to 32
fitsBits(x, n) ==
  LET shifted == Shr(x, Value(Add(Add(WordOf(n), Not(One)), One))) IN
  Xor(LNot(shifted), LNot(Not(shifted)))

conditional(x, y, z) ==
  LET mask == Minus(LNot(LNot(x))) IN (mask \cap y) \cup (Not(mask) \cap z)

greatestBitPos(x) ==
  LET a1 == x \cup Shr(x, 1)
      a2 == a1 \cup Shr(a1, 2)
      a4 == a2 \cup Shr(a2, 4)
      a8 == a4 \cup Shr(a4, 8)
      a == a8 \cup Shr(a8, 16)
  IN (Xor(a, Shr(a, 1)) \cup Shl(One, 31)) \cap a

\* The loop of float_i2f shifts until the first one bit has been shifted out;
\* p is the number of turns.
Turns(xx) == W - Max(xx)

\* Mutant: a half is always rounded up.
adjust_HalfUp(xx) == Flag(8 \in xx)

\* Round up beyond a half, and at a half when the last bit kept is one.
adjust(xx) ==
  LET rest == xx \cap (0 .. 8) IN
  Flag((8 \in rest /\ rest # {8}) \/ xx \cap (0 .. 9) = {8, 9})

float_i2f(x) ==
  LET sign == x \cap {31}
      magnitude == IF 31 \in x THEN Minus(x) ELSE x
      p == Turns(magnitude)
      xx == Shl(magnitude, p)
      exponent == Shl(WordOf(127 + 32 - p), 23)
  IN IF x = {} THEN {}
     ELSE Add(Add(Add(sign, ShrUnsigned(xx, 9)), exponent), adjust(xx))

\* x > y and x >= y as unsigned: the first bit in which they differ is one in x.
Above(x, y) == x # y /\ Max(Xor(x, y)) \in x

float_abs(uf) ==
  LET min == {0} \cup 23 .. 30
      tempt == uf \cap (0 .. 30)
  IN IF Above(tempt, min) \/ tempt = min THEN uf ELSE tempt

-----------------------------------------------------------------------------
(* The driver: a word, alone, with another one or with a number of bits.   *)

VARIABLES word, another, count, arguments

puzzleVars == <<word, another, count, arguments>>

PuzzleInit == word \in Words /\ another = {} /\ count = 0 /\ arguments = 1

AnotherWord ==
  /\ arguments = 1 /\ arguments' = 2
  /\ word \in Pairs /\ another' \in Pairs
  /\ UNCHANGED <<word, count>>

ANumber ==
  /\ arguments = 1 /\ arguments' = 3
  /\ count' \in Shifts
  /\ UNCHANGED <<word, another>>

PuzzleNext == AnotherWord \/ ANumber

PuzzleSpec == PuzzleInit /\ [][PuzzleNext]_puzzleVars

-----------------------------------------------------------------------------
(* Properties. *)

Negative(x) == 31 \in x

\* What the comments promise of the puzzles with one argument.
UnaryRight(x) ==
  /\ tmin = {31}
  /\ Add(x, negate(x)) = {}
  /\ allEvenBits(x) = Flag({b \in Bit : b % 2 = 0} \subseteq x)
  /\ Value(bitCount(x)) = Cardinality(x)
  /\ isNegative(x) = Flag(Negative(x))
  /\ isPower2(x) = Flag(Cardinality(x) = 1 /\ ~ Negative(x))
  /\ greatestBitPos(x) = IF x = {} THEN {} ELSE {Max(x)}
  /\ float_abs(x) = IF 23 .. 30 \subseteq x /\ x \cap (0 .. 22) # {} THEN x ELSE x \ {31}

\* Of those with two words: no difference overflows unnoticed.
BinaryRight(x, y) ==
  /\ bitAnd(x, y) = x \cap y
  /\ isGreater(x, y) = Flag(IF Negative(x) = Negative(y) THEN Above(x, y) ELSE Negative(y))
  /\ conditional(x, y, Not(y)) = IF x # {} THEN y ELSE Not(y)

\* Of those with a number of bits, up to and including the whole word.
CountsRight(x, n) ==
  /\ logicalShift(x, n) = ShrUnsigned(x, n)
  /\ fitsBits(x, n + 1) = Flag(\A b \in n .. 31 : b \in x <=> Negative(x))

\* bits.c: every puzzle returns what its comment says, for the least and the
\* greatest numbers, sums that overflow and shifts by the width of the word.
PuzzlesRight ==
  /\ arguments = 1 => UnaryRight(word)
  /\ arguments = 2 => BinaryRight(word, another)
  /\ arguments = 3 => CountsRight(word, count)

\* The float nearest to x, and of two the one whose last bit is zero: the 24
\* bits from the first one on, as a number, are rounded and put together with
\* their exponent; a carry out of them makes the exponent larger.
NearestFloat(x) ==
  LET m == IF Negative(x) THEN negate(x) ELSE x
      h == Max(m)
      kept == Value({b - (h - 23) : b \in m} \cap (0 .. 23))
      up == h - 24 \in m /\ (h - 23 \in m \/ \E b \in m : b < h - 24)
      rounded == kept + (IF up THEN 1 ELSE 0)
      whole == rounded = Power2[24]
  IN (x \cap {31}) \cup Shl(WordOf(127 + h + (IF whole THEN 1 ELSE 0)), 23)
       \cup (IF whole THEN {} ELSE WordOf(rounded - Power2[23]))

\* float_i2f rounds to the nearest float, ties to even, the carry into the
\* exponent included.
RoundsToNearestEven ==
  arguments = 1 => float_i2f(word) = IF word = {} THEN {} ELSE NearestFloat(word)
=============================================================================
