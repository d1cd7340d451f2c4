------------------------------- MODULE Words -------------------------------
(***************************************************************************)
(* The numbers of the machine: sign and magnitude, in bytes of 9 bits,     *)
(* words of two bytes (high byte first) and longs of two words (low word   *)
(* first).  A width of b bits is given by s = 2^(b-1), the weight of its   *)
(* sign bit, so that nothing here depends on 9, 18 and 36.                 *)
(***************************************************************************)
EXTENDS Integers, Sequences

\* Bit s of n, in two's complement where n is negative, as in int64_t.
Bit(s, n) == (n \div s) % 2 = 1

\* n | s
SetBit(s, n) == IF Bit(s, n) THEN n ELSE n + s

Overflow(s, n) == n <= -s \/ n >= s

\* The bits of n above the width, all set when n is negative.
Carry(s, n) == n < 0 \/ n >= 2 * s

(***************************************************************************)
(* machine.hh's signed_: a positive number too large becomes the sign bit  *)
(* alone; the test meant to do the same for a negative one compares with   *)
(* an unsigned sign and is never true.                                     *)
(***************************************************************************)
Signed(s, n) == IF n < 0 THEN SetBit(s, -n) ELSE IF n >= s THEN s ELSE n

\* The assembler has its own, which cuts the magnitude instead.
NasSigned(s, n) == IF n < 0 THEN ((-n) % s) + s ELSE n % s

Unsigned(s, n) == n % (2 * s)

\* Back to an integer; the sign bit is flipped, not cut off.
Sex(s, n) == IF Bit(s, n) THEN -(n - s) ELSE n

-----------------------------------------------------------------------------
(* Layout in memory; b is the number of values of a byte (2^9) *)

PutWord(b, n) == <<(n \div b) % b, n % b>>
GetWord(b, m, at) == m[at] * b + m[at + 1]
PutLong(b, n) ==
  LET low == PutWord(b, n)
      high == PutWord(b, n \div (b * b))
  IN <<low[1], low[2], high[1], high[2]>>
GetLong(b, m, at) == GetWord(b, m, at) + GetWord(b, m, at + 2) * b * b
=============================================================================
