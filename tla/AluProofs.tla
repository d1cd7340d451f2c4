----------------------------- MODULE AluProofs -----------------------------
(***************************************************************************)
(* What the arithmetic of CPU::run does at every width and for every       *)
(* number.                                                                 *)
(*                                                                         *)
(* First the conversions of machine.hh: below twice the sign's weight the  *)
(* sign bit is set just when a number reaches that weight (BitInRange).    *)
(***************************************************************************)
EXTENDS Alu, FoldProofs

LEMMA BitInRange ==
  ASSUME NEW s \in Nat \ {0}, NEW n \in 0 .. 2 * s - 1
  PROVE  Bit(s, n) <=> n >= s
<1>1. CASE n < s
  <2>1. n \div s = 0
    BY <1>1
  <2> QED
    BY <1>1, <2>1 DEF Bit
<1>2. CASE n >= s
  <2>1. n \div s = 1
    BY <1>2
  <2> QED
    BY <1>2, <2>1 DEF Bit
<1> QED
  BY <1>1, <1>2

\* A number that fits its width is stored in it and read back as it was
\* (signed_ and sex of machine.hh).
THEOREM FittingNumbersAreKept ==
  ASSUME NEW s \in Nat \ {0}, NEW n \in Int, ~Overflow(s, n)
  PROVE  Signed(s, n) \in 0 .. 2 * s - 1 /\ Sex(s, Signed(s, n)) = n
<1>1. CASE n >= 0
  <2>1. Signed(s, n) = n /\ n \in 0 .. s - 1
    BY <1>1 DEF Signed, Overflow
  <2>2. ~Bit(s, n)
    BY <2>1, BitInRange
  <2> QED
    BY <2>1, <2>2 DEF Sex
<1>2. CASE n < 0
  <2>1. -n \in 1 .. s - 1
    BY <1>2 DEF Overflow
  <2>2. ~Bit(s, -n) /\ Bit(s, s - n)
    BY <2>1, BitInRange
  <2>3. Signed(s, n) = s - n
    BY <1>2, <2>1, <2>2 DEF Signed, SetBit
  <2> QED
    BY <2>1, <2>2, <2>3 DEF Sex
<1> QED
  BY <1>1, <1>2

\* One that does not fit is never read back as it was, so an instruction that does
\* not set V must not store it: too large a positive number becomes the negative
\* zero, and a negative one is left as it is and loses the sign's weight, or is
\* stored beyond the width when it is twice as large.
THEOREM OverflowIsNeverKept ==
  ASSUME NEW s \in Nat \ {0}, NEW n \in Int, Overflow(s, n)
  PROVE  /\ n >= s => Signed(s, n) = s /\ Sex(s, Signed(s, n)) = 0
         /\ n \in 1 - 2 * s .. -s => Signed(s, n) = -n /\ Sex(s, Signed(s, n)) = n + s
         /\ n <= -2 * s => Signed(s, n) >= 2 * s
<1>1. ASSUME n >= s PROVE Signed(s, n) = s /\ Sex(s, Signed(s, n)) = 0
  <2>1. Signed(s, n) = s /\ Bit(s, s)
    BY <1>1, BitInRange DEF Signed
  <2>2. Sex(s, Signed(s, n)) = -(Signed(s, n) - s)
    BY <2>1 DEF Sex
  <2>3. \A k \in Int : k <= 0 /\ k >= 0 => -k = 0
    OBVIOUS
  <2>4. Signed(s, n) - s \in Int /\ Signed(s, n) - s <= 0 /\ Signed(s, n) - s >= 0
    BY <2>1
  <2>5. -(Signed(s, n) - s) = 0
    BY <2>3, <2>4
  <2> QED
    BY <2>1, <2>2, <2>5
<1>2. ASSUME n \in 1 - 2 * s .. -s
      PROVE  Signed(s, n) = -n /\ Sex(s, Signed(s, n)) = n + s
  <2>1. Bit(s, -n) /\ n < 0
    BY <1>2, BitInRange
  <2>2. Signed(s, n) = -n
    BY <2>1 DEF Signed, SetBit
  <2> QED
    BY <2>1, <2>2 DEF Sex
<1>3. ASSUME n <= -2 * s PROVE Signed(s, n) >= 2 * s
  BY <1>3 DEF Signed, SetBit
<1> QED
  BY <1>1, <1>2, <1>3

\* Reading a register of its width gives a number that fits, and storing that gives
\* the register back, the negative zero excepted, which becomes 0.
THEOREM RegistersAreKept ==
  ASSUME NEW s \in Nat \ {0}, NEW x \in 0 .. 2 * s - 1
  PROVE  /\ ~Overflow(s, Sex(s, x))
         /\ Signed(s, Sex(s, x)) = IF x = s THEN 0 ELSE x
<1>1. CASE x < s
  <2>1. Sex(s, x) = x
    BY <1>1, BitInRange DEF Sex
  <2> QED
    BY <1>1, <2>1 DEF Overflow, Signed
<1>2. CASE x >= s
  <2>1. Sex(s, x) = s - x
    BY <1>2, BitInRange DEF Sex
  <2>2. CASE x = s
    BY <2>1, <2>2 DEF Overflow, Signed
  <2>3. CASE x > s
    <3>1. ~Bit(s, x - s)
      BY <2>3, BitInRange
    <3> QED
      BY <2>1, <2>3, <3>1 DEF Overflow, Signed, SetBit
  <2> QED
    BY <1>2, <2>2, <2>3
<1> QED
  BY <1>1, <1>2

\* The assembler's own conversion (nas.cc) agrees with the machine's on every number
\* that fits.
THEOREM AssemblerAgrees ==
  ASSUME NEW s \in Nat \ {0}, NEW n \in Int, ~Overflow(s, n)
  PROVE  NasSigned(s, n) = Signed(s, n)
<1>1. CASE n >= 0
  <2>1. n % s = n
    BY <1>1 DEF Overflow
  <2> QED
    BY <1>1, <2>1 DEF NasSigned, Signed, Overflow
<1>2. CASE n < 0
  <2>1. -n \in 1 .. s - 1
    BY <1>2 DEF Overflow
  <2>2. (-n) % s = -n /\ ~Bit(s, -n)
    BY <2>1, BitInRange
  <2> QED
    BY <1>2, <2>1, <2>2 DEF NasSigned, Signed, SetBit
<1> QED
  BY <1>1, <1>2

-----------------------------------------------------------------------------
(* Division by the weights of the digits, and the layout of numbers in memory *)

LEMMA DivMod ==
  ASSUME NEW n \in Int, NEW b \in Nat \ {0}
  PROVE  n \div b \in Int /\ n % b \in 0 .. b - 1 /\ n = b * (n \div b) + (n % b)
OBVIOUS

LEMMA DivUnique ==
  ASSUME NEW b \in Nat \ {0}, NEW q \in Int, NEW r \in 0 .. b - 1
  PROVE  (b * q + r) \div b = q /\ (b * q + r) % b = r
OBVIOUS

LEMMA DivBelow ==
  ASSUME NEW b \in Nat \ {0}, NEW c \in Nat, NEW n \in Nat, n < b * c
  PROVE  n \div b \in Nat /\ n \div b < c
OBVIOUS

\* Two digits below b make a number below b * b, and come back out of it.
LEMMA TwoDigits ==
  ASSUME NEW b \in Nat \ {0}, NEW x \in 0 .. b - 1, NEW y \in 0 .. b - 1
  PROVE  /\ x * b + y \in 0 .. b * b - 1
         /\ ((x * b + y) \div b) % b = x /\ (x * b + y) % b = y
<1>1. x * b + y = b * x + y
  OBVIOUS
<1>2. (x * b + y) \div b = x /\ (x * b + y) % b = y
  BY <1>1, DivUnique
<1>3. x % b = x
  OBVIOUS
<1>4. x * b <= (b - 1) * b
  OBVIOUS
<1>5. (b - 1) * b = b * b - b
  OBVIOUS
<1>6. x * b \in Nat
  OBVIOUS
<1>7. QED
  BY <1>2, <1>3, <1>4, <1>5, <1>6

LEMMA DigitsBack ==
  ASSUME NEW b \in Nat \ {0}, NEW n \in 0 .. b * b - 1
  PROVE  /\ (n \div b) % b \in 0 .. b - 1 /\ n % b \in 0 .. b - 1
         /\ ((n \div b) % b) * b + (n % b) = n
<1>1. n \div b \in 0 .. b - 1
  BY DivBelow
<1>2. (n \div b) % b = n \div b
  BY <1>1
<1>3. n % b \in 0 .. b - 1 /\ n = b * (n \div b) + (n % b)
  BY DivMod
<1>4. QED
  BY <1>1, <1>2, <1>3

\* w, x, y and z are the digits of n: low word first, high byte first.
Digits(b, c, n, w, x, y, z) ==
  /\ w \in 0 .. b - 1 /\ x \in 0 .. b - 1 /\ y \in 0 .. b - 1 /\ z \in 0 .. b - 1
  /\ (y * b + z) * c + (w * b + x) = n

LEMMA FourDigits ==
  ASSUME NEW b \in Nat \ {0}, NEW c \in Nat \ {0}, c = b * b, NEW n \in 0 .. c * c - 1
  PROVE  Digits(b, c, n, (n \div b) % b, n % b, ((n \div c) \div b) % b, (n \div c) % b)
<1> DEFINE w == (n \div b) % b
           x == n % b
           y == ((n \div c) \div b) % b
           z == (n \div c) % b
<1> DEFINE h == n \div c
           l == n % c
           q == l \div b
           r == l % b
<1>1. h \in 0 .. c - 1 /\ l \in 0 .. c - 1 /\ n = c * h + l
  <2>1. n \in Nat /\ n \in Int
    OBVIOUS
  <2>2. h \in Nat /\ h < c
    BY <2>1, DivBelow
  <2>3. h \in Int /\ l \in 0 .. c - 1 /\ n = c * h + l
    BY <2>1, DivMod, Zenon
  <2> HIDE DEF h, l
  <2>4. QED
    BY <2>2, <2>3
<1> HIDE DEF h, l
<1>2. q \in Int /\ r \in 0 .. b - 1 /\ l = b * q + r
  BY <1>1, DivMod
<1> HIDE DEF q, r
<1>3. n = b * (b * h + q) + r
  <2>1. c * h = b * (b * h)
    BY <1>1
  <2>2. b * (b * h) + b * q = b * (b * h + q)
    BY <1>1, <1>2
  <2>3. QED
    BY <1>1, <1>2, <2>1, <2>2
<1>4. b * h + q \in Int
  BY <1>1, <1>2
<1>5. n \div b = b * h + q /\ x = r
  BY <1>2, <1>3, <1>4, DivUnique
<1>6. q \div b \in Int /\ q % b \in 0 .. b - 1 /\ q = b * (q \div b) + (q % b)
  BY <1>2, DivMod
<1>7. b * h + q = b * (h + q \div b) + (q % b) /\ h + q \div b \in Int
  <2>1. \A g, p \in Int : q = b * g + p => b * h + q = b * (h + g) + p /\ h + g \in Int
    BY <1>1
  <2>2. q % b \in Int
    BY <1>6
  <2>3. QED
    BY <1>6, <2>1, <2>2, Zenon
<1>8. w = q % b
  <2>1. (b * (h + q \div b) + (q % b)) % b = q % b
    BY <1>6, <1>7, DivUnique
  <2>2. QED
    BY <1>5, <1>7, <2>1
<1>9. w \in 0 .. b - 1 /\ x \in 0 .. b - 1 /\ w * b + x = l
  <2>1. l \in 0 .. b * b - 1
    BY <1>1
  <2>2. (l \div b) % b \in 0 .. b - 1 /\ l % b \in 0 .. b - 1
          /\ ((l \div b) % b) * b + (l % b) = l
    BY <2>1, DigitsBack
  <2>3. w = (l \div b) % b /\ x = l % b
    BY <1>5, <1>8 DEF q, r
  <2>4. QED
    BY <2>2, <2>3
<1>10. y \in 0 .. b - 1 /\ z \in 0 .. b - 1 /\ y * b + z = h
  BY <1>1, DigitsBack DEF h
<1> HIDE DEF w, x, y, z
<1>11. Digits(b, c, n, w, x, y, z)
  BY <1>1, <1>9, <1>10 DEF Digits
<1>12. QED
  BY <1>11 DEF w, x, y, z

LEMMA Weight ==
  /\ Byte \in Nat \ {0} /\ Word \in Nat \ {0} /\ Long \in Nat \ {0}
  /\ 2 * Word = (2 * Byte) * (2 * Byte) /\ 2 * Long = (2 * Word) * (2 * Word)
  /\ Byte < Word /\ Word < Long
<1>1. Byte \in Nat \ {0}
  BY AluAssumption
<1>2. \A n \in Nat \ {0} : 2 * n * n \in Nat \ {0} /\ n < 2 * n * n
  <2>1. SUFFICES ASSUME NEW n \in Nat \ {0} PROVE 2 * n * n \in Nat \ {0} /\ n < 2 * n * n
    OBVIOUS
  <2>2. n * n >= n
    OBVIOUS
  <2>3. 2 * n * n = 2 * (n * n) /\ n * n \in Nat
    OBVIOUS
  <2>4. QED
    BY <2>2, <2>3
<1>3. Word \in Nat \ {0} /\ Byte < Word
  BY <1>1, <1>2 DEF Word
<1>4. Long \in Nat \ {0} /\ Word < Long
  BY <1>2, <1>3 DEF Long
<1>5. \A n \in Nat : 2 * (2 * n * n) = (2 * n) * (2 * n)
  OBVIOUS
<1>6. 2 * Word = (2 * Byte) * (2 * Byte) /\ 2 * Long = (2 * Word) * (2 * Word)
  BY <1>1, <1>3, <1>5 DEF Word, Long
<1>7. QED
  BY <1>1, <1>3, <1>4, <1>6

Memory == [1 .. 4 -> 0 .. 2 * Byte - 1]

LEMMA Sizes ==
  ASSUME NEW sz \in 0 .. 2
  PROVE  /\ Width(sz) \in Nat \ {0} /\ Width(sz) <= Long
         /\ (sz = 0 /\ Width(sz) = Byte) \/ (sz = 1 /\ Width(sz) = Word)
              \/ (sz = 2 /\ Width(sz) = Long)
BY Weight DEF Width

LEMMA PutLongIs ==
  ASSUME NEW b \in Nat \ {0}, NEW n \in Int
  PROVE  PutLong(b, n) = <<(n \div b) % b, n % b, ((n \div (b * b)) \div b) % b,
                           (n \div (b * b)) % b>>
BY DEF PutLong, PutWord

\* What Store lays down, byte by byte.
LEMMA LaidByte ==
  ASSUME NEW m, NEW n
  PROVE  /\ Store(m, 0, n) = [k \in 1 .. 4 |-> Store(m, 0, n)[k]]
         /\ Store(m, 0, n)[1] = n
         /\ Store(m, 0, n)[2] = m[2] /\ Store(m, 0, n)[3] = m[3] /\ Store(m, 0, n)[4] = m[4]
<1>1. Store(m, 0, n) = [k \in 1 .. 4 |-> IF k <= 1 THEN <<n>>[k] ELSE m[k]]
  BY DEF Store
<1>2. QED
  BY <1>1

LEMMA LaidWord ==
  ASSUME NEW m, NEW n \in Int
  PROVE  /\ Store(m, 1, n) = [k \in 1 .. 4 |-> Store(m, 1, n)[k]]
         /\ Store(m, 1, n)[1] = (n \div (2 * Byte)) % (2 * Byte)
         /\ Store(m, 1, n)[2] = n % (2 * Byte)
         /\ Store(m, 1, n)[3] = m[3] /\ Store(m, 1, n)[4] = m[4]
<1> DEFINE new == <<(n \div (2 * Byte)) % (2 * Byte), n % (2 * Byte)>>
<1>1. Store(m, 1, n) = [k \in 1 .. 4 |-> IF k <= 2 THEN new[k] ELSE m[k]]
  BY DEF Store, PutWord
<1>2. new[1] = (n \div (2 * Byte)) % (2 * Byte) /\ new[2] = n % (2 * Byte)
  OBVIOUS
<1> HIDE DEF new
<1>3. QED
  BY <1>1, <1>2

LEMMA LaidLong ==
  ASSUME NEW m, NEW n \in Int
  PROVE  /\ Store(m, 2, n) = [k \in 1 .. 4 |-> Store(m, 2, n)[k]]
         /\ Store(m, 2, n)[1] = (n \div (2 * Byte)) % (2 * Byte)
         /\ Store(m, 2, n)[2] = n % (2 * Byte)
         /\ Store(m, 2, n)[3] = ((n \div (2 * Word)) \div (2 * Byte)) % (2 * Byte)
         /\ Store(m, 2, n)[4] = (n \div (2 * Word)) % (2 * Byte)
<1> DEFINE new == <<(n \div (2 * Byte)) % (2 * Byte), n % (2 * Byte),
                    ((n \div (2 * Word)) \div (2 * Byte)) % (2 * Byte),
                    (n \div (2 * Word)) % (2 * Byte)>>
<1>1. 2 * Byte \in Nat \ {0} /\ 2 * Word = (2 * Byte) * (2 * Byte)
  BY Weight
<1>2. PutLong(2 * Byte, n) = new
  BY <1>1, PutLongIs, Zenon
<1>3. Len(new) = 4 /\ new[1] = (n \div (2 * Byte)) % (2 * Byte) /\ new[2] = n % (2 * Byte)
      /\ new[3] = ((n \div (2 * Word)) \div (2 * Byte)) % (2 * Byte)
      /\ new[4] = (n \div (2 * Word)) % (2 * Byte)
  OBVIOUS
<1> HIDE DEF new
<1>4. Store(m, 2, n) = [k \in 1 .. 4 |-> IF k <= Len(new) THEN new[k] ELSE m[k]]
  BY <1>2 DEF Store
<1>5. QED
  BY <1>3, <1>4

\* A number is read as its digits: bytes of a word, words of a long.
LEMMA LoadIs ==
  ASSUME NEW m \in Memory
  PROVE  /\ Load(m, 0) = m[1]
         /\ Load(m, 1) = m[1] * (2 * Byte) + m[2]
         /\ Load(m, 2) = (m[3] * (2 * Byte) + m[4]) * (2 * Word)
                           + (m[1] * (2 * Byte) + m[2])
<1> DEFINE B == 2 * Byte
<1>1. B \in Nat /\ B * B = 2 * Word
  BY Weight
<1>2. m[1] \in Nat /\ m[2] \in Nat /\ m[3] \in Nat /\ m[4] \in Nat
  BY Weight DEF Memory
<1>3. Load(m, 2) = m[1] * B + m[2] + (m[3] * B + m[4]) * B * B
  BY DEF Load, GetLong, GetWord
<1> HIDE DEF B
<1>4. \A h \in Nat : h * B * B = h * (B * B)
  BY <1>1
<1>5. m[3] * B + m[4] \in Nat /\ m[1] * B + m[2] \in Nat
  BY <1>1, <1>2
<1>6. (m[3] * B + m[4]) * B * B = (m[3] * B + m[4]) * (2 * Word)
  BY <1>1, <1>4, <1>5
<1>7. 2 * Word \in Nat /\ (m[3] * B + m[4]) * (2 * Word) \in Nat
  BY <1>5, Weight
<1>8. Load(m, 2) = (m[3] * B + m[4]) * (2 * Word) + (m[1] * B + m[2])
  BY <1>3, <1>5, <1>6, <1>7
<1>9. Load(m, 0) = m[1] /\ Load(m, 1) = m[1] * B + m[2]
  BY DEF Load, GetWord, B
<1>10. QED
  BY <1>8, <1>9 DEF B

LEMMA LoadInWidth ==
  ASSUME NEW m \in Memory, NEW sz \in 0 .. 2
  PROVE  Load(m, sz) \in 0 .. 2 * Width(sz) - 1
<1> DEFINE B == 2 * Byte
           low == m[1] * B + m[2]
           high == m[3] * B + m[4]
<1>1. B \in Nat \ {0} /\ B * B = 2 * Word /\ 2 * Word \in Nat \ {0}
  BY Weight
<1>2. m[1] \in 0 .. B - 1 /\ m[2] \in 0 .. B - 1 /\ m[3] \in 0 .. B - 1 /\ m[4] \in 0 .. B - 1
  BY Weight DEF Memory
<1>3. Load(m, 0) = m[1] /\ Load(m, 1) = low /\ Load(m, 2) = high * (2 * Word) + low
  BY LoadIs
<1>4. low \in 0 .. B * B - 1 /\ high \in 0 .. B * B - 1
  <2> HIDE DEF B
  <2>1. QED
    BY <1>1, <1>2, TwoDigits
<1> HIDE DEF low, high, B
<1>5. high * (2 * Word) + low \in 0 .. (2 * Word) * (2 * Word) - 1
  BY <1>1, <1>4, TwoDigits
<1>6. Load(m, 0) \in 0 .. 2 * Byte - 1 /\ Load(m, 1) \in 0 .. 2 * Word - 1
        /\ Load(m, 2) \in 0 .. 2 * Long - 1
  BY <1>1, <1>2, <1>3, <1>4, <1>5, Weight DEF B
<1>7. QED
  BY <1>6, Sizes

\* A number of the width is read back after it was stored.
LEMMA LoadStore ==
  ASSUME NEW m \in Memory, NEW sz \in 0 .. 2, NEW n \in 0 .. 2 * Width(sz) - 1
  PROVE  Store(m, sz, n) \in Memory /\ Load(Store(m, sz, n), sz) = n
<1> DEFINE B == 2 * Byte
           W == 2 * Word
<1>1. B \in Nat \ {0} /\ W \in Nat \ {0} /\ W = B * B /\ W * W = 2 * Long
  BY Weight
<1>2. n \in Nat /\ n \in Int
  BY Sizes
<1>3. m[1] \in 0 .. B - 1 /\ m[2] \in 0 .. B - 1 /\ m[3] \in 0 .. B - 1 /\ m[4] \in 0 .. B - 1
  BY DEF Memory
<1>4. ASSUME NEW t, t = [k \in 1 .. 4 |-> t[k]],
             t[1] \in 0 .. B - 1, t[2] \in 0 .. B - 1, t[3] \in 0 .. B - 1, t[4] \in 0 .. B - 1
      PROVE  t \in Memory
  <2>1. \A k \in 1 .. 4 : t[k] \in 0 .. B - 1
    BY <1>4
  <2>2. QED
    BY <1>4, <2>1 DEF Memory
<1>5. CASE sz = 0
  <2>1. PICK t : t = Store(m, 0, n)
    OBVIOUS
  <2>2. t = [k \in 1 .. 4 |-> t[k]] /\ t[1] = n /\ t[2] = m[2] /\ t[3] = m[3] /\ t[4] = m[4]
    BY <2>1, LaidByte
  <2>3. n \in 0 .. B - 1
    BY <1>5 DEF Width
  <2>4. t \in Memory
    BY <1>3, <1>4, <2>2, <2>3
  <2>5. Load(t, 0) = t[1]
    BY <2>4, LoadIs
  <2>6. QED
    BY <1>5, <2>1, <2>2, <2>4, <2>5
<1>6. CASE sz = 1
  <2>1. PICK t : t = Store(m, 1, n)
    OBVIOUS
  <2>2. t = [k \in 1 .. 4 |-> t[k]] /\ t[1] = (n \div B) % B /\ t[2] = n % B
          /\ t[3] = m[3] /\ t[4] = m[4]
    BY <1>2, <2>1, LaidWord, Zenon
  <2>3. n \in 0 .. B * B - 1
    BY <1>1, <1>6 DEF Width
  <2> HIDE DEF B, W
  <2>4. t[1] \in 0 .. B - 1 /\ t[2] \in 0 .. B - 1 /\ t[1] * B + t[2] = n
    BY <1>1, <2>2, <2>3, DigitsBack
  <2>5. t \in Memory
    BY <1>3, <1>4, <2>2, <2>4
  <2>6. Load(t, 1) = t[1] * B + t[2]
    BY <2>5, LoadIs DEF B
  <2>7. QED
    BY <1>6, <2>1, <2>4, <2>5, <2>6
<1>7. CASE sz = 2
  <2>1. PICK t : t = Store(m, 2, n)
    OBVIOUS
  <2>2. t = [k \in 1 .. 4 |-> t[k]] /\ t[1] = (n \div B) % B /\ t[2] = n % B
          /\ t[3] = ((n \div W) \div B) % B /\ t[4] = (n \div W) % B
    <3>1. /\ Store(m, 2, n) = [k \in 1 .. 4 |-> Store(m, 2, n)[k]]
          /\ Store(m, 2, n)[1] = (n \div B) % B /\ Store(m, 2, n)[2] = n % B
          /\ Store(m, 2, n)[3] = ((n \div W) \div B) % B /\ Store(m, 2, n)[4] = (n \div W) % B
      BY <1>2, LaidLong
    <3>2. QED
      BY <2>1, <3>1, Zenon
  <2>3. n \in 0 .. W * W - 1
    BY <1>1, <1>7 DEF Width
  <2> HIDE DEF B, W
  <2>4. /\ t[1] \in 0 .. B - 1 /\ t[2] \in 0 .. B - 1 /\ t[3] \in 0 .. B - 1 /\ t[4] \in 0 .. B - 1
        /\ (t[3] * B + t[4]) * W + (t[1] * B + t[2]) = n
    <3>1. Digits(B, W, n, (n \div B) % B, n % B, ((n \div W) \div B) % B, (n \div W) % B)
      BY <1>1, <2>3, FourDigits, Zenon
    <3>2. Digits(B, W, n, t[1], t[2], t[3], t[4])
      BY <2>2, <3>1, Zenon
    <3>3. QED
      BY <3>2 DEF Digits
  <2>5. t \in Memory
    BY <1>4, <2>2, <2>4
  <2>6. Load(t, 2) = (t[3] * B + t[4]) * W + (t[1] * B + t[2])
    BY <2>5, LoadIs DEF B, W
  <2>7. QED
    BY <1>7, <2>1, <2>4, <2>5, <2>6
<1>8. QED
  BY <1>5, <1>6, <1>7

LEMMA SameDigits ==
  ASSUME NEW b \in Nat \ {0}, NEW x \in 0 .. b - 1, NEW y \in 0 .. b - 1,
         NEW v \in 0 .. b - 1, NEW w \in 0 .. b - 1, x * b + y = v * b + w
  PROVE  x = v /\ y = w
<1>1. ((x * b + y) \div b) % b = x /\ (x * b + y) % b = y
  BY TwoDigits
<1>2. ((v * b + w) \div b) % b = v /\ (v * b + w) % b = w
  BY TwoDigits
<1>3. QED
  BY <1>1, <1>2

\* What is read as the same number is the same bytes.
LEMMA LoadInjective ==
  ASSUME NEW m \in Memory, NEW t \in Memory, NEW sz \in 0 .. 2, Load(m, sz) = Load(t, sz)
  PROVE  /\ m[1] = t[1]
         /\ sz > 0 => m[2] = t[2]
         /\ sz = 2 => m[3] = t[3] /\ m[4] = t[4]
<1> DEFINE B == 2 * Byte
           W == 2 * Word
           l(x) == x[1] * B + x[2]
           h(x) == x[3] * B + x[4]
<1>1. B \in Nat \ {0} /\ B * B = W /\ W \in Nat \ {0}
  BY Weight
<1>2. \A x \in {m, t} : /\ x[1] \in 0 .. B - 1 /\ x[2] \in 0 .. B - 1
                        /\ x[3] \in 0 .. B - 1 /\ x[4] \in 0 .. B - 1
  BY Weight DEF Memory
<1>3. \A x \in {m, t} : Load(x, 0) = x[1] /\ Load(x, 1) = l(x) /\ Load(x, 2) = h(x) * W + l(x)
  BY LoadIs
<1> HIDE DEF B, W
<1>3a. \A x, y, v, w \in 0 .. B - 1 : x * B + y = v * B + w => x = v /\ y = w
  BY <1>1, SameDigits
<1>4. ASSUME l(m) = l(t) PROVE m[1] = t[1] /\ m[2] = t[2]
  BY <1>2, <1>3a, <1>4
<1>5. ASSUME h(m) = h(t) PROVE m[3] = t[3] /\ m[4] = t[4]
  BY <1>2, <1>3a, <1>5
<1>6. \A x \in {m, t} : l(x) \in 0 .. W - 1 /\ h(x) \in 0 .. W - 1
  BY <1>1, <1>2, TwoDigits
<1> HIDE DEF l, h
<1>7. CASE sz = 0
  BY <1>3, <1>7
<1>8. CASE sz = 1
  BY <1>3, <1>4, <1>8
<1>9. CASE sz = 2
  <2>1. h(m) * W + l(m) = h(t) * W + l(t)
    BY <1>3, <1>9
  <2>2. h(m) = h(t) /\ l(m) = l(t)
    BY <1>1, <1>6, <2>1, SameDigits
  <2>3. QED
    BY <1>4, <1>5, <2>2
<1>10. QED
  BY <1>7, <1>8, <1>9

\* Storing back what was read undoes a store.
LEMMA StoreBack ==
  ASSUME NEW m \in Memory, NEW sz \in 0 .. 2, NEW n \in 0 .. 2 * Width(sz) - 1
  PROVE  Store(Store(m, sz, n), sz, Load(m, sz)) = m
<1> DEFINE t == Store(m, sz, n)
           u == Store(t, sz, Load(m, sz))
<1>1. Load(m, sz) \in 0 .. 2 * Width(sz) - 1
  BY LoadInWidth
<1>2. t \in Memory
  BY LoadStore
<1> HIDE DEF t
<1>3. u \in Memory /\ Load(u, sz) = Load(m, sz)
  BY <1>1, <1>2, LoadStore
<1>4. n \in Int /\ Load(m, sz) \in Int
  BY <1>1, Sizes
<1>5. CASE sz = 0
  <2>1. u[2] = t[2] /\ u[3] = t[3] /\ u[4] = t[4]
    BY <1>5, LaidByte
  <2>2. t[2] = m[2] /\ t[3] = m[3] /\ t[4] = m[4]
    BY <1>5, LaidByte DEF t
  <2> HIDE DEF u
  <2>3. u[1] = m[1]
    BY <1>3, LoadInjective
  <2>4. \A k \in 1 .. 4 : u[k] = m[k]
    BY <2>1, <2>2, <2>3
  <2>5. u = m
    BY <1>3, <2>4 DEF Memory
  <2>6. QED
    BY <2>5 DEF u, t
<1>6. CASE sz = 1
  <2>1. u[3] = t[3] /\ u[4] = t[4]
    BY <1>4, <1>6, LaidWord
  <2>2. t[3] = m[3] /\ t[4] = m[4]
    BY <1>4, <1>6, LaidWord DEF t
  <2> HIDE DEF u
  <2>3. u[1] = m[1] /\ u[2] = m[2]
    BY <1>3, <1>6, LoadInjective
  <2>4. \A k \in 1 .. 4 : u[k] = m[k]
    BY <2>1, <2>2, <2>3
  <2>5. u = m
    BY <1>3, <2>4 DEF Memory
  <2>6. QED
    BY <2>5 DEF u, t
<1>7. CASE sz = 2
  <2> HIDE DEF u
  <2>1. u[1] = m[1] /\ u[2] = m[2] /\ u[3] = m[3] /\ u[4] = m[4]
    BY <1>3, <1>7, LoadInjective
  <2>2. \A k \in 1 .. 4 : u[k] = m[k]
    BY <2>1
  <2>3. u = m
    BY <1>3, <2>2 DEF Memory
  <2>4. QED
    BY <2>3 DEF u, t
<1>8. QED
  BY <1>5, <1>6, <1>7

-----------------------------------------------------------------------------
(* States, flags and writes *)

Bits == {"Z", "C", "V", "N"}
States ==
  [d : [Regs -> Nat], mem : Memory, writable : BOOLEAN, ccr : SUBSET Bits, fault : BOOLEAN]
Places == [ea : {"reg", "mem", "imm"}, r : Regs, sz : 0 .. 2]

\* t is s but for the flags.
Alike(s, t) ==
  t.d = s.d /\ t.mem = s.mem /\ t.writable = s.writable /\ t.fault = s.fault

\* Where the number x goes when it is written to dst.
Wrote(s, t, dst, x) ==
  /\ t.writable = s.writable
  /\ dst.ea = "reg" =>
       t.d = [s.d EXCEPT ![dst.r] = x] /\ t.mem = s.mem /\ t.fault = s.fault
  /\ dst.ea = "mem" /\ s.writable =>
       t.d = s.d /\ t.mem = Store(s.mem, dst.sz, x) /\ t.fault = s.fault
  /\ dst.ea = "imm" \/ (dst.ea = "mem" /\ ~s.writable) =>
       t.d = s.d /\ t.mem = s.mem /\ t.fault = TRUE

DstWidth(dst) == IF dst.ea = "reg" THEN Long ELSE Width(dst.sz)

\* t is s with flag f set or cleared.
Flagged(s, t, f, on) ==
  /\ t \in States /\ Alike(s, t)
  /\ f \in t.ccr <=> on
  /\ \A g \in Bits \ {f} : g \in t.ccr <=> g \in s.ccr

LEMMA FlagIs ==
  ASSUME NEW s \in States, NEW f \in Bits, NEW on \in BOOLEAN
  PROVE  Flagged(s, Flag(s, f, on), f, on)
BY DEF Flag, States, Alike, Flagged

\* utest and stest set the flags and nothing else.
Tested(s, t, v, c) ==
  /\ t \in States /\ Alike(s, t)
  /\ "V" \in t.ccr <=> v
  /\ "C" \in t.ccr <=> c

LEMMA FlagsAre ==
  ASSUME NEW s \in States, NEW z \in BOOLEAN, NEW n \in BOOLEAN, NEW v \in BOOLEAN,
         NEW c \in BOOLEAN
  PROVE  Tested(s, Flags(s, z, n, v, c), v, c)
<1>0. "Z" \in Bits /\ "N" \in Bits /\ "V" \in Bits /\ "C" \in Bits
  BY DEF Bits
<1>1. PICK t : t = Flag(s, "Z", z)
  OBVIOUS
<1>2. PICK u : u = Flag(t, "N", n)
  OBVIOUS
<1>3. PICK w : w = Flag(u, "V", v)
  OBVIOUS
<1>4. PICK x : x = Flag(w, "C", c)
  OBVIOUS
<1>5. t \in States /\ Alike(s, t)
  BY <1>0, <1>1, FlagIs, Zenon DEF Flagged
<1>6. u \in States /\ Alike(t, u)
  BY <1>0, <1>2, <1>5, FlagIs, Zenon DEF Flagged
<1>7. w \in States /\ Alike(u, w) /\ ("V" \in w.ccr <=> v)
  BY <1>0, <1>3, <1>6, FlagIs, Zenon DEF Flagged
<1>8. x \in States /\ Alike(w, x) /\ ("C" \in x.ccr <=> c)
  BY <1>0, <1>4, <1>7, FlagIs, Zenon DEF Flagged
<1>8a. "V" \in x.ccr <=> "V" \in w.ccr
  <2>1. Flagged(w, x, "C", c)
    BY <1>0, <1>4, <1>7, FlagIs, Zenon
  <2>2. "V" \in Bits \ {"C"}
    BY DEF Bits
  <2>3. QED
    BY <2>1, <2>2, Zenon DEF Flagged
<1>9. x = Flags(s, z, n, v, c)
  BY <1>1, <1>2, <1>3, <1>4, Zenon DEF Flags
<1>10. Alike(s, x)
  BY <1>5, <1>6, <1>7, <1>8, Zenon DEF Alike
<1>11. Tested(s, x, v, c)
  BY <1>7, <1>8, <1>8a, <1>10, Zenon DEF Tested
<1>12. QED
  BY <1>9, <1>11, Zenon

LEMMA TestsAre ==
  ASSUME NEW s \in States, NEW w \in Nat \ {0}, NEW n \in Int
  PROVE  /\ Tested(s, UTest(s, w, n), n = w, Carry(w, n))
         /\ Tested(s, STest(s, w, n), Overflow(w, n), Carry(w, n))
<1>1. Bit(w, n) \in BOOLEAN /\ (n = 0) \in BOOLEAN /\ (n = w) \in BOOLEAN /\ (n < 0) \in BOOLEAN
        /\ Carry(w, n) \in BOOLEAN /\ Overflow(w, n) \in BOOLEAN
  BY DEF Bit, Carry, Overflow
<1>2. Tested(s, Flags(s, n = 0, Bit(w, n), n = w, Carry(w, n)), n = w, Carry(w, n))
  BY <1>1, FlagsAre, Zenon
<1>3. Tested(s, Flags(s, n = 0, n < 0, Overflow(w, n), Carry(w, n)), Overflow(w, n), Carry(w, n))
  BY <1>1, FlagsAre, Zenon
<1>4. QED
  BY <1>2, <1>3, Zenon DEF UTest, STest

LEMMA DataWritten ==
  ASSUME NEW s \in States, NEW r \in Regs, NEW x \in Nat
  PROVE  /\ [s EXCEPT !.d[r] = x] \in States
         /\ [s EXCEPT !.d[r] = x].d = [s.d EXCEPT ![r] = x]
         /\ [s EXCEPT !.d[r] = x].mem = s.mem
         /\ [s EXCEPT !.d[r] = x].writable = s.writable
         /\ [s EXCEPT !.d[r] = x].ccr = s.ccr
         /\ [s EXCEPT !.d[r] = x].fault = s.fault
BY DEF States

LEMMA MemoryWritten ==
  ASSUME NEW s \in States, NEW m \in Memory
  PROVE  /\ [s EXCEPT !.mem = m] \in States
         /\ [s EXCEPT !.mem = m].d = s.d
         /\ [s EXCEPT !.mem = m].mem = m
         /\ [s EXCEPT !.mem = m].writable = s.writable
         /\ [s EXCEPT !.mem = m].ccr = s.ccr
         /\ [s EXCEPT !.mem = m].fault = s.fault
BY DEF States

LEMMA Faulted ==
  ASSUME NEW s \in States
  PROVE  Fault(s) \in States /\ Fault(s).d = s.d /\ Fault(s).mem = s.mem
           /\ Fault(s).writable = s.writable /\ Fault(s).ccr = s.ccr /\ Fault(s).fault = TRUE
BY DEF States, Fault

\* t is s after x was written to dst, v and c being the flags of the result.
Stored(s, t, dst, x, v, c) ==
  /\ t \in States /\ Wrote(s, t, dst, x)
  /\ dst.ea # "imm" => ("V" \in t.ccr <=> v) /\ ("C" \in t.ccr <=> c)

\* u is t with x in register r, or in memory if that can be written.
InRegister(u, t, r, x) == u = [t EXCEPT !.d[r] = x]
InMemory(u, t, sz, x) ==
  u = IF ~t.writable THEN Fault(t) ELSE [t EXCEPT !.mem = Store(@, sz, x)]

LEMMA StoredInRegister ==
  ASSUME NEW s \in States, NEW t, NEW u, NEW dst \in Places, dst.ea = "reg", NEW x \in Nat,
         NEW v \in BOOLEAN, NEW c \in BOOLEAN, Tested(s, t, v, c), InRegister(u, t, dst.r, x)
  PROVE  Stored(s, u, dst, x, v, c)
<1>1. t \in States /\ t.d = s.d /\ t.mem = s.mem /\ t.writable = s.writable /\ t.fault = s.fault
        /\ ("V" \in t.ccr <=> v) /\ ("C" \in t.ccr <=> c)
  BY Zenon DEF Tested, Alike
<1>2. dst.r \in Regs
  BY DEF Places
<1>3. u = [t EXCEPT !.d[dst.r] = x]
  BY DEF InRegister
<1>4. u \in States /\ u.d = [t.d EXCEPT ![dst.r] = x] /\ u.mem = t.mem
        /\ u.writable = t.writable /\ u.ccr = t.ccr /\ u.fault = t.fault
  BY <1>1, <1>2, <1>3, DataWritten
<1>5. dst.ea # "mem" /\ dst.ea # "imm"
  OBVIOUS
<1>6. Wrote(s, u, dst, x)
  BY <1>1, <1>4, <1>5, Zenon DEF Wrote
<1>7. QED
  BY <1>1, <1>4, <1>6, Zenon DEF Stored

LEMMA StoredInMemory ==
  ASSUME NEW s \in States, NEW t, NEW u, NEW dst \in Places, dst.ea = "mem",
         NEW x \in 0 .. 2 * Width(dst.sz) - 1, NEW v \in BOOLEAN, NEW c \in BOOLEAN,
         Tested(s, t, v, c), InMemory(u, t, dst.sz, x)
  PROVE  Stored(s, u, dst, x, v, c)
<1>1. t \in States /\ t.d = s.d /\ t.mem = s.mem /\ t.writable = s.writable /\ t.fault = s.fault
        /\ ("V" \in t.ccr <=> v) /\ ("C" \in t.ccr <=> c)
  BY Zenon DEF Tested, Alike
<1>2. dst.ea # "reg" /\ dst.ea # "imm"
  OBVIOUS
<1>3. CASE s.writable
  <2>1. u = [t EXCEPT !.mem = Store(@, dst.sz, x)]
    BY <1>1, <1>3 DEF InMemory
  <2>2. s.mem \in Memory /\ dst.sz \in 0 .. 2
    BY DEF States, Places
  <2>3. Store(s.mem, dst.sz, x) \in Memory
    BY <2>2, LoadStore
  <2>4. u = [t EXCEPT !.mem = Store(s.mem, dst.sz, x)]
    BY <1>1, <2>1
  <2>5. u \in States /\ u.d = t.d /\ u.mem = Store(s.mem, dst.sz, x)
          /\ u.writable = t.writable /\ u.ccr = t.ccr /\ u.fault = t.fault
    BY <1>1, <2>3, <2>4, MemoryWritten
  <2>6. Wrote(s, u, dst, x)
    BY <1>1, <1>2, <1>3, <2>5, Zenon DEF Wrote
  <2>7. QED
    BY <1>1, <2>5, <2>6, Zenon DEF Stored
<1>4. CASE ~s.writable
  <2>1. u = Fault(t)
    BY <1>1, <1>4 DEF InMemory
  <2>2. u \in States /\ u.d = t.d /\ u.mem = t.mem
          /\ u.writable = t.writable /\ u.ccr = t.ccr /\ u.fault = TRUE
    BY <1>1, <2>1, Faulted
  <2>3. Wrote(s, u, dst, x)
    BY <1>1, <1>2, <1>4, <2>2, Zenon DEF Wrote
  <2>4. QED
    BY <1>1, <2>2, <2>3, Zenon DEF Stored
<1>5. QED
  BY <1>3, <1>4

LEMMA StoredNowhere ==
  ASSUME NEW s \in States, NEW dst \in Places, dst.ea = "imm", NEW x, NEW v, NEW c
  PROVE  Stored(s, Fault(s), dst, x, v, c)
<1>1. dst.ea # "reg" /\ dst.ea # "mem"
  OBVIOUS
<1>2. QED
  BY <1>1, Faulted, Zenon DEF Stored, Wrote

\* What ea_uwrite and ea_swrite store of n.
UStores(dst, n) == Unsigned(DstWidth(dst), n)
SStores(dst, n) ==
  IF dst.ea = "reg" THEN Signed(Long, n)
  ELSE Unsigned(Width(dst.sz), Signed(Width(dst.sz), n))

LEMMA ConversionsAre ==
  ASSUME NEW w \in Nat \ {0}, NEW n \in Int
  PROVE  Unsigned(w, n) \in 0 .. 2 * w - 1 /\ Signed(w, n) \in Nat
<1>1. 2 * w \in Nat \ {0}
  OBVIOUS
<1>2. n % (2 * w) \in 0 .. 2 * w - 1
  BY <1>1, DivMod
<1>3. QED
  BY <1>2 DEF Unsigned, Signed, SetBit

LEMMA UWriteIs ==
  ASSUME NEW s \in States, NEW dst \in Places, NEW n \in Int
  PROVE  Stored(s, UWrite(s, dst, n), dst, UStores(dst, n),
                n = DstWidth(dst), Carry(DstWidth(dst), n))
<1>1. dst.sz \in 0 .. 2 /\ (dst.ea = "reg" \/ dst.ea = "mem" \/ dst.ea = "imm")
  BY DEF Places
<1>2. Width(dst.sz) \in Nat \ {0} /\ Long \in Nat \ {0}
  BY <1>1, Sizes, Weight
<1>3. \A w \in Nat \ {0} : (n = w) \in BOOLEAN /\ Carry(w, n) \in BOOLEAN
  BY DEF Carry
<1>4. CASE dst.ea = "reg"
  <2>1. DstWidth(dst) = Long
    BY <1>4 DEF DstWidth
  <2>2. InRegister(UWrite(s, dst, n), UTest(s, Long, n), dst.r, Unsigned(Long, n))
    BY <1>4 DEF UWrite, InRegister
  <2>3. Tested(s, UTest(s, Long, n), n = Long, Carry(Long, n))
    BY <1>2, TestsAre
  <2>4. Unsigned(Long, n) \in Nat
    BY <1>2, ConversionsAre
  <2>5. (n = Long) \in BOOLEAN /\ Carry(Long, n) \in BOOLEAN
    BY <1>2, <1>3
  <2>6. Stored(s, UWrite(s, dst, n), dst, Unsigned(Long, n), n = Long, Carry(Long, n))
    BY <1>4, <2>2, <2>3, <2>4, <2>5, StoredInRegister, Zenon
  <2>7. QED
    BY <2>1, <2>6, Zenon DEF UStores
<1>5. CASE dst.ea = "mem"
  <2> DEFINE w == DstWidth(dst)
             t == UTest(s, w, n)
  <2>1. w = Width(dst.sz) /\ w \in Nat \ {0}
    BY <1>2, <1>5 DEF DstWidth
  <2>1a. UWrite(s, dst, n) = IF ~s.writable THEN Fault(t)
                             ELSE [t EXCEPT !.mem = Store(@, dst.sz, Unsigned(w, n))]
    BY <1>5, <2>1 DEF UWrite
  <2> HIDE DEF w
  <2>3. Tested(s, t, n = w, Carry(w, n))
    BY <2>1, TestsAre
  <2>3a. t.writable = s.writable
    BY <2>3, Zenon DEF Tested, Alike
  <2>2. InMemory(UWrite(s, dst, n), t, dst.sz, Unsigned(w, n))
    BY <2>1a, <2>3a DEF InMemory
  <2>4. Unsigned(w, n) \in 0 .. 2 * Width(dst.sz) - 1
    BY <2>1, ConversionsAre
  <2>5. (n = w) \in BOOLEAN /\ Carry(w, n) \in BOOLEAN
    BY <1>3, <2>1
  <2> HIDE DEF t
  <2>6. Stored(s, UWrite(s, dst, n), dst, Unsigned(w, n), n = w, Carry(w, n))
    BY <1>5, <2>2, <2>3, <2>4, <2>5, StoredInMemory, Zenon
  <2>7. QED
    BY <2>6 DEF UStores, w
<1>6. CASE dst.ea = "imm"
  <2>1. UWrite(s, dst, n) = Fault(s)
    BY <1>6 DEF UWrite
  <2>2. QED
    BY <1>6, <2>1, StoredNowhere, Zenon
<1>7. QED
  BY <1>1, <1>4, <1>5, <1>6

LEMMA SWriteIs ==
  ASSUME NEW s \in States, NEW dst \in Places, NEW n \in Int
  PROVE  Stored(s, SWrite(s, dst, n), dst, SStores(dst, n),
                Overflow(DstWidth(dst), n), Carry(DstWidth(dst), n))
<1>1. dst.sz \in 0 .. 2 /\ (dst.ea = "reg" \/ dst.ea = "mem" \/ dst.ea = "imm")
  BY DEF Places
<1>2. Width(dst.sz) \in Nat \ {0} /\ Long \in Nat \ {0}
  BY <1>1, Sizes, Weight
<1>3. \A w \in Nat \ {0} : Overflow(w, n) \in BOOLEAN /\ Carry(w, n) \in BOOLEAN
  BY DEF Carry, Overflow
<1>4. CASE dst.ea = "reg"
  <2>1. DstWidth(dst) = Long /\ SStores(dst, n) = Signed(Long, n)
    BY <1>4 DEF DstWidth, SStores
  <2>2. InRegister(SWrite(s, dst, n), STest(s, Long, n), dst.r, Signed(Long, n))
    BY <1>4 DEF SWrite, InRegister
  <2>3. Tested(s, STest(s, Long, n), Overflow(Long, n), Carry(Long, n))
    BY <1>2, TestsAre
  <2>4. Signed(Long, n) \in Nat
    BY <1>2, ConversionsAre
  <2>5. (Overflow(Long, n)) \in BOOLEAN /\ Carry(Long, n) \in BOOLEAN
    BY <1>2, <1>3
  <2>6. Stored(s, SWrite(s, dst, n), dst, Signed(Long, n), Overflow(Long, n), Carry(Long, n))
    BY <1>4, <2>2, <2>3, <2>4, <2>5, StoredInRegister, Zenon
  <2>7. QED
    BY <2>1, <2>6, Zenon
<1>5. CASE dst.ea = "mem"
  <2> DEFINE w == Width(dst.sz)
             t == STest(s, w, n)
             x == Unsigned(w, Signed(w, n))
  <2>1. DstWidth(dst) = w /\ SStores(dst, n) = x
    BY <1>5 DEF DstWidth, SStores
  <2>1a. SWrite(s, dst, n) = IF ~s.writable THEN Fault(t)
                             ELSE [t EXCEPT !.mem = Store(@, dst.sz, x)]
    BY <1>5 DEF SWrite
  <2>3. Tested(s, t, Overflow(w, n), Carry(w, n))
    BY <1>2, TestsAre
  <2>3a. t.writable = s.writable
    BY <2>3, Zenon DEF Tested, Alike
  <2>2. InMemory(SWrite(s, dst, n), t, dst.sz, x)
    BY <2>1a, <2>3a DEF InMemory
  <2>4. x \in 0 .. 2 * w - 1
    <3>1. w \in Nat \ {0}
      BY <1>2
    <3> HIDE DEF w
    <3>2. Signed(w, n) \in Int
      BY <3>1, ConversionsAre
    <3>3. QED
      BY <3>1, <3>2, ConversionsAre
  <2>5. (Overflow(w, n)) \in BOOLEAN /\ Carry(w, n) \in BOOLEAN
    BY <1>2, <1>3
  <2>5a. w = Width(dst.sz)
    OBVIOUS
  <2> HIDE DEF w, t, x
  <2>6. Stored(s, SWrite(s, dst, n), dst, x, Overflow(w, n), Carry(w, n))
    BY <1>5, <2>2, <2>3, <2>4, <2>5, <2>5a, StoredInMemory, Zenon
  <2>7. QED
    BY <2>1, <2>6, Zenon
<1>6. CASE dst.ea = "imm"
  <2>1. SWrite(s, dst, n) = Fault(s)
    BY <1>6 DEF SWrite
  <2>2. QED
    BY <1>6, <2>1, StoredNowhere, Zenon
<1>7. QED
  BY <1>1, <1>4, <1>5, <1>6

-----------------------------------------------------------------------------
(* What an instruction does to the state as a whole *)

\* All registers hold 36 bits.
Narrow(s) == \A r \in Regs : s.d[r] < 2 * Long

\* Where an instruction that started in s and ended in t may have left it: with
\* registers and memory as they were if it faulted.
Refused(s, t) == t.fault => t.d = s.d /\ t.mem = s.mem
Good(s, t) == t \in States /\ Refused(s, t) /\ (Narrow(s) => Narrow(t))

LEMMA AlikeNarrow ==
  ASSUME NEW s, NEW t, t.d = s.d, Narrow(s)
  PROVE  Narrow(t)
BY DEF Narrow

LEMMA StoredIsGood ==
  ASSUME NEW s \in States, ~s.fault, NEW dst \in Places, NEW t, NEW x, NEW v, NEW c,
         Stored(s, t, dst, x, v, c)
  PROVE  /\ t \in States /\ Refused(s, t)
         /\ Narrow(s) /\ (dst.ea = "reg" => x < 2 * Long) => Narrow(t)
<1>1. t \in States /\ Wrote(s, t, dst, x)
  BY Zenon DEF Stored
<1>2. dst.ea = "reg" \/ dst.ea = "mem" \/ dst.ea = "imm"
  BY DEF Places
<1>3. CASE dst.ea = "reg"
  <2>1. t.d = [s.d EXCEPT ![dst.r] = x] /\ t.fault = s.fault
    BY <1>1, <1>3, Zenon DEF Wrote
  <2>2. Refused(s, t)
    BY <2>1, Zenon DEF Refused
  <2>3. s.d \in [Regs -> Nat] /\ t.d \in [Regs -> Nat] /\ dst.r \in Regs
    BY <1>1 DEF States, Places
  <2>4. ASSUME Narrow(s), x < 2 * Long PROVE Narrow(t)
    BY <2>1, <2>3, <2>4 DEF Narrow
  <2>5. QED
    BY <1>1, <1>3, <2>2, <2>4
<1>4. CASE dst.ea = "mem" /\ s.writable
  <2>1. t.d = s.d /\ t.fault = s.fault
    BY <1>1, <1>4, Zenon DEF Wrote
  <2>2. Refused(s, t)
    BY <2>1, Zenon DEF Refused
  <2>3. QED
    BY <1>1, <2>1, <2>2, AlikeNarrow
<1>5. CASE dst.ea = "imm" \/ (dst.ea = "mem" /\ ~s.writable)
  <2>1. t.d = s.d /\ t.mem = s.mem
    BY <1>1, <1>5, Zenon DEF Wrote
  <2>2. Refused(s, t)
    BY <2>1, Zenon DEF Refused
  <2>3. QED
    BY <1>1, <2>1, <2>2, AlikeNarrow
<1>6. QED
  BY <1>2, <1>3, <1>4, <1>5, Zenon

LEMMA SignedBound ==
  ASSUME NEW w \in Nat \ {0}, NEW n \in Int, n > -(2 * w)
  PROVE  Signed(w, n) \in 0 .. 2 * w - 1
<1>1. CASE n < 0
  <2>1. -n \in 0 .. 2 * w - 1
    BY <1>1
  <2>2. Bit(w, -n) <=> -n >= w
    BY <2>1, BitInRange
  <2>3. QED
    BY <1>1, <2>1, <2>2 DEF Signed, SetBit
<1>2. CASE n >= 0
  BY <1>2 DEF Signed
<1>3. QED
  BY <1>1, <1>2

LEMMA UWriteGood ==
  ASSUME NEW s \in States, ~s.fault, NEW dst \in Places, NEW n \in Int
  PROVE  Good(s, UWrite(s, dst, n))
<1>1. Stored(s, UWrite(s, dst, n), dst, UStores(dst, n),
             n = DstWidth(dst), Carry(DstWidth(dst), n))
  BY UWriteIs
<1>2. dst.ea = "reg" => UStores(dst, n) < 2 * Long
  BY Weight, ConversionsAre DEF UStores, DstWidth
<1>3. QED
  BY <1>1, <1>2, StoredIsGood, Zenon DEF Good

LEMMA SWriteGood ==
  ASSUME NEW s \in States, ~s.fault, NEW dst \in Places, NEW n \in Int
  PROVE  /\ SWrite(s, dst, n) \in States /\ Refused(s, SWrite(s, dst, n))
         /\ n > -(2 * Long) => Good(s, SWrite(s, dst, n))
<1>1. Stored(s, SWrite(s, dst, n), dst, SStores(dst, n),
             Overflow(DstWidth(dst), n), Carry(DstWidth(dst), n))
  BY SWriteIs
<1>2. n > -(2 * Long) => (dst.ea = "reg" => SStores(dst, n) < 2 * Long)
  BY Weight, SignedBound DEF SStores
<1>3. QED
  BY <1>1, <1>2, StoredIsGood, Zenon DEF Good

\* Flags may be set before and after.
LEMMA GoodAfterAlike ==
  ASSUME NEW s, NEW u, NEW t, Alike(s, u), Good(u, t)
  PROVE  Good(s, t)
<1>1. u.d = s.d /\ u.mem = s.mem
  BY Zenon DEF Alike
<1>2. Narrow(s) => Narrow(u)
  BY <1>1, AlikeNarrow
<1>3. t \in States /\ Refused(u, t) /\ (Narrow(u) => Narrow(t))
  BY Zenon DEF Good
<1>4. Refused(s, t)
  BY <1>1, <1>3, Zenon DEF Refused
<1>5. QED
  BY <1>2, <1>3, <1>4, Zenon DEF Good

LEMMA AlikeAfterGood ==
  ASSUME NEW s, NEW u, NEW t \in States, Good(s, u), Alike(u, t)
  PROVE  Good(s, t)
<1>1. u.d = t.d /\ u.mem = t.mem /\ u.fault = t.fault
  BY Zenon DEF Alike
<1>2. Narrow(u) => Narrow(t)
  BY <1>1, AlikeNarrow
<1>3. Refused(s, u) /\ (Narrow(s) => Narrow(u))
  BY Zenon DEF Good
<1>4. Refused(s, t)
  BY <1>1, <1>3, Zenon DEF Refused
<1>5. QED
  BY <1>2, <1>3, <1>4, Zenon DEF Good

LEMMA AfterGood ==
  ASSUME NEW s, NEW t, NEW f \in Bits, NEW on \in BOOLEAN, Good(s, t)
  PROVE  Good(s, After(t, f, on))
<1>1. t \in States
  BY Zenon DEF Good
<1>2. Flag(t, f, on) \in States /\ Alike(t, Flag(t, f, on))
  BY <1>1, FlagIs, Zenon DEF Flagged
<1>3. After(t, f, on) = t \/ After(t, f, on) = Flag(t, f, on)
  BY Zenon DEF After
<1>4. Good(s, Flag(t, f, on))
  BY <1>2, AlikeAfterGood, Zenon
<1>5. QED
  BY <1>3, <1>4, Zenon

\* What CMP leaves, and CLC: flags alone.
LEMMA FlagGood ==
  ASSUME NEW s \in States, ~s.fault, NEW f \in Bits, NEW on \in BOOLEAN
  PROVE  Good(s, Flag(s, f, on)) /\ ~Flag(s, f, on).fault
<1>1. Flag(s, f, on) \in States /\ Alike(s, Flag(s, f, on))
  BY FlagIs, Zenon DEF Flagged
<1>2. Good(s, s)
  BY Zenon DEF Good, Refused
<1>3. QED
  BY <1>1, <1>2, AlikeAfterGood, Zenon DEF Alike

-----------------------------------------------------------------------------
(* The weights of the bits, and the logical operations *)

LEMMA TwoToIs ==
  ASSUME NEW k \in Nat
  PROVE  TwoTo(k) \in Nat \ {0} /\ (k = 0 => TwoTo(k) = 1)
<1> DEFINE S == 1 .. k
           E(it) == it = [s \in SUBSET S |-> IF s = {} THEN 1 ELSE 2 * it[s \ {Max(s)}]]
           G == [p \in Nat \X Nat |-> 2 * p[1]]
<1>1. S \in SUBSET Int /\ S \in SUBSET Nat /\ IsFiniteSet(S)
  BY FS_Interval
<1>0. k = 0 => S = {}
  OBVIOUS
<1> HIDE DEF S, G
<1>2. PICK it : FoldsWith(it, S, 1, G)
  BY <1>1, FoldExists
<1>3. /\ it = [s \in SUBSET S |-> it[s]]
      /\ it[{}] = 1
      /\ \A s \in SUBSET S : s # {} => it[s] = G[<<it[s \ {Max(s)}], Max(s)>>]
  BY <1>2, Zenon DEF FoldsWith
<1>4. \A s \in SUBSET S : s # {} => Max(s) \in Nat
  BY <1>1, MaxIsLargest, FS_Subset
<1>5. \A s \in SUBSET S : s # {} /\ it[s \ {Max(s)}] \in Nat => it[s] = 2 * it[s \ {Max(s)}]
  BY <1>3, <1>4 DEF G
<1> DEFINE good == {s \in SUBSET S : it[s] \in Nat}
<1>6. {} \in good
  BY <1>3
<1>7. \A s \in SUBSET S : s # {} /\ s \ {Max(s)} \in good => s \in good
  BY <1>5
<1> HIDE DEF good
<1>8. \A s \in SUBSET S : s \in good
  BY <1>1, <1>6, <1>7, FoldInduction
<1>9. E(it)
  <2>1. \A s \in SUBSET S : it[s] = IF s = {} THEN 1 ELSE 2 * it[s \ {Max(s)}]
    BY <1>3, <1>5, <1>8 DEF good
  <2>2. QED
    BY <1>3, <2>1, Zenon
<1> DEFINE chosen == CHOOSE f : E(f)
<1>10. E(chosen)
  <2> HIDE DEF E
  <2>1. QED
    BY <1>9
<1>11. TwoTo(k) = chosen[S]
  BY Zenon DEF TwoTo, MapThenFoldSet, S
<1> HIDE DEF chosen
<1>12. chosen[{}] = 1 /\ \A s \in SUBSET S : s # {} => chosen[s] = 2 * chosen[s \ {Max(s)}]
  BY <1>10
<1> DEFINE fine == {s \in SUBSET S : chosen[s] \in Nat \ {0}}
<1>13. {} \in fine
  BY <1>12
<1>14. \A s \in SUBSET S : s # {} /\ s \ {Max(s)} \in fine => s \in fine
  BY <1>12
<1> HIDE DEF fine
<1>15. \A s \in SUBSET S : s \in fine
  BY <1>1, <1>13, <1>14, FoldInduction
<1>16. chosen[S] \in Nat \ {0}
  BY <1>15 DEF fine
<1>17. k = 0 => chosen[S] = 1
  BY <1>0, <1>12
<1>18. QED
  BY <1>11, <1>16, <1>17

LEMMA OfBitsIs ==
  ASSUME NEW S \in SUBSET Nat, IsFiniteSet(S)
  PROVE  OfBits(S) \in Nat
<1> DEFINE E(it) == it = [s \in SUBSET S |-> IF s = {} THEN 0 ELSE it[s \ {Max(s)}] + Max(s)]
           G == [p \in Nat \X Nat |-> p[1] + p[2]]
<1>1. S \in SUBSET Int
  OBVIOUS
<1> HIDE DEF G
<1>2. PICK it : FoldsWith(it, S, 0, G)
  BY <1>1, FoldExists
<1>3. /\ it = [s \in SUBSET S |-> it[s]]
      /\ it[{}] = 0
      /\ \A s \in SUBSET S : s # {} => it[s] = G[<<it[s \ {Max(s)}], Max(s)>>]
  BY <1>2, Zenon DEF FoldsWith
<1>4. \A s \in SUBSET S : s # {} => Max(s) \in Nat
  BY <1>1, MaxIsLargest, FS_Subset
<1>5. \A s \in SUBSET S :
        s # {} /\ it[s \ {Max(s)}] \in Nat => it[s] = it[s \ {Max(s)}] + Max(s)
  BY <1>3, <1>4 DEF G
<1> DEFINE good == {s \in SUBSET S : it[s] \in Nat}
<1>6. {} \in good
  BY <1>3
<1>7. \A s \in SUBSET S : s # {} /\ s \ {Max(s)} \in good => s \in good
  BY <1>4, <1>5
<1> HIDE DEF good
<1>8. \A s \in SUBSET S : s \in good
  BY <1>1, <1>6, <1>7, FoldInduction
<1>9. E(it)
  <2>1. \A s \in SUBSET S : it[s] = IF s = {} THEN 0 ELSE it[s \ {Max(s)}] + Max(s)
    BY <1>3, <1>5, <1>8 DEF good
  <2>2. QED
    BY <1>3, <2>1, Zenon
<1> DEFINE chosen == CHOOSE f : E(f)
<1>10. E(chosen)
  <2> HIDE DEF E
  <2>1. QED
    BY <1>9
<1>11. OfBits(S) = chosen[S]
  BY Zenon DEF OfBits, MapThenFoldSet
<1> HIDE DEF chosen
<1>12. /\ chosen[{}] = 0
       /\ \A s \in SUBSET S : s # {} => chosen[s] = chosen[s \ {Max(s)}] + Max(s)
  BY <1>10
<1> DEFINE fine == {s \in SUBSET S : chosen[s] \in Nat}
<1>13. {} \in fine
  BY <1>12
<1>14. \A s \in SUBSET S : s # {} /\ s \ {Max(s)} \in fine => s \in fine
  BY <1>4, <1>12
<1> HIDE DEF fine
<1>15. \A s \in SUBSET S : s \in fine
  BY <1>1, <1>13, <1>14, FoldInduction
<1>16. QED
  BY <1>11, <1>15 DEF fine

LEMMA LogicalIs ==
  ASSUME NEW a \in Int, NEW b \in Int
  PROVE  And(a, b) \in Nat /\ Or(a, b) \in Nat /\ Xor(a, b) \in Nat
<1>1. MaxShift \in Nat
  BY AluAssumption
<1>2. Weights \in SUBSET Nat
  BY <1>1, TwoToIs DEF Weights
<1>3. IsFiniteSet(Weights)
  <2>1. IsFiniteSet(0 .. MaxShift)
    BY <1>1, FS_Interval
  <2> DEFINE f == [k \in 0 .. MaxShift |-> TwoTo(k)]
  <2>2. f \in Surjection(0 .. MaxShift, Weights)
    BY DEF Surjection, Weights
  <2>3. QED
    BY <2>1, <2>2, FS_Surjection
<1>4. \A S \in SUBSET Weights : OfBits(S) \in Nat
  BY <1>2, <1>3, FS_Subset, OfBitsIs
<1>5. QED
  BY <1>4, Zenon DEF And, Or, Xor

-----------------------------------------------------------------------------
(* Operands and division *)

\* o is what a place of width w holds, as sinput and uinput; and one of at most 36 bits.
IsOperand(o, w) ==
  o.u \in 0 .. 2 * w - 1 /\ o.s = Sex(w, o.u) /\ o.s \in 1 - w .. w - 1
Fits(o) == o.u \in 0 .. 2 * Long - 1 /\ o.s \in 1 - Long .. Long - 1

LEMMA SexIs ==
  ASSUME NEW w \in Nat \ {0}, NEW x \in 0 .. 2 * w - 1
  PROVE  Sex(w, x) = (IF x < w THEN x ELSE w - x) /\ Sex(w, x) \in 1 - w .. w - 1
<1>1. Bit(w, x) <=> x >= w
  BY BitInRange
<1>2. QED
  BY <1>1 DEF Sex

LEMMA EaReadIs ==
  ASSUME NEW s \in States, NEW i \in Instructions
  PROVE  /\ EaWidth(i) \in Nat \ {0} /\ EaWidth(i) <= Long
         /\ IsOperand(EaRead(s, i), EaWidth(i))
         /\ i.ea = "reg" => EaRead(s, i).u = Unsigned(Width(i.sz), s.d[i.r])
         /\ i.ea = "mem" => EaRead(s, i).u = Load(s.mem, i.sz)
         /\ i.ea = "imm" => EaRead(s, i).u = Signed(Long, i.v)
<1>1. i.sz \in 0 .. 2 /\ i.r \in Regs /\ i.v \in 1 - Long .. Long - 1
        /\ (i.ea = "reg" \/ i.ea = "mem" \/ i.ea = "imm")
  BY DEF Instructions
<1>2. s.mem \in Memory /\ s.d[i.r] \in Nat
  BY <1>1 DEF States
<1>3. EaWidth(i) \in Nat \ {0} /\ EaWidth(i) <= Long
  BY <1>1, Sizes, Weight DEF EaWidth
<1>4. PICK u : u = EaRead(s, i).u
  OBVIOUS
<1>5. /\ i.ea = "reg" => u = Unsigned(Width(i.sz), s.d[i.r])
      /\ i.ea = "mem" => u = Load(s.mem, i.sz)
      /\ i.ea = "imm" => u = Signed(Long, i.v)
  BY <1>1, <1>4 DEF EaRead
<1>6. EaRead(s, i).s = Sex(EaWidth(i), u)
  BY <1>4 DEF EaRead
<1>7. u \in 0 .. 2 * EaWidth(i) - 1
  <2>1. CASE i.ea = "reg"
    <3>1. EaWidth(i) = Width(i.sz)
      BY <2>1 DEF EaWidth
    <3> DEFINE x == s.d[i.r]
               w == Width(i.sz)
    <3>2. x \in Int /\ w \in Nat \ {0}
      BY <1>2, <1>3, <3>1
    <3>3. u = Unsigned(w, x)
      BY <1>5, <2>1
    <3>4. w = EaWidth(i)
      BY <3>1
    <3> HIDE DEF x, w
    <3>5. u \in 0 .. 2 * w - 1
      BY <3>2, <3>3, ConversionsAre
    <3>6. QED
      BY <3>4, <3>5
  <2>2. CASE i.ea = "mem"
    <3>1. EaWidth(i) = Width(i.sz)
      BY <2>2 DEF EaWidth
    <3>2. QED
      BY <1>1, <1>2, <1>5, <2>2, <3>1, LoadInWidth
  <2>3. CASE i.ea = "imm"
    <3>1. EaWidth(i) = Long
      BY <2>3 DEF EaWidth
    <3>2. QED
      <4>1. i.v \in Int /\ i.v > -(2 * Long) /\ Long \in Nat \ {0}
        BY <1>1, Weight
      <4>2. Signed(Long, i.v) \in 0 .. 2 * Long - 1
        BY <4>1, SignedBound
      <4>3. QED
        BY <1>5, <2>3, <3>1, <4>2
  <2>4. QED
    BY <1>1, <2>1, <2>2, <2>3
<1>8. Sex(EaWidth(i), u) \in 1 - EaWidth(i) .. EaWidth(i) - 1
  BY <1>3, <1>7, SexIs
<1>9. QED
  BY <1>3, <1>4, <1>5, <1>6, <1>7, <1>8 DEF IsOperand

\* A register is read at its full width: sinput is its number if it is no wider.
LEMMA DReadIs ==
  ASSUME NEW s \in States, NEW r \in Regs
  PROVE  /\ DRead(s, r).u = Unsigned(Long, s.d[r]) /\ DRead(s, r).s \in Int
         /\ DRead(s, r).u \in 0 .. 2 * Long - 1
         /\ s.d[r] < 2 * Long => IsOperand(DRead(s, r), Long) /\ DRead(s, r).u = s.d[r]
<1> DEFINE x == s.d[r]
<1>1. x \in Nat /\ x \in Int
  BY DEF States
<1>2. DRead(s, r).u = Unsigned(Long, x) /\ DRead(s, r).s = Sex(Long, x)
  BY DEF DRead
<1> HIDE DEF x
<1>3. Unsigned(Long, x) \in 0 .. 2 * Long - 1 /\ Sex(Long, x) \in Int
  BY <1>1, Weight, ConversionsAre DEF Sex
<1>4. ASSUME x < 2 * Long
      PROVE  Unsigned(Long, x) = x /\ Sex(Long, x) \in 1 - Long .. Long - 1
  <2>1. x \in 0 .. 2 * Long - 1
    BY <1>1, <1>4, Weight
  <2>2. x % (2 * Long) = x
    BY <2>1, Weight
  <2>3. QED
    BY <2>1, <2>2, Weight, SexIs DEF Unsigned
<1>5. x < 2 * Long => IsOperand(DRead(s, r), Long) /\ DRead(s, r).u = x
  BY <1>2, <1>3, <1>4 DEF IsOperand
<1>6. QED
  BY <1>2, <1>3, <1>5 DEF x

LEMMA OperandsFit ==
  ASSUME NEW s \in States, NEW i \in Instructions
  PROVE  /\ Fits(EaRead(s, i))
         /\ Narrow(s) => \A r \in Regs : Fits(DRead(s, r))
<1>1. Fits(EaRead(s, i))
  <2>1. EaWidth(i) \in Nat \ {0} /\ EaWidth(i) <= Long /\ IsOperand(EaRead(s, i), EaWidth(i))
    BY EaReadIs
  <2>2. QED
    BY <2>1, Weight DEF IsOperand, Fits
<1>2. Narrow(s) => \A r \in Regs : Fits(DRead(s, r))
  BY DReadIs DEF IsOperand, Fits, Narrow
<1>3. QED
  BY <1>1, <1>2

\* The quotient and the remainder of C++, of any two numbers.
LEMMA QuoRem ==
  ASSUME NEW a \in Int, NEW b \in Int, b # 0
  PROVE  /\ Quo(a, b) \in Int /\ Rem(a, b) \in Int
         /\ a = Quo(a, b) * b + Rem(a, b)
         /\ Abs(Rem(a, b)) < Abs(b) /\ Abs(Quo(a, b)) <= Abs(a)
         /\ a >= 0 => Rem(a, b) >= 0
         /\ a >= 0 /\ b > 0 => Quo(a, b) >= 0
<1> DEFINE x == Abs(a)
           y == Abs(b)
           q == x \div y
           r == x % y
<1>1. x \in Nat /\ y \in Nat \ {0} /\ (a < 0 => a = -x) /\ (a >= 0 => a = x)
        /\ (b < 0 => b = -y) /\ (b > 0 => b = y)
  BY DEF Abs
<1> HIDE DEF x, y
<1>2. q \in Int /\ r \in 0 .. y - 1 /\ x = y * q + r
  BY <1>1, DivMod
<1>3. Quo(a, b) = IF (a < 0) = (b < 0) THEN q ELSE -q
  BY DEF Quo, x, y
<1> HIDE DEF q, r
<1>4. q \in Nat /\ q <= x
  <2>1. q >= 0
    <3>1. SUFFICES ASSUME q <= -1 PROVE FALSE
      BY <1>2
    <3>2. y * q <= -y
      BY <1>1, <1>2, <3>1
    <3>3. QED
      BY <1>1, <1>2, <3>2
  <2>2. y * q >= q
    BY <1>1, <1>2, <2>1
  <2>3. QED
    BY <1>1, <1>2, <2>1, <2>2
<1>5. Rem(a, b) = a - b * Quo(a, b)
  BY DEF Rem
<1>6. CASE a >= 0 /\ b > 0
  <2>1. Quo(a, b) = q
    BY <1>3, <1>6
  <2>2. Rem(a, b) = r
    BY <1>1, <1>2, <1>5, <1>6, <2>1
  <2>3. a = q * b + r
    BY <1>1, <1>2, <1>6
  <2>4. QED
    BY <1>1, <1>2, <1>4, <1>6, <2>1, <2>2, <2>3 DEF Abs
<1>7. CASE a < 0 /\ b < 0
  <2>1. Quo(a, b) = q
    BY <1>3, <1>7
  <2>2. b * q = -(y * q)
    BY <1>1, <1>2, <1>7
  <2>3. Rem(a, b) = -r /\ a = q * b + (-r)
    BY <1>1, <1>2, <1>5, <1>7, <2>1, <2>2
  <2>4. QED
    BY <1>1, <1>2, <1>4, <1>7, <2>1, <2>3 DEF Abs
<1>8. CASE a < 0 /\ b > 0
  <2>1. Quo(a, b) = -q
    BY <1>3, <1>8
  <2>2. b * (-q) = -(y * q)
    BY <1>1, <1>2, <1>8
  <2>3. Rem(a, b) = -r /\ a = (-q) * b + (-r)
    BY <1>1, <1>2, <1>5, <1>8, <2>1, <2>2
  <2>4. QED
    BY <1>1, <1>2, <1>4, <1>8, <2>1, <2>3 DEF Abs
<1>9. CASE a >= 0 /\ b < 0
  <2>1. Quo(a, b) = -q
    BY <1>3, <1>9
  <2>2. b * (-q) = y * q
    BY <1>1, <1>2, <1>9
  <2>3. Rem(a, b) = r /\ a = (-q) * b + r
    BY <1>1, <1>2, <1>5, <1>9, <2>1, <2>2
  <2>4. QED
    BY <1>1, <1>2, <1>4, <1>9, <2>1, <2>3 DEF Abs
<1>10. QED
  BY <1>6, <1>7, <1>8, <1>9

-----------------------------------------------------------------------------
(* Every instruction, one operation after the other *)

\* The argument, the operand and the destination of OP Dn,EA and OP EA,Dn.
Arg(s, i) == IF i.todr THEN EaRead(s, i) ELSE DRead(s, i.dr)
Operand(s, i) == IF i.todr THEN DRead(s, i.dr) ELSE EaRead(s, i)
Dst(i) == IF i.todr THEN DReg(i.dr) ELSE Ea(i)
CarryIn(s) == IF "C" \in s.ccr THEN 1 ELSE 0

LEMMA PlacesAre ==
  ASSUME NEW i \in Instructions
  PROVE  /\ Ea(i) \in Places /\ Ea(i).ea = i.ea /\ Ea(i).r = i.r /\ Ea(i).sz = i.sz
         /\ DReg(i.dr) \in Places /\ DReg(i.dr).ea = "reg" /\ DReg(i.dr).r = i.dr
         /\ Dst(i) \in Places /\ i.dr \in Regs
BY DEF Instructions, Places, Ea, DReg, Dst

LEMMA ArgumentsAre ==
  ASSUME NEW s \in States, NEW i \in Instructions
  PROVE  /\ Arg(s, i).u \in Nat /\ Arg(s, i).s \in Int
         /\ Operand(s, i).u \in Nat /\ Operand(s, i).s \in Int
         /\ Arg(s, i).u < 2 * Long /\ Operand(s, i).u < 2 * Long
         /\ Narrow(s) => Fits(Arg(s, i)) /\ Fits(Operand(s, i))
<1>1. i.dr \in Regs
  BY PlacesAre
<1>2. /\ DRead(s, i.dr).u \in 0 .. 2 * Long - 1 /\ DRead(s, i.dr).s \in Int
      /\ Narrow(s) => Fits(DRead(s, i.dr))
  BY <1>1, DReadIs, OperandsFit
<1>3. EaRead(s, i).u \in 0 .. 2 * Long - 1 /\ EaRead(s, i).s \in Int /\ Fits(EaRead(s, i))
  BY OperandsFit, Weight DEF Fits
<1>4. CASE i.todr
  BY <1>2, <1>3, <1>4, Weight DEF Arg, Operand
<1>5. CASE ~i.todr
  BY <1>2, <1>3, <1>5, Weight DEF Arg, Operand
<1>6. QED
  BY <1>4, <1>5

LEMMA RegisterWritesRun ==
  ASSUME NEW s \in States, ~s.fault, NEW dst \in Places, dst.ea = "reg", NEW n \in Int
  PROVE  ~UWrite(s, dst, n).fault /\ ~SWrite(s, dst, n).fault
<1>1. Wrote(s, UWrite(s, dst, n), dst, UStores(dst, n))
        /\ Wrote(s, SWrite(s, dst, n), dst, SStores(dst, n))
  BY UWriteIs, SWriteIs, Zenon DEF Stored
<1>2. QED
  BY <1>1, Zenon DEF Wrote

LEMMA BitsAre ==
  ASSUME NEW w \in Nat \ {0}, NEW n \in Int
  PROVE  Bit(w, n) \in BOOLEAN /\ SetBit(w, n) \in Int
           /\ \A on \in BOOLEAN : ShiftIn(w, n, on) \in Int
BY DEF Bit, SetBit, ShiftIn

LEMMA RotateGood ==
  ASSUME NEW s \in States, ~s.fault, NEW op \in Rotations, NEW dst \in Places,
         NEW w \in Nat \ {0}, NEW n \in Nat
  PROVE  Good(s, Rotate(s, op, dst, w, n))
<1> DEFINE c == "C" \in s.ccr
<1>1. "C" \in Bits /\ c \in BOOLEAN /\ Bit(1, n) \in BOOLEAN /\ Bit(w, n) \in BOOLEAN
  BY BitsAre DEF Bits
<1> HIDE DEF c
<1>2. \A on \in BOOLEAN : ShiftIn(w, n, on) \in Int /\ 2 * n + (IF on THEN 1 ELSE 0) \in Int
  BY BitsAre
<1>3. ASSUME NEW x \in Int PROVE Good(s, UWrite(s, dst, x))
  BY UWriteGood
<1>4. ASSUME NEW on \in BOOLEAN, NEW x \in Int PROVE Good(s, UWrite(Flag(s, "C", on), dst, x))
  <2> DEFINE u == Flag(s, "C", on)
  <2>1. u \in States /\ Alike(s, u) /\ ~u.fault
    BY <1>1, FlagIs, FlagGood, Zenon DEF Flagged
  <2> HIDE DEF u
  <2>2. Good(u, UWrite(u, dst, x))
    BY <2>1, UWriteGood
  <2>3. QED
    BY <2>1, <2>2, GoodAfterAlike, Zenon DEF u
<1>5. CASE op = "ROR"
  <2>1. Rotate(s, op, dst, w, n) = UWrite(Flag(s, "C", Bit(1, n)), dst, ShiftIn(w, n, Bit(1, n)))
    BY <1>5 DEF Rotate
  <2>2. QED
    BY <1>1, <1>2, <1>4, <2>1, Zenon
<1>6. CASE op = "RORC"
  <2>1. Rotate(s, op, dst, w, n) = After(UWrite(s, dst, ShiftIn(w, n, c)), "C", Bit(1, n))
    BY <1>6 DEF Rotate, c
  <2>2. QED
    BY <1>1, <1>2, <1>3, <2>1, AfterGood, Zenon
<1>7. CASE op = "ROL"
  <2>1. Rotate(s, op, dst, w, n) =
          UWrite(Flag(s, "C", Bit(w, n)), dst, 2 * n + (IF Bit(w, n) THEN 1 ELSE 0))
    BY <1>7 DEF Rotate
  <2>2. QED
    BY <1>1, <1>2, <1>4, <2>1, Zenon
<1>8. CASE op = "ROLC"
  <2>1. Rotate(s, op, dst, w, n) =
          After(UWrite(s, dst, 2 * n + (IF c THEN 1 ELSE 0)), "C", Bit(w, n))
    BY <1>8 DEF Rotate, c
  <2>2. QED
    BY <1>1, <1>2, <1>3, <2>1, AfterGood, Zenon
<1>9. QED
  BY <1>5, <1>6, <1>7, <1>8 DEF Rotations

\* An int_t, and the same number if it fits.
LEMMA KeptByInt ==
  ASSUME NEW n \in Int
  PROVE  AsInt(n) \in Int /\ (n \in -IntSign .. IntSign - 1 => AsInt(n) = n)
<1>1. IntSign \in Nat \ {0}
  BY AluAssumption, Weight
<1>2. n \in -IntSign .. IntSign - 1 => (n + IntSign) % (2 * IntSign) = n + IntSign
  BY <1>1
<1>3. (n + IntSign) % (2 * IntSign) \in Int
  BY <1>1
<1>4. QED
  BY <1>1, <1>2, <1>3 DEF AsInt

LEMMA ShiftGood ==
  ASSUME NEW s \in States, ~s.fault, NEW op \in Shifts, NEW dst \in Places,
         NEW u, u.u \in Nat, u.s \in Int, NEW k \in Nat
  PROVE  /\ Shift(s, op, dst, u, k) \in States /\ Refused(s, Shift(s, op, dst, u, k))
         /\ op # "ASL" /\ u.s > -(2 * Long) => Good(s, Shift(s, op, dst, u, k))
<1> DEFINE b == TwoTo(k)
           t == Shift(s, op, dst, u, k)
<1>1. b \in Nat \ {0} /\ (k = 0 => b = 1)
  BY TwoToIs
<1>2. "C" \in Bits /\ Bit(1, u.u) \in BOOLEAN
  BY DEF Bits, Bit
<1>3. ASSUME NEW x \in Int PROVE Good(s, UWrite(s, dst, x))
  BY UWriteGood
<1>4. ASSUME Good(s, t) PROVE t \in States /\ Refused(s, t)
  BY <1>4, Zenon DEF Good
<1> HIDE DEF b
<1>5. CASE op = "BCOM"
  <2>1. t = UWrite(s, dst, IF Bit(b, u.u) THEN u.u - b ELSE u.u + b)
    BY <1>5 DEF Shift, b
  <2>2. (IF Bit(b, u.u) THEN u.u - b ELSE u.u + b) \in Int
    BY <1>1
  <2>3. QED
    BY <1>3, <1>4, <2>1, <2>2, Zenon
<1>6. CASE op = "BCLR"
  <2>1. t = UWrite(s, dst, IF Bit(b, u.u) THEN u.u - b ELSE u.u)
    BY <1>6 DEF Shift, b
  <2>2. (IF Bit(b, u.u) THEN u.u - b ELSE u.u) \in Int
    BY <1>1
  <2>3. QED
    BY <1>3, <1>4, <2>1, <2>2, Zenon
<1>7. CASE op = "BSET"
  <2>1. t = UWrite(s, dst, SetBit(b, u.u))
    BY <1>7 DEF Shift, b
  <2>2. SetBit(b, u.u) \in Int
    BY <1>1 DEF SetBit
  <2>3. QED
    BY <1>3, <1>4, <2>1, <2>2, Zenon
<1>8. CASE op = "BTST"
  <2> DEFINE w == IF dst.ea = "reg" THEN Long ELSE Width(dst.sz)
             x == IF Bit(b, u.u) THEN b ELSE 0
  <2>1. t = UTest(s, w, x)
    BY <1>8 DEF Shift, ATest, b
  <2>2. w \in Nat \ {0} /\ x \in Int
    BY <1>1, Weight, Sizes DEF Places
  <2> HIDE DEF w, x
  <2>2a. Tested(s, UTest(s, w, x), x = w, Carry(w, x))
    BY <2>2, TestsAre
  <2>3. t \in States /\ Alike(s, t)
    BY <2>1, <2>2a, Zenon DEF Tested
  <2>4. Good(s, s)
    BY Zenon DEF Good, Refused
  <2>5. Good(s, t)
    BY <2>3, <2>4, AlikeAfterGood, Zenon
  <2>6. QED
    BY <1>4, <2>5
<1>9. CASE op = "ASR"
  <2> DEFINE y == 2 * IntSign + u.s
             x == IF u.s < 0 /\ k > 0 THEN y \div b ELSE u.s \div b
  <2>1. t = SWrite(s, dst, x)
    BY <1>9 DEF Shift, b
  <2>2. x \in Int /\ (u.s > -(2 * Long) => x > -(2 * Long))
    <3>1. u.s \div b \in Int /\ (u.s >= 0 => u.s \div b >= 0) /\ (b = 1 => u.s \div b = u.s)
      BY <1>1
    <3>2. y \in Int /\ (u.s > -(2 * Long) => y \in Nat)
      BY Weight, AluAssumption
    <3> HIDE DEF y
    <3>3. y \div b \in Int /\ (y \in Nat => y \div b >= 0)
      BY <1>1, <3>2
    <3>4. QED
      BY <1>1, <3>1, <3>2, <3>3, Weight
  <2> HIDE DEF x, t
  <2>3. QED
    BY <2>1, <2>2, SWriteGood DEF t
<1>10. CASE op = "LSR"
  <2>1. t = After(UWrite(s, dst, u.u \div b), "C", Bit(1, u.u))
    BY <1>10 DEF Shift, b
  <2>2. u.u \div b \in Int
    BY <1>1
  <2>3. QED
    BY <1>2, <1>3, <1>4, <2>1, <2>2, AfterGood, Zenon
<1>11. CASE op = "ASL"
  <2>1. t = SWrite(s, dst, AsInt(u.s * b))
    BY <1>11 DEF Shift, b
  <2>2. AsInt(u.s * b) \in Int
    <3>1. u.s * b \in Int
      BY <1>1
    <3>2. QED
      BY <3>1, KeptByInt
  <2>3. QED
    BY <1>11, <2>1, <2>2, SWriteGood, Zenon
<1>12. CASE op = "LSL"
  <2>1. t = UWrite(s, dst, AsInt(u.u * b))
    BY <1>12 DEF Shift, b
  <2>2. AsInt(u.u * b) \in Int
    <3>1. u.u * b \in Int
      BY <1>1
    <3>2. QED
      BY <3>1, KeptByInt
  <2>3. QED
    BY <1>3, <1>4, <2>1, <2>2, Zenon
<1>13. QED
  BY <1>5, <1>6, <1>7, <1>8, <1>9, <1>10, <1>11, <1>12 DEF Shifts

\* A second write, to a register, does not fault.
LEMMA GoodThenRuns ==
  ASSUME NEW s, NEW t, NEW u, Good(s, t), u \in States, ~u.fault, Narrow(t) => Narrow(u)
  PROVE  Good(s, u)
BY Zenon DEF Good, Refused

\* What an instruction may do, with the exceptions that the properties name.
Proper(s, i, t) ==
  /\ t \in States
  /\ Refused(s, t) \/ (i.op \in {"DIVU", "DIVS"} /\ ~i.todr)
  /\ Narrow(s) /\ i.op \notin {"MULS", "ASL"} => Narrow(t)

LEMMA GoodIsProper ==
  ASSUME NEW s, NEW i, NEW t, Good(s, t)
  PROVE  Proper(s, i, t)
BY Zenon DEF Good, Proper

LEMMA DivUProper ==
  ASSUME NEW s \in States, ~s.fault, NEW i \in Instructions, i.op = "DIVU",
         NEW u, u.u \in Nat, u.u < 2 * Long, NEW a, a.u \in Nat
  PROVE  Proper(s, i, DivU(s, i, u, a))
<1> DEFINE q == Quo(u.u, a.u)
           r == Rem(u.u, a.u)
           e == Ea(i)
           g == DReg(i.dr)
<1>1. e \in Places /\ g \in Places /\ g.ea = "reg" /\ i.dr \in Regs
  BY PlacesAre
<1>2. CASE a.u = 0
  <2>1. DivU(s, i, u, a) = Flag(s, "V", TRUE)
    BY <1>2 DEF DivU
  <2>2. "V" \in Bits
    BY DEF Bits
  <2>3. QED
    BY <2>1, <2>2, FlagGood, GoodIsProper
<1>3. CASE a.u # 0
  <2> DEFINE x == u.u
             y == a.u
  <2>0. x \in Int /\ x >= 0 /\ x < 2 * Long /\ y \in Int /\ y # 0
    BY <1>3
  <2>1. q \in Int /\ r \in Int /\ r >= 0 /\ r < 2 * Long
    <3>1. q = Quo(x, y) /\ r = Rem(x, y)
      OBVIOUS
    <3> HIDE DEF x, y
    <3>2. /\ Quo(x, y) \in Int /\ Rem(x, y) \in Int /\ Rem(x, y) >= 0 /\ Rem(x, y) <= x
      <4>1. /\ Quo(x, y) \in Int /\ Rem(x, y) \in Int /\ Rem(x, y) >= 0
            /\ x = Quo(x, y) * y + Rem(x, y) /\ (y > 0 => Quo(x, y) >= 0)
            /\ Abs(Rem(x, y)) < Abs(y)
        BY <2>0, QuoRem
      <4>2. y > 0
        BY <1>3 DEF y
      <4>3. PICK n \in Int : n = Quo(x, y)
        BY <4>1
      <4>4. n >= 0 /\ x = n * y + Rem(x, y)
        BY <4>1, <4>2, <4>3
      <4>5. n * y >= 0
        BY <2>0, <4>2, <4>4
      <4>6. QED
        BY <2>0, <4>1, <4>4, <4>5
    <3>3. QED
      BY <2>0, <3>1, <3>2, Weight
  <2> HIDE DEF x, y, q, r, e, g
  <2>2. CASE i.todr
    <3> DEFINE t == UWrite(s, e, r)
               w == UWrite(t, g, q)
    <3>1. DivU(s, i, u, a) = IF t.fault THEN t ELSE w
      BY <1>3, <2>2 DEF DivU, q, r, e, g
    <3>2. Good(s, t)
      BY <1>1, <2>1, UWriteGood
    <3>3. t \in States
      BY <3>2, Zenon DEF Good
    <3> HIDE DEF t
    <3>4. ASSUME ~t.fault PROVE Good(s, w)
      <4>1. Good(t, w) /\ ~w.fault
        BY <1>1, <2>1, <3>3, <3>4, UWriteGood, RegisterWritesRun
      <4>2. QED
        BY <3>2, <4>1, GoodThenRuns, Zenon DEF Good
    <3>5. Good(s, DivU(s, i, u, a))
      BY <3>1, <3>2, <3>4
    <3>6. QED
      BY <3>5, GoodIsProper
  <2>3. CASE ~i.todr
    <3> DEFINE t == [s EXCEPT !.d[i.dr] = r]
               w == UWrite(t, e, r)
    <3>1. DivU(s, i, u, a) = w
      BY <1>3, <2>3 DEF DivU, r, e
    <3>2. r \in Nat
      BY <2>1
    <3>3. t \in States /\ t.d = [s.d EXCEPT ![i.dr] = r] /\ t.fault = s.fault
      BY <1>1, <3>2, DataWritten
    <3>4. s.d \in [Regs -> Nat]
      BY DEF States
    <3>5. Narrow(s) => Narrow(t)
      BY <1>1, <2>1, <3>3, <3>4 DEF Narrow
    <3>6. ~t.fault
      BY <3>3
    <3> HIDE DEF t
    <3>7. Good(t, w)
      BY <1>1, <2>1, <3>3, <3>6, UWriteGood
    <3>8. QED
      BY <2>3, <3>1, <3>5, <3>7, Zenon DEF Proper, Good
  <2>4. QED
    BY <2>2, <2>3
<1>4. QED
  BY <1>2, <1>3

LEMMA DivSProper ==
  ASSUME NEW s \in States, ~s.fault, NEW i \in Instructions, i.op = "DIVS",
         NEW u, u.s \in Int, NEW a, a.s \in Int,
         Narrow(s) => u.s \in 1 - Long .. Long - 1 /\ a.s \in 1 - Long .. Long - 1
  PROVE  Proper(s, i, DivS(s, i, u, a))
<1> DEFINE q == Quo(u.s, a.s)
           r == Rem(u.s, a.s)
           e == Ea(i)
           g == DReg(i.dr)
<1>0. Long \in Nat \ {0}
  BY Weight
<1>1. e \in Places /\ g \in Places /\ g.ea = "reg" /\ i.dr \in Regs
  BY PlacesAre
<1>2. CASE a.s = 0
  <2> DEFINE p == IF i.todr THEN g ELSE e
             n == 2 * Long
  <2>1. DivS(s, i, u, a) = SWrite(s, p, n)
    BY <1>2 DEF DivS
  <2>2. p \in Places /\ n \in Int /\ n > -(2 * Long)
    BY <1>0, <1>1
  <2> HIDE DEF p, n
  <2>3. Good(s, SWrite(s, p, n))
    BY <2>2, SWriteGood
  <2>4. QED
    BY <2>1, <2>3, GoodIsProper
<1>3. CASE a.s # 0
  <2> DEFINE x == u.s
             y == a.s
  <2>0. x \in Int /\ y \in Int /\ y # 0
    BY <1>3
  <2>1. q \in Int /\ r \in Int /\ (Narrow(s) => q > -(2 * Long) /\ r > -(2 * Long))
    <3>1. q = Quo(x, y) /\ r = Rem(x, y)
      OBVIOUS
    <3>2. Narrow(s) => x \in 1 - Long .. Long - 1 /\ y \in 1 - Long .. Long - 1
      OBVIOUS
    <3> HIDE DEF x, y
    <3>3. /\ Quo(x, y) \in Int /\ Rem(x, y) \in Int
          /\ Abs(Rem(x, y)) < Abs(y) /\ Abs(Quo(x, y)) <= Abs(x)
      BY <2>0, QuoRem
    <3>4. ASSUME NEW n \in Int, NEW m \in 1 - Long .. Long - 1, Abs(n) <= Abs(m)
          PROVE  n > -(2 * Long)
      BY <1>0, <3>4 DEF Abs
    <3>5. Narrow(s) => Abs(Rem(x, y)) <= Abs(y)
      BY <2>0, <3>3 DEF Abs
    <3> HIDE DEF q, r
    <3>6. QED
      BY <3>1, <3>2, <3>3, <3>4, <3>5
  <2> HIDE DEF x, y, q, r, e, g
  <2>2. CASE i.todr
    <3> DEFINE t == SWrite(s, e, r)
               w == SWrite(t, g, q)
    <3>1. DivS(s, i, u, a) = IF t.fault THEN t ELSE w
      BY <1>3, <2>2 DEF DivS, q, r, e, g
    <3>2. t \in States /\ Refused(s, t) /\ (Narrow(s) => Narrow(t))
      BY <1>1, <2>1, SWriteGood DEF Good
    <3> HIDE DEF t
    <3>4. ASSUME ~t.fault
          PROVE  w \in States /\ ~w.fault /\ (Narrow(s) => Narrow(w))
      BY <1>1, <2>1, <3>2, <3>4, SWriteGood, RegisterWritesRun DEF Good
    <3>5. Good(s, DivS(s, i, u, a))
      BY <3>1, <3>2, <3>4, Zenon DEF Good, Refused
    <3>6. QED
      BY <3>5, GoodIsProper
  <2>3. CASE ~i.todr
    <3> DEFINE t == [s EXCEPT !.d[i.dr] = Signed(Long, r)]
               w == SWrite(t, e, r)
    <3>1. DivS(s, i, u, a) = w
      BY <1>3, <2>3 DEF DivS, r, e
    <3>2. Signed(Long, r) \in Nat /\ (Narrow(s) => Signed(Long, r) < 2 * Long)
      BY <1>0, <2>1, SignedBound, ConversionsAre
    <3>3. t \in States /\ t.d = [s.d EXCEPT ![i.dr] = Signed(Long, r)] /\ t.fault = s.fault
      BY <1>1, <3>2, DataWritten
    <3>4. s.d \in [Regs -> Nat]
      BY DEF States
    <3>5. Narrow(s) => Narrow(t)
      BY <1>1, <3>2, <3>3, <3>4 DEF Narrow
    <3>6. ~t.fault
      BY <3>3
    <3> HIDE DEF t
    <3>7. w \in States /\ (Narrow(s) => Narrow(w))
      BY <1>1, <2>1, <3>3, <3>5, <3>6, SWriteGood DEF Good
    <3>8. QED
      BY <2>3, <3>1, <3>7, Zenon DEF Proper
  <2>4. QED
    BY <2>2, <2>3
<1>4. QED
  BY <1>2, <1>3

LEMMA ComparedIs ==
  ASSUME NEW s \in States, NEW u, NEW a, u.u \in Int, u.s \in Int, a.u \in Int, a.s \in Int
  PROVE  /\ Compared(s, u, a) \in States /\ Alike(s, Compared(s, u, a))
         /\ "C" \in Compared(s, u, a).ccr <=> a.u > u.u
         /\ "V" \in Compared(s, u, a).ccr <=> a.s > u.s
         /\ "Z" \in Compared(s, u, a).ccr <=> IF u.u = u.s THEN u.u = a.u ELSE u.s = a.s
<1> DEFINE z == IF u.u = u.s THEN u.u = a.u ELSE u.s = a.s
           c == a.u > u.u
           v == a.s > u.s
           t == Flag(s, "C", c)
           w == Flag(t, "V", v)
           x == Flag(w, "Z", z)
<1>1. x = Compared(s, u, a)
  BY DEF Compared
<1>2. z \in BOOLEAN /\ c \in BOOLEAN /\ v \in BOOLEAN
  <2>1. (u.u = a.u) \in BOOLEAN /\ (u.s = a.s) \in BOOLEAN
    BY Zenon
  <2>2. z \in BOOLEAN
    BY <2>1, Zenon
  <2>3. (a.u > u.u) \in BOOLEAN /\ (a.s > u.s) \in BOOLEAN
    BY SMT
  <2>4. QED
    BY <2>2, <2>3
<1>3. /\ "C" \in Bits /\ "V" \in Bits /\ "Z" \in Bits /\ "C" \in Bits \ {"V"}
      /\ "C" \in Bits \ {"Z"} /\ "V" \in Bits \ {"Z"}
  BY DEF Bits
<1>4. z <=> IF u.u = u.s THEN u.u = a.u ELSE u.s = a.s
  OBVIOUS
<1>4a. (c <=> a.u > u.u) /\ (v <=> a.s > u.s)
  OBVIOUS
<1> HIDE DEF z, c, v
<1>5. Flagged(s, t, "C", c)
  BY <1>2, <1>3, FlagIs, Zenon
<1> HIDE DEF t
<1>6. t \in States
  BY <1>5, Zenon DEF Flagged
<1>7. Flagged(t, w, "V", v)
  BY <1>2, <1>3, <1>6, FlagIs, Zenon
<1> HIDE DEF w
<1>8. w \in States
  BY <1>7, Zenon DEF Flagged
<1>9. Flagged(w, x, "Z", z)
  BY <1>2, <1>3, <1>8, FlagIs, Zenon
<1> HIDE DEF x
<1>10. x \in States /\ Alike(s, x)
  BY <1>5, <1>7, <1>9, Zenon DEF Flagged, Alike
<1>11. ("C" \in x.ccr <=> c) /\ ("V" \in x.ccr <=> v) /\ ("Z" \in x.ccr <=> z)
  <2>1. ("C" \in x.ccr <=> "C" \in w.ccr) /\ ("V" \in x.ccr <=> "V" \in w.ccr)
    BY <1>3, <1>9, Zenon DEF Flagged
  <2>2. "C" \in w.ccr <=> "C" \in t.ccr
    BY <1>3, <1>7, Zenon DEF Flagged
  <2>3. QED
    BY <1>5, <1>7, <1>9, <2>1, <2>2, Zenon DEF Flagged
<1>12. QED
  BY <1>1, <1>4, <1>4a, <1>10, <1>11, Zenon

\* The operations of OP Dn,EA and OP EA,Dn.
Plain == {"MOV", "SEX", "ADD", "SUB", "ADC", "SBC", "AND", "OR", "XOR", "CMP", "MULU", "MULS"}

LEMMA PlainProper ==
  ASSUME NEW s \in States, ~s.fault, NEW i \in Instructions, i.op \in Plain
  PROVE  Proper(s, i, Binary(s, i))
<1> DEFINE a == Arg(s, i)
           u == Operand(s, i)
           dst == Dst(i)
           c == CarryIn(s)
           b == Binary(s, i)
           ua == a.u
           sa == a.s
           uo == u.u
           so == u.s
<1>1. /\ ua \in Int /\ sa \in Int /\ uo \in Int /\ so \in Int
      /\ Narrow(s) => sa \in 1 - Long .. Long - 1 /\ so \in 1 - Long .. Long - 1
  BY ArgumentsAre DEF Fits
<1>2. dst \in Places
  BY PlacesAre
<1>3. c \in Int
  BY DEF CarryIn
<1>4. Long \in Nat \ {0}
  BY Weight
<1>5. "C" \in Bits /\ "V" \in Bits
  BY DEF Bits
<1>6. i.op = "MOV" => b = UWrite(s, dst, ua)
  BY DEF Binary, Arg, Operand, Dst, CarryIn, Rotations, Shifts
<1>7. i.op = "SEX" => b = SWrite(s, dst, sa)
  BY DEF Binary, Arg, Operand, Dst, CarryIn, Rotations, Shifts
<1>8. i.op = "ADD" => b = SWrite(s, dst, so + sa)
  BY DEF Binary, Arg, Operand, Dst, CarryIn, Rotations, Shifts
<1>9. i.op = "SUB" => b = IF SWrite(s, dst, so - sa).fault THEN SWrite(s, dst, so - sa)
                          ELSE Compared(SWrite(s, dst, so - sa), u, a)
  BY DEF Binary, Arg, Operand, Dst, CarryIn, Rotations, Shifts
<1>10. i.op = "ADC" => b = UWrite(s, dst, uo + ua + c)
  BY DEF Binary, Arg, Operand, Dst, CarryIn, Rotations, Shifts
<1>11. i.op = "SBC" => b = UWrite(s, dst, uo - ua - c)
  BY DEF Binary, Arg, Operand, Dst, CarryIn, Rotations, Shifts
<1>12. i.op = "AND" => b = UWrite(s, dst, And(uo, ua))
  BY DEF Binary, Arg, Operand, Dst, CarryIn, Rotations, Shifts
<1>13. i.op = "OR" => b = UWrite(s, dst, Or(uo, ua))
  BY DEF Binary, Arg, Operand, Dst, CarryIn, Rotations, Shifts
<1>14. i.op = "XOR" => b = UWrite(s, dst, Xor(uo, ua))
  BY DEF Binary, Arg, Operand, Dst, CarryIn, Rotations, Shifts
<1>15. i.op = "CMP" => b = Compared(s, u, a)
  BY DEF Binary, Arg, Operand, Dst, CarryIn, Rotations, Shifts
<1>16. i.op = "MULU" => b = After(After(UWrite(s, dst, AsInt(uo * ua)),
                                        "V", Carry(Long, AsInt(uo * ua))),
                                  "C", Carry(Long, AsInt(uo * ua)))
  BY DEF Binary, Arg, Operand, Dst, CarryIn, Rotations, Shifts
<1>17. i.op = "MULS" => b = After(SWrite(s, dst, AsInt(so * sa)),
                                  "V", Overflow(Long, AsInt(so * sa)))
  BY DEF Binary, Arg, Operand, Dst, CarryIn, Rotations, Shifts
<1>18. ASSUME NEW n \in Int PROVE Good(s, UWrite(s, dst, n))
  BY <1>2, UWriteGood
<1>19. ASSUME NEW n \in Int
       PROVE  /\ SWrite(s, dst, n) \in States /\ Refused(s, SWrite(s, dst, n))
              /\ (Narrow(s) => n > -(2 * Long)) => Good(s, SWrite(s, dst, n))
  BY <1>2, SWriteGood, Zenon DEF Good
<1>20. ASSUME NEW t \in States, Good(s, t) PROVE Good(s, Compared(t, u, a))
  <2>1. Compared(t, u, a) \in States /\ Alike(t, Compared(t, u, a))
    BY <1>1, ComparedIs
  <2>2. QED
    BY <1>20, <2>1, AlikeAfterGood, Zenon
<1> HIDE DEF b, dst, c, ua, sa, uo, so, a, u
<1>21. CASE i.op = "MOV"
  BY <1>1, <1>6, <1>18, <1>21, GoodIsProper DEF b
<1>22. CASE i.op = "SEX"
  <2>1. Narrow(s) => sa > -(2 * Long)
    BY <1>1, <1>4
  <2>2. QED
    BY <1>1, <1>7, <1>19, <1>22, <2>1, GoodIsProper DEF b
<1>23. CASE i.op = "ADD"
  <2>1. so + sa \in Int /\ (Narrow(s) => so + sa > -(2 * Long))
    BY <1>1, <1>4
  <2>2. QED
    BY <1>8, <1>19, <1>23, <2>1, GoodIsProper DEF b
<1>24. CASE i.op = "SUB"
  <2>1. so - sa \in Int /\ (Narrow(s) => so - sa > -(2 * Long))
    BY <1>1, <1>4
  <2>2. Good(s, SWrite(s, dst, so - sa)) /\ SWrite(s, dst, so - sa) \in States
    BY <1>19, <2>1
  <2>3. Good(s, Compared(SWrite(s, dst, so - sa), u, a))
    BY <1>20, <2>2
  <2>4. Good(s, b)
    BY <1>9, <1>24, <2>2, <2>3
  <2>5. QED
    BY <2>4, GoodIsProper DEF b
<1>25. CASE i.op \in {"ADC", "SBC"}
  <2>1. uo + ua + c \in Int /\ uo - ua - c \in Int
    BY <1>1, <1>3
  <2>2. Good(s, b)
    BY <1>10, <1>11, <1>18, <1>25, <2>1
  <2>3. QED
    BY <2>2, GoodIsProper DEF b
<1>26. CASE i.op \in {"AND", "OR", "XOR"}
  <2>1. And(uo, ua) \in Int /\ Or(uo, ua) \in Int /\ Xor(uo, ua) \in Int
    BY <1>1, LogicalIs
  <2>2. Good(s, b)
    BY <1>12, <1>13, <1>14, <1>18, <1>26, <2>1
  <2>3. QED
    BY <2>2, GoodIsProper DEF b
<1>27. CASE i.op = "CMP"
  <2>1. Good(s, s)
    BY Zenon DEF Good, Refused
  <2>2. Good(s, b)
    BY <1>15, <1>20, <1>27, <2>1
  <2>3. QED
    BY <2>2, GoodIsProper DEF b
<1>28. CASE i.op = "MULU"
  <2> DEFINE o == Carry(Long, AsInt(uo * ua))
             t == UWrite(s, dst, AsInt(uo * ua))
  <2>1. AsInt(uo * ua) \in Int
    <3>1. uo * ua \in Int
      BY <1>1
    <3>2. QED
      BY <3>1, KeptByInt
  <2>2. o \in BOOLEAN
    BY DEF Carry
  <2>3. Good(s, t)
    BY <1>18, <2>1
  <2>4. b = After(After(t, "V", o), "C", o)
    BY <1>16, <1>28
  <2> HIDE DEF t, o
  <2>5. Good(s, After(t, "V", o))
    BY <1>5, <2>2, <2>3, AfterGood, Zenon
  <2>6. Good(s, b)
    BY <1>5, <2>2, <2>4, <2>5, AfterGood, Zenon
  <2>7. QED
    BY <2>6, GoodIsProper DEF b
<1>29. CASE i.op = "MULS"
  <2> DEFINE o == Overflow(Long, AsInt(so * sa))
             t == SWrite(s, dst, AsInt(so * sa))
  <2>1. AsInt(so * sa) \in Int
    <3>1. so * sa \in Int
      BY <1>1
    <3>2. QED
      BY <3>1, KeptByInt
  <2>2. o \in BOOLEAN
    BY DEF Overflow
  <2>3. t \in States /\ Refused(s, t)
    BY <1>19, <2>1
  <2>4. b = After(t, "V", o)
    BY <1>17, <1>29
  <2> HIDE DEF t, o
  <2>5. Flag(t, "V", o) \in States /\ Alike(t, Flag(t, "V", o))
    BY <1>5, <2>2, <2>3, FlagIs, Zenon DEF Flagged
  <2>6. b \in States /\ Refused(s, b)
    BY <2>3, <2>4, <2>5, Zenon DEF After, Alike, Refused
  <2>7. i.op \in {"MULS", "ASL"}
    BY <1>29
  <2>8. QED
    BY <2>6, <2>7, Zenon DEF Proper, b
<1>30. QED
  BY <1>21, <1>22, <1>23, <1>24, <1>25, <1>26, <1>27, <1>28, <1>29 DEF Plain

LEMMA BinaryProper ==
  ASSUME NEW s \in States, ~s.fault, NEW i \in Instructions
  PROVE  Proper(s, i, Binary(s, i))
<1> DEFINE a == Arg(s, i)
           u == Operand(s, i)
           dst == Dst(i)
<1>1. /\ a.u \in Nat /\ a.s \in Int /\ u.u \in Nat /\ u.s \in Int /\ u.u < 2 * Long
      /\ Narrow(s) => a.s \in 1 - Long .. Long - 1 /\ u.s \in 1 - Long .. Long - 1
  BY ArgumentsAre DEF Fits
<1>2. dst \in Places /\ EaWidth(i) \in Nat \ {0}
  BY PlacesAre, EaReadIs
<1>3. CASE i.op \in Plain
  BY <1>3, PlainProper
<1>4. CASE i.op = "DIVU"
  <2>1. Binary(s, i) = DivU(s, i, u, a)
    BY <1>4 DEF Binary, Arg, Operand, Rotations, Shifts
  <2> HIDE DEF a, u
  <2>2. QED
    BY <1>1, <1>4, <2>1, DivUProper
<1>5. CASE i.op = "DIVS"
  <2>1. Binary(s, i) = DivS(s, i, u, a)
    BY <1>5 DEF Binary, Arg, Operand, Rotations, Shifts
  <2> HIDE DEF a, u
  <2>2. QED
    BY <1>1, <1>5, <2>1, DivSProper
<1>6. CASE i.op \in Rotations
  <2>1. Binary(s, i) = Rotate(s, i.op, dst, EaWidth(i), u.u)
    BY <1>6 DEF Binary, Arg, Operand, Dst, Rotations, Shifts
  <2> DEFINE n == u.u
  <2>2. n \in Nat /\ Binary(s, i) = Rotate(s, i.op, dst, EaWidth(i), n)
    BY <1>1, <2>1
  <2> HIDE DEF n, dst
  <2>3. QED
    BY <1>2, <1>6, <2>2, RotateGood, GoodIsProper
<1>7. CASE i.op \in Shifts
  <2>1. Binary(s, i) = Shift(s, i.op, dst, u, a.u)
    BY <1>7 DEF Binary, Arg, Operand, Dst, Rotations, Shifts
  <2> DEFINE k == a.u
             t == Shift(s, i.op, dst, u, k)
  <2>2. k \in Nat /\ Binary(s, i) = t
    BY <1>1, <2>1
  <2>3. u.u \in Nat /\ u.s \in Int /\ (Narrow(s) => u.s > -(2 * Long))
    BY <1>1, Weight
  <2> HIDE DEF k, dst, u
  <2>4. /\ t \in States /\ Refused(s, t)
        /\ i.op # "ASL" /\ u.s > -(2 * Long) => Good(s, t)
    BY <1>2, <1>7, <2>2, <2>3, ShiftGood
  <2> HIDE DEF t
  <2>5. Proper(s, i, t)
    BY <2>3, <2>4, Zenon DEF Proper, Good
  <2>6. QED
    BY <2>2, <2>5
<1>8. CASE i.op \notin Plain \cup {"DIVU", "DIVS"} \cup Rotations \cup Shifts
  <2>1. Binary(s, i) = Fault(s)
    BY <1>8 DEF Binary, Plain
  <2>2. Fault(s) \in States /\ Fault(s).d = s.d /\ Fault(s).mem = s.mem
    BY Faulted
  <2>3. Narrow(s) => Narrow(Fault(s))
    BY <2>2, AlikeNarrow
  <2>4. QED
    BY <2>1, <2>2, <2>3, Zenon DEF Proper, Refused
<1>9. QED
  BY <1>3, <1>4, <1>5, <1>6, <1>7, <1>8, Zenon

LEMMA UnaryProper ==
  ASSUME NEW s \in States, ~s.fault, NEW i \in Instructions
  PROVE  Proper(s, i, Unary(s, i))
<1> DEFINE uu == EaRead(s, i).u
           us == EaRead(s, i).s
           dst == Ea(i)
           b == Unary(s, i)
           w == IF dst.ea = "reg" THEN Long ELSE Width(dst.sz)
<1>1. uu \in Int /\ us \in 1 - Long .. Long - 1 /\ us \in Int
  BY OperandsFit, Weight DEF Fits
<1>2. dst \in Places
  BY PlacesAre
<1>3. /\ i.op = "CLR" => b = UWrite(s, dst, 0)
      /\ i.op = "TST" => b = UTest(s, w, uu)
      /\ i.op = "INC" => b = SWrite(s, dst, us + 1)
      /\ i.op = "DEC" => b = SWrite(s, dst, us - 1)
      /\ i.op = "NEG" => b = SWrite(s, dst, -us)
      /\ i.op = "COM" => b = UWrite(s, dst, -us - 1)
      /\ i.op \notin {"CLR", "TST", "INC", "DEC", "NEG", "COM"} => b = Fault(s)
  BY DEF Unary, ATest
<1>4. w \in Nat \ {0}
  BY <1>2, Weight, Sizes DEF Places
<1> HIDE DEF uu, us, dst, b, w
<1>5. ASSUME NEW n \in Int PROVE Good(s, UWrite(s, dst, n))
  BY <1>2, UWriteGood
<1>6. ASSUME NEW n \in Int, n > -(2 * Long) PROVE Good(s, SWrite(s, dst, n))
  BY <1>2, <1>6, SWriteGood
<1>7. /\ 0 \in Int /\ -us - 1 \in Int /\ us + 1 \in Int /\ us - 1 \in Int /\ -us \in Int
      /\ us + 1 > -(2 * Long) /\ us - 1 > -(2 * Long) /\ -us > -(2 * Long)
  BY <1>1, Weight
<1>8. Good(s, UTest(s, w, uu))
  <2>1. Tested(s, UTest(s, w, uu), uu = w, Carry(w, uu))
    BY <1>1, <1>4, TestsAre
  <2>2. Good(s, s)
    BY Zenon DEF Good, Refused
  <2>3. QED
    BY <2>1, <2>2, AlikeAfterGood, Zenon DEF Tested
<1>9. Good(s, Fault(s))
  <2>1. Fault(s) \in States /\ Fault(s).d = s.d /\ Fault(s).mem = s.mem
    BY Faulted
  <2>2. QED
    BY <2>1, AlikeNarrow, Zenon DEF Good, Refused
<1>10. Good(s, UWrite(s, dst, 0)) /\ Good(s, UWrite(s, dst, -us - 1))
         /\ Good(s, SWrite(s, dst, us + 1)) /\ Good(s, SWrite(s, dst, us - 1))
         /\ Good(s, SWrite(s, dst, -us))
  BY <1>5, <1>6, <1>7
<1>11. Good(s, b)
  BY <1>3, <1>8, <1>9, <1>10, Zenon
<1>12. QED
  BY <1>11, GoodIsProper DEF b

-----------------------------------------------------------------------------
(* The machine from its start *)

\* What the instruction does in state s.
Done(s, i) ==
  IF i.op \in Unaries THEN Unary(s, i)
  ELSE IF i.op = "CLC" THEN Flag(s, "C", FALSE) ELSE Binary(s, i)

LEMMA DoneProper ==
  ASSUME NEW s \in States, ~s.fault, NEW i \in Instructions
  PROVE  Proper(s, i, Done(s, i))
<1>1. CASE i.op \in Unaries
  BY <1>1, UnaryProper DEF Done
<1>2. CASE i.op \notin Unaries /\ i.op = "CLC"
  <2>1. "C" \in Bits
    BY DEF Bits
  <2>2. Good(s, Flag(s, "C", FALSE))
    BY <2>1, FlagGood
  <2>3. Done(s, i) = Flag(s, "C", FALSE)
    BY <1>2 DEF Done
  <2>4. QED
    BY <2>2, <2>3, GoodIsProper
<1>3. CASE i.op \notin Unaries /\ i.op # "CLC"
  BY <1>3, BinaryProper DEF Done
<1>4. QED
  BY <1>1, <1>2, <1>3

\* Only these leave more than 36 bits in a register.
Wide(p) == \E k \in 1 .. Len(p) : p[k].op \in {"MULS", "ASL"}

(***************************************************************************)
(* A program is run from start: st is what its instructions so far make of *)
(* it, one after the other, none of which faulted but perhaps the last.    *)
(* The properties look at programs of one, two and three instructions.     *)
(***************************************************************************)
Inv ==
  /\ prog \in Programs /\ at \in 1 .. Len(prog) + 1
  /\ st \in States /\ (Wide(prog) \/ Narrow(st))
  /\ start \in States /\ Narrow(start) /\ ~start.fault
  /\ at = 1 => st = start
  /\ at = 2 => st = Done(start, prog[1])
  /\ at = 3 => ~Done(start, prog[1]).fault /\ st = Done(Done(start, prog[1]), prog[2])
  /\ at = 4 => /\ ~Done(start, prog[1]).fault
               /\ ~Done(Done(start, prog[1]), prog[2]).fault
               /\ st = Done(Done(Done(start, prog[1]), prog[2]), prog[3])

LEMMA ProgramsAre ==
  ASSUME NEW p \in Programs
  PROVE  Len(p) \in Nat /\ \A k \in 1 .. Len(p) : p[k] \in Instructions
BY AluAssumption

LEMMA PutLongInMemory ==
  ASSUME NEW n \in 0 .. 2 * Long - 1
  PROVE  PutLong(2 * Byte, n) \in Memory
<1> DEFINE B == 2 * Byte
           w == (n \div B) % B
           x == n % B
           y == ((n \div (B * B)) \div B) % B
           z == (n \div (B * B)) % B
<1>1. B \in Nat \ {0} /\ n \in Int
  BY Weight
<1>2. PutLong(B, n) = <<w, x, y, z>>
  BY <1>1, PutLongIs, Zenon
<1>3. w \in 0 .. B - 1 /\ x \in 0 .. B - 1 /\ y \in 0 .. B - 1 /\ z \in 0 .. B - 1
  <2>1. n \div B \in Int /\ x \in 0 .. B - 1
    BY <1>1, DivMod, Zenon
  <2>2. B * B \in Nat \ {0}
    BY <1>1
  <2>3. n \div (B * B) \in Int
    BY <1>1, <2>2, DivMod, Zenon
  <2>4. (n \div (B * B)) \div B \in Int
    BY <1>1, <2>3, DivMod, Zenon
  <2>5. QED
    BY <1>1, <2>1, <2>3, <2>4, DivMod, Zenon
<1> HIDE DEF w, x, y, z
<1>4. <<w, x, y, z>> \in [1 .. 4 -> 0 .. B - 1]
  BY <1>3
<1>5. QED
  BY <1>2, <1>4 DEF Memory

LEMMA InvInit == Init => Inv
<1>1. SUFFICES ASSUME Init PROVE Inv
  OBVIOUS
<1>2. prog \in Programs /\ at = 1 /\ start = st
  BY <1>1 DEF Init
<1>3. PICK d \in [Named(prog) -> Values], m \in Cells(prog), rw \in BOOLEAN, c \in SUBSET {"C"} :
        st = [d |-> [r \in Regs |-> IF r \in Named(prog) THEN d[r] ELSE 0],
              mem |-> PutLong(2 * Byte, m), writable |-> rw, ccr |-> c, fault |-> FALSE]
  BY <1>1 DEF Init
<1>4. Long \in Nat \ {0} /\ \A v \in Values : v \in 0 .. 2 * Long - 1
  BY AluAssumption, Weight
<1>5. m \in 0 .. 2 * Long - 1
  BY <1>4 DEF Cells
<1>6. PutLong(2 * Byte, m) \in Memory
  BY <1>5, PutLongInMemory
<1> DEFINE f == [r \in Regs |-> IF r \in Named(prog) THEN d[r] ELSE 0]
<1>7. \A r \in Regs : f[r] \in 0 .. 2 * Long - 1
  BY <1>4
<1>8. f \in [Regs -> Nat] /\ \A r \in Regs : f[r] < 2 * Long
  BY <1>4, <1>7
<1>9. st.d = f /\ st.fault = FALSE
  BY <1>3
<1> DEFINE M == PutLong(2 * Byte, m)
<1>10. st = [d |-> f, mem |-> M, writable |-> rw, ccr |-> c, fault |-> FALSE] /\ M \in Memory
  BY <1>3, <1>6
<1> HIDE DEF f, M
<1>11. st \in States
  BY <1>8, <1>10 DEF States, Bits
<1>12. Narrow(st)
  BY <1>8, <1>9 DEF Narrow
<1>13. at \in 1 .. Len(prog) + 1
  BY <1>2, ProgramsAre
<1>14. ~start.fault
  BY <1>2, <1>9
<1>15. at # 2 /\ at # 3 /\ at # 4
  BY <1>2
<1>16. QED
  BY <1>2, <1>11, <1>12, <1>13, <1>14, <1>15, Zenon DEF Inv

\* Every action runs the instruction it is at.
LEMMA StepIs ==
  ASSUME Inv, Next
  PROVE  /\ Running /\ st' = Done(st, prog[at]) /\ at' = at + 1
         /\ UNCHANGED <<prog, start>>
<1>1. CASE OpDnEa
  BY <1>1 DEF OpDnEa, Execute, Done
<1>2. CASE OpEa
  BY <1>2 DEF OpEa, Execute, Done
<1>3. CASE Clc
  BY <1>3 DEF Clc, Execute, Done, Unaries
<1>4. QED
  BY <1>1, <1>2, <1>3 DEF Next

LEMMA StepProper ==
  ASSUME Inv, Next
  PROVE  prog[at] \in Instructions /\ Proper(st, prog[at], st')
<1>1. prog \in Programs /\ at \in 1 .. Len(prog) + 1 /\ st \in States
  BY DEF Inv
<1>2. Running /\ st' = Done(st, prog[at])
  BY StepIs
<1>3. at \in 1 .. Len(prog) /\ ~st.fault
  BY <1>1, <1>2, ProgramsAre DEF Running
<1>4. prog[at] \in Instructions
  BY <1>1, <1>3, ProgramsAre
<1>5. QED
  BY <1>1, <1>2, <1>3, <1>4, DoneProper

LEMMA InvStep == Inv /\ [Next]_vars => Inv'
<1>1. SUFFICES ASSUME Inv, [Next]_vars PROVE Inv'
  OBVIOUS
<1>2. CASE UNCHANGED vars
  BY <1>1, <1>2 DEF vars, Inv, Wide, Narrow
<1>3. CASE Next
  <2>1. /\ Running /\ st' = Done(st, prog[at]) /\ at' = at + 1
        /\ prog' = prog /\ start' = start
    BY <1>1, <1>3, StepIs
  <2>2. /\ prog \in Programs /\ at \in 1 .. Len(prog) + 1 /\ (Wide(prog) \/ Narrow(st))
        /\ start \in States /\ Narrow(start) /\ ~start.fault
    BY <1>1 DEF Inv
  <2>3. Proper(st, prog[at], st')
    BY <1>1, <1>3, StepProper
  <2>4. at \in 1 .. Len(prog) /\ ~st.fault
    BY <2>1, <2>2, ProgramsAre DEF Running
  <2>5. at' \in 1 .. Len(prog') + 1
    BY <2>1, <2>2, <2>4, ProgramsAre
  <2>6. Wide(prog) \/ Narrow(st')
    BY <2>2, <2>3, <2>4 DEF Proper, Wide
  <2>7. (Wide(prog) \/ Narrow(st))'
    BY <2>1, <2>6 DEF Wide, Narrow
  <2>8. (Narrow(start))'
    BY <2>1, <2>2 DEF Narrow
  <2>9. st' \in States
    BY <2>3, Zenon DEF Proper
  <2>10. at' # 1 /\ (at' = 2 => at = 1) /\ (at' = 3 => at = 2) /\ (at' = 4 => at = 3)
    BY <2>1, <2>4
  <2>11. (at' = 1 => st' = start') /\ (at' = 2 => st' = Done(start', prog'[1]))
    BY <1>1, <2>1, <2>10, Zenon DEF Inv
  <2>12. at' = 3 => ~Done(start, prog[1]).fault /\ st' = Done(Done(start, prog[1]), prog[2])
    BY <1>1, <2>1, <2>4, <2>10, Zenon DEF Inv
  <2>13. at' = 4 => /\ ~Done(start, prog[1]).fault
                    /\ ~Done(Done(start, prog[1]), prog[2]).fault
                    /\ st' = Done(Done(Done(start, prog[1]), prog[2]), prog[3])
    BY <1>1, <2>1, <2>4, <2>10, Zenon DEF Inv
  <2>14. QED
    BY <2>1, <2>2, <2>5, <2>7, <2>8, <2>9, <2>11, <2>12, <2>13 DEF Inv
<1>4. QED
  BY <1>1, <1>2, <1>3

LEMMA InvAlways == Spec => []Inv
<1>1. Init => Inv
  BY InvInit
<1>2. Inv /\ [Next]_vars => Inv'
  BY InvStep
<1>3. QED
  BY <1>1, <1>2, PTL DEF Spec

\* The registers hold natural numbers, of 36 bits unless the program multiplies or
\* shifts left by sign, and the bytes of memory 9 bits, whatever the widths are and
\* the program does (cpu.hh:261).
THEOREM AluTypeCorrect == Spec => []TypeOK
<1>1. Inv => TypeOK
  <2>1. SUFFICES ASSUME Inv PROVE TypeOK
    OBVIOUS
  <2>2. /\ st.d \in [Regs -> Nat] /\ st.mem \in Memory /\ st.ccr \subseteq Bits
        /\ st.fault \in BOOLEAN
    BY <2>1 DEF Inv, States
  <2>3. Wide(prog) \/ Narrow(st)
    BY <2>1 DEF Inv
  <2>4. (\E r \in Regs : st.d[r] >= 2 * Long) => Wide(prog)
    BY <2>2, <2>3, Weight DEF Narrow
  <2>5. at \in 1 .. Len(prog) + 1
    BY <2>1 DEF Inv
  <2>6. QED
    BY <2>2, <2>4, <2>5 DEF TypeOK, Wide, Memory, Bits
<1>2. QED
  BY <1>1, InvAlways, PTL

\* A write that faults finds registers and memory as they were, for every instruction
\* but the division that wrote its register first (cpu.cc's ea_uwrite and ea_swrite).
THEOREM FaultsWriteNothing == Spec => RefusedWritesNothing
<1> DEFINE A == st'.fault => \/ st'.d = st.d /\ st'.mem = st.mem
                             \/ prog[at].op \in {"DIVU", "DIVS"} /\ ~prog[at].todr
<1>1. Inv /\ [Next]_vars => [A]_vars
  <2>1. SUFFICES ASSUME Inv, [Next]_vars, ~UNCHANGED vars PROVE A
    BY Zenon
  <2>2. Proper(st, prog[at], st')
    BY <2>1, StepProper
  <2>3. QED
    BY <2>2, Zenon DEF Proper, Refused
<1>2. QED
  BY <1>1, InvAlways, PTL DEF Spec, RefusedWritesNothing

-----------------------------------------------------------------------------
(* What is read back *)

LEMMA KeptUnsigned ==
  ASSUME NEW w \in Nat \ {0}, NEW n \in 0 .. 2 * w - 1
  PROVE  Unsigned(w, n) = n
BY DEF Unsigned

\* A number that fits where it is written by ea_uwrite.
UnsignedBack(s, t, dst, n) ==
  /\ dst.ea = "reg" \/ dst.ea = "mem"
  /\ dst.ea = "reg" =>
       t.d = [s.d EXCEPT ![dst.r] = n] /\ t.mem = s.mem /\ DRead(t, dst.r).u = n
  /\ dst.ea = "mem" =>
       t.d = s.d /\ t.mem = Store(s.mem, dst.sz, n) /\ Load(t.mem, dst.sz) = n

LEMMA UReadsBack ==
  ASSUME NEW s \in States, NEW dst \in Places, NEW n \in 0 .. 2 * DstWidth(dst) - 1,
         NEW t, t = UWrite(s, dst, n), ~t.fault
  PROVE  UnsignedBack(s, t, dst, n)
<1> DEFINE w == DstWidth(dst)
<1>1. dst.sz \in 0 .. 2 /\ dst.r \in Regs /\ (dst.ea = "reg" \/ dst.ea = "mem" \/ dst.ea = "imm")
  BY DEF Places
<1>2. w \in Nat \ {0} /\ (dst.ea = "reg" => w = Long) /\ (dst.ea = "mem" => w = Width(dst.sz))
  BY <1>1, Weight, Sizes DEF DstWidth
<1>3. n \in 0 .. 2 * w - 1
  OBVIOUS
<1>4. UStores(dst, n) = Unsigned(w, n)
  BY DEF UStores
<1> HIDE DEF w
<1>5. n \in Int /\ Unsigned(w, n) = n
  BY <1>2, <1>3, KeptUnsigned
<1>6. t \in States /\ Wrote(s, t, dst, n)
  BY <1>4, <1>5, UWriteIs, Zenon DEF Stored
<1>7. dst.ea # "imm" /\ (dst.ea = "mem" => s.writable)
  BY <1>6, Zenon DEF Wrote
<1>8. CASE dst.ea = "reg"
  <2>1. t.d = [s.d EXCEPT ![dst.r] = n] /\ t.mem = s.mem
    BY <1>6, <1>8, Zenon DEF Wrote
  <2>2. s.d \in [Regs -> Nat]
    BY DEF States
  <2>3. t.d[dst.r] = n
    BY <1>1, <2>1, <2>2
  <2>4. DRead(t, dst.r).u = Unsigned(Long, n)
    BY <2>3 DEF DRead
  <2>5. QED
    BY <1>2, <1>5, <1>8, <2>1, <2>4 DEF UnsignedBack
<1>9. CASE dst.ea = "mem"
  <2>1. t.d = s.d /\ t.mem = Store(s.mem, dst.sz, n)
    BY <1>6, <1>7, <1>9, Zenon DEF Wrote
  <2>2. s.mem \in Memory
    BY DEF States
  <2>3. n \in 0 .. 2 * Width(dst.sz) - 1
    BY <1>2, <1>3, <1>9
  <2>4. Load(t.mem, dst.sz) = n
    BY <1>1, <2>1, <2>2, <2>3, LoadStore
  <2>5. QED
    BY <1>9, <2>1, <2>4 DEF UnsignedBack
<1>10. QED
  BY <1>1, <1>7, <1>8, <1>9 DEF UnsignedBack

\* And by ea_swrite.
SignedBack(s, t, dst, n) ==
  /\ dst.ea = "reg" \/ dst.ea = "mem"
  /\ dst.ea = "reg" =>
       /\ t.d = [s.d EXCEPT ![dst.r] = Signed(Long, n)] /\ t.mem = s.mem
       /\ DRead(t, dst.r).s = n
  /\ dst.ea = "mem" => t.d = s.d /\ Sex(Width(dst.sz), Load(t.mem, dst.sz)) = n

LEMMA SReadsBack ==
  ASSUME NEW s \in States, NEW dst \in Places, NEW n \in Int, ~Overflow(DstWidth(dst), n),
         NEW t, t = SWrite(s, dst, n), ~t.fault
  PROVE  SignedBack(s, t, dst, n)
<1> DEFINE w == DstWidth(dst)
           x == Signed(w, n)
<1>1. dst.sz \in 0 .. 2 /\ dst.r \in Regs /\ (dst.ea = "reg" \/ dst.ea = "mem" \/ dst.ea = "imm")
  BY DEF Places
<1>2. w \in Nat \ {0} /\ (dst.ea = "reg" => w = Long) /\ (dst.ea = "mem" => w = Width(dst.sz))
  BY <1>1, Weight, Sizes DEF DstWidth
<1>3. SStores(dst, n) = IF dst.ea = "reg" THEN Signed(Long, n)
                        ELSE Unsigned(Width(dst.sz), Signed(Width(dst.sz), n))
  BY DEF SStores
<1>4. ~Overflow(w, n)
  OBVIOUS
<1> HIDE DEF w
<1>5. x \in 0 .. 2 * w - 1 /\ Sex(w, x) = n
  BY <1>2, <1>4, FittingNumbersAreKept
<1> HIDE DEF x
<1>6. t \in States /\ Wrote(s, t, dst, SStores(dst, n))
  BY SWriteIs, Zenon DEF Stored
<1>7. dst.ea # "imm" /\ (dst.ea = "mem" => s.writable)
  BY <1>6, Zenon DEF Wrote
<1>8. CASE dst.ea = "reg"
  <2>1. SStores(dst, n) = x /\ x = Signed(Long, n)
    BY <1>2, <1>3, <1>8 DEF x
  <2>2. t.d = [s.d EXCEPT ![dst.r] = x] /\ t.mem = s.mem
    BY <1>6, <1>8, <2>1, Zenon DEF Wrote
  <2>3. s.d \in [Regs -> Nat]
    BY DEF States
  <2>4. t.d[dst.r] = x
    BY <1>1, <2>2, <2>3
  <2>5. DRead(t, dst.r).s = Sex(Long, x)
    BY <2>4 DEF DRead
  <2>6. QED
    BY <1>2, <1>5, <1>8, <2>1, <2>2, <2>5 DEF SignedBack
<1>9. CASE dst.ea = "mem"
  <2>1. SStores(dst, n) = Unsigned(w, x)
    BY <1>2, <1>3, <1>9 DEF x
  <2>2. Unsigned(w, x) = x
    BY <1>2, <1>5, KeptUnsigned
  <2>3. t.d = s.d /\ t.mem = Store(s.mem, dst.sz, x)
    BY <1>6, <1>7, <1>9, <2>1, <2>2, Zenon DEF Wrote
  <2>4. s.mem \in Memory
    BY DEF States
  <2>5. Width(dst.sz) = w
    BY <1>2, <1>9
  <2>6. Load(t.mem, dst.sz) = x
    BY <1>1, <1>5, <2>3, <2>4, <2>5, LoadStore
  <2>7. QED
    BY <1>5, <1>9, <2>3, <2>5, <2>6 DEF SignedBack
<1>10. QED
  BY <1>1, <1>7, <1>8, <1>9 DEF SignedBack

-----------------------------------------------------------------------------
(* What one instruction left behind *)

LEMMA OneRan ==
  ASSUME Inv, NEW op, RanOnce(op)
  PROVE  /\ prog[1] \in Instructions /\ prog[1].op = op
         /\ start \in States /\ Narrow(start) /\ ~start.fault
         /\ st = Done(start, prog[1]) /\ ~st.fault /\ st \in States
<1>1. Len(prog) = 1 /\ prog[1].op = op /\ at > Len(prog) /\ ~st.fault
  BY DEF RanOnce, Ended
<1>2. prog \in Programs /\ at \in 1 .. Len(prog) + 1
  BY DEF Inv
<1>3. at = 2
  BY <1>1, <1>2
<1>4. prog[1] \in Instructions
  <2>1. 1 \in 1 .. Len(prog)
    BY <1>1
  <2>2. QED
    BY <1>2, <2>1, ProgramsAre
<1>5. QED
  BY <1>1, <1>3, <1>4 DEF Inv

\* V clear after ea_swrite: the number fitted.
LEMMA ClearVFits ==
  ASSUME NEW s \in States, NEW dst \in Places, NEW n \in Int,
         NEW t, t = SWrite(s, dst, n), ~t.fault, "V" \notin t.ccr
  PROVE  ~Overflow(DstWidth(dst), n)
<1>1. Stored(s, t, dst, SStores(dst, n), Overflow(DstWidth(dst), n), Carry(DstWidth(dst), n))
  BY SWriteIs
<1>2. dst.ea # "imm"
  BY <1>1, Zenon DEF Stored, Wrote
<1>3. QED
  BY <1>1, <1>2, Zenon DEF Stored

\* SEX, ADD, ASL, INC, DEC and NEG, and MULS into a long, set V when the signed result
\* does not fit: with V clear the destination reads back as the exact integer, which is
\* one that int_t holds (cpu.cc's stest and ea_swrite, machine.hh's signed_ and sex).
THEOREM ResultsFitOrAreFlagged == Spec => []OverflowIsFlagged
<1>1. Inv => OverflowIsFlagged
  <2>1. SUFFICES ASSUME Inv, NEW op \in {"SEX", "ADD", "MULS", "ASL", "INC", "DEC", "NEG"},
                        RanOnce(op), "V" \notin st.ccr,
                        LET i == prog[1]
                            ea == EaRead(start, i)
                            dn == DRead(start, i.dr)
                            n == IF op \in Unaries THEN Exact(i, ea, ea)
                                 ELSE IF i.todr THEN Exact(i, ea, dn)
                                 ELSE Exact(i, dn, ea)
                        IN n \in -IntSign .. IntSign - 1 /\ (op = "MULS" => IntoLong(i))
                 PROVE  LET i == prog[1]
                            ea == EaRead(start, i)
                            dn == DRead(start, i.dr)
                            n == IF op \in Unaries THEN Exact(i, ea, ea)
                                 ELSE IF i.todr THEN Exact(i, ea, dn)
                                 ELSE Exact(i, dn, ea)
                        IN Result(i) = n
    BY DEF OverflowIsFlagged
  <2> DEFINE i == prog[1]
             ea == EaRead(start, i)
             dn == DRead(start, i.dr)
             n == IF op \in Unaries THEN Exact(i, ea, ea)
                  ELSE IF i.todr THEN Exact(i, ea, dn) ELSE Exact(i, dn, ea)
             dst == IF op \in Unaries THEN Ea(i) ELSE Dst(i)
  <2>1a. n \in -IntSign .. IntSign - 1 /\ (op = "MULS" => IntoLong(i))
    BY <2>1
  <2>2. /\ i \in Instructions /\ i.op = op /\ start \in States /\ Narrow(start)
        /\ st = Done(start, i) /\ ~st.fault /\ st \in States
    BY <2>1, OneRan
  <2>3. /\ Arg(start, i).u \in Nat /\ Arg(start, i).s \in Int
        /\ Operand(start, i).u \in Nat /\ Operand(start, i).s \in Int
        /\ ea.s \in Int
    BY <2>2, ArgumentsAre, OperandsFit, Weight DEF Fits
  <2>4. dst \in Places
    BY <2>2, PlacesAre
  <2>5. /\ n \in Int
        /\ st = SWrite(start, dst, n) \/
             (op = "MULS" /\ st = After(SWrite(start, dst, n), "V", Overflow(Long, n)))
    <3>1. CASE op \in Unaries
      <4>1. op = "INC" \/ op = "DEC" \/ op = "NEG"
        BY <2>1, <3>1 DEF Unaries
      <4>2. st = Unary(start, i)
        BY <2>2, <3>1 DEF Done
      <4>3. n = Exact(i, ea, ea) /\ dst = Ea(i)
        BY <3>1
      <4> HIDE DEF n, dst
      <4>4. QED
        BY <2>2, <2>3, <4>1, <4>2, <4>3 DEF Unary, Exact
    <3>2. CASE op \notin Unaries
      <4>1. op = "SEX" \/ op = "ADD" \/ op = "MULS" \/ op = "ASL"
        BY <2>1, <3>2 DEF Unaries
      <4>2. st = Binary(start, i) /\ dst = Dst(i)
        BY <2>2, <3>2, <4>1 DEF Done
      <4>3. n = Exact(i, Arg(start, i), Operand(start, i))
        BY <3>2 DEF Arg, Operand
      <4> HIDE DEF n, dst, i
      <4>4. CASE op = "SEX"
        <5>1. Binary(start, i) = SWrite(start, Dst(i), Arg(start, i).s)
          BY <2>2, <4>4 DEF Binary, Arg, Operand, Dst, Rotations, Shifts
        <5>2. n = Arg(start, i).s
          BY <2>2, <4>3, <4>4 DEF Exact
        <5>3. QED
          BY <2>3, <4>2, <5>1, <5>2
      <4>5. CASE op = "ADD"
        <5>1. Binary(start, i) = SWrite(start, Dst(i), Operand(start, i).s + Arg(start, i).s)
          BY <2>2, <4>5 DEF Binary, Arg, Operand, Dst, Rotations, Shifts
        <5>2. n = Operand(start, i).s + Arg(start, i).s
          BY <2>2, <4>3, <4>5 DEF Exact
        <5>3. QED
          BY <2>3, <4>2, <5>1, <5>2
      <4>6. CASE op = "ASL"
        <5>1. Binary(start, i) = Shift(start, i.op, Dst(i), Operand(start, i), Arg(start, i).u)
          BY <2>2, <4>6 DEF Binary, Arg, Operand, Dst, Rotations, Shifts
        <5>2. n = Operand(start, i).s * TwoTo(Arg(start, i).u)
          BY <2>2, <4>3, <4>6 DEF Exact
        <5>3. TwoTo(Arg(start, i).u) \in Nat
          BY <2>3, TwoToIs
        <5>4. n \in Int
          BY <2>3, <5>2, <5>3
        <5>5. AsInt(n) = n
          BY <2>1a, <5>4, KeptByInt
        <5>6. Binary(start, i) = SWrite(start, Dst(i), AsInt(n))
          BY <2>2, <4>6, <5>1, <5>2 DEF Shift
        <5>7. QED
          BY <4>2, <5>4, <5>5, <5>6
      <4>7. CASE op = "MULS"
        <5>1. n = Operand(start, i).s * Arg(start, i).s
          BY <2>2, <4>3, <4>7 DEF Exact
        <5>2. n \in Int
          BY <2>3, <5>1
        <5>3. AsInt(n) = n
          BY <2>1a, <5>2, KeptByInt
        <5>4. Binary(start, i) =
                After(SWrite(start, Dst(i), AsInt(n)), "V", Overflow(Long, AsInt(n)))
          BY <2>2, <4>7, <5>1 DEF Binary, Arg, Operand, Dst, Rotations, Shifts
        <5>5. QED
          BY <4>2, <4>7, <5>2, <5>3, <5>4
      <4>8. QED
        BY <4>1, <4>4, <4>5, <4>6, <4>7
    <3>3. QED
      BY <3>1, <3>2
  <2> HIDE DEF n
  <2> DEFINE t == SWrite(start, dst, n)
  <2>6. /\ ~Overflow(DstWidth(dst), n) /\ ~t.fault
        /\ st.d = t.d /\ st.mem = t.mem
    <3>1. CASE st = t
      BY <2>1, <2>2, <2>4, <2>5, <3>1, ClearVFits
    <3>2. CASE op = "MULS" /\ st = After(t, "V", Overflow(Long, n))
      <4>1. t \in States
        BY <2>2, <2>4, <2>5, SWriteIs DEF Stored
      <4>2. "V" \in Bits /\ "MULS" \notin Unaries /\ Overflow(Long, n) \in BOOLEAN
        BY DEF Bits, Unaries, Overflow
      <4>3. DstWidth(dst) = Long
        <5>1. IntoLong(i) /\ dst = Dst(i)
          BY <2>1a, <3>2, <4>2
        <5>2. i.todr \/ i.ea = "reg" \/ i.sz = 2
          BY <5>1 DEF IntoLong
        <5>3. QED
          BY <2>2, <5>1, <5>2, PlacesAre DEF DstWidth, Dst, Width, Ea, DReg
      <4> HIDE DEF t, dst, i
      <4>4. ~t.fault
        BY <2>2, <3>2, Zenon DEF After
      <4>5. st = Flag(t, "V", Overflow(Long, n))
        BY <3>2, <4>4, Zenon DEF After
      <4>6. Flagged(t, st, "V", Overflow(Long, n))
        BY <4>1, <4>2, <4>5, FlagIs, Zenon
      <4>7. QED
        BY <2>1, <4>3, <4>4, <4>6, Zenon DEF Flagged, Alike
    <3>3. QED
      BY <2>5, <3>1, <3>2
  <2>7. /\ dst.ea = "reg" \/ dst.ea = "mem"
        /\ dst.ea = "reg" => DRead(st, dst.r).s = n
        /\ dst.ea = "mem" => Sex(Width(dst.sz), Load(st.mem, dst.sz)) = n
    <3> HIDE DEF dst, i, ea, dn
    <3>1. start \in States /\ n \in Int
      BY <2>2, <2>5
    <3>2. SignedBack(start, t, dst, n)
      BY <2>4, <2>6, <3>1, SReadsBack, Zenon
    <3>3. DRead(st, dst.r) = DRead(t, dst.r) /\ Load(st.mem, dst.sz) = Load(t.mem, dst.sz)
      BY <2>6, Zenon DEF DRead
    <3>4. QED
      BY <3>2, <3>3, Zenon DEF SignedBack
  <2>8. Result(i) = n
    <3>1. CASE op \notin Unaries /\ i.todr
      <4>1. dst.ea = "reg" /\ dst.r = i.dr
        BY <2>2, <3>1, PlacesAre DEF Dst
      <4>2. Result(i) = DRead(st, i.dr).s
        BY <2>2, <3>1 DEF Result
      <4>3. QED
        BY <2>7, <4>1, <4>2
    <3>2. CASE ~(op \notin Unaries /\ i.todr)
      <4>1. dst.ea = i.ea /\ dst.r = i.r /\ dst.sz = i.sz
        BY <2>2, <3>2, PlacesAre DEF Dst
      <4>2. Result(i) = IF i.ea = "reg" THEN DRead(st, i.r).s ELSE EaRead(st, i).s
        BY <2>2, <3>2 DEF Result, Left
      <4>3. i.ea = "mem" => EaRead(st, i).s = Sex(Width(i.sz), Load(st.mem, i.sz))
        BY DEF EaRead, EaWidth
      <4>4. QED
        BY <2>7, <4>1, <4>2, <4>3
    <3>3. QED
      BY <3>1, <3>2
  <2>9. QED
    BY <2>8 DEF n
<1>2. QED
  BY <1>1, InvAlways, PTL

\* What a 36-bit number says as a signed one, of two that are not the negative zero.
LEMMA SignedOrder ==
  ASSUME NEW x \in 0 .. 2 * Long - 1, NEW y \in 0 .. 2 * Long - 1, x # Long, y # Long,
         NEW v, NEW w, v = Sex(Long, x), w = Sex(Long, y)
  PROVE  /\ v \in Int /\ w \in Int /\ (v = w <=> x = y)
         /\ (IF x = v THEN x = y ELSE v = w) <=> x = y
<1>1. Long \in Nat \ {0}
  BY Weight
<1>2. v = (IF x < Long THEN x ELSE Long - x) /\ w = (IF y < Long THEN y ELSE Long - y)
  BY <1>1, SexIs
<1>3. QED
  BY <1>1, <1>2

\* After CMP each conditional branch decides as the integers, or the bits, compare
\* (cpu.cc's CMP and the conditions of the branches).
THEOREM BranchesDecide == Spec => []CompareDecides
<1>1. Inv => CompareDecides
  <2>1. SUFFICES ASSUME Inv, RanOnce("CMP") PROVE CompareDecides
    BY DEF CompareDecides
  <2> DEFINE i == prog[1]
             ea == EaRead(start, i)
             dn == DRead(start, i.dr)
             a == IF i.todr THEN ea ELSE dn
             u == IF i.todr THEN dn ELSE ea
  <2>2. /\ i \in Instructions /\ i.op = "CMP" /\ start \in States /\ Narrow(start)
        /\ ~start.fault /\ st = Done(start, i)
    BY <2>1, OneRan
  <2>3. a = Arg(start, i) /\ u = Operand(start, i)
    BY DEF Arg, Operand
  <2>4. st = Compared(start, u, a)
    <3>1. st = Binary(start, i)
      BY <2>2 DEF Done, Unaries
    <3>2. QED
      BY <2>2, <3>1 DEF Binary, Rotations, Shifts
  <2>5. a.u \in Int /\ a.s \in Int /\ u.u \in Int /\ u.s \in Int
    <3>1. /\ Arg(start, i).u \in Int /\ Arg(start, i).s \in Int
          /\ Operand(start, i).u \in Int /\ Operand(start, i).s \in Int
      BY <2>2, ArgumentsAre
    <3>2. QED
      BY <2>3, <3>1
  <2>6. ASSUME EaWidth(i) = Long, a.u # Long, u.u # Long
        PROVE  /\ a.s = Sex(Long, a.u) /\ u.s = Sex(Long, u.u)
               /\ a.u \in 0 .. 2 * Long - 1 /\ u.u \in 0 .. 2 * Long - 1
    <3>1. IsOperand(ea, Long)
      BY <2>2, <2>6, EaReadIs
    <3>2. IsOperand(dn, Long)
      BY <2>2, PlacesAre, DReadIs DEF Narrow
    <3>3. QED
      BY <3>1, <3>2 DEF IsOperand
  <2> HIDE DEF a, u
  <2>7. /\ "C" \in st.ccr <=> a.u > u.u
        /\ "V" \in st.ccr <=> a.s > u.s
        /\ "Z" \in st.ccr <=> IF u.u = u.s THEN u.u = a.u ELSE u.s = a.s
    BY <2>2, <2>4, <2>5, ComparedIs
  <2>8. ASSUME EaWidth(i) = Long, a.u # Long, u.u # Long
        PROVE  ("Z" \in st.ccr <=> u.u = a.u) /\ (u.s = a.s <=> u.u = a.u)
    <3>1. /\ a.s = Sex(Long, a.u) /\ u.s = Sex(Long, u.u)
          /\ a.u \in 0 .. 2 * Long - 1 /\ u.u \in 0 .. 2 * Long - 1
      BY <2>6, <2>8
    <3> DEFINE x == u.u
               y == a.u
               v == u.s
               w == a.s
    <3>2. x \in 0 .. 2 * Long - 1 /\ y \in 0 .. 2 * Long - 1 /\ x # Long /\ y # Long
            /\ v = Sex(Long, x) /\ w = Sex(Long, y)
      BY <2>8, <3>1
    <3>3. "Z" \in st.ccr <=> (IF x = v THEN x = y ELSE v = w)
      BY <2>7
    <3> HIDE DEF x, y, v, w
    <3>4. (v = w <=> x = y) /\ ((IF x = v THEN x = y ELSE v = w) <=> x = y)
      BY <3>2, SignedOrder
    <3>5. ("Z" \in st.ccr <=> x = y) /\ (v = w <=> x = y)
      BY <3>3, <3>4
    <3>6. QED
      BY <3>5 DEF x, y, v, w
  <2>9. EaWidth(i) = Long /\ a.u # Long /\ u.u # Long =>
         /\ Taken("BLT", st.ccr) = (u.s < a.s) /\ Taken("BGE", st.ccr) = (u.s >= a.s)
         /\ Taken("BLE", st.ccr) = (u.s <= a.s) /\ Taken("BGT", st.ccr) = (u.s > a.s)
         /\ Taken("BLO", st.ccr) = (u.u < a.u) /\ Taken("BHS", st.ccr) = (u.u >= a.u)
         /\ Taken("BLS", st.ccr) = (u.u <= a.u) /\ Taken("BHI", st.ccr) = (u.u > a.u)
         /\ Taken("BEQ", st.ccr) = (u.u = a.u) /\ Taken("BNE", st.ccr) = (u.u # a.u)
    <3>1. SUFFICES ASSUME EaWidth(i) = Long, a.u # Long, u.u # Long
                   PROVE
         /\ Taken("BLT", st.ccr) = (u.s < a.s) /\ Taken("BGE", st.ccr) = (u.s >= a.s)
         /\ Taken("BLE", st.ccr) = (u.s <= a.s) /\ Taken("BGT", st.ccr) = (u.s > a.s)
         /\ Taken("BLO", st.ccr) = (u.u < a.u) /\ Taken("BHS", st.ccr) = (u.u >= a.u)
         /\ Taken("BLS", st.ccr) = (u.u <= a.u) /\ Taken("BHI", st.ccr) = (u.u > a.u)
         /\ Taken("BEQ", st.ccr) = (u.u = a.u) /\ Taken("BNE", st.ccr) = (u.u # a.u)
      OBVIOUS
    <3>2. ("Z" \in st.ccr <=> u.u = a.u) /\ (u.s = a.s <=> u.u = a.u)
      BY <2>8, <3>1
    <3>3. Taken("BLT", st.ccr) = (u.s < a.s) /\ Taken("BGE", st.ccr) = (u.s >= a.s)
      BY <2>5, <2>7 DEF Taken
    <3>4. Taken("BLE", st.ccr) = (u.s <= a.s) /\ Taken("BGT", st.ccr) = (u.s > a.s)
      BY <2>5, <2>7, <3>2 DEF Taken
    <3>5. Taken("BLO", st.ccr) = (u.u < a.u) /\ Taken("BHS", st.ccr) = (u.u >= a.u)
      BY <2>5, <2>7 DEF Taken
    <3>6. Taken("BLS", st.ccr) = (u.u <= a.u) /\ Taken("BHI", st.ccr) = (u.u > a.u)
      BY <2>5, <2>7, <3>2 DEF Taken
    <3>7. Taken("BEQ", st.ccr) = (u.u = a.u) /\ Taken("BNE", st.ccr) = (u.u # a.u)
      BY <3>2 DEF Taken
    <3>8. QED
      BY <3>3, <3>4, <3>5, <3>6, <3>7
  <2>10. QED
    BY <2>9 DEF CompareDecides, a, u
<1>2. QED
  BY <1>1, InvAlways, PTL

LEMMA DivURan ==
  ASSUME NEW s \in States, Narrow(s), ~s.fault, NEW i \in Instructions, i.todr,
         ~(i.ea = "reg" /\ i.r = i.dr),
         NEW a, a = EaRead(s, i), a.u # 0, NEW u, u = DRead(s, i.dr),
         NEW t, t = DivU(s, i, u, a), ~t.fault
  PROVE  LET q == DRead(t, i.dr).u
             r == IF i.ea = "reg" THEN DRead(t, i.r).u ELSE EaRead(t, i).u
         IN u.u = q * a.u + r /\ r < a.u
<1> DEFINE x == u.u
           y == a.u
           q == Quo(x, y)
           r == Rem(x, y)
           e == Ea(i)
           g == DReg(i.dr)
           m == UWrite(s, e, r)
<1>1. /\ e \in Places /\ e.ea = i.ea /\ e.r = i.r /\ e.sz = i.sz
      /\ g \in Places /\ g.ea = "reg" /\ g.r = i.dr /\ i.dr \in Regs
  BY PlacesAre
<1>2. t = IF m.fault THEN m ELSE UWrite(m, g, q)
  BY DEF DivU
<1>3. x \in 0 .. 2 * Long - 1
  BY <1>1, DReadIs
<1>4. EaWidth(i) \in Nat \ {0} /\ EaWidth(i) <= Long /\ y \in 0 .. 2 * EaWidth(i) - 1 /\ y # 0
  BY EaReadIs DEF IsOperand
<1>5. DstWidth(e) \in Nat \ {0} /\ (i.ea # "imm" => EaWidth(i) <= DstWidth(e)) /\ DstWidth(g) = Long
  BY <1>1, <1>4, Weight, Sizes DEF DstWidth, EaWidth, Places
<1>5a. Long \in Nat \ {0}
  BY Weight
<1> HIDE DEF x, y, q, r, e, g, m
<1>6. q \in Nat /\ r \in Nat /\ x = q * y + r /\ r < y /\ q <= x
  <2>1. x \in Int /\ y \in Int /\ y # 0 /\ x >= 0 /\ y > 0
    BY <1>3, <1>4
  <2>2. /\ Quo(x, y) \in Int /\ Rem(x, y) \in Int /\ x = Quo(x, y) * y + Rem(x, y)
        /\ Abs(Rem(x, y)) < Abs(y) /\ Abs(Quo(x, y)) <= Abs(x)
        /\ Rem(x, y) >= 0 /\ Quo(x, y) >= 0
    BY <2>1, QuoRem
  <2>3. QED
    BY <2>1, <2>2 DEF q, r, Abs
<1>7. ~m.fault /\ t = UWrite(m, g, q)
  BY <1>2
<1>8. m \in States
  BY <1>1, <1>6, UWriteGood DEF Good, m
<1>9. i.ea # "imm"
  <2>1. Wrote(s, m, e, UStores(e, r))
    BY <1>1, <1>6, UWriteIs DEF Stored, m
  <2>2. QED
    BY <1>1, <1>7, <2>1, Zenon DEF Wrote
<1>10. UnsignedBack(s, m, e, r)
  <2>1. r \in 0 .. 2 * DstWidth(e) - 1
    BY <1>4, <1>5, <1>6, <1>9
  <2>2. m = UWrite(s, e, r)
    BY DEF m
  <2>3. QED
    BY <1>1, <1>7, <2>1, <2>2, UReadsBack, Zenon
<1>11. UnsignedBack(m, t, g, q)
  <2>1. q \in 0 .. 2 * DstWidth(g) - 1
    BY <1>3, <1>5, <1>5a, <1>6
  <2>2. QED
    BY <1>1, <1>7, <1>8, <2>1, UReadsBack, Zenon
<1>12. t.d = [m.d EXCEPT ![i.dr] = q] /\ t.mem = m.mem /\ DRead(t, i.dr).u = q
  BY <1>1, <1>11 DEF UnsignedBack
<1>13. CASE i.ea = "reg"
  <2>1. DRead(m, i.r).u = r
    BY <1>1, <1>10, <1>13 DEF UnsignedBack
  <2>2. i.r \in Regs /\ m.d \in [Regs -> Nat]
    BY <1>8 DEF States, Instructions
  <2>3. t.d[i.r] = m.d[i.r]
    BY <1>1, <1>12, <1>13, <2>2
  <2>4. DRead(t, i.r).u = r
    BY <2>1, <2>3 DEF DRead
  <2>5. QED
    BY <1>6, <1>12, <1>13, <2>4 DEF x, y
<1>14. CASE i.ea # "reg"
  <2>1. i.ea = "mem" /\ Load(m.mem, i.sz) = r
    BY <1>1, <1>10, <1>14 DEF UnsignedBack
  <2>2. EaRead(t, i).u = r
    BY <1>12, <2>1 DEF EaRead
  <2>3. QED
    BY <1>6, <1>12, <1>14, <2>2 DEF x, y
<1>15. QED
  BY <1>13, <1>14

LEMMA DivSRan ==
  ASSUME NEW s \in States, Narrow(s), ~s.fault, NEW i \in Instructions, i.todr,
         ~(i.ea = "reg" /\ i.r = i.dr),
         NEW a, a = EaRead(s, i), a.s # 0, NEW u, u = DRead(s, i.dr),
         NEW t, t = DivS(s, i, u, a), ~t.fault
  PROVE  LET q == DRead(t, i.dr).s
             r == IF i.ea = "reg" THEN DRead(t, i.r).s ELSE EaRead(t, i).s
         IN u.s = q * a.s + r /\ Abs(r) < Abs(a.s)
<1> DEFINE x == u.s
           y == a.s
           q == Quo(x, y)
           r == Rem(x, y)
           e == Ea(i)
           g == DReg(i.dr)
           m == SWrite(s, e, r)
<1>1. /\ e \in Places /\ e.ea = i.ea /\ e.r = i.r /\ e.sz = i.sz
      /\ g \in Places /\ g.ea = "reg" /\ g.r = i.dr /\ i.dr \in Regs
  BY PlacesAre
<1>2. t = IF m.fault THEN m ELSE SWrite(m, g, q)
  BY DEF DivS
<1>3. x \in 1 - Long .. Long - 1
  BY <1>1, OperandsFit DEF Fits
<1>4. EaWidth(i) \in Nat \ {0} /\ EaWidth(i) <= Long
        /\ y \in 1 - EaWidth(i) .. EaWidth(i) - 1 /\ y # 0
  BY EaReadIs DEF IsOperand
<1>5. DstWidth(e) \in Nat \ {0} /\ (i.ea # "imm" => EaWidth(i) <= DstWidth(e)) /\ DstWidth(g) = Long
  BY <1>1, <1>4, Weight, Sizes DEF DstWidth, EaWidth, Places
<1>5a. Long \in Nat \ {0}
  BY Weight
<1> HIDE DEF x, y, q, r, e, g, m
<1>6. q \in Int /\ r \in Int /\ x = q * y + r /\ Abs(r) < Abs(y) /\ Abs(q) <= Abs(x)
  BY <1>3, <1>4, QuoRem DEF q, r
<1>7. ~m.fault /\ t = SWrite(m, g, q)
  BY <1>2
<1>8. m \in States
  BY <1>1, <1>6, SWriteGood DEF m
<1>9. i.ea # "imm"
  <2>1. Wrote(s, m, e, SStores(e, r))
    BY <1>1, <1>6, SWriteIs DEF Stored, m
  <2>2. QED
    BY <1>1, <1>7, <2>1, Zenon DEF Wrote
<1>10. SignedBack(s, m, e, r)
  <2>1. ~Overflow(DstWidth(e), r)
    BY <1>4, <1>5, <1>6, <1>9 DEF Overflow, Abs
  <2>2. m = SWrite(s, e, r)
    BY DEF m
  <2>3. QED
    BY <1>1, <1>6, <1>7, <2>1, <2>2, SReadsBack, Zenon
<1>11. SignedBack(m, t, g, q)
  <2>1. ~Overflow(DstWidth(g), q)
    BY <1>3, <1>5, <1>5a, <1>6 DEF Overflow, Abs
  <2>2. QED
    BY <1>1, <1>6, <1>7, <1>8, <2>1, SReadsBack, Zenon
<1>12. t.d = [m.d EXCEPT ![i.dr] = Signed(Long, q)] /\ t.mem = m.mem /\ DRead(t, i.dr).s = q
  BY <1>1, <1>11 DEF SignedBack
<1>13. CASE i.ea = "reg"
  <2>1. DRead(m, i.r).s = r
    BY <1>1, <1>10, <1>13 DEF SignedBack
  <2>2. i.r \in Regs /\ m.d \in [Regs -> Nat]
    BY <1>8 DEF States, Instructions
  <2>3. t.d[i.r] = m.d[i.r]
    BY <1>1, <1>12, <1>13, <2>2
  <2>4. DRead(t, i.r).s = r
    BY <2>1, <2>3 DEF DRead
  <2>5. QED
    BY <1>6, <1>12, <1>13, <2>4 DEF x, y
<1>14. CASE i.ea # "reg"
  <2>1. i.ea = "mem" /\ Sex(Width(i.sz), Load(m.mem, i.sz)) = r
    BY <1>1, <1>10, <1>14 DEF SignedBack
  <2>2. EaRead(t, i).s = r
    BY <1>12, <2>1 DEF EaRead, EaWidth
  <2>3. QED
    BY <1>6, <1>12, <1>14, <2>2 DEF x, y
<1>15. QED
  BY <1>13, <1>14

\* DIV EA,Dn leaves the quotient and the remainder of any two operands, in the register
\* and the place it divided by (cpu.cc's DIVU and DIVS).
THEOREM QuotientAndRemainder == Spec => []DivisionIsExact
<1>1. Inv => DivisionIsExact
  <2>1. SUFFICES ASSUME Inv, NEW op \in {"DIVU", "DIVS"}, RanOnce(op), prog[1].todr,
                        ~(prog[1].ea = "reg" /\ prog[1].r = prog[1].dr)
                 PROVE  LET i == prog[1]
                            a == EaRead(start, i)
                            u == DRead(start, i.dr)
                            q == DRead(st, i.dr)
                            r == Left(i)
                        IN IF op = "DIVU"
                           THEN a.u # 0 => u.u = q.u * a.u + r.u /\ r.u < a.u
                           ELSE a.s # 0 => u.s = q.s * a.s + r.s /\ Abs(r.s) < Abs(a.s)
    BY DEF DivisionIsExact
  <2> DEFINE i == prog[1]
             a == EaRead(start, i)
             u == DRead(start, i.dr)
  <2>2. /\ i \in Instructions /\ i.op = op /\ start \in States /\ Narrow(start)
        /\ ~start.fault /\ st = Done(start, i) /\ ~st.fault
    BY <2>1, OneRan
  <2>3. st = Binary(start, i) /\ a = Arg(start, i) /\ u = Operand(start, i)
    BY <2>1, <2>2 DEF Done, Unaries, Arg, Operand
  <2>4. /\ Left(i).u = IF i.ea = "reg" THEN DRead(st, i.r).u ELSE EaRead(st, i).u
        /\ Left(i).s = IF i.ea = "reg" THEN DRead(st, i.r).s ELSE EaRead(st, i).s
    BY DEF Left
  <2>5. CASE op = "DIVU"
    <3>1. st = DivU(start, i, u, a)
      BY <2>2, <2>3, <2>5 DEF Binary, Arg, Operand, Rotations, Shifts
    <3>2. i.todr /\ ~(i.ea = "reg" /\ i.r = i.dr)
      BY <2>1
    <3>3. ASSUME a.u # 0
          PROVE  u.u = DRead(st, i.dr).u * a.u + Left(i).u /\ Left(i).u < a.u
      <4> DEFINE b == a
                 v == u
      <4>1. b = EaRead(start, i) /\ v = DRead(start, i.dr) /\ b.u # 0
        BY <3>3
      <4>2. st = DivU(start, i, v, b)
        BY <3>1
      <4>3. b = a /\ v = u
        OBVIOUS
      <4> HIDE DEF a, u, b, v, i
      <4>4. v.u = DRead(st, i.dr).u * b.u + Left(i).u /\ Left(i).u < b.u
        BY <2>2, <2>4, <3>2, <4>1, <4>2, DivURan
      <4>5. QED
        BY <4>3, <4>4
    <3>4. QED
      BY <2>5, <3>3
  <2>6. CASE op = "DIVS"
    <3>1. st = DivS(start, i, u, a)
      BY <2>2, <2>3, <2>6 DEF Binary, Arg, Operand, Rotations, Shifts
    <3>2. i.todr /\ ~(i.ea = "reg" /\ i.r = i.dr)
      BY <2>1
    <3>3. ASSUME a.s # 0
          PROVE  u.s = DRead(st, i.dr).s * a.s + Left(i).s /\ Abs(Left(i).s) < Abs(a.s)
      <4> DEFINE b == a
                 v == u
      <4>1. b = EaRead(start, i) /\ v = DRead(start, i.dr) /\ b.s # 0
        BY <3>3
      <4>2. st = DivS(start, i, v, b)
        BY <3>1
      <4>3. b = a /\ v = u
        OBVIOUS
      <4> HIDE DEF a, u, b, v, i
      <4>4. v.s = DRead(st, i.dr).s * b.s + Left(i).s /\ Abs(Left(i).s) < Abs(b.s)
        BY <2>2, <2>4, <3>2, <4>1, <4>2, DivSRan
      <4>5. QED
        BY <4>3, <4>4
    <3>4. QED
      BY <2>6, <3>3
  <2>7. QED
    BY <2>1, <2>5, <2>6
<1>2. QED
  BY <1>1, InvAlways, PTL

-----------------------------------------------------------------------------
(* A rotation and its inverse *)

\* The bit that comes in is found at the top, and turning back brings the number back.
LEMMA TurnedBits ==
  ASSUME NEW w \in Nat \ {0}, NEW n \in 0 .. 2 * w - 1, NEW c \in BOOLEAN
  PROVE  /\ ShiftIn(w, n, c) \in 0 .. 2 * w - 1 /\ (Bit(w, ShiftIn(w, n, c)) <=> c)
         /\ Unsigned(w, 2 * ShiftIn(w, n, c) + (IF Bit(1, n) THEN 1 ELSE 0)) = n
<1> DEFINE h == n \div 2
           l == n % 2
           x == ShiftIn(w, n, c)
<1>1. h \in 0 .. w - 1 /\ l \in 0 .. 1 /\ n = 2 * h + l
  OBVIOUS
<1>2. Bit(1, n) <=> l = 1
  <2>1. n \div 1 = n
    OBVIOUS
  <2>2. QED
    BY <2>1 DEF Bit
<1>3. x = IF c THEN SetBit(w, h) ELSE h
  BY DEF ShiftIn
<1> HIDE DEF h, l, x
<1>4. ~Bit(w, h)
  <2>1. h \in 0 .. 2 * w - 1 /\ ~(h >= w)
    BY <1>1
  <2>2. QED
    BY <2>1, BitInRange
<1>5. x = h + (IF c THEN w ELSE 0)
  BY <1>1, <1>3, <1>4 DEF SetBit
<1>6. x \in 0 .. 2 * w - 1 /\ (x >= w <=> c)
  BY <1>1, <1>5
<1>7. Bit(w, x) <=> c
  BY <1>6, BitInRange
<1> DEFINE y == 2 * x + (IF Bit(1, n) THEN 1 ELSE 0)
<1>8. y = n + (IF c THEN 2 * w ELSE 0)
  BY <1>1, <1>2, <1>5
<1> HIDE DEF y
<1>9. y % (2 * w) = n
  <2>1. y = (2 * w) * (IF c THEN 1 ELSE 0) + n
    BY <1>8
  <2> DEFINE b == 2 * w
             q == IF c THEN 1 ELSE 0
  <2>2. b \in Nat \ {0} /\ q \in Int /\ n \in 0 .. b - 1 /\ y = b * q + n
    BY <2>1
  <2> HIDE DEF b, q
  <2>3. y % b = n
    BY <2>2, DivUnique
  <2>4. QED
    BY <2>3 DEF b
<1>10. QED
  BY <1>6, <1>7, <1>9 DEF x, y, Unsigned

\* What a place holds, and what writing that number again after another does.
Held(s, dst) == IF dst.ea = "reg" THEN s.d[dst.r] ELSE Load(s.mem, dst.sz)

Restorable(s, g, dst, x) ==
  /\ Held(g, dst) = x
  /\ \A t : Wrote(g, t, dst, Held(s, dst)) /\ ~t.fault => t.d = s.d /\ t.mem = s.mem

LEMMA Restored ==
  ASSUME NEW s \in States, NEW dst \in Places, NEW x \in 0 .. 2 * DstWidth(dst) - 1,
         NEW f \in States, Alike(s, f), NEW u, UnsignedBack(f, u, dst, x),
         NEW g \in States, Alike(u, g)
  PROVE  Restorable(s, g, dst, x)
<1>1. dst.sz \in 0 .. 2 /\ dst.r \in Regs
  BY DEF Places
<1>2. s.d \in [Regs -> Nat] /\ s.mem \in Memory /\ f.d = s.d /\ f.mem = s.mem
  BY DEF States, Alike
<1>3. g.d = u.d /\ g.mem = u.mem
  BY Zenon DEF Alike
<1>4. dst.ea = "reg" \/ dst.ea = "mem"
  BY Zenon DEF UnsignedBack
<1>5. CASE dst.ea = "reg"
  <2>1. g.d = [s.d EXCEPT ![dst.r] = x] /\ g.mem = s.mem
    BY <1>2, <1>3, <1>5, Zenon DEF UnsignedBack
  <2>2. g.d[dst.r] = x
    BY <1>1, <1>2, <2>1
  <2>3. ASSUME NEW t, Wrote(g, t, dst, Held(s, dst)) PROVE t.d = s.d /\ t.mem = s.mem
    <3>1. t.d = [g.d EXCEPT ![dst.r] = Held(s, dst)] /\ t.mem = g.mem
      BY <1>5, <2>3, Zenon DEF Wrote
    <3>2. Held(s, dst) = s.d[dst.r]
      BY <1>5 DEF Held
    <3>3. t.d = s.d
      BY <1>1, <1>2, <2>1, <3>1, <3>2
    <3>4. QED
      BY <2>1, <3>1, <3>3
  <2>4. QED
    BY <1>5, <2>2, <2>3 DEF Held, Restorable
<1>6. CASE dst.ea = "mem"
  <2>1. g.d = s.d /\ g.mem = Store(s.mem, dst.sz, x)
    BY <1>2, <1>3, <1>6, Zenon DEF UnsignedBack
  <2>2. x \in 0 .. 2 * Width(dst.sz) - 1
    BY <1>6 DEF DstWidth
  <2>3. Load(g.mem, dst.sz) = x /\ Store(g.mem, dst.sz, Load(s.mem, dst.sz)) = s.mem
    BY <1>1, <1>2, <2>1, <2>2, LoadStore, StoreBack
  <2>4. ASSUME NEW t, Wrote(g, t, dst, Held(s, dst)), ~t.fault
        PROVE  t.d = s.d /\ t.mem = s.mem
    <3>1. t.d = g.d /\ t.mem = Store(g.mem, dst.sz, Held(s, dst))
      BY <1>6, <2>4, Zenon DEF Wrote
    <3>2. Held(s, dst) = Load(s.mem, dst.sz)
      BY <1>6 DEF Held
    <3>3. QED
      BY <2>1, <2>3, <3>1, <3>2
  <2>5. QED
    BY <1>6, <2>3, <2>4 DEF Held, Restorable
<1>7. QED
  BY <1>4, <1>5, <1>6

LEMMA HeldInWidth ==
  ASSUME NEW s \in States, Narrow(s), NEW dst \in Places
  PROVE  DstWidth(dst) \in Nat \ {0} /\ Held(s, dst) \in 0 .. 2 * DstWidth(dst) - 1
<1>1. dst.sz \in 0 .. 2 /\ dst.r \in Regs
  BY DEF Places
<1>2. s.d[dst.r] \in Nat /\ s.d[dst.r] < 2 * Long /\ s.mem \in Memory
  BY <1>1 DEF States, Narrow
<1>3. Load(s.mem, dst.sz) \in 0 .. 2 * Width(dst.sz) - 1
  BY <1>1, <1>2, LoadInWidth
<1>4. Long \in Nat \ {0} /\ Width(dst.sz) \in Nat \ {0}
  BY <1>1, Weight, Sizes
<1>5. CASE dst.ea = "reg"
  BY <1>2, <1>4, <1>5 DEF Held, DstWidth
<1>6. CASE dst.ea # "reg"
  BY <1>3, <1>4, <1>6 DEF Held, DstWidth
<1>7. QED
  BY <1>5, <1>6

\* Rotate, at the width and on the number of a place.
Turn(s, op, dst) == Rotate(s, op, dst, DstWidth(dst), Held(s, dst))

LEMMA TurnedRound ==
  ASSUME NEW s \in States, Narrow(s), ~s.fault, NEW dst \in Places,
         NEW m, m = Turn(s, "ROR", dst), ~m.fault,
         NEW t, t = Turn(m, "ROL", dst), ~t.fault
  PROVE  t.d = s.d /\ t.mem = s.mem
<1> DEFINE w == DstWidth(dst)
           n == Held(s, dst)
           b == Bit(1, n)
           x == ShiftIn(w, n, b)
           f == Flag(s, "C", b)
           g == Flag(m, "C", Bit(w, x))
           y == 2 * x + (IF Bit(w, x) THEN 1 ELSE 0)
<1>1. w \in Nat \ {0} /\ n \in 0 .. 2 * w - 1
  BY HeldInWidth
<1>2. m = UWrite(f, dst, x)
  BY DEF Turn, Rotate
<1>3. t = UWrite(Flag(m, "C", Bit(w, Held(m, dst))), dst,
                 2 * Held(m, dst) + (IF Bit(w, Held(m, dst)) THEN 1 ELSE 0))
  BY DEF Turn, Rotate
<1>4. w = DstWidth(dst) /\ n = Held(s, dst)
  OBVIOUS
<1> HIDE DEF w, n
<1>5. b \in BOOLEAN
  BY DEF Bit
<1>6. x \in 0 .. 2 * w - 1 /\ (Bit(w, x) <=> b)
        /\ Unsigned(w, 2 * x + (IF Bit(1, n) THEN 1 ELSE 0)) = n
  BY <1>1, <1>5, TurnedBits
<1>7. Unsigned(w, y) = n
  BY <1>6
<1>8. y \in Int /\ Bit(w, x) \in BOOLEAN /\ "C" \in Bits
  BY <1>1, <1>6 DEF Bit, Bits
<1> HIDE DEF b, x, y
<1>9. f \in States /\ Alike(s, f)
  BY <1>5, <1>8, FlagIs, Zenon DEF Flagged
<1> HIDE DEF f
<1>10. UnsignedBack(f, m, dst, x)
  BY <1>2, <1>4, <1>6, <1>9, UReadsBack, Zenon
<1>11. m \in States
  <2>1. ~f.fault /\ x \in Int
    BY <1>1, <1>6, <1>9 DEF Alike
  <2>2. QED
    BY <1>2, <1>9, <2>1, UWriteGood, Zenon DEF Good
<1>12. g \in States /\ Alike(m, g)
  BY <1>8, <1>11, FlagIs, Zenon DEF Flagged
<1> HIDE DEF g
<1>13. Restorable(s, g, dst, x)
  <2>1. x \in 0 .. 2 * DstWidth(dst) - 1
    BY <1>4, <1>6
  <2>2. QED
    BY <1>9, <1>10, <1>12, <2>1, Restored, Zenon
<1>14. Held(m, dst) = x
  BY <1>12, <1>13, Zenon DEF Held, Alike, Restorable
<1>15. t = UWrite(g, dst, y)
  BY <1>3, <1>14 DEF g, y
<1>16. Wrote(g, t, dst, n)
  <2>1. Wrote(g, t, dst, UStores(dst, y))
    BY <1>8, <1>12, <1>15, UWriteIs, Zenon DEF Stored
  <2>2. UStores(dst, y) = n
    BY <1>4, <1>7 DEF UStores
  <2>3. QED
    BY <2>1, <2>2
<1>17. QED
  BY <1>4, <1>13, <1>16, Zenon DEF Restorable

LEMMA TurnedRoundC ==
  ASSUME NEW s \in States, Narrow(s), ~s.fault, NEW dst \in Places,
         NEW m, m = Turn(s, "RORC", dst), ~m.fault,
         NEW t, t = Turn(m, "ROLC", dst), ~t.fault
  PROVE  t.d = s.d /\ t.mem = s.mem /\ ("C" \in t.ccr <=> "C" \in s.ccr)
<1> DEFINE w == DstWidth(dst)
           n == Held(s, dst)
           b == Bit(1, n)
           c == "C" \in s.ccr
           x == ShiftIn(w, n, c)
           u == UWrite(s, dst, x)
           z == "C" \in m.ccr
           y == 2 * x + (IF z THEN 1 ELSE 0)
           v == UWrite(m, dst, y)
<1>1. w \in Nat \ {0} /\ n \in 0 .. 2 * w - 1
  BY HeldInWidth
<1>2. m = After(u, "C", b)
  BY DEF Turn, Rotate
<1>3. t = After(UWrite(m, dst, 2 * Held(m, dst) + (IF z THEN 1 ELSE 0)),
                "C", Bit(w, Held(m, dst)))
  BY DEF Turn, Rotate
<1>4. w = DstWidth(dst) /\ n = Held(s, dst)
  OBVIOUS
<1> HIDE DEF w, n
<1>5. b \in BOOLEAN /\ c \in BOOLEAN /\ "C" \in Bits
  BY DEF Bit, Bits
<1>5a. c <=> "C" \in s.ccr
  OBVIOUS
<1> HIDE DEF c
<1>6. x \in 0 .. 2 * w - 1 /\ (Bit(w, x) <=> c)
        /\ Unsigned(w, 2 * x + (IF Bit(1, n) THEN 1 ELSE 0)) = n
  BY <1>1, <1>5, TurnedBits
<1>7. 2 * x + (IF b THEN 1 ELSE 0) \in Int /\ x \in Int /\ Bit(w, x) \in BOOLEAN
  BY <1>1, <1>6 DEF Bit
<1>8. Unsigned(w, 2 * x + (IF b THEN 1 ELSE 0)) = n
  BY <1>6
<1> HIDE DEF b, x
<1>9. u \in States
  BY <1>7, UWriteGood, Zenon DEF Good
<1>10. ~u.fault /\ m = Flag(u, "C", b)
  BY <1>2 DEF After
<1>11. UnsignedBack(s, u, dst, x)
  BY <1>4, <1>6, <1>10, UReadsBack, Zenon
<1> HIDE DEF u
<1>12. m \in States /\ Alike(u, m) /\ ("C" \in m.ccr <=> b)
  <2>1. Flagged(u, m, "C", b)
    BY <1>5, <1>9, <1>10, FlagIs, Zenon
  <2>2. QED
    BY <2>1, Zenon DEF Flagged
<1>13. Restorable(s, m, dst, x)
  <2>1. Alike(s, s)
    BY Zenon DEF Alike
  <2>2. x \in 0 .. 2 * DstWidth(dst) - 1
    BY <1>4, <1>6
  <2>3. QED
    BY <1>11, <1>12, <2>1, <2>2, Restored, Zenon
<1>14. y \in Int /\ Unsigned(w, y) = n
  BY <1>7, <1>8, <1>12
<1> HIDE DEF y, z
<1>15. t = After(v, "C", Bit(w, x))
  BY <1>3, <1>13 DEF y, Restorable
<1>16. v \in States
  BY <1>12, <1>14, UWriteGood, Zenon DEF Good
<1>17. Wrote(m, v, dst, n)
  <2>1. Wrote(m, v, dst, UStores(dst, y))
    BY <1>12, <1>14, UWriteIs, Zenon DEF Stored
  <2>2. UStores(dst, y) = n
    BY <1>4, <1>14 DEF UStores
  <2>3. QED
    BY <2>1, <2>2
<1> HIDE DEF v
<1>18. ~v.fault /\ t = Flag(v, "C", Bit(w, x))
  BY <1>15 DEF After
<1>19. Alike(v, t) /\ ("C" \in t.ccr <=> Bit(w, x))
  <2>1. Flagged(v, t, "C", Bit(w, x))
    BY <1>5, <1>7, <1>16, <1>18, FlagIs, Zenon
  <2>2. QED
    BY <2>1, Zenon DEF Flagged
<1>20. v.d = s.d /\ v.mem = s.mem
  BY <1>4, <1>13, <1>17, <1>18, Zenon DEF Restorable
<1>21. QED
  BY <1>5a, <1>6, <1>19, <1>20, Zenon DEF Alike

LEMMA DoneTurns ==
  ASSUME NEW s \in States, Narrow(s), NEW i \in Instructions, i.op \in Rotations,
         (i.ea = "imm" /\ i.todr) \/ (i.ea = "mem" /\ ~i.todr)
  PROVE  Done(s, i) = Turn(s, i.op, Dst(i))
<1>1. Done(s, i) = Binary(s, i)
  BY DEF Done, Unaries, Rotations
<1>2. Binary(s, i) = Rotate(s, i.op, Dst(i), EaWidth(i), Operand(s, i).u)
  BY DEF Binary, Arg, Operand, Dst, Rotations, Shifts
<1>3. EaWidth(i) = DstWidth(Dst(i)) /\ Operand(s, i).u = Held(s, Dst(i))
  <2>1. CASE i.ea = "imm" /\ i.todr
    <3>1. Dst(i).ea = "reg" /\ Dst(i).r = i.dr /\ i.dr \in Regs
      BY <2>1, PlacesAre DEF Dst
    <3>2. DRead(s, i.dr).u = s.d[i.dr]
      BY <3>1, DReadIs DEF Narrow
    <3>3. QED
      BY <2>1, <3>1, <3>2 DEF EaWidth, DstWidth, Operand, Held
  <2>2. CASE i.ea = "mem" /\ ~i.todr
    <3>1. Dst(i).ea = "mem" /\ Dst(i).sz = i.sz
      BY <2>2, PlacesAre DEF Dst
    <3>2. EaRead(s, i).u = Load(s.mem, i.sz)
      BY <2>2, EaReadIs
    <3>3. QED
      BY <2>2, <3>1, <3>2 DEF EaWidth, DstWidth, Operand, Held
  <2>3. QED
    BY <2>1, <2>2
<1>4. QED
  BY <1>1, <1>2, <1>3 DEF Turn

\* The two instructions of Turned write the same place, one after the other.
LEMMA TurnedRan ==
  ASSUME Inv, Ended, NEW a, NEW b, prog \in Turned(a, b),
         a \in {"ROR", "RORC"}, b \in {"ROL", "ROLC"}
  PROVE  \E dst \in Places, m \in States :
           /\ start \in States /\ Narrow(start) /\ ~start.fault
           /\ m = Turn(start, a, dst) /\ ~m.fault /\ Narrow(m)
           /\ st = Turn(m, b, dst) /\ ~st.fault
<1> DEFINE i == prog[1]
           j == prog[2]
           m == Done(start, i)
<1>1. /\ Len(prog) = 2 /\ i.op = a /\ j.op = b
      /\ i.ea = j.ea /\ i.r = j.r /\ i.sz = j.sz /\ i.dr = j.dr /\ i.todr = j.todr
      /\ (i.ea = "imm" /\ i.todr) \/ (i.ea = "mem" /\ ~i.todr)
  <2> DEFINE Pair(todr, r, ea, v, sz) ==
               /\ prog = <<I(a, todr, r, ea, r, v, sz), I(b, todr, r, ea, r, v, sz)>>
               /\ (todr /\ ea = "imm") \/ (~todr /\ ea = "mem")
  <2>1. PICK todr, r, ea, v, sz : Pair(todr, r, ea, v, sz)
    <3>1. CASE prog \in {<<I(a, TRUE, r, "imm", r, 1, 2), I(b, TRUE, r, "imm", r, 1, 2)>> :
                          r \in Regs}
      <4>1. PICK r \in Regs :
              prog = <<I(a, TRUE, r, "imm", r, 1, 2), I(b, TRUE, r, "imm", r, 1, 2)>>
        BY <3>1
      <4>2. Pair(TRUE, r, "imm", 1, 2)
        BY <4>1
      <4> HIDE DEF Pair
      <4>3. QED
        BY <4>2, Zenon
    <3>2. ASSUME NEW sz \in 0 .. 2,
                 prog \in {<<I(a, FALSE, r, "mem", r, 0, sz), I(b, FALSE, r, "mem", r, 0, sz)>> :
                           r \in Regs}
          PROVE  \E todr, r, ea, v, w : Pair(todr, r, ea, v, w)
      <4>1. PICK r \in Regs :
              prog = <<I(a, FALSE, r, "mem", r, 0, sz), I(b, FALSE, r, "mem", r, 0, sz)>>
        BY <3>2
      <4>2. Pair(FALSE, r, "mem", 0, sz)
        BY <4>1
      <4> HIDE DEF Pair
      <4>3. QED
        BY <4>2, Zenon
    <3> HIDE DEF Pair
    <3>3. QED
      BY <3>1, <3>2, Zenon DEF Turned
  <2>2. Len(prog) = 2 /\ i = I(a, todr, r, ea, r, v, sz) /\ j = I(b, todr, r, ea, r, v, sz)
    BY <2>1
  <2>3. ASSUME NEW op PROVE LET k == I(op, todr, r, ea, r, v, sz)
                            IN /\ k.op = op /\ k.todr = todr /\ k.dr = r /\ k.ea = ea
                               /\ k.r = r /\ k.sz = sz
    BY DEF I
  <2> HIDE DEF i, j
  <2>4. QED
    BY <2>1, <2>2, <2>3
<1>2. prog \in Programs /\ at \in 1 .. Len(prog) + 1 /\ at > Len(prog) /\ ~st.fault
  BY DEF Inv, Ended
<1>3. at = 3
  BY <1>1, <1>2
<1>4. i \in Instructions /\ j \in Instructions
  <2>1. 1 \in 1 .. Len(prog) /\ 2 \in 1 .. Len(prog)
    BY <1>1
  <2>2. QED
    BY <1>2, <2>1, ProgramsAre
<1>5. start \in States /\ Narrow(start) /\ ~start.fault /\ ~m.fault /\ st = Done(m, j)
  BY <1>3 DEF Inv
<1>6. Dst(j) = Dst(i) /\ Dst(i) \in Places
  BY <1>1, <1>4, PlacesAre DEF Dst, DReg, Ea
<1> HIDE DEF i, j, m
<1>7. i.op \in Rotations /\ j.op \in Rotations /\ i.op \notin {"MULS", "ASL"}
  BY <1>1 DEF Rotations
<1>8. m \in States /\ Narrow(m)
  <2>1. Proper(start, i, m)
    BY <1>4, <1>5, DoneProper DEF m
  <2>2. QED
    BY <1>5, <1>7, <2>1, Zenon DEF Proper
<1>9. m = Turn(start, a, Dst(i))
  BY <1>1, <1>4, <1>5, <1>7, DoneTurns DEF m
<1>10. st = Turn(m, b, Dst(i))
  BY <1>1, <1>4, <1>5, <1>6, <1>7, <1>8, DoneTurns
<1>11. QED
  BY <1>2, <1>5, <1>6, <1>8, <1>9, <1>10

\* A rotation and its inverse give operand back, at every width in memory and at 36 bits
\* in a register, and through the carry they give C back (cpu.cc's ROR, ROL, RORC, ROLC).
THEOREM RotationsUndo == Spec => []RotatesReturn
<1>1. Inv => RotatesReturn
  <2>1. SUFFICES ASSUME Inv PROVE RotatesReturn
    OBVIOUS
  <2>2. ASSUME Ended, prog \in Turned("ROR", "ROL")
        PROVE  st.d = start.d /\ st.mem = start.mem
    <3>1. PICK dst \in Places, m \in States :
            /\ start \in States /\ Narrow(start) /\ ~start.fault
            /\ m = Turn(start, "ROR", dst) /\ ~m.fault /\ Narrow(m)
            /\ st = Turn(m, "ROL", dst) /\ ~st.fault
      BY <2>1, <2>2, TurnedRan
    <3>2. QED
      BY <3>1, TurnedRound, Zenon
  <2>3. ASSUME Ended, prog \in Turned("RORC", "ROLC")
        PROVE  st.d = start.d /\ st.mem = start.mem /\ ("C" \in st.ccr <=> "C" \in start.ccr)
    <3>1. PICK dst \in Places, m \in States :
            /\ start \in States /\ Narrow(start) /\ ~start.fault
            /\ m = Turn(start, "RORC", dst) /\ ~m.fault /\ Narrow(m)
            /\ st = Turn(m, "ROLC", dst) /\ ~st.fault
      BY <2>1, <2>3, TurnedRan
    <3>2. QED
      BY <3>1, TurnedRoundC, Zenon
  <2>4. QED
    BY <2>2, <2>3 DEF RotatesReturn
<1>2. QED
  BY <1>1, InvAlways, PTL

-----------------------------------------------------------------------------
(* Numbers of two longs *)

Plus(op, x, y) == IF op = "ADC" THEN x + y ELSE x - y

\* A long that is written keeps what fits, and C is what does not.
LongWritten(s, t, dst, n) ==
  /\ t \in States /\ ("C" \in t.ccr <=> Carry(Long, n))
  /\ dst.ea = "reg" => t.mem = s.mem /\ t.d = [s.d EXCEPT ![dst.r] = Unsigned(Long, n)]
  /\ dst.ea = "mem" => t.d = s.d /\ t.mem = Store(s.mem, dst.sz, Unsigned(Long, n))

LEMMA UWritesLong ==
  ASSUME NEW s \in States, NEW dst \in Places, dst.ea # "imm", DstWidth(dst) = Long,
         NEW n \in Int, NEW t, t = UWrite(s, dst, n), ~t.fault
  PROVE  LongWritten(s, t, dst, n)
<1>1. UStores(dst, n) = Unsigned(Long, n)
  BY DEF UStores
<1>2. Stored(s, t, dst, UStores(dst, n), n = DstWidth(dst), Carry(DstWidth(dst), n))
  BY UWriteIs
<1>3. t \in States /\ Wrote(s, t, dst, Unsigned(Long, n)) /\ ("C" \in t.ccr <=> Carry(Long, n))
  BY <1>1, <1>2, Zenon DEF Stored
<1>4. QED
  BY <1>3, Zenon DEF Wrote, LongWritten

\* One long of the sum or the difference, and the carry out of it.
KeptAndCarried(op, L, n) ==
  /\ n \in Int /\ Unsigned(L, n) \in 0 .. 2 * L - 1
  /\ Plus(op, Unsigned(L, n), IF Carry(L, n) THEN 2 * L ELSE 0) = n

LEMMA CarriedLong ==
  ASSUME NEW L \in Nat \ {0}, NEW x \in 0 .. 2 * L - 1, NEW y \in 0 .. 2 * L - 1, NEW c \in 0 .. 1,
         NEW op \in {"ADC", "SBC"}, NEW n, n = Plus(op, Plus(op, x, y), c)
  PROVE  KeptAndCarried(op, L, n)
<1>1. n \in Int /\ 2 * L \in Nat \ {0}
  BY DEF Plus
<1>2. n % (2 * L) \in 0 .. 2 * L - 1
  BY <1>1, DivMod
<1>3. ASSUME NEW q \in Int, NEW r \in 0 .. 2 * L - 1, n = (2 * L) * q + r
      PROVE  n % (2 * L) = r
  BY <1>1, <1>3, DivUnique
<1>4. CASE Carry(L, n)
  <2>1. CASE op = "ADC"
    <3>1. n - 2 * L \in 0 .. 2 * L - 1 /\ n = (2 * L) * 1 + (n - 2 * L)
      BY <1>4, <2>1 DEF Plus, Carry
    <3>2. n % (2 * L) = n - 2 * L
      BY <1>3, <3>1
    <3>3. QED
      BY <1>1, <1>2, <1>4, <2>1, <3>2 DEF Plus, Unsigned, KeptAndCarried
  <2>2. CASE op = "SBC"
    <3>1. n + 2 * L \in 0 .. 2 * L - 1 /\ n = (2 * L) * (-1) + (n + 2 * L)
      BY <1>4, <2>2 DEF Plus, Carry
    <3>2. n % (2 * L) = n + 2 * L
      BY <1>3, <3>1
    <3>3. QED
      BY <1>1, <1>2, <1>4, <2>2, <3>2 DEF Plus, Unsigned, KeptAndCarried
  <2>3. QED
    BY <2>1, <2>2
<1>5. CASE ~Carry(L, n)
  <2>1. n \in 0 .. 2 * L - 1 /\ n = (2 * L) * 0 + n
    BY <1>1, <1>5 DEF Carry
  <2>2. n % (2 * L) = n
    BY <1>3, <2>1
  <2>3. QED
    BY <1>1, <1>2, <1>5, <2>2 DEF Plus, Unsigned, KeptAndCarried
<1>6. QED
  BY <1>4, <1>5

\* Two longs, one above the other, the carry of the lower going into the upper: p is n
\* but for the carry e.
But(op, L, e, p, n) == Plus(op, p, IF e = 1 THEN 2 * L ELSE 0) = n
Across(op, L, e, p, q, x, y, a, b) ==
  Plus(op, p + 2 * L * q, IF e = 1 THEN 4 * L * L ELSE 0)
    = Plus(op, x + 2 * L * y, a + 2 * L * b)

LEMMA CarriedAcross ==
  ASSUME NEW L \in Nat \ {0}, NEW op \in {"ADC", "SBC"},
         NEW x \in Int, NEW y \in Int, NEW a \in Int, NEW b \in Int, NEW p \in Int, NEW q \in Int,
         NEW c \in 0 .. 1, NEW e \in 0 .. 1,
         But(op, L, c, p, Plus(op, x, a)), But(op, L, e, q, Plus(op, Plus(op, y, b), c))
  PROVE  Across(op, L, e, p, q, x, y, a, b)
<1> DEFINE K == 2 * L
<1>1. K \in Nat /\ 4 * L * L = K * K
  OBVIOUS
<1>2. CASE op = "ADC"
  <2>1. p = x + a - K * c /\ q = y + b + c - K * e
    BY <1>2 DEF Plus, But
  <2> HIDE DEF K
  <2>2. K * q = K * y + K * b + K * c - K * K * e
    BY <1>1, <2>1
  <2>3. (p + K * q) + K * K * e = (x + K * y) + (a + K * b)
    BY <1>1, <2>1, <2>2
  <2>4. K * K * e = IF e = 1 THEN K * K ELSE 0
    BY <1>1
  <2>5. p + K * q + (IF e = 1 THEN K * K ELSE 0) = (x + K * y) + (a + K * b)
    BY <1>1, <2>3, <2>4
  <2>6. p + 2 * L * q + (IF e = 1 THEN 4 * L * L ELSE 0) = (x + 2 * L * y) + (a + 2 * L * b)
    BY <1>1, <2>5 DEF K
  <2>7. QED
    BY <1>2, <2>6 DEF Plus, Across
<1>3. CASE op = "SBC"
  <2>1. p = x - a + K * c /\ q = y - b - c + K * e
    BY <1>3 DEF Plus, But
  <2> HIDE DEF K
  <2>2. K * q = K * y - K * b - K * c + K * K * e
    BY <1>1, <2>1
  <2>3. (p + K * q) - K * K * e = (x + K * y) - (a + K * b)
    BY <1>1, <2>1, <2>2
  <2>4. K * K * e = IF e = 1 THEN K * K ELSE 0
    BY <1>1
  <2>5. p + K * q - (IF e = 1 THEN K * K ELSE 0) = (x + K * y) - (a + K * b)
    BY <1>1, <2>3, <2>4
  <2>6. p + 2 * L * q - (IF e = 1 THEN 4 * L * L ELSE 0) = (x + 2 * L * y) - (a + 2 * L * b)
    BY <1>1, <2>5 DEF K
  <2>7. QED
    BY <1>3, <2>6 DEF Plus, Across
<1>4. QED
  BY <1>2, <1>3

LEMMA DoneCarrying ==
  ASSUME NEW s \in States, NEW i \in Instructions, i.op \in {"ADC", "SBC"},
         NEW n, n = Plus(i.op, Plus(i.op, Operand(s, i).u, Arg(s, i).u), CarryIn(s))
  PROVE  Done(s, i) = UWrite(s, Dst(i), n)
<1>1. Done(s, i) = Binary(s, i)
  BY DEF Done, Unaries
<1>2. CASE i.op = "ADC"
  <2>1. Binary(s, i) = UWrite(s, Dst(i), Operand(s, i).u + Arg(s, i).u + CarryIn(s))
    BY <1>2 DEF Binary, Arg, Operand, Dst, CarryIn, Rotations, Shifts
  <2>2. QED
    BY <1>1, <1>2, <2>1 DEF Plus
<1>3. CASE i.op = "SBC"
  <2>1. Binary(s, i) = UWrite(s, Dst(i), Operand(s, i).u - Arg(s, i).u - CarryIn(s))
    BY <1>3 DEF Binary, Arg, Operand, Dst, CarryIn, Rotations, Shifts
  <2>2. QED
    BY <1>1, <1>3, <2>1 DEF Plus
<1>4. QED
  BY <1>2, <1>3

\* The instructions of Carried: C cleared, the register below, the memory above.
LEMMA CarriedProgram ==
  ASSUME Inv, NEW op \in {"ADC", "SBC"}, Ran(Carried(op))
  PROVE  \E i \in Instructions, j \in Instructions, k \in Instructions :
           /\ i.op = "CLC"
           /\ j.op = op /\ j.todr /\ j.dr = 0 /\ j.ea = "reg" /\ j.r = 1 /\ j.sz = 2
           /\ k.op = op /\ ~k.todr /\ k.dr = 2 /\ k.ea = "mem" /\ k.sz = 2
           /\ start \in States /\ Narrow(start) /\ ~start.fault
           /\ ~Done(start, i).fault /\ ~Done(Done(start, i), j).fault /\ ~st.fault
           /\ st = Done(Done(Done(start, i), j), k)
<1> DEFINE i == prog[1]
           j == prog[2]
           k == prog[3]
<1>1. prog \in Programs /\ at \in 1 .. Len(prog) + 1 /\ at > Len(prog) /\ ~st.fault
        /\ prog = Carried(op)
  BY DEF Inv, Ran, Ended
<1>2. /\ Len(prog) = 3 /\ i = I("CLC", FALSE, 0, "reg", 0, 0, 2)
      /\ j = I(op, TRUE, 0, "reg", 1, 0, 2) /\ k = I(op, FALSE, 2, "mem", 0, 0, 2)
  BY <1>1 DEF Carried
<1>3. i \in Instructions /\ j \in Instructions /\ k \in Instructions
  <2>1. 1 \in 1 .. Len(prog) /\ 2 \in 1 .. Len(prog) /\ 3 \in 1 .. Len(prog)
    BY <1>2
  <2>2. QED
    BY <1>1, <2>1, ProgramsAre
<1>4. at = 4
  BY <1>1, <1>2
<1>5. /\ start \in States /\ Narrow(start) /\ ~start.fault
      /\ ~Done(start, i).fault /\ ~Done(Done(start, i), j).fault
      /\ st = Done(Done(Done(start, i), j), k)
  BY <1>4 DEF Inv
<1> HIDE DEF i, j, k
<1>6. /\ i.op = "CLC"
      /\ j.op = op /\ j.todr /\ j.dr = 0 /\ j.ea = "reg" /\ j.r = 1 /\ j.sz = 2
      /\ k.op = op /\ ~k.todr /\ k.dr = 2 /\ k.ea = "mem" /\ k.sz = 2
  BY <1>2 DEF I
<1>7. QED
  BY <1>1, <1>3, <1>5, <1>6, Zenon

LEMMA CarriedRan ==
  ASSUME Inv, NEW op \in {"ADC", "SBC"}, Ran(Carried(op))
  PROVE  Plus(op, Double(st), IF "C" \in st.ccr THEN 4 * Long * Long ELSE 0)
           = Plus(op, Double(start), Addend)
<1>1. PICK i \in Instructions, j \in Instructions, k \in Instructions :
        /\ i.op = "CLC"
        /\ j.op = op /\ j.todr /\ j.dr = 0 /\ j.ea = "reg" /\ j.r = 1 /\ j.sz = 2
        /\ k.op = op /\ ~k.todr /\ k.dr = 2 /\ k.ea = "mem" /\ k.sz = 2
        /\ start \in States /\ Narrow(start) /\ ~start.fault
        /\ ~Done(start, i).fault /\ ~Done(Done(start, i), j).fault /\ ~st.fault
        /\ st = Done(Done(Done(start, i), j), k)
  BY CarriedProgram, Zenon
<1>2. PICK s : s = Done(start, i)
  OBVIOUS
<1>3. PICK t : t = Done(s, j)
  OBVIOUS
<1>4. st = Done(t, k) /\ ~s.fault /\ ~t.fault
  BY <1>1, <1>2, <1>3
<1>5. Long \in Nat \ {0} /\ 0 \in Regs /\ 1 \in Regs /\ 2 \in Regs
  BY <1>1, Weight DEF Instructions
<1> DEFINE x == start.d[0]
           a == start.d[1]
           b == start.d[2]
           y == Load(start.mem, 2)
           n == Plus(op, Plus(op, x, a), 0)
           c == IF Carry(Long, n) THEN 1 ELSE 0
           m == Plus(op, Plus(op, y, b), c)
           e == IF Carry(Long, m) THEN 1 ELSE 0
<1>6. x \in 0 .. 2 * Long - 1 /\ a \in 0 .. 2 * Long - 1 /\ b \in 0 .. 2 * Long - 1
  BY <1>1, <1>5 DEF States, Narrow
<1>7. start.mem \in Memory /\ y \in 0 .. 2 * Long - 1
  <2>1. start.mem \in Memory /\ Width(2) = Long
    BY <1>1 DEF States, Width
  <2>2. QED
    BY <2>1, LoadInWidth
<1>8. s \in States /\ Alike(start, s) /\ ~("C" \in s.ccr)
  <2>1. s = Flag(start, "C", FALSE)
    BY <1>1, <1>2 DEF Done, Unaries
  <2>2. "C" \in Bits /\ FALSE \in BOOLEAN
    BY DEF Bits
  <2>3. Flagged(start, s, "C", FALSE)
    BY <1>1, <2>1, <2>2, FlagIs
  <2>4. QED
    BY <2>3, Zenon DEF Flagged
<1>9. s.d = start.d /\ s.mem = start.mem /\ CarryIn(s) = 0
  BY <1>8 DEF Alike, CarryIn
<1>10. t = UWrite(s, Dst(j), n)
  <2>1. Operand(s, j).u = x
    BY <1>1, <1>5, <1>6, <1>8, <1>9, DReadIs DEF Operand
  <2>2. Arg(s, j).u = a
    <3>1. Arg(s, j).u = Unsigned(Width(2), s.d[1])
      BY <1>1, <1>8, EaReadIs DEF Arg
    <3>2. QED
      BY <1>5, <1>6, <1>9, <3>1, KeptUnsigned DEF Width
  <2>3. n = Plus(j.op, Plus(j.op, Operand(s, j).u, Arg(s, j).u), CarryIn(s))
    BY <1>1, <1>9, <2>1, <2>2
  <2> HIDE DEF n
  <2>4. QED
    BY <1>1, <1>3, <1>8, <2>3, DoneCarrying
<1> HIDE DEF x, y, a, b
<1>11. KeptAndCarried(op, Long, n) /\ n \in Int
  <2>1. n = Plus(op, Plus(op, x, a), 0) /\ 0 \in 0 .. 1
    OBVIOUS
  <2> HIDE DEF n
  <2>2. KeptAndCarried(op, Long, n)
    BY <1>5, <1>6, <2>1, CarriedLong, Zenon
  <2>3. QED
    BY <2>2 DEF KeptAndCarried
<1> HIDE DEF n
<1>12. /\ t \in States /\ ("C" \in t.ccr <=> Carry(Long, n)) /\ t.mem = start.mem
       /\ t.d = [start.d EXCEPT ![0] = Unsigned(Long, n)]
  <2>1. Dst(j) \in Places /\ Dst(j).ea = "reg" /\ Dst(j).r = 0
    BY <1>1, PlacesAre DEF Dst
  <2>2. DstWidth(Dst(j)) = Long /\ Dst(j).ea # "imm"
    BY <2>1 DEF DstWidth
  <2>3. LongWritten(s, t, Dst(j), n)
    BY <1>4, <1>8, <1>10, <1>11, <2>1, <2>2, UWritesLong, Zenon
  <2>4. QED
    BY <1>9, <2>1, <2>3, Zenon DEF LongWritten
<1>13. t.d[0] = Unsigned(Long, n) /\ t.d[2] = b /\ CarryIn(t) = c
  <2>1. start.d \in [Regs -> Nat]
    BY <1>1 DEF States
  <2>2. t.d[0] = Unsigned(Long, n) /\ t.d[2] = b
    BY <1>5, <1>12, <2>1 DEF b
  <2>3. QED
    BY <1>12, <2>2 DEF CarryIn
<1>14. st = UWrite(t, Dst(k), m)
  <2>1. Operand(t, k).u = y
    <3>1. Operand(t, k).u = Load(t.mem, 2)
      BY <1>1, <1>12, EaReadIs DEF Operand
    <3>2. QED
      BY <1>12, <3>1 DEF y
  <2>2. Arg(t, k).u = b
    <3>1. t.d[2] < 2 * Long
      BY <1>5, <1>6, <1>13
    <3>2. DRead(t, 2).u = t.d[2]
      BY <1>5, <1>12, <3>1, DReadIs
    <3>3. QED
      BY <1>1, <1>13, <3>2 DEF Arg
  <2>3. m = Plus(k.op, Plus(k.op, Operand(t, k).u, Arg(t, k).u), CarryIn(t))
    BY <1>1, <1>13, <2>1, <2>2
  <2> HIDE DEF m
  <2>4. QED
    BY <1>1, <1>4, <1>12, <2>3, DoneCarrying
<1>15. c \in 0 .. 1 /\ (IF c = 1 THEN 2 * Long ELSE 0) = (IF Carry(Long, n) THEN 2 * Long ELSE 0)
  OBVIOUS
<1> HIDE DEF c
<1>16. KeptAndCarried(op, Long, m) /\ m \in Int
  <2>1. m = Plus(op, Plus(op, y, b), c)
    OBVIOUS
  <2> HIDE DEF m
  <2>2. KeptAndCarried(op, Long, m)
    BY <1>5, <1>6, <1>7, <1>15, <2>1, CarriedLong, Zenon
  <2>3. QED
    BY <2>2 DEF KeptAndCarried
<1>17. m = Plus(op, Plus(op, y, b), c) /\ n = Plus(op, x, a)
  BY <1>6 DEF n, Plus
<1>18. e \in 0 .. 1 /\ (IF e = 1 THEN 2 * Long ELSE 0) = (IF Carry(Long, m) THEN 2 * Long ELSE 0)
         /\ (e = 1 <=> Carry(Long, m))
  OBVIOUS
<1> HIDE DEF m, e
<1>19. /\ "C" \in st.ccr <=> Carry(Long, m)
       /\ st.d = t.d /\ st.mem = Store(start.mem, 2, Unsigned(Long, m))
       /\ st \in States
  <2>1. Dst(k) \in Places /\ Dst(k).ea = "mem" /\ Dst(k).sz = 2
    BY <1>1, PlacesAre DEF Dst
  <2>2. DstWidth(Dst(k)) = Long /\ Dst(k).ea # "imm"
    BY <2>1 DEF DstWidth, Width
  <2>3. LongWritten(t, st, Dst(k), m)
    BY <1>1, <1>12, <1>14, <1>16, <2>1, <2>2, UWritesLong, Zenon
  <2>4. QED
    BY <1>12, <2>1, <2>3, Zenon DEF LongWritten
<1>20. Double(st) = Unsigned(Long, n) + 2 * Long * Unsigned(Long, m)
  <2>1. DRead(st, 0).u = Unsigned(Long, n)
    <3>1. st.d[0] = Unsigned(Long, n) /\ st.d[0] < 2 * Long
      BY <1>5, <1>11, <1>13, <1>19 DEF KeptAndCarried
    <3>2. QED
      BY <1>5, <1>19, <3>1, DReadIs
  <2>2. Load(st.mem, 2) = Unsigned(Long, m)
    <3>1. Unsigned(Long, m) \in 0 .. 2 * Width(2) - 1
      BY <1>16 DEF Width, KeptAndCarried
    <3>2. QED
      BY <1>7, <1>19, <3>1, LoadStore
  <2>3. QED
    BY <2>1, <2>2 DEF Double
<1>21. Double(start) = x + 2 * Long * y /\ Addend = a + 2 * Long * b
  <2>1. DRead(start, 0).u = x
    <3>1. start.d[0] < 2 * Long
      BY <1>5, <1>6 DEF x
    <3>2. QED
      BY <1>1, <1>5, <3>1, DReadIs DEF x
  <2>2. QED
    BY <2>1 DEF Double, Addend, x, y, a, b
<1> DEFINE p == Unsigned(Long, n)
           q == Unsigned(Long, m)
<1>22. /\ p \in Int /\ q \in Int
       /\ But(op, Long, c, p, Plus(op, x, a)) /\ But(op, Long, e, q, Plus(op, Plus(op, y, b), c))
  BY <1>5, <1>11, <1>15, <1>16, <1>17, <1>18 DEF But, KeptAndCarried
<1>23. x \in Int /\ y \in Int /\ a \in Int /\ b \in Int
  BY <1>5, <1>6, <1>7
<1>24. Double(st) = p + 2 * Long * q
  BY <1>20
<1> HIDE DEF p, q
<1>25. Across(op, Long, e, p, q, x, y, a, b)
  BY <1>5, <1>15, <1>18, <1>22, <1>23, CarriedAcross, Zenon
<1>26. (IF e = 1 THEN 4 * Long * Long ELSE 0) = (IF "C" \in st.ccr THEN 4 * Long * Long ELSE 0)
  BY <1>18, <1>19
<1>27. QED
  BY <1>21, <1>24, <1>25, <1>26, Zenon DEF Across

\* CLC, ADC, ADC adds and CLC, SBC, SBC subtracts numbers of two longs: the carry of the
\* lower long reaches the upper one, and C is what the upper one does not hold (cpu.cc's
\* ADC and SBC, and utest).
THEOREM CarriesAcross == Spec => []WideArithmetic
<1>1. Inv => WideArithmetic
  <2>1. SUFFICES ASSUME Inv PROVE WideArithmetic
    OBVIOUS
  <2> DEFINE carry == IF "C" \in st.ccr THEN 4 * Long * Long ELSE 0
  <2>2. ASSUME Ran(Carried("ADC"))
        PROVE  Double(st) + carry = Double(start) + Addend
    <3>1. Plus("ADC", Double(st), carry) = Plus("ADC", Double(start), Addend)
      BY <2>1, <2>2, CarriedRan
    <3>2. QED
      BY <3>1 DEF Plus
  <2>3. ASSUME Ran(Carried("SBC"))
        PROVE  Double(st) - carry = Double(start) - Addend
    <3>1. Plus("SBC", Double(st), carry) = Plus("SBC", Double(start), Addend)
      BY <2>1, <2>3, CarriedRan
    <3>2. QED
      BY <3>1 DEF Plus
  <2>4. QED
    BY <2>2, <2>3 DEF WideArithmetic
<1>2. QED
  BY <1>1, InvAlways, PTL
=============================================================================
