-------------------------------- MODULE Alu --------------------------------
(***************************************************************************)
(* The arithmetic of CPU::run: the instructions OP Dn,EA and OP EA,Dn, OP  *)
(* EA, CLC, the conditions of the branches, and the way results and flags  *)
(* are written.  A short program runs to its end or to its first fault.    *)
(***************************************************************************)
EXTENDS Words, FiniteSetsExt

CONSTANTS
  Byte,       \* weight of the sign bit of a byte (256)
  Regs,       \* the data registers that are used
  Values,     \* what registers and memory hold at first
  Programs,   \* the programs, sequences of instructions
  MaxShift,   \* bound: largest shift count and bit number
  IntSign     \* weight of the sign bit of int_t (2^63)

Word == 2 * Byte * Byte
Long == 2 * Word * Word

Instructions ==
  [op : STRING, todr : BOOLEAN, dr : Regs, ea : {"reg", "mem", "imm"}, r : Regs,
   v : 1 - Long .. Long - 1, sz : 0 .. 2]

\* 1 << k, and the number that has just the bits of S.
TwoTo(k) == MapThenFoldSet(LAMBDA i, n : 2 * n, 1, LAMBDA i : i, Max, 1 .. k)
OfBits(S) == MapThenFoldSet(LAMBDA b, n : n + b, 0, LAMBDA b : b, Max, S)

ASSUME AluAssumption ==
  /\ Byte \in Nat \ {0} /\ MaxShift \in Nat /\ 2 * Long <= TwoTo(MaxShift + 1)
  /\ IntSign \in Nat /\ 2 * Long < IntSign /\ TwoTo(MaxShift) < IntSign
  /\ Values \subseteq 0 .. 2 * Long - 1
  /\ Programs \subseteq Seq(Instructions)

VARIABLES
  prog,       \* the program
  at,         \* the next instruction
  st,         \* d, mem (one operand in memory; writable tells whether its segment
              \* may be written), ccr, and fault
  start       \* ghost: st before the program

vars == <<prog, at, st, start>>

\* What a program does not name is 0.
Named(p) ==
  {p[k].dr : k \in 1 .. Len(p)} \cup {p[k].r : k \in {n \in 1 .. Len(p) : p[n].ea = "reg"}}
Cells(p) == IF \E k \in 1 .. Len(p) : p[k].ea = "mem" THEN Values ELSE {0}

Init ==
  /\ prog \in Programs /\ at = 1
  /\ \E d \in [Named(prog) -> Values], m \in Cells(prog), rw \in BOOLEAN, c \in SUBSET {"C"} :
       st = [d |-> [r \in Regs |-> IF r \in Named(prog) THEN d[r] ELSE 0],
             mem |-> PutLong(2 * Byte, m), writable |-> rw, ccr |-> c, fault |-> FALSE]
  /\ start = st

-----------------------------------------------------------------------------
(* Operands and results *)

Width(sz) == CASE sz = 0 -> Byte [] sz = 1 -> Word [] OTHER -> Long

\* A six-bit immediate counts as a long.
EaWidth(i) == IF i.ea = "imm" THEN Long ELSE Width(i.sz)

Load(m, sz) ==
  CASE sz = 0 -> m[1]
    [] sz = 1 -> GetWord(2 * Byte, m, 1)
    [] OTHER  -> GetLong(2 * Byte, m, 1)

Store(m, sz, n) ==
  LET new == CASE sz = 0 -> <<n>>
               [] sz = 1 -> PutWord(2 * Byte, n)
               [] OTHER  -> PutLong(2 * Byte, n)
  IN [k \in 1 .. 4 |-> IF k <= Len(new) THEN new[k] ELSE m[k]]

\* uinput and sinput of the operand.
EaRead(s, i) ==
  LET u == CASE i.ea = "reg" -> Unsigned(Width(i.sz), s.d[i.r])
             [] i.ea = "mem" -> Load(s.mem, i.sz)
             [] OTHER        -> Signed(Long, i.v)
  IN [u |-> u, s |-> Sex(EaWidth(i), u)]

DRead(s, r) == [u |-> Unsigned(Long, s.d[r]), s |-> Sex(Long, s.d[r])]

Flag(s, f, on) == [s EXCEPT !.ccr = IF on THEN @ \cup {f} ELSE @ \ {f}]
Flags(s, z, n, v, c) == Flag(Flag(Flag(Flag(s, "Z", z), "N", n), "V", v), "C", c)

\* Mutants of UTest, a borrow is none; and of STest, the first number that does not
\* fit is not flagged.
UTestNoBorrow(s, w, n) == Flags(s, n = 0, Bit(w, n), n = w, n >= 2 * w)
STestPastSign(s, w, n) == Flags(s, n = 0, n < 0, n < -w \/ n > w, Carry(w, n))

UTest(s, w, n) == Flags(s, n = 0, Bit(w, n), n = w, Carry(w, n))
STest(s, w, n) == Flags(s, n = 0, n < 0, Overflow(w, n), Carry(w, n))

Fault(s) == [s EXCEPT !.fault = TRUE]

(***************************************************************************)
(* ea_uwrite and ea_swrite: dst is [ea, r, sz].  The flags are set before  *)
(* memory is asked whether it may be written.                              *)
(***************************************************************************)

UWrite(s, dst, n) ==
  CASE dst.ea = "reg" ->
         [UTest(s, Long, n) EXCEPT !.d[dst.r] = Unsigned(Long, n)]
    [] dst.ea = "mem" ->
         LET t == UTest(s, Width(dst.sz), n)
         IN IF ~s.writable THEN Fault(t)
            ELSE [t EXCEPT !.mem = Store(@, dst.sz, Unsigned(Width(dst.sz), n))]
    [] OTHER -> Fault(s)

\* Mutant of SWrite: what is stored is not cut to the operand's width.
SWriteUncut(s, dst, n) ==
  CASE dst.ea = "reg" ->
         [STest(s, Long, n) EXCEPT !.d[dst.r] = Signed(Long, n)]
    [] dst.ea = "mem" ->
         LET w == Width(dst.sz)
             t == STest(s, w, n)
         IN IF ~s.writable THEN Fault(t)
            ELSE [t EXCEPT !.mem = Store(@, dst.sz, Signed(w, n))]
    [] OTHER -> Fault(s)

SWrite(s, dst, n) ==
  CASE dst.ea = "reg" ->
         [STest(s, Long, n) EXCEPT !.d[dst.r] = Signed(Long, n)]
    [] dst.ea = "mem" ->
         LET w == Width(dst.sz)
             t == STest(s, w, n)
         IN IF ~s.writable THEN Fault(t)
            ELSE [t EXCEPT !.mem = Store(@, dst.sz, Unsigned(w, Signed(w, n)))]
    [] OTHER -> Fault(s)

ATest(s, dst, n) == UTest(s, IF dst.ea = "reg" THEN Long ELSE Width(dst.sz), n)

\* What comes after a write is not reached when the write faults.
After(s, f, on) == IF s.fault THEN s ELSE Flag(s, f, on)

-----------------------------------------------------------------------------
(* Instructions *)

\* What int_t keeps of a product or a shifted number.
AsInt(n) == ((n + IntSign) % (2 * IntSign)) - IntSign

DReg(r) == [ea |-> "reg", r |-> r, sz |-> 2]
Ea(i) == [ea |-> i.ea, r |-> i.r, sz |-> i.sz]

\* C++ division: towards zero, the remainder takes the sign of the dividend.
Abs(n) == IF n < 0 THEN -n ELSE n
Quo(a, b) == IF (a < 0) = (b < 0) THEN Abs(a) \div Abs(b) ELSE -(Abs(a) \div Abs(b))
Rem(a, b) == a - b * Quo(a, b)

\* Mutant of Compared: the operands are taken in the other order.
ComparedSwapped(s, u, a) ==
  Flag(Flag(Flag(s, "C", a.u < u.u), "V", a.s < u.s),
       "Z", IF u.u = u.s THEN u.u = a.u ELSE u.s = a.s)

Compared(s, u, a) ==
  Flag(Flag(Flag(s, "C", a.u > u.u), "V", a.s > u.s),
       "Z", IF u.u = u.s THEN u.u = a.u ELSE u.s = a.s)

(***************************************************************************)
(* DIV EA,Dn leaves the quotient in the register and the remainder in the  *)
(* operand; DIV Dn,EA writes the remainder to both.                        *)
(***************************************************************************)

\* Mutants of DivU: the results change places; the quotient is written first.
DivUSwapped(s, i, u, a) ==
  IF a.u = 0 THEN Flag(s, "V", TRUE)
  ELSE LET t == UWrite(s, Ea(i), Quo(u.u, a.u))
       IN IF t.fault THEN t ELSE UWrite(t, DReg(i.dr), Rem(u.u, a.u))
DivUQuotientFirst(s, i, u, a) ==
  IF a.u = 0 THEN Flag(s, "V", TRUE)
  ELSE UWrite(UWrite(s, DReg(i.dr), Quo(u.u, a.u)), Ea(i), Rem(u.u, a.u))

DivU(s, i, u, a) ==
  IF a.u = 0 THEN Flag(s, "V", TRUE)
  ELSE IF i.todr
  THEN LET t == UWrite(s, Ea(i), Rem(u.u, a.u))
       IN IF t.fault THEN t ELSE UWrite(t, DReg(i.dr), Quo(u.u, a.u))
  ELSE UWrite([s EXCEPT !.d[i.dr] = Rem(u.u, a.u)], Ea(i), Rem(u.u, a.u))

DivS(s, i, u, a) ==
  IF a.s = 0 THEN SWrite(s, IF i.todr THEN DReg(i.dr) ELSE Ea(i), 2 * Long)
  ELSE IF i.todr
  THEN LET t == SWrite(s, Ea(i), Rem(u.s, a.s))
       IN IF t.fault THEN t ELSE SWrite(t, DReg(i.dr), Quo(u.s, a.s))
  ELSE SWrite([s EXCEPT !.d[i.dr] = Signed(Long, Rem(u.s, a.s))], Ea(i), Rem(u.s, a.s))

\* Mutant of ShiftIn: the bit comes in one place too high.
ShiftInHigh(w, n, on) == IF on THEN SetBit(2 * w, n \div 2) ELSE n \div 2

\* One place to the right, with a bit coming in at the top.
ShiftIn(w, n, on) == IF on THEN SetBit(w, n \div 2) ELSE n \div 2

\* Rotations turn by one place, at the width of the operand field.
Rotate(s, op, dst, w, n) ==
  LET c == "C" \in s.ccr
  IN CASE op = "ROR"  -> UWrite(Flag(s, "C", Bit(1, n)), dst, ShiftIn(w, n, Bit(1, n)))
       [] op = "RORC" -> After(UWrite(s, dst, ShiftIn(w, n, c)), "C", Bit(1, n))
       [] op = "ROL"  -> UWrite(Flag(s, "C", Bit(w, n)), dst,
                                2 * n + (IF Bit(w, n) THEN 1 ELSE 0))
       [] OTHER       -> After(UWrite(s, dst, 2 * n + (IF c THEN 1 ELSE 0)),
                               "C", Bit(w, n))

Rotations == {"ROR", "RORC", "ROL", "ROLC"}

\* Operations whose second operand is a count or a bit number.
Shifts == {"BCOM", "BCLR", "BSET", "BTST", "ASR", "LSR", "ASL", "LSL"}

Shift(s, op, dst, u, k) ==
  LET b == TwoTo(k)
  IN CASE op = "BCOM" -> UWrite(s, dst, IF Bit(b, u.u) THEN u.u - b ELSE u.u + b)
       [] op = "BCLR" -> UWrite(s, dst, IF Bit(b, u.u) THEN u.u - b ELSE u.u)
       [] op = "BSET" -> UWrite(s, dst, SetBit(b, u.u))
       [] op = "BTST" -> ATest(s, dst, IF Bit(b, u.u) THEN b ELSE 0)
       \* divided by an unsigned number, a negative one counts as a huge positive one
       [] op = "ASR"  -> SWrite(s, dst, IF u.s < 0 /\ k > 0 THEN (2 * IntSign + u.s) \div b
                                        ELSE u.s \div b)
       [] op = "LSR"  -> After(UWrite(s, dst, u.u \div b), "C", Bit(1, u.u))
       [] op = "ASL"  -> SWrite(s, dst, AsInt(u.s * b))
       [] OTHER       -> UWrite(s, dst, AsInt(u.u * b))

Weights == {TwoTo(k) : k \in 0 .. MaxShift}
And(a, b) == OfBits({w \in Weights : Bit(w, a) /\ Bit(w, b)})
Or(a, b)  == OfBits({w \in Weights : Bit(w, a) \/ Bit(w, b)})
Xor(a, b) == OfBits({w \in Weights : Bit(w, a) # Bit(w, b)})

\* OP Dn,EA and OP EA,Dn: a is the argument, u the operand it is applied to.
Binary(s, i) ==
  LET a == IF i.todr THEN EaRead(s, i) ELSE DRead(s, i.dr)
      u == IF i.todr THEN DRead(s, i.dr) ELSE EaRead(s, i)
      dst == IF i.todr THEN DReg(i.dr) ELSE Ea(i)
      c == IF "C" \in s.ccr THEN 1 ELSE 0
  IN CASE i.op = "MOV"  -> UWrite(s, dst, a.u)
       [] i.op = "SEX"  -> SWrite(s, dst, a.s)
       [] i.op = "ADD"  -> SWrite(s, dst, u.s + a.s)
       [] i.op = "SUB"  -> LET t == SWrite(s, dst, u.s - a.s)
                           IN IF t.fault THEN t ELSE Compared(t, u, a)
       [] i.op = "ADC"  -> UWrite(s, dst, u.u + a.u + c)
       [] i.op = "SBC"  -> UWrite(s, dst, u.u - a.u - c)
       [] i.op = "AND"  -> UWrite(s, dst, And(u.u, a.u))
       [] i.op = "OR"   -> UWrite(s, dst, Or(u.u, a.u))
       [] i.op = "XOR"  -> UWrite(s, dst, Xor(u.u, a.u))
       [] i.op = "CMP"  -> Compared(s, u, a)
       [] i.op = "MULU" -> LET n == AsInt(u.u * a.u)
                               o == Carry(Long, n)
                           IN After(After(UWrite(s, dst, n), "V", o), "C", o)
       [] i.op = "MULS" -> LET n == AsInt(u.s * a.s)
                           IN After(SWrite(s, dst, n), "V", Overflow(Long, n))
       [] i.op = "DIVU" -> DivU(s, i, u, a)
       [] i.op = "DIVS" -> DivS(s, i, u, a)
       [] i.op \in Rotations -> Rotate(s, i.op, dst, EaWidth(i), u.u)
       [] i.op \in Shifts -> Shift(s, i.op, dst, u, a.u)
       [] OTHER -> Fault(s)

\* OP EA
Unary(s, i) ==
  LET u == EaRead(s, i)
      dst == Ea(i)
  IN CASE i.op = "CLR" -> UWrite(s, dst, 0)
       [] i.op = "TST" -> ATest(s, dst, u.u)
       [] i.op = "INC" -> SWrite(s, dst, u.s + 1)
       [] i.op = "DEC" -> SWrite(s, dst, u.s - 1)
       [] i.op = "NEG" -> SWrite(s, dst, -u.s)
       [] i.op = "COM" -> UWrite(s, dst, -u.s - 1)
       [] OTHER        -> Fault(s)

\* Whether a Bcc jumps.
Taken(b, ccr) ==
  CASE b = "BEQ" -> "Z" \in ccr
    [] b = "BNE" -> "Z" \notin ccr
    [] b = "BLO" -> "C" \in ccr
    [] b = "BHS" -> "C" \notin ccr
    [] b = "BLS" -> "Z" \in ccr \/ "C" \in ccr
    [] b = "BHI" -> "Z" \notin ccr /\ "C" \notin ccr
    [] b = "BMI" -> "N" \in ccr
    [] b = "BPL" -> "N" \notin ccr
    [] b = "BLT" -> "V" \in ccr
    [] b = "BGE" -> "V" \notin ccr
    [] b = "BLE" -> "V" \in ccr \/ "Z" \in ccr
    [] b = "BGT" -> "V" \notin ccr /\ "Z" \notin ccr

-----------------------------------------------------------------------------
\* The last names a number of the group that is no instruction.
Unaries == {"CLR", "TST", "INC", "DEC", "NEG", "COM", "EA-rfu"}

Running == at <= Len(prog) /\ ~st.fault

Execute(new) ==
  /\ st' = new
  /\ at' = at + 1
  /\ UNCHANGED <<prog, start>>

OpDnEa ==
  /\ Running
  /\ prog[at].op \notin Unaries \cup {"CLC"}
  /\ prog[at].op \in Shifts =>
       (IF prog[at].todr THEN EaRead(st, prog[at]) ELSE DRead(st, prog[at].dr)).u <= MaxShift
  /\ Execute(Binary(st, prog[at]))

OpEa ==
  /\ Running
  /\ prog[at].op \in Unaries
  /\ Execute(Unary(st, prog[at]))

Clc ==
  /\ Running
  /\ prog[at].op = "CLC"
  /\ Execute(Flag(st, "C", FALSE))

Next == OpDnEa \/ OpEa \/ Clc

Spec == Init /\ [][Next]_vars

-----------------------------------------------------------------------------
\* The registers and memory keep their widths.  cpu.hh:261 has "36 bit data registers":
\* negative results are not clamped, but only a product or a left shift is large
\* enough to leave more than 36 bits behind.
TypeOK ==
  /\ st.d \in [Regs -> Nat]
  /\ (\E r \in Regs : st.d[r] >= 2 * Long) =>
       \E k \in 1 .. Len(prog) : prog[k].op \in {"MULS", "ASL"}
  /\ st.mem \in [1 .. 4 -> 0 .. 2 * Byte - 1]
  /\ st.ccr \subseteq {"Z", "C", "V", "N"}
  /\ st.fault \in BOOLEAN /\ at \in 1 .. Len(prog) + 1

Ended == at > Len(prog) /\ ~st.fault
Ran(p) == Ended /\ prog = p
RanOnce(op) == Ended /\ Len(prog) = 1 /\ prog[1].op = op
I(op, todr, dr, ea, r, v, sz) ==
  [op |-> op, todr |-> todr, dr |-> dr, ea |-> ea, r |-> r, v |-> v, sz |-> sz]

\* What an instruction that ran left in its operand (a register is written whole),
\* and in its destination.
Left(i) == IF i.ea = "reg" THEN DRead(st, i.r) ELSE EaRead(st, i)
Result(i) == IF i.op \notin Unaries /\ i.todr THEN DRead(st, i.dr).s ELSE Left(i).s

(***************************************************************************)
(* SEX, ADD, ASL, INC, DEC and NEG at every width, and MULS into a long,   *)
(* set V when the signed result does not fit: if V is clear, the register  *)
(* or the one, two or four bytes written read back as the exact integer    *)
(* result, whatever signed_ and the cut to the width made of it.  The code *)
(* says nothing of the kind of SUB, whose V is the comparison's            *)
(* (cpu.cc:643-645), of MULS into a byte or a word, whose V is that of a   *)
(* long (cpu.cc:657), nor of a product or a shift past int_t itself: MULS  *)
(* of 2^32 by 2^32 leaves 0 and V clear.                                   *)
(***************************************************************************)
Exact(i, a, u) ==
  CASE i.op = "SEX"  -> a.s
    [] i.op = "ADD"  -> u.s + a.s
    [] i.op = "MULS" -> u.s * a.s
    [] i.op = "ASL"  -> u.s * TwoTo(a.u)
    [] i.op = "INC"  -> u.s + 1
    [] i.op = "DEC"  -> u.s - 1
    [] i.op = "NEG"  -> -u.s

IntoLong(i) == i.todr \/ i.ea = "reg" \/ i.sz = 2

OverflowIsFlagged ==
  \A op \in {"SEX", "ADD", "MULS", "ASL", "INC", "DEC", "NEG"} :
    RanOnce(op) /\ "V" \notin st.ccr =>
      LET i == prog[1]
          ea == EaRead(start, i)
          dn == DRead(start, i.dr)
          n == IF op \in Unaries THEN Exact(i, ea, ea)
               ELSE IF i.todr THEN Exact(i, ea, dn) ELSE Exact(i, dn, ea)
      IN n \in -IntSign .. IntSign - 1 /\ (op = "MULS" => IntoLong(i)) => Result(i) = n

\* A number of two longs: a register below, the operand in memory above.
Double(s) == DRead(s, 0).u + 2 * Long * Load(s.mem, 2)
Addend == start.d[1] + 2 * Long * start.d[2]
Carried(op) ==
  <<I("CLC", FALSE, 0, "reg", 0, 0, 2), I(op, TRUE, 0, "reg", 1, 0, 2),
    I(op, FALSE, 2, "mem", 0, 0, 2)>>

(***************************************************************************)
(* CLC, ADC, ADC adds numbers of two longs and CLC, SBC, SBC subtracts     *)
(* them: C goes from one instruction to the next although each also tests  *)
(* its result for Z, V and N.                                              *)
(***************************************************************************)
WideArithmetic ==
  LET carry == IF "C" \in st.ccr THEN 4 * Long * Long ELSE 0
  IN /\ Ran(Carried("ADC")) => Double(st) + carry = Double(start) + Addend
     /\ Ran(Carried("SBC")) => Double(st) - carry = Double(start) - Addend

(***************************************************************************)
(* After CMP of two longs, neither of them the negative zero, the branches *)
(* by sign decide as the integers compare and the others as their bits do. *)
(***************************************************************************)
CompareDecides ==
  RanOnce("CMP") =>
    LET i == prog[1]
        ea == EaRead(start, i)
        dn == DRead(start, i.dr)
        a == IF i.todr THEN ea ELSE dn
        u == IF i.todr THEN dn ELSE ea
    IN EaWidth(i) = Long /\ a.u # Long /\ u.u # Long =>
         /\ Taken("BLT", st.ccr) = (u.s < a.s) /\ Taken("BGE", st.ccr) = (u.s >= a.s)
         /\ Taken("BLE", st.ccr) = (u.s <= a.s) /\ Taken("BGT", st.ccr) = (u.s > a.s)
         /\ Taken("BLO", st.ccr) = (u.u < a.u) /\ Taken("BHS", st.ccr) = (u.u >= a.u)
         /\ Taken("BLS", st.ccr) = (u.u <= a.u) /\ Taken("BHI", st.ccr) = (u.u > a.u)
         /\ Taken("BEQ", st.ccr) = (u.u = a.u) /\ Taken("BNE", st.ccr) = (u.u # a.u)

\* One after the other, on a register at 36 bits or in memory at any width.
Turned(a, b) ==
       {<<I(a, TRUE, r, "imm", r, 1, 2), I(b, TRUE, r, "imm", r, 1, 2)>> : r \in Regs}
  \cup UNION {{<<I(a, FALSE, r, "mem", r, 0, sz), I(b, FALSE, r, "mem", r, 0, sz)>> :
               r \in Regs} : sz \in 0 .. 2}

(***************************************************************************)
(* A rotation and its inverse bring the operand back, and the ones through *)
(* the carry bring C back too: in memory at every width, in a register if  *)
(* the operand field is 36 bits wide (the field's width, not the           *)
(* register's, says where the bit that falls out comes back).              *)
(***************************************************************************)
RotatesReturn ==
  /\ Ended /\ prog \in Turned("ROR", "ROL") => st.d = start.d /\ st.mem = start.mem
  /\ Ended /\ prog \in Turned("RORC", "ROLC") =>
       st.d = start.d /\ st.mem = start.mem /\ ("C" \in st.ccr) = ("C" \in start.ccr)

(***************************************************************************)
(* DIV EA,Dn by a number that is not zero leaves the quotient in the       *)
(* register and the remainder in the operand it divided by, when these are *)
(* two places.                                                             *)
(***************************************************************************)
DivisionIsExact ==
  \A op \in {"DIVU", "DIVS"} :
    RanOnce(op) /\ prog[1].todr =>
      LET i == prog[1]
          a == EaRead(start, i)
          u == DRead(start, i.dr)
          q == DRead(st, i.dr)
          r == Left(i)
      IN ~(i.ea = "reg" /\ i.r = i.dr) =>
           IF op = "DIVU"
           THEN a.u # 0 => u.u = q.u * a.u + r.u /\ r.u < a.u
           ELSE a.s # 0 => u.s = q.s * a.s + r.s /\ Abs(r.s) < Abs(a.s)

(***************************************************************************)
(* An instruction that faults in writing its result leaves registers and   *)
(* memory as they were, though not the flags; DIV Dn,EA, which has written *)
(* the register by then, is the exception.  The address register of (ar)+  *)
(* or -(ar), which is not in this model, has moved before the write.       *)
(***************************************************************************)
RefusedWritesNothing ==
  [][st'.fault =>
       \/ st'.d = st.d /\ st'.mem = st.mem
       \/ prog[at].op \in {"DIVU", "DIVS"} /\ ~prog[at].todr]_vars
=============================================================================
