------------------------------- MODULE NasEa -------------------------------
(***************************************************************************)
(* Operands in the assembler (nas.cc): how many bytes the first pass       *)
(* reserves for one (ealen) and how the second encodes it (ea).            *)
(*                                                                         *)
(* An operand is a record:                                                 *)
(*   k     "reg", "imm", "inc" (ar)+, "dec" -(ar), "mem" the forms with    *)
(*         parentheses, "abs", "areg" ar:expr, "str"                       *)
(*   r     the register: d0-d7, a0-a7 are 0-15, CCR 15, IR 16, SMR 17;     *)
(*         for "mem" the base, 19 being PC                                 *)
(*   size  of the suffix .b .w .l (1 2 4), or of < and > (1 3); 0 without  *)
(*   e     the expression of "imm", "abs" and "areg"; q the segment named  *)
(*   form  "ind", "pre" (indexed after the indirection), "post"            *)
(*   off, ix, scale, disp  ([off,ar,ix*scale],disp); ix is -1 without index*)
(*   len   bytes of a string, its count included                           *)
(* v has the values of e, off, scale and disp: [type, unres, v, seg], type *)
(* being "bad", "num", "seg" or "addr".  Numbers stay far below 36 bits,   *)
(* so the test of what fits in a long is left out.                         *)
(***************************************************************************)
EXTENDS Words, Bitwise

None == [t |-> "none"]
PC == 19
W == 262144           \* values of a word

Word(n) == n % W
SWord(n) == NasSigned(W \div 2, n)
DWord(n) == <<n % W, (n \div W) % W>>
SDWord(n) ==
  LET m == IF n < 0 THEN -n ELSE n
  IN <<m % W, m \div W + (IF n < 0 THEN W \div 2 ELSE 0)>>

Fits6(n) == ~Overflow(32, n)
Fits9(n) == ~Overflow(256, n)
Fits18(n) == ~Overflow(W \div 2, n)

\* The base register as it is encoded.
Areg(o) == IF o.r = PC THEN \o70 ELSE o.r % 8
HasOff(o) == o.off # None
HasDisp(o) == o.disp # None
Offset(o, v) == IF HasOff(o) THEN v.off.v ELSE 0
Plain(o) == o.ix = -1 /\ ~HasDisp(o)

\* The size suffix is the last node of an operand; a data register, which has
\* no other, is not looked at for one.
Osz(o) == IF o.k = "reg" THEN 0 ELSE o.size

(***************************************************************************)
(* The size of an immediate, 0 if there is none.  Too large a number for   *)
(* an explicit size falls through to the test for the next, which passes.  *)
(* The passes differ: the first keeps an explicit size for what it cannot  *)
(* evaluate yet.                                                           *)
(***************************************************************************)
ImmSize(sz, val, pass1) ==
  LET forced == val.type # "num" \/ (val.unres /\ (sz = 0 \/ ~pass1))
      osz == IF forced THEN 4 ELSE sz
  IN IF osz # 0 THEN IF osz \in {1, 2, 4} THEN osz ELSE 0
     ELSE IF Fits6(val.v) THEN 1 ELSE IF Fits18(val.v) THEN 2 ELSE 4

\* "last resort": a displacement that is too large becomes the offset.
Moved(o, v) ==
  HasDisp(o) /\ ~Fits9(v.disp.v) /\ o.form = "ind" /\ ~HasOff(o) /\ Fits18(v.disp.v)

\* Mutant of MemLen: a displacement is thought to fit where it is.
MemLenInPlace(o, v) ==
  LET off == Offset(o, v)
  IN IF Plain(o) /\ o.r # PC /\ off = 0 /\ o.form = "ind" THEN 2
     ELSE IF Plain(o) /\ (Fits9(off) \/ (o.r # PC /\ Fits18(off))) THEN 4
     ELSE IF off # 0 THEN 6 ELSE 4

MemLen(o, v) ==
  LET off == Offset(o, v)
  IN IF Plain(o) /\ o.r # PC /\ off = 0 /\ o.form = "ind" THEN 2
     ELSE IF Plain(o) /\ (Fits9(off) \/ (o.r # PC /\ Fits18(off))) THEN 4
     ELSE IF off # 0 \/ Moved(o, v) THEN 6 ELSE 4

\* The bytes of an instruction with this operand; 0 refuses it.
EaLen(o, v) ==
  CASE o.k = "abs" -> 8
    [] o.k = "areg" -> 4
    [] o.k \in {"reg", "inc", "dec"} -> 2
    [] o.k = "imm" ->
         CASE ImmSize(o.size, v.e, TRUE) = 0 -> 0
           [] ImmSize(o.size, v.e, TRUE) = 1 -> 2
           [] ImmSize(o.size, v.e, TRUE) = 2 -> 4
           [] OTHER -> 6
    [] o.k = "mem" -> MemLen(o, v)
    [] OTHER -> 0

-----------------------------------------------------------------------------
\* What ea leaves behind; stop is its result, err that it reported something.
Coded(type, bits, ext) ==
  [stop |-> FALSE, err |-> FALSE, type |-> type, bits |-> bits, ext |-> ext]
Refused == [Coded("addr", 0, <<>>) EXCEPT !.stop = TRUE, !.err = TRUE]

\* Mutant of Const: what is unresolved counts as 0.
ConstLoose(val) == val.type = "num"

\* A constant is required.
Const(val) == val.type = "num" /\ ~val.unres

ScaleBits == [x \in {1, 2, 4, 8} |-> CASE x = 1 -> 0 [] x = 2 -> 1 [] x = 4 -> 2 [] x = 8 -> 3]

\* The general form, with an extension word and perhaps an offset word.
IndexedEa(o, v, eam, off, disp) ==
  LET kind == IF o.ix # -1
              THEN CASE o.form = "ind" -> \o400000
                     [] o.form = "pre" -> \o500000
                     [] o.form = "post" -> \o700000
              ELSE IF o.form = "ind" THEN \o200000 ELSE \o300000
      scale == IF o.scale = None THEN 0 ELSE ScaleBits[v.scale.v]
      index == IF o.ix = -1 THEN 0 ELSE scale * 2^12 + o.ix * 2^9
      ext == kind | index | NasSigned(256, disp)
  IN Coded("addr", eam | \o60 | Areg(o),
           IF off # 0 THEN <<ext | 2^14, SWord(off)>> ELSE <<ext>>)

MemEa(o, v, eam) ==
  LET off == Offset(o, v)
      disp == IF HasDisp(o) THEN v.disp.v ELSE 0
  IN IF HasOff(o) /\ ~Const(v.off) THEN Refused
     ELSE IF Plain(o) /\ o.r # PC /\ off = 0 /\ o.form = "ind"
     THEN Coded("addr", eam | \o10 | Areg(o), <<>>)
     ELSE IF Plain(o) /\ Fits9(off)
     THEN Coded("addr", eam | \o60 | Areg(o),
                <<NasSigned(256, off) | (IF o.form = "ind" THEN 0 ELSE \o100000)>>)
     ELSE IF Plain(o) /\ o.r # PC /\ Fits18(off)
     THEN Coded("addr", eam | \o40 | Areg(o), <<SWord(off)>>)
     ELSE IF \/ HasDisp(o) /\ (~Const(v.disp) \/ (~Fits9(disp) /\ ~Moved(o, v)))
             \/ ~Fits18(off)
             \/ o.scale # None /\ (~Const(v.scale) \/ v.scale.v \notin {1, 2, 4, 8})
     THEN Refused
     ELSE IF Moved(o, v) THEN IndexedEa(o, v, eam, disp, 0)
     ELSE IndexedEa(o, v, eam, off, disp)

ImmEa(o, v) ==
  LET val == v.e
      bad == ~Const(val)
      size == ImmSize(o.size, val, FALSE)
  IN CASE size = 0 -> Refused
       [] size = 1 -> Coded("imm", \o300 | NasSigned(32, val.v), <<>>)
       [] size = 2 -> Coded("imm", \o171, <<SWord(val.v)>>)
       [] OTHER -> [Coded("imm", \o271, SDWord(val.v)) EXCEPT !.err = bad]

\* segs are the assembler's segments, for the number of the one an address is in.
Ea(o, v, unsized, segs) ==
  LET eam == CASE unsized \/ Osz(o) = 1 -> 0
               [] Osz(o) = 2 -> \o100
               [] OTHER -> \o200
  IN CASE o.k = "reg" -> Coded("reg", eam | (o.r % 8), <<>>)
       [] o.k = "areg" ->
            IF Fits18(v.e.v) THEN Coded("addr", eam | \o50 | (o.r % 8), <<SWord(v.e.v)>>)
            ELSE Refused
       [] o.k = "abs" ->
            LET literal == v.e.seg # 0 /\ segs[v.e.seg].type = "literal"
            IN [Coded("addr", eam | \o72,
                      <<IF literal THEN Word(segs[v.e.seg].value) ELSE 0>> \o DWord(v.e.v))
                  EXCEPT !.err = v.e.type # "addr"]
       [] o.k = "inc" -> Coded("addr", eam | \o20 | (o.r % 8), <<>>)
       [] o.k = "dec" -> Coded("addr", eam | \o30 | (o.r % 8), <<>>)
       [] o.k = "imm" -> ImmEa(o, v)
       [] o.k = "mem" -> MemEa(o, v, eam)
       \* a string evaluates to nothing
       [] OTHER -> [Coded("addr", eam | \o72, <<0, 0, 0>>) EXCEPT !.err = TRUE]
=============================================================================
