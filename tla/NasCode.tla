------------------------------ MODULE NasCode ------------------------------
(***************************************************************************)
(* What nas.cc makes of one line: the values of its expressions, the bytes *)
(* the first pass reserves for it and those the second pass puts there.    *)
(*                                                                         *)
(* A line is [label, loc, op, args]: loc is the number of a local label    *)
(* (.1), 0 without; op "" is a line with nothing but a label or nothing at *)
(* all.  a is the assembler's state: segs, syms (values by name), locals,  *)
(* cseg.  Segments are numbered from 1, 0 being the null pointer.  An      *)
(* expression is a record with t "num", "sym", "here" (.), "fwd" (.1f),    *)
(* "back" (.1b), "neg", "bin" or "none".                                   *)
(***************************************************************************)
EXTENDS NasEa, SequencesExt

(* Values of expressions *)

Val(type, unres, n, seg) == [type |-> type, unres |-> unres, v |-> n, seg |-> seg]
Num(n) == Val("num", FALSE, n, 0)
Bad == Val("bad", FALSE, 0, 0)

Compute(op, x, y) == CASE op = "+" -> x + y [] op = "-" -> x - y [] op = "*" -> x * y

\* A difference of addresses is a number that keeps its segment; of two numbers
\* only the first is asked whether it is resolved.
Binary(op, x, y) ==
  CASE x.type = "bad" -> x
    [] x.type # "bad" /\ y.type = "bad" -> y
    [] x.type = "addr" /\ y.type = "addr" ->
         IF op # "-" THEN Bad
         ELSE IF x.unres \/ y.unres THEN Val("num", TRUE, x.v, x.seg)
         ELSE IF x.seg = y.seg THEN Val("num", FALSE, x.v - y.v, x.seg) ELSE Bad
    [] x.type = "addr" /\ y.type = "num" ->
         IF op \in {"+", "-"} THEN Val("addr", x.unres \/ y.unres, Compute(op, x.v, y.v), x.seg)
         ELSE Bad
    [] x.type = "num" /\ y.type = "addr" /\ op = "+" ->
         Val("addr", x.unres \/ y.unres, x.v + y.v, y.seg)
    [] "seg" \in {x.type, y.type} -> Bad
    [] OTHER -> [x EXCEPT !.v = Compute(op, x.v, y.v)]

InSegment(a) == a.cseg # 0 /\ a.segs[a.cseg].based

\* Mutant of Local: .1b is the first one before.
LocalFirst(a, n, fwd) ==
  LET here == a.segs[a.cseg].addr
      found == {i \in DOMAIN a.locals :
                  /\ a.locals[i].num = n /\ a.locals[i].seg = a.cseg
                  /\ IF fwd THEN a.locals[i].addr >= here ELSE a.locals[i].addr < here}
  IN IF found = {} THEN Val("addr", TRUE, 0, a.cseg)
     ELSE Val("addr", FALSE, a.locals[CHOOSE i \in found : \A j \in found : i <= j].addr, a.cseg)

\* .1f is the first definition at or after this address, .1b the last one before.
Local(a, n, fwd) ==
  LET here == a.segs[a.cseg].addr
      found == {i \in DOMAIN a.locals :
                  /\ a.locals[i].num = n /\ a.locals[i].seg = a.cseg
                  /\ IF fwd THEN a.locals[i].addr >= here ELSE a.locals[i].addr < here}
  IN IF found = {} THEN Val("addr", TRUE, 0, a.cseg)
     ELSE Val("addr", FALSE,
              a.locals[CHOOSE i \in found :
                         \A j \in found : IF fwd THEN i <= j ELSE i >= j].addr, a.cseg)

RECURSIVE Eval(_, _)
Eval(e, a) ==
  CASE e.t = "num" -> Num(e.v)
    [] e.t = "neg" -> LET x == Eval(e.x, a) IN IF x.type = "num" THEN [x EXCEPT !.v = -@] ELSE Bad
    [] e.t = "bin" -> Binary(e.op, Eval(e.x, a), Eval(e.y, a))
    [] e.t = "sym" -> IF e.n \in DOMAIN a.syms THEN a.syms[e.n] ELSE Val("num", TRUE, 0, 0)
    [] e.t = "here" -> IF InSegment(a) THEN Val("addr", FALSE, a.segs[a.cseg].addr, a.cseg) ELSE Bad
    [] e.t \in {"fwd", "back"} -> IF InSegment(a) THEN Local(a, e.num, e.t = "fwd") ELSE Bad
    [] OTHER -> Num(0)

\* An operand as a value (Node::Address): what has a segment is an address, and
\* what is wrong becomes 0.
Address(o, a) ==
  LET x == Eval(o.e, a)
  IN CASE o.k \notin {"abs", "areg"} -> Bad
       [] o.k = "abs" /\ o.q # "" ->
            IF o.q \in DOMAIN a.syms /\ a.syms[o.q].type = "seg"
            THEN Val("addr", x.unres, x.v, a.syms[o.q].seg) ELSE Bad
       [] OTHER -> Val(IF x.seg # 0 THEN "addr" ELSE "num", x.unres, x.v, x.seg)

\* The values NasEa works with.
Values(o, a) ==
  [e |-> IF o.k = "abs" THEN Address(o, a) ELSE Eval(o.e, a),
   off |-> Eval(o.off, a), scale |-> Eval(o.scale, a), disp |-> Eval(o.disp, a)]

-----------------------------------------------------------------------------
(* Instructions: their bits and their class *)

EarBits ==
  [MOV  |-> \o400000, SEX  |-> \o410000, ADD  |-> \o500000, SUB  |-> \o510000,
   ADC  |-> \o520000, SBC  |-> \o530000, AND  |-> \o540000, OR   |-> \o550000,
   XOR  |-> \o560000, CMP  |-> \o570000, MULU |-> \o600000, MULS |-> \o610000,
   DIVU |-> \o620000, DIVS |-> \o630000, ROR  |-> \o640000, RORC |-> \o650000,
   ROL  |-> \o660000, ROLC |-> \o670000, BCOM |-> \o700000, BCLR |-> \o710000,
   BSET |-> \o720000, BTST |-> \o730000, ASR  |-> \o740000, LSR  |-> \o750000,
   ASL  |-> \o760000, LSL  |-> \o770000, LINK |-> \o200400, LEA  |-> \o220600,
   LDA  |-> \o220500, LDS  |-> \o220400, STA  |-> \o220100, STS  |-> \o220000]

UnaryBits ==
  [CLR |-> \o200000, TST |-> \o204000, INC |-> \o205000, DEC |-> \o206000,
   NEG |-> \o207000, COM |-> \o210000, SSMA |-> \o301000, SSML |-> \o301100]

AddrBits == [JSR |-> \o300100, JMP |-> \o300200, PEA |-> \o301200]

RelBits ==
  [BSR |-> \o000000, BRA |-> \o001000, BEQ |-> \o002000, BNE |-> \o003000,
   BLO |-> \o004000, BHS |-> \o005000, BLS |-> \o006000, BHI |-> \o007000,
   BMI |-> \o010000, BPL |-> \o011000, BLT |-> \o012000, BGE |-> \o013000,
   BLE |-> \o014000, BGT |-> \o015000]

Imm9Bits == [RTS |-> \o041000, RTE |-> \o042000, TRAP |-> \o043000]

OplessBits == [NOP |-> \o133000, STOP |-> \o133001, BKPT |-> \o133002, CLC |-> \o133003]

Data == [DW |-> 2, DL |-> 4, DA |-> 6]

Known ==
  {"SEG", "ORG", "EQU", "START", "DS", "DB", "UNLK", "MOVM"} \cup DOMAIN Data
    \cup DOMAIN EarBits \cup DOMAIN UnaryBits \cup DOMAIN AddrBits \cup DOMAIN RelBits
    \cup DOMAIN Imm9Bits \cup DOMAIN OplessBits

-----------------------------------------------------------------------------
(* The first pass: errors and lengths *)

Needs(op) ==
  CASE op \in DOMAIN OplessBits -> {0}
    [] op \in DOMAIN Imm9Bits -> {0, 1}
    [] op \in DOMAIN EarBits -> {2}
    [] op \in {"ORG", "EQU", "DS", "UNLK"} \cup DOMAIN UnaryBits \cup DOMAIN AddrBits
         \cup DOMAIN RelBits -> {1}
    [] OTHER -> Nat

IsReg(o, lo, hi) == o.k = "reg" /\ o.r \in lo .. hi

\* Register and other operand of OP EA,Rn and OP Rn,EA; the second of two data
\* registers is the destination.
Ear(l) ==
  LET first == [reg |-> l.args[1].r, dest |-> FALSE, ea |-> l.args[2]]
      last  == [reg |-> l.args[2].r, dest |-> TRUE, ea |-> l.args[1]]
  IN IF IsReg(l.args[1], 8, 17) \/ l.args[2].k # "reg" THEN first ELSE last

SegRefused(l, a) ==
  LET v == Address(l.args[1], a)
      n == Len(l.args)
  IN IF l.label = "" THEN n # 1 \/ v.unres \/ v.seg = 0
     ELSE \/ l.label \in DOMAIN a.syms
          \/ /\ n > 0
             /\ IF l.args[1].k = "str" THEN n > 1
                ELSE n > 2 \/ (n = 2 /\ Address(l.args[2], a).unres) \/ v.unres \/ v.type = "bad"

\* Whether the first pass reports an error.
Refused1(l, a) ==
  LET o == l.args[1]
      v == Address(o, a)
  IN \/ Len(l.args) \notin Needs(l.op)
     \/ l.op = "SEG" /\ SegRefused(l, a)
     \/ l.op = "ORG" /\ (v.type = "bad" \/ v.unres \/ (v.seg = 0 /\ a.cseg = 0))
     \/ l.op = "EQU" /\ (l.label = "" \/ l.label \in DOMAIN a.syms \/ v.type = "bad")
     \/ l.op = "DS" /\ (v.type # "num" \/ v.unres)
     \/ l.op \in DOMAIN EarBits /\ \A k \in {1, 2} : l.args[k].k # "reg"
     \/ l.op = "UNLK" /\ ~IsReg(o, 8, 14)
     \/ l.op \in DOMAIN Imm9Bits /\ l.args # <<>> /\ o.k # "imm"
     \/ l.op = "MOVM" /\ Len(l.args) < 2

Far(x, y) == x - y > 255 \/ y - x > 255

\* A branch is taken to be short unless its target is already known to be far.
RelSize(o, a) ==
  LET v == Address(o, a)
  IN IF o.size # 0 /\ o.q = "" THEN o.size
     ELSE IF ~v.unres /\ a.cseg # 0 /\ Far(a.segs[a.cseg].addr + 2, v.v) THEN 3 ELSE 1

\* MOVM's length comes from its last operand that is no register.
MovmLen(l, a) ==
  LET eas == {k \in DOMAIN l.args : l.args[k].k # "reg"}
      len(k) == EaLen(l.args[k], Values(l.args[k], a))
  IN IF eas = {} THEN 2
     ELSE IF \E k \in eas : len(k) = 0 THEN 0
     ELSE 2 + len(CHOOSE k \in eas : \A j \in eas : j <= k)

\* ilen after the first pass.
Length(l, a) ==
  LET op == l.op
      of(o) == EaLen(o, Values(o, a))
  IN CASE op \in DOMAIN Data -> Len(l.args) * Data[op]
       [] op = "DB" -> FoldLeft(LAMBDA n, o : n + (IF o.k = "str" THEN o.len ELSE 1), 0, l.args)
       [] op \in DOMAIN EarBits -> of(Ear(l).ea)
       [] op \in DOMAIN UnaryBits \cup DOMAIN AddrBits -> of(l.args[1])
       [] op \in DOMAIN RelBits -> RelSize(l.args[1], a) + 1
       [] op = "MOVM" -> MovmLen(l, a)
       [] op \in {"UNLK"} \cup DOMAIN Imm9Bits \cup DOMAIN OplessBits -> 2
       [] OTHER -> 0

-----------------------------------------------------------------------------
(* The second pass: stop is what pass2 returns, err that it reported an    *)
(* error, bytes what it put out.                                           *)

Out(words) ==
  [stop |-> FALSE, err |-> FALSE,
   bytes |-> FoldLeft(LAMBDA s, w : s \o PutWord(512, w), <<>>, words)]
Stop == [stop |-> TRUE, err |-> TRUE, bytes |-> <<>>]

OutEa(bits, x, tail) ==
  IF x.stop THEN Stop ELSE [Out(<<bits | x.bits>> \o x.ext \o tail) EXCEPT !.err = x.err]

EarCode(l, a) ==
  LET p == Ear(l)
      bits == EarBits[l.op]
      \* written the wrong way round: it is the data operations that have a size
      unsized == bits \div 2^12 > \o41
      dir == IF p.reg < 8 /\ ~p.dest THEN \o400 ELSE 0
  IN IF p.reg \notin (IF bits < 2^17 THEN 8 .. 15 ELSE 0 .. 7) THEN Stop
     ELSE OutEa(bits | dir | ((p.reg % 8) * 2^9),
                Ea(p.ea, Values(p.ea, a), unsized, a.segs), <<>>)

\* Mutant of RelCode: the displacement counts from the instruction's address.
RelCodeFromStart(l, i, a) ==
  LET v == Address(l.args[1], a)
      disp == v.v - i.addr
  IN IF v.unres \/ v.type # "addr" \/ v.seg # i.seg THEN Stop
     ELSE IF i.ilen = 2
     THEN IF Far(disp, 0) THEN Stop ELSE Out(<<RelBits[l.op] | NasSigned(256, disp)>>)
     ELSE LET d == NasSigned(2^26, disp)
          IN Out(<<RelBits[l.op] | 2^13 | (d % 512), d \div 512>>)

RelCode(l, i, a) ==
  LET v == Address(l.args[1], a)
      disp == v.v - (i.addr + i.ilen)
  IN IF v.unres \/ v.type # "addr" \/ v.seg # i.seg THEN Stop
     ELSE IF i.ilen = 2
     THEN IF Far(disp, 0) THEN Stop ELSE Out(<<RelBits[l.op] | NasSigned(256, disp)>>)
     ELSE LET d == NasSigned(2^26, disp)
          IN Out(<<RelBits[l.op] | 2^13 | (d % 512), d \div 512>>)

\* garbage is the operand that is not there.
Imm9Code(l, a, garbage) ==
  LET v == IF l.args = <<>> THEN Num(garbage) ELSE Eval(l.args[1].e, a)
  IN IF ~Const(v) \/ (l.op = "TRAP" /\ l.args # <<>> /\ v.v \notin 0 .. 15) THEN Stop
     ELSE Out(<<Imm9Bits[l.op] | Word(v.v)>>)

MovmCode(l, a) ==
  LET o == IF l.args[1].k = "reg" THEN Last(l.args) ELSE l.args[1]
      regs == {l.args[k].r : k \in {n \in DOMAIN l.args : l.args[n].k = "reg"}}
  IN OutEa(\o300000, Ea(o, Values(o, a), TRUE, a.segs), <<MapThenSumSet(LAMBDA r : 2^r, regs)>>)

\* DW, DL and DA; what is not defined is 0.
DatumWords(op, v, a) ==
  CASE op = "DW" -> <<SWord(v.v)>>
    [] op = "DL" -> SDWord(v.v)
    [] op = "DA" -> <<IF v.type = "addr" /\ v.seg # 0 THEN Word(a.segs[v.seg].value) ELSE 0>>
                      \o DWord(v.v)

DataCode(l, a) ==
  LET v == [k \in DOMAIN l.args |-> Address(l.args[k], a)]
  IN [Out(FlattenSeq([k \in DOMAIN v |-> DatumWords(l.op, v[k], a)]))
        EXCEPT !.err = \E k \in DOMAIN v : v[k].type = "bad"]

\* Mutant of DbByte: a number keeps what does not fit.
DbByteUncut(v) == v.v

DbByte(v) ==
  CASE v.type = "num" /\ v.v < 0 -> (-v.v | 256) % 512
    [] v.type = "num" /\ v.v >= 0 -> v.v % 256
    [] OTHER -> v.v % 512

\* The characters of a string are taken to be 0.
DbCode(l, a) ==
  LET of(o) == IF o.k = "str" THEN [n \in 1 .. o.len |-> 0] ELSE <<DbByte(Address(o, a))>>
  IN [stop |-> FALSE, bytes |-> FlattenSeq([k \in DOMAIN l.args |-> of(l.args[k])]),
      err |-> \E k \in DOMAIN l.args : l.args[k].k # "str" /\ Address(l.args[k], a).type = "bad"]

StartRefused(l, a) ==
  LET v == Address(l.args[1], a)
  IN Len(l.args) # 1 \/ l.label # "" \/ v.type # "addr" \/ v.unres \/ v.seg = 0
       \/ a.start # <<0, 0>>

\* pass2 of a line placed as i says.
Code(l, i, a, garbage) ==
  LET op == l.op
      ea(unsized) == Ea(l.args[1], Values(l.args[1], a), unsized, a.segs)
  IN CASE op \in DOMAIN EarBits -> EarCode(l, a)
       [] op \in DOMAIN UnaryBits ->
            OutEa(UnaryBits[op], ea(UnaryBits[op] \div 2^15 # 2), <<>>)
       [] op \in DOMAIN AddrBits ->
            IF ea(TRUE).type # "addr" THEN Stop ELSE OutEa(AddrBits[op], ea(TRUE), <<>>)
       [] op \in DOMAIN RelBits -> RelCode(l, i, a)
       [] op \in DOMAIN Imm9Bits -> Imm9Code(l, a, garbage)
       [] op \in DOMAIN OplessBits -> Out(<<OplessBits[op]>>)
       [] op = "UNLK" -> Out(<<\o600000 | (l.args[1].r % 8)>>)
       [] op = "MOVM" -> MovmCode(l, a)
       [] op \in DOMAIN Data -> DataCode(l, a)
       [] op = "DB" -> DbCode(l, a)
       [] op = "START" -> IF StartRefused(l, a) THEN Stop ELSE Out(<<>>)
       [] OTHER -> Out(<<>>)
=============================================================================
