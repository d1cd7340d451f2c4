---------------------------- MODULE NasPromises ----------------------------
(***************************************************************************)
(* What a programmer relies on when a file went through the assembler and  *)
(* the loader, with the exceptions the code makes named one by one.        *)
(***************************************************************************)
EXTENDS Nas

Collected == phase = "collect"
Src(k) == source[k]
Placed == {k \in DOMAIN insn : insn[k].ilen > 0}

\* Lines that got the bytes that were reserved for them and no message.
Clean == {k \in Placed \ errs : Len(insn[k].bytes) = insn[k].ilen}

WordsOf(k) == [n \in 1 .. insn[k].ilen \div 2 |-> GetWord(512, insn[k].bytes, 2 * n - 1)]

DataLines == {"DB", "DS"} \cup DOMAIN Data
Coding(k) == Src(k).op \notin DataLines

-----------------------------------------------------------------------------
(* What an instruction says *)

Transfers == {"LDA", "LDS", "STA", "STS"}
Stores == {"STA", "STS"}
DataOps == {op \in DOMAIN EarBits : EarBits[op] > \o417777}
SizedOps == DataOps \cup {"MOV", "SEX", "LINK"} \cup (DOMAIN UnaryBits \ {"SSMA", "SSML"})

\* The operand that is no plain register, for the instructions with an effective address.
HasEa(l) == l.op \in DOMAIN EarBits \cup DOMAIN UnaryBits \cup DOMAIN AddrBits \cup {"MOVM"}
Operand(l) ==
  CASE l.op \in DOMAIN EarBits -> Ear(l).ea
    [] l.op = "MOVM" /\ l.args[1].k = "reg" -> Last(l.args)
    [] OTHER -> l.args[1]

WrittenSize(op, o) ==
  IF op \notin SizedOps \/ o.k = "imm" THEN 2
  ELSE CASE o.size = 1 -> 0 [] o.size = 2 -> 1 [] OTHER -> 2

WrittenEa(op, o, v, segs) ==
  LET size == WrittenSize(op, o)
      disp == IF HasDisp(o) THEN v.disp.v ELSE 0
      direct == o.form = "ind"
  IN CASE o.k \in {"reg", "inc", "dec"} -> Direct(size, o.k, IF o.k = "reg" THEN o.r ELSE o.r % 8, 0)
       [] o.k = "imm" -> [NoEa EXCEPT !.mode = "imm", !.v = v.e.v]
       [] o.k = "areg" -> Direct(size, "seg", o.r % 8, v.e.v)
       [] o.k = "abs" ->
            [NoEa EXCEPT !.mode = "abs", !.size = size,
                         !.to = <<segs[v.e.seg].value, v.e.v % W, (v.e.v \div W) % W>>]
       [] o.k = "mem" ->
            [Direct(size, "mem", IF o.r = PC THEN 8 ELSE o.r % 8,
                    Offset(o, v) + (IF direct THEN disp ELSE 0))
               EXCEPT !.ind = ~direct, !.ix = o.ix, !.inside = o.form = "post",
                      !.sc = IF o.scale = None THEN 0 ELSE ScaleBits[v.scale.v],
                      !.disp = IF direct THEN 0 ELSE disp]

Written(k) ==
  LET l == Src(k)
      a == Revisit(k)
      o == Operand(l)
  IN [name |-> l.op,
      reg |-> CASE l.op \in DOMAIN EarBits -> Ear(l).reg % 8
                [] l.op = "UNLK" -> l.args[1].r % 8
                [] OTHER -> 0,
      todr |-> CASE l.op \in DOMAIN EarBits -> Ear(l).dest
                 [] l.op = "MOVM" -> l.args[1].k # "reg"
                 [] OTHER -> TRUE,
      ea |-> IF HasEa(l) THEN WrittenEa(l.op, o, Values(o, a), a.segs) ELSE NoEa,
      arg |-> CASE l.op \in DOMAIN RelBits ->
                     Address(l.args[1], a).v - (insn[k].addr + insn[k].ilen)
                [] l.op = "TRAP" -> Eval(l.args[1].e, a).v
                [] l.op = "MOVM" ->
                     SumSet({2 ^ l.args[n].r : n \in {m \in DOMAIN l.args : l.args[m].k = "reg"}})
                [] OTHER -> 0,
      len |-> insn[k].ilen]

\* What the CPU makes of the bytes; the length of the address alone is of no interest.
Read(k) == [Decoded(WordsOf(k) \o <<0, 0, 0, 0>>) EXCEPT !.ea.len = 0]

-----------------------------------------------------------------------------
(* Where the code differs *)

\* A data operation becomes one on bytes, and a register's suffix is dropped.
SizeLost(op, o) ==
  \/ op \in DataOps /\ o.k # "imm" /\ o.size # 1
  \/ op \in SizedOps \ DataOps /\ o.k = "reg" /\ o.size \in {1, 2}

\* The default size, another one or an immediate falls on bits of the opcode.
OpcodeLost(op, o) ==
  \/ op \in Transfers /\ (o.k = "imm" \/ Osz(o) # 1)
  \/ op = "LEA" /\ (o.k = "imm" \/ Osz(o) = 2)
  \/ op \in {"MOVM", "SSMA", "SSML"} /\ o.k = "imm"

\* A number does not fit, a sign is read as magnitude, a pair of brackets disappears.
ValueLost(o, v) ==
  \/ o.k = "imm" /\ ((o.size = 1 /\ ~Fits6(v.e.v)) \/ (o.size = 2 /\ ~Fits18(v.e.v)))
  \/ o.k = "areg" /\ v.e.v < 0
  \/ o.k = "mem" /\ Plain(o) /\ o.form # "ind" /\ o.r # PC /\ ~Fits9(Offset(o, v))

\* Nothing checks on which side of an address register transfer the operand is,
\* nor whether a register operand is one of data; loads of MOVM have no bit set.
SideLost(l, o) ==
  \/ l.op \in DOMAIN EarBits \ (DataOps \cup {"MOV", "SEX"}) /\ Ear(l).dest = (l.op \in Stores)
  \/ l.op = "MOVM" /\ l.args[1].k # "reg"
  \/ o.k = "reg" /\ o.r > 7

Excepted(k) ==
  LET l == Src(k)
      o == Operand(l)
  IN \/ l.op = "UNLK"                                  \* 0600000 for 0060000
     \/ l.op \in DOMAIN Imm9Bits /\ (l.args = <<>> \/ Eval(l.args[1].e, asm).v \notin 0 .. 511)
     \/ /\ HasEa(l)
        /\ SizeLost(l.op, o) \/ OpcodeLost(l.op, o) \/ ValueLost(o, Values(o, Revisit(k)))
             \/ SideLost(l, o)

\* An instruction assembled without a message is the one that was written, operand,
\* size and target included, unless it is one of the exceptions.
DecodesAsWritten ==
  Collected => \A k \in Clean : Coding(k) /\ ~Excepted(k) => Read(k) = Written(k)

\* Loads and stores of address registers, on the right side and without a suffix as
\* the bootstrap writes them, have the encoding of the instruction table.
TransfersFollowTheTable ==
  Collected => \A k \in Clean :
    LET l == Src(k)
        bare == Operand(l).k # "imm" /\ Operand(l).size = 0
    IN l.op \in Transfers /\ Ear(l).dest # (l.op \in Stores) /\ bare => Read(k) = Written(k)

\* Numbers in DW and DL are read back by the CPU with their sign.
DataReadsBack ==
  Collected => \A k \in Clean :
    LET word(n) == WordsOf(k)[n]
        value(n) == Address(Src(k).args[n], Revisit(k)).v
    IN /\ Src(k).op = "DW" =>
            \A n \in DOMAIN Src(k).args : Fits18(value(n)) => SignedWord(word(n)) = value(n)
       /\ Src(k).op = "DL" =>
            \A n \in DOMAIN Src(k).args : LongNumber(word(2 * n - 1), word(2 * n)) = value(n)

-----------------------------------------------------------------------------
(* Names *)

\* Lines of a segment in the order of the file, as the segment is filled.
Ascending ==
  \A j, k \in Placed : j < k /\ insn[j].seg = insn[k].seg
                         => insn[j].addr + insn[j].ilen <= insn[k].addr

\* The line a local label at line k should mean: its nearest occurrence, .1f
\* including the line itself; 0 if there is none.
NearestLocal(k, o) ==
  LET n == o.e.num
      is(j) == Src(j).loc = n /\ insn[j].seg = insn[k].seg
      js == IF o.e.t = "fwd" THEN {j \in Placed : is(j) /\ j >= k}
            ELSE {j \in Placed : is(j) /\ j < k}
  IN IF js = {} THEN 0
     ELSE CHOOSE j \in js : \A i \in js : IF o.e.t = "fwd" THEN j <= i ELSE j >= i

\* A label has the address its line's bytes got in the second pass, and a local one
\* means its nearest occurrence, provided that nothing is placed behind earlier code
\* and each labelled line has bytes.
ReferencesLand ==
  Collected =>
    /\ \A k \in Placed : Src(k).label # "" /\ Names(Src(k)) =>
         asm.syms[Src(k).label] = Val("addr", FALSE, insn[k].addr, insn[k].seg)
    /\ (Ascending /\ \A k \in DOMAIN source : Src(k).loc # 0 => k \in Placed) =>
         \A k \in Placed : \A n \in DOMAIN Src(k).args :
           LET o == Src(k).args[n]
               j == NearestLocal(k, o)
               v == Address(o, Revisit(k))
           IN o.k = "abs" /\ o.e.t \in {"fwd", "back"} =>
                IF j = 0 THEN v.unres ELSE ~v.unres /\ v.v = insn[j].addr

\* An operand that is nothing but an undefined name is never taken for 0 in an
\* instruction, except after ar: where nobody asks.
UndefinedIsReported ==
  Collected =>
    \A k \in Clean : Coding(k) =>
      \A n \in DOMAIN Src(k).args :
        LET o == Src(k).args[n]
            uses == {o.e, o.off, o.disp, o.scale}
        IN o.k # "areg" => \A e \in uses : e.t = "sym" => e.n \in DOMAIN asm.syms

-----------------------------------------------------------------------------
(* Lengths *)

\* Lines the second pass gave bytes, but not as many as the first had reserved.
Desynced == {k \in DOMAIN insn : insn[k].bytes # <<>> /\ Len(insn[k].bytes) # insn[k].ilen}

RECURSIVE Later(_, _)
\* Whether an expression at line k names what is defined there or later, or nowhere.
Later(e, k) ==
  CASE e.t = "sym" -> \A j \in 1 .. k - 1 : Src(j).label # e.n
    [] e.t = "fwd" -> TRUE
    [] e.t = "neg" -> Later(e.x, k)
    [] e.t = "bin" -> Later(e.x, k) \/ Later(e.y, k)
    [] OTHER -> FALSE

LooksAhead(k) ==
  \E n \in DOMAIN Src(k).args :
    LET o == Src(k).args[n]
    IN o.k \in {"imm", "mem"} /\ \E e \in {o.e, o.off, o.disp} : Later(e, k)

\* The passes disagree on the length of a line only over a name that was not known
\* in the first, a branch with a suffix, a MOVM with not exactly one operand in
\* memory, or a string for an operand, which the first pass drops in silence.
DesyncsAreKnown ==
  Collected =>
    \A k \in Desynced :
      \/ LooksAhead(k)
      \/ HasEa(Src(k)) /\ Operand(Src(k)).k = "str"
      \/ Src(k).op \in DOMAIN RelBits /\ Src(k).args[1].size \in {2, 4}
      \/ Src(k).op = "MOVM"
           /\ Cardinality({n \in DOMAIN Src(k).args : Src(k).args[n].k # "reg"}) # 1

-----------------------------------------------------------------------------
(* The object file and the image *)

Shared(j, k) ==
  /\ j # k /\ insn[j].seg = insn[k].seg
  /\ insn[j].addr < insn[k].addr + insn[k].ilen /\ insn[k].addr < insn[j].addr + insn[j].ilen
Overlapping == \E j, k \in Placed : Shared(j, k)

Used == {s \in DOMAIN asm.segs : asm.segs[s].length > 0}
Numbered == \A s, t \in Used : asm.segs[s].value = asm.segs[t].value => s = t

\* A program assembled without a message is in memory as it was written once it is
\* loaded: the bytes of every line at their address, and nothing past the size that
\* was allocated.
ImageIsProgram ==
  phase = "done" /\ errs = {} /\ ~Overlapping /\ Numbered =>
    \A k \in Placed : \E s \in DOMAIN image :
      LET g == image[s]
      IN /\ g.value = asm.segs[insn[k].seg].value
         /\ \A n \in 1 .. insn[k].ilen :
              LET x == insn[k].addr + n - 1
              IN x \in DOMAIN g.cells /\ g.cells[x] = insn[k].bytes[n]
         /\ DOMAIN g.cells \subseteq 0 .. g.size - 1

\* The assembler dies of an overlap only if two lines do share bytes.
AbortMeansOverlap == phase = "abort" => Overlapping

-----------------------------------------------------------------------------
\* Every byte that was put out is one of 9 bits, and no segment's place moves
\* behind its start.
TypeOK ==
  /\ phase \in {"pass1", "pass2", "collect", "load", "done", "stop", "crash", "abort"}
  /\ at \in DOMAIN source /\ errs \subseteq DOMAIN source
  /\ asm.cseg \in 0 .. Len(asm.segs)
  /\ \A s \in DOMAIN asm.segs : asm.segs[s].addr >= 0 /\ asm.segs[s].length >= 0
  /\ \A k \in DOMAIN insn : Range(insn[k].bytes) \subseteq 0 .. 511
=============================================================================
