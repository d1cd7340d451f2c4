------------------------------- MODULE MC_Nas -------------------------------
(***************************************************************************)
(* The programs of the runs: one instruction at a time, with every shape   *)
(* of operand the grammar has, and three lines together out of a list of   *)
(* lines that disturb one another.                                         *)
(***************************************************************************)
EXTENDS NasPromises

-----------------------------------------------------------------------------
(* Building blocks *)

Lit(n) == [t |-> "num", v |-> n]
Sym(n) == [t |-> "sym", n |-> n]
Minus(x) == [t |-> "neg", x |-> x]
Bin(op, x, y) == [t |-> "bin", op |-> op, x |-> x, y |-> y]
Fwd(n) == [t |-> "fwd", num |-> n]
Back(n) == [t |-> "back", num |-> n]
Here == [t |-> "here"]

Blank == [k |-> "reg", r |-> 0, size |-> 0, e |-> None, q |-> "", form |-> "ind", off |-> None,
          ix |-> -1, scale |-> None, disp |-> None, len |-> 0]
Reg(r) == [Blank EXCEPT !.r = r]
Imm(e) == [Blank EXCEPT !.k = "imm", !.e = e]
Abs(e) == [Blank EXCEPT !.k = "abs", !.e = e]
Str(n) == [Blank EXCEPT !.k = "str", !.len = n]
Mem(r, form, off) == [Blank EXCEPT !.k = "mem", !.r = r, !.form = form, !.off = off]

L(op, args) == [label |-> "", loc |-> 0, op |-> op, args |-> args]
N(label, op, args) == [L(op, args) EXCEPT !.label = label]
T(loc, op, args) == [L(op, args) EXCEPT !.loc = loc]

-----------------------------------------------------------------------------
(* Operands *)

Numbers ==
  {Lit(n) : n \in {0, 5, 31, 32, 255, 256, 70000, 131071, 131072}}
    \cup {Minus(Lit(n)) : n \in {5, 31, 32, 256, 131072}}
Names3 == {Sym("c"), Sym("z"), Sym("u")}   \* defined before, after, nowhere
Places == {Sym("b"), Sym("d"), Bin("+", Sym("b"), Lit(4)), Bin("-", Here, Sym("b")),
           Bin("-", Sym("d"), Sym("b"))}

Offsets == {None, Lit(0), Lit(5), Minus(Lit(5)), Lit(300), Lit(131071), Lit(131072)} \cup Names3
Disps == {Lit(9), Minus(Lit(9)), Lit(300), Lit(131072), Sym("z"), Sym("u")}

\* Operands by kind; each set is comprehended at once, which TLC builds fastest.
Immediates == {Imm(e) : e \in Numbers \cup Names3 \cup Places}
Simple == {Mem(r, form, off) : r \in {9, PC}, form \in {"ind", "pre"}, off \in Offsets}
Indexed ==
  {[Mem(9, form, off) EXCEPT !.ix = 3, !.scale = scale, !.disp = disp] :
     form \in {"ind", "pre", "post"}, off \in {None, Lit(5), Lit(300)},
     scale \in {None, Lit(4), Lit(3), Sym("u")}, disp \in {None, Lit(9)}}
Displaced ==
  {[Mem(r, form, off) EXCEPT !.disp = disp] :
     r \in {9, PC}, form \in {"ind", "pre"}, off \in {None, Lit(5)}, disp \in Disps}
Absolutes == {Abs(e) : e \in Places \cup Names3 \cup {Lit(7), Fwd(1), Back(1)}}
Others ==
  {[Abs(Lit(7)) EXCEPT !.q = q] : q \in {"s", "c", "u"}}
    \cup {[Blank EXCEPT !.k = k, !.r = 10] : k \in {"inc", "dec"}}
    \cup {[Blank EXCEPT !.k = "areg", !.r = 11, !.e = e] :
             e \in {Lit(4), Minus(Lit(4)), Lit(131072), Sym("u")}}
    \cup {Str(3)}

\* One operand of each kind, with every suffix.
Kinds ==
  {Reg(1), Reg(11), Imm(Lit(5)), Imm(Lit(40)), Imm(Lit(131072)), Imm(Sym("z")), Imm(Sym("u")),
   Mem(9, "ind", None), Mem(9, "pre", Lit(300)), Abs(Sym("b"))}
Suffixed == {[o EXCEPT !.size = n] : o \in Kinds, n \in {0, 1, 2, 4}}

Operands ==
  Suffixed \cup Others \cup Absolutes \cup Immediates \cup Simple \cup Displaced \cup Indexed

-----------------------------------------------------------------------------
(* One instruction between a label before it and one after it *)

\* A register of the kind the operation has, and a place for the operand.
Partner(op) == Reg(IF EarBits[op] < 2^17 THEN 12 ELSE 2)
Forms ==
  {<<op, side>> : op \in DOMAIN EarBits, side \in {"first", "last"}}
    \cup {<<op, "only">> : op \in DOMAIN UnaryBits \cup DOMAIN AddrBits}
    \cup {<<"MOVM", side>> : side \in {"load", "store"}}
Around(form, o) ==
  L(form[1], CASE form[2] = "first" -> <<o, Partner(form[1])>>
               [] form[2] = "last" -> <<Partner(form[1]), o>>
               [] form[2] = "only" -> <<o>>
               [] form[2] = "load" -> <<o, Reg(1), Reg(1)>>
               [] form[2] = "store" -> <<Reg(1), Reg(13), o>>)

Targets == {Sym("b"), Sym("d"), Sym("z"), Sym("far"), Sym("u"), Fwd(1), Back(1), Here}

Instructions ==
  {L("MOVM", <<Reg(1)>>), L("MOVM", <<Mem(9, "ind", None), Reg(1), Abs(Sym("b"))>>)}
    \cup {L(op, <<Abs(Sym("b"))>>) : op \in DOMAIN RelBits}
    \cup {L(op, args) : op \in DOMAIN Imm9Bits \cup DOMAIN OplessBits \cup {"UNLK"},
                        args \in {<<>>, <<Reg(1)>>, <<Reg(13)>>}}
    \cup {L(op, <<Imm(e)>>) : op \in DOMAIN Imm9Bits,
                              e \in {Lit(3), Lit(16), Lit(600), Minus(Lit(1)), Sym("u")}}
    \cup {L("DB", <<Abs(e), Str(2), Abs(Lit(1))>>) : e \in Numbers \cup Places}
    \cup {L(op, <<[Abs(e) EXCEPT !.size = n]>>) :
            op \in {"BSR", "BEQ"}, e \in Targets, n \in {0, 1, 2, 3, 4}}
    \cup {L(op, <<Abs(e), Abs(f)>>) : op \in DOMAIN Data, f \in Numbers,
            e \in {Lit(1), Sym("d"), Bin("*", Sym("b"), Lit(2)), Minus(Sym("b"))}}
    \cup {Around(form, o) : form \in Forms, o \in Operands}

Before == << N("s", "SEG", <<Abs(Lit(5))>>), L("ORG", <<Abs(Lit(64))>>),
             N("c", "EQU", <<Abs(Lit(5))>>), N("far", "EQU", <<Abs(Bin("+", Here, Lit(600)))>>),
             N("b", "DW", <<Abs(Lit(1))>>) >>
After == << N("d", "DW", <<Abs(Lit(2))>>), N("z", "EQU", <<Abs(Lit(3))>>) >>

Singles == {Before \o <<i>> \o After : i \in Instructions}

-----------------------------------------------------------------------------
(* Lines that disturb one another *)

Segment == N("s", "SEG", <<Abs(Lit(5))>>)

\* These are tried in threes,
Core ==
  { N("t", "SEG", <<Abs(Lit(2))>>), L("SEG", <<Abs(Sym("s"))>>),
    L("ORG", <<Abs(Lit(10))>>), L("ORG", <<Abs(Lit(4))>>), L("DS", <<Abs(Lit(3))>>),
    N("l", "DL", <<Abs(Lit(300000))>>), T(1, "DB", <<Abs(Lit(1))>>),
    T(1, "DW", <<Abs(Lit(513)), Abs(Minus(Lit(1)))>>), T(1, "BRA", <<Abs(Fwd(1))>>),
    T(1, "BNE", <<Abs(Back(1))>>), L("BEQ", <<Abs(Sym("l"))>>), L("RTS", <<>>) }

\* and these in pairs.
Alphabet ==
  UNION { Core,
    { L("", <<>>), L("error", <<>>), L("WHAT", <<>>), N("l", "", <<>>), N("t", "SEG", <<>>),
      N("t", "SEG", <<Str(3)>>), N("t", "SEG", <<Abs(Sym("s"))>>),
      N("t", "SEG", <<Abs(Lit(2)), Abs(Lit(7))>>), L("SEG", <<Abs(Sym("t"))>>),
      L("ORG", <<[Abs(Lit(0)) EXCEPT !.q = "s"]>>), L("ORG", <<Abs(Sym("u"))>>),
      L("DS", <<Abs(Bin("-", Here, Here))>>), N("l", "DS", <<Abs(Lit(0))>>),
      N("l", "EQU", <<Abs(Here)>>), L("START", <<Abs(Sym("l"))>>), L("START", <<Abs(Here)>>),
      L("DA", <<Abs(Sym("l"))>>), L("MOV", <<Imm(Sym("l")), Reg(0)>>), L("NOP", <<>>),
      L("LEA", <<Mem(8, "ind", Bin("-", Sym("l"), Lit(4))), Reg(9)>>) } }

Bodies == {<<x, y>> : x, y \in Alphabet} \cup {<<x, y, z>> : x, y, z \in Core}

Programs ==
  {h \o <<x>> : h \in {<<>>, <<Segment>>}, x \in Alphabet}
    \cup {<<Segment, L("ORG", <<Abs(Lit(8))>>)>> \o b : b \in Bodies}

MCSources == Programs \cup Singles

MCGarbage == {0, 5, 1024}
=============================================================================
