------------------------------- MODULE MC_Alu -------------------------------
(***************************************************************************)
(* Alu for TLC: bytes of two bits, so words of four and longs of eight,    *)
(* with values around the signs of each width; every instruction alone,    *)
(* and the pairs and triples that the properties are about.                *)
(***************************************************************************)
EXTENDS Alu

\* 0, small numbers, the negative zero, the largest numbers of either sign, and one
\* whose square is past int_t.
MCValues == {0, 3, 64, 127, 128, 131, 255}

Ops ==
  {"MOV", "SEX", "ADD", "SUB", "ADC", "SBC", "AND", "OR", "XOR", "CMP", "MULU",
   "MULS", "DIVU", "DIVS", "DnEa-rfu"} \cup Rotations \cup Shifts

Single ==
       {I(op, t, 0, ea, 1, 0, sz) : op \in Ops, t \in BOOLEAN, ea \in {"reg", "mem"}, sz \in 0 .. 2}
  \cup {I(op, TRUE, 0, "imm", 0, v, 2) : op \in Ops, v \in {2, -1}}
  \cup {I(op, TRUE, 0, "reg", 0, 0, 2) : op \in {"DIVU", "DIVS"}}
  \cup {I(op, FALSE, 0, ea, 1, 0, sz) : op \in Unaries, ea \in {"reg", "mem"}, sz \in 0 .. 2}
  \cup {I("INC", FALSE, 0, "imm", 0, 2, 2)}

MCPrograms ==
       {<<i>> : i \in Single}
  \cup {Carried("ADC"), Carried("SBC")}
  \cup Turned("ROR", "ROL") \cup Turned("RORC", "ROLC")
=============================================================================
