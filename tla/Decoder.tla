------------------------------ MODULE Decoder ------------------------------
(***************************************************************************)
(* How CPU::run takes an instruction apart: the patterns that select it    *)
(* and the decoding of its effective address, extension words included.    *)
(* w is the instruction as words, the opcode first.                        *)
(***************************************************************************)
EXTENDS Words, Bitwise

\* Mask, bits and instruction, in the order of the tests.
Patterns ==
  << <<\o740000, \o000000, "Bcc">>,  <<\o777000, \o041000, "RTS">>,
     <<\o777000, \o042000, "RTE">>,  <<\o777000, \o043000, "TRAP">>,
     <<\o400000, \o400000, "OP">>,   <<\o760400, \o200000, "OP EA">>,
     <<\o770400, \o200400, "LINK">>, <<\o777770, \o060000, "UNLK">>,
     <<\o770700, \o220000, "STS">>,  <<\o770700, \o220400, "LDS">>,
     <<\o770700, \o220100, "STA">>,  <<\o770700, \o220500, "LDA">>,
     <<\o770700, \o220600, "LEA">>,  <<\o777300, \o300000, "MOVM">>,
     <<\o777700, \o300100, "JSR">>,  <<\o777700, \o300200, "JMP">>,
     <<\o777700, \o301200, "PEA">>,  <<\o777400, \o301000, "Sxxx">>,
     <<\o777777, \o133000, "NOP">>,  <<\o777777, \o133001, "STOP">>,
     <<\o777777, \o133002, "BKPT">>, <<\o777777, \o133003, "CLC">> >>

OpNames ==
  << "MOV", "SEX", "rfu", "rfu", "rfu", "rfu", "rfu", "rfu",
     "ADD", "SUB", "ADC", "SBC", "AND", "OR", "XOR", "CMP",
     "MULU", "MULS", "DIVU", "DIVS", "ROR", "RORC", "ROL", "ROLC",
     "BCOM", "BCLR", "BSET", "BTST", "ASR", "LSR", "ASL", "LSL" >>

BranchNames ==
  << "BSR", "BRA", "BEQ", "BNE", "BLO", "BHS", "BLS", "BHI",
     "BMI", "BPL", "BLT", "BGE", "BLE", "BGT", "rfu", "rfu" >>

UnaryNames ==
  << "CLR", "rfu", "rfu", "rfu", "TST", "INC", "DEC", "NEG", "COM",
     "rfu", "rfu", "rfu", "rfu", "rfu", "rfu", "rfu" >>

\* The bits of an opcode from position lo, size many values.
Field(op, lo, size) == (op \div 2^lo) % size

Kind(op) ==
  LET hits == {k \in DOMAIN Patterns : op & Patterns[k][1] = Patterns[k][2]}
  IN IF hits = {} THEN "rfu"
     ELSE Patterns[CHOOSE k \in hits : \A j \in hits : k <= j][3]

Mnemonic(op) ==
  CASE Kind(op) = "OP"    -> OpNames[Field(op, 12, 32) + 1]
    [] Kind(op) = "OP EA" -> UnaryNames[Field(op, 9, 16) + 1]
    [] Kind(op) = "Bcc"   -> BranchNames[Field(op, 9, 16) + 1]
    [] Kind(op) = "Sxxx"  -> <<"SSMA", "SSML", "rfu", "rfu">>[Field(op, 6, 4) + 1]
    [] OTHER              -> Kind(op)

-----------------------------------------------------------------------------
(***************************************************************************)
(* An effective address: mode is "none", "reg", "imm", "inc", "dec", "mem",*)
(* "abs", "seg" (ar:d18) or "fault"; size as in the opcode; r the register *)
(* or base, 8 being PC; off, ix (-1: none) and sc what is added before the *)
(* indirection if there is one (ind), disp what is added after it; the     *)
(* index is added before it if inside.  len counts the bytes.              *)
(***************************************************************************)
NoEa ==
  [mode |-> "none", size |-> 2, r |-> 0, v |-> 0, off |-> 0, ind |-> FALSE, ix |-> -1,
   sc |-> 0, inside |-> FALSE, disp |-> 0, to |-> <<>>, len |-> 0]

\* Without an indirection all that is added is one sum.
Direct(size, mode, r, off) ==
  [NoEa EXCEPT !.mode = mode, !.size = size, !.r = r, !.off = off]

\* Mutant of SignedWord: sw read like uw.
SignedWordRaw(n) == n

SignedWord(n) == Sex(131072, n)

\* (d9,ar) and the forms with an extension word.
ExtEa(size, r, w) ==
  LET ext == w[2]
      d9 == Sex(256, ext % 512)
      ind == Field(ext, 15, 2) = 1
      ix == IF Field(ext, 17, 2) = 1 THEN Field(ext, 9, 8) ELSE -1
      sc == IF ix = -1 THEN 0 ELSE Field(ext, 12, 4)
      long == Field(ext, 15, 8) > 1
      word == long /\ Field(ext, 14, 2) = 1
      off == IF word THEN SignedWord(w[3]) ELSE IF long THEN 0 ELSE d9
      disp == IF long THEN d9 ELSE 0
  IN [NoEa EXCEPT !.mode = "mem", !.size = size, !.r = r, !.ind = ind, !.ix = ix, !.sc = sc,
                  !.inside = Field(ext, 15, 8) = 7,
                  !.off = IF ind THEN off ELSE off + disp,
                  !.disp = IF ind THEN disp ELSE 0,
                  !.len = IF word THEN 4 ELSE 2]

\* The number in a long, given as low and high word.
LongNumber(low, high) ==
  IF high >= 131072 THEN -(low + (high - 131072) * 262144) ELSE low + high * 262144

\* Opcodes with a size field; for the others the size is that of a long.
Sized(op) == op & \o400000 # 0 \/ op & \o760000 = \o200000

DecodedEa(w) ==
  LET op == w[1]
      easz == IF Sized(op) THEN Field(op, 6, 4) ELSE 2
      r == op % 8
      type == Field(op, 3, 8)
  IN CASE op < 65536 -> NoEa
       [] op >= 65536 /\ easz = 3 ->
            [NoEa EXCEPT !.mode = "imm", !.v = Sex(32, op % 64)]
       [] OTHER ->
            CASE type = 0 -> Direct(easz, "reg", r, 0)
              [] type = 1 -> Direct(easz, "mem", r, 0)
              [] type = 2 -> Direct(easz, "inc", r, 0)
              [] type = 3 -> Direct(easz, "dec", r, 0)
              [] type = 4 -> [Direct(easz, "mem", r, SignedWord(w[2])) EXCEPT !.len = 2]
              [] type = 5 -> [Direct(easz, "seg", r, w[2]) EXCEPT !.len = 2]
              [] type = 6 -> ExtEa(easz, r, w)
              [] type = 7 /\ r = 0 -> ExtEa(easz, 8, w)
              [] type = 7 /\ r = 1 /\ easz = 2 ->
                   [NoEa EXCEPT !.mode = "imm", !.v = LongNumber(w[2], w[3]), !.len = 4]
              \* a byte's worth of the word is what the operation sees
              [] type = 7 /\ r = 1 /\ easz # 2 ->
                   [NoEa EXCEPT !.mode = "imm", !.len = 2,
                                !.v = IF easz = 0 THEN Sex(256, w[2]) ELSE SignedWord(w[2])]
              [] type = 7 /\ r = 2 ->
                   [NoEa EXCEPT !.mode = "abs", !.size = easz, !.to = <<w[2], w[3], w[4]>>,
                                !.len = 6]
              [] OTHER -> [NoEa EXCEPT !.mode = "fault"]

(***************************************************************************)
(* The whole instruction: reg is the register field of those that have     *)
(* one, todr the direction (register last, a load), arg the displacement of a      *)
(* branch, the number of a TRAP, the list of MOVM.                         *)
(***************************************************************************)
Decoded(w) ==
  LET op == w[1]
      name == Mnemonic(op)
      kind == Kind(op)
      ea == DecodedEa(w)
      far == kind = "Bcc" /\ Field(op, 13, 2) = 1
  IN [name |-> IF ea.mode = "fault" THEN "fault" ELSE name,
      reg |-> CASE kind \in {"OP", "LINK", "STS", "LDS", "STA", "LDA", "LEA"} -> Field(op, 9, 8)
                [] kind = "UNLK" -> op % 8
                [] OTHER -> 0,
      todr |-> CASE kind = "OP" -> Field(op, 8, 2) = 0
                 [] kind = "MOVM" -> Field(op, 8, 2) = 1
                 [] kind \in {"STS", "STA"} -> FALSE
                 [] OTHER -> TRUE,
      ea |-> ea,
      arg |-> CASE far -> Sex(67108864, w[2] * 512 + (op % 512))
                [] kind = "Bcc" /\ ~far -> Sex(256, op % 512)
                [] kind = "TRAP" -> op % 16
                [] kind = "MOVM" -> w[2 + ea.len \div 2]
                [] OTHER -> 0,
      len |-> 2 + ea.len + (IF far \/ kind = "MOVM" THEN 2 ELSE 0)]
=============================================================================
