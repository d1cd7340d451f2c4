------------------------------- MODULE MC_Mmu -------------------------------
(***************************************************************************)
(* Mmu for TLC: the entries exec and fork write, on a cache of two lines   *)
(* that three segments share and a fourth number is past the table.        *)
(***************************************************************************)
EXTENDS Mmu

E(flags, size, mem) == [flags |-> flags, size |-> size, mem |-> mem]

\* An operand of one byte or two may begin below 0 and end in the segment, or lie past it.
MCOffsets == {-1, 1}

\* A text, a stack or data section, a Process structure.
MCEntries ==
  {E({"VALID", "EXEC"}, 1, "m1"),
   E({"VALID", "READ", "WRITE"}, 1, "m2"),
   E({"SUPER", "READ", "WRITE"}, 1, "m1")}
=============================================================================
