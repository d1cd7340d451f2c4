----------------------------- MODULE MC_Frames -----------------------------
(***************************************************************************)
(* Frames for TLC: room for three frames, or four.                         *)
(***************************************************************************)
EXTENDS Frames

CONSTANTS S, P, Q, H, x, y, Zero, Neg

MCCode == {[seg |-> P, addr |-> 0], [seg |-> P, addr |-> 8], [seg |-> Q, addr |-> 0]}
MCPointers == {[seg |-> H, addr |-> Long + 4]}
MCLower == [v \in Data |-> IF v = y THEN x ELSE v]
MCLists == {{8}, {0, 8}, {8, 15}, {0, 17}, {15}, {18}}

\* Memory that no frame holds is left out of what makes two states different.
Seen ==
  <<[st EXCEPT !.mem = [n \in DOMAIN @ |->
       IF \E k \in DOMAIN frames : n \in Held(frames[k]) THEN @[n] ELSE Junk]], frames, lost>>

Symmetric == Permutations({Zero, Neg})
=============================================================================
