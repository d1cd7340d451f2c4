---------------------------- MODULE MC_PageHeap ----------------------------
(***************************************************************************)
(* PageHeap for TLC, and the scan of kmalloc as the loop the source writes *)
(* (os.cc:255-272), against which the closed form IsPlace is compared.     *)
(***************************************************************************)
EXTENDS PageHeap

\* Where the loops are: p, pfree and nfree, and which of the two runs.
Scan(p, pfree, nfree, loop) == [p |-> p, pfree |-> pfree, nfree |-> nfree, loop |-> loop]

\* One test of a while and what follows it; nothing once the outer one has ended.
Scanned(h, wants, s) ==
  CASE s.loop = "inner" /\ s.p < h.top /\ h.cell[s.p] = 0 ->
         Scan(s.p + 1, s.pfree, s.nfree + 1, "inner")
    [] s.loop = "inner" /\ ~(s.p < h.top /\ h.cell[s.p] = 0) ->
         Scan(s.p, s.pfree, s.nfree, "outer")
    [] s.loop = "outer" /\ s.p < h.top /\ s.nfree < wants /\ h.cell[s.p] > 0 ->
         Scan(s.p + h.cell[s.p], s.pfree, 0, "outer")
    [] s.loop = "outer" /\ s.p < h.top /\ s.nfree < wants /\ h.cell[s.p] <= 0 ->
         Scan(s.p, s.p, s.nfree, "inner")
    [] OTHER -> s

Ended(wants, s, top) == s.loop = "outer" /\ (s.p >= top \/ s.nfree >= wants)

\* Three tests for each page are enough.
Loop(h, wants) ==
  LET after[k \in 0 .. 3 * Total] ==
        IF k = 0 THEN Scan(1, 0, 0, "outer") ELSE Scanned(h, wants, after[k - 1])
  IN after[3 * Total]

\* The reset of a run that does not touch the end.
Settled(h, s) == IF s.pfree + s.nfree # h.top THEN h.top ELSE s.pfree

(***************************************************************************)
(* On every heap the callers can reach and for every request, the loop of  *)
(* the source ends, and the page the operators of Heap settle on is the    *)
(* page the loop settles on.                                               *)
(***************************************************************************)
PlaceIsTheLoop ==
  \A wants \in 0 .. Total :
    LET s == Loop(heap, wants)
    IN /\ Ended(wants, s, heap.top)
       /\ \A pf \in 1 .. Total : IsPlace(heap, wants, pf) <=> pf = Settled(heap, s)

\* Values the uninitialised divisor of kfree may hold: zero, fractions of a page
\* that give continuation pages and pages past the vector, the page itself, and a
\* value so large that the quotient is page 0.
MCGarbage == {0, 1, 2, 3, 4, 100}
=============================================================================
