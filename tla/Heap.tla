-------------------------------- MODULE Heap --------------------------------
(***************************************************************************)
(* The page heap of os.cc: Machine::kmalloc and Machine::kfree as          *)
(* operators on a heap value, shared by PageHeap (the heap on its own) and *)
(* Kernel (the heap under segments and processes).                         *)
(*                                                                         *)
(* A heap is the vector "heap" of the source: top is its size() and cell   *)
(* its elements, with the pages the vector has not grown to held at 0, the *)
(* value resize() gives them.  A positive cell heads a block of that many  *)
(* pages, a negative cell -b continues the block headed at b, 0 is free.   *)
(***************************************************************************)
EXTENDS Integers

CONSTANTS
  Page,     \* bytes of a page (4096 in the source)
  Total     \* mem_alloc / page, the pages of memory (160 in the source)

ASSUME HeapAssumption == Page \in Nat \ {0} /\ Total \in Nat \ {0}

Pages == 0 .. Total - 1

Heaps == [top : 1..Total, cell : [Pages -> Int]]

\* static std::vector<int64_t> heap = { 1 }: the first page is never available.
EmptyHeap == [top |-> 1, cell |-> [p \in Pages |-> IF p = 0 THEN 1 ELSE 0]]

PagesFor(bytes) == (bytes + Page - 1) \div Page

FreeRun(h, s, n) == \A p \in s .. s + n - 1 : h.cell[p] = 0

\* t starts the free pages that end the vector (t = top when there are none).
IsTail(h, t) ==
  /\ t \in 1 .. h.top
  /\ FreeRun(h, t, h.top - t)
  /\ t = 1 \/ h.cell[t - 1] # 0

\* A free run before page t that would hold the request.
HoleBefore(h, wants, t) ==
  \E s \in 1 .. t - 1 : s + wants <= t /\ FreeRun(h, s, wants)

\* Mutant of IsPlace: the run the scan stopped at is taken wherever it is and the
\* vector is still grown from its end, as without the test pfree+nfree != max.
IsPlaceWithoutReset(h, wants, pf) ==
  \E t \in 1 .. h.top :
    /\ IsTail(h, t)
    /\ pf = IF wants > 0 /\ t > 1 THEN t - 1 ELSE t

(***************************************************************************)
(* The page kmalloc settles on.  Its scan stops at the first free run that *)
(* is long enough, or runs off the end of the vector; a run that does not  *)
(* touch the end is then discarded (pfree+nfree != max) in favour of the   *)
(* end.  Free pages are therefore only ever reused at the tail.            *)
(***************************************************************************)
IsPlace(h, wants, pf) ==
  \E t \in 1 .. h.top :
    /\ IsTail(h, t)
    /\ pf = IF wants = 0 \/ HoleBefore(h, wants, t) THEN h.top ELSE t

\* Mutant of NoRoom: the limit is tested one page too far.
NoRoomOffByOne(h, wants, pf) == pf + wants > h.top /\ pf + wants > Total + 1

\* if(nfree<wants) if((pfree+wants) > mem_alloc/page) return 0
NoRoom(h, wants, pf) == pf + wants > h.top /\ pf + wants > Total

\* Mutant of WithBlock: the continuation pages are left unmarked.
WithBlockHeadOnly(h, wants, pf) ==
  [top  |-> IF pf + wants > h.top THEN pf + wants ELSE h.top,
   cell |-> [h.cell EXCEPT ![pf] = wants]]

\* heap.resize(pfree+wants) where needed, then the block is written at pfree.
WithBlock(h, wants, pf) ==
  [top  |-> IF pf + wants > h.top THEN pf + wants ELSE h.top,
   cell |-> [p \in Pages |->
               IF p = pf THEN wants
               ELSE IF p \in pf + 1 .. pf + wants - 1 THEN -pf
               ELSE h.cell[p]]]

(***************************************************************************)
(* kfree computes "size_t page = addr/page": the divisor is the variable   *)
(* being declared, not the constant it shadows, so it is whatever the      *)
(* stack slot holds.  g is that value.  g = 0 divides by zero; a page past *)
(* the vector reads outside it; a continuation page gives a size that as a *)
(* size_t is near 2^64 (size<0 is never true) and the clearing loop runs   *)
(* off the vector.  None of the three leaves a program to speak of.        *)
(***************************************************************************)
KfreePage(addr, g) == addr \div g

KfreeAborts(h, addr, g) ==
  \/ g = 0
  \/ LET q == KfreePage(addr, g)
     IN  q # 0 /\ (q >= h.top \/ h.cell[q] < 0)

\* Mutant of AfterKfree: one page too many is cleared.
AfterKfreeOneMore(h, addr, g) ==
  LET q == KfreePage(addr, g)
  IN  IF q = 0 THEN h
      ELSE [h EXCEPT !.cell = [p \in Pages |->
              IF p \in q .. q + h.cell[q] THEN 0 ELSE h.cell[p]]]

\* while(size--) heap[page++] = 0; page 0 is refused.
AfterKfree(h, addr, g) ==
  LET q == KfreePage(addr, g)
  IN  IF q = 0 THEN h
      ELSE [h EXCEPT !.cell = [p \in Pages |->
              IF p \in q .. q + h.cell[q] - 1 THEN 0 ELSE h.cell[p]]]

(***************************************************************************)
(* Every nonzero cell belongs to exactly one whole block.  It is what      *)
(* makes kmalloc's scan terminate: stepping from header to header it can   *)
(* never land on a negative cell, on which it would not advance.           *)
(***************************************************************************)
HeadsBlock(h, p) ==
  h.cell[p] > 0 =>
    /\ p + h.cell[p] <= h.top
    /\ \A q \in p + 1 .. p + h.cell[p] - 1 : h.cell[q] = -p

InsideBlock(h, p) ==
  h.cell[p] < 0 =>
    /\ -h.cell[p] \in 1 .. p - 1
    /\ h.cell[-h.cell[p]] > p + h.cell[p]

Tiled(h) ==
  /\ h.cell[0] = 1
  /\ \A p \in Pages : HeadsBlock(h, p)
  /\ \A p \in Pages : InsideBlock(h, p)
  /\ \A p \in Pages : p >= h.top => h.cell[p] = 0
=============================================================================
