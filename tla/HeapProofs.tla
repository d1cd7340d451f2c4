----------------------------- MODULE HeapProofs -----------------------------
(***************************************************************************)
(* Lemmas about the operators of Heap, for every page and memory size: the *)
(* block kmalloc writes and the one kfree removes leave the vector tiled.  *)
(* Used by the proofs about PageHeap and about Kernel.                     *)
(***************************************************************************)
EXTENDS Heap, TLAPS

-----------------------------------------------------------------------------
(* Arithmetic of pages and addresses *)

LEMMA PagesForPositive ==
  ASSUME NEW bytes \in Nat PROVE PagesFor(bytes) \in Nat
BY HeapAssumption DEF PagesFor

LEMMA AddressIsNat ==
  ASSUME NEW k \in Nat PROVE k * Page \in Nat
BY HeapAssumption

\* Dividing a block's address by the page size gives its page back; dividing it by
\* more than all of memory gives page 0.
LEMMA BenignQuotient ==
  ASSUME NEW k \in 1 .. Total - 1, NEW g \in Nat, g = Page \/ g > Page * Total
  PROVE  KfreePage(k * Page, g) = IF g = Page THEN k ELSE 0
<1>1. Page \in Nat \ {0} /\ Total \in Nat /\ k \in Nat
  BY HeapAssumption
<1>2. CASE g = Page
  BY <1>1, <1>2, SMTT(30) DEF KfreePage
<1>3. CASE g # Page
  <2>1. k * Page < Page * Total
    BY <1>1, SMTT(30)
  <2>2. k * Page \in Nat /\ Page * Total \in Nat
    BY <1>1
  <2>3. k * Page < g
    BY <1>3, <2>1, <2>2
  <2>4. (k * Page) \div g = 0
    BY <2>2, <2>3, SMTT(30)
  <2>5. QED
    BY <1>3, <2>4 DEF KfreePage
<1>4. QED
  BY <1>2, <1>3

\* The empty vector is a tiled one.
LEMMA EmptyHeapIsTiled == EmptyHeap \in Heaps /\ Tiled(EmptyHeap)
<1>1. Pages = 0 .. Total - 1 /\ Total \in Nat \ {0}
  BY HeapAssumption DEF Pages
<1>2. EmptyHeap \in Heaps
  BY <1>1 DEF EmptyHeap, Heaps
<1>3. Tiled(EmptyHeap)
  BY <1>1 DEF EmptyHeap, Tiled, HeadsBlock, InsideBlock
<1>4. QED
  BY <1>2, <1>3

-----------------------------------------------------------------------------
(* kmalloc *)

\* The page kmalloc settles on, and every page after it, is free.
LEMMA PlaceIsFree ==
  ASSUME NEW h \in Heaps, Tiled(h), NEW wants \in Nat, NEW pf \in Int,
         IsPlace(h, wants, pf)
  PROVE  /\ pf \in 1 .. h.top
         /\ \A p \in Pages : p >= pf => h.cell[p] = 0
<1>1. PICK t \in 1 .. h.top :
        /\ IsTail(h, t)
        /\ pf = IF wants = 0 \/ HoleBefore(h, wants, t) THEN h.top ELSE t
  BY DEF IsPlace
<1>2. h.top \in 1 .. Total /\ h.cell \in [Pages -> Int]
  BY DEF Heaps
<1>3. Total \in Nat
  BY HeapAssumption
<1>4. pf \in 1 .. h.top /\ t <= pf
  BY <1>1, <1>2, <1>3
<1>5. ASSUME NEW p \in Pages, p >= t PROVE h.cell[p] = 0
  <2>1. CASE p >= h.top
    BY <2>1 DEF Tiled
  <2>2. CASE p < h.top
    <3>1. p \in t .. t + (h.top - t) - 1
      BY <1>2, <1>3, <1>5, <2>2 DEF Pages
    <3>2. QED
      BY <1>1, <3>1 DEF IsTail, FreeRun
  <2>3. QED
    BY <1>2, <1>3, <2>1, <2>2 DEF Pages
<1>6. QED
  BY <1>2, <1>3, <1>4, <1>5 DEF Pages

\* A block that NoRoom lets through ends inside memory.
LEMMA PlaceFits ==
  ASSUME NEW h \in Heaps, NEW wants \in Nat, NEW pf \in 1 .. h.top,
         ~NoRoom(h, wants, pf)
  PROVE  pf + wants <= Total
BY HeapAssumption DEF Heaps, NoRoom

LEMMA WithBlockIsHeap ==
  ASSUME NEW h \in Heaps, NEW wants \in Nat, NEW pf \in 1 .. h.top,
         ~NoRoom(h, wants, pf)
  PROVE  WithBlock(h, wants, pf) \in Heaps
<1>1. h.top \in 1 .. Total /\ h.cell \in [Pages -> Int] /\ Total \in Nat
  BY HeapAssumption DEF Heaps
<1>2. pf + wants <= Total
  BY PlaceFits
<1>3. QED
  BY <1>1, <1>2 DEF WithBlock, Heaps

\* A block written over free pages at the end leaves the vector tiled.
LEMMA WithBlockIsTiled ==
  ASSUME NEW h \in Heaps, Tiled(h), NEW wants \in Nat \ {0},
         NEW pf \in 1 .. h.top, pf + wants <= Total,
         \A p \in Pages : p >= pf => h.cell[p] = 0
  PROVE  Tiled(WithBlock(h, wants, pf))
<1> DEFINE n == WithBlock(h, wants, pf)
<1>1. h.top \in 1 .. Total /\ h.cell \in [Pages -> Int] /\ Total \in Nat
  BY HeapAssumption DEF Heaps
<1>2. /\ n.top \in 1 .. Total
      /\ n.top >= h.top /\ n.top >= pf + wants
      /\ \A p \in Pages :
           n.cell[p] = IF p = pf THEN wants
                       ELSE IF p \in pf + 1 .. pf + wants - 1 THEN -pf
                       ELSE h.cell[p]
  BY <1>1 DEF WithBlock
<1>3. \A p \in Pages : p \in Int /\ p >= 0 /\ p < Total /\ h.cell[p] \in Int
  BY <1>1 DEF Pages
<1>4. 0 \in Pages /\ pf \in Pages
  BY <1>1 DEF Pages
<1> HIDE DEF n
<1>5. n.cell[0] = 1
  BY <1>1, <1>2, <1>4 DEF Tiled
<1>6. ASSUME NEW p \in Pages, n.cell[p] > 0
      PROVE  /\ p + n.cell[p] <= n.top
             /\ \A q \in p + 1 .. p + n.cell[p] - 1 : n.cell[q] = -p
  <2>1. CASE p = pf
    <3>1. n.cell[p] = wants
      BY <1>2, <2>1
    <3>2. \A q \in pf + 1 .. pf + wants - 1 : q \in Pages /\ q # pf
      BY <1>1 DEF Pages
    <3>3. QED
      BY <1>1, <1>2, <2>1, <3>1, <3>2
  <2>2. CASE p # pf
    <3>1. n.cell[p] = h.cell[p] /\ h.cell[p] > 0 /\ p < pf
      BY <1>1, <1>2, <1>3, <1>6, <2>2
    <3>2. /\ p + h.cell[p] <= h.top
          /\ \A q \in p + 1 .. p + h.cell[p] - 1 : h.cell[q] = -p
      BY <3>1 DEF Tiled, HeadsBlock
    <3>3. p + h.cell[p] <= pf
      <4>1. SUFFICES ASSUME p + h.cell[p] > pf PROVE FALSE
        BY <1>1, <1>3
      <4>2. pf \in p + 1 .. p + h.cell[p] - 1
        BY <1>1, <1>3, <3>1, <4>1
      <4>3. h.cell[pf] = -p /\ h.cell[pf] = 0
        BY <1>1, <1>4, <3>2, <4>2
      <4>4. p = 0
        BY <1>3, <4>3
      <4>5. h.cell[p] = 1
        BY <4>4 DEF Tiled
      <4>6. QED
        BY <4>1, <4>4, <4>5
    <3>4. \A q \in p + 1 .. p + h.cell[p] - 1 : q \in Pages /\ q < pf
      BY <1>1, <1>3, <3>3 DEF Pages
    <3>5. QED
      BY <1>1, <1>2, <1>3, <3>1, <3>2, <3>3, <3>4
  <2>3. QED
    BY <2>1, <2>2
<1>7. ASSUME NEW p \in Pages, n.cell[p] < 0
      PROVE  /\ -n.cell[p] \in 1 .. p - 1
             /\ n.cell[-n.cell[p]] > p + n.cell[p]
  <2>1. CASE p \in pf + 1 .. pf + wants - 1
    BY <1>1, <1>2, <1>3, <1>4, <2>1
  <2>2. CASE p \notin pf + 1 .. pf + wants - 1
    <3>1. n.cell[p] = h.cell[p] /\ p < pf
      BY <1>1, <1>2, <1>3, <1>7, <2>2
    <3>2. -h.cell[p] \in 1 .. p - 1 /\ h.cell[-h.cell[p]] > p + h.cell[p]
      BY <1>7, <3>1 DEF Tiled, InsideBlock
    <3>3. PICK b \in 1 .. p - 1 : b = -h.cell[p]
      BY <3>2
    <3>3a. b \in Pages /\ b < pf
      BY <1>1, <1>3, <3>1 DEF Pages
    <3>4. QED
      BY <1>1, <1>2, <1>3, <3>1, <3>2, <3>3, <3>3a
  <2>3. QED
    BY <2>1, <2>2
<1>8. \A p \in Pages : p >= n.top => n.cell[p] = 0
  BY <1>1, <1>2, <1>3 DEF Tiled
<1>9. QED
  BY <1>5, <1>6, <1>7, <1>8 DEF Tiled, HeadsBlock, InsideBlock, n

-----------------------------------------------------------------------------
(* kfree *)

LEMMA QuotientIsNat ==
  ASSUME NEW addr \in Nat, NEW g \in Nat \ {0}
  PROVE  KfreePage(addr, g) \in Nat
BY DEF KfreePage

LEMMA AfterKfreeIsHeap ==
  ASSUME NEW h \in Heaps, NEW addr, NEW g
  PROVE  AfterKfree(h, addr, g) \in Heaps
BY DEF AfterKfree, Heaps

\* Whatever page the divisor leads to, a kfree that does not abort removes one
\* whole block or nothing.
LEMMA AfterKfreeIsTiled ==
  ASSUME NEW h \in Heaps, Tiled(h), NEW addr \in Nat, NEW g \in Nat,
         ~KfreeAborts(h, addr, g)
  PROVE  Tiled(AfterKfree(h, addr, g))
<1> DEFINE q == KfreePage(addr, g)
           n == AfterKfree(h, addr, g)
<1>1. h.top \in 1 .. Total /\ h.cell \in [Pages -> Int] /\ Total \in Nat
  BY HeapAssumption DEF Heaps
<1>2. q \in Nat
  BY QuotientIsNat DEF KfreeAborts
<1>3. CASE q = 0
  BY <1>3 DEF AfterKfree
<1>4. CASE q # 0
  <2>1. q < h.top /\ q \in Pages /\ h.cell[q] \in Nat
    BY <1>1, <1>2, <1>4 DEF KfreeAborts, Pages
  <2> DEFINE cleared == q .. q + h.cell[q] - 1
  <2>2. /\ n.top = h.top
        /\ \A p \in Pages : n.cell[p] = IF p \in cleared THEN 0 ELSE h.cell[p]
    BY <1>1, <1>4 DEF AfterKfree, Heaps
  <2>3. \A p \in cleared : p # q => h.cell[p] = -q
    BY <1>1, <1>2, <2>1 DEF Tiled, HeadsBlock
  <2>4. \A p \in Pages : p \in Int /\ p >= 0 /\ h.cell[p] \in Int
    BY <1>1 DEF Pages
  <2>5. \A p \in cleared : p \in Int /\ p >= q
    BY <1>2, <2>1
  <2> HIDE DEF n
  <2>6. n.cell[0] = 1
    <3>1. 0 \in Pages /\ 0 \notin cleared
      BY <1>1, <1>2, <1>4, <2>5 DEF Pages
    <3>2. QED
      BY <2>2, <3>1 DEF Tiled
  <2>7. ASSUME NEW p \in Pages, n.cell[p] > 0
        PROVE  /\ p + n.cell[p] <= n.top
               /\ \A r \in p + 1 .. p + n.cell[p] - 1 : n.cell[r] = -p
    <3>1. p \notin cleared /\ n.cell[p] = h.cell[p]
      BY <2>2, <2>7
    <3>2. /\ p + h.cell[p] <= h.top
          /\ \A r \in p + 1 .. p + h.cell[p] - 1 : h.cell[r] = -p
      BY <2>7, <3>1 DEF Tiled, HeadsBlock
    <3>3. ASSUME NEW r \in p + 1 .. p + h.cell[p] - 1
          PROVE  r \in Pages /\ r \notin cleared
      <4>0. r \in Int /\ r > p /\ r < h.top
        BY <1>1, <2>4, <3>2
      <4>1. r \in Pages /\ h.cell[r] = -p
        BY <1>1, <2>4, <3>2, <4>0 DEF Pages
      <4>2. CASE r = q
        <5>1. p = 0
          BY <2>1, <2>4, <4>1, <4>2
        <5>2. h.cell[p] = 1
          BY <5>1 DEF Tiled
        <5>3. QED
          BY <5>1, <5>2
      <4>3. CASE r # q
        <5>1. SUFFICES ASSUME r \in cleared PROVE FALSE
          BY <4>1
        <5>2. p = q
          BY <1>2, <2>3, <2>4, <4>1, <4>3, <5>1
        <5>3. QED
          BY <1>2, <2>1, <3>1, <5>1, <5>2, <2>5, <2>7
      <4>4. QED
        BY <4>2, <4>3
    <3>4. QED
      BY <2>2, <3>1, <3>2, <3>3
  <2>8. ASSUME NEW p \in Pages, n.cell[p] < 0
        PROVE  /\ -n.cell[p] \in 1 .. p - 1
               /\ n.cell[-n.cell[p]] > p + n.cell[p]
    <3>1. p \notin cleared /\ n.cell[p] = h.cell[p]
      BY <2>2, <2>8
    <3>2. -h.cell[p] \in 1 .. p - 1 /\ h.cell[-h.cell[p]] > p + h.cell[p]
      BY <2>8, <3>1 DEF Tiled, InsideBlock
    <3>3. PICK b \in 1 .. p - 1 : b = -h.cell[p]
      BY <3>2
    <3>3a. b \in Pages /\ b \in Int /\ b < p
      BY <1>1, <2>4 DEF Pages
    <3>3b. h.cell[b] > p - b /\ h.cell[p] = -b
      BY <2>4, <3>2, <3>3, <3>3a
    <3>4. b # q
      BY <1>2, <2>1, <2>4, <3>1, <3>3, <3>3a, <3>3b
    <3>5. b \notin cleared
      BY <1>2, <2>3, <2>4, <3>3, <3>3a, <3>3b, <3>4
    <3>6. QED
      BY <2>2, <3>1, <3>2, <3>3, <3>3a, <3>3b, <3>5
  <2>9. \A p \in Pages : p >= n.top => n.cell[p] = 0
    BY <2>2 DEF Tiled
  <2>10. QED
    BY <2>6, <2>7, <2>8, <2>9 DEF Tiled, HeadsBlock, InsideBlock, n
<1>5. QED
  BY <1>3, <1>4
=============================================================================
