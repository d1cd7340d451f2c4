--------------------------- MODULE PageHeapProofs ---------------------------
(***************************************************************************)
(* Proofs about PageHeap for every page size, memory size, largest request *)
(* and set of divisors, on the lemmas of HeapProofs: one case per action.  *)
(***************************************************************************)
EXTENDS MC_PageHeap, HeapProofs, FoldProofs

-----------------------------------------------------------------------------
(* The invariant *)

\* What the blocks that are out say of the vector; only a benign divisor keeps it.
LiveHead ==
  \A b \in live :
    /\ b.page \in 1 .. Total - 1 /\ b.pages \in Nat \ {0}
    /\ heap.cell[b.page] = b.pages

OnePerPage == \A b, c \in live : b.page = c.page => b = c

IInv ==
  /\ TypeOK
  /\ Tiled(heap)
  /\ \A b \in live : b.page >= 1
  /\ meant => LiveHead /\ OnePerPage

LEMMA InitInv == Init => IInv
BY EmptyHeapIsTiled DEF Init, IInv, TypeOK, LiveHead, OnePerPage

LEMMA KmallocInv ==
  ASSUME IInv, NEW bytes \in 1 .. MaxBytes, NEW segment \in BOOLEAN,
         Kmalloc(bytes, segment)
  PROVE  /\ IInv'
         /\ \A b \in live' \ live :
              b.page >= 1 /\ b.page + b.pages <= Total /\ FreeRun(heap, b.page, b.pages)
<1> DEFINE wants == PagesFor(bytes)
<1>1. wants \in Nat \ {0}
  BY PagesForPositive, PageHeapAssumption DEF Kmalloc
<1>2. PICK pf \in 1 .. Total :
        /\ IsPlace(heap, wants, pf)
        /\ ~NoRoom(heap, wants, pf)
        /\ heap' = WithBlock(heap, wants, pf)
        /\ live' = live \cup {[page |-> pf, pages |-> wants, segment |-> segment]}
  BY DEF Kmalloc
<1> HIDE DEF wants
<1>3. heap \in Heaps /\ Tiled(heap) /\ Total \in Nat
  BY HeapAssumption DEF IInv, TypeOK
<1>4. pf \in 1 .. heap.top /\ \A p \in Pages : p >= pf => heap.cell[p] = 0
  BY <1>1, <1>2, <1>3, PlaceIsFree
<1>5. pf + wants <= Total
  BY <1>1, <1>2, <1>3, <1>4, PlaceFits
<1>6. heap' \in Heaps /\ Tiled(heap')
  BY <1>1, <1>2, <1>3, <1>4, <1>5, WithBlockIsHeap, WithBlockIsTiled
<1> DEFINE new == [page |-> pf, pages |-> wants, segment |-> segment]
<1>7. TypeOK' /\ \A b \in live' : b.page >= 1
  BY <1>1, <1>2, <1>6 DEF IInv, TypeOK, Block, Kmalloc
<1>8. \A b \in live' \ live : b = new
  BY <1>2
<1>9. FreeRun(heap, pf, wants)
  BY <1>1, <1>3, <1>4, <1>5 DEF FreeRun, Pages
<1>10. ASSUME meant PROVE LiveHead' /\ OnePerPage'
  <2>1. LiveHead /\ OnePerPage
    BY <1>10 DEF IInv
  <2>2. \A p \in Pages : heap'.cell[p] = IF p = pf THEN wants
                                        ELSE IF p \in pf + 1 .. pf + wants - 1 THEN -pf
                                        ELSE heap.cell[p]
    BY <1>2 DEF WithBlock
  <2>3. pf \in 1 .. Total - 1 /\ pf \in Pages
    BY <1>1, <1>3, <1>5 DEF Pages
  <2>4. ASSUME NEW b \in live
        PROVE  b.page < pf /\ b.page \in Pages
    <3>1. b.page \in Pages /\ heap.cell[b.page] # 0
      BY <1>3, <2>1 DEF LiveHead, Pages
    <3>2. QED
      BY <1>3, <1>4, <3>1 DEF Pages
  <2>5. LiveHead'
    <3>1. SUFFICES ASSUME NEW b \in live'
                   PROVE  /\ b.page \in 1 .. Total - 1 /\ b.pages \in Nat \ {0}
                          /\ heap'.cell[b.page] = b.pages
      BY DEF LiveHead
    <3>2. CASE b \in live
      <4>1. b.page < pf /\ b.page \in Pages
        BY <2>4, <3>2
      <4>2. heap'.cell[b.page] = heap.cell[b.page]
        BY <2>2, <2>3, <4>1 DEF Pages
      <4>3. QED
        BY <2>1, <3>2, <4>2 DEF LiveHead
    <3>3. CASE b \notin live
      <4>1. b = new
        BY <1>8, <3>1, <3>3
      <4>2. QED
        BY <1>1, <2>2, <2>3, <4>1
    <3>4. QED
      BY <3>2, <3>3
  <2>6. OnePerPage'
    <3>1. \A b \in live : b.page # pf
      BY <2>3, <2>4
    <3>2. QED
      BY <1>2, <2>1, <3>1 DEF OnePerPage
  <2>7. QED
    BY <2>5, <2>6
<1>11. IInv'
  BY <1>6, <1>7, <1>10 DEF IInv, Kmalloc
<1>12. QED
  BY <1>2, <1>5, <1>8, <1>9, <1>11

LEMMA KfreeInv ==
  ASSUME IInv, NEW b \in live, NEW g \in Garbage, Kfree(b, g)
  PROVE  IInv'
<1> DEFINE addr == b.page * Page
<1>1. heap \in Heaps /\ Tiled(heap) /\ Total \in Nat /\ g \in Nat
  BY HeapAssumption, PageHeapAssumption DEF IInv, TypeOK
<1>2. b.page \in Nat
  BY DEF IInv, TypeOK, Block
<1>3. addr \in Nat
  BY <1>2, AddressIsNat
<1>4. /\ live' = live \ {b}
      /\ meant' = (meant /\ Benign(g))
      /\ IF KfreeAborts(heap, addr, g)
         THEN status' = "undefined" /\ heap' = heap
         ELSE heap' = AfterKfree(heap, addr, g) /\ status' = status
  BY DEF Kfree
<1> HIDE DEF addr
<1>5. heap' \in Heaps /\ Tiled(heap')
  <2>1. CASE KfreeAborts(heap, addr, g)
    BY <1>1, <1>4, <2>1
  <2>2. CASE ~KfreeAborts(heap, addr, g)
    BY <1>1, <1>3, <1>4, <2>2, AfterKfreeIsHeap, AfterKfreeIsTiled
  <2>3. QED
    BY <2>1, <2>2
<1>6. TypeOK' /\ \A c \in live' : c.page >= 1
  BY <1>4, <1>5 DEF IInv, TypeOK
<1>7. ASSUME meant' PROVE LiveHead' /\ OnePerPage'
  <2>1. LiveHead /\ OnePerPage /\ Benign(g)
    BY <1>4, <1>7 DEF IInv
  <2>2. OnePerPage'
    BY <1>4, <2>1 DEF OnePerPage
  <2>3. CASE heap' = heap
    BY <1>4, <2>1, <2>2, <2>3 DEF LiveHead
  <2>4. CASE heap' # heap
    <3>1. ~KfreeAborts(heap, addr, g) /\ heap' = AfterKfree(heap, addr, g)
      BY <1>4, <2>4
    <3>2. KfreePage(addr, g) # 0
      BY <2>4, <3>1 DEF AfterKfree
    <3>3. b.page \in 1 .. Total - 1
      BY <2>1 DEF LiveHead
    <3>4. KfreePage(addr, g) = b.page
      BY <1>1, <2>1, <3>1, <3>2, <3>3, BenignQuotient
         DEF Benign, KfreeAborts, addr
    <3> DEFINE cleared == b.page .. b.page + b.pages - 1
    <3>5. b.page \in Pages /\ heap.cell[b.page] = b.pages /\ b.pages \in Nat \ {0}
      BY <1>1, <2>1 DEF LiveHead, Pages
    <3>6. \A p \in Pages : heap'.cell[p] = IF p \in cleared THEN 0 ELSE heap.cell[p]
      BY <1>1, <3>1, <3>2, <3>4, <3>5 DEF AfterKfree, Heaps
    <3>7. \A p \in cleared : p # b.page => heap.cell[p] = -b.page
      BY <1>1, <3>3, <3>5 DEF Tiled, HeadsBlock
    <3>8. ASSUME NEW c \in live' PROVE heap'.cell[c.page] = c.pages
      <4>1. c \in live /\ c.page # b.page
        BY <1>4, <2>1 DEF OnePerPage
      <4>2. c.page \in Pages /\ heap.cell[c.page] = c.pages /\ c.pages > 0
        BY <1>1, <2>1, <4>1 DEF LiveHead, Pages
      <4>3. c.page \notin cleared
        BY <3>3, <3>7, <4>1, <4>2
      <4>4. QED
        BY <3>6, <4>2, <4>3
    <3>9. QED
      BY <1>4, <2>1, <2>2, <3>8 DEF LiveHead
  <2>5. QED
    BY <2>2, <2>3, <2>4
<1>8. QED
  BY <1>5, <1>6, <1>7 DEF IInv

LEMMA NextInv == IInv /\ [Next]_vars => IInv'
<1>1. SUFFICES ASSUME IInv, [Next]_vars PROVE IInv'
  OBVIOUS
<1>2. CASE \E bytes \in 1 .. MaxBytes, segment \in BOOLEAN : Kmalloc(bytes, segment)
  BY <1>1, <1>2, KmallocInv
<1>3. CASE KmallocNothing
  BY <1>1, <1>3 DEF KmallocNothing, IInv, TypeOK, LiveHead, OnePerPage
<1>4. CASE \E b \in live, g \in Garbage : Kfree(b, g)
  BY <1>1, <1>4, KfreeInv
<1>5. CASE UNCHANGED vars
  BY <1>1, <1>5 DEF vars, IInv, TypeOK, LiveHead, OnePerPage
<1>6. QED
  BY <1>1, <1>2, <1>3, <1>4, <1>5 DEF Next

LEMMA Invariance == Spec => []IInv
BY InitInv, NextInv, PTL DEF Spec

-----------------------------------------------------------------------------
(***************************************************************************)
(* The vector keeps its shape: at most Total cells, each an integer.       *)
(***************************************************************************)
THEOREM TypeCorrect == Spec => []TypeOK
<1>1. IInv => TypeOK
  BY DEF IInv
<1>2. QED
  BY <1>1, Invariance, PTL

(***************************************************************************)
(* For every set of divisors, the vector stays a sequence of whole blocks  *)
(* and free pages: the scan of kmalloc never meets a cell it cannot pass.  *)
(***************************************************************************)
THEOREM HeapStaysTiled == Spec => []HeapTiled
<1>1. IInv => HeapTiled
  BY DEF IInv, HeapTiled
<1>2. QED
  BY <1>1, Invariance, PTL

(***************************************************************************)
(* Every block kmalloc hands out lies inside memory on pages that were     *)
(* free, whatever kfree has divided by before.                             *)
(***************************************************************************)
THEOREM NewBlocksAreFree == Spec => NewBlockWasFree
<1>1. IInv /\ [Next]_vars => [NewBlocksFree]_vars
  <2>1. SUFFICES ASSUME IInv, Next PROVE NewBlocksFree
    OBVIOUS
  <2>2. CASE \E bytes \in 1 .. MaxBytes, segment \in BOOLEAN : Kmalloc(bytes, segment)
    BY <2>1, <2>2, KmallocInv DEF NewBlocksFree
  <2>3. CASE KmallocNothing
    BY <2>3 DEF KmallocNothing, NewBlocksFree
  <2>4. CASE \E b \in live, g \in Garbage : Kfree(b, g)
    BY <2>4 DEF Kfree, NewBlocksFree
  <2>5. QED
    BY <2>1, <2>2, <2>3, <2>4 DEF Next
<1>2. QED
  BY <1>1, Invariance, PTL DEF Spec, NewBlockWasFree

(***************************************************************************)
(* As long as kfree has divided only by what the author meant or by values *)
(* that free nothing, every block keeps all its pages to itself until it   *)
(* is freed.                                                               *)
(***************************************************************************)
THEOREM BlocksAreKept == Spec => []LiveBlocksKept
<1>1. IInv => LiveBlocksKept
  <2>1. SUFFICES ASSUME IInv, meant, NEW b \in live
                 PROVE  /\ heap.cell[b.page] = b.pages
                        /\ \A p \in b.page + 1 .. b.page + b.pages - 1 :
                             heap.cell[p] = -b.page
                        /\ \A c \in live : b = c \/ Apart(b, c)
    BY DEF LiveBlocksKept
  <2>2. LiveHead /\ OnePerPage /\ Tiled(heap) /\ Total \in Nat
    BY <2>1, HeapAssumption DEF IInv
  <2>3. \A c \in live :
          /\ c.page \in Pages /\ c.page >= 1 /\ c.pages \in Nat \ {0}
          /\ heap.cell[c.page] = c.pages
          /\ \A p \in c.page + 1 .. c.page + c.pages - 1 : heap.cell[p] = -c.page
    BY <2>2 DEF LiveHead, Pages, Tiled, HeadsBlock
  <2>4. ASSUME NEW c \in live, ~Apart(b, c) PROVE b = c
    <3>1. CASE b.page = c.page
      BY <2>2, <3>1 DEF OnePerPage
    <3>2. CASE b.page < c.page
      <4>1. c.page \in b.page + 1 .. b.page + b.pages - 1
        BY <2>3, <2>4, <3>2 DEF Apart, Pages
      <4>2. QED
        BY <2>3, <4>1 DEF Pages
    <3>3. CASE b.page > c.page
      <4>1. b.page \in c.page + 1 .. c.page + c.pages - 1
        BY <2>3, <2>4, <3>3 DEF Apart, Pages
      <4>2. QED
        BY <2>3, <4>1 DEF Pages
    <3>4. QED
      BY <2>3, <3>1, <3>2, <3>3 DEF Pages
  <2>5. QED
    BY <2>3, <2>4
<1>2. QED
  BY <1>1, Invariance, PTL

-----------------------------------------------------------------------------
(* The scan of kmalloc *)

Scans == [p : Nat, pfree : Nat, nfree : Nat, loop : {"outer", "inner"}]

\* Between two tests: no free run that ends before the one that is being counted is
\* long enough; the one that is counted lies right below p and follows on a block.
Counting(h, wants, s) ==
  /\ s.pfree \in 1 .. s.p /\ s.nfree = s.p - s.pfree
  /\ FreeRun(h, s.pfree, s.nfree)
  /\ s.pfree = 1 \/ h.cell[s.pfree - 1] # 0
  /\ ~HoleBefore(h, wants, s.pfree)

Stepping(h, wants, s) ==
  /\ s.nfree = 0 /\ (s.p = 1 \/ h.cell[s.p - 1] # 0)
  /\ ~HoleBefore(h, wants, s.p)

ScanInv(h, wants, s) ==
  /\ s \in Scans /\ s.p \in 1 .. h.top
  /\ s.p < h.top => h.cell[s.p] >= 0
  /\ s.loop = "inner" \/ s.nfree > 0 => Counting(h, wants, s)
  /\ s.loop = "inner" /\ s.nfree = 0 => s.p < h.top /\ h.cell[s.p] = 0
  /\ s.loop = "outer" /\ s.nfree > 0 => s.p = h.top \/ h.cell[s.p] > 0
  /\ s.loop = "outer" /\ s.nfree = 0 => Stepping(h, wants, s)

\* How far it has come: free page, its run, block.
Progress(h, s) ==
  3 * s.p + (IF s.loop = "inner" THEN 1 ELSE IF s.p < h.top /\ h.cell[s.p] = 0 THEN 0 ELSE 2)

\* The page behind a free page or a whole block is no page inside a block.
LEMMA NoPageInside ==
  ASSUME NEW h \in Heaps, Tiled(h), NEW p \in 1 .. h.top, p < h.top, h.cell[p] >= 0,
         NEW n, n = p + (IF h.cell[p] = 0 THEN 1 ELSE h.cell[p])
  PROVE  /\ n \in 1 .. h.top /\ n > p
         /\ n < h.top => h.cell[n] >= 0
         /\ h.cell[p] > 0 => \A q \in p .. n - 1 : h.cell[q] # 0
<1>1. h.top \in 1 .. Total /\ h.cell \in [Pages -> Int] /\ Total \in Nat /\ Pages = 0 .. Total - 1
  BY HeapAssumption DEF Heaps, Pages
<1>2. p \in Pages /\ h.cell[p] \in Nat
  BY <1>1
<1>3. HeadsBlock(h, p)
  BY <1>2 DEF Tiled
<1>4. n \in 1 .. h.top /\ n > p
  BY <1>1, <1>2, <1>3 DEF HeadsBlock
<1>5. ASSUME h.cell[p] > 0, NEW q \in p .. n - 1 PROVE h.cell[q] # 0
  <2>1. n = p + h.cell[p]
    BY <1>5
  <2>2. CASE q = p
    BY <1>5, <2>2
  <2>3. CASE q # p
    <3>1. q \in p + 1 .. p + h.cell[p] - 1
      BY <1>2, <2>1, <2>3
    <3>2. h.cell[q] = -p
      BY <1>3, <1>5, <3>1 DEF HeadsBlock
    <3>3. QED
      BY <3>2
  <2>4. QED
    BY <2>2, <2>3
<1>6. ASSUME n < h.top, h.cell[n] < 0 PROVE FALSE
  <2> DEFINE q == -h.cell[n]
  <2>1. n \in Pages /\ h.cell[n] \in Int
    BY <1>1, <1>4, <1>6
  <2>2. q \in 1 .. n - 1 /\ h.cell[q] > n - q
    BY <1>6, <2>1 DEF Tiled, InsideBlock
  <2>3. q \in Pages /\ h.cell[q] \in Int /\ q \in Int
    <3>1. n <= Total /\ n \in Int
      BY <1>1, <1>4
    <3> HIDE DEF q
    <3>2. q \in Pages /\ q \in Int
      BY <1>1, <2>2, <3>1
    <3>3. QED
      BY <1>1, <3>2
  <2>4. h.cell[q] > 0 /\ \A r \in q + 1 .. q + h.cell[q] - 1 : h.cell[r] = -q
    BY <2>1, <2>2, <2>3 DEF Tiled, HeadsBlock
  <2> HIDE DEF q
  <2>5. CASE q < p
    <3>1. p \in q + 1 .. q + h.cell[q] - 1
      BY <1>4, <2>1, <2>2, <2>3, <2>5
    <3>2. QED
      BY <2>2, <2>4, <3>1
  <2>6. CASE q = p
    BY <1>1, <1>2, <1>4, <2>1, <2>2, <2>4, <2>6
  <2>7. CASE q > p
    <3>1. h.cell[p] > 0
      BY <1>2, <1>4, <2>1, <2>2, <2>7
    <3>2. q \in p + 1 .. p + h.cell[p] - 1
      BY <1>2, <2>2, <2>7, <3>1
    <3>3. h.cell[q] = -p
      BY <1>3, <3>1, <3>2 DEF HeadsBlock
    <3>4. QED
      BY <2>4, <3>3
  <2>8. QED
    BY <2>3, <2>5, <2>6, <2>7
<1>7. n < h.top => h.cell[n] >= 0
  <2>1. n < h.top => h.cell[n] \in Int
    BY <1>1, <1>4
  <2>2. QED
    BY <1>6, <2>1
<1>8. QED
  BY <1>4, <1>5, <1>7

\* A block between, and a run that is too short, leave no hole that was not there.
LEMMA NoHoleAcross ==
  ASSUME NEW h \in Heaps, NEW wants \in Nat \ {0}, NEW t \in Nat, NEW p \in Nat, NEW n \in Nat,
         t <= p, p <= n, p - t < wants, t = 1 \/ h.cell[t - 1] # 0,
         \A q \in p .. n - 1 : h.cell[q] # 0, ~HoleBefore(h, wants, t)
  PROVE  ~HoleBefore(h, wants, n)
<1>1. SUFFICES ASSUME NEW q \in 1 .. n - 1, q + wants <= n, FreeRun(h, q, wants)
               PROVE  FALSE
  BY DEF HoleBefore
<1>2. \A r \in q .. q + wants - 1 : h.cell[r] = 0
  BY <1>1 DEF FreeRun
<1>3. q < p
  BY <1>1, <1>2
<1>4. p \notin q .. q + wants - 1 \/ p = n
  BY <1>1, <1>2, <1>3
<1>5. q + wants <= p
  BY <1>1, <1>3, <1>4
<1>6. CASE q + wants <= t
  BY <1>1, <1>6 DEF HoleBefore
<1>7. CASE q + wants > t
  <2>1. q < t
    BY <1>5
  <2>2. t - 1 \in q .. q + wants - 1
    BY <1>7, <2>1
  <2>3. QED
    BY <1>1, <1>2, <2>1, <2>2
<1>8. QED
  BY <1>6, <1>7

LEMMA ScanInit ==
  ASSUME NEW h \in Heaps, Tiled(h), NEW wants \in Nat \ {0}, NEW s, s = Scan(1, 0, 0, "outer")
  PROVE  ScanInv(h, wants, s) /\ Progress(h, s) >= 3
<1>1. h.top \in 1 .. Total /\ h.cell \in [Pages -> Int] /\ Total \in Nat /\ Pages = 0 .. Total - 1
  BY HeapAssumption DEF Heaps, Pages
<1>2. s \in Scans /\ s.p = 1 /\ s.pfree = 0 /\ s.nfree = 0 /\ s.loop = "outer"
  BY DEF Scan, Scans
<1>3. 1 < h.top => h.cell[1] >= 0
  <2>1. SUFFICES ASSUME 1 < h.top, h.cell[1] < 0 PROVE FALSE
    BY <1>1
  <2>2. 1 \in Pages
    BY <1>1, <2>1
  <2>3. -h.cell[1] \in 1 .. 0
    BY <2>1, <2>2 DEF Tiled, InsideBlock
  <2>4. QED
    BY <2>3
<1>4. ~HoleBefore(h, wants, 1)
  BY DEF HoleBefore
<1>5. ScanInv(h, wants, s)
  BY <1>1, <1>2, <1>3, <1>4 DEF ScanInv, Stepping
<1>6. QED
  BY <1>2, <1>5 DEF Progress

\* A test keeps the invariant, and gets on unless the loop has ended.
GotOn(h, wants, s, t) ==
  /\ ScanInv(h, wants, t)
  /\ Ended(wants, s, h.top) => t = s
  /\ ~Ended(wants, s, h.top) => Progress(h, t) > Progress(h, s)

LEMMA ScanStep ==
  ASSUME NEW h \in Heaps, Tiled(h), NEW wants \in Nat \ {0}, NEW s, ScanInv(h, wants, s),
         NEW t, t = Scanned(h, wants, s)
  PROVE  GotOn(h, wants, s, t)
<1>1. h.top \in 1 .. Total /\ h.cell \in [Pages -> Int] /\ Total \in Nat /\ Pages = 0 .. Total - 1
  BY HeapAssumption DEF Heaps, Pages
<1> DEFINE p == s.p
<1>2. /\ s \in Scans /\ p \in 1 .. h.top /\ s.pfree \in Nat /\ s.nfree \in Nat
      /\ s.loop \in {"outer", "inner"} /\ p \in Nat /\ (p < h.top => h.cell[p] \in Nat)
  BY <1>1 DEF ScanInv, Scans
<1>3. CASE s.loop = "inner" /\ p < h.top /\ h.cell[p] = 0
  <2>1. t = Scan(p + 1, s.pfree, s.nfree + 1, "inner")
    BY <1>3 DEF Scanned
  <2>2. t \in Scans /\ t.p = p + 1 /\ t.pfree = s.pfree /\ t.nfree = s.nfree + 1 /\ t.loop = "inner"
    BY <1>2, <2>1 DEF Scan, Scans
  <2>3. p + 1 \in 1 .. h.top /\ (p + 1 < h.top => h.cell[p + 1] >= 0)
    BY <1>2, <1>3, NoPageInside
  <2>4. Counting(h, wants, s)
    BY <1>3 DEF ScanInv
  <2>5. FreeRun(h, s.pfree, s.nfree + 1)
    BY <1>2, <1>3, <2>4 DEF Counting, FreeRun
  <2>6. Counting(h, wants, t)
    BY <1>2, <2>2, <2>4, <2>5 DEF Counting
  <2>7. ScanInv(h, wants, t)
    BY <1>2, <2>2, <2>3, <2>6 DEF ScanInv
  <2>8. Progress(h, t) > Progress(h, s) /\ ~Ended(wants, s, h.top)
    BY <1>2, <1>3, <2>2 DEF Progress, Ended
  <2>9. QED
    BY <2>7, <2>8 DEF GotOn
<1>4. CASE s.loop = "inner" /\ ~(p < h.top /\ h.cell[p] = 0)
  <2>1. t = Scan(p, s.pfree, s.nfree, "outer")
    BY <1>4 DEF Scanned
  <2>2. t \in Scans /\ t.p = p /\ t.pfree = s.pfree /\ t.nfree = s.nfree /\ t.loop = "outer"
    BY <1>2, <2>1 DEF Scan, Scans
  <2>3. Counting(h, wants, s) /\ s.nfree > 0
    BY <1>2, <1>4 DEF ScanInv
  <2>4. p = h.top \/ h.cell[p] > 0
    BY <1>1, <1>2, <1>4
  <2>5. Counting(h, wants, t)
    BY <2>2, <2>3 DEF Counting
  <2>6. ScanInv(h, wants, t)
    BY <1>2, <2>2, <2>3, <2>4, <2>5 DEF ScanInv
  <2>7. Progress(h, t) > Progress(h, s) /\ ~Ended(wants, s, h.top)
    BY <1>2, <1>4, <2>2 DEF Progress, Ended
  <2>8. QED
    BY <2>6, <2>7 DEF GotOn
<1>5. CASE s.loop = "outer" /\ p < h.top /\ s.nfree < wants /\ h.cell[p] > 0
  <2> DEFINE n == p + h.cell[p]
  <2>1. t = Scan(n, s.pfree, 0, "outer") /\ n \in Nat
    BY <1>2, <1>5 DEF Scanned
  <2>2. t \in Scans /\ t.p = n /\ t.pfree = s.pfree /\ t.nfree = 0 /\ t.loop = "outer"
    BY <1>2, <2>1 DEF Scan, Scans
  <2>3. n = p + (IF h.cell[p] = 0 THEN 1 ELSE h.cell[p])
    BY <1>5
  <2> HIDE DEF n, p
  <2>4. /\ n \in 1 .. h.top /\ n > p /\ (n < h.top => h.cell[n] >= 0)
        /\ \A q \in p .. n - 1 : h.cell[q] # 0
    BY <1>2, <1>5, <2>3, NoPageInside
  <2>5. ~HoleBefore(h, wants, n)
    <3>1. PICK b \in Nat : /\ b <= p /\ p - b < wants /\ (b = 1 \/ h.cell[b - 1] # 0)
                           /\ ~HoleBefore(h, wants, b)
      <4>1. CASE s.nfree = 0
        <5>1. (p = 1 \/ h.cell[p - 1] # 0) /\ ~HoleBefore(h, wants, p)
          BY <1>5, <4>1 DEF ScanInv, Stepping, p
        <5>2. QED
          BY <1>2, <5>1
      <4>2. CASE s.nfree # 0
        <5>1. /\ s.pfree \in 1 .. p /\ s.nfree = p - s.pfree
              /\ s.pfree = 1 \/ h.cell[s.pfree - 1] # 0
              /\ ~HoleBefore(h, wants, s.pfree)
          BY <1>2, <4>2 DEF ScanInv, Counting, p
        <5>2. QED
          BY <1>2, <1>5, <5>1
      <4>3. QED
        BY <4>1, <4>2
    <3>2. p \in Nat /\ n \in Nat /\ p <= n
      BY <1>1, <1>2, <2>4
    <3>3. QED
      BY <2>4, <3>1, <3>2, NoHoleAcross
  <2>6. Stepping(h, wants, t)
    <3>1. h.cell[n - 1] # 0
      BY <1>1, <1>2, <2>4
    <3>2. QED
      BY <2>2, <2>5, <3>1 DEF Stepping
  <2>7. ScanInv(h, wants, t)
    BY <2>2, <2>4, <2>6 DEF ScanInv
  <2>8. Progress(h, t) > Progress(h, s) /\ ~Ended(wants, s, h.top)
    <3>1. Progress(h, t) >= 3 * n
      BY <1>1, <2>2, <2>4 DEF Progress
    <3>2. Progress(h, s) = 3 * p + 2
      <4>1. s.p = p /\ s.loop # "inner" /\ h.cell[p] # 0
        BY <1>5 DEF p
      <4>2. QED
        BY <4>1 DEF Progress
    <3>2a. ~Ended(wants, s, h.top)
      <4>1. s.p = p
        BY DEF p
      <4>2. QED
        BY <1>1, <1>2, <1>5, <4>1 DEF Ended
    <3>3. Progress(h, t) \in Int
      BY <1>1, <2>2, <2>4 DEF Progress
    <3>4. QED
      BY <1>1, <1>2, <2>4, <3>1, <3>2, <3>2a, <3>3
  <2>9. QED
    BY <2>7, <2>8 DEF GotOn
<1>6. CASE s.loop = "outer" /\ p < h.top /\ s.nfree < wants /\ h.cell[p] <= 0
  <2>1. t = Scan(p, p, s.nfree, "inner")
    BY <1>6 DEF Scanned
  <2>2. t \in Scans /\ t.p = p /\ t.pfree = p /\ t.nfree = s.nfree /\ t.loop = "inner"
    BY <1>2, <2>1 DEF Scan, Scans
  <2>3. h.cell[p] = 0 /\ s.nfree = 0
    BY <1>2, <1>6 DEF ScanInv
  <2>4. Stepping(h, wants, s)
    BY <1>6, <2>3 DEF ScanInv
  <2>5. Counting(h, wants, t)
    BY <1>2, <2>2, <2>3, <2>4 DEF Counting, Stepping, FreeRun
  <2>6. ScanInv(h, wants, t)
    BY <1>2, <1>6, <2>2, <2>3, <2>5 DEF ScanInv
  <2>7. Progress(h, t) > Progress(h, s) /\ ~Ended(wants, s, h.top)
    BY <1>1, <1>2, <1>6, <2>2, <2>3 DEF Progress, Ended
  <2>8. QED
    BY <2>6, <2>7 DEF GotOn
<1>7. CASE s.loop = "outer" /\ ~(p < h.top /\ s.nfree < wants)
  <2>1. t = s /\ Ended(wants, s, h.top)
    BY <1>1, <1>2, <1>7 DEF Scanned, Ended
  <2>2. QED
    BY <2>1 DEF GotOn
<1>8. QED
  BY <1>2, <1>3, <1>4, <1>5, <1>6, <1>7

LEMMA ScannedIsScan ==
  ASSUME NEW h \in Heaps, NEW wants, NEW s \in Scans
  PROVE  Scanned(h, wants, s) \in Scans
<1>1. h.top \in 1 .. Total /\ h.cell \in [Pages -> Int] /\ Total \in Nat /\ Pages = 0 .. Total - 1
  BY HeapAssumption DEF Heaps, Pages
<1>2. s.p \in Nat /\ s.pfree \in Nat /\ s.nfree \in Nat /\ s.loop \in {"outer", "inner"}
  BY DEF Scans
<1>3. s.p < h.top => h.cell[s.p] \in Int
  BY <1>1, <1>2
<1>4. \A p, pfree, nfree \in Nat, loop \in {"outer", "inner"} : Scan(p, pfree, nfree, loop) \in Scans
  BY DEF Scan, Scans
<1>5. CASE s.loop = "inner"
  <2>1. CASE s.p < h.top /\ h.cell[s.p] = 0
    <3>1. Scanned(h, wants, s) = Scan(s.p + 1, s.pfree, s.nfree + 1, "inner")
      BY <1>5, <2>1 DEF Scanned
    <3>2. QED
      BY <1>2, <1>4, <3>1
  <2>2. CASE ~(s.p < h.top /\ h.cell[s.p] = 0)
    <3>1. Scanned(h, wants, s) = Scan(s.p, s.pfree, s.nfree, "outer")
      BY <1>5, <2>2 DEF Scanned
    <3>2. QED
      BY <1>2, <1>4, <3>1
  <2>3. QED
    BY <2>1, <2>2
<1>6. CASE s.loop = "outer" /\ s.p < h.top
  <2>1. h.cell[s.p] > 0 => s.p + h.cell[s.p] \in Nat
    BY <1>2, <1>3, <1>6
  <2>2. h.cell[s.p] > 0 \/ h.cell[s.p] <= 0
    BY <1>3, <1>6
  <2>3. CASE s.nfree < wants /\ h.cell[s.p] > 0
    BY <1>2, <1>4, <1>6, <2>1, <2>3 DEF Scanned
  <2>4. CASE s.nfree < wants /\ h.cell[s.p] <= 0
    BY <1>2, <1>4, <1>6, <2>4, <1>3 DEF Scanned
  <2>5. CASE ~(s.nfree < wants)
    BY <1>6, <2>5 DEF Scanned
  <2>6. QED
    BY <2>2, <2>3, <2>4, <2>5
<1>7. CASE s.loop = "outer" /\ ~(s.p < h.top)
  BY <1>7 DEF Scanned
<1>8. QED
  BY <1>2, <1>5, <1>6, <1>7

\* The loop is its tests, one after the other.
Tests(h, wants, f) ==
  /\ f[0] = Scan(1, 0, 0, "outer")
  /\ \A k \in 1 .. 3 * Total : f[k] = Scanned(h, wants, f[k - 1])

LEMMA LoopIs ==
  ASSUME NEW h \in Heaps, NEW wants
  PROVE  \E f : Tests(h, wants, f) /\ Loop(h, wants) = f[3 * Total]
<1> DEFINE N == 3 * Total
           base == Scan(1, 0, 0, "outer")
           G == [s \in Scans |-> Scanned(h, wants, s)]
           E(f) == f = [k \in 0 .. N |-> IF k = 0 THEN base ELSE Scanned(h, wants, f[k - 1])]
           chosen == CHOOSE f : E(f)
<1>1. N \in Nat
  BY HeapAssumption
<1>2. base \in Scans /\ G \in [Scans -> Scans]
  BY ScannedIsScan DEF Scan, Scans
<1>3. \A s \in Scans : G[s] = Scanned(h, wants, s)
  OBVIOUS
<1> HIDE DEF base, G, N
<1>4. PICK f \in [0 .. N -> Scans] : f = [k \in 0 .. N |-> IF k = 0 THEN base ELSE G[f[k - 1]]]
  BY <1>1, <1>2, StepsExist
<1>5. \A k \in 0 .. N : k # 0 => f[k - 1] \in Scans
  <2>1. \A k \in 0 .. N : k # 0 => k - 1 \in 0 .. N
    BY <1>1
  <2>2. QED
    BY <1>4, <2>1
<1>6. f = [k \in 0 .. N |-> f[k]]
  BY <1>4
<1>7. \A k \in 0 .. N : f[k] = IF k = 0 THEN base ELSE Scanned(h, wants, f[k - 1])
  BY <1>3, <1>4, <1>5
<1>8. E(f)
  BY <1>6, <1>7, Zenon
<1>9. E(chosen)
  <2> HIDE DEF E
  <2>1. QED
    BY <1>8, Zenon
<1>10. Loop(h, wants) = chosen[N]
  BY Zenon DEF Loop, base, N
<1> HIDE DEF chosen
<1>11. \A k \in 0 .. N : chosen[k] = IF k = 0 THEN base ELSE Scanned(h, wants, chosen[k - 1])
  BY <1>9, Zenon
<1>12. chosen[0] = base
  <2>1. 0 \in 0 .. N
    BY <1>1
  <2>2. QED
    BY <1>11, <2>1
<1>13. \A k \in 1 .. N : chosen[k] = Scanned(h, wants, chosen[k - 1])
  <2>1. \A k \in 1 .. N : k \in 0 .. N /\ k # 0
    BY <1>1
  <2>2. QED
    BY <1>11, <2>1
<1>14. Tests(h, wants, chosen)
  BY <1>12, <1>13, Zenon DEF Tests, base, N
<1>15. QED
  BY <1>10, <1>14, Zenon DEF N

\* The free pages at the end start somewhere, and only there.
LEMMA OneTail ==
  ASSUME NEW h \in Heaps
  PROVE  /\ \E t \in 1 .. h.top : IsTail(h, t)
         /\ \A t, u \in 1 .. h.top : IsTail(h, t) /\ IsTail(h, u) => t = u
<1>1. h.top \in 1 .. Total /\ h.cell \in [Pages -> Int] /\ Total \in Nat /\ Pages = 0 .. Total - 1
  BY HeapAssumption DEF Heaps, Pages
<1>2. \E t \in 1 .. h.top : IsTail(h, t)
  <2> DEFINE S == {t \in 1 .. h.top : t = 1 \/ h.cell[t - 1] # 0}
             t == Max(S)
  <2>1. S \in SUBSET Int /\ 1 \in S /\ IsFiniteSet(S)
    <3>1. IsFiniteSet(1 .. h.top)
      BY <1>1, FS_Interval
    <3>2. QED
      BY <1>1, <3>1, FS_Subset
  <2>2. t \in S /\ \A x \in S : x <= t
    <3> HIDE DEF S
    <3>1. QED
      BY <2>1, MaxIsLargest
  <2> HIDE DEF t
  <2>3. ASSUME NEW q \in t .. t + (h.top - t) - 1, h.cell[q] # 0 PROVE FALSE
    <3>1. q + 1 \in S /\ q + 1 > t
      BY <1>1, <2>2, <2>3
    <3>2. QED
      BY <1>1, <2>2, <2>3, <3>1
  <2>4. QED
    BY <2>2, <2>3 DEF IsTail, FreeRun
<1>3. ASSUME NEW t \in 1 .. h.top, NEW u \in 1 .. h.top, IsTail(h, t), IsTail(h, u), t < u
      PROVE  FALSE
  <2>1. u - 1 \in t .. t + (h.top - t) - 1 /\ u # 1
    BY <1>1, <1>3
  <2>2. QED
    BY <1>3, <2>1 DEF IsTail, FreeRun
<1>4. \A t, u \in 1 .. h.top : IsTail(h, t) /\ IsTail(h, u) => t = u
  <2>1. SUFFICES ASSUME NEW t \in 1 .. h.top, NEW u \in 1 .. h.top, IsTail(h, t), IsTail(h, u)
                 PROVE  t = u
    OBVIOUS
  <2>2. ~(t < u) /\ ~(u < t)
    BY <1>3, <2>1
  <2>3. QED
    BY <1>1, <2>2
<1>5. QED
  BY <1>2, <1>4

LEMMA LoopEnds ==
  ASSUME NEW h \in Heaps, Tiled(h), NEW wants \in Nat \ {0}
  PROVE  ScanInv(h, wants, Loop(h, wants)) /\ Ended(wants, Loop(h, wants), h.top)
<1> DEFINE N == 3 * Total
<1>1. h.top \in 1 .. Total /\ Total \in Nat /\ N \in Nat
  BY HeapAssumption DEF Heaps
<1>2. PICK f : Tests(h, wants, f) /\ Loop(h, wants) = f[N]
  BY LoopIs
<1>3. f[0] = Scan(1, 0, 0, "outer") /\ \A k \in 1 .. N : f[k] = Scanned(h, wants, f[k - 1])
  BY <1>2 DEF Tests
<1> HIDE DEF N
<1> DEFINE Far(k) == ScanInv(h, wants, f[k])
                       /\ (Ended(wants, f[k], h.top) \/ Progress(h, f[k]) >= 3 + k)
           good == {k \in 0 .. N : Far(k)}
<1>4. 0 \in good
  BY <1>1, <1>3, ScanInit
<1>5. ASSUME NEW k \in 1 .. N, k - 1 \in good
      PROVE  k \in good
  <2>1. ScanInv(h, wants, f[k - 1]) /\ f[k] = Scanned(h, wants, f[k - 1])
    BY <1>3, <1>5
  <2>2. GotOn(h, wants, f[k - 1], f[k])
    BY <2>1, ScanStep
  <2>3. CASE Ended(wants, f[k - 1], h.top)
    <3>1. f[k] = f[k - 1]
      BY <2>2, <2>3 DEF GotOn
    <3>2. Ended(wants, f[k], h.top) /\ ScanInv(h, wants, f[k])
      BY <2>1, <2>3, <3>1
    <3>3. QED
      BY <3>2
  <2>4. CASE ~Ended(wants, f[k - 1], h.top)
    <3>1. Progress(h, f[k]) > Progress(h, f[k - 1]) /\ ScanInv(h, wants, f[k])
      BY <2>2, <2>4 DEF GotOn
    <3>2. Progress(h, f[k - 1]) >= 3 + (k - 1)
      BY <1>5, <2>4
    <3>3. Progress(h, f[k]) \in Int /\ Progress(h, f[k - 1]) \in Int
      BY <1>1, <2>1, <3>1 DEF Progress, ScanInv
    <3>4. Progress(h, f[k]) >= 3 + k
      BY <3>1, <3>2, <3>3
    <3>5. QED
      BY <3>1, <3>4
  <2>5. QED
    BY <2>3, <2>4
<1> HIDE DEF good
<1>6. \A k \in 0 .. N : k \in good
  BY <1>1, <1>4, <1>5, UpTo
<1>7. Far(N)
  BY <1>1, <1>6 DEF good
<1>8. Progress(h, f[N]) < 3 + N
  BY <1>1, <1>7 DEF Progress, ScanInv, N
<1>9. Progress(h, f[N]) \in Int
  BY <1>1, <1>7 DEF Progress, ScanInv
<1>10. QED
  BY <1>1, <1>2, <1>7, <1>8, <1>9

\* The page is the one the scan leads to.
LEMMA LoopSettles ==
  ASSUME NEW h \in Heaps, Tiled(h), NEW wants \in Nat, NEW s, s = Loop(h, wants),
         NEW pf \in 1 .. Total
  PROVE  Ended(wants, s, h.top) /\ (IsPlace(h, wants, pf) <=> pf = Settled(h, s))
<1>1. h.top \in 1 .. Total /\ h.cell \in [Pages -> Int] /\ Total \in Nat /\ Pages = 0 .. Total - 1
  BY HeapAssumption DEF Heaps, Pages
<1>2. ASSUME NEW t \in 1 .. h.top, IsTail(h, t),
             Settled(h, s) = IF wants = 0 \/ HoleBefore(h, wants, t) THEN h.top ELSE t
      PROVE  IsPlace(h, wants, pf) <=> pf = Settled(h, s)
  <2>1. \A u \in 1 .. h.top : IsTail(h, u) => u = t
    BY <1>2, OneTail
  <2>2. QED
    BY <1>2, <2>1 DEF IsPlace
<1>3. CASE wants = 0
  <2>1. PICK f : Tests(h, wants, f) /\ s = f[3 * Total]
    BY LoopIs
  <2> DEFINE N == 3 * Total
             start == Scan(1, 0, 0, "outer")
             good == {k \in 0 .. N : f[k] = start}
  <2>2. N \in Nat
    BY <1>1
  <2>3. 0 \in good
    BY <2>1, <2>2 DEF Tests
  <2>4. Scanned(h, wants, start) = start
    BY <1>1, <1>3 DEF Scanned, Scan
  <2>5. \A k \in 1 .. N : k - 1 \in good => k \in good
    BY <2>1, <2>4 DEF Tests
  <2>5a. \A k \in good : f[k] = start
    OBVIOUS
  <2> HIDE DEF good, N
  <2>6. \A k \in 0 .. N : k \in good
    BY <2>2, <2>3, <2>5, UpTo
  <2>7. s = start
    BY <2>1, <2>2, <2>5a, <2>6 DEF N
  <2>8. Ended(wants, s, h.top) /\ Settled(h, s) = h.top
    BY <1>1, <1>3, <2>7 DEF Scan, Ended, Settled
  <2>9. QED
    BY <1>2, <1>3, <2>8, OneTail
<1>4. CASE wants # 0
  <2>1. ScanInv(h, wants, s) /\ Ended(wants, s, h.top)
    BY <1>4, LoopEnds
  <2>2. /\ s.p \in 1 .. h.top /\ s.pfree \in Nat /\ s.nfree \in Nat /\ s.loop = "outer"
        /\ s.p >= h.top \/ s.nfree >= wants
    BY <2>1 DEF ScanInv, Ended, Scans
  <2>3. CASE s.nfree = 0
    <3>1. Stepping(h, wants, s) /\ s.p = h.top
      BY <1>1, <1>4, <2>1, <2>2, <2>3 DEF ScanInv
    <3>2. IsTail(h, h.top) /\ ~HoleBefore(h, wants, h.top)
      BY <1>1, <3>1 DEF Stepping, IsTail, FreeRun
    <3>3. Settled(h, s) = h.top
      BY <1>1, <2>2, <2>3 DEF Settled
    <3>4. h.top \in 1 .. h.top
      BY <1>1
    <3>5. QED
      BY <1>2, <1>4, <2>1, <3>2, <3>3, <3>4
  <2>4. CASE s.nfree # 0 /\ s.p = h.top
    <3>1. Counting(h, wants, s)
      BY <2>1, <2>2, <2>4 DEF ScanInv
    <3>2. s.pfree \in 1 .. h.top /\ s.nfree = h.top - s.pfree
      BY <2>4, <3>1 DEF Counting
    <3>3. IsTail(h, s.pfree) /\ ~HoleBefore(h, wants, s.pfree)
      BY <3>1, <3>2 DEF Counting, IsTail
    <3>4. Settled(h, s) = s.pfree
      BY <1>1, <2>2, <3>2 DEF Settled
    <3>5. QED
      BY <1>2, <1>4, <2>1, <3>2, <3>3, <3>4
  <2>5. CASE s.nfree # 0 /\ s.p # h.top
    <3>1. Counting(h, wants, s) /\ h.cell[s.p] > 0 /\ s.p < h.top /\ s.nfree >= wants
      BY <1>1, <2>1, <2>2, <2>5 DEF ScanInv
    <3>2. s.pfree \in 1 .. s.p /\ s.nfree = s.p - s.pfree /\ FreeRun(h, s.pfree, s.nfree)
      BY <3>1 DEF Counting
    <3>3. PICK t \in 1 .. h.top : IsTail(h, t)
      BY OneTail
    <3>4. t > s.p
      <4>1. ASSUME t <= s.p PROVE FALSE
        <5>1. s.p \in t .. t + (h.top - t) - 1
          BY <1>1, <2>2, <3>1, <4>1
        <5>2. h.cell[s.p] = 0
          BY <3>3, <5>1 DEF IsTail, FreeRun
        <5>3. QED
          BY <3>1, <5>2
      <4>2. QED
        BY <1>1, <2>2, <4>1
    <3>5. HoleBefore(h, wants, t)
      <4>1. s.pfree \in 1 .. t - 1 /\ s.pfree + wants <= t
        BY <1>1, <2>2, <3>1, <3>2, <3>4
      <4>2. FreeRun(h, s.pfree, wants)
        BY <1>1, <2>2, <3>1, <3>2 DEF FreeRun
      <4>3. QED
        BY <4>1, <4>2 DEF HoleBefore
    <3>6. Settled(h, s) = h.top
      BY <1>1, <2>2, <3>1, <3>2 DEF Settled
    <3>7. QED
      BY <1>2, <2>1, <3>3, <3>5, <3>6
  <2>6. QED
    BY <2>3, <2>4, <2>5
<1>5. QED
  BY <1>3, <1>4

(***************************************************************************)
(* kmalloc's scan (os.cc:255-272) ends on every heap that the callers      *)
(* reach, whatever kfree divided by, and settles on the page that IsPlace  *)
(* says.                                                                   *)
(***************************************************************************)
THEOREM ScanEndsAtThePlace == Spec => []PlaceIsTheLoop
<1>1. IInv => PlaceIsTheLoop
  <2>1. SUFFICES ASSUME IInv, NEW wants \in 0 .. Total
                 PROVE  LET s == Loop(heap, wants)
                        IN /\ Ended(wants, s, heap.top)
                           /\ \A pf \in 1 .. Total :
                                IsPlace(heap, wants, pf) <=> pf = Settled(heap, s)
    BY DEF PlaceIsTheLoop
  <2>2. heap \in Heaps /\ Tiled(heap) /\ wants \in Nat /\ 1 \in 1 .. Total
    BY <2>1, HeapAssumption DEF IInv, TypeOK
  <2>3. QED
    BY <2>2, LoopSettles
<1>2. QED
  BY <1>1, Invariance, PTL
=============================================================================
