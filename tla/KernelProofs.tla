---------------------------- MODULE KernelProofs ----------------------------
(***************************************************************************)
(* Proofs about Kernel for every page and memory size, table length, set   *)
(* of object files and benign divisors of kfree.                           *)
(*                                                                         *)
(* A call is a sequence of steps on a record of the state (Salloc, Mmap,   *)
(* Munmap, Load ...), and what holds between calls holds between steps:    *)
(* GoodState.  A lemma for each step says that it keeps GoodState and what *)
(* it changes; FoldExists carries that over the loops of exec, fork and    *)
(* freesegs.  KernelInv is GoodState of the machine with the bootstrap's   *)
(* control added.                                                          *)
(*                                                                         *)
(* Well-formed files are the subject of the second half.  An entry of a    *)
(* file is then written once by an exec, into a slot that freesegs has     *)
(* emptied, so no mapping is lost with its count: FilesInv.  The           *)
(* refinement of ProcessImages needs PidsInv besides.                      *)
(***************************************************************************)
EXTENDS MC_Kernel, HeapProofs, FoldProofs

-----------------------------------------------------------------------------
(* The state of a system call, and what is always true of it *)

Segment == [refs : Nat, base : Nat, size : Nat, ino : Files \cup {NoFile},
            flags : SUBSET Flag]
Entry   == [segid : Nat, base : Nat, size : Nat, flags : SUBSET Flag]
Maps    == UNION {[D -> Nat] : D \in SUBSET Nat}
Loaded  == [refs : Nat, map : Maps, whole : BOOLEAN]
Caches  == UNION {[D -> Loaded] : D \in SUBSET Files}
Table   == [SegNos -> Entry]
Tables  == UNION {[D -> Table] : D \in SUBSET Nat}
State   == [heap : Heaps, segs : Seq(Segment), objs : Caches, tbl : Table,
            err : Errnos \cup {"ok"}]

\* Every live segment heads a block of the heap that is its own.
Placed(h, ss) ==
  \A s \in 1 .. Len(ss) :
    IF ss[s].base = 0 THEN ss[s].ino = NoFile
    ELSE /\ ss[s].base \in 1 .. Total - 1 /\ ss[s].size > 0
         /\ h.cell[ss[s].base] = PagesFor(ss[s].size)
         /\ \A t \in 1 .. Len(ss) : ss[t].base = ss[s].base => s = t

\* A VALID entry maps a segment of a file, or one that was freed; another entry
\* that grants something maps a Process structure or a stack, as it is.
Means(ss, e) ==
  /\ e.segid \in 0 .. Len(ss)
  /\ e.flags # {} =>
       /\ e.segid # 0
       /\ IF Valid(e)
          THEN ss[e.segid].base = 0 \/ ss[e.segid].ino # NoFile
          ELSE /\ ss[e.segid].base # 0 /\ ss[e.segid].ino = NoFile
               /\ e.base = ss[e.segid].base /\ e.size = ss[e.segid].size

Meant(ss, tabs) ==
  /\ DOMAIN tabs \subseteq 1 .. Len(ss)
  /\ \A u \in DOMAIN tabs, no \in SegNos : Means(ss, tabs[u][no])

MappingsIn(tabs, sid) ==
  {m \in (DOMAIN tabs) \X SegNos :
     Valid(tabs[m[1]][m[2]]) /\ tabs[m[1]][m[2]].segid = sid}

Held(s) == IF s.base # 0 /\ s.ino = NoFile THEN 1 ELSE 0

RefsCounted(ss, tabs) ==
  \A sid \in 1 .. Len(ss) :
    ss[sid].refs = Cardinality(MappingsIn(tabs, sid)) + Held(ss[sid])

SegmentsOf(ss, f) == {sid \in 1 .. Len(ss) : ss[sid].ino = f}

\* An object counts its segments; its map leads to segments of its own, or freed.
ObjectsCounted(ss, os) ==
  /\ \A f \in DOMAIN os :
       /\ os[f].refs = Cardinality(SegmentsOf(ss, f))
       /\ IsFiniteSet(DOMAIN os[f].map)
       /\ \A no \in DOMAIN os[f].map :
            /\ os[f].map[no] \in 1 .. Len(ss)
            /\ ss[os[f].map[no]].base = 0 \/ ss[os[f].map[no]].ino = f
  /\ \A sid \in 1 .. Len(ss) : ss[sid].ino \in DOMAIN os \cup {NoFile}

Good(h, ss, os, tabs) ==
  /\ Tiled(h)
  /\ Placed(h, ss)
  /\ Meant(ss, tabs)
  /\ RefsCounted(ss, tabs)
  /\ ObjectsCounted(ss, os)

\* The state of a call made by process u of tabs.
GoodState(st, tabs, u) ==
  /\ st \in State
  /\ Good(st.heap, st.segs, st.objs, [tabs EXCEPT ![u] = st.tbl])

-----------------------------------------------------------------------------
\* The divisors with which kfree frees its own block or none.
Benign == {g \in Nat : g = Page \/ g > Page * Total}

LEMMA Constants ==
  /\ Page \in Nat \ {0} /\ Total \in Nat \ {0} /\ NSeg \in Nat /\ NSeg > 4
  /\ Uarea = 4 /\ Uarea \in SegNos /\ 0 \in SegNos /\ SegNos \in SUBSET Nat
  /\ IsFiniteSet(SegNos) /\ NoFile \notin Files
  /\ Benign \subseteq Nat /\ \A g \in Benign : g = Page \/ g > Page * Total
<1>1. IsFiniteSet(SegNos)
  BY KernelAssumption, FS_Interval DEF SegNos
<1>2. QED
  BY <1>1, HeapAssumption, KernelAssumption DEF SegNos, Uarea, Benign

LEMMA EntryFields ==
  ASSUME NEW e \in Entry
  PROVE  /\ e.segid \in Nat /\ e.base \in Nat /\ e.size \in Nat
         /\ e.flags \in SUBSET Flag
BY DEF Entry

LEMMA StateFields ==
  ASSUME NEW st \in State
  PROVE  /\ st.heap \in Heaps /\ st.segs \in Seq(Segment) /\ st.objs \in Caches
         /\ st.tbl \in Table /\ st.err \in Errnos \cup {"ok"}
         /\ Len(st.segs) \in Nat
         /\ \A sid \in 1 .. Len(st.segs) : st.segs[sid] \in Segment
         /\ \A no \in SegNos : st.tbl[no] \in Entry
BY DEF State, Table

LEMMA StateExcept ==
  ASSUME NEW st \in State, NEW h \in Heaps, NEW ss \in Seq(Segment),
         NEW os \in Caches, NEW tbl \in Table, NEW err \in Errnos \cup {"ok"}
  PROVE  /\ [st EXCEPT !.heap = h, !.segs = ss, !.objs = os, !.tbl = tbl,
                       !.err = err] \in State
         /\ [st EXCEPT !.segs = ss, !.tbl = tbl] \in State
         /\ [st EXCEPT !.objs = os, !.heap = h, !.segs = ss] \in State
         /\ [st EXCEPT !.heap = h, !.segs = ss] \in State
         /\ [st EXCEPT !.objs = os] \in State
         /\ [st EXCEPT !.tbl = tbl] \in State
         /\ [st EXCEPT !.err = err] \in State
BY DEF State

-----------------------------------------------------------------------------
(* Counting mappings *)

LEMMA MappingsAreFinite ==
  ASSUME NEW tabs, IsFiniteSet(DOMAIN tabs), NEW sid
  PROVE  /\ IsFiniteSet(MappingsIn(tabs, sid))
         /\ Cardinality(MappingsIn(tabs, sid)) \in Nat
<1>1. IsFiniteSet((DOMAIN tabs) \X SegNos)
  BY Constants, FS_Product
<1>2. MappingsIn(tabs, sid) \in SUBSET ((DOMAIN tabs) \X SegNos)
  BY DEF MappingsIn
<1>3. QED
  BY <1>1, <1>2, FS_Subset, FS_CardinalityType

LEMMA TablesEntries ==
  ASSUME NEW tabs \in Tables, NEW u \in DOMAIN tabs
  PROVE  tabs[u] \in Table /\ \A no \in SegNos : tabs[u][no] \in Entry
<1>1. PICK D \in SUBSET Nat : tabs \in [D -> Table]
  BY DEF Tables
<1>2. tabs[u] \in Table
  BY <1>1
<1>3. QED
  BY <1>2 DEF Table

LEMMA TablesExcept ==
  ASSUME NEW tabs \in Tables, NEW u \in DOMAIN tabs, NEW tbl \in Table
  PROVE  /\ [tabs EXCEPT ![u] = tbl] \in Tables
         /\ DOMAIN [tabs EXCEPT ![u] = tbl] = DOMAIN tabs
         /\ [tabs EXCEPT ![u] = tbl][u] = tbl
         /\ \A v \in DOMAIN tabs : v # u => [tabs EXCEPT ![u] = tbl][v] = tabs[v]
         /\ \A t2 : [[tabs EXCEPT ![u] = tbl] EXCEPT ![u] = t2]
                      = [tabs EXCEPT ![u] = t2]
BY DEF Tables

Hits(e, sid) == Valid(e) /\ e.segid = sid

\* An entry of one table changes: each segment loses the mapping the entry was
\* and gains the one it becomes.
LEMMA MappingsChange ==
  ASSUME NEW tabs, NEW next, IsFiniteSet(DOMAIN tabs), DOMAIN next = DOMAIN tabs,
         NEW u \in DOMAIN tabs, NEW no \in SegNos,
         \A v \in DOMAIN tabs, k \in SegNos :
           v # u \/ k # no => next[v][k] = tabs[v][k],
         NEW sid
  PROVE  Cardinality(MappingsIn(next, sid))
           = Cardinality(MappingsIn(tabs, sid))
             - (IF Hits(tabs[u][no], sid) THEN 1 ELSE 0)
             + (IF Hits(next[u][no], sid) THEN 1 ELSE 0)
<1> DEFINE old == MappingsIn(tabs, sid)
           new == MappingsIn(next, sid)
           rest == old \ {<<u, no>>}
<1>3. \A m \in (DOMAIN tabs) \X SegNos : m # <<u, no>> => (m \in new <=> m \in old)
  BY DEF MappingsIn
<1>4. <<u, no>> \in old <=> Hits(tabs[u][no], sid)
  BY DEF MappingsIn, Hits
<1>5. <<u, no>> \in new <=> Hits(next[u][no], sid)
  BY DEF MappingsIn, Hits
<1>6. old \subseteq (DOMAIN tabs) \X SegNos /\ new \subseteq (DOMAIN tabs) \X SegNos
  BY DEF MappingsIn
<1>7. IsFiniteSet(old) /\ IsFiniteSet(new) /\ Cardinality(old) \in Nat
  BY MappingsAreFinite
<1> HIDE DEF old, new
<1>8. new \ {<<u, no>>} = rest
  BY <1>3, <1>6
<1>9. /\ Cardinality(rest) = IF <<u, no>> \in old THEN Cardinality(old) - 1
                             ELSE Cardinality(old)
      /\ Cardinality(rest) = IF <<u, no>> \in new THEN Cardinality(new) - 1
                             ELSE Cardinality(new)
  BY <1>7, <1>8, FS_RemoveElement
<1>10. Cardinality(new) \in Nat
  BY <1>7, FS_CardinalityType
<1> HIDE DEF rest
<1>11. QED
  BY <1>4, <1>5, <1>7, <1>9, <1>10 DEF old, new

-----------------------------------------------------------------------------
(* Blocks of the heap *)

LEMMA PagesForSome ==
  ASSUME NEW bytes \in Nat \ {0}
  PROVE  PagesFor(bytes) \in Nat \ {0}
<1>1. PagesFor(bytes) \in Nat
  BY PagesForPositive
<1>2. PagesFor(bytes) >= 1
  BY Constants, SMTT(30) DEF PagesFor
<1>3. QED
  BY <1>1, <1>2

\* The free pages that end the vector start somewhere.
LEMMA TailExists ==
  ASSUME NEW h \in Heaps
  PROVE  \E t \in 1 .. h.top : IsTail(h, t)
<1> DEFINE used == {p \in 1 .. h.top - 1 : h.cell[p] # 0}
<1>1. h.top \in 1 .. Total /\ h.cell \in [Pages -> Int] /\ Total \in Nat
  BY HeapAssumption DEF Heaps
<1>2. CASE used = {}
  <2>1. IsTail(h, 1)
    BY <1>1, <1>2 DEF IsTail, FreeRun
  <2>2. QED
    BY <1>1, <2>1
<1>3. CASE used # {}
  <2>1. used \in SUBSET Int /\ IsFiniteSet(used)
    <3>1. used \in SUBSET (1 .. h.top - 1) /\ IsFiniteSet(1 .. h.top - 1)
      BY <1>1, FS_Interval
    <3>2. IsFiniteSet(used)
      BY <3>1, FS_Subset
    <3>3. QED
      BY <1>1, <3>2
  <2> DEFINE m == Max(used)
  <2>2. m \in used /\ \A p \in used : p <= m
    BY <1>3, <2>1, MaxIsLargest
  <2> HIDE DEF m
  <2>3. m \in 1 .. h.top - 1 /\ h.cell[m] # 0
    BY <2>2
  <2>4. \A p \in m + 1 .. h.top - 1 : h.cell[p] = 0
    BY <1>1, <2>2, <2>3
  <2>5. IsTail(h, m + 1)
    <3>0. m \in Int /\ h.top \in Int /\ (m + 1) - 1 = m
      BY <1>1, <2>3
    <3>1. m + 1 \in 1 .. h.top /\ h.cell[(m + 1) - 1] # 0
      BY <2>3, <3>0
    <3>2. (m + 1) + (h.top - (m + 1)) - 1 = h.top - 1
      BY <3>0
    <3>3. FreeRun(h, m + 1, h.top - (m + 1))
      BY <2>4, <3>2 DEF FreeRun
    <3>4. QED
      BY <3>1, <3>3 DEF IsTail
  <2>6. QED
    BY <1>1, <2>3, <2>5
<1>4. QED
  BY <1>2, <1>3

LEMMA PlaceExists ==
  ASSUME NEW h \in Heaps, NEW wants \in Nat
  PROVE  Place(h, wants) \in 1 .. Total /\ IsPlace(h, wants, Place(h, wants))
<1>1. h.top \in 1 .. Total /\ Total \in Nat
  BY HeapAssumption DEF Heaps
<1>2. PICK t \in 1 .. h.top : IsTail(h, t)
  BY TailExists
<1> DEFINE pf == IF wants = 0 \/ HoleBefore(h, wants, t) THEN h.top ELSE t
<1>3. pf \in 1 .. Total /\ IsPlace(h, wants, pf)
  BY <1>1, <1>2 DEF IsPlace
<1> HIDE DEF pf
<1>4. QED
  BY <1>3 DEF Place

\* The block of a new segment is a block of its own.
LEMMA NewBlock ==
  ASSUME NEW h \in Heaps, Tiled(h), NEW bytes \in Nat \ {0}, HasRoom(h, bytes),
         NEW wants, wants = PagesFor(bytes), NEW pf, pf = Place(h, wants)
  PROVE  /\ pf \in 1 .. Total - 1
         /\ WithBlock(h, wants, pf) \in Heaps /\ Tiled(WithBlock(h, wants, pf))
         /\ WithBlock(h, wants, pf).cell[pf] = wants
         /\ \A j \in Pages : h.cell[j] > 0 =>
              j # pf /\ WithBlock(h, wants, pf).cell[j] = h.cell[j]
<1>1. wants \in Nat \ {0}
  BY PagesForSome
<1>2. h.top \in 1 .. Total /\ h.cell \in [Pages -> Int] /\ Total \in Nat
  BY HeapAssumption DEF Heaps
<1>3. pf \in 1 .. Total /\ IsPlace(h, wants, pf) /\ ~NoRoom(h, wants, pf)
  BY <1>1, PlaceExists DEF HasRoom
<1>4. pf \in 1 .. h.top /\ \A p \in Pages : p >= pf => h.cell[p] = 0
  BY <1>1, <1>3, PlaceIsFree
<1>5. pf + wants <= Total
  BY <1>1, <1>3, <1>4, PlaceFits
<1>6. WithBlock(h, wants, pf) \in Heaps /\ Tiled(WithBlock(h, wants, pf))
  BY <1>1, <1>3, <1>4, <1>5, WithBlockIsHeap, WithBlockIsTiled
<1>7. pf \in 1 .. Total - 1 /\ pf \in Pages
  BY <1>1, <1>2, <1>3, <1>5 DEF Pages
<1>8. \A p \in Pages : WithBlock(h, wants, pf).cell[p]
                         = IF p = pf THEN wants
                           ELSE IF p \in pf + 1 .. pf + wants - 1 THEN -pf
                           ELSE h.cell[p]
  BY DEF WithBlock
<1>9. ASSUME NEW j \in Pages, h.cell[j] > 0
      PROVE  j # pf /\ WithBlock(h, wants, pf).cell[j] = h.cell[j]
  <2>1. j < pf
    <3>1. h.cell[j] # 0 /\ j \in Int /\ pf \in Int
      BY <1>7, <1>9, HeapAssumption DEF Pages
    <3>2. ~(j >= pf)
      BY <1>4, <3>1
    <3>3. QED
      BY <3>1, <3>2
  <2>2. QED
    BY <1>1, <1>7, <1>8, <2>1 DEF Pages
<1>10. QED
  BY <1>6, <1>7, <1>8, <1>9

\* kfree of a live segment's base, or of page 0, takes no other block.
LEMMA FreeBlock ==
  ASSUME NEW h \in Heaps, Tiled(h), NEW g \in Benign,
         NEW k \in 0 .. Total - 1, k # 0 => h.cell[k] > 0
  PROVE  /\ AfterKfree(h, k * Page, g) \in Heaps
         /\ Tiled(AfterKfree(h, k * Page, g))
         /\ \A j \in Pages : h.cell[j] > 0 /\ j # k =>
              AfterKfree(h, k * Page, g).cell[j] = h.cell[j]
<1>1. h.top \in 1 .. Total /\ h.cell \in [Pages -> Int]
  BY DEF Heaps
<1>2. g \in Nat /\ (g = Page \/ g > Page * Total) /\ g > 0 /\ Total \in Nat
      /\ Page \in Nat \ {0}
  <2>1. Page * Total \in Nat
    BY Constants
  <2>2. QED
    BY <2>1, Constants
<1> DEFINE addr == k * Page
           q == KfreePage(addr, g)
           n == AfterKfree(h, addr, g)
<1>3. q = 0 \/ (q = k /\ k # 0)
  <2>1. CASE k = 0
    <3>1. addr = 0
      BY <1>2, <2>1
    <3>2. 0 \div g = 0
      BY <1>2, SMTT(30)
    <3>3. QED
      BY <3>1, <3>2 DEF KfreePage
  <2>2. CASE k # 0
    BY <1>2, <2>2, BenignQuotient
  <2>3. QED
    BY <2>1, <2>2
<1>4. addr \in Nat
  BY <1>2, AddressIsNat
<1> HIDE DEF q, addr
<1>5. CASE q = 0
  <2>1. n = h
    BY <1>5 DEF AfterKfree, q
  <2>2. QED
    BY <2>1 DEF addr
<1>6. CASE q = k /\ k # 0
  <2>1. k \in Pages /\ h.cell[k] > 0 /\ h.cell[k] \in Int
    BY <1>1, <1>2, <1>6 DEF Pages
  <2>2. k < h.top
    BY <1>1, <1>2, <2>1 DEF Tiled, Pages
  <2>3. ~KfreeAborts(h, addr, g)
    BY <1>1, <1>2, <1>6, <2>1, <2>2 DEF KfreeAborts, q
  <2>4. n \in Heaps /\ Tiled(n)
    BY <1>2, <1>4, <2>3, AfterKfreeIsHeap, AfterKfreeIsTiled
  <2>5. \A p \in Pages : n.cell[p] = IF p \in k .. k + h.cell[k] - 1 THEN 0
                                     ELSE h.cell[p]
    BY <1>1, <1>6, <2>1 DEF AfterKfree, q, Heaps
  <2>6. \A p \in k + 1 .. k + h.cell[k] - 1 : h.cell[p] = -k
    BY <2>1 DEF Tiled, HeadsBlock
  <2>7. ASSUME NEW j \in Pages, h.cell[j] > 0, j # k
        PROVE  j \notin k .. k + h.cell[k] - 1
    BY <1>1, <1>2, <2>1, <2>6, <2>7 DEF Pages
  <2>8. QED
    BY <2>4, <2>5, <2>7 DEF addr
<1>7. QED
  BY <1>3, <1>5, <1>6

-----------------------------------------------------------------------------
(* munmap *)

LEMMA SegmentFields ==
  ASSUME NEW s \in Segment
  PROVE  /\ s.refs \in Nat /\ s.base \in Nat /\ s.size \in Nat
         /\ s.ino \in Files \cup {NoFile} /\ s.flags \in SUBSET Flag
BY DEF Segment

LEMMA SegsExcept ==
  ASSUME NEW ss \in Seq(Segment), NEW sid \in 1 .. Len(ss), NEW s \in Segment
  PROVE  /\ [ss EXCEPT ![sid] = s] \in Seq(Segment)
         /\ Len([ss EXCEPT ![sid] = s]) = Len(ss)
         /\ [ss EXCEPT ![sid] = s][sid] = s
         /\ \A k \in 1 .. Len(ss) : k # sid => [ss EXCEPT ![sid] = s][k] = ss[k]
OBVIOUS

\* ss with segment sid replaced by one that has these fields.
Replaced(next, ss, sid, refs, base, size, ino) ==
  /\ next \in Seq(Segment) /\ Len(next) = Len(ss)
  /\ \A k \in 1 .. Len(ss) : k # sid => next[k] = ss[k]
  /\ next[sid].refs = refs /\ next[sid].base = base /\ next[sid].size = size
  /\ next[sid].ino = ino /\ next[sid].flags = ss[sid].flags

LEMMA RefsReplaced ==
  ASSUME NEW ss \in Seq(Segment), NEW sid \in 1 .. Len(ss), NEW refs \in Nat
  PROVE  Replaced([ss EXCEPT ![sid] = [ss[sid] EXCEPT !.refs = refs]], ss, sid,
                  refs, ss[sid].base, ss[sid].size, ss[sid].ino)
<1> DEFINE s == [ss[sid] EXCEPT !.refs = refs]
<1>1. ss[sid] \in Segment
  OBVIOUS
<1>2. /\ s \in Segment /\ s.refs = refs /\ s.base = ss[sid].base
      /\ s.size = ss[sid].size /\ s.ino = ss[sid].ino /\ s.flags = ss[sid].flags
  BY <1>1 DEF Segment
<1> HIDE DEF s
<1>3. Replaced([ss EXCEPT ![sid] = s], ss, sid, refs, ss[sid].base, ss[sid].size,
               ss[sid].ino)
  BY <1>2, SegsExcept DEF Replaced
<1>4. QED
  BY <1>3 DEF s

LEMMA FreedReplaced ==
  ASSUME NEW ss \in Seq(Segment), NEW sid \in 1 .. Len(ss)
  PROVE  Replaced([ss EXCEPT ![sid] = [ss[sid] EXCEPT !.base = 0, !.size = 0,
                                                      !.ino = NoFile]],
                  ss, sid, ss[sid].refs, 0, 0, NoFile)
<1> DEFINE s == [ss[sid] EXCEPT !.base = 0, !.size = 0, !.ino = NoFile]
<1>1. ss[sid] \in Segment
  OBVIOUS
<1>2. /\ s \in Segment /\ s.refs = ss[sid].refs /\ s.base = 0 /\ s.size = 0
      /\ s.ino = NoFile /\ s.flags = ss[sid].flags
  BY <1>1 DEF Segment
<1> HIDE DEF s
<1>3. Replaced([ss EXCEPT ![sid] = s], ss, sid, ss[sid].refs, 0, 0, NoFile)
  BY <1>2, SegsExcept DEF Replaced
<1>4. QED
  BY <1>3 DEF s

LEMMA DropObjectIsCache ==
  ASSUME NEW os \in Caches, NEW f \in DOMAIN os, os[f].refs > 0
  PROVE  /\ DropObject(os, f) \in Caches
         /\ IF os[f].refs = 1
            THEN DOMAIN DropObject(os, f) = DOMAIN os \ {f}
            ELSE /\ DOMAIN DropObject(os, f) = DOMAIN os
                 /\ DropObject(os, f)[f].refs = os[f].refs - 1
                 /\ DropObject(os, f)[f].map = os[f].map
                 /\ DropObject(os, f)[f].whole = os[f].whole
         /\ \A x \in DOMAIN os \ {f} : DropObject(os, f)[x] = os[x]
<1>1. PICK D \in SUBSET Files : os \in [D -> Loaded]
  BY DEF Caches
<1>2. os[f] \in Loaded
  BY <1>1
<1>3. CASE os[f].refs = 1
  <2>1. DropObject(os, f) = [x \in DOMAIN os \ {f} |-> os[x]]
    BY <1>3 DEF DropObject
  <2>2. DropObject(os, f) \in [D \ {f} -> Loaded]
    BY <1>1, <2>1
  <2>3. QED
    BY <1>1, <1>3, <2>1, <2>2 DEF Caches
<1>4. CASE os[f].refs # 1
  <2> DEFINE o == [os[f] EXCEPT !.refs = os[f].refs - 1]
  <2>1. /\ o \in Loaded /\ o.refs = os[f].refs - 1 /\ o.map = os[f].map
        /\ o.whole = os[f].whole
    BY <1>2 DEF Loaded
  <2>2. DropObject(os, f) = [os EXCEPT ![f] = o]
    BY <1>4 DEF DropObject
  <2> HIDE DEF o
  <2>3. [os EXCEPT ![f] = o] \in [D -> Loaded]
    BY <1>1, <2>1
  <2>4. QED
    BY <1>1, <1>4, <2>1, <2>2, <2>3 DEF Caches
<1>5. QED
  BY <1>3, <1>4

\* munmap of an entry that is not VALID does nothing.
LEMMA MunmapIdle ==
  ASSUME NEW st, NEW no, NEW g, ~Valid(st.tbl[no])
  PROVE  Munmap(st, no, g) = st
BY DEF Munmap

\* munmap of a VALID entry: the entry is cleared and the count goes down; at 0
\* the segment is freed and its object has one segment fewer.
Munmaps(x, st, no, sid, g) ==
  /\ x.tbl \in Table
  /\ \A k \in SegNos : k # no => x.tbl[k] = st.tbl[k]
  /\ x.tbl[no].flags = {} /\ x.tbl[no].segid = sid
  /\ x.err = st.err
  /\ IF st.segs[sid].refs = 1
     THEN /\ Replaced(x.segs, st.segs, sid, 0, 0, 0, NoFile)
          /\ x.heap = AfterKfree(st.heap, st.segs[sid].base * Page, g)
          /\ x.objs = IF st.segs[sid].ino = NoFile THEN st.objs
                      ELSE DropObject(st.objs, st.segs[sid].ino)
     ELSE /\ Replaced(x.segs, st.segs, sid, st.segs[sid].refs - 1,
                      st.segs[sid].base, st.segs[sid].size, st.segs[sid].ino)
          /\ x.heap = st.heap /\ x.objs = st.objs

LEMMA MunmapDoes ==
  ASSUME NEW st \in State, NEW no \in SegNos, NEW g, Valid(st.tbl[no]),
         NEW sid \in 1 .. Len(st.segs), sid = st.tbl[no].segid,
         st.segs[sid].refs > 0,
         st.segs[sid].ino \in DOMAIN st.objs \cup {NoFile},
         \A f \in DOMAIN st.objs : st.segs[sid].ino = f => st.objs[f].refs > 0
  PROVE  /\ Munmap(st, no, g) \in State
         /\ Munmaps(Munmap(st, no, g), st, no, sid, g[sid])
<1> DEFINE e == st.tbl[no]
           s1 == [st.segs EXCEPT ![sid] = [st.segs[sid] EXCEPT !.refs = st.segs[sid].refs - 1]]
           e1 == [e EXCEPT !.size = 0, !.flags = {}]
           tbl == [st.tbl EXCEPT ![no] = e1]
           y == [st EXCEPT !.segs = s1, !.tbl = tbl]
<1>1. /\ st.heap \in Heaps /\ st.segs \in Seq(Segment) /\ st.objs \in Caches
      /\ st.tbl \in Table /\ st.segs[sid] \in Segment /\ e \in Entry
  BY StateFields
<1>2. st.segs[sid].refs \in Nat /\ st.segs[sid].refs - 1 \in Nat
  BY <1>1, SegmentFields
<1>3. Replaced(s1, st.segs, sid, st.segs[sid].refs - 1,
               st.segs[sid].base, st.segs[sid].size, st.segs[sid].ino)
  BY <1>1, <1>2, RefsReplaced
<1>4. e1 \in Entry /\ e1.flags = {} /\ e1.segid = sid
  BY <1>1 DEF Entry
<1> HIDE DEF e1
<1>5. tbl \in Table /\ tbl[no] = e1 /\ \A k \in SegNos : k # no => tbl[k] = st.tbl[k]
  BY <1>1, <1>4 DEF Table
<1>6. s1 \in Seq(Segment) /\ s1[sid].refs = st.segs[sid].refs - 1
  BY <1>3 DEF Replaced
<1>7. [st EXCEPT !.segs[e.segid].refs = @ - 1,
                 !.tbl[no] = [@ EXCEPT !.size = 0, !.flags = {}]] = y
  BY DEF e1
<1> HIDE DEF e, s1, tbl
<1>8. /\ y \in State /\ y.segs = s1 /\ y.tbl = tbl /\ y.heap = st.heap
      /\ y.objs = st.objs /\ y.err = st.err
  BY <1>5, <1>6, StateExcept DEF State
<1> HIDE DEF y
<1> DEFINE z0 == [st EXCEPT !.segs[e.segid].refs = @ - 1,
                            !.tbl[no] = [@ EXCEPT !.size = 0, !.flags = {}]]
<1>9a. Munmap(st, no, g) = IF z0.segs[e.segid].refs = 0
                           THEN Sfree(z0, e.segid, g[e.segid]) ELSE z0
  BY Zenon DEF Munmap, e
<1>9b. z0 = y /\ e.segid = sid
  BY <1>7, Zenon DEF e
<1> HIDE DEF z0
<1>9. Munmap(st, no, g) = IF s1[sid].refs = 0 THEN Sfree(y, sid, g[sid]) ELSE y
  BY <1>8, <1>9a, <1>9b
<1>10. CASE st.segs[sid].refs # 1
  <2>1. Munmap(st, no, g) = y
    BY <1>2, <1>6, <1>9, <1>10
  <2>2. QED
    BY <1>3, <1>4, <1>5, <1>8, <1>10, <2>1 DEF Munmaps
<1>11. CASE st.segs[sid].refs = 1
  <2> DEFINE z == Sfree(y, sid, g[sid])
             s2 == [s1 EXCEPT ![sid] = [s1[sid] EXCEPT !.base = 0, !.size = 0,
                                                       !.ino = NoFile]]
             os == IF s1[sid].ino = NoFile THEN st.objs
                   ELSE DropObject(st.objs, s1[sid].ino)
             h == AfterKfree(st.heap, s1[sid].base * Page, g[sid])
  <2>1. Munmap(st, no, g) = z
    BY <1>6, <1>9, <1>11
  <2>2. z = [y EXCEPT !.objs = os, !.heap = h, !.segs = s2]
    BY <1>8 DEF Sfree
  <2>3. /\ s1[sid].base = st.segs[sid].base /\ s1[sid].ino = st.segs[sid].ino
        /\ s1[sid].refs = 0 /\ Len(s1) = Len(st.segs) /\ s1[sid].flags = st.segs[sid].flags
        /\ \A k \in 1 .. Len(s1) : k # sid => s1[k] = st.segs[k]
    BY <1>3, <1>11 DEF Replaced
  <2>4. Replaced(s2, s1, sid, 0, 0, 0, NoFile)
    BY <1>6, <2>3, FreedReplaced
  <2>5. s2 \in Seq(Segment)
    BY <2>4 DEF Replaced
  <2>6. h \in Heaps
    BY <1>1, AfterKfreeIsHeap
  <2>7. os \in Caches
    BY <1>1, <2>3, DropObjectIsCache
  <2> HIDE DEF s2, h, os, z
  <2>8. /\ z \in State /\ z.segs = s2 /\ z.heap = h /\ z.objs = os
        /\ z.tbl = tbl /\ z.err = st.err
    BY <1>8, <2>2, <2>5, <2>6, <2>7, StateExcept DEF State
  <2>9. Replaced(s2, st.segs, sid, 0, 0, 0, NoFile)
    BY <2>3, <2>4 DEF Replaced
  <2>10. /\ h = AfterKfree(st.heap, st.segs[sid].base * Page, g[sid])
         /\ os = IF st.segs[sid].ino = NoFile THEN st.objs
                 ELSE DropObject(st.objs, st.segs[sid].ino)
    BY <2>3 DEF h, os
  <2>11. QED
    BY <1>4, <1>5, <1>11, <2>1, <2>8, <2>9, <2>10 DEF Munmaps
<1>12. QED
  BY <1>10, <1>11

LEMMA NonemptyCount ==
  ASSUME NEW S, IsFiniteSet(S), NEW x \in S
  PROVE  Cardinality(S) \in Nat /\ Cardinality(S) > 0
BY FS_CardinalityType, FS_EmptySet

LEMMA SegmentsAreFinite ==
  ASSUME NEW ss \in Seq(Segment), NEW f
  PROVE  IsFiniteSet(SegmentsOf(ss, f)) /\ Cardinality(SegmentsOf(ss, f)) \in Nat
<1>1. Len(ss) \in Nat /\ IsFiniteSet(1 .. Len(ss))
  BY FS_Interval
<1>2. SegmentsOf(ss, f) \in SUBSET (1 .. Len(ss))
  BY DEF SegmentsOf
<1>3. QED
  BY <1>1, <1>2, FS_Subset, FS_CardinalityType

\* The tables of a good state.
LEMMA GoodTables ==
  ASSUME NEW tabs \in Tables, NEW u \in DOMAIN tabs, NEW st, GoodState(st, tabs, u)
  PROVE  /\ st \in State
         /\ [tabs EXCEPT ![u] = st.tbl] \in Tables
         /\ DOMAIN [tabs EXCEPT ![u] = st.tbl] = DOMAIN tabs
         /\ [tabs EXCEPT ![u] = st.tbl][u] = st.tbl
         /\ DOMAIN tabs \subseteq 1 .. Len(st.segs) /\ IsFiniteSet(DOMAIN tabs)
         /\ \A no \in SegNos : Means(st.segs, st.tbl[no])
<1>1. st \in State /\ st.tbl \in Table /\ Len(st.segs) \in Nat
  BY StateFields DEF GoodState
<1>2. /\ [tabs EXCEPT ![u] = st.tbl] \in Tables
      /\ DOMAIN [tabs EXCEPT ![u] = st.tbl] = DOMAIN tabs
      /\ [tabs EXCEPT ![u] = st.tbl][u] = st.tbl
  BY <1>1, TablesExcept
<1>3. Meant(st.segs, [tabs EXCEPT ![u] = st.tbl])
  BY DEF GoodState, Good
<1>4. DOMAIN tabs \in SUBSET (1 .. Len(st.segs))
  BY <1>2, <1>3 DEF Meant
<1>4a. IsFiniteSet(1 .. Len(st.segs))
  BY <1>1, FS_Interval
<1>5. IsFiniteSet(DOMAIN tabs)
  BY <1>4, <1>4a, FS_Subset
<1>6. QED
  BY <1>1, <1>2, <1>3, <1>4, <1>5 DEF Meant

\* A VALID entry of a good state maps a segment that counts it.
LEMMA ValidMeans ==
  ASSUME NEW tabs \in Tables, NEW u \in DOMAIN tabs, NEW st, GoodState(st, tabs, u),
         NEW no \in SegNos, Valid(st.tbl[no])
  PROVE  LET sid == st.tbl[no].segid IN
         /\ sid \in 1 .. Len(st.segs)
         /\ st.segs[sid].refs > 0
         /\ st.segs[sid].base = 0 \/ st.segs[sid].ino # NoFile
         /\ st.segs[sid].ino \in DOMAIN st.objs \cup {NoFile}
         /\ \A f \in DOMAIN st.objs : st.segs[sid].ino = f => st.objs[f].refs > 0
<1> DEFINE sid == st.tbl[no].segid
           tt == [tabs EXCEPT ![u] = st.tbl]
<1>1. st \in State /\ IsFiniteSet(DOMAIN tabs) /\ tt[u] = st.tbl /\ DOMAIN tt = DOMAIN tabs
  BY GoodTables
<1>2. st.tbl[no] \in Entry /\ st.segs \in Seq(Segment) /\ Len(st.segs) \in Nat
  BY <1>1, StateFields
<1>3. Means(st.segs, st.tbl[no])
  BY GoodTables
<1>4. st.tbl[no].flags # {}
  BY DEF Valid
<1>5. sid \in 1 .. Len(st.segs) /\ (st.segs[sid].base = 0 \/ st.segs[sid].ino # NoFile)
  BY <1>2, <1>3, <1>4 DEF Means
<1>6. st.segs[sid].refs = Cardinality(MappingsIn(tt, sid)) + Held(st.segs[sid])
  BY <1>5 DEF GoodState, Good, RefsCounted
<1>7. <<u, no>> \in MappingsIn(tt, sid)
  BY <1>1 DEF MappingsIn
<1>8. Cardinality(MappingsIn(tt, sid)) \in Nat /\ Cardinality(MappingsIn(tt, sid)) > 0
  BY <1>1, <1>7, MappingsAreFinite, NonemptyCount
<1>9. Held(st.segs[sid]) \in {0, 1}
  BY DEF Held
<1>10. st.segs[sid].refs > 0
  BY <1>6, <1>8, <1>9
<1>11. ObjectsCounted(st.segs, st.objs)
  BY DEF GoodState, Good
<1>12. ASSUME NEW f \in DOMAIN st.objs, st.segs[sid].ino = f
       PROVE  st.objs[f].refs > 0
  <2>1. sid \in SegmentsOf(st.segs, f)
    BY <1>5, <1>12 DEF SegmentsOf
  <2>2. Cardinality(SegmentsOf(st.segs, f)) > 0
    BY <1>2, <2>1, SegmentsAreFinite, NonemptyCount
  <2>3. QED
    BY <1>11, <2>2 DEF ObjectsCounted
<1>13. QED
  BY <1>5, <1>10, <1>11, <1>12 DEF ObjectsCounted

\* A freed segment no longer counts for its object.
LEMMA SegmentsChange ==
  ASSUME NEW ss \in Seq(Segment), NEW next \in Seq(Segment), Len(next) = Len(ss),
         NEW sid \in 1 .. Len(ss),
         \A k \in 1 .. Len(ss) : k # sid => next[k].ino = ss[k].ino,
         next[sid].ino = NoFile, NEW f \in Files
  PROVE  Cardinality(SegmentsOf(next, f))
           = Cardinality(SegmentsOf(ss, f)) - (IF ss[sid].ino = f THEN 1 ELSE 0)
<1>1. SegmentsOf(next, f) = SegmentsOf(ss, f) \ {sid}
  BY Constants DEF SegmentsOf
<1>2. sid \in SegmentsOf(ss, f) <=> ss[sid].ino = f
  BY DEF SegmentsOf
<1>3. IsFiniteSet(SegmentsOf(ss, f)) /\ Cardinality(SegmentsOf(ss, f)) \in Nat
  BY SegmentsAreFinite
<1>4. Cardinality(SegmentsOf(ss, f) \ {sid})
        = IF sid \in SegmentsOf(ss, f) THEN Cardinality(SegmentsOf(ss, f)) - 1
          ELSE Cardinality(SegmentsOf(ss, f))
  BY <1>3, FS_RemoveElement
<1>5. QED
  BY <1>1, <1>2, <1>3, <1>4

LEMMA MunmapGood ==
  ASSUME NEW tabs \in Tables, NEW u \in DOMAIN tabs, NEW st, GoodState(st, tabs, u),
         NEW no \in SegNos, NEW g,
         Valid(st.tbl[no]) => g[st.tbl[no].segid] \in Benign
  PROVE  /\ GoodState(Munmap(st, no, g), tabs, u)
         /\ Valid(st.tbl[no]) =>
              Munmaps(Munmap(st, no, g), st, no, st.tbl[no].segid,
                      g[st.tbl[no].segid])
<1>1. CASE ~Valid(st.tbl[no])
  BY <1>1, MunmapIdle
<1>2. CASE Valid(st.tbl[no])
  <2> DEFINE x == Munmap(st, no, g)
             e == st.tbl[no]
             sid == e.segid
             ss == st.segs
             tt == [tabs EXCEPT ![u] = st.tbl]
             t2 == [tabs EXCEPT ![u] = x.tbl]
  <2>1. /\ sid \in 1 .. Len(ss) /\ ss[sid].refs > 0
        /\ ss[sid].base = 0 \/ ss[sid].ino # NoFile
        /\ ss[sid].ino \in DOMAIN st.objs \cup {NoFile}
        /\ \A f \in DOMAIN st.objs : ss[sid].ino = f => st.objs[f].refs > 0
    BY <1>2, ValidMeans
  <2>2. /\ st \in State /\ tt \in Tables /\ DOMAIN tt = DOMAIN tabs /\ tt[u] = st.tbl
        /\ IsFiniteSet(DOMAIN tabs) /\ DOMAIN tabs \subseteq 1 .. Len(ss)
        /\ \A k \in SegNos : Means(ss, st.tbl[k])
    BY GoodTables
  <2>3. x \in State /\ Munmaps(x, st, no, sid, g[sid])
    BY <1>2, <2>1, <2>2, MunmapDoes
  <2>4. /\ ss \in Seq(Segment) /\ Len(ss) \in Nat /\ st.heap \in Heaps
        /\ st.objs \in Caches
        /\ x.segs \in Seq(Segment) /\ x.tbl \in Table /\ x.heap \in Heaps
        /\ x.objs \in Caches
        /\ \A k \in SegNos : st.tbl[k] \in Entry /\ x.tbl[k] \in Entry
        /\ \A k \in 1 .. Len(ss) : ss[k] \in Segment
    BY <2>2, <2>3, StateFields
  <2>4a. ss[sid].refs \in Nat
    BY <2>1, <2>4, SegmentFields
  <2>5. g[sid] \in Benign
    BY <1>2
  <2>6. Tiled(st.heap) /\ Placed(st.heap, ss) /\ Meant(ss, tt) /\ RefsCounted(ss, tt)
        /\ ObjectsCounted(ss, st.objs)
    BY DEF GoodState, Good
  <2>7. /\ x.segs \in Seq(Segment) /\ Len(x.segs) = Len(ss)
        /\ \A k \in 1 .. Len(ss) : k # sid => x.segs[k] = ss[k]
        /\ x.segs[sid].refs = ss[sid].refs - 1
        /\ ss[sid].refs = 1 => x.segs[sid].base = 0 /\ x.segs[sid].size = 0
                               /\ x.segs[sid].ino = NoFile
        /\ ss[sid].refs # 1 => /\ x.segs[sid].base = ss[sid].base
                               /\ x.segs[sid].size = ss[sid].size
                               /\ x.segs[sid].ino = ss[sid].ino
    BY <2>3, <2>4a DEF Munmaps, Replaced
  <2>8. /\ \A k \in SegNos : k # no => x.tbl[k] = st.tbl[k]
        /\ x.tbl[no].flags = {} /\ x.tbl[no].segid = sid
    BY <2>3 DEF Munmaps
  <2>9. ss[sid].refs = 1 =>
          /\ x.heap = AfterKfree(st.heap, ss[sid].base * Page, g[sid])
          /\ x.objs = IF ss[sid].ino = NoFile THEN st.objs
                      ELSE DropObject(st.objs, ss[sid].ino)
    BY <2>3 DEF Munmaps
  <2>10. ss[sid].refs # 1 => x.heap = st.heap /\ x.objs = st.objs
    BY <2>3 DEF Munmaps
  <2>11. t2 \in Tables /\ DOMAIN t2 = DOMAIN tabs /\ t2[u] = x.tbl
         /\ t2 = [tt EXCEPT ![u] = x.tbl]
         /\ \A v \in DOMAIN tabs : v # u => t2[v] = tt[v]
    BY <2>2, <2>4, TablesExcept
  <2>12. ASSUME NEW k
         PROVE  Cardinality(MappingsIn(t2, k)) = Cardinality(MappingsIn(tt, k))
                                                 - (IF k = sid THEN 1 ELSE 0)
    <3>1. Cardinality(MappingsIn(t2, k))
            = Cardinality(MappingsIn(tt, k)) - (IF Hits(tt[u][no], k) THEN 1 ELSE 0)
              + (IF Hits(x.tbl[no], k) THEN 1 ELSE 0)
      <4>1. \A v \in DOMAIN tt, j \in SegNos : v # u \/ j # no => t2[v][j] = tt[v][j]
        BY <2>2, <2>8, <2>11
      <4>2. u \in DOMAIN tt /\ IsFiniteSet(DOMAIN tt) /\ DOMAIN t2 = DOMAIN tt
        BY <2>2, <2>11
      <4> HIDE DEF x, tt, t2, e, sid, ss
      <4>3. Cardinality(MappingsIn(t2, k))
            = Cardinality(MappingsIn(tt, k)) - (IF Hits(tt[u][no], k) THEN 1 ELSE 0)
              + (IF Hits(t2[u][no], k) THEN 1 ELSE 0)
        BY <4>1, <4>2, MappingsChange
      <4>4. QED
        BY <2>11, <4>3
    <3>2. Hits(tt[u][no], k) <=> k = sid
      BY <1>2, <2>2 DEF Hits
    <3>3. ~Hits(x.tbl[no], k)
      BY <2>8 DEF Hits, Valid
    <3>4. Cardinality(MappingsIn(tt, k)) \in Nat
      BY <2>2, MappingsAreFinite
    <3> HIDE DEF x, tt, t2, sid, e
    <3>5. QED
      BY <3>1, <3>2, <3>3, <3>4
  <2> HIDE DEF x, e, sid, ss, tt, t2
  <2>13. Tiled(x.heap) /\ Placed(x.heap, x.segs)
    <3>1. CASE ss[sid].refs # 1
      <4>1. \A k \in 1 .. Len(ss) : /\ x.segs[k].base = ss[k].base
                                    /\ x.segs[k].size = ss[k].size
                                    /\ x.segs[k].ino = ss[k].ino
        BY <2>7, <3>1
      <4>2. QED
        BY <2>6, <2>7, <2>10, <3>1, <4>1 DEF Placed
    <3>2. CASE ss[sid].refs = 1
      <4>1. ss[sid].base \in 0 .. Total - 1 /\ (ss[sid].base # 0 => st.heap.cell[ss[sid].base] > 0)
        <5>1. CASE ss[sid].base = 0
          BY <5>1, Constants
        <5>2. CASE ss[sid].base # 0
          <6>1. /\ ss[sid].base \in 1 .. Total - 1 /\ ss[sid].size > 0
                /\ st.heap.cell[ss[sid].base] = PagesFor(ss[sid].size)
            BY <2>1, <2>6, <5>2 DEF Placed
          <6>2. ss[sid].size \in Nat
            BY <2>1, <2>4, SegmentFields
          <6>3. PagesFor(ss[sid].size) > 0
            BY <6>1, <6>2, PagesForSome
          <6>4. QED
            BY <6>1, <6>3
        <5>3. QED
          BY <5>1, <5>2
      <4>2. /\ Tiled(x.heap)
            /\ \A j \in Pages : st.heap.cell[j] > 0 /\ j # ss[sid].base =>
                 x.heap.cell[j] = st.heap.cell[j]
        BY <2>4, <2>5, <2>6, <2>9, <3>2, <4>1, FreeBlock
      <4>3. ASSUME NEW s \in 1 .. Len(x.segs)
            PROVE  IF x.segs[s].base = 0 THEN x.segs[s].ino = NoFile
                   ELSE /\ x.segs[s].base \in 1 .. Total - 1 /\ x.segs[s].size > 0
                        /\ x.heap.cell[x.segs[s].base] = PagesFor(x.segs[s].size)
                        /\ \A t \in 1 .. Len(x.segs) :
                             x.segs[t].base = x.segs[s].base => s = t
        <5>1. CASE s = sid
          BY <2>7, <3>2, <5>1
        <5>2. CASE s # sid
          <6>1. x.segs[s] = ss[s] /\ s \in 1 .. Len(ss)
            BY <2>7, <5>2
          <6>2. CASE ss[s].base = 0
            BY <2>6, <6>1, <6>2 DEF Placed
          <6>3. CASE ss[s].base # 0
            <7>1. /\ ss[s].base \in 1 .. Total - 1 /\ ss[s].size > 0
                  /\ st.heap.cell[ss[s].base] = PagesFor(ss[s].size)
                  /\ \A t \in 1 .. Len(ss) : ss[t].base = ss[s].base => s = t
              BY <2>6, <6>1, <6>3 DEF Placed
            <7>2. ss[s].size \in Nat
              BY <2>4, <6>1, SegmentFields
            <7>3. PagesFor(ss[s].size) > 0
              BY <7>1, <7>2, PagesForSome
            <7>4. ss[s].base \in Pages /\ ss[s].base # ss[sid].base
              BY <2>1, <5>2, <7>1, Constants DEF Pages
            <7>5. x.heap.cell[ss[s].base] = st.heap.cell[ss[s].base]
              BY <4>2, <7>1, <7>3, <7>4
            <7>6. \A t \in 1 .. Len(x.segs) : x.segs[t].base = x.segs[s].base => s = t
              BY <2>7, <3>2, <6>1, <6>3, <7>1
            <7>7. QED
              BY <6>1, <7>1, <7>5, <7>6
          <6>4. QED
            BY <6>2, <6>3
        <5>3. QED
          BY <5>1, <5>2
      <4>4. QED
        BY <4>2, <4>3 DEF Placed
    <3>3. QED
      BY <3>1, <3>2
  <2>14. Meant(x.segs, t2)
    <3>1. DOMAIN t2 \subseteq 1 .. Len(x.segs)
      BY <2>2, <2>7, <2>11
    <3>2. ASSUME NEW v \in DOMAIN t2, NEW k \in SegNos
          PROVE  Means(x.segs, t2[v][k])
      <4>1. CASE v = u /\ k = no
        BY <2>1, <2>4, <2>7, <2>8, <2>11, <4>1 DEF Means
      <4>2. CASE ~(v = u /\ k = no)
        <5>1. t2[v][k] = tt[v][k] /\ v \in DOMAIN tt
          BY <2>2, <2>8, <2>11, <4>2
        <5>2. Means(ss, tt[v][k])
          BY <2>6, <5>1 DEF Meant
        <5>3. tt[v][k] \in Entry
          BY <2>2, <5>1 DEF Tables, Table
        <5> DEFINE d == tt[v][k]
        <5>4. d.segid \in 0 .. Len(x.segs)
          BY <2>7, <5>2 DEF Means
        <5>5. ASSUME d.flags # {}
              PROVE  /\ d.segid # 0
                     /\ IF Valid(d)
                        THEN x.segs[d.segid].base = 0 \/ x.segs[d.segid].ino # NoFile
                        ELSE /\ x.segs[d.segid].base # 0
                             /\ x.segs[d.segid].ino = NoFile
                             /\ d.base = x.segs[d.segid].base
                             /\ d.size = x.segs[d.segid].size
          BY <2>1, <2>7, <5>2, <5>5 DEF Means
        <5>6. Means(x.segs, d)
          BY <5>4, <5>5 DEF Means
        <5>7. QED
          BY <5>1, <5>6
      <4>3. QED
        BY <4>1, <4>2
    <3>3. QED
      BY <3>1, <3>2 DEF Meant
  <2>15. RefsCounted(x.segs, t2)
    <3>1. ASSUME NEW k \in 1 .. Len(ss)
          PROVE  x.segs[k].refs = Cardinality(MappingsIn(t2, k)) + Held(x.segs[k])
      <4>1. ss[k].refs = Cardinality(MappingsIn(tt, k)) + Held(ss[k])
        BY <2>6 DEF RefsCounted
      <4>2. Cardinality(MappingsIn(tt, k)) \in Nat
        BY <2>2, MappingsAreFinite
      <4>3. CASE k # sid
        BY <2>7, <2>12, <4>1, <4>2, <4>3
      <4>4. CASE k = sid
        <5>1. Held(ss[sid]) = 0
          BY <2>1 DEF Held
        <5>2. Held(x.segs[sid]) = 0
          BY <2>1, <2>7 DEF Held
        <5>3. QED
          BY <2>7, <2>12, <4>1, <4>2, <4>4, <5>1, <5>2
      <4>5. QED
        BY <4>3, <4>4
    <3>2. QED
      BY <2>7, <3>1 DEF RefsCounted
  <2>16. ObjectsCounted(x.segs, x.objs)
    <3>1. CASE ss[sid].refs # 1
      <4>1. \A k \in 1 .. Len(ss) : /\ x.segs[k].base = ss[k].base
                                    /\ x.segs[k].ino = ss[k].ino
        BY <2>7, <3>1
      <4>2. \A f : SegmentsOf(x.segs, f) = SegmentsOf(ss, f)
        BY <2>7, <4>1 DEF SegmentsOf
      <4>3. x.objs = st.objs
        BY <2>10, <3>1
      <4>4. QED
        BY <2>6, <2>7, <4>1, <4>2, <4>3 DEF ObjectsCounted
    <3>2. CASE ss[sid].refs = 1
      <4>1. x.segs[sid].ino = NoFile /\ x.segs[sid].base = 0
        BY <2>7, <3>2
      <4>2. \A f \in Files : Cardinality(SegmentsOf(x.segs, f))
              = Cardinality(SegmentsOf(ss, f)) - (IF ss[sid].ino = f THEN 1 ELSE 0)
        BY <2>1, <2>4, <2>7, <4>1, SegmentsChange
      <4>3. DOMAIN st.objs \subseteq Files
        BY <2>4 DEF Caches
      <4>4. \A f \in DOMAIN st.objs : Cardinality(SegmentsOf(ss, f)) \in Nat
        BY <2>4, SegmentsAreFinite
      <4>5. CASE ss[sid].ino = NoFile
        <5>1. x.objs = st.objs
          BY <2>9, <3>2, <4>5
        <5>2. \A f \in DOMAIN st.objs : ss[sid].ino # f
          BY <4>3, <4>5, Constants
        <5>3. \A f \in DOMAIN x.objs :
                 x.objs[f].refs = Cardinality(SegmentsOf(x.segs, f))
          BY <2>6, <4>2, <4>3, <4>4, <5>1, <5>2 DEF ObjectsCounted
        <5>4. QED
          BY <2>6, <2>7, <4>1, <5>1, <5>3 DEF ObjectsCounted
      <4>6. CASE ss[sid].ino # NoFile
        <5> DEFINE f0 == ss[sid].ino
        <5>1. f0 \in DOMAIN st.objs /\ st.objs[f0].refs > 0
          BY <2>1, <4>6
        <5>2. x.objs = DropObject(st.objs, f0)
          BY <2>9, <3>2, <4>6
        <5> HIDE DEF f0
        <5>2a. /\ IF st.objs[f0].refs = 1
                  THEN DOMAIN DropObject(st.objs, f0) = DOMAIN st.objs \ {f0}
                  ELSE /\ DOMAIN DropObject(st.objs, f0) = DOMAIN st.objs
                       /\ DropObject(st.objs, f0)[f0].refs = st.objs[f0].refs - 1
                       /\ DropObject(st.objs, f0)[f0].map = st.objs[f0].map
                       /\ DropObject(st.objs, f0)[f0].whole = st.objs[f0].whole
               /\ \A f \in DOMAIN st.objs \ {f0} : DropObject(st.objs, f0)[f] = st.objs[f]
          BY <2>4, <5>1, DropObjectIsCache
        <5>3. /\ IF st.objs[f0].refs = 1
                 THEN DOMAIN x.objs = DOMAIN st.objs \ {f0}
                 ELSE /\ DOMAIN x.objs = DOMAIN st.objs
                      /\ x.objs[f0].refs = st.objs[f0].refs - 1
                      /\ x.objs[f0].map = st.objs[f0].map
              /\ \A f \in DOMAIN st.objs \ {f0} : x.objs[f] = st.objs[f]
          BY <5>2, <5>2a
        <5>4. ASSUME NEW f \in DOMAIN x.objs
              PROVE  /\ f \in DOMAIN st.objs /\ x.objs[f].map = st.objs[f].map
                     /\ x.objs[f].refs = Cardinality(SegmentsOf(x.segs, f))
          <6>1. f \in DOMAIN st.objs /\ x.objs[f].map = st.objs[f].map
            BY <5>3
          <6>2. st.objs[f].refs = Cardinality(SegmentsOf(ss, f))
            BY <2>6, <6>1 DEF ObjectsCounted
          <6>3. CASE f = f0
            BY <4>2, <4>3, <4>4, <5>3, <6>1, <6>2, <6>3 DEF f0
          <6>4. CASE f # f0
            BY <4>2, <4>3, <4>4, <5>3, <6>1, <6>2, <6>4 DEF f0
          <6>5. QED
            BY <6>1, <6>3, <6>4
        <5>5. ASSUME NEW f \in DOMAIN x.objs
              PROVE  /\ IsFiniteSet(DOMAIN x.objs[f].map)
                     /\ \A n \in DOMAIN x.objs[f].map :
                          /\ x.objs[f].map[n] \in 1 .. Len(x.segs)
                          /\ x.segs[x.objs[f].map[n]].base = 0
                             \/ x.segs[x.objs[f].map[n]].ino = f
          <6>1. f \in DOMAIN st.objs /\ x.objs[f].map = st.objs[f].map
            BY <5>4
          <6>2. /\ IsFiniteSet(DOMAIN st.objs[f].map)
                /\ \A n \in DOMAIN st.objs[f].map :
                          /\ st.objs[f].map[n] \in 1 .. Len(ss)
                          /\ ss[st.objs[f].map[n]].base = 0
                             \/ ss[st.objs[f].map[n]].ino = f
            BY <2>6, <6>1 DEF ObjectsCounted
          <6>3. \A k \in 1 .. Len(ss) : ss[k].base = 0 \/ ss[k].ino = f =>
                   x.segs[k].base = 0 \/ x.segs[k].ino = f
            BY <2>7, <4>1
          <6>4. QED
            BY <2>7, <6>1, <6>2, <6>3
        <5>6. ASSUME NEW k \in 1 .. Len(x.segs)
              PROVE  x.segs[k].ino \in DOMAIN x.objs \cup {NoFile}
          <6>1. CASE k = sid
            BY <4>1, <6>1
          <6>2. CASE k # sid
            <7>1. x.segs[k] = ss[k] /\ k \in 1 .. Len(ss)
                  /\ ss[k].ino \in DOMAIN st.objs \cup {NoFile}
              BY <2>6, <2>7, <6>2 DEF ObjectsCounted
            <7>2. CASE ss[k].ino # f0 \/ st.objs[f0].refs # 1
              BY <5>1, <5>3, <7>1, <7>2
            <7>3. CASE ss[k].ino = f0 /\ st.objs[f0].refs = 1
              <8>1. Cardinality(SegmentsOf(x.segs, f0)) = 0
                <9>1. st.objs[f0].refs = Cardinality(SegmentsOf(ss, f0))
                  BY <2>6, <5>1 DEF ObjectsCounted
                <9>2. f0 \in Files
                  BY <4>3, <5>1
                <9>3. QED
                  BY <4>2, <7>3, <9>1, <9>2 DEF f0
              <8>2. SegmentsOf(x.segs, f0) = {}
                BY <2>4, <8>1, SegmentsAreFinite, FS_EmptySet
              <8>3. k \in SegmentsOf(x.segs, f0)
                BY <2>7, <7>1, <7>3 DEF SegmentsOf
              <8>4. QED
                BY <8>2, <8>3
            <7>4. QED
              BY <7>2, <7>3
          <6>3. QED
            BY <6>1, <6>2
        <5>7. QED
          BY <5>4, <5>5, <5>6 DEF ObjectsCounted
      <4>7. QED
        BY <4>5, <4>6
    <3>3. QED
      BY <3>1, <3>2
  <2>17. GoodState(x, tabs, u)
    BY <2>3, <2>13, <2>14, <2>15, <2>16 DEF GoodState, Good, t2
  <2>18. QED
    BY <2>3, <2>17 DEF x, e, sid
<1>3. QED
  BY <1>1, <1>2

-----------------------------------------------------------------------------
(* mmap *)

LEMMA ThrowState ==
  ASSUME NEW st \in State, NEW errno \in Errnos
  PROVE  /\ Throw(st, errno) \in State /\ Throw(st, errno).err = errno
         /\ Throw(st, errno).heap = st.heap /\ Throw(st, errno).segs = st.segs
         /\ Throw(st, errno).objs = st.objs /\ Throw(st, errno).tbl = st.tbl
BY StateExcept DEF Throw, State

LEMMA ThrowGood ==
  ASSUME NEW tabs, NEW u, NEW st, GoodState(st, tabs, u), NEW errno \in Errnos
  PROVE  GoodState(Throw(st, errno), tabs, u)
BY ThrowState DEF GoodState

\* Segment sid has been mapped at entry no.
Mmaps(x, st, sid, no) ==
  /\ x.heap = st.heap /\ x.objs = st.objs /\ x.err = st.err
  /\ Replaced(x.segs, st.segs, sid, st.segs[sid].refs + 1, st.segs[sid].base,
              st.segs[sid].size, st.segs[sid].ino)
  /\ x.tbl \in Table
  /\ \A k \in SegNos : k # no => x.tbl[k] = st.tbl[k]
  /\ x.tbl[no] = [segid |-> sid, base |-> st.segs[sid].base,
                  size |-> st.segs[sid].size, flags |-> st.segs[sid].flags \cup {"VALID"}]

LEMMA MmapDoes ==
  ASSUME NEW st \in State, NEW no \in SegNos, NEW g, ~Valid(st.tbl[no]),
         NEW sid \in 1 .. Len(st.segs), st.err = "ok"
  PROVE  Mmap(st, sid, no, g) \in State /\ Mmaps(Mmap(st, sid, no, g), st, sid, no)
<1> DEFINE s == st.segs[sid]
           e == [segid |-> sid, base |-> s.base, size |-> s.size,
                 flags |-> s.flags \cup {"VALID"}]
           s1 == [st.segs EXCEPT ![sid] = [st.segs[sid] EXCEPT !.refs = st.segs[sid].refs + 1]]
           tbl == [st.tbl EXCEPT ![no] = e]
           y == [st EXCEPT !.segs = s1, !.tbl = tbl]
<1>1. /\ st.segs \in Seq(Segment) /\ st.tbl \in Table /\ s \in Segment
  BY StateFields
<1>2. /\ s.refs + 1 \in Nat /\ e \in Entry
  BY <1>1, SegmentFields DEF Entry, Flag
<1>3. Replaced(s1, st.segs, sid, s.refs + 1, s.base, s.size, s.ino)
  BY <1>1, <1>2, RefsReplaced
<1>4. Mmap(st, sid, no, g)
        = [st EXCEPT !.segs[sid].refs = @ + 1, !.tbl[no] = e]
  BY MunmapIdle, Zenon DEF Mmap
<1>5. [st EXCEPT !.segs[sid].refs = @ + 1, !.tbl[no] = e] = y
  OBVIOUS
<1> HIDE DEF e
<1>6. tbl \in Table /\ tbl[no] = e /\ \A k \in SegNos : k # no => tbl[k] = st.tbl[k]
  BY <1>1, <1>2 DEF Table
<1>7. s1 \in Seq(Segment)
  BY <1>3 DEF Replaced
<1> HIDE DEF s1, tbl
<1>8. /\ y \in State /\ y.segs = s1 /\ y.tbl = tbl /\ y.heap = st.heap
      /\ y.objs = st.objs /\ y.err = st.err
  BY <1>6, <1>7, StateExcept DEF State
<1> HIDE DEF y
<1>9. QED
  BY <1>3, <1>4, <1>5, <1>6, <1>8 DEF Mmaps, e

\* Segments that keep their place and file: nothing else of a good state depends
\* on the counts.
SamePlaces(next, ss) ==
  /\ next \in Seq(Segment) /\ Len(next) = Len(ss)
  /\ \A k \in 1 .. Len(ss) : /\ next[k].base = ss[k].base
                             /\ next[k].size = ss[k].size
                             /\ next[k].ino = ss[k].ino

LEMMA PlacesKept ==
  ASSUME NEW h, NEW ss, NEW os, NEW tabs, NEW next, SamePlaces(next, ss),
         Len(ss) \in Nat, Placed(h, ss), ObjectsCounted(ss, os)
  PROVE  /\ Placed(h, next) /\ ObjectsCounted(next, os)
         /\ \A e \in Entry : Means(ss, e) => Means(next, e)
<1>1. Placed(h, next)
  BY DEF Placed, SamePlaces
<1>2. \A f : SegmentsOf(next, f) = SegmentsOf(ss, f)
  BY DEF SegmentsOf, SamePlaces
<1>3. ObjectsCounted(next, os)
  BY <1>2 DEF ObjectsCounted, SamePlaces
<1>4. \A e \in Entry : Means(ss, e) => Means(next, e)
  BY EntryFields DEF Means, SamePlaces
<1>5. QED
  BY <1>1, <1>3, <1>4

LEMMA ReplacedRefsKeepPlaces ==
  ASSUME NEW ss, NEW next, NEW sid \in 1 .. Len(ss), NEW refs,
         Replaced(next, ss, sid, refs, ss[sid].base, ss[sid].size, ss[sid].ino)
  PROVE  SamePlaces(next, ss)
BY DEF Replaced, SamePlaces

LEMMA MmapGood ==
  ASSUME NEW tabs \in Tables, NEW u \in DOMAIN tabs, NEW st, GoodState(st, tabs, u),
         NEW no \in SegNos, NEW g, ~Valid(st.tbl[no]), st.err = "ok",
         NEW sid \in 1 .. Len(st.segs),
         st.segs[sid].base = 0 \/ st.segs[sid].ino # NoFile
  PROVE  GoodState(Mmap(st, sid, no, g), tabs, u)
<1> DEFINE x == Mmap(st, sid, no, g)
           ss == st.segs
           tt == [tabs EXCEPT ![u] = st.tbl]
           t2 == [tabs EXCEPT ![u] = x.tbl]
<1>1. /\ st \in State /\ tt \in Tables /\ DOMAIN tt = DOMAIN tabs /\ tt[u] = st.tbl
      /\ IsFiniteSet(DOMAIN tabs) /\ DOMAIN tabs \subseteq 1 .. Len(ss)
  BY GoodTables
<1>2. x \in State /\ Mmaps(x, st, sid, no)
  BY <1>1, MmapDoes
<1>3. /\ ss \in Seq(Segment) /\ Len(ss) \in Nat
      /\ x.tbl \in Table /\ x.segs \in Seq(Segment)
      /\ \A k \in SegNos : x.tbl[k] \in Entry
  BY <1>1, <1>2, StateFields
<1>4. Tiled(st.heap) /\ Placed(st.heap, ss) /\ Meant(ss, tt) /\ RefsCounted(ss, tt)
      /\ ObjectsCounted(ss, st.objs)
  BY DEF GoodState, Good
<1>5. /\ x.heap = st.heap /\ x.objs = st.objs
      /\ \A k \in SegNos : k # no => x.tbl[k] = st.tbl[k]
      /\ x.tbl[no].segid = sid /\ "VALID" \in x.tbl[no].flags
  BY <1>2 DEF Mmaps
<1>6. /\ SamePlaces(x.segs, ss)
      /\ x.segs[sid].refs = ss[sid].refs + 1
      /\ \A k \in 1 .. Len(ss) : k # sid => x.segs[k] = ss[k]
  BY <1>2, ReplacedRefsKeepPlaces DEF Mmaps, Replaced
<1>7. t2 \in Tables /\ DOMAIN t2 = DOMAIN tabs /\ t2[u] = x.tbl
      /\ \A v \in DOMAIN tabs : v # u => t2[v] = tt[v]
  BY <1>1, <1>3, TablesExcept
<1> HIDE DEF x, ss, tt, t2
<1>8. /\ Placed(x.heap, x.segs) /\ ObjectsCounted(x.segs, x.objs)
      /\ \A e \in Entry : Means(ss, e) => Means(x.segs, e)
  BY <1>3, <1>4, <1>5, <1>6, PlacesKept
<1>9. Meant(x.segs, t2)
  <2>1. DOMAIN t2 \subseteq 1 .. Len(x.segs)
    BY <1>1, <1>6, <1>7 DEF SamePlaces
  <2>2. ASSUME NEW v \in DOMAIN t2, NEW k \in SegNos
        PROVE  Means(x.segs, t2[v][k])
    <3>1. CASE v = u /\ k = no
      <4>1. sid \in 0 .. Len(x.segs) /\ sid # 0
            /\ (x.segs[sid].base = 0 \/ x.segs[sid].ino # NoFile)
        BY <1>3, <1>6 DEF SamePlaces, ss
      <4>2. QED
        BY <1>5, <1>7, <3>1, <4>1 DEF Means, Valid
    <3>2. CASE ~(v = u /\ k = no)
      <4>1. t2[v][k] = tt[v][k] /\ v \in DOMAIN tt
        BY <1>1, <1>5, <1>7, <3>2
      <4>2. Means(ss, tt[v][k])
        BY <1>4, <4>1 DEF Meant
      <4>3. tt[v][k] \in Entry
        BY <1>1, <4>1 DEF Tables, Table
      <4>4. QED
        BY <1>8, <4>1, <4>2, <4>3
    <3>3. QED
      BY <3>1, <3>2
  <2>3. QED
    BY <2>1, <2>2 DEF Meant
<1>10. RefsCounted(x.segs, t2)
  <2>1. ASSUME NEW k \in 1 .. Len(ss)
        PROVE  x.segs[k].refs = Cardinality(MappingsIn(t2, k)) + Held(x.segs[k])
    <3>1. \A v \in DOMAIN tt, j \in SegNos : v # u \/ j # no => t2[v][j] = tt[v][j]
      BY <1>1, <1>5, <1>7
    <3>2. u \in DOMAIN tt /\ IsFiniteSet(DOMAIN tt) /\ DOMAIN t2 = DOMAIN tt
      BY <1>1, <1>7
    <3>3. Cardinality(MappingsIn(t2, k))
            = Cardinality(MappingsIn(tt, k)) - (IF Hits(tt[u][no], k) THEN 1 ELSE 0)
              + (IF Hits(t2[u][no], k) THEN 1 ELSE 0)
      BY <3>1, <3>2, MappingsChange
    <3>4. ~Hits(tt[u][no], k)
      BY <1>1 DEF Hits
    <3>5. Hits(t2[u][no], k) <=> k = sid
      BY <1>5, <1>7 DEF Hits, Valid
    <3>6. Cardinality(MappingsIn(tt, k)) \in Nat
      BY <3>2, MappingsAreFinite
    <3>7. ss[k].refs = Cardinality(MappingsIn(tt, k)) + Held(ss[k])
      BY <1>4 DEF RefsCounted
    <3>8. Held(x.segs[k]) = Held(ss[k]) /\ Held(ss[k]) \in {0, 1}
      BY <1>6 DEF Held, SamePlaces
    <3>9. QED
      BY <1>6, <3>3, <3>4, <3>5, <3>6, <3>7, <3>8
  <2>2. QED
    BY <1>6, <2>1 DEF RefsCounted, SamePlaces
<1>11. GoodState(x, tabs, u)
  BY <1>2, <1>4, <1>5, <1>8, <1>9, <1>10 DEF GoodState, Good, t2
<1>12. QED
  BY <1>11 DEF x

-----------------------------------------------------------------------------
(* freesegs *)

\* What a release of segments leaves of the others, and of the cache.
Released(x, st) ==
  /\ Len(x.segs) = Len(st.segs)
  /\ \A k \in 1 .. Len(st.segs) :
       /\ x.segs[k].refs <= st.segs[k].refs
       /\ IF x.segs[k].refs = 0 /\ st.segs[k].refs > 0
          THEN x.segs[k].base = 0 /\ x.segs[k].ino = NoFile
          ELSE /\ x.segs[k].base = st.segs[k].base
               /\ x.segs[k].size = st.segs[k].size
               /\ x.segs[k].ino = st.segs[k].ino
  /\ DOMAIN x.objs \subseteq DOMAIN st.objs
  /\ \A f \in DOMAIN x.objs :
       /\ x.objs[f].map = st.objs[f].map /\ x.objs[f].whole = st.objs[f].whole
       /\ st.objs[f].refs > 0 => x.objs[f].refs > 0

\* The entries of s are unmapped, the others untouched.
Freed(x, st, s, tabs, u) ==
  /\ GoodState(x, tabs, u) /\ x.err = st.err
  /\ \A no \in s :
       ~Valid(x.tbl[no]) /\ (x.tbl[no].flags = {} \/ x.tbl[no] = st.tbl[no])
  /\ \A no \in SegNos \ s : x.tbl[no] = st.tbl[no]
  /\ Released(x, st)

LEMMA NothingReleased ==
  ASSUME NEW st \in State
  PROVE  Released(st, st)
<1>1. \A k \in 1 .. Len(st.segs) : st.segs[k].refs \in Nat
  BY StateFields, SegmentFields
<1>2. QED
  BY <1>1 DEF Released

LEMMA MunmapReleases ==
  ASSUME NEW st \in State, NEW x \in State, NEW y \in State, Released(x, st),
         NEW no, NEW sid \in 1 .. Len(x.segs), NEW g, Munmaps(y, x, no, sid, g),
         x.segs[sid].refs > 0,
         x.segs[sid].ino \in DOMAIN x.objs \cup {NoFile},
         \A f \in DOMAIN x.objs : x.segs[sid].ino = f => x.objs[f].refs > 0
  PROVE  Released(y, st)
<1>1. /\ x.segs \in Seq(Segment) /\ y.segs \in Seq(Segment) /\ st.segs \in Seq(Segment)
      /\ x.objs \in Caches /\ y.objs \in Caches /\ st.objs \in Caches
      /\ Len(x.segs) = Len(st.segs) /\ Len(st.segs) \in Nat
  BY StateFields DEF Released
<1>2. \A k \in 1 .. Len(st.segs) : /\ st.segs[k].refs \in Nat /\ x.segs[k].refs \in Nat
                                   /\ y.segs[k].refs \in Nat
  BY <1>1, StateFields, SegmentFields, Len(y.segs) = Len(x.segs) DEF Munmaps, Replaced
<1>3. /\ Len(y.segs) = Len(x.segs)
      /\ \A k \in 1 .. Len(x.segs) : k # sid => y.segs[k] = x.segs[k]
      /\ y.segs[sid].refs = x.segs[sid].refs - 1
      /\ x.segs[sid].refs = 1 => y.segs[sid].base = 0 /\ y.segs[sid].ino = NoFile
      /\ x.segs[sid].refs # 1 => /\ y.segs[sid].base = x.segs[sid].base
                                 /\ y.segs[sid].size = x.segs[sid].size
                                 /\ y.segs[sid].ino = x.segs[sid].ino
  BY <1>1, <1>2 DEF Munmaps, Replaced
<1>4. ASSUME NEW k \in 1 .. Len(st.segs)
      PROVE  /\ y.segs[k].refs <= st.segs[k].refs
             /\ IF y.segs[k].refs = 0 /\ st.segs[k].refs > 0
                THEN y.segs[k].base = 0 /\ y.segs[k].ino = NoFile
                ELSE /\ y.segs[k].base = st.segs[k].base
                     /\ y.segs[k].size = st.segs[k].size
                     /\ y.segs[k].ino = st.segs[k].ino
  <2>1. /\ x.segs[k].refs <= st.segs[k].refs
        /\ IF x.segs[k].refs = 0 /\ st.segs[k].refs > 0
           THEN x.segs[k].base = 0 /\ x.segs[k].ino = NoFile
           ELSE /\ x.segs[k].base = st.segs[k].base
                /\ x.segs[k].size = st.segs[k].size
                /\ x.segs[k].ino = st.segs[k].ino
    BY DEF Released
  <2>2. CASE k # sid
    BY <1>1, <1>3, <2>1, <2>2
  <2>3. CASE k = sid
    BY <1>1, <1>2, <1>3, <2>1, <2>3
  <2>4. QED
    BY <2>2, <2>3
<1>5. /\ DOMAIN y.objs \subseteq DOMAIN x.objs
      /\ \A f \in DOMAIN y.objs :
           /\ y.objs[f].map = x.objs[f].map /\ y.objs[f].whole = x.objs[f].whole
           /\ x.objs[f].refs > 0 => y.objs[f].refs > 0
  <2>1. CASE y.objs = x.objs
    BY <2>1
  <2>2. CASE y.objs # x.objs
    <3> DEFINE f0 == x.segs[sid].ino
    <3>1. y.objs = DropObject(x.objs, f0) /\ f0 # NoFile
      BY <2>2 DEF Munmaps
    <3>2. f0 \in DOMAIN x.objs /\ x.objs[f0].refs > 0
      BY <3>1
    <3> HIDE DEF f0
    <3>3. x.objs[f0].refs \in Nat
      BY <1>1, <3>2 DEF Caches, Loaded
    <3>4. /\ IF x.objs[f0].refs = 1
             THEN DOMAIN DropObject(x.objs, f0) = DOMAIN x.objs \ {f0}
             ELSE /\ DOMAIN DropObject(x.objs, f0) = DOMAIN x.objs
                  /\ DropObject(x.objs, f0)[f0].refs = x.objs[f0].refs - 1
                  /\ DropObject(x.objs, f0)[f0].map = x.objs[f0].map
                  /\ DropObject(x.objs, f0)[f0].whole = x.objs[f0].whole
          /\ \A f \in DOMAIN x.objs \ {f0} : DropObject(x.objs, f0)[f] = x.objs[f]
      BY <1>1, <3>2, DropObjectIsCache
    <3>5. QED
      BY <3>1, <3>2, <3>3, <3>4
  <2>3. QED
    BY <2>1, <2>2
<1>6. /\ DOMAIN y.objs \subseteq DOMAIN st.objs
      /\ \A f \in DOMAIN y.objs :
           /\ y.objs[f].map = st.objs[f].map /\ y.objs[f].whole = st.objs[f].whole
           /\ st.objs[f].refs > 0 => y.objs[f].refs > 0
  BY <1>5 DEF Released
<1>7. QED
  BY <1>1, <1>3, <1>4, <1>6 DEF Released

\* One step of the loop.
LEMMA FreedStep ==
  ASSUME NEW tabs \in Tables, NEW u \in DOMAIN tabs, NEW st \in State,
         NEW s \in SUBSET SegNos, NEW x, Freed(x, st, s, tabs, u),
         NEW no \in SegNos \ s, NEW g,
         \A k \in SegNos : Valid(st.tbl[k]) => g[st.tbl[k].segid] \in Benign
  PROVE  Freed(Munmap(x, no, g), st, s \cup {no}, tabs, u)
<1> DEFINE y == Munmap(x, no, g)
<1>1. x \in State /\ GoodState(x, tabs, u) /\ x.tbl[no] = st.tbl[no]
  BY GoodTables DEF Freed
<1>2. CASE ~Valid(x.tbl[no])
  <2>1. y = x
    BY <1>2, MunmapIdle
  <2>2. QED
    BY <1>2, <2>1 DEF Freed
<1>3. CASE Valid(x.tbl[no])
  <2> DEFINE sid == x.tbl[no].segid
  <2>1. g[sid] \in Benign
    BY <1>1, <1>3
  <2>2. GoodState(y, tabs, u) /\ Munmaps(y, x, no, sid, g[sid])
    BY <1>1, <1>3, <2>1, MunmapGood
  <2>3. /\ sid \in 1 .. Len(x.segs) /\ x.segs[sid].refs > 0
        /\ x.segs[sid].ino \in DOMAIN x.objs \cup {NoFile}
        /\ \A f \in DOMAIN x.objs : x.segs[sid].ino = f => x.objs[f].refs > 0
    BY <1>1, <1>3, ValidMeans
  <2> HIDE DEF y, sid
  <2>4. y \in State
    BY <2>2 DEF GoodState
  <2>5. Released(y, st)
    BY <1>1, <2>2, <2>3, <2>4, MunmapReleases DEF Freed
  <2>6. /\ y.err = x.err /\ y.tbl[no].flags = {}
        /\ \A k \in SegNos : k # no => y.tbl[k] = x.tbl[k]
    BY <2>2 DEF Munmaps
  <2>7. Freed(y, st, s \cup {no}, tabs, u)
    BY <2>2, <2>5, <2>6 DEF Freed, Valid
  <2>8. QED
    BY <2>7 DEF y
<1>4. QED
  BY <1>2, <1>3

\* Any function that takes those steps frees every set of entries.
LEMMA FreedAlong ==
  ASSUME NEW tabs \in Tables, NEW u \in DOMAIN tabs, NEW st, GoodState(st, tabs, u),
         NEW g, \A k \in SegNos : Valid(st.tbl[k]) => g[st.tbl[k].segid] \in Benign,
         NEW S \in SUBSET SegNos, NEW it, it[{}] = st,
         \A s \in SUBSET S : s # {} /\ it[s \ {Max(s)}] \in State =>
            it[s] = Munmap(it[s \ {Max(s)}], Max(s), g)
  PROVE  \A s \in SUBSET S : Freed(it[s], st, s, tabs, u)
<1> DEFINE good == {s \in SUBSET S : Freed(it[s], st, s, tabs, u)}
<1>0. SegNos \in SUBSET Nat /\ IsFiniteSet(SegNos)
  BY Constants
<1>1. IsFiniteSet(S) /\ S \in SUBSET Int
  <2>1. S \in SUBSET Int
    BY <1>0
  <2>2. IsFiniteSet(S)
    BY <1>0, FS_Subset
  <2>3. QED
    BY <2>1, <2>2
<1>2. st \in State
  BY DEF GoodState
<1>3. {} \in good
  BY <1>2, NothingReleased DEF Freed
<1>4. ASSUME NEW s \in SUBSET S, s # {} /\ s \ {Max(s)} \in good
      PROVE  s \in good
  <2> DEFINE m == Max(s)
  <2>1. m \in s
    BY <1>1, <1>4, MaxIsLargest, FS_Subset
  <2>2. Freed(it[s \ {m}], st, s \ {m}, tabs, u)
    BY <1>4
  <2>3. it[s \ {m}] \in State
    BY <2>2 DEF Freed, GoodState
  <2>4. it[s] = Munmap(it[s \ {m}], m, g)
    BY <1>4, <2>3
  <2> HIDE DEF m
  <2>5. m \in SegNos \ (s \ {m}) /\ s \ {m} \in SUBSET SegNos /\ (s \ {m}) \cup {m} = s
    BY <2>1
  <2>6. Freed(Munmap(it[s \ {m}], m, g), st, (s \ {m}) \cup {m}, tabs, u)
    BY <1>2, <2>2, <2>5, FreedStep
  <2>7. QED
    BY <2>4, <2>5, <2>6
<1> HIDE DEF good
<1>5. \A s \in SUBSET S : s \in good
  BY <1>1, <1>3, <1>4, FoldInduction
<1>6. QED
  BY <1>5 DEF good

LEMMA FreeSegsFrees ==
  ASSUME NEW tabs \in Tables, NEW u \in DOMAIN tabs, NEW st, GoodState(st, tabs, u),
         NEW g, \A k \in SegNos : Valid(st.tbl[k]) => g[st.tbl[k].segid] \in Benign
  PROVE  Freed(FreeSegs(st, g), st, SegNos \ {Uarea}, tabs, u)
<1> DEFINE S == SegNos \ {Uarea}
           E(it) == it = [s \in SUBSET S |->
                            IF s = {} THEN st
                            ELSE Munmap(it[s \ {Max(s)}], Max(s), g)]
           G == [p \in State \X SegNos |-> Munmap(p[1], p[2], g)]
<1>1. S \in SUBSET SegNos /\ S \in SUBSET Int /\ IsFiniteSet(S)
  BY Constants, FS_Subset
<1> HIDE DEF S, G
<1>2. PICK it : FoldsWith(it, S, st, G)
  BY <1>1, FoldExists
<1>2a. /\ it = [s \in SUBSET S |-> it[s]]
       /\ it[{}] = st
       /\ \A s \in SUBSET S : s # {} => it[s] = G[<<it[s \ {Max(s)}], Max(s)>>]
  BY <1>2, Zenon DEF FoldsWith
<1>3. \A s \in SUBSET S : s # {} => Max(s) \in SegNos
  BY <1>1, MaxIsLargest, FS_Subset
<1>4. \A s \in SUBSET S : s # {} /\ it[s \ {Max(s)}] \in State =>
        it[s] = Munmap(it[s \ {Max(s)}], Max(s), g)
  BY <1>2a, <1>3 DEF G
<1>5. it[{}] = st
  BY <1>2a
<1>6. \A s \in SUBSET S : Freed(it[s], st, s, tabs, u)
  BY <1>1, <1>4, <1>5, FreedAlong
<1>7. \A s \in SUBSET S : it[s] \in State
  BY <1>6 DEF Freed, GoodState
<1>8. E(it)
  <2>1. \A s \in SUBSET S : it[s] = IF s = {} THEN st
                                    ELSE Munmap(it[s \ {Max(s)}], Max(s), g)
    BY <1>4, <1>5, <1>7
  <2>2. QED
    BY <1>2a, <2>1, Zenon
<1> DEFINE chosen == CHOOSE f : E(f)
<1>9. E(chosen)
  <2> HIDE DEF E
  <2>1. QED
    BY <1>8
<1>10. FreeSegs(st, g) = chosen[S]
  BY Zenon DEF FreeSegs, Ascending, MapThenFoldSet, S
<1> HIDE DEF chosen
<1>11. Freed(chosen[S], st, S, tabs, u)
  <2>1. chosen[{}] = st
    BY <1>9
  <2>2. \A s \in SUBSET S : s # {} /\ chosen[s \ {Max(s)}] \in State =>
          chosen[s] = Munmap(chosen[s \ {Max(s)}], Max(s), g)
    BY <1>9
  <2>3. \A s \in SUBSET S : Freed(chosen[s], st, s, tabs, u)
    BY <1>1, <2>1, <2>2, FreedAlong
  <2>4. QED
    BY <2>3
<1>12. QED
  BY <1>10, <1>11 DEF S

-----------------------------------------------------------------------------
(* salloc *)

\* next is ss with one more segment, live at pf.
Appended(next, ss, refs, pf, size, ino) ==
  /\ next \in Seq(Segment) /\ Len(next) = Len(ss) + 1
  /\ \A k \in 1 .. Len(ss) : next[k] = ss[k]
  /\ next[Len(ss) + 1].refs = refs /\ next[Len(ss) + 1].base = pf
  /\ next[Len(ss) + 1].size = size /\ next[Len(ss) + 1].ino = ino

LEMMA AppendAppends ==
  ASSUME NEW ss \in Seq(Segment), NEW s \in Segment
  PROVE  Appended(Append(ss, s), ss, s.refs, s.base, s.size, s.ino)
BY DEF Appended

\* The new segment is mapped by nobody; the old ones are where they were.
LEMMA AppendKeeps ==
  ASSUME NEW h \in Heaps, Tiled(h), NEW ss \in Seq(Segment), NEW tabs \in Tables,
         Placed(h, ss), Meant(ss, tabs), RefsCounted(ss, tabs),
         NEW bytes \in Nat \ {0}, HasRoom(h, bytes),
         NEW pf, pf = Place(h, PagesFor(bytes)),
         NEW h2, h2 = WithBlock(h, PagesFor(bytes), pf),
         NEW next, NEW refs, NEW ino, Appended(next, ss, refs, pf, bytes, ino)
  PROVE  /\ h2 \in Heaps /\ Tiled(h2) /\ pf # 0
         /\ Placed(h2, next) /\ Meant(next, tabs)
         /\ \A sid \in 1 .. Len(ss) :
              next[sid].refs = Cardinality(MappingsIn(tabs, sid)) + Held(next[sid])
         /\ Cardinality(MappingsIn(tabs, Len(ss) + 1)) = 0
<1>1. /\ pf \in 1 .. Total - 1 /\ h2 \in Heaps /\ Tiled(h2)
      /\ h2.cell[pf] = PagesFor(bytes)
      /\ \A j \in Pages : h.cell[j] > 0 => j # pf /\ h2.cell[j] = h.cell[j]
  BY NewBlock
<1>2. /\ Len(ss) \in Nat /\ Len(next) = Len(ss) + 1
      /\ \A k \in 1 .. Len(ss) : next[k] = ss[k]
      /\ next[Len(ss) + 1].refs = refs /\ next[Len(ss) + 1].base = pf
      /\ next[Len(ss) + 1].size = bytes /\ next[Len(ss) + 1].ino = ino
  BY DEF Appended
<1>2a. next[Len(next)].base = pf /\ next[Len(next)].size = bytes
  BY <1>2
<1>2b. \A k \in 1 .. Len(next) : k # Len(next) => k \in 1 .. Len(ss)
  BY <1>2
<1>3. Placed(h2, next)
  <2>1. ASSUME NEW s \in 1 .. Len(ss), ss[s].base # 0
        PROVE  /\ ss[s].base \in 1 .. Total - 1 /\ ss[s].base # pf
               /\ h2.cell[ss[s].base] = PagesFor(ss[s].size)
    <3>1. /\ ss[s].base \in 1 .. Total - 1 /\ ss[s].size > 0
          /\ h.cell[ss[s].base] = PagesFor(ss[s].size)
      BY <2>1 DEF Placed
    <3>2. ss[s].size \in Nat
      BY SegmentFields
    <3>3. PagesFor(ss[s].size) > 0
      BY <3>1, <3>2, PagesForSome
    <3>4. ss[s].base \in Pages
      BY <3>1, Constants DEF Pages
    <3>5. QED
      BY <1>1, <3>1, <3>3, <3>4
  <2>2. ASSUME NEW s \in 1 .. Len(next)
        PROVE  IF next[s].base = 0 THEN next[s].ino = NoFile
               ELSE /\ next[s].base \in 1 .. Total - 1 /\ next[s].size > 0
                    /\ h2.cell[next[s].base] = PagesFor(next[s].size)
                    /\ \A t \in 1 .. Len(next) : next[t].base = next[s].base => s = t
    <3>1. CASE s = Len(next)
      BY <1>1, <1>2, <1>2a, <1>2b, <2>1, <3>1
    <3>2. CASE s # Len(next)
      <4>1. s \in 1 .. Len(ss) /\ next[s] = ss[s]
        BY <1>2, <1>2b, <3>2
      <4>2. CASE ss[s].base = 0
        BY <4>1, <4>2 DEF Placed
      <4>3. CASE ss[s].base # 0
        <5>1. /\ ss[s].base \in 1 .. Total - 1 /\ ss[s].size > 0 /\ ss[s].base # pf
              /\ h2.cell[ss[s].base] = PagesFor(ss[s].size)
              /\ \A t \in 1 .. Len(ss) : ss[t].base = ss[s].base => s = t
          BY <2>1, <4>1, <4>3 DEF Placed
        <5>2. \A t \in 1 .. Len(next) : next[t].base = next[s].base => s = t
          BY <1>2, <1>2a, <1>2b, <4>1, <5>1
        <5>3. QED
          BY <4>1, <4>3, <5>1, <5>2
      <4>4. QED
        BY <4>2, <4>3
    <3>3. QED
      BY <3>1, <3>2
  <2>3. QED
    BY <2>2 DEF Placed
<1>4. Meant(next, tabs)
  <2>1. ASSUME NEW e \in Entry, Means(ss, e)
        PROVE  Means(next, e)
    <3>1. e.segid \in 0 .. Len(next)
      BY <1>2, <2>1 DEF Means
    <3>2. e.flags # {} => e.segid \in 1 .. Len(ss) /\ next[e.segid] = ss[e.segid]
      BY <1>2, <2>1 DEF Means
    <3>3. QED
      BY <2>1, <3>1, <3>2 DEF Means
  <2>2. ASSUME NEW v \in DOMAIN tabs, NEW k \in SegNos
        PROVE  tabs[v][k] \in Entry
    BY TablesEntries
  <2>3. QED
    BY <1>2, <2>1, <2>2 DEF Meant
<1>5. \A sid \in 1 .. Len(ss) :
        next[sid].refs = Cardinality(MappingsIn(tabs, sid)) + Held(next[sid])
  BY <1>2 DEF RefsCounted
<1>6. MappingsIn(tabs, Len(ss) + 1) = {}
  BY <1>2 DEF MappingsIn, Meant, Means
<1>7. Cardinality(MappingsIn(tabs, Len(ss) + 1)) = 0
  BY <1>6, FS_EmptySet
<1>8. QED
  BY <1>1, <1>3, <1>4, <1>5, <1>7

\* A segment of no file leaves the objects' counts alone.
LEMMA AppendAnonymous ==
  ASSUME NEW ss \in Seq(Segment), NEW os \in Caches, ObjectsCounted(ss, os),
         NEW next, NEW refs, NEW pf, NEW size,
         Appended(next, ss, refs, pf, size, NoFile)
  PROVE  ObjectsCounted(next, os)
<1>1. Len(ss) \in Nat /\ DOMAIN os \subseteq Files /\ NoFile \notin Files
  BY Constants DEF Caches
<1>2. \A f \in DOMAIN os : SegmentsOf(next, f) = SegmentsOf(ss, f)
  BY <1>1 DEF SegmentsOf, Appended
<1>3. \A f \in DOMAIN os : \A no \in DOMAIN os[f].map :
        /\ os[f].map[no] \in 1 .. Len(next)
        /\ next[os[f].map[no]].base = 0 \/ next[os[f].map[no]].ino = f
  BY <1>1 DEF ObjectsCounted, Appended
<1>4. \A sid \in 1 .. Len(next) : next[sid].ino \in DOMAIN os \cup {NoFile}
  <2>1. \A sid \in 1 .. Len(next) : sid \in 1 .. Len(ss) \/ sid = Len(ss) + 1
    BY <1>1 DEF Appended
  <2>2. QED
    BY <2>1 DEF ObjectsCounted, Appended
<1>5. QED
  BY <1>2, <1>3, <1>4 DEF ObjectsCounted

\* salloc either throws or appends.
Sallocs(got, st, bytes, ino, flags) ==
  /\ got \in State /\ got.objs = st.objs /\ got.tbl = st.tbl
  /\ ~HasRoom(st.heap, bytes) => got = Throw(st, "ENOMEM")
  /\ HasRoom(st.heap, bytes) =>
       /\ got.err = st.err
       /\ got.heap = WithBlock(st.heap, PagesFor(bytes), Place(st.heap, PagesFor(bytes)))
       /\ Appended(got.segs, st.segs, 0, Place(st.heap, PagesFor(bytes)), bytes, ino)
       /\ got.segs[Len(st.segs) + 1].flags = flags

LEMMA SallocDoes ==
  ASSUME NEW st \in State, Tiled(st.heap), NEW bytes \in Nat \ {0},
         NEW ino \in Files \cup {NoFile}, NEW flags \in SUBSET Flag
  PROVE  Sallocs(Salloc(st, bytes, ino, flags), st, bytes, ino, flags)
<1> DEFINE got == Salloc(st, bytes, ino, flags)
           pf == Place(st.heap, PagesFor(bytes))
           h == WithBlock(st.heap, PagesFor(bytes), pf)
           s == [refs |-> 0, base |-> pf, size |-> bytes, ino |-> ino, flags |-> flags]
           ss == Append(st.segs, s)
<1>1. st.heap \in Heaps /\ st.segs \in Seq(Segment) /\ Len(st.segs) \in Nat
  BY StateFields
<1>2. CASE ~HasRoom(st.heap, bytes)
  <2>1. got = Throw(st, "ENOMEM")
    BY <1>2 DEF Salloc
  <2>2. QED
    BY <1>2, <2>1, ThrowState DEF Errnos, Sallocs
<1>3. CASE HasRoom(st.heap, bytes)
  <2>1. got = [st EXCEPT !.heap = h, !.segs = ss]
    BY <1>3 DEF Salloc
  <2>2. pf \in Nat /\ h \in Heaps
    BY <1>1, <1>3, NewBlock, Constants
  <2>3. s \in Segment
    BY <2>2 DEF Segment
  <2>3a. s.refs = 0 /\ s.base = pf /\ s.size = bytes /\ s.ino = ino /\ s.flags = flags
    OBVIOUS
  <2> HIDE DEF pf, h, s, got, ss
  <2>4. Appended(ss, st.segs, s.refs, s.base, s.size, s.ino)
    BY <1>1, <2>3, AppendAppends DEF ss
  <2>5. ss \in Seq(Segment) /\ ss[Len(st.segs) + 1] = s
    BY <1>1, <2>3 DEF ss
  <2>6. got \in State /\ got.heap = h /\ got.segs = ss /\ got.objs = st.objs
        /\ got.tbl = st.tbl /\ got.err = st.err
    BY <2>1, <2>2, <2>5 DEF State
  <2>7. Appended(got.segs, st.segs, 0, pf, bytes, ino)
        /\ got.segs[Len(st.segs) + 1].flags = flags
    BY <2>3a, <2>4, <2>5, <2>6
  <2>8. Sallocs(got, st, bytes, ino, flags)
    BY <1>3, <2>6, <2>7 DEF pf, h, Sallocs
  <2>9. QED
    BY <2>8 DEF got
<1>4. QED
  BY <1>2, <1>3

-----------------------------------------------------------------------------
(* The new stack of exec *)

\* Segments may have been added; the others, and the cache, are as they were.
Extends(x, st) ==
  /\ Len(x.segs) >= Len(st.segs)
  /\ \A k \in 1 .. Len(st.segs) : x.segs[k] = st.segs[k]

Stacked(x, st, tabs, u) ==
  /\ GoodState(x, tabs, u) /\ x.err \in {"ok", "ENOMEM"}
  /\ x.objs = st.objs /\ Extends(x, st)
  /\ \A k \in Len(st.segs) + 1 .. Len(x.segs) : x.segs[k].ino = NoFile
  /\ \A k \in SegNos : k # 0 => x.tbl[k] = st.tbl[k]
  /\ ~Valid(x.tbl[0])
  /\ IF x.err = "ok" THEN x.tbl[0].flags = {"READ", "WRITE"} ELSE x.tbl = st.tbl

LEMMA MapStackStacks ==
  ASSUME NEW tabs \in Tables, NEW u \in DOMAIN tabs, NEW st, GoodState(st, tabs, u),
         st.err = "ok", ~Valid(st.tbl[0]), NEW g
  PROVE  Stacked(MapStack(st, g), st, tabs, u)
<1> DEFINE got == Salloc(st, Page, NoFile, {})
           n == Len(got.segs)
           mapped == Mmap(got, n, 0, g)
           x == MapStack(st, g)
           ss == st.segs
           tt == [tabs EXCEPT ![u] = st.tbl]
<1>1. /\ st \in State /\ tt \in Tables /\ DOMAIN tt = DOMAIN tabs /\ tt[u] = st.tbl
      /\ IsFiniteSet(DOMAIN tabs)
  BY GoodTables
<1>2. Tiled(st.heap) /\ Placed(st.heap, ss) /\ Meant(ss, tt) /\ RefsCounted(ss, tt)
      /\ ObjectsCounted(ss, st.objs)
  BY DEF GoodState, Good
<1>3. st.heap \in Heaps /\ ss \in Seq(Segment) /\ st.objs \in Caches /\ Len(ss) \in Nat
  BY <1>1, StateFields
<1>4. Page \in Nat \ {0} /\ 0 \in SegNos
  BY Constants
<1>5a. Sallocs(got, st, Page, NoFile, {})
  <2>1. NoFile \in Files \cup {NoFile} /\ {} \in SUBSET Flag
    OBVIOUS
  <2>2. QED
    BY <1>1, <1>2, <1>4, <2>1, SallocDoes
<1>5. /\ got \in State /\ got.objs = st.objs /\ got.tbl = st.tbl
      /\ ~HasRoom(st.heap, Page) => got = Throw(st, "ENOMEM")
      /\ HasRoom(st.heap, Page) =>
           /\ got.err = st.err
           /\ got.heap = WithBlock(st.heap, PagesFor(Page),
                                   Place(st.heap, PagesFor(Page)))
           /\ Appended(got.segs, ss, 0, Place(st.heap, PagesFor(Page)), Page, NoFile)
           /\ got.segs[Len(ss) + 1].flags = {}
  BY <1>5a DEF Sallocs
<1>6. CASE ~HasRoom(st.heap, Page)
  <2>0. got = Throw(st, "ENOMEM") /\ "ENOMEM" \in Errnos
    BY <1>5, <1>6 DEF Errnos
  <2>1. got.err = "ENOMEM" /\ got.segs = ss /\ GoodState(got, tabs, u)
    <3> HIDE DEF got
    <3>1. QED
      BY <1>1, <2>0, ThrowState, ThrowGood
  <2>2. x = got
    BY <2>1 DEF MapStack
  <2> HIDE DEF x, got
  <2>3. Stacked(x, st, tabs, u)
    BY <1>3, <1>5, <2>1, <2>2 DEF Stacked, Extends
  <2>4. QED
    BY <2>3 DEF x
<1>7. CASE HasRoom(st.heap, Page)
  <2> DEFINE pf == Place(st.heap, PagesFor(Page))
             h2 == WithBlock(st.heap, PagesFor(Page), pf)
             e == [mapped.tbl[0] EXCEPT !.flags = {"READ", "WRITE"}]
             tbl == [mapped.tbl EXCEPT ![0] = e]
             t2 == [tabs EXCEPT ![u] = tbl]
  <2>1. /\ got.err = "ok" /\ got.heap = h2
        /\ Appended(got.segs, ss, 0, pf, Page, NoFile)
    BY <1>5, <1>7
  <2>2. /\ n = Len(ss) + 1 /\ n \in 1 .. Len(got.segs) /\ got.segs[n].base = pf
        /\ got.segs[n].size = Page /\ got.segs[n].ino = NoFile /\ got.segs[n].refs = 0
        /\ \A k \in 1 .. Len(ss) : got.segs[k] = ss[k]
    BY <1>3, <2>1 DEF Appended
  <2>3. x = [mapped EXCEPT !.tbl[0].flags = {"READ", "WRITE"}]
    BY <2>1, Zenon DEF MapStack
  <2> HIDE DEF got, n
  <2>4. mapped \in State /\ Mmaps(mapped, got, n, 0)
    BY <1>4, <1>5, <2>1, <2>2, MmapDoes
  <2> HIDE DEF mapped
  <2>5. /\ mapped.heap = h2 /\ mapped.objs = st.objs /\ mapped.err = "ok"
        /\ mapped.tbl \in Table /\ mapped.segs \in Seq(Segment)
        /\ \A k \in SegNos : k # 0 => mapped.tbl[k] = st.tbl[k]
        /\ mapped.tbl[0].segid = n /\ mapped.tbl[0].base = pf /\ mapped.tbl[0].size = Page
        /\ Replaced(mapped.segs, got.segs, n, 1, pf, Page, NoFile)
    BY <1>5, <2>1, <2>2, <2>4, StateFields DEF Mmaps
  <2>6. Appended(mapped.segs, ss, 1, pf, Page, NoFile)
    BY <1>3, <2>1, <2>2, <2>5 DEF Appended, Replaced
  <2>7. e \in Entry /\ e.segid = n /\ e.base = pf /\ e.size = Page
        /\ e.flags = {"READ", "WRITE"}
    <3>1. mapped.tbl[0] \in Entry
      BY <1>4, <2>5 DEF Table
    <3>2. QED
      BY <2>5, <3>1 DEF Entry, Flag
  <2>8. x = [mapped EXCEPT !.tbl = tbl]
    BY <2>3
  <2> HIDE DEF e
  <2>9. /\ tbl \in Table /\ tbl[0] = e
        /\ \A k \in SegNos : k # 0 => tbl[k] = st.tbl[k]
    BY <1>4, <2>5, <2>7 DEF Table
  <2> HIDE DEF tbl, x, pf, h2
  <2>10. /\ x \in State /\ x.heap = h2 /\ x.segs = mapped.segs /\ x.objs = st.objs
         /\ x.tbl = tbl /\ x.err = "ok"
    BY <2>4, <2>5, <2>8, <2>9 DEF State
  <2>11. t2 \in Tables /\ DOMAIN t2 = DOMAIN tabs /\ t2[u] = tbl
         /\ \A v \in DOMAIN tabs : v # u => t2[v] = tt[v]
    BY <1>1, <2>9, TablesExcept
  <2>12. ~Valid(e)
    BY <2>7 DEF Valid
  <2> HIDE DEF t2, tt, ss
  <2>13. /\ h2 \in Heaps /\ Tiled(h2) /\ pf # 0
         /\ Placed(h2, x.segs) /\ Meant(x.segs, tt)
         /\ \A sid \in 1 .. Len(ss) :
              x.segs[sid].refs = Cardinality(MappingsIn(tt, sid)) + Held(x.segs[sid])
         /\ Cardinality(MappingsIn(tt, Len(ss) + 1)) = 0
    BY <1>1, <1>2, <1>3, <1>4, <1>7, <2>6, <2>10, AppendKeeps DEF h2, pf, ss
  <2>14. ObjectsCounted(x.segs, x.objs)
    BY <1>2, <1>3, <2>6, <2>10, AppendAnonymous
  <2>15. \A sid : Cardinality(MappingsIn(t2, sid)) = Cardinality(MappingsIn(tt, sid))
    <3>1. ASSUME NEW sid
          PROVE  MappingsIn(t2, sid) = MappingsIn(tt, sid)
      <4>1. \A v \in DOMAIN tt, k \in SegNos : v # u \/ k # 0 => t2[v][k] = tt[v][k]
        BY <1>1, <2>9, <2>11
      <4>2. ~Valid(t2[u][0]) /\ ~Valid(tt[u][0])
        BY <1>1, <2>9, <2>11, <2>12
      <4>3. DOMAIN t2 = DOMAIN tt
        BY <1>1, <2>11
      <4>4. \A v \in DOMAIN tt, k \in SegNos :
              Hits(t2[v][k], sid) <=> Hits(tt[v][k], sid)
        BY <4>1, <4>2 DEF Hits
      <4>5. QED
        BY <4>3, <4>4 DEF MappingsIn, Hits
    <3>2. QED
      BY <3>1
  <2>16. x.segs \in Seq(Segment) /\ Len(x.segs) = Len(ss) + 1 /\ x.segs[n].refs = 1
         /\ x.segs[n].base = pf /\ x.segs[n].size = Page /\ x.segs[n].ino = NoFile
         /\ \A k \in 1 .. Len(ss) : x.segs[k] = ss[k]
    BY <2>2, <2>6, <2>10 DEF Appended
  <2>17. RefsCounted(x.segs, t2)
    <3>1. x.segs[n].refs = Cardinality(MappingsIn(t2, n)) + Held(x.segs[n])
      BY <2>2, <2>13, <2>15, <2>16 DEF Held
    <3>2. \A sid \in 1 .. Len(x.segs) : sid \in 1 .. Len(ss) \/ sid = n
      BY <1>3, <2>2, <2>16
    <3>3. QED
      BY <2>13, <2>15, <3>1, <3>2 DEF RefsCounted
  <2>18. Meant(x.segs, t2)
    <3>1. Means(x.segs, e)
      BY <1>3, <2>2, <2>7, <2>12, <2>13, <2>16 DEF Means
    <3>2. ASSUME NEW v \in DOMAIN t2, NEW k \in SegNos
          PROVE  Means(x.segs, t2[v][k])
      <4>1. CASE v = u /\ k = 0
        BY <2>9, <2>11, <3>1, <4>1
      <4>2. CASE ~(v = u /\ k = 0)
        <5>1. t2[v][k] = tt[v][k] /\ v \in DOMAIN tt
          BY <1>1, <2>9, <2>11, <4>2
        <5>2. QED
          BY <2>13, <5>1 DEF Meant
      <4>3. QED
        BY <4>1, <4>2
    <3>3. DOMAIN t2 \subseteq 1 .. Len(x.segs)
      BY <1>1, <2>11, <2>13 DEF Meant
    <3>4. QED
      BY <3>2, <3>3 DEF Meant
  <2>19. GoodState(x, tabs, u)
    BY <2>10, <2>13, <2>14, <2>17, <2>18 DEF GoodState, Good, t2
  <2>20. Stacked(x, st, tabs, u)
    <3>1. Extends(x, st)
      BY <1>3, <2>16 DEF Extends, ss
    <3>2. \A k \in Len(ss) + 1 .. Len(x.segs) : x.segs[k].ino = NoFile
      BY <1>3, <2>2, <2>16
    <3>3. QED
      BY <2>7, <2>9, <2>10, <2>12, <2>19, <3>1, <3>2 DEF Stacked, ss
  <2>21. QED
    BY <2>20 DEF x
<1>8. QED
  BY <1>6, <1>7

-----------------------------------------------------------------------------
(* load *)

SectionType == [no : Nat, size : Nat, flags : SUBSET Flag]

LEMMA SectionsAre ==
  ASSUME NEW f \in Files
  PROVE  /\ Sections[f] \in Seq(SectionType) /\ Len(Sections[f]) \in Nat
         /\ DOMAIN Sections[f] = 1 .. Len(Sections[f])
         /\ \A i \in DOMAIN Sections[f] : Sections[f][i] \in SectionType
<1>1. Sections[f] \in Seq(SectionType)
  BY KernelAssumption DEF SectionType
<1>2. QED
  BY <1>1

\* The sections of a file that have something in them have different numbers.
Distinct(f) ==
  \A i, j \in DOMAIN Sections[f] :
    Sections[f][i].size > 0 /\ Sections[f][j].size > 0
      /\ Sections[f][i].no = Sections[f][j].no => i = j

\* One section of f was loaded as segment n.
Loads(y, x, f, s, n) ==
  /\ Extends(y, x) /\ Len(y.segs) = n /\ n = Len(x.segs) + 1
  /\ y.segs[n].ino = f /\ y.tbl = x.tbl /\ y.err = x.err
  /\ DOMAIN y.objs = DOMAIN x.objs
  /\ \A k \in DOMAIN x.objs : k # f => y.objs[k] = x.objs[k]
  /\ DOMAIN y.objs[f].map = DOMAIN x.objs[f].map \cup {s.no}
  /\ \A no \in DOMAIN y.objs[f].map :
       y.objs[f].map[no] = IF no \in DOMAIN x.objs[f].map THEN x.objs[f].map[no] ELSE n
  /\ y.objs[f].refs = x.objs[f].refs + 1

\* Segment n joins file f in the cache, as this number unless it has one.
Gains(new, os, f, number, n) ==
  /\ new \in Caches /\ DOMAIN new = DOMAIN os
  /\ \A k \in DOMAIN os : k # f => new[k] = os[k]
  /\ new[f].refs = os[f].refs + 1
  /\ DOMAIN new[f].map = DOMAIN os[f].map \cup {number}
  /\ \A no \in DOMAIN new[f].map :
       new[f].map[no] = IF no \in DOMAIN os[f].map THEN os[f].map[no] ELSE n

LEMMA AppendOfFile ==
  ASSUME NEW ss \in Seq(Segment), NEW os \in Caches, ObjectsCounted(ss, os),
         NEW next, NEW refs, NEW pf, NEW size, NEW f \in DOMAIN os,
         Appended(next, ss, refs, pf, size, f),
         NEW new, NEW number, Gains(new, os, f, number, Len(ss) + 1)
  PROVE  ObjectsCounted(next, new)
<1>0. /\ new \in Caches /\ DOMAIN new = DOMAIN os
      /\ \A k \in DOMAIN os : k # f => new[k] = os[k]
      /\ new[f].refs = os[f].refs + 1
      /\ DOMAIN new[f].map = DOMAIN os[f].map \cup {number}
      /\ \A no \in DOMAIN new[f].map :
           new[f].map[no] = IF no \in DOMAIN os[f].map THEN os[f].map[no]
                            ELSE Len(ss) + 1
  BY DEF Gains
<1>1. /\ Len(ss) \in Nat /\ DOMAIN os \subseteq Files /\ NoFile \notin Files
      /\ Len(next) = Len(ss) + 1 /\ next[Len(ss) + 1].ino = f
      /\ \A k \in 1 .. Len(ss) : next[k] = ss[k]
  BY Constants DEF Caches, Appended
<1>2. \A k : k \in 1 .. Len(next) <=> k \in 1 .. Len(ss) \/ k = Len(ss) + 1
  BY <1>1
<1>3. \A k \in DOMAIN os : k # f => SegmentsOf(next, k) = SegmentsOf(ss, k)
  BY <1>1, <1>2 DEF SegmentsOf
<1>4. SegmentsOf(next, f) = SegmentsOf(ss, f) \cup {Len(ss) + 1}
      /\ Len(ss) + 1 \notin SegmentsOf(ss, f)
  BY <1>1, <1>2 DEF SegmentsOf
<1>5. IsFiniteSet(SegmentsOf(ss, f)) /\ Cardinality(SegmentsOf(ss, f)) \in Nat
  BY SegmentsAreFinite
<1>6. Cardinality(SegmentsOf(next, f)) = Cardinality(SegmentsOf(ss, f)) + 1
  BY <1>4, <1>5, FS_AddElement
<1>7. \A k \in DOMAIN new : new[k].refs = Cardinality(SegmentsOf(next, k))
  BY <1>0, <1>3, <1>6 DEF ObjectsCounted
<1>8. \A k \in DOMAIN new : IsFiniteSet(DOMAIN new[k].map)
  <2>1. IsFiniteSet(DOMAIN os[f].map)
    BY DEF ObjectsCounted
  <2>2. IsFiniteSet(DOMAIN os[f].map \cup {number})
    BY <2>1, FS_AddElement
  <2>3. QED
    BY <1>0, <2>2 DEF ObjectsCounted
<1>9. ASSUME NEW k \in DOMAIN new, NEW no \in DOMAIN new[k].map
      PROVE  /\ new[k].map[no] \in 1 .. Len(next)
             /\ next[new[k].map[no]].base = 0 \/ next[new[k].map[no]].ino = k
  <2>1. ASSUME NEW j \in 1 .. Len(ss), ss[j].base = 0 \/ ss[j].ino = k
        PROVE  j \in 1 .. Len(next) /\ (next[j].base = 0 \/ next[j].ino = k)
    BY <1>1, <1>2, <2>1
  <2>2. CASE no \in DOMAIN os[k].map
    <3>1. new[k].map[no] = os[k].map[no]
      BY <1>0, <2>2
    <3>2. /\ os[k].map[no] \in 1 .. Len(ss)
          /\ ss[os[k].map[no]].base = 0 \/ ss[os[k].map[no]].ino = k
      BY <1>0, <2>2 DEF ObjectsCounted
    <3>3. QED
      BY <2>1, <3>1, <3>2
  <2>3. CASE no \notin DOMAIN os[k].map
    <3>1. k = f /\ new[k].map[no] = Len(ss) + 1
      BY <1>0, <2>3
    <3>2. QED
      BY <1>1, <1>2, <3>1
  <2>4. QED
    BY <2>2, <2>3
<1>10. \A sid \in 1 .. Len(next) : next[sid].ino \in DOMAIN new \cup {NoFile}
  BY <1>0, <1>1, <1>2 DEF ObjectsCounted
<1>11. QED
  BY <1>7, <1>8, <1>9, <1>10 DEF ObjectsCounted

LEMMA LoadSectionGood ==
  ASSUME NEW tabs \in Tables, NEW u \in DOMAIN tabs, NEW x, GoodState(x, tabs, u),
         NEW f \in DOMAIN x.objs, NEW s \in SectionType
  PROVE  /\ GoodState(LoadSection(x, f, s), tabs, u)
         /\ x.err # "ok" \/ s.size = 0 => LoadSection(x, f, s) = x
         /\ x.err = "ok" /\ s.size > 0 =>
              \/ LoadSection(x, f, s) = Throw(x, "ENOMEM")
              \/ Loads(LoadSection(x, f, s), x, f, s, Len(x.segs) + 1)
<1> DEFINE y == LoadSection(x, f, s)
           flags == s.flags \cup {"VALID"}
           got == Salloc(x, s.size, f, flags)
           ss == x.segs
           tt == [tabs EXCEPT ![u] = x.tbl]
<1>1. /\ x \in State /\ tt \in Tables
  BY GoodTables
<1>2. Tiled(x.heap) /\ Placed(x.heap, ss) /\ Meant(ss, tt) /\ RefsCounted(ss, tt)
      /\ ObjectsCounted(ss, x.objs)
  BY DEF GoodState, Good
<1>3. x.heap \in Heaps /\ ss \in Seq(Segment) /\ x.objs \in Caches /\ Len(ss) \in Nat
  BY <1>1, StateFields
<1>4. s.no \in Nat /\ s.size \in Nat /\ flags \in SUBSET Flag
  BY DEF SectionType, Flag
<1>5. f \in Files /\ f # NoFile /\ x.objs[f] \in Loaded
  <2>1. PICK D \in SUBSET Files : x.objs \in [D -> Loaded]
    BY <1>3 DEF Caches
  <2>2. QED
    BY <2>1, Constants
<1>6. CASE x.err # "ok" \/ s.size = 0
  <2>1. y = x
    BY <1>6, Zenon DEF LoadSection
  <2> HIDE DEF y
  <2>2. GoodState(y, tabs, u) /\ ~(x.err = "ok" /\ s.size > 0)
    BY <1>4, <1>6, <2>1
  <2>3. QED
    BY <2>1, <2>2 DEF y
<1>7. CASE x.err = "ok" /\ s.size # 0
  <2>1. Sallocs(got, x, s.size, f, flags)
    BY <1>1, <1>2, <1>4, <1>5, <1>7, SallocDoes
  <2>2. CASE ~HasRoom(x.heap, s.size)
    <3>1. got = Throw(x, "ENOMEM") /\ "ENOMEM" \in Errnos
      BY <2>1, <2>2 DEF Sallocs, Errnos
    <3> HIDE DEF got
    <3>2. got.err = "ENOMEM" /\ GoodState(got, tabs, u)
      BY <1>1, <3>1, ThrowState, ThrowGood
    <3>3. y = IF got.err # "ok" THEN got ELSE y
      BY <1>7 DEF LoadSection, got
    <3>4. y = got
      BY <3>2, <3>3
    <3>5. QED
      BY <1>7, <3>1, <3>2, <3>4
  <2>3. CASE HasRoom(x.heap, s.size)
    <3> DEFINE n == Len(got.segs)
               pf == Place(x.heap, PagesFor(s.size))
               map == got.objs[f].map
               m2 == IF s.no \in DOMAIN map THEN map
                     ELSE [k \in DOMAIN map \cup {s.no} |->
                             IF k = s.no THEN n ELSE map[k]]
               o == [x.objs[f] EXCEPT !.map = m2, !.refs = x.objs[f].refs + 1]
               os == [x.objs EXCEPT ![f] = o]
    <3>1. /\ got \in State /\ got.err = "ok" /\ got.tbl = x.tbl /\ got.objs = x.objs
          /\ got.heap = WithBlock(x.heap, PagesFor(s.size), pf)
          /\ Appended(got.segs, ss, 0, pf, s.size, f)
      BY <1>7, <2>1, <2>3 DEF Sallocs
    <3>2. y = [got EXCEPT !.objs[f].map = m2, !.objs[f].refs = @ + 1]
      BY <1>7, <3>1, Zenon DEF LoadSection
    <3> HIDE DEF got, y
    <3>3. n = Len(ss) + 1 /\ n \in Nat /\ got.segs[n].ino = f
      BY <1>3, <3>1 DEF Appended
    <3> HIDE DEF n
    <3>4. map = x.objs[f].map /\ map \in Maps /\ x.objs[f].refs \in Nat
      BY <1>5, <3>1 DEF Loaded
    <3> HIDE DEF map
    <3>5. /\ m2 \in Maps /\ DOMAIN m2 = DOMAIN map \cup {s.no}
          /\ \A no \in DOMAIN m2 : m2[no] = IF no \in DOMAIN map THEN map[no] ELSE n
      <4>1. PICK D \in SUBSET Nat : map \in [D -> Nat]
        BY <3>4 DEF Maps
      <4>2. m2 \in [D \cup {s.no} -> Nat]
        BY <1>4, <3>3, <4>1
      <4>3. m2 \in Maps
        BY <1>4, <4>2 DEF Maps
      <4>4. QED
        BY <4>1, <4>3
    <3>6. y = [got EXCEPT !.objs = os]
      BY <3>1, <3>2
    <3> HIDE DEF m2
    <3>7. o \in Loaded /\ o.map = m2 /\ o.refs = x.objs[f].refs + 1
      <4>1. x.objs[f].refs + 1 \in Nat
        BY <3>4
      <4> DEFINE o1 == [x.objs[f] EXCEPT !.map = m2]
                 r == x.objs[f].refs + 1
      <4>2. o = [o1 EXCEPT !.refs = r]
        OBVIOUS
      <4>3. o1 \in Loaded /\ o1.map = m2
        BY <1>5, <3>5 DEF Loaded
      <4> HIDE DEF o, o1, r
      <4>4. o \in Loaded /\ o.map = m2 /\ o.refs = r
        BY <4>1, <4>2, <4>3 DEF Loaded, r
      <4>5. QED
        BY <4>4 DEF r
    <3> HIDE DEF o
    <3>8. /\ os \in Caches /\ DOMAIN os = DOMAIN x.objs /\ os[f] = o
          /\ \A k \in DOMAIN x.objs : k # f => os[k] = x.objs[k]
      <4>1. PICK D \in SUBSET Files : x.objs \in [D -> Loaded]
        BY <1>3 DEF Caches
      <4>2. os \in [D -> Loaded]
        BY <3>7, <4>1
      <4>3. os \in Caches
        BY <4>2 DEF Caches
      <4>4. QED
        BY <4>1, <4>3
    <3> HIDE DEF os
    <3>9. /\ y \in State /\ y.heap = got.heap /\ y.segs = got.segs /\ y.objs = os
          /\ y.tbl = x.tbl /\ y.err = "ok"
      BY <3>1, <3>6, <3>8 DEF State
    <3> HIDE DEF ss, tt, pf
    <3>10. /\ Tiled(y.heap) /\ pf # 0
           /\ Placed(y.heap, y.segs) /\ Meant(y.segs, tt)
           /\ \A sid \in 1 .. Len(ss) :
                y.segs[sid].refs = Cardinality(MappingsIn(tt, sid)) + Held(y.segs[sid])
           /\ Cardinality(MappingsIn(tt, Len(ss) + 1)) = 0
      <4>1. s.size \in Nat \ {0} /\ pf = Place(x.heap, PagesFor(s.size))
            /\ y.heap = WithBlock(x.heap, PagesFor(s.size), pf)
            /\ Appended(y.segs, ss, 0, pf, s.size, f)
        BY <1>4, <1>7, <3>1, <3>9 DEF pf
      <4>2. QED
        BY <1>1, <1>2, <1>3, <2>3, <4>1, AppendKeeps
    <3>11. ObjectsCounted(y.segs, y.objs)
      <4>1. Appended(y.segs, ss, 0, pf, s.size, f)
        BY <3>1, <3>9
      <4>2. Gains(y.objs, x.objs, f, s.no, Len(ss) + 1)
        BY <3>3, <3>4, <3>5, <3>7, <3>8, <3>9 DEF Gains
      <4>3. QED
        BY <1>2, <1>3, <4>1, <4>2, AppendOfFile
    <3>12. RefsCounted(y.segs, tt)
      <4>1. y.segs[n].refs = 0 /\ Held(y.segs[n]) = 0 /\ Len(y.segs) = Len(ss) + 1
        BY <1>5, <3>1, <3>3, <3>9 DEF Held, Appended
      <4>2. \A sid \in 1 .. Len(y.segs) : sid \in 1 .. Len(ss) \/ sid = n
        BY <1>3, <3>3, <4>1
      <4>3. QED
        BY <3>3, <3>10, <4>1, <4>2 DEF RefsCounted
    <3>13. GoodState(y, tabs, u)
      BY <3>9, <3>10, <3>11, <3>12 DEF GoodState, Good, tt
    <3>14. Loads(y, x, f, s, n)
      <4>1. Len(got.segs) = n /\ \A k \in 1 .. Len(ss) : got.segs[k] = ss[k]
        BY <3>1 DEF Appended, n
      <4>2. Extends(y, x)
        BY <1>3, <3>3, <3>9, <4>1 DEF Extends, ss
      <4>3. QED
        BY <1>7, <3>3, <3>4, <3>5, <3>7, <3>8, <3>9, <4>1, <4>2 DEF Loads, ss
    <3>15. QED
      BY <1>7, <3>3, <3>13, <3>14 DEF y, ss
  <2>4. QED
    BY <2>2, <2>3
<1>8. QED
  BY <1>4, <1>6, <1>7

Numbers(f, t) == {Sections[f][i].no : i \in {j \in t : Sections[f][j].size > 0}}

\* The sections of f at the indices of t are loaded, unless memory ran out.
LoadedSoFar(x, st, t, f, tabs, u) ==
  /\ GoodState(x, tabs, u) /\ x.err \in {"ok", "ENOMEM"}
  /\ x.tbl = st.tbl /\ Extends(x, st)
  /\ f \in DOMAIN x.objs /\ DOMAIN x.objs = DOMAIN st.objs
  /\ \A k \in DOMAIN st.objs : k # f => x.objs[k] = st.objs[k]
  /\ \A k \in Len(st.segs) + 1 .. Len(x.segs) : x.segs[k].ino = f
  /\ \A no \in DOMAIN x.objs[f].map :
       x.objs[f].map[no] \in Len(st.segs) + 1 .. Len(x.segs)
  /\ x.err = "ok" =>
       /\ DOMAIN x.objs[f].map = Numbers(f, t)
       /\ Distinct(f) =>
            \A k \in Len(st.segs) + 1 .. Len(x.segs) :
              \E no \in DOMAIN x.objs[f].map : x.objs[f].map[no] = k

LEMMA LoadStep ==
  ASSUME NEW tabs \in Tables, NEW u \in DOMAIN tabs, NEW st \in State,
         NEW f \in Files, NEW t \in SUBSET (DOMAIN Sections[f]),
         NEW x, LoadedSoFar(x, st, t, f, tabs, u), NEW i \in DOMAIN Sections[f] \ t
  PROVE  LoadedSoFar(LoadSection(x, f, Sections[f][i]), st, t \cup {i}, f, tabs, u)
<1> DEFINE s == Sections[f][i]
           y == LoadSection(x, f, s)
           n == Len(x.segs) + 1
           b == Len(st.segs)
<1>1. /\ GoodState(x, tabs, u) /\ x.err \in {"ok", "ENOMEM"}
      /\ x.tbl = st.tbl /\ Extends(x, st)
      /\ f \in DOMAIN x.objs /\ DOMAIN x.objs = DOMAIN st.objs
      /\ \A k \in DOMAIN st.objs : k # f => x.objs[k] = st.objs[k]
      /\ \A k \in b + 1 .. Len(x.segs) : x.segs[k].ino = f
      /\ \A no \in DOMAIN x.objs[f].map : x.objs[f].map[no] \in b + 1 .. Len(x.segs)
      /\ x.err = "ok" => DOMAIN x.objs[f].map = Numbers(f, t)
      /\ x.err = "ok" /\ Distinct(f) =>
           \A k \in b + 1 .. Len(x.segs) :
             \E no \in DOMAIN x.objs[f].map : x.objs[f].map[no] = k
  BY DEF LoadedSoFar
<1>2. s \in SectionType /\ s.size \in Nat
  BY SectionsAre DEF SectionType
<1>3. /\ GoodState(y, tabs, u)
      /\ x.err # "ok" \/ s.size = 0 => y = x
      /\ x.err = "ok" /\ s.size > 0 => y = Throw(x, "ENOMEM") \/ Loads(y, x, f, s, n)
  BY <1>1, <1>2, LoadSectionGood
<1>4. x \in State /\ st \in State /\ Len(x.segs) \in Nat /\ b \in Nat
  BY <1>1, StateFields DEF GoodState
<1>5. IF s.size > 0 THEN Numbers(f, t \cup {i}) = Numbers(f, t) \cup {s.no} ELSE Numbers(f, t \cup {i}) = Numbers(f, t)
  <2>1. CASE s.size > 0
    <3>1. {k \in t \cup {i} : Sections[f][k].size > 0}
            = {k \in t : Sections[f][k].size > 0} \cup {i}
      BY <2>1
    <3>2. QED
      BY <2>1, <3>1 DEF Numbers
  <2>2. CASE ~(s.size > 0)
    <3>1. {k \in t \cup {i} : Sections[f][k].size > 0}
            = {k \in t : Sections[f][k].size > 0}
      BY <2>2
    <3>2. QED
      BY <2>2, <3>1 DEF Numbers
  <2>3. QED
    BY <2>1, <2>2
<1>5a. Distinct(f) /\ s.size > 0 => s.no \notin Numbers(f, t)
  BY DEF Distinct, Numbers
<1>6. CASE x.err # "ok" \/ s.size = 0
  <2>1. y = x
    BY <1>3, <1>6
  <2>2. x.err = "ok" => Numbers(f, t \cup {i}) = Numbers(f, t)
    BY <1>5, <1>6
  <2> HIDE DEF y
  <2>3. LoadedSoFar(x, st, t \cup {i}, f, tabs, u)
    BY <1>1, <2>2 DEF LoadedSoFar
  <2>4. QED
    BY <2>1, <2>3 DEF y
<1>7. CASE y = Throw(x, "ENOMEM")
  <2>1. /\ y.err = "ENOMEM" /\ y.segs = x.segs /\ y.objs = x.objs /\ y.tbl = x.tbl
    BY <1>4, <1>7, ThrowState DEF Errnos
  <2> HIDE DEF y
  <2>2. LoadedSoFar(y, st, t \cup {i}, f, tabs, u)
    BY <1>1, <1>3, <2>1 DEF LoadedSoFar, Extends
  <2>3. QED
    BY <2>2 DEF y
<1>8. CASE x.err = "ok" /\ s.size > 0 /\ Loads(y, x, f, s, n)
  <2> HIDE DEF y
  <2>1. /\ Extends(y, x) /\ Len(y.segs) = n /\ y.segs[n].ino = f
        /\ y.tbl = x.tbl /\ y.err = "ok" /\ DOMAIN y.objs = DOMAIN x.objs
        /\ \A k \in DOMAIN x.objs : k # f => y.objs[k] = x.objs[k]
        /\ DOMAIN y.objs[f].map = DOMAIN x.objs[f].map \cup {s.no}
        /\ \A no \in DOMAIN y.objs[f].map :
             y.objs[f].map[no]
               = IF no \in DOMAIN x.objs[f].map THEN x.objs[f].map[no] ELSE n
    BY <1>8 DEF Loads
  <2>2. /\ b <= Len(x.segs) /\ \A k \in 1 .. b : x.segs[k] = st.segs[k]
        /\ \A k \in 1 .. Len(x.segs) : y.segs[k] = x.segs[k]
    BY <1>1, <2>1 DEF Extends
  <2>3. Extends(y, st)
    BY <1>4, <2>1, <2>2 DEF Extends
  <2> HIDE DEF n, b
  <2>4. n = Len(x.segs) + 1
    BY DEF n
  <2>5. \A k \in b + 1 .. Len(y.segs) : k \in b + 1 .. Len(x.segs) \/ k = n
    BY <1>4, <2>1, <2>4
  <2>6. \A k \in b + 1 .. Len(y.segs) : y.segs[k].ino = f
    BY <1>1, <1>4, <2>1, <2>2, <2>5
  <2>7. \A no \in DOMAIN y.objs[f].map : y.objs[f].map[no] \in b + 1 .. Len(y.segs)
    BY <1>1, <1>4, <2>1, <2>2, <2>4
  <2>8. DOMAIN y.objs[f].map = Numbers(f, t \cup {i})
    BY <1>1, <1>5, <1>8, <2>1
  <2>9. ASSUME Distinct(f), NEW k \in b + 1 .. Len(y.segs)
        PROVE  \E no \in DOMAIN y.objs[f].map : y.objs[f].map[no] = k
    <3>1. CASE k = n
      <4>1. s.no \notin DOMAIN x.objs[f].map
        BY <1>1, <1>5a, <1>8, <2>9
      <4>2. QED
        BY <2>1, <3>1, <4>1
    <3>2. CASE k # n
      <4>1. PICK no \in DOMAIN x.objs[f].map : x.objs[f].map[no] = k
        BY <1>1, <1>8, <2>5, <2>9, <3>2
      <4>2. QED
        BY <2>1, <4>1
    <3>3. QED
      BY <3>1, <3>2
  <2>10. LoadedSoFar(y, st, t \cup {i}, f, tabs, u)
    BY <1>1, <1>3, <2>1, <2>3, <2>6, <2>7, <2>8, <2>9 DEF LoadedSoFar, b
  <2>11. QED
    BY <2>10 DEF y
<1>9. QED
  BY <1>2, <1>3, <1>6, <1>7, <1>8

LEMMA LoadedAlong ==
  ASSUME NEW tabs \in Tables, NEW u \in DOMAIN tabs, NEW st \in State,
         NEW f \in Files, LoadedSoFar(st, st, {}, f, tabs, u),
         NEW S, S = DOMAIN Sections[f], NEW it, it[{}] = st,
         \A t \in SUBSET S : t # {} /\ it[t \ {Max(t)}] \in State =>
            it[t] = LoadSection(it[t \ {Max(t)}], f, Sections[f][Max(t)])
  PROVE  \A t \in SUBSET S : LoadedSoFar(it[t], st, t, f, tabs, u)
<1> DEFINE good == {t \in SUBSET S : LoadedSoFar(it[t], st, t, f, tabs, u)}
<1>1. IsFiniteSet(S) /\ S \in SUBSET Int
  <2>1. S = 1 .. Len(Sections[f]) /\ Len(Sections[f]) \in Nat
    BY SectionsAre
  <2>2. S \in SUBSET Int
    BY <2>1
  <2>3. IsFiniteSet(S)
    BY <2>1, FS_Interval
  <2>4. QED
    BY <2>2, <2>3
<1>2. {} \in good
  OBVIOUS
<1>3. ASSUME NEW t \in SUBSET S, t # {} /\ t \ {Max(t)} \in good
      PROVE  t \in good
  <2> DEFINE m == Max(t)
  <2>1. m \in t
    BY <1>1, <1>3, MaxIsLargest, FS_Subset
  <2>2. LoadedSoFar(it[t \ {m}], st, t \ {m}, f, tabs, u)
    BY <1>3
  <2>3. it[t \ {m}] \in State
    BY <2>2 DEF LoadedSoFar, GoodState
  <2>4. it[t] = LoadSection(it[t \ {m}], f, Sections[f][m])
    BY <1>3, <2>3
  <2> HIDE DEF m
  <2>5. m \in S \ (t \ {m}) /\ t \ {m} \in SUBSET S /\ (t \ {m}) \cup {m} = t
    BY <2>1
  <2>6. LoadedSoFar(LoadSection(it[t \ {m}], f, Sections[f][m]), st,
                    (t \ {m}) \cup {m}, f, tabs, u)
    BY <2>2, <2>5, LoadStep
  <2>7. QED
    BY <2>4, <2>5, <2>6
<1> HIDE DEF good
<1>4. \A t \in SUBSET S : t \in good
  BY <1>1, <1>2, <1>3, FoldInduction
<1>5. QED
  BY <1>4 DEF good

LEMMA SectionsLoad ==
  ASSUME NEW tabs \in Tables, NEW u \in DOMAIN tabs, NEW st \in State,
         NEW f \in Files, LoadedSoFar(st, st, {}, f, tabs, u)
  PROVE  LoadedSoFar(FoldLeft(LAMBDA x, s : LoadSection(x, f, s), st, Sections[f]),
                     st, DOMAIN Sections[f], f, tabs, u)
<1> DEFINE S == DOMAIN Sections[f]
           E(it) == it = [t \in SUBSET S |->
                            IF t = {} THEN st
                            ELSE LoadSection(it[t \ {Max(t)}], f, Sections[f][Max(t)])]
           G == [p \in State \X S |-> LoadSection(p[1], f, Sections[f][p[2]])]
           result == FoldLeft(LAMBDA x, s : LoadSection(x, f, s), st, Sections[f])
<1>1. IsFiniteSet(S) /\ S \in SUBSET Int
  <2>1. S = 1 .. Len(Sections[f]) /\ Len(Sections[f]) \in Nat
    BY SectionsAre
  <2>2. S \in SUBSET Int
    BY <2>1
  <2>3. IsFiniteSet(S)
    BY <2>1, FS_Interval
  <2>4. QED
    BY <2>2, <2>3
<1> HIDE DEF S, G
<1>2. PICK it : FoldsWith(it, S, st, G)
  BY <1>1, FoldExists
<1>2a. /\ it = [t \in SUBSET S |-> it[t]]
       /\ it[{}] = st
       /\ \A t \in SUBSET S : t # {} => it[t] = G[<<it[t \ {Max(t)}], Max(t)>>]
  BY <1>2, Zenon DEF FoldsWith
<1>3. \A t \in SUBSET S : t # {} => Max(t) \in S
  BY <1>1, MaxIsLargest, FS_Subset
<1>4. \A t \in SUBSET S : t # {} /\ it[t \ {Max(t)}] \in State =>
        it[t] = LoadSection(it[t \ {Max(t)}], f, Sections[f][Max(t)])
  BY <1>2a, <1>3 DEF G
<1>6. \A t \in SUBSET S : LoadedSoFar(it[t], st, t, f, tabs, u)
  BY <1>2a, <1>4, LoadedAlong DEF S
<1>7. \A t \in SUBSET S : it[t] \in State
  BY <1>6 DEF LoadedSoFar, GoodState
<1>8. E(it)
  <2>1. \A t \in SUBSET S : it[t] = IF t = {} THEN st
                 ELSE LoadSection(it[t \ {Max(t)}], f, Sections[f][Max(t)])
    BY <1>2a, <1>4, <1>7
  <2>2. QED
    BY <1>2a, <2>1, Zenon
<1> DEFINE chosen == CHOOSE it_ : E(it_)
<1>9. E(chosen)
  <2> HIDE DEF E
  <2>1. QED
    BY <1>8
<1>10. result = chosen[S]
  BY Zenon DEF FoldLeft, MapThenFoldSet, S
<1> HIDE DEF chosen, result
<1>11. LoadedSoFar(chosen[S], st, S, f, tabs, u)
  <2>1. chosen[{}] = st
    BY <1>9
  <2>2. \A t \in SUBSET S : t # {} /\ chosen[t \ {Max(t)}] \in State =>
          chosen[t] = LoadSection(chosen[t \ {Max(t)}], f, Sections[f][Max(t)])
    BY <1>9
  <2>3. \A t \in SUBSET S : LoadedSoFar(chosen[t], st, t, f, tabs, u)
    BY <2>1, <2>2, LoadedAlong DEF S
  <2>4. QED
    BY <2>3
<1>12. LoadedSoFar(result, st, S, f, tabs, u)
  BY <1>10, <1>11
<1>13. QED
  BY <1>12 DEF result, S

\* What load leaves: f in the cache, from an earlier call or with segments of its own.
LoadsFile(x, st, f, tabs, u) ==
  /\ GoodState(x, tabs, u) /\ x.err \in {"ok", "ENOENT", "ENOEXEC", "ENOMEM"}
  /\ x.tbl = st.tbl /\ Extends(x, st)
  /\ DOMAIN st.objs \subseteq DOMAIN x.objs
  /\ \A k \in DOMAIN st.objs : k # f => x.objs[k] = st.objs[k]
  /\ DOMAIN x.objs \subseteq DOMAIN st.objs \cup {f}
  /\ \A k \in Len(st.segs) + 1 .. Len(x.segs) : x.segs[k].ino = f
  /\ f \in DOMAIN st.objs => x.segs = st.segs /\ x.objs = st.objs
  /\ x.err = "ok" =>
       /\ f \in DOMAIN x.objs
       /\ f \notin DOMAIN st.objs =>
            /\ x.objs[f].whole
            /\ DOMAIN x.objs[f].map = Numbers(f, DOMAIN Sections[f])
            /\ \A no \in DOMAIN x.objs[f].map :
                 x.objs[f].map[no] \in Len(st.segs) + 1 .. Len(x.segs)
            /\ Distinct(f) =>
                 \A k \in Len(st.segs) + 1 .. Len(x.segs) :
                   \E no \in DOMAIN x.objs[f].map : x.objs[f].map[no] = k

\* An empty object joins the cache.
LEMMA EmptyObject ==
  ASSUME NEW tabs \in Tables, NEW u \in DOMAIN tabs, NEW st, GoodState(st, tabs, u),
         st.err = "ok", NEW f \in Files \ DOMAIN st.objs, NEW os,
         os = [x \in DOMAIN st.objs \cup {f} |->
                 IF x = f THEN [refs |-> 0, map |-> <<>>, whole |-> FALSE]
                          ELSE st.objs[x]]
  PROVE  /\ [st EXCEPT !.objs = os] \in State
         /\ LoadedSoFar([st EXCEPT !.objs = os], [st EXCEPT !.objs = os], {}, f, tabs, u)
<1> DEFINE y == [st EXCEPT !.objs = os]
           o == [refs |-> 0, map |-> <<>>, whole |-> FALSE]
<1>1. st \in State /\ st.objs \in Caches /\ st.segs \in Seq(Segment)
      /\ Len(st.segs) \in Nat
  BY StateFields DEF GoodState
<1>2. o \in Loaded /\ o.refs = 0 /\ o.map = <<>>
  <2>1. <<>> \in [{} -> Nat]
    OBVIOUS
  <2>2. <<>> \in Maps
    BY <2>1 DEF Maps
  <2>3. QED
    BY <2>2 DEF Loaded
<1> HIDE DEF o
<1>3. /\ os \in Caches /\ DOMAIN os = DOMAIN st.objs \cup {f} /\ os[f] = o
      /\ \A k \in DOMAIN st.objs : os[k] = st.objs[k]
  <2>1. PICK D \in SUBSET Files : st.objs \in [D -> Loaded]
    BY <1>1 DEF Caches
  <2>2. os \in [D \cup {f} -> Loaded]
    BY <1>2, <2>1 DEF o
  <2>3. D \cup {f} \in SUBSET Files
    OBVIOUS
  <2>4. os \in Caches
    BY <2>2, <2>3 DEF Caches
  <2>5. QED
    BY <2>1, <2>4 DEF o
<1>4. /\ y \in State /\ y.heap = st.heap /\ y.segs = st.segs /\ y.objs = os
      /\ y.tbl = st.tbl /\ y.err = "ok"
  BY <1>1, <1>3 DEF State
<1>5. ObjectsCounted(st.segs, st.objs)
  BY DEF GoodState, Good
<1>6. ObjectsCounted(y.segs, y.objs)
  <2>1. SegmentsOf(st.segs, f) = {}
    BY <1>5, Constants DEF SegmentsOf, ObjectsCounted
  <2>2. Cardinality(SegmentsOf(st.segs, f)) = 0
    BY <2>1, FS_EmptySet
  <2>3. DOMAIN o.map = {} /\ IsFiniteSet(DOMAIN o.map)
    <3>1. DOMAIN o.map = {}
      BY <1>2
    <3>2. QED
      BY <3>1, FS_EmptySet
  <2>3a. \A k \in DOMAIN st.objs : os[k] = st.objs[k] /\ k # f
    BY <1>3
  <2>3b. os[f].refs = 0 /\ DOMAIN os[f].map = {}
    BY <1>2, <1>3, <2>3
  <2>4. \A k \in DOMAIN os :
          /\ os[k].refs = Cardinality(SegmentsOf(st.segs, k))
          /\ IsFiniteSet(DOMAIN os[k].map)
          /\ \A no \in DOMAIN os[k].map :
               /\ os[k].map[no] \in 1 .. Len(st.segs)
               /\ st.segs[os[k].map[no]].base = 0 \/ st.segs[os[k].map[no]].ino = k
    <3>1. ASSUME NEW k \in DOMAIN st.objs
          PROVE  /\ os[k].refs = Cardinality(SegmentsOf(st.segs, k))
                 /\ IsFiniteSet(DOMAIN os[k].map)
                 /\ \A no \in DOMAIN os[k].map :
                      /\ os[k].map[no] \in 1 .. Len(st.segs)
                      /\ st.segs[os[k].map[no]].base = 0
                         \/ st.segs[os[k].map[no]].ino = k
      BY <1>5, <2>3a DEF ObjectsCounted
    <3>2. QED
      BY <1>3, <2>2, <2>3, <2>3b, <3>1
  <2>5. \A sid \in 1 .. Len(st.segs) : st.segs[sid].ino \in DOMAIN os \cup {NoFile}
    BY <1>3, <1>5 DEF ObjectsCounted
  <2>6. ObjectsCounted(st.segs, os)
    BY <2>4, <2>5 DEF ObjectsCounted
  <2>7. QED
    BY <1>4, <2>6
<1> HIDE DEF y
<1>7. GoodState(y, tabs, u)
  BY <1>4, <1>6 DEF GoodState, Good
<1>8. LoadedSoFar(y, y, {}, f, tabs, u)
  <2>1. Extends(y, y) /\ Len(y.segs) \in Nat
    BY <1>1, <1>4 DEF Extends
  <2>2. Numbers(f, {}) = {} /\ DOMAIN y.objs[f].map = {}
    BY <1>2, <1>3, <1>4 DEF Numbers
  <2>3. Len(y.segs) + 1 .. Len(y.segs) = {}
    BY <2>1
  <2>4. QED
    BY <1>3, <1>4, <1>7, <2>1, <2>2, <2>3 DEF LoadedSoFar
<1>9. QED
  BY <1>4, <1>8 DEF y

LEMMA LoadLoads ==
  ASSUME NEW tabs \in Tables, NEW u \in DOMAIN tabs, NEW st, GoodState(st, tabs, u),
         st.err = "ok", NEW f
  PROVE  LoadsFile(Load(st, f), st, f, tabs, u)
<1> DEFINE x == Load(st, f)
<1>1. st \in State /\ st.objs \in Caches /\ st.segs \in Seq(Segment)
      /\ Len(st.segs) \in Nat /\ DOMAIN st.objs \subseteq Files
      /\ Extends(st, st) /\ Len(st.segs) + 1 .. Len(st.segs) = {}
  BY StateFields DEF GoodState, Caches, Extends
<1>2. CASE f \notin Files
  <2>1. x = Throw(st, "ENOENT")
    BY <1>2 DEF Load
  <2>2. x.err = "ENOENT" /\ x.segs = st.segs /\ x.objs = st.objs /\ x.tbl = st.tbl
        /\ GoodState(x, tabs, u)
    BY <1>1, <2>1, ThrowState, ThrowGood DEF Errnos
  <2> HIDE DEF x
  <2>3. LoadsFile(x, st, f, tabs, u)
    BY <1>1, <1>2, <2>2 DEF LoadsFile, Extends
  <2>4. QED
    BY <2>3 DEF x
<1>2a. CASE f \in Refused
  <2>1. x = Throw(st, "ENOEXEC") /\ f \in Files
    BY <1>2a, KernelAssumption DEF Load
  <2>2. x.err = "ENOEXEC" /\ x.segs = st.segs /\ x.objs = st.objs /\ x.tbl = st.tbl
        /\ GoodState(x, tabs, u)
    BY <1>1, <2>1, ThrowState, ThrowGood DEF Errnos
  <2> HIDE DEF x
  <2>3. LoadsFile(x, st, f, tabs, u)
    BY <1>1, <2>1, <2>2 DEF LoadsFile, Extends
  <2>4. QED
    BY <2>3 DEF x
<1>3. CASE f \in DOMAIN st.objs /\ f \notin Refused
  <2>1. x = st
    BY <1>1, <1>3 DEF Load
  <2> HIDE DEF x
  <2>2. LoadsFile(x, st, f, tabs, u)
    BY <1>1, <1>3, <2>1 DEF LoadsFile
  <2>3. QED
    BY <2>2 DEF x
<1>4. CASE f \in Files /\ f \notin DOMAIN st.objs /\ f \notin Refused
  <2> DEFINE os == [k \in DOMAIN st.objs \cup {f} |->
                      IF k = f THEN [refs |-> 0, map |-> <<>>, whole |-> FALSE]
                               ELSE st.objs[k]]
             y == [st EXCEPT !.objs = os]
             z == FoldLeft(LAMBDA w, s : LoadSection(w, f, s), y, Sections[f])
  <2>1. y \in State /\ LoadedSoFar(y, y, {}, f, tabs, u)
    BY <1>4, EmptyObject
  <2>2. LoadedSoFar(z, y, DOMAIN Sections[f], f, tabs, u)
    <3> HIDE DEF y
    <3>1. QED
      BY <1>4, <2>1, SectionsLoad
  <2>3. x = IF z.err # "ok" THEN z ELSE [z EXCEPT !.objs[f].whole = TRUE]
    BY <1>4, Zenon DEF Load
  <2>4. /\ y.segs = st.segs /\ y.objs = os /\ y.tbl = st.tbl
        /\ DOMAIN os = DOMAIN st.objs \cup {f}
        /\ \A k \in DOMAIN st.objs : os[k] = st.objs[k]
    BY <1>1, <1>4 DEF State
  <2> HIDE DEF x, y, z, os
  <2>5. /\ GoodState(z, tabs, u) /\ z.err \in {"ok", "ENOMEM"}
        /\ z.tbl = st.tbl /\ Extends(z, st)
        /\ DOMAIN z.objs = DOMAIN st.objs \cup {f}
        /\ \A k \in DOMAIN st.objs : z.objs[k] = st.objs[k]
        /\ \A k \in Len(st.segs) + 1 .. Len(z.segs) : z.segs[k].ino = f
        /\ \A no \in DOMAIN z.objs[f].map :
             z.objs[f].map[no] \in Len(st.segs) + 1 .. Len(z.segs)
        /\ z.err = "ok" =>
             /\ DOMAIN z.objs[f].map = Numbers(f, DOMAIN Sections[f])
             /\ Distinct(f) =>
                  \A k \in Len(st.segs) + 1 .. Len(z.segs) :
                    \E no \in DOMAIN z.objs[f].map : z.objs[f].map[no] = k
    BY <1>4, <2>2, <2>4 DEF LoadedSoFar, Extends
  <2>6. CASE z.err # "ok"
    <3>1. x = z
      BY <2>3, <2>6
    <3>2. LoadsFile(x, st, f, tabs, u)
      BY <1>4, <2>5, <2>6, <3>1 DEF LoadsFile
    <3>3. QED
      BY <3>2 DEF x
  <2>7. CASE z.err = "ok"
    <3> DEFINE o == [z.objs[f] EXCEPT !.whole = TRUE]
               new == [z.objs EXCEPT ![f] = o]
    <3>1. x = [z EXCEPT !.objs = new]
      BY <2>3, <2>7
    <3>2. z \in State /\ z.objs \in Caches
      BY <2>5, StateFields DEF GoodState
    <3>3. PICK D \in SUBSET Files : z.objs \in [D -> Loaded]
      BY <3>2 DEF Caches
    <3>4. z.objs[f] \in Loaded
      BY <2>5, <3>3
    <3>5. o \in Loaded /\ o.whole = TRUE /\ o.map = z.objs[f].map
          /\ o.refs = z.objs[f].refs
      BY <3>4 DEF Loaded
    <3> HIDE DEF o
    <3>6. /\ new \in [D -> Loaded] /\ DOMAIN new = DOMAIN z.objs /\ new[f] = o
          /\ \A k \in DOMAIN z.objs : k # f => new[k] = z.objs[k]
      BY <2>5, <3>3, <3>5
    <3>7. new \in Caches
      BY <3>6 DEF Caches
    <3> HIDE DEF new
    <3>8. /\ x \in State /\ x.heap = z.heap /\ x.segs = z.segs /\ x.objs = new
          /\ x.tbl = z.tbl /\ x.err = "ok"
      BY <2>7, <3>1, <3>2, <3>7 DEF State
    <3>9. ObjectsCounted(x.segs, x.objs)
      <4>1. ObjectsCounted(z.segs, z.objs)
        BY <2>5 DEF GoodState, Good
      <4>2. \A k \in DOMAIN new : new[k].refs = z.objs[k].refs /\ new[k].map = z.objs[k].map
        BY <3>5, <3>6
      <4>3. QED
        BY <3>6, <3>8, <4>1, <4>2 DEF ObjectsCounted
    <3>10. GoodState(x, tabs, u)
      BY <2>5, <3>8, <3>9 DEF GoodState, Good
    <3>11. Extends(x, st)
      BY <2>5, <3>8 DEF Extends
    <3>12. LoadsFile(x, st, f, tabs, u)
      BY <1>4, <2>5, <2>7, <3>5, <3>6, <3>8, <3>10, <3>11 DEF LoadsFile
    <3>13. QED
      BY <3>12 DEF x
  <2>8. QED
    BY <2>6, <2>7
<1>5. QED
  BY <1>2, <1>2a, <1>3, <1>4

-----------------------------------------------------------------------------
(* The loop that maps the sections of an object *)

\* The segments of f with numbers in s are mapped, as far as no call failed.
MappedSoFar(x, st, s, f, tabs, u) ==
  /\ GoodState(x, tabs, u) /\ x.err \in {"ok", "ENOMEM", "EPERM"}
  /\ x.heap = st.heap /\ x.objs = st.objs /\ SamePlaces(x.segs, st.segs)
  /\ \A no \in SegNos \ s : x.tbl[no] = st.tbl[no]
  /\ x.err = "ok" =>
       \A no \in s :
         /\ no \in SegNos /\ Valid(x.tbl[no])
         /\ x.tbl[no].segid = st.objs[f].map[no]
         /\ x.tbl[no].base = st.segs[st.objs[f].map[no]].base
         /\ x.tbl[no].size = st.segs[st.objs[f].map[no]].size
  /\ s \subseteq SegNos \ {Uarea} => x.err = "ok"

\* Everything mapped is the Process structure's, if anything.
Unmapped(st) == \A no \in SegNos \ {Uarea} : ~Valid(st.tbl[no])

LEMMA MapStep ==
  ASSUME NEW tabs \in Tables, NEW u \in DOMAIN tabs, NEW st, GoodState(st, tabs, u),
         Unmapped(st), NEW f \in DOMAIN st.objs,
         NEW s \in SUBSET (DOMAIN st.objs[f].map),
         NEW x, MappedSoFar(x, st, s, f, tabs, u),
         NEW no \in DOMAIN st.objs[f].map \ s, NEW g
  PROVE  MappedSoFar(Mmap(x, st.objs[f].map[no], no, g), st, s \cup {no}, f, tabs, u)
<1> DEFINE sid == st.objs[f].map[no]
           y == Mmap(x, sid, no, g)
<1>1. /\ GoodState(x, tabs, u) /\ x.err \in {"ok", "ENOMEM", "EPERM"}
      /\ x.heap = st.heap /\ x.objs = st.objs /\ SamePlaces(x.segs, st.segs)
      /\ \A k \in SegNos \ s : x.tbl[k] = st.tbl[k]
      /\ x.err = "ok" =>
           \A k \in s :
             /\ k \in SegNos /\ Valid(x.tbl[k])
             /\ x.tbl[k].segid = st.objs[f].map[k]
             /\ x.tbl[k].base = st.segs[st.objs[f].map[k]].base
             /\ x.tbl[k].size = st.segs[st.objs[f].map[k]].size
      /\ s \subseteq SegNos \ {Uarea} => x.err = "ok"
  BY DEF MappedSoFar
<1>2. /\ x \in State /\ st \in State /\ f \in Files /\ f # NoFile
  BY <1>1, StateFields, Constants DEF GoodState, Caches
<1>3. /\ sid \in 1 .. Len(st.segs) /\ (st.segs[sid].base = 0 \/ st.segs[sid].ino = f)
      /\ Len(x.segs) = Len(st.segs) /\ x.segs[sid].base = st.segs[sid].base
      /\ x.segs[sid].size = st.segs[sid].size
      /\ x.segs[sid].ino = st.segs[sid].ino
  <2>1. /\ sid \in 1 .. Len(st.segs)
        /\ st.segs[sid].base = 0 \/ st.segs[sid].ino = f
    BY DEF GoodState, Good, ObjectsCounted
  <2>2. QED
    BY <1>1, <2>1 DEF SamePlaces
<1> HIDE DEF sid
<1>4. CASE x.err # "ok"
  <2>1. y = x
    BY <1>4 DEF Mmap
  <2> HIDE DEF y
  <2>2. MappedSoFar(y, st, s \cup {no}, f, tabs, u)
    BY <1>1, <1>4, <2>1 DEF MappedSoFar
  <2>3. QED
    BY <2>2 DEF y, sid
<1>5. ASSUME x.err = "ok", NEW errno \in {"ENOMEM", "EPERM"}, y = Throw(x, errno),
             no \notin SegNos \ {Uarea}
      PROVE  MappedSoFar(y, st, s \cup {no}, f, tabs, u)
  <2>1. /\ GoodState(y, tabs, u) /\ y.err = errno /\ y.heap = x.heap /\ y.objs = x.objs
        /\ y.segs = x.segs /\ y.tbl = x.tbl
    BY <1>1, <1>2, <1>5, ThrowState, ThrowGood DEF Errnos
  <2> HIDE DEF y
  <2>2. QED
    BY <1>1, <1>5, <2>1 DEF MappedSoFar
<1>6. CASE x.err = "ok" /\ no \notin SegNos
  <2>1. y = Throw(x, "ENOMEM")
    BY <1>6 DEF Mmap
  <2>2. MappedSoFar(y, st, s \cup {no}, f, tabs, u)
    BY <1>5, <1>6, <2>1
  <2>3. QED
    BY <2>2 DEF y, sid
<1>7. CASE x.err = "ok" /\ no \in SegNos /\ Valid(x.tbl[no])
  <2>1. no = Uarea
    BY <1>1, <1>7 DEF Unmapped
  <2>2. y = Throw(x, "EPERM")
    BY <1>7, <2>1 DEF Mmap
  <2>3. MappedSoFar(y, st, s \cup {no}, f, tabs, u)
    BY <1>5, <1>7, <2>1, <2>2
  <2>4. QED
    BY <2>3 DEF y, sid
<1>8. CASE x.err = "ok" /\ no \in SegNos /\ ~Valid(x.tbl[no])
  <2>1. sid \in 1 .. Len(x.segs) /\ (x.segs[sid].base = 0 \/ x.segs[sid].ino # NoFile)
    BY <1>2, <1>3
  <2>2. GoodState(y, tabs, u)
    BY <1>1, <1>8, <2>1, MmapGood
  <2>3. Mmaps(y, x, sid, no)
    BY <1>2, <1>8, <2>1, MmapDoes
  <2> HIDE DEF y
  <2>4. SamePlaces(y.segs, x.segs)
    BY <2>1, <2>3, ReplacedRefsKeepPlaces DEF Mmaps
  <2>5. SamePlaces(y.segs, st.segs)
    BY <1>1, <2>4 DEF SamePlaces
  <2>6. /\ y.heap = x.heap /\ y.objs = x.objs /\ y.err = "ok"
        /\ \A k \in SegNos : k # no => y.tbl[k] = x.tbl[k]
        /\ y.tbl[no].segid = sid /\ y.tbl[no].base = x.segs[sid].base
        /\ y.tbl[no].size = x.segs[sid].size /\ "VALID" \in y.tbl[no].flags
    BY <1>8, <2>3 DEF Mmaps
  <2>7. \A k \in s \cup {no} :
          /\ k \in SegNos /\ Valid(y.tbl[k])
          /\ y.tbl[k].segid = st.objs[f].map[k]
          /\ y.tbl[k].base = st.segs[st.objs[f].map[k]].base
          /\ y.tbl[k].size = st.segs[st.objs[f].map[k]].size
    <3>1. ASSUME NEW k \in s \cup {no}, k # no
          PROVE  /\ k \in SegNos /\ Valid(y.tbl[k])
                 /\ y.tbl[k].segid = st.objs[f].map[k]
                 /\ y.tbl[k].base = st.segs[st.objs[f].map[k]].base
                 /\ y.tbl[k].size = st.segs[st.objs[f].map[k]].size
      BY <1>1, <1>8, <2>6, <3>1
    <3>2. /\ no \in SegNos /\ Valid(y.tbl[no])
          /\ y.tbl[no].segid = st.objs[f].map[no]
          /\ y.tbl[no].base = st.segs[st.objs[f].map[no]].base
          /\ y.tbl[no].size = st.segs[st.objs[f].map[no]].size
      BY <1>3, <1>8, <2>6 DEF Valid, sid
    <3>3. QED
      BY <3>1, <3>2
  <2>8. MappedSoFar(y, st, s \cup {no}, f, tabs, u)
    BY <1>1, <2>2, <2>5, <2>6, <2>7 DEF MappedSoFar
  <2>9. QED
    BY <2>8 DEF y, sid
<1>9. QED
  BY <1>4, <1>6, <1>7, <1>8

LEMMA MapIsFinite ==
  ASSUME NEW tabs, NEW u, NEW st, GoodState(st, tabs, u), NEW f \in DOMAIN st.objs
  PROVE  DOMAIN st.objs[f].map \in SUBSET Int /\ IsFiniteSet(DOMAIN st.objs[f].map)
<1> DEFINE S == DOMAIN st.objs[f].map
<1>1. st \in State /\ IsFiniteSet(S)
  BY DEF GoodState, Good, ObjectsCounted
<1>2. PICK D \in SUBSET Files : st.objs \in [D -> Loaded]
  BY <1>1, StateFields DEF Caches
<1>3. st.objs[f].map \in Maps
  BY <1>2 DEF Loaded
<1>4. S \in SUBSET Nat
  BY <1>3 DEF Maps
<1>5. QED
  BY <1>1, <1>4

\* it takes the steps of the loop.
MapsAlong(it, st, f, g) ==
  /\ it[{}] = st
  /\ \A s \in SUBSET (DOMAIN st.objs[f].map) :
       s # {} /\ it[s \ {Max(s)}] \in State =>
         it[s] = Mmap(it[s \ {Max(s)}], st.objs[f].map[Max(s)], Max(s), g)

LEMMA MappedAlong ==
  ASSUME NEW tabs \in Tables, NEW u \in DOMAIN tabs, NEW st, GoodState(st, tabs, u),
         Unmapped(st), st.err = "ok", NEW f \in DOMAIN st.objs, NEW g,
         NEW it, MapsAlong(it, st, f, g)
  PROVE  \A s \in SUBSET (DOMAIN st.objs[f].map) :
           MappedSoFar(it[s], st, s, f, tabs, u)
<1> DEFINE S == DOMAIN st.objs[f].map
<1>0. S \in SUBSET Int /\ IsFiniteSet(S)
  BY MapIsFinite
<1> DEFINE good == {s \in SUBSET S : MappedSoFar(it[s], st, s, f, tabs, u)}
<1>1. st \in State /\ SamePlaces(st.segs, st.segs)
  BY StateFields DEF GoodState, SamePlaces
<1>2. {} \in good
  BY <1>1 DEF MappedSoFar, MapsAlong
<1>3. ASSUME NEW s \in SUBSET S, s # {} /\ s \ {Max(s)} \in good
      PROVE  s \in good
  <2> DEFINE m == Max(s)
  <2>1. m \in s
    BY <1>0, <1>3, MaxIsLargest, FS_Subset
  <2>2. MappedSoFar(it[s \ {m}], st, s \ {m}, f, tabs, u)
    BY <1>3
  <2>3. it[s \ {m}] \in State
    BY <2>2 DEF MappedSoFar, GoodState
  <2>4. it[s] = Mmap(it[s \ {m}], st.objs[f].map[m], m, g)
    BY <1>3, <2>3 DEF MapsAlong
  <2> HIDE DEF m
  <2>5. m \in S \ (s \ {m}) /\ s \ {m} \in SUBSET S /\ (s \ {m}) \cup {m} = s
    BY <2>1
  <2>6. MappedSoFar(Mmap(it[s \ {m}], st.objs[f].map[m], m, g), st,
                    (s \ {m}) \cup {m}, f, tabs, u)
    BY <2>2, <2>5, MapStep
  <2>7. QED
    BY <2>4, <2>5, <2>6
<1> HIDE DEF good
<1>4. \A s \in SUBSET S : s \in good
  BY <1>0, <1>2, <1>3, FoldInduction
<1>5. QED
  BY <1>4 DEF good

LEMMA MapSectionsMaps ==
  ASSUME NEW tabs \in Tables, NEW u \in DOMAIN tabs, NEW st, GoodState(st, tabs, u),
         Unmapped(st), st.err = "ok", NEW f \in DOMAIN st.objs, NEW g
  PROVE  MappedSoFar(MapSections(st, f, g), st, DOMAIN st.objs[f].map, f, tabs, u)
<1> DEFINE map == st.objs[f].map
           S == DOMAIN map
           E(it) == it = [s \in SUBSET S |->
                            IF s = {} THEN st
                            ELSE Mmap(it[s \ {Max(s)}], map[Max(s)], Max(s), g)]
           G == [p \in State \X S |-> Mmap(p[1], map[p[2]], p[2], g)]
<1>1. S \in SUBSET Int /\ IsFiniteSet(S)
  BY MapIsFinite
<1> HIDE DEF S, G
<1>2. PICK it : FoldsWith(it, S, st, G)
  BY <1>1, FoldExists
<1>2a. /\ it = [s \in SUBSET S |-> it[s]]
       /\ it[{}] = st
       /\ \A s \in SUBSET S : s # {} => it[s] = G[<<it[s \ {Max(s)}], Max(s)>>]
  BY <1>2, Zenon DEF FoldsWith
<1>3. \A s \in SUBSET S : s # {} => Max(s) \in S
  BY <1>1, MaxIsLargest, FS_Subset
<1>4. \A s \in SUBSET S : s # {} /\ it[s \ {Max(s)}] \in State =>
        it[s] = Mmap(it[s \ {Max(s)}], map[Max(s)], Max(s), g)
  BY <1>2a, <1>3 DEF G
<1>5. S = DOMAIN st.objs[f].map
  BY DEF S
<1>6. \A s \in SUBSET S : MappedSoFar(it[s], st, s, f, tabs, u)
  <2>1. MapsAlong(it, st, f, g)
    BY <1>2a, <1>4, <1>5 DEF MapsAlong
  <2>2. QED
    BY <1>5, <2>1, MappedAlong
<1>7. \A s \in SUBSET S : it[s] \in State
  BY <1>6 DEF MappedSoFar, GoodState
<1>8. E(it)
  <2>1. \A s \in SUBSET S : it[s] = IF s = {} THEN st
                 ELSE Mmap(it[s \ {Max(s)}], map[Max(s)], Max(s), g)
    BY <1>2a, <1>4, <1>7
  <2>2. QED
    BY <1>2a, <2>1, Zenon
<1> DEFINE chosen == CHOOSE it_ : E(it_)
<1>9. E(chosen)
  <2> HIDE DEF E
  <2>1. QED
    BY <1>8
<1>10. MapSections(st, f, g) = chosen[S]
  BY Zenon DEF MapSections, Ascending, MapThenFoldSet, S
<1> HIDE DEF chosen
<1>11. MappedSoFar(chosen[S], st, S, f, tabs, u)
  <2>1. chosen[{}] = st
    BY <1>9
  <2>2. \A s \in SUBSET S : s # {} /\ chosen[s \ {Max(s)}] \in State =>
          chosen[s] = Mmap(chosen[s \ {Max(s)}], map[Max(s)], Max(s), g)
    BY <1>9
  <2>3. \A s \in SUBSET S : MappedSoFar(chosen[s], st, s, f, tabs, u)
    <3>1. MapsAlong(chosen, st, f, g)
      BY <1>5, <2>1, <2>2 DEF MapsAlong
    <3>2. QED
      BY <1>5, <3>1, MappedAlong
  <2>4. QED
    BY <2>3
<1>12. QED
  BY <1>10, <1>11 DEF S

-----------------------------------------------------------------------------
(* exec *)

\* The four parts of exec, one after the other, as far as none of them throws.
LEMMA ImageSteps ==
  ASSUME NEW tabs \in Tables, NEW u \in DOMAIN tabs, NEW st, GoodState(st, tabs, u),
         st.err = "ok", NEW f, NEW g,
         \A k \in SegNos : Valid(st.tbl[k]) => g[st.tbl[k].segid] \in Benign
  PROVE  \E a, b, d :
           /\ Freed(a, st, SegNos \ {Uarea}, tabs, u)
           /\ Stacked(b, a, tabs, u)
           /\ \/ b.err # "ok" /\ Image(st, f, g) = b
              \/ /\ b.err = "ok" /\ LoadsFile(d, b, f, tabs, u)
                 /\ \/ d.err # "ok" /\ Image(st, f, g) = d
                    \/ /\ d.err = "ok" /\ Unmapped(d)
                       /\ MappedSoFar(Image(st, f, g), d, DOMAIN d.objs[f].map, f,
                                      tabs, u)
<1> DEFINE a == FreeSegs(st, g)
           b == MapStack(a, g)
           d == Load(b, f)
           x == MapSections(d, f, g)
<1>1. Freed(a, st, SegNos \ {Uarea}, tabs, u)
  BY FreeSegsFrees
<1>2. x = Image(st, f, g)
  BY DEF Image
<1> HIDE DEF a
<1>3. GoodState(a, tabs, u) /\ a.err = "ok" /\ \A k \in SegNos \ {Uarea} : ~Valid(a.tbl[k])
  BY <1>1 DEF Freed
<1>4. ~Valid(a.tbl[0])
  BY <1>3, Constants
<1>5. Stacked(b, a, tabs, u)
  BY <1>3, <1>4, MapStackStacks
<1> HIDE DEF b
<1>6. GoodState(b, tabs, u) /\ \A k \in SegNos \ {Uarea} : ~Valid(b.tbl[k])
  BY <1>3, <1>5 DEF Stacked
<1>7. CASE b.err # "ok"
  <2>1. d = b
    BY <1>7 DEF Load
  <2> HIDE DEF d
  <2>2. x = d
    BY <1>7, <2>1 DEF MapSections
  <2>3. QED
    BY <1>1, <1>2, <1>5, <1>7, <2>1, <2>2
<1>8. CASE b.err = "ok"
  <2>1. LoadsFile(d, b, f, tabs, u)
    BY <1>6, <1>8, LoadLoads
  <2> HIDE DEF d
  <2>2. GoodState(d, tabs, u) /\ d.tbl = b.tbl /\ (d.err = "ok" => f \in DOMAIN d.objs)
    BY <2>1 DEF LoadsFile
  <2>3. CASE d.err # "ok"
    <3>1. x = d
      BY <2>3 DEF MapSections
    <3>2. QED
      BY <1>1, <1>2, <1>5, <1>8, <2>1, <2>3, <3>1
  <2>4. CASE d.err = "ok"
    <3>1. Unmapped(d)
      BY <1>6, <2>2 DEF Unmapped
    <3>2. MappedSoFar(x, d, DOMAIN d.objs[f].map, f, tabs, u)
      BY <2>2, <2>4, <3>1, MapSectionsMaps
    <3> HIDE DEF x
    <3>3. QED
      BY <1>1, <1>2, <1>5, <1>8, <2>1, <2>4, <3>1, <3>2
  <2>5. QED
    BY <2>3, <2>4
<1>9. QED
  BY <1>7, <1>8

LEMMA ImageGood ==
  ASSUME NEW tabs \in Tables, NEW u \in DOMAIN tabs, NEW st, GoodState(st, tabs, u),
         st.err = "ok", NEW f, NEW g,
         \A k \in SegNos : Valid(st.tbl[k]) => g[st.tbl[k].segid] \in Benign
  PROVE  GoodState(Image(st, f, g), tabs, u)
         /\ Len(Image(st, f, g).segs) >= Len(st.segs)
<1>1. PICK a, b, d :
           /\ Freed(a, st, SegNos \ {Uarea}, tabs, u)
           /\ Stacked(b, a, tabs, u)
           /\ \/ b.err # "ok" /\ Image(st, f, g) = b
              \/ /\ b.err = "ok" /\ LoadsFile(d, b, f, tabs, u)
                 /\ \/ d.err # "ok" /\ Image(st, f, g) = d
                    \/ /\ d.err = "ok" /\ Unmapped(d)
                       /\ MappedSoFar(Image(st, f, g), d, DOMAIN d.objs[f].map, f,
                                      tabs, u)
  BY ImageSteps
<1>2. GoodState(Image(st, f, g), tabs, u)
  BY <1>1 DEF Stacked, LoadsFile, MappedSoFar
<1>3. st \in State /\ Len(st.segs) \in Nat
  BY StateFields DEF GoodState
<1>4. Len(a.segs) = Len(st.segs) /\ Len(b.segs) >= Len(a.segs)
  BY <1>1 DEF Freed, Released, Stacked, Extends
<1>5. CASE b.err # "ok"
  BY <1>1, <1>2, <1>4, <1>5
<1>6. CASE b.err = "ok"
  <2>1. Len(d.segs) >= Len(b.segs) /\ d \in State /\ b \in State
        /\ (Image(st, f, g) = d \/ Len(Image(st, f, g).segs) = Len(d.segs))
    BY <1>1, <1>6 DEF LoadsFile, Extends, MappedSoFar, SamePlaces, Stacked, GoodState
  <2>2. Len(d.segs) \in Nat /\ Len(b.segs) \in Nat
    BY <2>1, StateFields
  <2>3. QED
    BY <1>2, <1>3, <1>4, <2>1, <2>2
<1>7. QED
  BY <1>5, <1>6

-----------------------------------------------------------------------------
(* fork *)

\* A table for the segment just appended joins the others; what it maps counts it.
ProcessJoins(next, t2, ss, tabs, mid, pf, n, tbl) ==
  /\ n = Len(ss) + 1 /\ Appended(mid, ss, 1, pf, Page, NoFile)
  /\ tbl \in Table
  /\ tbl[Uarea] = [segid |-> n, base |-> pf, size |-> Page,
                   flags |-> {"SUPER", "READ", "WRITE"}]
  /\ \A no \in SegNos \ {Uarea} : Means(ss, tbl[no])
  /\ SamePlaces(next, mid)
  /\ \A sid \in 1 .. n :
       next[sid].refs = mid[sid].refs
         + Cardinality({no \in SegNos \ {Uarea} : Hits(tbl[no], sid)})
  /\ DOMAIN t2 = DOMAIN tabs \cup {n} /\ t2[n] = tbl
  /\ \A v \in DOMAIN tabs : t2[v] = tabs[v]

LEMMA NewProcess ==
  ASSUME NEW h \in Heaps, NEW ss \in Seq(Segment), NEW os \in Caches,
         NEW tabs \in Tables, Good(h, ss, os, tabs), HasRoom(h, Page),
         NEW pf, pf = Place(h, PagesFor(Page)),
         NEW h2, h2 = WithBlock(h, PagesFor(Page), pf),
         NEW mid, NEW n, NEW tbl, NEW next, NEW t2,
         ProcessJoins(next, t2, ss, tabs, mid, pf, n, tbl)
  PROVE  h2 \in Heaps /\ Good(h2, next, os, t2)
<1>0. /\ n = Len(ss) + 1 /\ Appended(mid, ss, 1, pf, Page, NoFile)
      /\ tbl \in Table
      /\ tbl[Uarea] = [segid |-> n, base |-> pf, size |-> Page,
                       flags |-> {"SUPER", "READ", "WRITE"}]
      /\ \A no \in SegNos \ {Uarea} : Means(ss, tbl[no])
      /\ SamePlaces(next, mid)
      /\ \A sid \in 1 .. n :
           next[sid].refs = mid[sid].refs
             + Cardinality({no \in SegNos \ {Uarea} : Hits(tbl[no], sid)})
      /\ DOMAIN t2 = DOMAIN tabs \cup {n} /\ t2[n] = tbl
      /\ \A v \in DOMAIN tabs : t2[v] = tabs[v]
  BY DEF ProcessJoins
<1>1. Tiled(h) /\ Placed(h, ss) /\ Meant(ss, tabs) /\ RefsCounted(ss, tabs)
      /\ ObjectsCounted(ss, os)
  BY <1>0 DEF Good
<1>2. Page \in Nat \ {0} /\ Uarea \in SegNos /\ Len(ss) \in Nat
  BY <1>0, Constants
<1>3. /\ h2 \in Heaps /\ Tiled(h2) /\ pf # 0
      /\ Placed(h2, mid) /\ Meant(mid, tabs)
      /\ \A sid \in 1 .. Len(ss) :
           mid[sid].refs = Cardinality(MappingsIn(tabs, sid)) + Held(mid[sid])
      /\ Cardinality(MappingsIn(tabs, Len(ss) + 1)) = 0
  BY <1>0, <1>1, <1>2, AppendKeeps
<1>4. ObjectsCounted(mid, os)
  BY <1>0, <1>1, AppendAnonymous
<1>5. /\ mid \in Seq(Segment) /\ Len(mid) = n /\ mid[n].refs = 1 /\ mid[n].base = pf
      /\ mid[n].size = Page /\ mid[n].ino = NoFile
      /\ \A k \in 1 .. Len(ss) : mid[k] = ss[k]
  BY <1>0 DEF Appended
<1>6. /\ Placed(h2, next) /\ ObjectsCounted(next, os)
      /\ \A e \in Entry : Means(mid, e) => Means(next, e)
  BY <1>0, <1>2, <1>3, <1>4, <1>5, PlacesKept
<1>7. Len(next) = n /\ n \in Nat
  BY <1>0, <1>2, <1>5 DEF SamePlaces
<1>8. ASSUME NEW no \in SegNos
      PROVE  tbl[no] \in Entry /\ Means(mid, tbl[no])
  <2>1. tbl[no] \in Entry
    BY <1>0 DEF Table
  <2>2. CASE no = Uarea
    <3>1. /\ tbl[no].segid = n /\ tbl[no].base = pf /\ tbl[no].size = Page
          /\ "VALID" \notin tbl[no].flags
      BY <1>0, <2>2
    <3>2. QED
      BY <1>0, <1>2, <1>3, <1>5, <1>7, <2>1, <3>1 DEF Means, Valid
  <2>3. CASE no # Uarea
    <3>1. Means(ss, tbl[no])
      BY <1>0, <2>3
    <3>2. tbl[no].segid \in 0 .. n
      BY <1>0, <1>2, <3>1 DEF Means
    <3>3. tbl[no].flags # {} =>
            tbl[no].segid \in 1 .. Len(ss) /\ mid[tbl[no].segid] = ss[tbl[no].segid]
      BY <1>0, <1>2, <1>5, <3>1 DEF Means
    <3>4. Means(mid, tbl[no])
      BY <1>0, <1>5, <3>1, <3>2, <3>3 DEF Means
    <3>5. QED
      BY <1>0, <2>1, <3>4
  <2>4. QED
    BY <1>0, <2>2, <2>3
<1>9. DOMAIN tabs \subseteq 1 .. Len(ss) /\ n \notin DOMAIN tabs
  BY <1>0, <1>1, <1>2 DEF Meant
<1>10. Meant(next, t2)
  <2>1. DOMAIN t2 \subseteq 1 .. Len(next)
    BY <1>0, <1>2, <1>7, <1>9
  <2>2. ASSUME NEW v \in DOMAIN t2, NEW k \in SegNos
        PROVE  Means(next, t2[v][k])
    <3>1. CASE v = n
      BY <1>0, <1>6, <1>8, <3>1
    <3>2. CASE v # n
      <4>1. v \in DOMAIN tabs /\ t2[v] = tabs[v] /\ tabs[v][k] \in Entry
        BY <1>0, <3>2, TablesEntries
      <4>2. Means(mid, tabs[v][k])
        BY <1>0, <1>3, <4>1 DEF Meant
      <4>3. QED
        BY <1>0, <1>6, <4>1, <4>2
    <3>3. QED
      BY <1>0, <3>1, <3>2
  <2>3. QED
    BY <1>0, <2>1, <2>2 DEF Meant
<1>11. ASSUME NEW sid
       PROVE  /\ Cardinality(MappingsIn(t2, sid))
                   = Cardinality(MappingsIn(tabs, sid))
                     + Cardinality({no \in SegNos \ {Uarea} : Hits(tbl[no], sid)})
              /\ Cardinality(MappingsIn(tabs, sid)) \in Nat
              /\ Cardinality({no \in SegNos \ {Uarea} : Hits(tbl[no], sid)}) \in Nat
  <2> DEFINE A == {no \in SegNos \ {Uarea} : Hits(tbl[no], sid)}
             old == MappingsIn(tabs, sid)
  <2>1. IsFiniteSet(DOMAIN tabs)
    <3>1. IsFiniteSet(1 .. Len(ss)) /\ DOMAIN tabs \in SUBSET (1 .. Len(ss))
      BY <1>0, <1>2, <1>9, FS_Interval
    <3>2. QED
      BY <1>0, <3>1, FS_Subset
  <2>2. IsFiniteSet(old) /\ Cardinality(old) \in Nat
    BY <1>0, <2>1, MappingsAreFinite
  <2>3. IsFiniteSet(A) /\ Cardinality(A) \in Nat
    <3>1. IsFiniteSet(SegNos) /\ A \in SUBSET SegNos
      BY <1>0, Constants
    <3> HIDE DEF A
    <3>2. QED
      BY <1>0, <3>1, FS_Subset, FS_CardinalityType
  <2>4. ~Valid(tbl[Uarea])
    BY <1>0 DEF Valid
  <2>5. MappingsIn(t2, sid) = old \cup ({n} \X A)
    BY <1>0, <1>9, <2>4 DEF MappingsIn, Hits
  <2>6. old \cap ({n} \X A) = {}
    BY <1>0, <1>9 DEF MappingsIn
  <2> HIDE DEF A, old
  <2>7. IsFiniteSet({n}) /\ Cardinality({n}) = 1
    BY <1>0, FS_Singleton
  <2>8. IsFiniteSet({n} \X A) /\ Cardinality({n} \X A) = Cardinality(A)
    <3>1. IsFiniteSet({n} \X A) /\ Cardinality({n} \X A) = Cardinality({n}) * Cardinality(A)
      BY <1>0, <2>3, <2>7, FS_Product
    <3>2. QED
      BY <1>0, <2>3, <2>7, <3>1
  <2>9. Cardinality(old \cup ({n} \X A))
          = Cardinality(old) + Cardinality({n} \X A) - Cardinality(old \cap ({n} \X A))
    BY <1>0, <2>2, <2>8, FS_Union
  <2>10. Cardinality(old \cap ({n} \X A)) = 0
    BY <1>0, <2>6, FS_EmptySet
  <2>11. QED
    BY <1>0, <2>2, <2>3, <2>5, <2>8, <2>9, <2>10 DEF A, old
<1>12. RefsCounted(next, t2)
  <2>1. ASSUME NEW sid \in 1 .. n
        PROVE  next[sid].refs = Cardinality(MappingsIn(t2, sid)) + Held(next[sid])
    <3>1. Held(next[sid]) = Held(mid[sid]) /\ Held(mid[sid]) \in {0, 1}
      BY <1>0, <1>5 DEF Held, SamePlaces
    <3>2. mid[sid].refs = Cardinality(MappingsIn(tabs, sid)) + Held(mid[sid])
      <4>1. CASE sid = n
        BY <1>0, <1>3, <1>5, <4>1 DEF Held
      <4>2. CASE sid # n
        BY <1>0, <1>2, <1>3, <4>2
      <4>3. QED
        BY <1>0, <4>1, <4>2
    <3> DEFINE more == Cardinality({no \in SegNos \ {Uarea} : Hits(tbl[no], sid)})
               was == Cardinality(MappingsIn(tabs, sid))
               is == Cardinality(MappingsIn(t2, sid))
    <3>3. next[sid].refs = mid[sid].refs + more
      BY <1>0
    <3>4. is = was + more /\ was \in Nat /\ more \in Nat
      BY <1>0, <1>11
    <3>5. mid[sid].refs = was + Held(mid[sid])
      BY <1>0, <3>2
    <3> HIDE DEF more, was, is
    <3>6. next[sid].refs = is + Held(next[sid])
      BY <1>0, <3>1, <3>3, <3>4, <3>5
    <3>7. QED
      BY <1>0, <3>6 DEF is
  <2>2. QED
    BY <1>0, <1>7, <2>1 DEF RefsCounted
<1>13. QED
  BY <1>0, <1>3, <1>6, <1>10, <1>12 DEF Good

\* A new segment with its one reference: a Process structure's.
LEMMA FirstReference ==
  ASSUME NEW ss \in Seq(Segment), NEW got, NEW pf, NEW size,
         Appended(got, ss, 0, pf, size, NoFile)
  PROVE  Appended([got EXCEPT ![Len(got)].refs = 1], ss, 1, pf, size, NoFile)
<1> DEFINE n == Len(ss) + 1
           next == [got EXCEPT ![n] = [got[n] EXCEPT !.refs = 1]]
<1>1. Len(ss) \in Nat /\ got \in Seq(Segment) /\ Len(got) = n /\ n \in 1 .. Len(got)
  BY DEF Appended
<1>2. Replaced(next, got, n, 1, got[n].base, got[n].size, got[n].ino)
  BY <1>1, RefsReplaced
<1>3. Appended(next, ss, 1, pf, size, NoFile)
  BY <1>1, <1>2 DEF Appended, Replaced
<1>4. QED
  BY <1>1, <1>3

LEMMA CountedCounts ==
  ASSUME NEW ss \in Seq(Segment), NEW tbl
  PROVE  /\ SamePlaces(Counted(ss, tbl), ss)
         /\ \A sid \in 1 .. Len(ss) :
              Counted(ss, tbl)[sid].refs
                = ss[sid].refs
                  + Cardinality({no \in SegNos \ {Uarea} : Hits(tbl[no], sid)})
<1> DEFINE A(sid) == {no \in SegNos \ {Uarea} : Hits(tbl[no], sid)}
           s2(sid) == [ss[sid] EXCEPT !.refs = ss[sid].refs + Cardinality(A(sid))]
<1>1. ASSUME NEW sid PROVE Cardinality(A(sid)) \in Nat
  <2>1. A(sid) \in SUBSET SegNos /\ IsFiniteSet(SegNos)
    BY Constants
  <2> HIDE DEF A
  <2>2. QED
    BY <2>1, FS_Subset, FS_CardinalityType
<1>2. Counted(ss, tbl) = [sid \in 1 .. Len(ss) |-> s2(sid)]
  BY DEF Counted, Hits
<1> HIDE DEF A
<1>3. ASSUME NEW sid \in 1 .. Len(ss)
      PROVE  /\ s2(sid) \in Segment /\ s2(sid).refs = ss[sid].refs + Cardinality(A(sid))
             /\ s2(sid).base = ss[sid].base /\ s2(sid).size = ss[sid].size
             /\ s2(sid).ino = ss[sid].ino
  <2>1. ss[sid] \in Segment /\ ss[sid].refs \in Nat
    BY SegmentFields
  <2> DEFINE m == ss[sid].refs + Cardinality(A(sid))
  <2>2. m \in Nat
    BY <1>1, <2>1
  <2> HIDE DEF m
  <2>3. [ss[sid] EXCEPT !.refs = m] \in Segment
    BY <2>1, <2>2 DEF Segment
  <2>4. /\ [ss[sid] EXCEPT !.refs = m].refs = m
        /\ [ss[sid] EXCEPT !.refs = m].base = ss[sid].base
        /\ [ss[sid] EXCEPT !.refs = m].size = ss[sid].size
        /\ [ss[sid] EXCEPT !.refs = m].ino = ss[sid].ino
    BY <2>1 DEF Segment
  <2>5. QED
    BY <2>3, <2>4 DEF m
<1> HIDE DEF s2
<1>4. Len(ss) \in Nat
  OBVIOUS
<1>5. /\ Counted(ss, tbl) \in Seq(Segment) /\ Len(Counted(ss, tbl)) = Len(ss)
      /\ \A sid \in 1 .. Len(ss) : Counted(ss, tbl)[sid] = s2(sid)
  BY <1>2, <1>3, <1>4
<1>6. QED
  BY <1>3, <1>5 DEF SamePlaces, A

-----------------------------------------------------------------------------
(* The inductive invariant *)

MemoryInv ==
  /\ heap \in Heaps /\ segs \in Seq(Segment) /\ objs \in Caches /\ tables \in Tables
  /\ Good(heap, segs, objs, tables)

\* The part of TypeOK that is not about memory, and where the bootstrap is.
ControlInv ==
  /\ DOMAIN procs \subseteq 1 .. PidLimit - 1
  /\ \A p \in DOMAIN procs : procs[p] \in DOMAIN tables
  /\ npid \in 2 .. PidLimit
  /\ cur \in DOMAIN tables \cup {0} /\ len \in {0, NSeg}
  /\ ret \in Errnos \cup {"ok", "Fault"} /\ c \in BOOLEAN /\ su \in BOOLEAN
  /\ boot \in {"reset", "forked", "mapped", "sized", "execd", "user"}
  /\ status \in {"running", "halted", "crashed"}
  /\ boot # "reset" => 1 \in DOMAIN procs
  /\ boot \notin {"reset", "forked"} => cur \in DOMAIN tables

KernelInv == MemoryInv /\ ControlInv

LEMMA InitKernel == Init => KernelInv
<1> SUFFICES ASSUME Init PROVE KernelInv
  OBVIOUS
<1>1. heap = EmptyHeap /\ segs = <<>> /\ objs = <<>> /\ tables = <<>> /\ procs = <<>>
  BY DEF Init
<1>2. heap \in Heaps /\ Tiled(heap)
  BY <1>1, EmptyHeapIsTiled
<1>3. segs \in Seq(Segment) /\ Len(segs) = 0
  BY <1>1
<1>4. DOMAIN objs = {} /\ DOMAIN tables = {} /\ DOMAIN procs = {}
  BY <1>1
<1>5. objs \in [{} -> Loaded] /\ tables \in [{} -> Table]
  BY <1>1
<1>6. objs \in Caches /\ tables \in Tables
  BY <1>5 DEF Caches, Tables
<1>7. Good(heap, segs, objs, tables)
  BY <1>2, <1>3, <1>4 DEF Good, Placed, Meant, RefsCounted, ObjectsCounted
<1>8. ControlInv
  <2>1. 2 \in 2 .. PidLimit
    BY KernelAssumption, HeapAssumption
  <2>2. c \in BOOLEAN /\ su \in BOOLEAN
    BY DEF Init
  <2>3. /\ ret \in Errnos \cup {"ok", "Fault"} /\ status = "running" /\ boot = "reset"
        /\ cur = 0 /\ len = 0 /\ npid = 2
    BY DEF Init
  <2>4. QED
    BY <1>4, <2>1, <2>2, <2>3 DEF ControlInv
<1>9. QED
  BY <1>2, <1>3, <1>6, <1>7, <1>8 DEF KernelInv, MemoryInv

LEMMA JoinedTables ==
  ASSUME NEW tabs \in Tables, NEW n \in Nat, NEW tbl \in Table
  PROVE  Joined(tabs, n, tbl) \in Tables
<1>1. PICK D \in SUBSET Nat : tabs \in [D -> Table]
  BY DEF Tables
<1>2. Joined(tabs, n, tbl) \in [D \cup {n} -> Table]
  BY <1>1 DEF Joined
<1>3. QED
  BY <1>2 DEF Tables

LEMMA NewTableIs ==
  ASSUME NEW sid \in Nat, NEW base \in Nat
  PROVE  /\ NewTable(sid, base) \in Table
         /\ NewTable(sid, base)[Uarea] = [segid |-> sid, base |-> base, size |-> Page,
                                          flags |-> {"SUPER", "READ", "WRITE"}]
         /\ \A no \in SegNos \ {Uarea} : NewTable(sid, base)[no] = NoEntry
<1>1. NoEntry \in Entry
  BY DEF NoEntry, Entry
<1>2. [segid |-> sid, base |-> base, size |-> Page,
       flags |-> {"SUPER", "READ", "WRITE"}] \in Entry
  BY Constants DEF Entry, Flag
<1>3. QED
  BY <1>1, <1>2, Constants DEF NewTable, Table

\* The first process joins the others with a table that maps nothing.
LEMMA BootForkJoins ==
  ASSUME MemoryInv, BootFork
  PROVE  LET pf == Place(heap, PagesFor(Page))
             n  == Len(segs) + 1
         IN  /\ HasRoom(heap, Page)
             /\ heap' = WithBlock(heap, PagesFor(Page), pf)
             /\ \E mid : ProcessJoins(segs', tables', segs, tables, mid, pf, n,
                                      NewTable(n, pf))
             /\ \A no \in SegNos \ {Uarea} : NewTable(n, pf)[no] = NoEntry
             /\ tables' \in Tables
             /\ procs' = Joined(procs, 1, n)
<1> DEFINE got == Salloc([heap |-> heap, segs |-> segs, err |-> "ok"], Page, NoFile, {})
           sid == Len(got.segs)
           pf == Place(heap, PagesFor(Page))
           h2 == WithBlock(heap, PagesFor(Page), pf)
           s == [refs |-> 0, base |-> pf, size |-> Page, ino |-> NoFile, flags |-> {}]
           tbl == NewTable(sid, pf)
<1>1. /\ heap \in Heaps /\ segs \in Seq(Segment) /\ objs \in Caches /\ tables \in Tables
      /\ Good(heap, segs, objs, tables) /\ Tiled(heap)
  BY DEF MemoryInv, Good
<1>2. HasRoom(heap, Page) /\ Page \in Nat \ {0} /\ Len(segs) \in Nat
  BY <1>1, Constants DEF BootFork
<1>3. pf \in Nat
  BY <1>1, <1>2, NewBlock, Constants
<1>4. s \in Segment
  BY <1>2, <1>3 DEF Segment
<1>5. got.heap = h2 /\ got.segs = Append(segs, s)
  BY <1>2 DEF Salloc
<1>6. s.refs = 0 /\ s.base = pf /\ s.size = Page /\ s.ino = NoFile
  OBVIOUS
<1> HIDE DEF s, pf, h2
<1>7. Appended(Append(segs, s), segs, 0, pf, Page, NoFile)
  BY <1>1, <1>4, <1>6, AppendAppends
<1> HIDE DEF got
<1>8. Appended(got.segs, segs, 0, pf, Page, NoFile)
  BY <1>5, <1>7
<1>9. sid = Len(segs) + 1 /\ got.segs[sid].base = pf /\ sid \in Nat
  BY <1>2, <1>8 DEF Appended
<1>10. /\ heap' = h2 /\ segs' = [got.segs EXCEPT ![sid].refs = 1]
       /\ tables' = Joined(tables, sid, NewTable(sid, got.segs[sid].base))
       /\ procs' = Joined(procs, 1, sid) /\ boot' = "forked" /\ ret' = "ok"
       /\ c' = ("ok" \in Errnos) /\ boot = "reset"
       /\ objs' = objs /\ npid' = npid /\ cur' = cur /\ len' = len /\ su' = su
       /\ status' = status
  BY <1>5 DEF BootFork, Returns, got
<1>11. tables' = Joined(tables, sid, tbl)
  BY <1>9, <1>10
<1>12. Appended(segs', segs, 1, pf, Page, NoFile)
  BY <1>1, <1>8, <1>10, FirstReference
<1>13. /\ tbl \in Table
       /\ tbl[Uarea] = [segid |-> sid, base |-> pf, size |-> Page,
                        flags |-> {"SUPER", "READ", "WRITE"}]
       /\ \A no \in SegNos \ {Uarea} : tbl[no] = NoEntry
  BY <1>3, <1>9, NewTableIs
<1> HIDE DEF tbl, sid
<1>14. \A no \in SegNos \ {Uarea} : Means(segs, tbl[no])
  BY <1>2, <1>13 DEF Means, NoEntry
<1>15. SamePlaces(segs', segs') /\ segs' \in Seq(Segment) /\ Len(segs') = sid
  BY <1>9, <1>12 DEF SamePlaces, Appended
<1>16. ASSUME NEW k \in 1 .. sid
       PROVE  segs'[k].refs = segs'[k].refs
                + Cardinality({no \in SegNos \ {Uarea} : Hits(tbl[no], k)})
  <2>1. {no \in SegNos \ {Uarea} : Hits(tbl[no], k)} = {}
    BY <1>13 DEF Hits, Valid, NoEntry
  <2>2. Cardinality({no \in SegNos \ {Uarea} : Hits(tbl[no], k)}) = 0
    BY <2>1, FS_EmptySet
  <2>3. segs'[k].refs \in Nat
    BY <1>15, SegmentFields
  <2>4. QED
    BY <2>2, <2>3
<1>17. /\ DOMAIN tables' = DOMAIN tables \cup {sid} /\ tables'[sid] = tbl
       /\ \A v \in DOMAIN tables : v # sid => tables'[v] = tables[v]
  BY <1>11 DEF Joined
<1>18. sid \notin DOMAIN tables
  BY <1>1, <1>2, <1>9 DEF Good, Meant
<1>19. \E mid : ProcessJoins(segs', tables', segs, tables, mid, pf, sid, tbl)
  <2>1. \A v \in DOMAIN tables : tables'[v] = tables[v]
    BY <1>17, <1>18
  <2> DEFINE next == segs'
             t2 == tables'
  <2>2. /\ Appended(next, segs, 1, pf, Page, NoFile) /\ SamePlaces(next, next)
        /\ \A k \in 1 .. sid :
             next[k].refs = next[k].refs
               + Cardinality({no \in SegNos \ {Uarea} : Hits(tbl[no], k)})
        /\ DOMAIN t2 = DOMAIN tables \cup {sid} /\ t2[sid] = tbl
        /\ \A v \in DOMAIN tables : t2[v] = tables[v]
    BY <1>12, <1>15, <1>16, <1>17, <2>1
  <2> HIDE DEF next, t2
  <2>3. ProcessJoins(next, t2, segs, tables, next, pf, sid, tbl)
    BY <1>9, <1>13, <1>14, <2>2 DEF ProcessJoins
  <2>4. QED
    BY <2>3 DEF next, t2
<1>20. tables' \in Tables
  BY <1>1, <1>9, <1>11, <1>13, JoinedTables
<1>21. /\ heap' = WithBlock(heap, PagesFor(Page), pf)
       /\ procs' = Joined(procs, 1, sid)
  BY <1>10 DEF h2
<1>22. /\ sid = Len(segs) + 1 /\ pf = Place(heap, PagesFor(Page))
       /\ tbl = NewTable(sid, pf)
  BY <1>9 DEF pf, tbl
<1> HIDE DEF pf
<1>23. QED
  BY <1>2, <1>13, <1>19, <1>20, <1>21, <1>22

LEMMA BootForkKeeps ==
  ASSUME KernelInv, BootFork
  PROVE  KernelInv'
<1> DEFINE pf == Place(heap, PagesFor(Page))
           sid == Len(segs) + 1
           tbl == NewTable(sid, pf)
<1>1. MemoryInv /\ ControlInv
  BY DEF KernelInv
<1>2. /\ HasRoom(heap, Page) /\ heap' = WithBlock(heap, PagesFor(Page), pf)
      /\ \E mid : ProcessJoins(segs', tables', segs, tables, mid, pf, sid, tbl)
      /\ tables' \in Tables /\ procs' = Joined(procs, 1, sid)
  BY <1>1, BootForkJoins
<1>3. /\ boot' = "forked" /\ ret' = "ok" /\ c' = ("ok" \in Errnos) /\ boot = "reset"
      /\ objs' = objs /\ npid' = npid /\ cur' = cur /\ len' = len /\ su' = su
      /\ status' = status
  BY DEF BootFork, Returns
<1> HIDE DEF tbl, sid, pf
<1>4. PICK mid : ProcessJoins(segs', tables', segs, tables, mid, pf, sid, tbl)
  BY <1>2
<1>5. heap' \in Heaps /\ Good(heap', segs', objs, tables')
  <2> DEFINE next == segs'
             t2 == tables'
             h2 == heap'
  <2>1. /\ ProcessJoins(next, t2, segs, tables, mid, pf, sid, tbl)
        /\ h2 = WithBlock(heap, PagesFor(Page), pf)
    BY <1>2, <1>4
  <2> HIDE DEF next, t2, h2
  <2>2. h2 \in Heaps /\ Good(h2, next, objs, t2)
    BY <1>1, <1>2, <2>1, NewProcess DEF MemoryInv, pf
  <2>3. QED
    BY <2>2 DEF next, t2, h2
<1>6. segs' \in Seq(Segment) /\ DOMAIN tables' = DOMAIN tables \cup {sid}
  BY <1>4 DEF ProcessJoins, SamePlaces
<1>7. MemoryInv'
  BY <1>1, <1>2, <1>3, <1>5, <1>6 DEF MemoryInv
<1>8. /\ DOMAIN procs' = DOMAIN procs \cup {1}
      /\ \A p \in DOMAIN procs' :
           procs'[p] = sid \/ (p \in DOMAIN procs /\ procs'[p] = procs[p])
  BY <1>2 DEF Joined
<1>9. ControlInv'
  <2>1. 1 \in 1 .. PidLimit - 1
    BY KernelAssumption, HeapAssumption
  <2>2. ControlInv
    BY DEF KernelInv
  <2>3. c' \in BOOLEAN
    BY <1>3
  <2>4. ret' \in Errnos \cup {"ok", "Fault"}
    BY <1>3
  <2>5. DOMAIN procs' \subseteq 1 .. PidLimit - 1
    BY <1>8, <2>1, <2>2 DEF ControlInv
  <2>6. \A p \in DOMAIN procs' : procs'[p] \in DOMAIN tables'
    BY <1>6, <1>8, <2>2 DEF ControlInv
  <2>7. cur' \in DOMAIN tables' \cup {0}
    BY <1>3, <1>6, <2>2 DEF ControlInv
  <2>8. su' \in BOOLEAN
    BY <1>3, <2>2, Zenon DEF ControlInv
  <2>9. /\ npid' \in 2 .. PidLimit /\ len' \in {0, NSeg}
        /\ status' \in {"running", "halted", "crashed"}
        /\ boot' \in {"reset", "forked", "mapped", "sized", "execd", "user"}
        /\ boot' # "reset" => 1 \in DOMAIN procs'
        /\ boot' \notin {"reset", "forked"} => cur' \in DOMAIN tables'
    BY <1>3, <1>8, <2>2 DEF ControlInv
  <2>10. QED
    BY <2>3, <2>4, <2>5, <2>6, <2>7, <2>8, <2>9, Zenon DEF ControlInv
<1>10. QED
  BY <1>7, <1>9 DEF KernelInv

LEMMA CurrentIsGood ==
  ASSUME MemoryInv, cur \in DOMAIN tables
  PROVE  GoodState(Current("ok"), tables, cur)
<1> DEFINE st == Current("ok")
<1>1. /\ heap \in Heaps /\ segs \in Seq(Segment) /\ objs \in Caches /\ tables \in Tables
      /\ Good(heap, segs, objs, tables)
  BY DEF MemoryInv
<1>2. tables[cur] \in Table
  BY <1>1, TablesEntries
<1>3. /\ st.heap = heap /\ st.segs = segs /\ st.objs = objs /\ st.tbl = tables[cur]
      /\ st.err = "ok"
  BY DEF Current
<1>4. st \in State
  BY <1>1, <1>2 DEF Current, State
<1>5. [tables EXCEPT ![cur] = tables[cur]] = tables
  <2>1. PICK D \in SUBSET Nat : tables \in [D -> Table]
    BY <1>1 DEF Tables
  <2>2. QED
    BY <2>1
<1> HIDE DEF st
<1>6. GoodState(st, tables, cur)
  BY <1>1, <1>3, <1>4, <1>5 DEF GoodState
<1>7. QED
  BY <1>6 DEF st

\* exec leaves the state x, or crashes in it.
Execs(x, f) ==
  /\ heap' = x.heap /\ segs' = x.segs /\ objs' = x.objs
  /\ tables' = [tables EXCEPT ![cur] = x.tbl]
  /\ status' = IF x.err = "ok" /\ ~x.objs[f].whole THEN "crashed" ELSE status
  /\ pcseg' = IF x.err = "ok" THEN Start[f] ELSE pcseg
  /\ ret' = x.err /\ c' = (x.err \in Errnos)
  /\ procs' = procs /\ npid' = npid /\ cur' = cur /\ len' = len /\ su' = su

LEMMA ExecStarts ==
  ASSUME BenignDivisors, MemoryInv, cur \in DOMAIN tables, NEW f, ExecFile(f)
  PROVE  \E g : /\ \A k \in SegNos : Valid(Current("ok").tbl[k]) =>
                                       g[Current("ok").tbl[k].segid] \in Benign
                /\ Execs(Image(Current("ok"), f, g), f)
<1>1. PICK g \in [{e.segid : e \in Mapped(cur)} -> Garbage] :
        LET x == Image(Current("ok"), f, g)
            null == x.err = "ok" /\ ~x.objs[f].whole
        IN  /\ heap' = x.heap /\ segs' = x.segs /\ objs' = x.objs
            /\ tables' = [tables EXCEPT ![cur] = x.tbl]
            /\ status' = IF null THEN "crashed" ELSE status
            /\ pcseg' = IF x.err = "ok" THEN Start[f] ELSE pcseg
            /\ Returns(x.err)
            /\ UNCHANGED <<procs, npid, cur, len, su>>
  BY Zenon DEF ExecFile
<1>2. ASSUME NEW k \in SegNos, Valid(Current("ok").tbl[k])
      PROVE  g[Current("ok").tbl[k].segid] \in Benign
  <2>1. Current("ok").tbl = tables[cur]
    BY DEF Current
  <2>2. tables[cur][k] \in Mapped(cur)
    BY <1>2, <2>1 DEF Mapped
  <2>3. g[tables[cur][k].segid] \in Garbage
    BY <2>2
  <2>4. QED
    BY <2>1, <2>3, KernelAssumption DEF BenignDivisors, Benign
<1> DEFINE x == Image(Current("ok"), f, g)
<1>3. Execs(x, f)
  BY <1>1, Zenon DEF Execs, Returns
<1>4. QED
  BY <1>2, <1>3

LEMMA ExecKeeps ==
  ASSUME BenignDivisors, KernelInv, cur \in DOMAIN tables, NEW f, ExecFile(f)
  PROVE  /\ MemoryInv' /\ DOMAIN tables' = DOMAIN tables
         /\ ret' \in Errnos \cup {"ok"} /\ status' \in {"running", "halted", "crashed"}
         /\ c' \in BOOLEAN
         /\ procs' = procs /\ npid' = npid /\ cur' = cur /\ len' = len /\ su' = su
<1>1. MemoryInv /\ tables \in Tables
  BY DEF KernelInv, MemoryInv
<1>2. PICK g : /\ \A k \in SegNos : Valid(Current("ok").tbl[k]) =>
                                      g[Current("ok").tbl[k].segid] \in Benign
               /\ Execs(Image(Current("ok"), f, g), f)
  BY <1>1, ExecStarts
<1>3. GoodState(Current("ok"), tables, cur) /\ Current("ok").err = "ok"
  BY <1>1, CurrentIsGood DEF Current
<1> DEFINE x == Image(Current("ok"), f, g)
<1>4. GoodState(x, tables, cur)
  BY <1>1, <1>2, <1>3, ImageGood
<1>5. Execs(x, f)
  BY <1>2
<1> HIDE DEF x
<1>6. x \in State /\ Good(x.heap, x.segs, x.objs, [tables EXCEPT ![cur] = x.tbl])
  BY <1>4 DEF GoodState
<1>7. /\ x.heap \in Heaps /\ x.segs \in Seq(Segment) /\ x.objs \in Caches
      /\ x.tbl \in Table /\ x.err \in Errnos \cup {"ok"}
  BY <1>6, StateFields
<1>8. tables' \in Tables /\ DOMAIN tables' = DOMAIN tables
  BY <1>1, <1>5, <1>7, TablesExcept DEF Execs
<1>9. MemoryInv'
  BY <1>5, <1>6, <1>7, <1>8 DEF Execs, MemoryInv
<1>10. c' \in BOOLEAN
  <2>1. c' = (x.err \in Errnos)
    BY <1>5, Zenon DEF Execs
  <2>2. QED
    BY <2>1
<1>11. status \in {"running", "halted", "crashed"}
  BY DEF KernelInv, ControlInv
<1>12. status' \in {"running", "halted", "crashed"}
  BY <1>5, <1>11 DEF Execs
<1>13. ret' \in Errnos \cup {"ok"}
  BY <1>5, <1>7 DEF Execs
<1>14. procs' = procs /\ npid' = npid /\ cur' = cur /\ len' = len /\ su' = su
  BY <1>5 DEF Execs
<1>15. QED
  BY <1>8, <1>9, <1>10, <1>12, <1>13, <1>14

LEMMA InheritedSame ==
  ASSUME NEW e \in Entry
  PROVE  /\ Inherited(e) \in Entry /\ (Valid(Inherited(e)) <=> Valid(e))
         /\ Inherited(e).segid = e.segid /\ Inherited(e).base = e.base
         /\ Inherited(e).size = e.size
         /\ Inherited(e).flags = {} <=> e.flags = {}
         /\ "EXEC" \in Inherited(e).flags <=> "EXEC" \in e.flags
<1>1. CASE Valid(e) /\ "WRITE" \in e.flags
  <2> DEFINE fl == (e.flags \ {"WRITE"}) \cup {"COW"}
             i == [e EXCEPT !.flags = fl]
  <2>1. e.segid \in Nat /\ e.base \in Nat /\ e.size \in Nat /\ e.flags \in SUBSET Flag
    BY EntryFields
  <2>2. fl \in SUBSET Flag /\ fl # {} /\ ("VALID" \in fl <=> "VALID" \in e.flags)
        /\ ("EXEC" \in fl <=> "EXEC" \in e.flags)
    BY <2>1 DEF Flag
  <2>3. Inherited(e) = i
    BY <1>1 DEF Inherited
  <2> HIDE DEF fl
  <2>4. i \in Entry /\ i.flags = fl /\ i.segid = e.segid /\ i.base = e.base
        /\ i.size = e.size
    BY <2>2 DEF Entry
  <2> HIDE DEF i
  <2>5. e.flags # {}
    BY <1>1
  <2>6. QED
    BY <2>2, <2>3, <2>4, <2>5 DEF Valid
<1>2. CASE ~(Valid(e) /\ "WRITE" \in e.flags)
  BY <1>2 DEF Inherited
<1>3. QED
  BY <1>1, <1>2

\* fork joins the child's table, which counts what it inherits.
LEMMA ForkJoins ==
  ASSUME MemoryInv, cur \in DOMAIN tables, Fork
  PROVE  LET pf    == Place(heap, PagesFor(Page))
             child == [no \in SegNos |->
                         IF no = Uarea
                         THEN [segid |-> Len(segs) + 1, base |-> pf, size |-> Page,
                               flags |-> {"SUPER", "READ", "WRITE"}]
                         ELSE Inherited(tables[cur][no])]
         IN  /\ HasRoom(heap, Page)
             /\ heap' = WithBlock(heap, PagesFor(Page), pf)
             /\ \E mid : ProcessJoins(segs', tables', segs, tables, mid, pf,
                                      Len(segs) + 1, child)
             /\ tables' \in Tables
             /\ \E pid \in 1 .. PidLimit - 1 :
                  /\ procs' = Joined(procs, pid, Len(segs) + 1) /\ npid' = pid + 1
                  /\ pid \notin DOMAIN procs
             /\ cur' = Len(segs) + 1
<1> DEFINE pf == Place(heap, PagesFor(Page))
           n == Len(segs) + 1
           own == [segid |-> n, base |-> pf, size |-> Page,
                   flags |-> {"SUPER", "READ", "WRITE"}]
           child == [no \in SegNos |->
                       IF no = Uarea THEN own ELSE Inherited(tables[cur][no])]
           st == Current("ok")
           got == Salloc(st, Page, NoFile, {})
           sid == Len(got.segs)
           table == [no \in SegNos |-> IF no = Uarea
                                       THEN NewTable(sid, got.segs[sid].base)[no]
                                       ELSE Inherited(tables[cur][no])]
           mid == [got.segs EXCEPT ![sid].refs = 1]
<1>1. /\ heap \in Heaps /\ segs \in Seq(Segment) /\ objs \in Caches /\ tables \in Tables
      /\ Good(heap, segs, objs, tables) /\ Tiled(heap) /\ Meant(segs, tables)
  BY DEF MemoryInv, Good
<1>2. /\ got.err = "ok" /\ heap' = got.heap /\ segs' = Counted(mid, tables[cur])
      /\ tables' = Joined(tables, sid, table)
      /\ \E pid \in 1 .. PidLimit - 1 :
           /\ procs' = Joined(procs, pid, sid) /\ npid' = pid + 1
           /\ pid \notin DOMAIN procs
      /\ cur' = sid
  BY DEF Fork, IsNextPid
<1>3. st \in State /\ st.heap = heap /\ st.segs = segs
  BY CurrentIsGood DEF GoodState, Current
<1>4. Sallocs(got, st, Page, NoFile, {})
  BY <1>1, <1>3, Constants, SallocDoes
<1> HIDE DEF got, pf
<1>5. HasRoom(heap, Page) /\ got.heap = WithBlock(heap, PagesFor(Page), pf)
      /\ Appended(got.segs, segs, 0, pf, Page, NoFile)
  <2>1. HasRoom(heap, Page)
    <3>1. SUFFICES ASSUME ~HasRoom(heap, Page) PROVE FALSE
      OBVIOUS
    <3>2. got = Throw(st, "ENOMEM")
      BY <1>3, <1>4, <3>1 DEF Sallocs
    <3>3. got.err = "ENOMEM"
      BY <1>3, <3>2 DEF Throw, State
    <3>4. QED
      BY <1>2, <3>3
  <2>2. QED
    BY <1>3, <1>4, <2>1 DEF Sallocs, pf
<1>6. Len(segs) \in Nat /\ sid = n /\ got.segs[sid].base = pf
  BY <1>1, <1>5 DEF Appended
<1>7. Appended(mid, segs, 1, pf, Page, NoFile)
  BY <1>1, <1>5, FirstReference
<1>8. pf \in Nat
  BY <1>1, <1>5, NewBlock, Constants DEF pf
<1>9. /\ NewTable(n, pf) \in Table /\ NewTable(n, pf)[Uarea] = own
  <2>1. n \in Nat
    BY <1>6
  <2> HIDE DEF n
  <2>2. QED
    BY <1>8, <2>1, NewTableIs
<1>10. table = child
  BY <1>6, <1>9
<1> HIDE DEF own, mid, table
<1>11. ASSUME NEW no \in SegNos PROVE tables[cur][no] \in Entry
  BY <1>1, TablesEntries
<1>12. child \in Table /\ child[Uarea] = own
  <2>1. own \in Entry
    BY <1>6, <1>8, Constants DEF own, Entry, Flag
  <2>2. \A no \in SegNos : Inherited(tables[cur][no]) \in Entry
    BY <1>11, InheritedSame
  <2>3. QED
    BY <2>1, <2>2, Constants DEF Table
<1>13. ASSUME NEW no \in SegNos \ {Uarea}
       PROVE  /\ child[no] = Inherited(tables[cur][no])
              /\ Means(segs, child[no])
              /\ \A k : Hits(child[no], k) <=> Hits(tables[cur][no], k)
  <2>1. child[no] = Inherited(tables[cur][no])
    OBVIOUS
  <2> HIDE DEF child
  <2>2. Means(segs, tables[cur][no])
    BY <1>1 DEF Meant
  <2>3. Means(segs, Inherited(tables[cur][no]))
    BY <1>11, <2>2, InheritedSame DEF Means
  <2>4. \A k : Hits(child[no], k) <=> Hits(tables[cur][no], k)
    BY <1>11, <2>1, InheritedSame DEF Hits
  <2>5. QED
    BY <2>1, <2>3, <2>4
<1> HIDE DEF child
<1>14. mid \in Seq(Segment) /\ Len(mid) = n
  BY <1>7 DEF Appended
<1>15. /\ SamePlaces(segs', mid)
       /\ \A k \in 1 .. n :
            segs'[k].refs = mid[k].refs
              + Cardinality({no \in SegNos \ {Uarea} : Hits(tables[cur][no], k)})
  BY <1>2, <1>14, CountedCounts
<1>16. ASSUME NEW k
       PROVE  {no \in SegNos \ {Uarea} : Hits(tables[cur][no], k)}
                = {no \in SegNos \ {Uarea} : Hits(child[no], k)}
  BY <1>13
<1>17. \A k \in 1 .. n :
         segs'[k].refs = mid[k].refs
           + Cardinality({no \in SegNos \ {Uarea} : Hits(child[no], k)})
  BY <1>15, <1>16
<1>18. tables' = Joined(tables, n, child)
  BY <1>2, <1>6, <1>10
<1>19. n \notin DOMAIN tables
  BY <1>1, <1>6 DEF Meant
<1>20. DOMAIN tables' = DOMAIN tables \cup {n} /\ tables'[n] = child
       /\ \A v \in DOMAIN tables : tables'[v] = tables[v]
  BY <1>18, <1>19 DEF Joined
<1>21. ProcessJoins(segs', tables', segs, tables, mid, pf, n, child)
  <2> DEFINE next == segs'
             t2 == tables'
  <2> HIDE DEF next, t2
  <2>1. SamePlaces(next, mid)
        /\ \A k \in 1 .. n :
             next[k].refs = mid[k].refs
               + Cardinality({no \in SegNos \ {Uarea} : Hits(child[no], k)})
    BY <1>15, <1>17 DEF next
  <2>2. DOMAIN t2 = DOMAIN tables \cup {n} /\ t2[n] = child
        /\ \A v \in DOMAIN tables : t2[v] = tables[v]
    BY <1>20 DEF t2
  <2>3. \A no \in SegNos \ {Uarea} : Means(segs, child[no])
    BY <1>13
  <2>4. child \in Table /\ child[Uarea] = [segid |-> n, base |-> pf, size |-> Page,
                                           flags |-> {"SUPER", "READ", "WRITE"}]
    BY <1>12 DEF own
  <2>5. ProcessJoins(next, t2, segs, tables, mid, pf, n, child)
    BY <1>7, <2>1, <2>2, <2>3, <2>4 DEF ProcessJoins
  <2>6. QED
    BY <2>5 DEF next, t2
<1>22. tables' \in Tables
  BY <1>1, <1>6, <1>12, <1>18, JoinedTables
<1>23. /\ heap' = WithBlock(heap, PagesFor(Page), pf)
       /\ \E pid \in 1 .. PidLimit - 1 :
            /\ procs' = Joined(procs, pid, n) /\ npid' = pid + 1
            /\ pid \notin DOMAIN procs
       /\ cur' = n
  BY <1>2, <1>5, <1>6
<1>24. QED
  BY <1>5, <1>21, <1>22, <1>23 DEF child, own, pf

LEMMA ForkKeeps ==
  ASSUME KernelInv, Fork
  PROVE  KernelInv'
<1> DEFINE pf == Place(heap, PagesFor(Page))
           n == Len(segs) + 1
           child == [no \in SegNos |->
                       IF no = Uarea
                       THEN [segid |-> n, base |-> pf, size |-> Page,
                             flags |-> {"SUPER", "READ", "WRITE"}]
                       ELSE Inherited(tables[cur][no])]
<1>1. MemoryInv /\ ControlInv /\ cur \in DOMAIN tables
  BY DEF KernelInv, ControlInv, Fork, Running
<1>2. /\ HasRoom(heap, Page) /\ heap' = WithBlock(heap, PagesFor(Page), pf)
      /\ \E mid : ProcessJoins(segs', tables', segs, tables, mid, pf, n, child)
      /\ tables' \in Tables
      /\ \E pid \in 1 .. PidLimit - 1 : procs' = Joined(procs, pid, n) /\ npid' = pid + 1
      /\ cur' = n
  BY <1>1, ForkJoins
<1> HIDE DEF child, pf, n
<1>3. PICK mid : ProcessJoins(segs', tables', segs, tables, mid, pf, n, child)
  BY <1>2
<1>4. PICK pid \in 1 .. PidLimit - 1 : procs' = Joined(procs, pid, n) /\ npid' = pid + 1
  BY <1>2
<1>5. /\ objs' = objs /\ len' = len /\ su' = su /\ boot' = boot /\ status' = status
      /\ boot = "user" /\ ret' = "ok" /\ c' = ("ok" \in Errnos)
  BY DEF Fork, Returns, Running
<1>6. heap' \in Heaps /\ Good(heap', segs', objs, tables')
  <2> DEFINE next == segs'
             t2 == tables'
             h2 == heap'
  <2>1. /\ ProcessJoins(next, t2, segs, tables, mid, pf, n, child)
        /\ h2 = WithBlock(heap, PagesFor(Page), pf)
    BY <1>2, <1>3
  <2> HIDE DEF next, t2, h2
  <2>2. h2 \in Heaps /\ Good(h2, next, objs, t2)
    BY <1>1, <1>2, <2>1, NewProcess DEF MemoryInv, pf
  <2>3. QED
    BY <2>2 DEF next, t2, h2
<1>7. segs' \in Seq(Segment)
  BY <1>3 DEF ProcessJoins, SamePlaces
<1>8. MemoryInv'
  BY <1>1, <1>2, <1>5, <1>6, <1>7 DEF MemoryInv
<1>9. DOMAIN tables' = DOMAIN tables \cup {n}
  BY <1>3 DEF ProcessJoins
<1>10. DOMAIN procs' = DOMAIN procs \cup {pid} /\ procs'[pid] = n
       /\ \A p \in DOMAIN procs : p # pid => procs'[p] = procs[p]
  BY <1>4 DEF Joined
<1>11. ControlInv'
  <2>1. PidLimit \in Nat
    BY KernelAssumption
  <2>2. npid' \in 2 .. PidLimit
    BY <1>4, <2>1
  <2>3. DOMAIN procs' \subseteq 1 .. PidLimit - 1
        /\ \A p \in DOMAIN procs' : procs'[p] \in DOMAIN tables'
    BY <1>1, <1>9, <1>10 DEF ControlInv
  <2>4. c' \in BOOLEAN
    BY <1>5
  <2>5. su' \in BOOLEAN
    BY <1>1, <1>5, Zenon DEF ControlInv
  <2>6. /\ cur' \in DOMAIN tables' \cup {0} /\ cur' \in DOMAIN tables'
        /\ len' \in {0, NSeg} /\ ret' \in Errnos \cup {"ok", "Fault"}
        /\ status' \in {"running", "halted", "crashed"}
        /\ boot' \in {"reset", "forked", "mapped", "sized", "execd", "user"}
        /\ 1 \in DOMAIN procs'
    BY <1>1, <1>2, <1>5, <1>9, <1>10 DEF ControlInv
  <2>7. QED
    BY <2>2, <2>3, <2>4, <2>5, <2>6, Zenon DEF ControlInv
<1>12. QED
  BY <1>8, <1>11 DEF KernelInv

\* The steps that leave memory, procs and the segment map's place alone.
LEMMA QuietKeeps ==
  ASSUME KernelInv, UNCHANGED <<memory, procs, npid, cur, len, su, boot>>,
         ret' \in Errnos \cup {"ok", "Fault"}, c' \in BOOLEAN,
         status' \in {"running", "halted", "crashed"}
  PROVE  KernelInv'
<1>1. /\ heap' = heap /\ segs' = segs /\ objs' = objs /\ tables' = tables
      /\ procs' = procs /\ npid' = npid /\ cur' = cur /\ len' = len /\ boot' = boot
  BY DEF memory
<1>2. MemoryInv'
  BY <1>1 DEF KernelInv, MemoryInv
<1>3. su' \in BOOLEAN
  BY Zenon DEF KernelInv, ControlInv
<1>4. /\ DOMAIN procs' \subseteq 1 .. PidLimit - 1
      /\ \A p \in DOMAIN procs' : procs'[p] \in DOMAIN tables'
      /\ npid' \in 2 .. PidLimit
      /\ cur' \in DOMAIN tables' \cup {0} /\ len' \in {0, NSeg}
      /\ boot' \in {"reset", "forked", "mapped", "sized", "execd", "user"}
      /\ boot' # "reset" => 1 \in DOMAIN procs'
      /\ boot' \notin {"reset", "forked"} => cur' \in DOMAIN tables'
  BY <1>1 DEF KernelInv, ControlInv
<1>5. ControlInv'
  BY <1>3, <1>4, Zenon DEF ControlInv
<1>6. QED
  BY <1>2, <1>5 DEF KernelInv

\* The four steps of the bootstrap after its fork.
LEMMA BootKeeps ==
  ASSUME BenignDivisors, KernelInv, Ssma \/ Ssml \/ BootRte \/ BootExec
  PROVE  KernelInv'
<1>1. ControlInv /\ MemoryInv
  BY DEF KernelInv
<1>2. /\ ret \in Errnos \cup {"ok", "Fault"} /\ status \in {"running", "halted", "crashed"}
      /\ DOMAIN procs \subseteq 1 .. PidLimit - 1 /\ npid \in 2 .. PidLimit
      /\ \A p \in DOMAIN procs : procs[p] \in DOMAIN tables
      /\ cur \in DOMAIN tables \cup {0} /\ len \in {0, NSeg}
      /\ boot # "reset" => 1 \in DOMAIN procs
      /\ boot \notin {"reset", "forked"} => cur \in DOMAIN tables
  BY <1>1 DEF ControlInv
<1>3. c \in BOOLEAN /\ su \in BOOLEAN
  BY <1>1, Zenon DEF ControlInv
<1>4. CASE BootExec
  <2>1. boot = "sized" /\ boot' = "execd" /\ ExecFile(Init_x) /\ cur \in DOMAIN tables
    BY <1>2, <1>4 DEF BootExec
  <2>2. /\ MemoryInv' /\ DOMAIN tables' = DOMAIN tables
        /\ ret' \in Errnos \cup {"ok"} /\ status' \in {"running", "halted", "crashed"}
        /\ c' \in BOOLEAN
        /\ procs' = procs /\ npid' = npid /\ cur' = cur /\ len' = len /\ su' = su
    BY <2>1, ExecKeeps
  <2>3. su' \in BOOLEAN /\ c' \in BOOLEAN
    BY <1>3, <2>2, Zenon
  <2>4. /\ DOMAIN procs' \subseteq 1 .. PidLimit - 1
        /\ \A p \in DOMAIN procs' : procs'[p] \in DOMAIN tables'
        /\ npid' \in 2 .. PidLimit
        /\ cur' \in DOMAIN tables' \cup {0} /\ len' \in {0, NSeg}
        /\ ret' \in Errnos \cup {"ok", "Fault"}
        /\ status' \in {"running", "halted", "crashed"}
        /\ boot' \in {"reset", "forked", "mapped", "sized", "execd", "user"}
        /\ 1 \in DOMAIN procs' /\ cur' \in DOMAIN tables'
    BY <1>2, <2>1, <2>2
  <2>5. ControlInv'
    BY <2>3, <2>4, Zenon DEF ControlInv
  <2>6. QED
    BY <2>2, <2>5 DEF KernelInv
<1>5. CASE Ssma \/ Ssml \/ BootRte
  <2>1. heap' = heap /\ segs' = segs /\ objs' = objs /\ tables' = tables /\ procs' = procs
        /\ npid' = npid
    BY <1>5, Zenon DEF Ssma, Ssml, BootRte, memory
  <2>2. MemoryInv'
    BY <1>1, <2>1 DEF MemoryInv
  <2>3. /\ boot # "reset" /\ boot' \in {"mapped", "sized", "user"}
        /\ cur' = IF boot = "forked" THEN procs[1] ELSE cur
        /\ boot \in {"forked", "mapped", "execd"}
    BY <1>5 DEF Ssma, Ssml, BootRte
  <2>4. ret' = ret /\ len' \in {0, NSeg} /\ status' \in {"running", "halted", "crashed"}
    BY <1>2, <1>5 DEF Ssma, Ssml, BootRte
  <2>5. c' \in BOOLEAN /\ su' \in BOOLEAN
    <3>1. c' = c /\ (su' = su \/ su' = FALSE)
      BY <1>5, Zenon DEF Ssma, Ssml, BootRte
    <3>2. QED
      BY <1>3, <3>1, Zenon
  <2>6. cur' \in DOMAIN tables
    BY <1>2, <2>3
  <2>7. /\ DOMAIN procs' \subseteq 1 .. PidLimit - 1
        /\ \A p \in DOMAIN procs' : procs'[p] \in DOMAIN tables'
        /\ npid' \in 2 .. PidLimit
        /\ cur' \in DOMAIN tables' \cup {0}
        /\ ret' \in Errnos \cup {"ok", "Fault"}
        /\ boot' \in {"reset", "forked", "mapped", "sized", "execd", "user"}
        /\ 1 \in DOMAIN procs' /\ cur' \in DOMAIN tables'
    BY <1>2, <2>1, <2>3, <2>4, <2>6
  <2>8. ControlInv'
    BY <2>4, <2>5, <2>7, Zenon DEF ControlInv
  <2>9. QED
    BY <2>2, <2>8 DEF KernelInv
<1>6. QED
  BY <1>4, <1>5

LEMMA ExecCallKeeps ==
  ASSUME BenignDivisors, KernelInv, NEW f, Exec(f)
  PROVE  KernelInv'
<1>1. ControlInv /\ cur \in DOMAIN tables /\ boot = "user" /\ boot' = boot /\ ExecFile(f)
  BY DEF KernelInv, ControlInv, Exec, Running
<1>2. /\ MemoryInv' /\ DOMAIN tables' = DOMAIN tables
      /\ ret' \in Errnos \cup {"ok"} /\ status' \in {"running", "halted", "crashed"}
      /\ c' \in BOOLEAN
      /\ procs' = procs /\ npid' = npid /\ cur' = cur /\ len' = len /\ su' = su
  BY <1>1, ExecKeeps
<1>3. su' \in BOOLEAN /\ c' \in BOOLEAN
  BY <1>1, <1>2, Zenon DEF ControlInv
<1>4. /\ DOMAIN procs' \subseteq 1 .. PidLimit - 1
      /\ \A p \in DOMAIN procs' : procs'[p] \in DOMAIN tables'
      /\ npid' \in 2 .. PidLimit
      /\ cur' \in DOMAIN tables' \cup {0} /\ len' \in {0, NSeg}
      /\ ret' \in Errnos \cup {"ok", "Fault"}
      /\ status' \in {"running", "halted", "crashed"}
      /\ boot' \in {"reset", "forked", "mapped", "sized", "execd", "user"}
      /\ 1 \in DOMAIN procs' /\ cur' \in DOMAIN tables'
  BY <1>1, <1>2 DEF ControlInv
<1>5. ControlInv'
  BY <1>3, <1>4, Zenon DEF ControlInv
<1>6. QED
  BY <1>2, <1>5 DEF KernelInv

LEMMA NextKernel == BenignDivisors /\ KernelInv /\ [Next]_vars => KernelInv'
<1> SUFFICES ASSUME BenignDivisors, KernelInv, [Next]_vars PROVE KernelInv'
  OBVIOUS
<1>1. /\ ret \in Errnos \cup {"ok", "Fault"} /\ status \in {"running", "halted", "crashed"}
  BY DEF KernelInv, ControlInv
<1>2. c \in BOOLEAN
  BY Zenon DEF KernelInv, ControlInv
<1>3. CASE BootFork
  BY <1>3, BootForkKeeps
<1>4. CASE Ssma \/ Ssml \/ BootRte \/ BootExec
  BY <1>4, BootKeeps
<1>5. ASSUME NEW f \in Files \cup {Missing}, Exec(f) PROVE KernelInv'
  BY <1>5, ExecCallKeeps
<1>6. ASSUME NEW r \in Errnos \cup {"ok", "Fault"}, Returns(r),
             UNCHANGED <<memory, procs, npid, cur, len, su, boot, pcseg, status>>
      PROVE  KernelInv'
  <2>1. ret' = r /\ c' = (r \in Errnos) /\ status' = status
    BY <1>6 DEF Returns
  <2>2. c' \in BOOLEAN
    BY <2>1
  <2>3. /\ ret' \in Errnos \cup {"ok", "Fault"}
        /\ status' \in {"running", "halted", "crashed"}
    BY <1>1, <2>1
  <2>4. UNCHANGED <<memory, procs, npid, cur, len, su, boot>>
    BY <1>6, Zenon
  <2>5. QED
    BY <2>2, <2>3, <2>4, QuietKeeps
<1>7. ASSUME NEW r \in {"EFAULT", "EPERM", "EACCES", "Fault"}, ExecBadName(r) PROVE KernelInv'
  BY <1>6, <1>7 DEF ExecBadName, Errnos
<1>8. CASE Fork
  BY <1>8, ForkKeeps
<1>9. CASE ForkNoRoom
  BY <1>6, <1>9 DEF ForkNoRoom, Errnos
<1>10. ASSUME NEW r \in {"EPERM", "ok"}, OtherCall(r) PROVE KernelInv'
  BY <1>6, <1>10 DEF OtherCall, Errnos
<1>11. CASE Stop
  <2>1. UNCHANGED <<memory, procs, npid, cur, len, su, boot>> /\ c' = c
    BY <1>11, Zenon DEF Stop
  <2>2. ret' = ret /\ status' = "halted"
    BY <1>11 DEF Stop
  <2>3. c' \in BOOLEAN
    BY <1>2, <2>1, Zenon
  <2>4. QED
    BY <1>1, <2>1, <2>2, <2>3, QuietKeeps
<1>12. CASE UNCHANGED vars
  <2>1. UNCHANGED <<memory, procs, npid, cur, len, su, boot>> /\ c' = c /\ ret' = ret
        /\ status' = status
    BY <1>12, Zenon DEF vars, memory
  <2>2. c' \in BOOLEAN
    BY <1>2, <2>1, Zenon
  <2>3. QED
    BY <1>1, <2>1, <2>2, QuietKeeps
<1>13. QED
  BY <1>3, <1>4, <1>5, <1>7, <1>8, <1>9, <1>10, <1>11, <1>12 DEF Next, Boot

LEMMA KernelInvariance ==
  ASSUME BenignDivisors
  PROVE  Spec => []KernelInv
<1>1. KernelInv /\ [Next]_vars => KernelInv'
  BY NextKernel
<1>2. QED
  BY <1>1, InitKernel, PTL DEF Spec

-----------------------------------------------------------------------------
(* Results for every table of files *)

\* The kernel's state keeps its types: tables of NSeg entries that name segments
\* of the list, processes that have a table, and a pid that wraps in time.
THEOREM KernelTypeCorrect ==
  ASSUME BenignDivisors
  PROVE  Spec => []TypeOK
<1>1. KernelInv => TypeOK
  <2> SUFFICES ASSUME KernelInv PROVE TypeOK
    OBVIOUS
  <2>1. /\ heap \in Heaps /\ segs \in Seq(Segment) /\ objs \in Caches /\ tables \in Tables
        /\ Meant(segs, tables)
    BY DEF KernelInv, MemoryInv, Good
  <2>2. PICK D \in SUBSET Files : objs \in [D -> Loaded]
    BY <2>1 DEF Caches
  <2>3. DOMAIN objs \subseteq Files /\ \A f \in DOMAIN objs : objs[f] \in Loaded
    BY <2>2
  <2>4. \A f \in DOMAIN objs : objs[f].refs \in Nat
    BY <2>3 DEF Loaded
  <2>4a. \A f \in DOMAIN objs : objs[f].whole \in BOOLEAN
    BY <2>3, Zenon DEF Loaded
  <2>5. ASSUME NEW u \in DOMAIN tables
        PROVE  tables[u] \in [SegNos -> [segid : 0 .. Len(segs), base : Nat,
                                         size : Nat, flags : SUBSET Flag]]
    <3>1. tables[u] \in Table
      BY <2>1, TablesEntries
    <3>2. \A no \in SegNos :
            tables[u][no] \in Entry /\ tables[u][no].segid \in 0 .. Len(segs)
      BY <2>1, <3>1 DEF Meant, Means, Table
    <3>3. \A no \in SegNos :
            tables[u][no] \in [segid : 0 .. Len(segs), base : Nat, size : Nat,
                               flags : SUBSET Flag]
      BY <3>2 DEF Entry
    <3>4. QED
      BY <3>1, <3>3 DEF Table
  <2>6. DOMAIN tables \subseteq 1 .. Len(segs)
    BY <2>1 DEF Meant
  <2>7. /\ DOMAIN procs \subseteq 1 .. PidLimit - 1
        /\ \A p \in DOMAIN procs : procs[p] \in DOMAIN tables
        /\ npid \in 2 .. PidLimit
        /\ cur \in DOMAIN tables \cup {0} /\ len \in {0, NSeg}
        /\ ret \in Errnos \cup {"ok", "Fault"}
        /\ boot \in {"reset", "forked", "mapped", "sized", "execd", "user"}
        /\ status \in {"running", "halted", "crashed"}
    BY DEF KernelInv, ControlInv
  <2>8. c \in BOOLEAN /\ su \in BOOLEAN
    BY Zenon DEF KernelInv, ControlInv
  <2>9. segs \in Seq([refs : Nat, base : Nat, size : Nat,
                      ino : Files \cup {NoFile}, flags : SUBSET Flag])
    BY <2>1 DEF Segment
  <2>10. QED
    BY <2>1, <2>3, <2>4, <2>4a, <2>5, <2>6, <2>7, <2>8, <2>9, Zenon DEF TypeOK
<1>2. QED
  BY <1>1, KernelInvariance, PTL

\* However exec, fork and their errors interleave, a segment counts exactly the
\* VALID entries of all processes that map it, and the one reference its Process
\* structure or stack keeps.
THEOREM CountsAreMappings ==
  ASSUME BenignDivisors
  PROVE  Spec => []RefsAreMappings
<1>1. KernelInv => RefsAreMappings
  <2> SUFFICES ASSUME KernelInv, NEW sid \in 1 .. Len(segs)
               PROVE  segs[sid].refs = Cardinality(MappingsOf(sid))
                        + IF Live(sid) /\ segs[sid].ino = NoFile THEN 1 ELSE 0
    BY DEF RefsAreMappings
  <2>1. segs[sid].refs = Cardinality(MappingsIn(tables, sid)) + Held(segs[sid])
    BY DEF KernelInv, MemoryInv, Good, RefsCounted
  <2>2. MappingsIn(tables, sid) = MappingsOf(sid)
    BY DEF MappingsIn, MappingsOf
  <2>3. Held(segs[sid]) = IF Live(sid) /\ segs[sid].ino = NoFile THEN 1 ELSE 0
    BY DEF Held, Live
  <2>4. QED
    BY <2>1, <2>2, <2>3
<1>2. QED
  BY <1>1, KernelInvariance, PTL

\* An object counts exactly its segments, so that it leaves the cache with the
\* last of them and no segment outlives its object.
THEOREM ObjectsCountSegments ==
  ASSUME BenignDivisors
  PROVE  Spec => []ObjectRefsAreSegments
<1>1. KernelInv => ObjectRefsAreSegments
  BY DEF KernelInv, MemoryInv, Good, ObjectsCounted, SegmentsOf, ObjectRefsAreSegments
<1>2. QED
  BY <1>1, KernelInvariance, PTL

\* Frees by count never let kmalloc hand out memory that is mapped: live segments
\* are blocks of the heap, and disjoint ones.
THEOREM SegmentsStayApart ==
  ASSUME BenignDivisors
  PROVE  Spec => []SegmentsApart
<1>1. KernelInv => SegmentsApart
  <2>1. SUFFICES ASSUME KernelInv, NEW s \in 1 .. Len(segs), Live(s)
                 PROVE  /\ heap.cell[segs[s].base] = PagesFor(segs[s].size)
                        /\ \A t \in 1 .. Len(segs) :
                             s # t => segs[t].base \notin
                               segs[s].base .. segs[s].base + PagesFor(segs[s].size) - 1
    BY DEF SegmentsApart
  <2>1a. KernelInv /\ Total \in Nat
    BY <2>1, HeapAssumption
  <2>2. heap \in Heaps /\ segs \in Seq(Segment) /\ Tiled(heap) /\ Placed(heap, segs)
        /\ Total \in Nat
    BY <2>1a, Zenon DEF KernelInv, MemoryInv, Good
  <2>3. /\ segs[s].base \in 1 .. Total - 1 /\ segs[s].size > 0
        /\ heap.cell[segs[s].base] = PagesFor(segs[s].size)
        /\ \A t \in 1 .. Len(segs) : segs[t].base = segs[s].base => s = t
    BY <2>1, <2>2 DEF Placed, Live
  <2>4. segs[s].size \in Nat
    BY <2>2, SegmentFields
  <2>5. PagesFor(segs[s].size) \in Nat \ {0}
    BY <2>3, <2>4, PagesForSome
  <2>6. ASSUME NEW t \in 1 .. Len(segs), s # t,
               segs[t].base \in segs[s].base .. segs[s].base + PagesFor(segs[s].size) - 1
        PROVE  FALSE
    <3>1. segs[t].base # segs[s].base
      BY <2>3, <2>6
    <3>2. segs[t].base \in segs[s].base + 1 .. segs[s].base + PagesFor(segs[s].size) - 1
      BY <2>3, <2>5, <2>6, <3>1
    <3>3. segs[s].base \in Pages
      BY <2>2, <2>3 DEF Pages
    <3>4. heap.cell[segs[t].base] = -segs[s].base
      <4>1. HeadsBlock(heap, segs[s].base)
        BY <2>2, <3>3 DEF Tiled
      <4>2. QED
        BY <2>3, <2>5, <3>2, <4>1 DEF HeadsBlock
    <3>5. segs[t].base # 0
      BY <2>3, <3>2
    <3>6. segs[t].size > 0 /\ segs[t].size \in Nat
          /\ heap.cell[segs[t].base] = PagesFor(segs[t].size)
      BY <2>2, <3>5, SegmentFields DEF Placed
    <3>7. PagesFor(segs[t].size) > 0
      BY <3>6, PagesForSome
    <3>8. QED
      BY <2>3, <3>4, <3>6, <3>7
  <2>7. QED
    BY <2>3, <2>6
<1>2. QED
  BY <1>1, KernelInvariance, PTL

-----------------------------------------------------------------------------
(* Well-formed files: no segment number twice, none past the table, and none  *)
(* the Process structure's.  Then exec maps a file as a whole or not at all.  *)

WellFormedFiles ==
  \A f \in Files :
    Distinct(f) /\ Numbers(f, DOMAIN Sections[f]) \subseteq SegNos \ {Uarea}

\* Every object in the cache is loaded, and its segments are its own.
Sound(ss, os) ==
  \A f \in DOMAIN os :
    /\ os[f].whole
    /\ DOMAIN os[f].map = Numbers(f, DOMAIN Sections[f])
    /\ \A no \in DOMAIN os[f].map : ss[os[f].map[no]].ino = f

MapsNothing(tbl) == \A no \in SegNos : ~Valid(tbl[no])

MapsFile(tbl, os, f) ==
  \A no \in SegNos :
    /\ Valid(tbl[no]) <=> no \in DOMAIN os[f].map
    /\ Valid(tbl[no]) => tbl[no].segid = os[f].map[no]

ImagesWhole(os, tabs) ==
  \A v \in DOMAIN tabs :
    MapsNothing(tabs[v]) \/ \E f \in DOMAIN os : MapsFile(tabs[v], os, f)

\* A segment of a file is in its object's map, and some process maps it.
Reached(ss, os) ==
  \A sid \in 1 .. Len(ss) :
    ss[sid].ino # NoFile =>
      \E no \in DOMAIN os[ss[sid].ino].map : os[ss[sid].ino].map[no] = sid

Used(ss, tabs) ==
  \A sid \in 1 .. Len(ss) :
    ss[sid].ino # NoFile =>
      \E v \in DOMAIN tabs : \E no \in SegNos : Hits(tabs[v][no], sid)

Sane(ss, os, tabs) ==
  /\ Sound(ss, os)
  /\ ImagesWhole(os, tabs)
  /\ Reached(ss, os)
  /\ Used(ss, tabs)

\* A VALID entry has its segment's place, and only a VALID one can be executed.
Agrees(ss, e) ==
  Valid(e) =>
    /\ ss[e.segid].base # 0
    /\ e.base = ss[e.segid].base /\ e.size = ss[e.segid].size

Agreeing(ss, tabs) == \A v \in DOMAIN tabs, no \in SegNos : Agrees(ss, tabs[v][no])

Bare(e) == "EXEC" \in e.flags => Valid(e)

AllBare(tabs) == \A v \in DOMAIN tabs, no \in SegNos : Bare(tabs[v][no])

\* What a VALID entry maps counts it, and what a file has and is counted is mapped.
LEMMA MappedCounts ==
  ASSUME NEW h, NEW ss \in Seq(Segment), NEW os, NEW tabs \in Tables,
         Good(h, ss, os, tabs)
  PROVE  /\ \A v \in DOMAIN tabs, no \in SegNos :
              Valid(tabs[v][no]) =>
                tabs[v][no].segid \in 1 .. Len(ss) /\ ss[tabs[v][no].segid].refs > 0
         /\ \A sid \in 1 .. Len(ss) :
              ss[sid].ino # NoFile /\ ss[sid].refs > 0 =>
                \E v \in DOMAIN tabs : \E no \in SegNos : Hits(tabs[v][no], sid)
<1>1. Meant(ss, tabs) /\ RefsCounted(ss, tabs) /\ Len(ss) \in Nat
  BY DEF Good
<1>2. IsFiniteSet(DOMAIN tabs)
  <2>1. DOMAIN tabs \in SUBSET (1 .. Len(ss)) /\ IsFiniteSet(1 .. Len(ss))
    BY <1>1, FS_Interval DEF Meant
  <2>2. QED
    BY <2>1, FS_Subset
<1>3. ASSUME NEW v \in DOMAIN tabs, NEW no \in SegNos, Valid(tabs[v][no])
      PROVE  tabs[v][no].segid \in 1 .. Len(ss) /\ ss[tabs[v][no].segid].refs > 0
  <2> DEFINE sid == tabs[v][no].segid
  <2>1. tabs[v][no] \in Entry /\ Means(ss, tabs[v][no]) /\ tabs[v][no].flags # {}
    BY <1>1, <1>3, TablesEntries DEF Meant, Valid
  <2>2. sid \in 1 .. Len(ss)
    BY <1>1, <2>1 DEF Means
  <2>3. <<v, no>> \in MappingsIn(tabs, sid)
    BY <1>3 DEF MappingsIn
  <2>4. Cardinality(MappingsIn(tabs, sid)) > 0 /\ Cardinality(MappingsIn(tabs, sid)) \in Nat
    BY <1>2, <2>3, MappingsAreFinite, NonemptyCount
  <2>5. Held(ss[sid]) \in {0, 1}
    BY DEF Held
  <2>6. ss[sid].refs = Cardinality(MappingsIn(tabs, sid)) + Held(ss[sid])
    BY <1>1, <2>2 DEF RefsCounted
  <2>7. QED
    BY <2>2, <2>4, <2>5, <2>6
<1>4. ASSUME NEW sid \in 1 .. Len(ss), ss[sid].ino # NoFile, ss[sid].refs > 0
      PROVE  \E v \in DOMAIN tabs : \E no \in SegNos : Hits(tabs[v][no], sid)
  <2>1. Held(ss[sid]) = 0
    BY <1>4 DEF Held
  <2>2. ss[sid].refs = Cardinality(MappingsIn(tabs, sid)) + Held(ss[sid])
    BY <1>1 DEF RefsCounted
  <2>3. Cardinality(MappingsIn(tabs, sid)) # 0
    BY <1>4, <2>1, <2>2
  <2>4. MappingsIn(tabs, sid) # {}
    BY <2>3, FS_EmptySet
  <2>5. PICK m \in MappingsIn(tabs, sid) : TRUE
    BY <2>4
  <2>6. m[1] \in DOMAIN tabs /\ m[2] \in SegNos /\ Hits(tabs[m[1]][m[2]], sid)
    BY <2>5 DEF MappingsIn, Hits
  <2>7. QED
    BY <2>6
<1>5. QED
  BY <1>3, <1>4

\* A sound object maps no entry past the table, nor the Process structure's.
LEMMA SoundNumbers ==
  ASSUME WellFormedFiles, NEW ss, NEW os \in Caches, Sound(ss, os), NEW f \in DOMAIN os
  PROVE  f \in Files /\ f # NoFile /\ DOMAIN os[f].map \subseteq SegNos \ {Uarea}
<1>1. f \in Files
  BY DEF Caches
<1>2. QED
  BY <1>1, Constants DEF WellFormedFiles, Sound

LEMMA NothingInStructure ==
  ASSUME WellFormedFiles, NEW ss, NEW os \in Caches, NEW tabs, Sane(ss, os, tabs),
         NEW v \in DOMAIN tabs
  PROVE  ~Valid(tabs[v][Uarea])
<1>1. CASE MapsNothing(tabs[v])
  BY <1>1, Constants DEF MapsNothing
<1>2. ASSUME NEW f \in DOMAIN os, MapsFile(tabs[v], os, f)
      PROVE  ~Valid(tabs[v][Uarea])
  BY <1>2, SoundNumbers, Constants DEF MapsFile, Sane
<1>3. QED
  BY <1>1, <1>2 DEF Sane, ImagesWhole

-----------------------------------------------------------------------------
(* exec in a state where that holds *)

\* The state of a call made by process u of tabs, with sane files.
FitState(st, tabs, u) ==
  /\ GoodState(st, tabs, u)
  /\ Sane(st.segs, st.objs, [tabs EXCEPT ![u] = st.tbl])
  /\ Agreeing(st.segs, [tabs EXCEPT ![u] = st.tbl])
  /\ AllBare([tabs EXCEPT ![u] = st.tbl])

\* What other processes map keeps its file.
FilesKept(x, st, tabs, u) ==
  \A v \in DOMAIN tabs, no \in SegNos :
    v # u /\ Valid(tabs[v][no]) =>
      /\ tabs[v][no].segid \in 1 .. Len(st.segs)
      /\ x.segs[tabs[v][no].segid].ino = st.segs[tabs[v][no].segid].ino

\* The tables and entries of a state of a call.
LEMMA CallTables ==
  ASSUME NEW tabs \in Tables, NEW u \in DOMAIN tabs, NEW st, GoodState(st, tabs, u),
         NEW tt, tt = [tabs EXCEPT ![u] = st.tbl]
  PROVE  /\ tt \in Tables /\ DOMAIN tt = DOMAIN tabs /\ tt[u] = st.tbl
         /\ \A v \in DOMAIN tabs : v # u => tt[v] = tabs[v]
         /\ st \in State /\ st.segs \in Seq(Segment) /\ st.objs \in Caches
         /\ Len(st.segs) \in Nat
         /\ Good(st.heap, st.segs, st.objs, tt)
         /\ Placed(st.heap, st.segs) /\ ObjectsCounted(st.segs, st.objs)
<1>1. st \in State /\ Good(st.heap, st.segs, st.objs, tt)
  BY DEF GoodState
<1>2. st.segs \in Seq(Segment) /\ st.objs \in Caches /\ st.tbl \in Table /\ Len(st.segs) \in Nat
  BY <1>1, StateFields
<1>3. QED
  BY <1>1, <1>2, TablesExcept DEF Good

\* freesegs frees a file's segments with the last process that maps it, all of
\* them and no other's.
LEMMA FreedFit ==
  ASSUME WellFormedFiles, NEW tabs \in Tables, NEW u \in DOMAIN tabs,
         NEW st, FitState(st, tabs, u),
         NEW a, Freed(a, st, SegNos \ {Uarea}, tabs, u)
  PROVE  FitState(a, tabs, u) /\ MapsNothing(a.tbl) /\ FilesKept(a, st, tabs, u)
<1> DEFINE tt == [tabs EXCEPT ![u] = st.tbl]
           ta == [tabs EXCEPT ![u] = a.tbl]
           ss == st.segs
           sa == a.segs
           os == st.objs
           oa == a.objs
<1>1. GoodState(st, tabs, u) /\ GoodState(a, tabs, u) /\ Released(a, st)
  BY DEF FitState, Freed
<1>2. /\ tt \in Tables /\ DOMAIN tt = DOMAIN tabs /\ tt[u] = st.tbl
      /\ \A v \in DOMAIN tabs : v # u => tt[v] = tabs[v]
      /\ ss \in Seq(Segment) /\ os \in Caches /\ Len(ss) \in Nat
      /\ Good(st.heap, ss, os, tt) /\ Placed(st.heap, ss) /\ ObjectsCounted(ss, os)
  BY <1>1, CallTables
<1>3. /\ ta \in Tables /\ DOMAIN ta = DOMAIN tabs /\ ta[u] = a.tbl
      /\ \A v \in DOMAIN tabs : v # u => ta[v] = tabs[v]
      /\ sa \in Seq(Segment) /\ oa \in Caches
      /\ Good(a.heap, sa, oa, ta) /\ Placed(a.heap, sa) /\ ObjectsCounted(sa, oa)
  BY <1>1, CallTables
<1>4. Sane(ss, os, tt) /\ Agreeing(ss, tt) /\ AllBare(tt)
  BY DEF FitState
<1>5. /\ \A no \in SegNos \ {Uarea} :
           ~Valid(a.tbl[no]) /\ (a.tbl[no].flags = {} \/ a.tbl[no] = st.tbl[no])
      /\ a.tbl[Uarea] = st.tbl[Uarea]
  BY Constants DEF Freed
<1>6. /\ Len(sa) = Len(ss)
      /\ \A k \in 1 .. Len(ss) :
           IF sa[k].refs = 0 /\ ss[k].refs > 0
           THEN sa[k].base = 0 /\ sa[k].ino = NoFile
           ELSE sa[k].base = ss[k].base /\ sa[k].size = ss[k].size /\ sa[k].ino = ss[k].ino
      /\ DOMAIN oa \subseteq DOMAIN os
      /\ \A f \in DOMAIN oa : /\ oa[f].map = os[f].map /\ oa[f].whole = os[f].whole
                              /\ os[f].refs > 0 => oa[f].refs > 0
  BY <1>1, Zenon DEF Released
<1> HIDE DEF tt, ta, ss, sa, os, oa
<1>6a. \A f \in DOMAIN os : f # NoFile /\ DOMAIN os[f].map \subseteq SegNos
  BY <1>2, <1>4, SoundNumbers DEF Sane
<1>7. MapsNothing(a.tbl)
  <2>1. ~Valid(tt[u][Uarea])
    BY <1>2, <1>4, NothingInStructure
  <2>2. QED
    BY <1>2, <1>5, <2>1 DEF MapsNothing
<1>8. ASSUME NEW v \in DOMAIN tabs, NEW no \in SegNos, Valid(ta[v][no])
      PROVE  /\ v # u /\ ta[v] = tt[v]
             /\ ta[v][no].segid \in 1 .. Len(ss)
             /\ sa[ta[v][no].segid].base = ss[ta[v][no].segid].base
             /\ sa[ta[v][no].segid].size = ss[ta[v][no].segid].size
             /\ sa[ta[v][no].segid].ino = ss[ta[v][no].segid].ino
  <2>1. v # u
    BY <1>3, <1>7, <1>8 DEF MapsNothing
  <2>2. ta[v] = tt[v]
    BY <1>2, <1>3, <2>1
  <2>3. ta[v][no].segid \in 1 .. Len(sa) /\ sa[ta[v][no].segid].refs > 0
    BY <1>3, <1>8, MappedCounts
  <2>4. QED
    BY <1>6, <2>1, <2>2, <2>3
<1>9. Agreeing(sa, ta)
  <2>1. ASSUME NEW v \in DOMAIN tabs, NEW no \in SegNos, Valid(ta[v][no])
        PROVE  Agrees(sa, ta[v][no])
    <3>1. Agrees(ss, ta[v][no])
      BY <1>2, <1>4, <1>8, <2>1 DEF Agreeing
    <3>2. QED
      BY <1>8, <2>1, <3>1 DEF Agrees
  <2>2. QED
    BY <1>3, <2>1 DEF Agreeing, Agrees
<1>10. AllBare(ta)
  <2>1. ASSUME NEW v \in DOMAIN tabs, NEW no \in SegNos PROVE Bare(ta[v][no])
    <3>1. Bare(tt[v][no])
      BY <1>2, <1>4 DEF AllBare
    <3>2. CASE v # u
      BY <1>2, <1>3, <3>1, <3>2
    <3>3. CASE v = u
      BY <1>2, <1>3, <1>5, <3>1, <3>3 DEF Bare
    <3>4. QED
      BY <3>2, <3>3
  <2>2. QED
    BY <1>3, <2>1 DEF AllBare
<1>11. ASSUME NEW sid \in 1 .. Len(ss), sa[sid].ino # NoFile
       PROVE  /\ sa[sid].ino = ss[sid].ino
              /\ \E v \in DOMAIN ta : \E no \in SegNos : Hits(ta[v][no], sid)
  <2>1. sa[sid].ino = ss[sid].ino /\ ~(sa[sid].refs = 0 /\ ss[sid].refs > 0)
    BY <1>6, <1>11
  <2>2. PICK v \in DOMAIN tt, no \in SegNos : Hits(tt[v][no], sid)
    BY <1>4, <1>11, <2>1 DEF Sane, Used
  <2>3. ss[sid].refs > 0
    BY <1>2, <2>2, MappedCounts DEF Hits
  <2>4. sa[sid].refs \in Nat
    BY <1>3, <1>6, SegmentFields
  <2>5. sa[sid].refs > 0
    BY <2>1, <2>3, <2>4
  <2>6. sid \in 1 .. Len(sa)
    BY <1>6
  <2>7. \E w \in DOMAIN ta : \E k \in SegNos : Hits(ta[w][k], sid)
    BY <1>3, <1>11, <2>5, <2>6, MappedCounts
  <2>8. QED
    BY <2>1, <2>7
<1>12. Used(sa, ta)
  BY <1>6, <1>11 DEF Used
<1>13. \A sid \in 1 .. Len(sa) : sa[sid].ino \in DOMAIN oa \cup {NoFile}
  BY <1>3 DEF ObjectsCounted
<1>14. Reached(sa, oa)
  <2>1. ASSUME NEW sid \in 1 .. Len(sa), sa[sid].ino # NoFile
        PROVE  \E no \in DOMAIN oa[sa[sid].ino].map : oa[sa[sid].ino].map[no] = sid
    <3>1. sid \in 1 .. Len(ss) /\ sa[sid].ino \in DOMAIN oa
      BY <1>6, <1>13, <2>1
    <3>2. sa[sid].ino = ss[sid].ino /\ oa[sa[sid].ino].map = os[sa[sid].ino].map
      BY <1>6, <1>11, <2>1, <3>1
    <3>3. \E no \in DOMAIN os[ss[sid].ino].map : os[ss[sid].ino].map[no] = sid
      BY <1>4, <2>1, <3>1, <3>2 DEF Sane, Reached
    <3>4. QED
      BY <3>2, <3>3
  <2>2. QED
    BY <2>1 DEF Reached
\* What a process that maps something maps is one file, and it keeps its segments.
<1>15. ASSUME NEW v \in DOMAIN tabs, NEW k \in SegNos, Valid(ta[v][k])
       PROVE  \E f \in DOMAIN oa :
                /\ f \in DOMAIN os /\ MapsFile(ta[v], os, f)
                /\ ss[ta[v][k].segid].ino = f
  <2>1. ta[v] = tt[v] /\ ta[v][k].segid \in 1 .. Len(ss)
        /\ sa[ta[v][k].segid].ino = ss[ta[v][k].segid].ino
    BY <1>8, <1>15
  <2>2. PICK f \in DOMAIN os : MapsFile(tt[v], os, f)
    BY <1>2, <1>4, <1>15, <2>1 DEF Sane, ImagesWhole, MapsNothing
  <2>3. k \in DOMAIN os[f].map /\ ta[v][k].segid = os[f].map[k]
    BY <1>15, <2>1, <2>2 DEF MapsFile
  <2>4. ss[ta[v][k].segid].ino = f /\ f # NoFile
    BY <1>4, <1>6a, <2>3 DEF Sane, Sound
  <2>5. f \in DOMAIN oa
    BY <1>6, <1>13, <2>1, <2>4
  <2>6. QED
    BY <2>1, <2>2, <2>4, <2>5
<1>16. ImagesWhole(oa, ta)
  <2>1. ASSUME NEW v \in DOMAIN tabs, NEW k \in SegNos, Valid(ta[v][k])
        PROVE  \E f \in DOMAIN oa : MapsFile(ta[v], oa, f)
    <3>1. PICK f \in DOMAIN oa : f \in DOMAIN os /\ MapsFile(ta[v], os, f)
      BY <1>15, <2>1
    <3>2. oa[f].map = os[f].map
      BY <1>6
    <3>3. MapsFile(ta[v], oa, f)
      BY <3>1, <3>2 DEF MapsFile
    <3>4. QED
      BY <3>3
  <2>2. QED
    BY <1>3, <2>1 DEF ImagesWhole, MapsNothing
<1>17. Sound(sa, oa)
  <2>1. ASSUME NEW f \in DOMAIN oa, NEW no \in DOMAIN oa[f].map
        PROVE  sa[oa[f].map[no]].ino = f
    <3>1. /\ f \in DOMAIN os /\ oa[f].map = os[f].map /\ no \in DOMAIN os[f].map
          /\ os[f].refs > 0 => oa[f].refs > 0
      BY <1>6, <2>1
    <3>2. os[f].map[no] \in 1 .. Len(ss) /\ ss[os[f].map[no]].ino = f
          /\ f # NoFile /\ no \in SegNos
      BY <1>2, <1>4, <1>6a, <3>1 DEF Sane, Sound, ObjectsCounted
    <3>3. os[f].refs = Cardinality(SegmentsOf(ss, f)) /\ os[f].map[no] \in SegmentsOf(ss, f)
      BY <1>2, <3>1, <3>2 DEF ObjectsCounted, SegmentsOf
    <3>4. os[f].refs > 0
      BY <1>2, <3>3, SegmentsAreFinite, NonemptyCount
    <3>5. oa[f].refs = Cardinality(SegmentsOf(sa, f)) /\ oa[f].refs # 0
      BY <1>3, <3>1, <3>4 DEF ObjectsCounted
    <3>6. SegmentsOf(sa, f) # {}
      BY <3>5, FS_EmptySet
    <3>7. PICK sid \in 1 .. Len(ss) : sa[sid].ino = f
      BY <1>6, <3>6 DEF SegmentsOf
    <3>8. ss[sid].ino = f
      BY <1>11, <3>2, <3>7
    <3>9. PICK v \in DOMAIN ta, k \in SegNos : Hits(ta[v][k], sid)
      BY <1>11, <3>2, <3>7
    <3>10. MapsFile(ta[v], os, f)
      BY <1>3, <1>15, <3>8, <3>9 DEF Hits
    <3>11. Valid(ta[v][no]) /\ ta[v][no].segid = os[f].map[no]
      BY <3>1, <3>2, <3>10 DEF MapsFile
    <3>12. sa[os[f].map[no]].ino = ss[os[f].map[no]].ino
      <4>1. v \in DOMAIN tabs /\ no \in SegNos
        BY <1>3, <3>2, <3>9
      <4>2. sa[ta[v][no].segid].ino = ss[ta[v][no].segid].ino
        BY <1>8, <3>11, <4>1
      <4>3. QED
        BY <3>11, <4>2
    <3>13. QED
      BY <3>1, <3>2, <3>12
  <2>2. ASSUME NEW f \in DOMAIN oa
        PROVE  oa[f].whole /\ DOMAIN oa[f].map = Numbers(f, DOMAIN Sections[f])
    <3>1. f \in DOMAIN os /\ oa[f].map = os[f].map /\ oa[f].whole = os[f].whole
      BY <1>6, Zenon
    <3>2. os[f].whole /\ DOMAIN os[f].map = Numbers(f, DOMAIN Sections[f])
      BY <1>4, <3>1, Zenon DEF Sane, Sound
    <3>3. QED
      BY <3>1, <3>2, Zenon
  <2>3. QED
    BY <2>1, <2>2, Zenon DEF Sound
<1>18. Sane(sa, oa, ta)
  BY <1>12, <1>14, <1>16, <1>17 DEF Sane
<1>19. FilesKept(a, st, tabs, u)
  <2>1. ASSUME NEW v \in DOMAIN tabs, NEW no \in SegNos, v # u, Valid(tabs[v][no])
        PROVE  /\ tabs[v][no].segid \in 1 .. Len(ss)
               /\ sa[tabs[v][no].segid].ino = ss[tabs[v][no].segid].ino
    <3>1. ta[v] = tabs[v]
      BY <1>3, <2>1
    <3>2. QED
      BY <1>8, <2>1, <3>1
  <2>2. QED
    BY <2>1, Zenon DEF FilesKept, sa, ss
<1>20. QED
  BY <1>1, <1>7, <1>9, <1>10, <1>18, <1>19 DEF FitState, ta, sa, oa

\* The new stack, and any segment appended, disturb no file.
LEMMA StackedFit ==
  ASSUME NEW tabs \in Tables, NEW u \in DOMAIN tabs, NEW a, FitState(a, tabs, u),
         MapsNothing(a.tbl), NEW b, Stacked(b, a, tabs, u)
  PROVE  FitState(b, tabs, u) /\ MapsNothing(b.tbl) /\ FilesKept(b, a, tabs, u)
<1> DEFINE ta == [tabs EXCEPT ![u] = a.tbl]
           tb == [tabs EXCEPT ![u] = b.tbl]
           sa == a.segs
           sb == b.segs
           oa == a.objs
<1>1. GoodState(a, tabs, u) /\ GoodState(b, tabs, u)
  BY DEF FitState, Stacked
<1>2. /\ ta \in Tables /\ DOMAIN ta = DOMAIN tabs /\ ta[u] = a.tbl
      /\ \A v \in DOMAIN tabs : v # u => ta[v] = tabs[v]
      /\ sa \in Seq(Segment) /\ oa \in Caches /\ Len(sa) \in Nat
      /\ Good(a.heap, sa, oa, ta) /\ ObjectsCounted(sa, oa)
  BY <1>1, CallTables
<1>3. /\ DOMAIN tb = DOMAIN tabs /\ tb[u] = b.tbl
      /\ \A v \in DOMAIN tabs : v # u => tb[v] = tabs[v]
      /\ sb \in Seq(Segment) /\ Len(sb) \in Nat
  BY <1>1, CallTables
<1>4. Sane(sa, oa, ta) /\ Agreeing(sa, ta) /\ AllBare(ta)
  BY DEF FitState
<1>5. /\ b.objs = oa /\ Len(sb) >= Len(sa)
      /\ \A k \in 1 .. Len(sa) : sb[k] = sa[k]
      /\ \A k \in Len(sa) + 1 .. Len(sb) : sb[k].ino = NoFile
      /\ \A k \in SegNos : k # 0 => b.tbl[k] = a.tbl[k]
      /\ ~Valid(b.tbl[0])
      /\ b.tbl[0].flags = {"READ", "WRITE"} \/ b.tbl = a.tbl
  BY DEF Stacked, Extends
<1> HIDE DEF ta, tb, sa, sb, oa
<1>6. MapsNothing(b.tbl)
  BY <1>5 DEF MapsNothing
<1>7. ASSUME NEW v \in DOMAIN tabs, NEW no \in SegNos, Valid(tb[v][no])
      PROVE  v # u /\ tb[v] = ta[v] /\ ta[v][no].segid \in 1 .. Len(sa)
  <2>1. v # u
    BY <1>3, <1>6, <1>7 DEF MapsNothing
  <2>2. tb[v] = ta[v]
    BY <1>2, <1>3, <2>1
  <2>3. QED
    BY <1>2, <1>7, <2>1, <2>2, MappedCounts
<1>8. Agreeing(sb, tb)
  BY <1>2, <1>3, <1>4, <1>5, <1>7 DEF Agreeing, Agrees
<1>9. AllBare(tb)
  <2>1. ASSUME NEW v \in DOMAIN tabs, NEW no \in SegNos PROVE Bare(tb[v][no])
    <3>1. Bare(ta[v][no])
      BY <1>2, <1>4 DEF AllBare
    <3>2. CASE v # u
      BY <1>2, <1>3, <3>1, <3>2
    <3>3. CASE v = u
      BY <1>2, <1>3, <1>5, <3>1, <3>3 DEF Bare
    <3>4. QED
      BY <3>2, <3>3
  <2>2. QED
    BY <1>3, <2>1 DEF AllBare
<1>10. Sound(sb, oa)
  <2>1. \A f \in DOMAIN oa : \A no \in DOMAIN oa[f].map : sb[oa[f].map[no]].ino = f
    BY <1>2, <1>4, <1>5 DEF Sane, Sound, ObjectsCounted
  <2>2. QED
    BY <1>4, <2>1, Zenon DEF Sane, Sound
<1>11. ImagesWhole(oa, tb)
  <2>1. ASSUME NEW v \in DOMAIN tabs
        PROVE  MapsNothing(tb[v]) \/ \E f \in DOMAIN oa : MapsFile(tb[v], oa, f)
    <3>1. CASE v = u
      BY <1>3, <1>6, <3>1
    <3>2. CASE v # u
      BY <1>2, <1>3, <1>4, <3>2 DEF Sane, ImagesWhole
    <3>3. QED
      BY <3>1, <3>2
  <2>2. QED
    BY <1>3, <2>1 DEF ImagesWhole
<1>12. ASSUME NEW sid \in 1 .. Len(sb), sb[sid].ino # NoFile
       PROVE  sid \in 1 .. Len(sa) /\ sb[sid] = sa[sid]
  BY <1>2, <1>3, <1>5, <1>12
<1>13. Reached(sb, oa)
  BY <1>4, <1>12 DEF Sane, Reached
<1>14. Used(sb, tb)
  <2>1. ASSUME NEW sid \in 1 .. Len(sb), sb[sid].ino # NoFile
        PROVE  \E v \in DOMAIN tb : \E no \in SegNos : Hits(tb[v][no], sid)
    <3>1. PICK v \in DOMAIN ta, no \in SegNos : Hits(ta[v][no], sid)
      BY <1>4, <1>12, <2>1 DEF Sane, Used
    <3>2. v # u
      BY <1>2, <3>1 DEF Hits, MapsNothing
    <3>3. QED
      BY <1>2, <1>3, <3>1, <3>2
  <2>2. QED
    BY <2>1 DEF Used
<1>15. Sane(sb, b.objs, tb)
  BY <1>5, <1>10, <1>11, <1>13, <1>14 DEF Sane
<1>16. FilesKept(b, a, tabs, u)
  <2>1. ASSUME NEW v \in DOMAIN tabs, NEW no \in SegNos, v # u, Valid(tabs[v][no])
        PROVE  /\ tabs[v][no].segid \in 1 .. Len(sa)
               /\ sb[tabs[v][no].segid].ino = sa[tabs[v][no].segid].ino
    BY <1>3, <1>2, <1>5, <1>7, <2>1
  <2>2. QED
    BY <2>1, Zenon DEF FilesKept, sa, sb
<1>17. QED
  BY <1>1, <1>6, <1>8, <1>9, <1>15, <1>16 DEF FitState, tb, sb

\* The cache is sane and every process maps a file of it or nothing, but file f
\* may not be mapped yet.
Ready(st, f, tabs, u) ==
  /\ GoodState(st, tabs, u) /\ MapsNothing(st.tbl)
  /\ f \in DOMAIN st.objs
  /\ Sound(st.segs, st.objs) /\ Reached(st.segs, st.objs)
  /\ ImagesWhole(st.objs, [tabs EXCEPT ![u] = st.tbl])
  /\ Agreeing(st.segs, [tabs EXCEPT ![u] = st.tbl])
  /\ AllBare([tabs EXCEPT ![u] = st.tbl])
  /\ \A sid \in 1 .. Len(st.segs) :
       st.segs[sid].ino \notin {NoFile, f} =>
         \E v \in DOMAIN tabs : \E no \in SegNos :
           v # u /\ Hits(tabs[v][no], sid)

LEMMA LoadedFit ==
  ASSUME WellFormedFiles, NEW tabs \in Tables, NEW u \in DOMAIN tabs,
         NEW b, FitState(b, tabs, u), MapsNothing(b.tbl),
         NEW f, NEW d, LoadsFile(d, b, f, tabs, u)
  PROVE  /\ d.err = "ok" => Ready(d, f, tabs, u)
         /\ MapsNothing(d.tbl) /\ Agreeing(d.segs, [tabs EXCEPT ![u] = d.tbl])
         /\ AllBare([tabs EXCEPT ![u] = d.tbl])
         /\ FilesKept(d, b, tabs, u)
<1> DEFINE tb == [tabs EXCEPT ![u] = b.tbl]
           sb == b.segs
           sd == d.segs
           ob == b.objs
           od == d.objs
<1>1. GoodState(b, tabs, u) /\ GoodState(d, tabs, u) /\ d.tbl = b.tbl
  BY DEF FitState, LoadsFile
<1>2. /\ tb \in Tables /\ DOMAIN tb = DOMAIN tabs /\ tb[u] = b.tbl
      /\ \A v \in DOMAIN tabs : v # u => tb[v] = tabs[v]
      /\ sb \in Seq(Segment) /\ ob \in Caches /\ Len(sb) \in Nat
      /\ Good(b.heap, sb, ob, tb) /\ ObjectsCounted(sb, ob)
  BY <1>1, CallTables
<1>3. sd \in Seq(Segment) /\ Len(sd) \in Nat /\ od \in Caches
  BY <1>1, CallTables
<1>4. Sane(sb, ob, tb) /\ Agreeing(sb, tb) /\ AllBare(tb)
  BY DEF FitState
<1>5. /\ Len(sd) >= Len(sb) /\ \A k \in 1 .. Len(sb) : sd[k] = sb[k]
      /\ DOMAIN ob \subseteq DOMAIN od /\ DOMAIN od \subseteq DOMAIN ob \cup {f}
      /\ \A k \in DOMAIN ob : k # f => od[k] = ob[k]
      /\ \A k \in Len(sb) + 1 .. Len(sd) : sd[k].ino = f
      /\ f \in DOMAIN ob => sd = sb /\ od = ob
  BY DEF LoadsFile, Extends
<1>6. d.err = "ok" =>
        /\ f \in DOMAIN od
        /\ f \notin DOMAIN ob =>
             /\ DOMAIN od[f].map = Numbers(f, DOMAIN Sections[f])
             /\ \A no \in DOMAIN od[f].map : od[f].map[no] \in Len(sb) + 1 .. Len(sd)
             /\ Distinct(f) =>
                  \A k \in Len(sb) + 1 .. Len(sd) :
                    \E no \in DOMAIN od[f].map : od[f].map[no] = k
  BY DEF LoadsFile
<1>6a. d.err = "ok" /\ f \notin DOMAIN ob => od[f].whole
  BY Zenon DEF LoadsFile
<1> HIDE DEF tb, sb, sd, ob, od
<1>7. ASSUME NEW v \in DOMAIN tabs, NEW no \in SegNos, Valid(tb[v][no])
      PROVE  v # u /\ tb[v][no].segid \in 1 .. Len(sb)
  <2>1. v # u
    BY <1>2, <1>7 DEF MapsNothing
  <2>2. QED
    BY <1>2, <1>7, <2>1, MappedCounts
<1>8. Agreeing(sd, tb)
  BY <1>2, <1>4, <1>5, <1>7 DEF Agreeing, Agrees
<1>9. FilesKept(d, b, tabs, u)
  <2>1. ASSUME NEW v \in DOMAIN tabs, NEW no \in SegNos, v # u, Valid(tabs[v][no])
        PROVE  /\ tabs[v][no].segid \in 1 .. Len(sb)
               /\ sd[tabs[v][no].segid].ino = sb[tabs[v][no].segid].ino
    BY <1>2, <1>5, <1>7, <2>1
  <2>2. QED
    BY <2>1, Zenon DEF FilesKept, sb, sd
<1>10. ASSUME d.err = "ok" PROVE Ready(d, f, tabs, u)
  <2>1. Sound(sd, od)
    <3>1. ASSUME NEW k \in DOMAIN od
          PROVE  DOMAIN od[k].map = Numbers(k, DOMAIN Sections[k])
                 /\ \A no \in DOMAIN od[k].map : sd[od[k].map[no]].ino = k
      <4>1. CASE k \in DOMAIN ob
        <5>1. od[k] = ob[k]
          BY <1>5, <4>1 DEF od, ob
        <5>2. DOMAIN ob[k].map = Numbers(k, DOMAIN Sections[k])
              /\ \A no \in DOMAIN ob[k].map :
                   ob[k].map[no] \in 1 .. Len(sb) /\ sb[ob[k].map[no]].ino = k
          BY <1>2, <1>4, <4>1 DEF Sane, Sound, ObjectsCounted
        <5>3. QED
          BY <1>5, <5>1, <5>2
      <4>2. CASE k \notin DOMAIN ob
        BY <1>5, <1>6, <1>10, <4>2
      <4>3. QED
        BY <4>1, <4>2
    <3>2. ASSUME NEW k \in DOMAIN od PROVE od[k].whole
      <4>1. CASE k \in DOMAIN ob
        <5>1. od[k] = ob[k]
          BY <1>5, <4>1 DEF od, ob
        <5>2. ob[k].whole
          BY <1>4, <4>1, Zenon DEF Sane, Sound
        <5>3. QED
          BY <5>1, <5>2, Zenon
      <4>2. CASE k \notin DOMAIN ob
        <5>1. k = f
          BY <1>5, <4>2
        <5>2. QED
          BY <1>6a, <1>10, <4>2, <5>1, Zenon
      <4>3. QED
        BY <4>1, <4>2
    <3>3. QED
      BY <3>1, <3>2, Zenon DEF Sound
  <2>2. f \in DOMAIN od /\ f \in Files
    BY <1>3, <1>6, <1>10 DEF Caches
  <2>3. Reached(sd, od)
    <3>1. ASSUME NEW sid \in 1 .. Len(sd), sd[sid].ino # NoFile
          PROVE  \E no \in DOMAIN od[sd[sid].ino].map : od[sd[sid].ino].map[no] = sid
      <4>1. CASE sid \in 1 .. Len(sb)
        <5>1. sd[sid] = sb[sid] /\ sb[sid].ino \in DOMAIN ob
          BY <1>2, <1>5, <3>1, <4>1 DEF ObjectsCounted
        <5>2. od[sb[sid].ino] = ob[sb[sid].ino]
          BY <1>5, <5>1 DEF od, ob
        <5>3. \E no \in DOMAIN ob[sb[sid].ino].map : ob[sb[sid].ino].map[no] = sid
          BY <1>4, <3>1, <4>1, <5>1 DEF Sane, Reached
        <5>4. QED
          BY <5>1, <5>2, <5>3
      <4>2. CASE sid \notin 1 .. Len(sb)
        <5>1. sid \in Len(sb) + 1 .. Len(sd)
          BY <1>2, <1>3, <4>2
        <5>2. sd[sid].ino = f /\ f \notin DOMAIN ob
          BY <1>2, <1>3, <1>5, <5>1 DEF sd, sb
        <5>3. QED
          BY <1>6, <1>10, <2>2, <5>1, <5>2 DEF WellFormedFiles
      <4>3. QED
        BY <4>1, <4>2
    <3>2. QED
      BY <3>1 DEF Reached
  <2>4. ImagesWhole(od, tb)
    <3>1. ASSUME NEW v \in DOMAIN tabs
          PROVE  MapsNothing(tb[v]) \/ \E k \in DOMAIN od : MapsFile(tb[v], od, k)
      <4>1. CASE MapsNothing(tb[v])
        BY <4>1
      <4>2. ASSUME NEW k \in DOMAIN ob, MapsFile(tb[v], ob, k)
            PROVE  k \in DOMAIN od /\ MapsFile(tb[v], od, k)
        <5>1. od[k] = ob[k]
          BY <1>5 DEF od, ob
        <5>2. QED
          BY <1>5, <4>2, <5>1 DEF MapsFile
      <4>3. QED
        BY <1>2, <1>4, <4>1, <4>2 DEF Sane, ImagesWhole
    <3>2. QED
      BY <1>2, <3>1 DEF ImagesWhole
  <2>5. ASSUME NEW sid \in 1 .. Len(sd), sd[sid].ino \notin {NoFile, f}
        PROVE  \E v \in DOMAIN tabs : \E no \in SegNos : v # u /\ Hits(tabs[v][no], sid)
    <3>1. sid \in 1 .. Len(sb) /\ sd[sid] = sb[sid]
      BY <1>2, <1>3, <1>5, <2>5
    <3>2. PICK v \in DOMAIN tb, no \in SegNos : Hits(tb[v][no], sid)
      BY <1>4, <2>5, <3>1 DEF Sane, Used
    <3>3. v # u
      BY <1>2, <1>7, <3>2 DEF Hits
    <3>4. QED
      BY <1>2, <3>2, <3>3
  <2>6. QED
    BY <1>1, <1>4, <1>8, <2>1, <2>2, <2>3, <2>4, <2>5 DEF Ready, tb, sd, od
<1>11. QED
  BY <1>1, <1>4, <1>8, <1>9, <1>10 DEF tb, sd

\* exec maps every section of the file, and every entry where its segment is.
LEMMA MappedFit ==
  ASSUME WellFormedFiles, NEW tabs \in Tables, NEW u \in DOMAIN tabs,
         NEW f, NEW d, Ready(d, f, tabs, u),
         NEW x, MappedSoFar(x, d, DOMAIN d.objs[f].map, f, tabs, u)
  PROVE  /\ x.err = "ok" /\ FitState(x, tabs, u) /\ MapsFile(x.tbl, x.objs, f)
         /\ f \in DOMAIN x.objs /\ FilesKept(x, d, tabs, u)
<1> DEFINE td == [tabs EXCEPT ![u] = d.tbl]
           tx == [tabs EXCEPT ![u] = x.tbl]
           sd == d.segs
           sx == x.segs
           os == d.objs
           map == os[f].map
<1>1. GoodState(d, tabs, u) /\ GoodState(x, tabs, u)
  BY DEF Ready, MappedSoFar
<1>2. /\ td \in Tables /\ DOMAIN td = DOMAIN tabs /\ td[u] = d.tbl
      /\ \A v \in DOMAIN tabs : v # u => td[v] = tabs[v]
      /\ sd \in Seq(Segment) /\ os \in Caches /\ Len(sd) \in Nat
      /\ Good(d.heap, sd, os, td) /\ Placed(d.heap, sd) /\ ObjectsCounted(sd, os)
  BY <1>1, CallTables
<1>3. /\ DOMAIN tx = DOMAIN tabs /\ tx[u] = x.tbl
      /\ \A v \in DOMAIN tabs : v # u => tx[v] = tabs[v]
  BY <1>1, CallTables
<1>4. /\ f \in DOMAIN os /\ MapsNothing(d.tbl)
      /\ Sound(sd, os) /\ Reached(sd, os) /\ ImagesWhole(os, td)
      /\ Agreeing(sd, td) /\ AllBare(td)
      /\ \A sid \in 1 .. Len(sd) :
           sd[sid].ino \notin {NoFile, f} =>
             \E v \in DOMAIN tabs : \E no \in SegNos : v # u /\ Hits(tabs[v][no], sid)
  BY DEF Ready
<1>5. DOMAIN map \subseteq SegNos \ {Uarea} /\ f # NoFile
  BY <1>2, <1>4, SoundNumbers
<1>6. /\ x.err = "ok" /\ x.objs = os /\ SamePlaces(sx, sd)
      /\ \A no \in SegNos \ DOMAIN map : x.tbl[no] = d.tbl[no]
      /\ \A no \in DOMAIN map :
           /\ Valid(x.tbl[no]) /\ x.tbl[no].segid = map[no]
           /\ x.tbl[no].base = sd[map[no]].base /\ x.tbl[no].size = sd[map[no]].size
  BY <1>5 DEF MappedSoFar
<1> HIDE DEF td, tx, sd, sx, os, map
<1>7. Len(sx) = Len(sd)
      /\ \A k \in 1 .. Len(sd) : /\ sx[k].base = sd[k].base /\ sx[k].size = sd[k].size
                                 /\ sx[k].ino = sd[k].ino
  BY <1>6 DEF SamePlaces
<1>8. \A no \in DOMAIN map :
        map[no] \in 1 .. Len(sd) /\ sd[map[no]].ino = f /\ sd[map[no]].base # 0
  BY <1>2, <1>4, <1>5 DEF ObjectsCounted, Sound, Placed, map
<1>9. MapsFile(x.tbl, os, f)
  BY <1>4, <1>5, <1>6 DEF MapsFile, MapsNothing, map
<1>10. ASSUME NEW v \in DOMAIN tabs, NEW no \in SegNos, v # u, Valid(tabs[v][no])
       PROVE  td[v] = tabs[v] /\ tabs[v][no].segid \in 1 .. Len(sd)
  BY <1>2, <1>10, MappedCounts
<1>11. Agreeing(sx, tx)
  <2>1. ASSUME NEW v \in DOMAIN tabs, NEW no \in SegNos, Valid(tx[v][no])
        PROVE  Agrees(sx, tx[v][no])
    <3>1. CASE v # u
      <4>1. tx[v] = tabs[v] /\ td[v] = tabs[v] /\ tabs[v][no].segid \in 1 .. Len(sd)
        BY <1>3, <1>10, <2>1, <3>1
      <4>2. Agrees(sd, tabs[v][no])
        BY <1>2, <1>4, <4>1 DEF Agreeing
      <4>3. QED
        BY <1>7, <4>1, <4>2 DEF Agrees
    <3>2. CASE v = u
      <4>1. no \in DOMAIN map
        BY <1>3, <1>4, <1>6, <2>1, <3>2 DEF MapsNothing
      <4>2. QED
        BY <1>3, <1>6, <1>7, <1>8, <3>2, <4>1 DEF Agrees
    <3>3. QED
      BY <3>1, <3>2
  <2>2. QED
    BY <1>3, <2>1 DEF Agreeing, Agrees
<1>12. AllBare(tx)
  <2>1. ASSUME NEW v \in DOMAIN tabs, NEW no \in SegNos PROVE Bare(tx[v][no])
    <3>1. Bare(td[v][no])
      BY <1>2, <1>4 DEF AllBare
    <3>2. CASE v # u
      BY <1>2, <1>3, <3>1, <3>2
    <3>3. CASE v = u
      BY <1>2, <1>3, <1>6, <3>1, <3>3 DEF Bare
    <3>4. QED
      BY <3>2, <3>3
  <2>2. QED
    BY <1>3, <2>1 DEF AllBare
<1>13. Sound(sx, os)
  <2>1. ASSUME NEW k \in DOMAIN os
        PROVE  \A no \in DOMAIN os[k].map : sx[os[k].map[no]].ino = k
    <3>1. \A no \in DOMAIN os[k].map : os[k].map[no] \in 1 .. Len(sd)
                                       /\ sd[os[k].map[no]].ino = k
      BY <1>2, <1>4 DEF ObjectsCounted, Sound
    <3>2. QED
      BY <1>7, <3>1
  <2>2. QED
    BY <1>4, <2>1, Zenon DEF Sound
<1>14. Reached(sx, os)
  BY <1>4, <1>7 DEF Reached
<1>15. ImagesWhole(os, tx)
  <2>1. ASSUME NEW v \in DOMAIN tabs
        PROVE  MapsNothing(tx[v]) \/ \E k \in DOMAIN os : MapsFile(tx[v], os, k)
    <3>1. CASE v = u
      BY <1>3, <1>4, <1>9, <3>1
    <3>2. CASE v # u
      BY <1>2, <1>3, <1>4, <3>2 DEF ImagesWhole
    <3>3. QED
      BY <3>1, <3>2
  <2>2. QED
    BY <1>3, <2>1 DEF ImagesWhole
<1>16. Used(sx, tx)
  <2>1. ASSUME NEW sid \in 1 .. Len(sx), sx[sid].ino # NoFile
        PROVE  \E v \in DOMAIN tx : \E no \in SegNos : Hits(tx[v][no], sid)
    <3>1. sid \in 1 .. Len(sd) /\ sd[sid].ino = sx[sid].ino
      BY <1>7, <2>1
    <3>2. CASE sd[sid].ino = f
      <4>1. PICK no \in DOMAIN map : map[no] = sid
        BY <1>4, <2>1, <3>1, <3>2 DEF Reached, map
      <4>2. no \in SegNos /\ Hits(tx[u][no], sid)
        BY <1>3, <1>5, <1>6, <4>1 DEF Hits
      <4>3. QED
        BY <1>3, <4>2
    <3>3. CASE sd[sid].ino # f
      <4>1. PICK v \in DOMAIN tabs, no \in SegNos : v # u /\ Hits(tabs[v][no], sid)
        BY <1>4, <2>1, <3>1, <3>3
      <4>2. QED
        BY <1>3, <4>1
    <3>4. QED
      BY <3>2, <3>3
  <2>2. QED
    BY <2>1 DEF Used
<1>17. FilesKept(x, d, tabs, u)
  <2>1. ASSUME NEW v \in DOMAIN tabs, NEW no \in SegNos, v # u, Valid(tabs[v][no])
        PROVE  /\ tabs[v][no].segid \in 1 .. Len(sd)
               /\ sx[tabs[v][no].segid].ino = sd[tabs[v][no].segid].ino
    BY <1>7, <1>10, <2>1
  <2>2. QED
    BY <2>1, Zenon DEF FilesKept, sd, sx
<1>18. Sane(sx, x.objs, tx)
  BY <1>6, <1>13, <1>14, <1>15, <1>16 DEF Sane
<1>19. MapsFile(x.tbl, x.objs, f) /\ f \in DOMAIN x.objs
  BY <1>4, <1>6, <1>9
<1>20. QED
  BY <1>1, <1>6, <1>11, <1>12, <1>17, <1>18, <1>19 DEF FitState, tx, sx

LEMMA FilesKeptTwice ==
  ASSUME NEW tabs, NEW u, NEW st, NEW x, NEW y,
         FilesKept(x, st, tabs, u), FilesKept(y, x, tabs, u)
  PROVE  FilesKept(y, st, tabs, u)
BY DEF FilesKept

\* exec in a state with sane files: the whole image and a state as sane, or an
\* error and no image; either way the other processes keep theirs.
LEMMA ImageFit ==
  ASSUME WellFormedFiles, NEW tabs \in Tables, NEW u \in DOMAIN tabs,
         NEW st, FitState(st, tabs, u), st.err = "ok", NEW f, NEW g,
         \A k \in SegNos : Valid(st.tbl[k]) => g[st.tbl[k].segid] \in Benign
  PROVE  LET x == Image(st, f, g) IN
         /\ Agreeing(x.segs, [tabs EXCEPT ![u] = x.tbl])
         /\ AllBare([tabs EXCEPT ![u] = x.tbl])
         /\ FilesKept(x, st, tabs, u)
         /\ IF x.err = "ok"
            THEN FitState(x, tabs, u) /\ f \in DOMAIN x.objs /\ MapsFile(x.tbl, x.objs, f)
            ELSE MapsNothing(x.tbl)
<1> DEFINE x == Image(st, f, g)
<1>1. GoodState(st, tabs, u)
  BY DEF FitState
<1>2. PICK a, b, d :
           /\ Freed(a, st, SegNos \ {Uarea}, tabs, u)
           /\ Stacked(b, a, tabs, u)
           /\ \/ b.err # "ok" /\ Image(st, f, g) = b
              \/ /\ b.err = "ok" /\ LoadsFile(d, b, f, tabs, u)
                 /\ \/ d.err # "ok" /\ Image(st, f, g) = d
                    \/ /\ d.err = "ok" /\ Unmapped(d)
                       /\ MappedSoFar(Image(st, f, g), d, DOMAIN d.objs[f].map, f,
                                      tabs, u)
  BY <1>1, ImageSteps
<1> HIDE DEF x
<1>3. FitState(a, tabs, u) /\ MapsNothing(a.tbl) /\ FilesKept(a, st, tabs, u)
  BY <1>2, FreedFit
<1>4. FitState(b, tabs, u) /\ MapsNothing(b.tbl) /\ FilesKept(b, st, tabs, u)
  BY <1>2, <1>3, StackedFit, FilesKeptTwice
<1>5. CASE b.err # "ok"
  BY <1>2, <1>4, <1>5 DEF x, FitState
<1>6. CASE b.err = "ok"
  <2>1. /\ d.err = "ok" => Ready(d, f, tabs, u)
        /\ MapsNothing(d.tbl) /\ Agreeing(d.segs, [tabs EXCEPT ![u] = d.tbl])
        /\ AllBare([tabs EXCEPT ![u] = d.tbl])
        /\ FilesKept(d, st, tabs, u)
    BY <1>2, <1>4, <1>6, LoadedFit, FilesKeptTwice
  <2>2. CASE d.err # "ok"
    BY <1>2, <1>6, <2>1, <2>2
  <2>3. CASE d.err = "ok"
    <3>1. /\ x.err = "ok" /\ FitState(x, tabs, u) /\ MapsFile(x.tbl, x.objs, f)
          /\ f \in DOMAIN x.objs /\ FilesKept(x, st, tabs, u)
      BY <1>2, <1>6, <2>1, <2>3, MappedFit, FilesKeptTwice DEF x
    <3>2. QED
      BY <3>1 DEF x, FitState
  <2>4. QED
    BY <2>2, <2>3
<1>7. QED
  BY <1>5, <1>6

-----------------------------------------------------------------------------
(* fork in such a state *)

\* A table that maps nothing, or what another one does.
Copies(tbl, tabs) ==
  \/ \A no \in SegNos \ {Uarea} : tbl[no] = NoEntry
  \/ \E w \in DOMAIN tabs : \A no \in SegNos \ {Uarea} : tbl[no] = Inherited(tabs[w][no])

LEMMA JoinedFit ==
  ASSUME WellFormedFiles, NEW h, NEW ss \in Seq(Segment), NEW os \in Caches,
         NEW tabs \in Tables, Good(h, ss, os, tabs),
         Sane(ss, os, tabs), Agreeing(ss, tabs), AllBare(tabs),
         NEW mid, NEW pf, NEW n, NEW tbl, NEW next, NEW t2,
         ProcessJoins(next, t2, ss, tabs, mid, pf, n, tbl), Copies(tbl, tabs)
  PROVE  Sane(next, os, t2) /\ Agreeing(next, t2) /\ AllBare(t2)
<1>1. /\ n = Len(ss) + 1 /\ Appended(mid, ss, 1, pf, Page, NoFile)
      /\ tbl[Uarea] = [segid |-> n, base |-> pf, size |-> Page,
                       flags |-> {"SUPER", "READ", "WRITE"}]
      /\ SamePlaces(next, mid)
      /\ DOMAIN t2 = DOMAIN tabs \cup {n} /\ t2[n] = tbl
      /\ \A v \in DOMAIN tabs : t2[v] = tabs[v]
  BY DEF ProcessJoins
<1>2. /\ Len(next) = n /\ Len(ss) \in Nat /\ next[n].ino = NoFile
      /\ \A k \in 1 .. Len(ss) :
           /\ next[k].base = ss[k].base /\ next[k].size = ss[k].size
           /\ next[k].ino = ss[k].ino
  <2>1. /\ Len(next) = Len(mid) /\ Len(mid) = n /\ mid[n].ino = NoFile /\ Len(ss) \in Nat
        /\ \A k \in 1 .. Len(ss) : mid[k] = ss[k]
    BY <1>1 DEF SamePlaces, Appended
  <2>2. \A k \in 1 .. Len(mid) : /\ next[k].base = mid[k].base
                                /\ next[k].size = mid[k].size
                                /\ next[k].ino = mid[k].ino
    BY <1>1 DEF SamePlaces
  <2>3. n \in 1 .. Len(mid) /\ 1 .. Len(ss) \subseteq 1 .. Len(mid)
    BY <1>1, <2>1
  <2>4. QED
    BY <2>1, <2>2, <2>3
<1>3. ObjectsCounted(ss, os)
  BY DEF Good
<1>4. ~Valid(tbl[Uarea]) /\ Bare(tbl[Uarea])
  BY <1>1 DEF Valid, Bare
<1>5. ~Valid(NoEntry) /\ Bare(NoEntry)
  BY DEF Valid, Bare, NoEntry
<1>6. ASSUME NEW w \in DOMAIN tabs, NEW no \in SegNos
      PROVE  /\ Valid(Inherited(tabs[w][no])) <=> Valid(tabs[w][no])
             /\ Inherited(tabs[w][no]).segid = tabs[w][no].segid
             /\ Inherited(tabs[w][no]).base = tabs[w][no].base
             /\ Inherited(tabs[w][no]).size = tabs[w][no].size
             /\ Bare(Inherited(tabs[w][no]))
             /\ Valid(tabs[w][no]) => /\ tabs[w][no].segid \in 1 .. Len(ss)
                                      /\ Agrees(ss, tabs[w][no])
  <2>1. tabs[w][no] \in Entry /\ Bare(tabs[w][no]) /\ Agrees(ss, tabs[w][no])
    BY TablesEntries DEF AllBare, Agreeing
  <2>2. QED
    BY <2>1, InheritedSame, MappedCounts DEF Bare
<1>7. ASSUME NEW e, Valid(e) => e.segid \in 1 .. Len(ss), Agrees(ss, e)
      PROVE  Agrees(next, e)
  BY <1>2, <1>7 DEF Agrees
<1>8. ASSUME NEW no \in SegNos PROVE Agrees(next, tbl[no]) /\ Bare(tbl[no])
  <2>1. CASE no = Uarea
    BY <1>4, <2>1 DEF Agrees
  <2>2. CASE no # Uarea
    <3>1. CASE tbl[no] = NoEntry
      BY <1>5, <3>1 DEF Agrees
    <3>2. ASSUME NEW w \in DOMAIN tabs, tbl[no] = Inherited(tabs[w][no])
          PROVE  Agrees(next, tbl[no]) /\ Bare(tbl[no])
      <4>1. Valid(tbl[no]) => tbl[no].segid \in 1 .. Len(ss)
        BY <1>6, <3>2
      <4>2. Agrees(ss, tbl[no]) /\ Bare(tbl[no])
        BY <1>6, <3>2 DEF Agrees
      <4>3. QED
        BY <1>7, <4>1, <4>2
    <3>3. QED
      BY <2>2, <3>1, <3>2 DEF Copies
  <2>3. QED
    BY <2>1, <2>2
<1>9. Agreeing(next, t2) /\ AllBare(t2)
  <2>1. ASSUME NEW v \in DOMAIN t2, NEW no \in SegNos
        PROVE  Agrees(next, t2[v][no]) /\ Bare(t2[v][no])
    <3>1. CASE v \in DOMAIN tabs
      <4>1. t2[v] = tabs[v] /\ Bare(tabs[v][no])
        BY <1>1, <3>1 DEF AllBare
      <4>2. Agrees(ss, tabs[v][no])
            /\ (Valid(tabs[v][no]) => tabs[v][no].segid \in 1 .. Len(ss))
        BY <1>6, <3>1 DEF Agrees
      <4>3. QED
        BY <1>7, <4>1, <4>2
    <3>2. CASE v \notin DOMAIN tabs
      BY <1>1, <1>8, <3>2
    <3>3. QED
      BY <3>1, <3>2
  <2>2. QED
    BY <2>1 DEF Agreeing, AllBare
<1>10. Sound(next, os)
  <2>1. ASSUME NEW f \in DOMAIN os
        PROVE  \A no \in DOMAIN os[f].map : next[os[f].map[no]].ino = f
    <3>1. \A no \in DOMAIN os[f].map : os[f].map[no] \in 1 .. Len(ss)
                                       /\ ss[os[f].map[no]].ino = f
      BY <1>3 DEF ObjectsCounted, Sane, Sound
    <3>2. QED
      BY <1>2, <3>1
  <2>2. QED
    BY <2>1, Zenon DEF Sane, Sound
<1>11. ASSUME NEW w \in DOMAIN tabs,
              \A no \in SegNos \ {Uarea} : tbl[no] = Inherited(tabs[w][no])
       PROVE  MapsNothing(tbl) \/ \E f \in DOMAIN os : MapsFile(tbl, os, f)
  <2>1. CASE MapsNothing(tabs[w])
    BY <1>4, <1>6, <1>11, <2>1 DEF MapsNothing
  <2>2. ASSUME NEW f \in DOMAIN os, MapsFile(tabs[w], os, f)
        PROVE  MapsFile(tbl, os, f)
    <3>1. Uarea \notin DOMAIN os[f].map
      BY SoundNumbers DEF Sane
    <3>2. QED
      BY <1>4, <1>6, <1>11, <2>2, <3>1 DEF MapsFile
  <2>3. QED
    BY <2>1, <2>2 DEF Sane, ImagesWhole
<1>12. ImagesWhole(os, t2)
  <2>1. ASSUME NEW v \in DOMAIN t2
        PROVE  MapsNothing(t2[v]) \/ \E f \in DOMAIN os : MapsFile(t2[v], os, f)
    <3>1. CASE v \in DOMAIN tabs
      BY <1>1, <3>1 DEF Sane, ImagesWhole
    <3>2. CASE v \notin DOMAIN tabs
      <4>1. t2[v] = tbl
        BY <1>1, <3>2
      <4>2. CASE \A no \in SegNos \ {Uarea} : tbl[no] = NoEntry
        BY <1>4, <1>5, <4>1, <4>2 DEF MapsNothing
      <4>3. QED
        BY <1>11, <4>1, <4>2 DEF Copies
    <3>3. QED
      BY <3>1, <3>2
  <2>2. QED
    BY <2>1 DEF ImagesWhole
<1>13. ASSUME NEW sid \in 1 .. Len(next), next[sid].ino # NoFile
       PROVE  sid \in 1 .. Len(ss) /\ next[sid].ino = ss[sid].ino
  BY <1>1, <1>2, <1>13
<1>14. Reached(next, os)
  BY <1>13 DEF Sane, Reached
<1>15. Used(next, t2)
  <2>1. ASSUME NEW sid \in 1 .. Len(next), next[sid].ino # NoFile
        PROVE  \E v \in DOMAIN t2 : \E no \in SegNos : Hits(t2[v][no], sid)
    <3>1. PICK v \in DOMAIN tabs, no \in SegNos : Hits(tabs[v][no], sid)
      BY <1>13, <2>1 DEF Sane, Used
    <3>2. QED
      BY <1>1, <3>1
  <2>2. QED
    BY <2>1 DEF Used
<1>16. QED
  BY <1>9, <1>10, <1>12, <1>14, <1>15 DEF Sane

-----------------------------------------------------------------------------
(* The invariant of well-formed files: the files are sane, or a failed exec  *)
(* has left the running process without an image, and it never runs again.   *)

FilesInv ==
  /\ Agreeing(segs, tables) /\ AllBare(tables)
  /\ \/ Sane(segs, objs, tables)
     \/ boot \in {"execd", "user"} /\ MapsNothing(tables[cur])
  /\ status # "crashed"

LEMMA RunningIsSane ==
  ASSUME KernelInv, FilesInv, Running
  PROVE  Sane(segs, objs, tables) /\ cur \in DOMAIN tables
<1>1. cur \in DOMAIN tables
  BY DEF KernelInv, ControlInv, Running
<1>2. pcseg \in SegNos /\ "EXEC" \in tables[cur][pcseg].flags
  BY DEF Running, Fetches
<1>3. Valid(tables[cur][pcseg])
  BY <1>1, <1>2 DEF FilesInv, AllBare, Bare
<1>4. QED
  BY <1>1, <1>2, <1>3 DEF FilesInv, MapsNothing

LEMMA InitFiles == Init => FilesInv
<1> SUFFICES ASSUME Init PROVE FilesInv
  OBVIOUS
<1>1. segs = <<>> /\ objs = <<>> /\ tables = <<>> /\ status = "running"
  BY DEF Init
<1>2. Len(segs) = 0 /\ DOMAIN objs = {} /\ DOMAIN tables = {}
  BY <1>1
<1>3. Sane(segs, objs, tables)
  BY <1>2 DEF Sane, Sound, ImagesWhole, Reached, Used
<1>4. Agreeing(segs, tables) /\ AllBare(tables)
  BY <1>2 DEF Agreeing, AllBare
<1>5. QED
  BY <1>1, <1>3, <1>4 DEF FilesInv

\* exec never meets a half-loaded object, and maps the file or nothing.
LEMMA ExecFit ==
  ASSUME BenignDivisors, WellFormedFiles, KernelInv, FilesInv, Sane(segs, objs, tables),
         cur \in DOMAIN tables, NEW f, ExecFile(f)
  PROVE  /\ Agreeing(segs', tables') /\ AllBare(tables') /\ status' # "crashed"
         /\ FilesKept([segs |-> segs'], [segs |-> segs], tables, cur)
         /\ IF ret' = "ok"
            THEN /\ Sane(segs', objs', tables') /\ f \in DOMAIN objs'
                 /\ MapsFile(tables'[cur], objs', f)
            ELSE MapsNothing(tables'[cur])
         /\ \A v \in DOMAIN tables : v # cur => tables'[v] = tables[v]
<1>1. MemoryInv /\ tables \in Tables
  BY DEF KernelInv, MemoryInv
<1>2. PICK g : /\ \A k \in SegNos : Valid(Current("ok").tbl[k]) =>
                                      g[Current("ok").tbl[k].segid] \in Benign
               /\ Execs(Image(Current("ok"), f, g), f)
  BY <1>1, ExecStarts
<1> DEFINE st == Current("ok")
           x == Image(st, f, g)
<1>3. GoodState(st, tables, cur) /\ st.err = "ok" /\ st.segs = segs /\ st.objs = objs
      /\ st.tbl = tables[cur]
  BY <1>1, CurrentIsGood DEF Current
<1>4. [tables EXCEPT ![cur] = st.tbl] = tables
  <2>1. PICK D \in SUBSET Nat : tables \in [D -> Table]
    BY <1>1 DEF Tables
  <2>2. QED
    BY <1>3, <2>1
<1> HIDE DEF st
<1>5. FitState(st, tables, cur)
  BY <1>3, <1>4 DEF FitState, FilesInv
<1>6. /\ Agreeing(x.segs, [tables EXCEPT ![cur] = x.tbl])
      /\ AllBare([tables EXCEPT ![cur] = x.tbl])
      /\ FilesKept(x, st, tables, cur)
      /\ IF x.err = "ok"
         THEN FitState(x, tables, cur) /\ f \in DOMAIN x.objs /\ MapsFile(x.tbl, x.objs, f)
         ELSE MapsNothing(x.tbl)
  BY <1>1, <1>2, <1>3, <1>5, ImageFit DEF st
<1>7. GoodState(x, tables, cur)
  BY <1>1, <1>2, <1>3, ImageGood DEF st
<1>8. Execs(x, f)
  BY <1>2 DEF st
<1> HIDE DEF x
<1>9. /\ segs' = x.segs /\ objs' = x.objs /\ tables' = [tables EXCEPT ![cur] = x.tbl]
      /\ status' = IF x.err = "ok" /\ ~x.objs[f].whole THEN "crashed" ELSE status
      /\ ret' = x.err
  BY <1>8 DEF Execs
<1>10. /\ tables'[cur] = x.tbl
       /\ \A v \in DOMAIN tables : v # cur => tables'[v] = tables[v]
  BY <1>1, <1>7, <1>9, CallTables
<1>11. x.err = "ok" => x.objs[f].whole
  BY <1>6, Zenon DEF FitState, Sane, Sound
<1>12. status # "crashed"
  BY DEF FilesInv
<1>13. status' # "crashed"
  BY <1>9, <1>11, <1>12
<1>14. FilesKept([segs |-> segs'], [segs |-> segs], tables, cur)
  BY <1>3, <1>6, <1>9 DEF FilesKept
<1>15. QED
  BY <1>6, <1>9, <1>10, <1>13, <1>14 DEF FitState

LEMMA ForkFit ==
  ASSUME WellFormedFiles, KernelInv, FilesInv, Fork
  PROVE  Sane(segs', objs', tables') /\ Agreeing(segs', tables') /\ AllBare(tables')
<1> DEFINE pf == Place(heap, PagesFor(Page))
           n == Len(segs) + 1
           child == [no \in SegNos |->
                       IF no = Uarea
                       THEN [segid |-> n, base |-> pf, size |-> Page,
                             flags |-> {"SUPER", "READ", "WRITE"}]
                       ELSE Inherited(tables[cur][no])]
<1>1. /\ MemoryInv /\ cur \in DOMAIN tables /\ Sane(segs, objs, tables)
      /\ Agreeing(segs, tables) /\ AllBare(tables)
  BY RunningIsSane DEF KernelInv, Fork, FilesInv
<1>2. \E mid : ProcessJoins(segs', tables', segs, tables, mid, pf, n, child)
  BY <1>1, ForkJoins
<1>3. Copies(child, tables)
  <2>1. \A no \in SegNos \ {Uarea} : child[no] = Inherited(tables[cur][no])
    OBVIOUS
  <2> HIDE DEF child
  <2>2. QED
    BY <1>1, <2>1 DEF Copies
<1> HIDE DEF child, n, pf
<1>4. PICK mid : ProcessJoins(segs', tables', segs, tables, mid, pf, n, child)
  BY <1>2
<1>5. objs' = objs
  BY DEF Fork
<1>6. /\ segs \in Seq(Segment) /\ objs \in Caches /\ tables \in Tables
      /\ Good(heap, segs, objs, tables)
  BY <1>1 DEF MemoryInv
<1> DEFINE next == segs'
           t2 == tables'
<1>7. ProcessJoins(next, t2, segs, tables, mid, pf, n, child)
  BY <1>4
<1> HIDE DEF next, t2
<1>8. Sane(next, objs, t2) /\ Agreeing(next, t2) /\ AllBare(t2)
  BY <1>1, <1>3, <1>6, <1>7, JoinedFit
<1>9. QED
  BY <1>5, <1>8 DEF next, t2

LEMMA BootForkFit ==
  ASSUME WellFormedFiles, KernelInv, FilesInv, BootFork
  PROVE  Sane(segs', objs', tables') /\ Agreeing(segs', tables') /\ AllBare(tables')
<1> DEFINE pf == Place(heap, PagesFor(Page))
           n == Len(segs) + 1
           tbl == NewTable(n, pf)
<1>1. MemoryInv /\ Agreeing(segs, tables) /\ AllBare(tables)
  BY DEF KernelInv, FilesInv
<1>2. boot = "reset" /\ objs' = objs
  BY DEF BootFork
<1>3. Sane(segs, objs, tables)
  BY <1>2 DEF FilesInv
<1>4. /\ \E mid : ProcessJoins(segs', tables', segs, tables, mid, pf, n, tbl)
      /\ \A no \in SegNos \ {Uarea} : tbl[no] = NoEntry
  BY <1>1, BootForkJoins
<1> HIDE DEF tbl, n, pf
<1>5. Copies(tbl, tables)
  BY <1>4 DEF Copies
<1>6. PICK mid : ProcessJoins(segs', tables', segs, tables, mid, pf, n, tbl)
  BY <1>4
<1>7. /\ segs \in Seq(Segment) /\ objs \in Caches /\ tables \in Tables
      /\ Good(heap, segs, objs, tables)
  BY <1>1 DEF MemoryInv
<1> DEFINE next == segs'
           t2 == tables'
<1>8. ProcessJoins(next, t2, segs, tables, mid, pf, n, tbl)
  BY <1>6
<1> HIDE DEF next, t2
<1>9. Sane(next, objs, t2) /\ Agreeing(next, t2) /\ AllBare(t2)
  BY <1>1, <1>3, <1>5, <1>7, <1>8, JoinedFit
<1>10. QED
  BY <1>2, <1>9 DEF next, t2

\* The steps that leave memory, and the running process, alone.
LEMMA QuietFits ==
  ASSUME FilesInv, UNCHANGED <<memory, cur>>, status' # "crashed",
         Sane(segs, objs, tables) \/ boot' \in {"execd", "user"}
  PROVE  FilesInv'
<1>1. segs' = segs /\ objs' = objs /\ tables' = tables /\ cur' = cur
  BY DEF memory
<1>2. QED
  BY <1>1 DEF FilesInv

\* exec in the bootstrap or in a program.
LEMMA ExecFiles ==
  ASSUME BenignDivisors, WellFormedFiles, KernelInv, FilesInv, Sane(segs, objs, tables),
         cur \in DOMAIN tables, NEW f, ExecFile(f), boot' \in {"execd", "user"}
  PROVE  FilesInv'
<1>1. cur' = cur
  BY DEF ExecFile
<1>2. QED
  BY <1>1, ExecFit DEF FilesInv

LEMMA NextFiles ==
  BenignDivisors /\ WellFormedFiles /\ KernelInv /\ FilesInv /\ [Next]_vars => FilesInv'
<1> SUFFICES ASSUME BenignDivisors, WellFormedFiles, KernelInv, FilesInv, [Next]_vars PROVE FilesInv'
  OBVIOUS
<1>1. status # "crashed"
  BY DEF FilesInv
<1>2. CASE BootFork
  <2>1. status' = status
    BY <1>2 DEF BootFork
  <2>2. QED
    BY <1>1, <1>2, <2>1, BootForkFit DEF FilesInv
<1>3. CASE Ssma \/ Ssml
  <2>1. Sane(segs, objs, tables)
    BY <1>3 DEF FilesInv, Ssma, Ssml
  <2>2. segs' = segs /\ objs' = objs /\ tables' = tables /\ status' = status
    BY <1>3 DEF Ssma, Ssml, memory
  <2>3. QED
    BY <1>1, <2>1, <2>2 DEF FilesInv
<1>4. CASE BootExec
  <2>1. boot = "sized" /\ boot' = "execd" /\ ExecFile(Init_x)
    BY <1>4 DEF BootExec
  <2>2. Sane(segs, objs, tables) /\ cur \in DOMAIN tables
    BY <2>1 DEF FilesInv, KernelInv, ControlInv
  <2>3. QED
    BY <2>1, <2>2, ExecFiles
<1>5. CASE BootRte
  <2>1. UNCHANGED <<memory, cur>> /\ boot' = "user"
        /\ status' \in {status, "halted"}
    BY <1>5 DEF BootRte
  <2>2. QED
    BY <1>1, <2>1, QuietFits
<1>6. ASSUME NEW f \in Files \cup {Missing}, Exec(f) PROVE FilesInv'
  <2>1. Running /\ boot = "user" /\ boot' = boot /\ ExecFile(f)
    BY <1>6 DEF Exec, Running
  <2>2. QED
    BY <2>1, RunningIsSane, ExecFiles
<1>7. CASE Fork
  <2>1. status' = status
    BY <1>7 DEF Fork
  <2>2. QED
    BY <1>1, <1>7, <2>1, ForkFit DEF FilesInv
<1>8. ASSUME UNCHANGED <<memory, cur, boot>>, status' \in {status, "halted"}
      PROVE  FilesInv'
  BY <1>1, <1>8, QuietFits DEF FilesInv
<1>9. ASSUME NEW r \in {"EFAULT", "EPERM", "EACCES", "Fault"}, ExecBadName(r) PROVE FilesInv'
  BY <1>8, <1>9 DEF ExecBadName
<1>10. CASE ForkNoRoom
  BY <1>8, <1>10 DEF ForkNoRoom
<1>11. ASSUME NEW r \in {"EPERM", "ok"}, OtherCall(r) PROVE FilesInv'
  BY <1>8, <1>11 DEF OtherCall
<1>12. CASE Stop
  BY <1>8, <1>12 DEF Stop
<1>13. CASE UNCHANGED vars
  BY <1>8, <1>13 DEF vars, memory
<1>14. CASE Boot
  BY <1>2, <1>3, <1>4, <1>5, <1>14 DEF Boot
<1>15. QED
  BY <1>6, <1>7, <1>9, <1>10, <1>11, <1>12, <1>13, <1>14, Zenon DEF Next

LEMMA FilesInvariance ==
  ASSUME BenignDivisors, WellFormedFiles
  PROVE  Spec => [](KernelInv /\ FilesInv)
<1>1. Init => KernelInv /\ FilesInv
  BY InitKernel, InitFiles
<1>2. (KernelInv /\ FilesInv) /\ [Next]_vars => (KernelInv /\ FilesInv)'
  BY NextKernel, NextFiles
<1>3. QED
  BY <1>1, <1>2, PTL DEF Spec

\* For well-formed files (no number twice, past the table or the Process
\* structure's), no process keeps an entry that grants access to a freed segment,
\* or at another place or size than the segment has: a shared object's segments
\* outlive exec for as long as a process left behind by fork maps them.
THEOREM MappingsAreLive ==
  ASSUME BenignDivisors, WellFormedFiles
  PROVE  Spec => []NoStaleMapping
<1>1. KernelInv /\ FilesInv => NoStaleMapping
  <2> SUFFICES ASSUME KernelInv, FilesInv, NEW u \in DOMAIN tables, NEW no \in SegNos,
                      tables[u][no].flags # {}
               PROVE  /\ segs[tables[u][no].segid].base # 0
                      /\ tables[u][no].base = segs[tables[u][no].segid].base
                      /\ tables[u][no].size = segs[tables[u][no].segid].size
    BY Zenon DEF NoStaleMapping, Live
  <2>1. Means(segs, tables[u][no]) /\ Agrees(segs, tables[u][no])
    BY DEF KernelInv, MemoryInv, Good, Meant, FilesInv, Agreeing
  <2>2. CASE Valid(tables[u][no])
    BY <2>1, <2>2 DEF Agrees
  <2>3. CASE ~Valid(tables[u][no])
    BY <2>1, <2>3 DEF Means
  <2>4. QED
    BY <2>2, <2>3
<1>2. QED
  BY <1>1, FilesInvariance, PTL

\* For well-formed files, exec never dereferences the null obj of a half-loaded
\* object, and while a program runs whatever the cache would hand out is loaded
\* in full with none of its segments freed.
THEOREM CacheStaysUsable ==
  ASSUME BenignDivisors, WellFormedFiles
  PROVE  Spec => []CacheIsUsable
<1>1. KernelInv /\ FilesInv => CacheIsUsable
  <2> SUFFICES ASSUME KernelInv, FilesInv PROVE CacheIsUsable
    OBVIOUS
  <2>1. status # "crashed"
    BY DEF FilesInv
  <2>2. ASSUME Running, NEW f \in DOMAIN objs
        PROVE  /\ objs[f].whole
               /\ DOMAIN objs[f].map = {s.no : s \in {x \in ToSet(Sections[f]) : x.size > 0}}
               /\ \A no \in DOMAIN objs[f].map :
                    Live(objs[f].map[no]) /\ segs[objs[f].map[no]].ino = f
    <3>1. Sound(segs, objs)
      BY <2>2, RunningIsSane DEF Sane
    <3>2. objs[f].whole
      BY <2>2, <3>1, Zenon DEF Sound
    <3>3. DOMAIN objs[f].map = Numbers(f, DOMAIN Sections[f])
      BY <2>2, <3>1 DEF Sound
    <3>4. Numbers(f, DOMAIN Sections[f])
            = {s.no : s \in {x \in ToSet(Sections[f]) : x.size > 0}}
      BY DEF Numbers, ToSet
    <3>5. ASSUME NEW no \in DOMAIN objs[f].map
          PROVE  segs[objs[f].map[no]].base # 0 /\ segs[objs[f].map[no]].ino = f
      <4>1. objs \in Caches /\ Placed(heap, segs) /\ ObjectsCounted(segs, objs)
        BY DEF KernelInv, MemoryInv, Good
      <4>2. segs[objs[f].map[no]].ino = f
        BY <2>2, <3>1, <3>5 DEF Sound
      <4>3. objs[f].map[no] \in 1 .. Len(segs) /\ f # NoFile
        BY <2>2, <4>1, <3>5, KernelAssumption DEF ObjectsCounted, Caches
      <4>4. QED
        BY <4>1, <4>2, <4>3 DEF Placed
    <3>6. QED
      BY <3>2, <3>3, <3>4, <3>5, Zenon DEF Live
  <2>3. QED
    BY <2>1, <2>2, Zenon DEF CacheIsUsable
<1>2. QED
  BY <1>1, FilesInvariance, PTL

-----------------------------------------------------------------------------
(* exec and fork implement ProcessImages *)

\* What a table maps of object files.
Reads(tbl, ss) == {<<no, ss[tbl[no].segid].ino>> : no \in {n \in SegNos : Valid(tbl[n])}}

LEMMA SameReads ==
  ASSUME NEW tbl, NEW t2, NEW ss, NEW s2,
         \A no \in SegNos :
           /\ Valid(t2[no]) <=> Valid(tbl[no])
           /\ Valid(tbl[no]) => s2[t2[no].segid].ino = ss[tbl[no].segid].ino
  PROVE  Reads(t2, s2) = Reads(tbl, ss)
BY DEF Reads

LEMMA NothingRead ==
  ASSUME NEW tbl, NEW ss, MapsNothing(tbl)
  PROVE  Reads(tbl, ss) = {}
BY DEF Reads, MapsNothing

\* A table that maps a sound object reads the sections of its file.
LEMMA FileRead ==
  ASSUME WellFormedFiles, NEW ss, NEW os \in Caches, Sound(ss, os),
         NEW f \in DOMAIN os, NEW tbl, MapsFile(tbl, os, f)
  PROVE  f \in Files /\ Reads(tbl, ss) = SectionImage(f)
<1>1. f \in Files /\ DOMAIN os[f].map \subseteq SegNos
  BY SoundNumbers
<1>2. \A no \in SegNos :
        /\ Valid(tbl[no]) <=> no \in DOMAIN os[f].map
        /\ Valid(tbl[no]) => ss[tbl[no].segid].ino = f
  BY DEF MapsFile, Sound
<1>3. Reads(tbl, ss) = {<<no, f>> : no \in DOMAIN os[f].map}
  BY <1>1, <1>2 DEF Reads
<1>4. DOMAIN os[f].map = Numbers(f, DOMAIN Sections[f])
  BY DEF Sound
<1>5. SectionImage(f) = {<<no, f>> : no \in Numbers(f, DOMAIN Sections[f])}
  BY DEF SectionImage, Numbers, ToSet
<1>6. QED
  BY <1>1, <1>3, <1>4, <1>5

LEMMA OnlyPid ==
  ASSUME NEW F, \A p, q \in DOMAIN F : F[p] = F[q] => p = q, NEW p \in DOMAIN F
  PROVE  (CHOOSE q \in DOMAIN F : F[q] = F[p]) = p
OBVIOUS

\* Each process has one pid, and the running one is a process once ssma has run.
PidsInv ==
  /\ \A p, q \in DOMAIN procs : procs[p] = procs[q] => p = q
  /\ cur = 0 <=> boot \in {"reset", "forked"}
  /\ cur # 0 => \E p \in DOMAIN procs : procs[p] = cur
  /\ boot = "reset" => DOMAIN procs = {}

LEMMA InitPids == Init => PidsInv
BY DEF Init, PidsInv

\* A process joins procs under a pid that is free.
LEMMA PidJoins ==
  ASSUME NEW F, NEW pid, NEW n, pid \notin DOMAIN F,
         \A p \in DOMAIN F : F[p] # n,
         \A p, q \in DOMAIN F : F[p] = F[q] => p = q
  PROVE  /\ DOMAIN Joined(F, pid, n) = DOMAIN F \cup {pid}
         /\ Joined(F, pid, n)[pid] = n
         /\ \A p \in DOMAIN F : Joined(F, pid, n)[p] = F[p]
         /\ \A p, q \in DOMAIN Joined(F, pid, n) :
              Joined(F, pid, n)[p] = Joined(F, pid, n)[q] => p = q
BY DEF Joined

LEMMA NewestIsNew ==
  ASSUME KernelInv
  PROVE  /\ Len(segs) + 1 \notin DOMAIN tables /\ Len(segs) + 1 # 0
         /\ \A p \in DOMAIN procs : procs[p] \in DOMAIN tables /\ procs[p] # 0
<1>1. DOMAIN tables \subseteq 1 .. Len(segs) /\ segs \in Seq(Segment)
      /\ \A p \in DOMAIN procs : procs[p] \in DOMAIN tables
  BY DEF KernelInv, ControlInv, MemoryInv, Good, Meant
<1>2. Len(segs) \in Nat
  BY <1>1
<1>3. QED
  BY <1>1, <1>2

LEMMA NextPids == KernelInv /\ PidsInv /\ [Next]_vars => PidsInv'
<1> SUFFICES ASSUME KernelInv, PidsInv, [Next]_vars PROVE PidsInv'
  OBVIOUS
<1>1. MemoryInv /\ ControlInv
  BY DEF KernelInv
<1>2. CASE BootFork
  <2>1. procs' = Joined(procs, 1, Len(segs) + 1) /\ boot = "reset" /\ boot' = "forked"
        /\ cur' = cur
    BY <1>1, <1>2, BootForkJoins DEF BootFork
  <2>2. DOMAIN procs = {} /\ cur = 0
    BY <2>1 DEF PidsInv
  <2>3. \A p, q \in DOMAIN procs' : procs'[p] = procs'[q] => p = q
    BY <2>1, <2>2 DEF Joined
  <2>4. QED
    BY <2>1, <2>2, <2>3 DEF PidsInv
<1>3. CASE Ssma
  <2>1. boot = "forked" /\ boot' = "mapped" /\ cur' = procs[1] /\ procs' = procs
    BY <1>3 DEF Ssma
  <2>2. 1 \in DOMAIN procs /\ procs[1] # 0
    BY <1>1, <2>1, NewestIsNew DEF ControlInv
  <2>3. QED
    BY <2>1, <2>2 DEF PidsInv
<1>4. CASE Fork
  <2>1. boot' = boot /\ boot = "user" /\ cur \in DOMAIN tables
    BY <1>1, <1>4 DEF Fork, Running, ControlInv
  <2> DEFINE n == Len(segs) + 1
  <2>2. PICK pid : procs' = Joined(procs, pid, n) /\ pid \notin DOMAIN procs
    BY <1>1, <1>4, <2>1, ForkJoins
  <2>3. cur' = n
    BY <1>1, <1>4, <2>1, ForkJoins
  <2>4. n \notin DOMAIN tables /\ n # 0 /\ \A p \in DOMAIN procs : procs[p] \in DOMAIN tables
    BY NewestIsNew
  <2>5. \A p, q \in DOMAIN procs : procs[p] = procs[q] => p = q
    BY DEF PidsInv
  <2> DEFINE next == Joined(procs, pid, n)
  <2>5a. pid \notin DOMAIN procs /\ \A p \in DOMAIN procs : procs[p] # n
    BY <2>2, <2>4
  <2> HIDE DEF n
  <2>6. /\ DOMAIN next = DOMAIN procs \cup {pid} /\ next[pid] = n
        /\ \A p, q \in DOMAIN next : next[p] = next[q] => p = q
    BY <2>5, <2>5a, PidJoins
  <2> HIDE DEF next
  <2>7. procs' = next
    BY <2>2 DEF next
  <2>8. QED
    BY <2>1, <2>3, <2>4, <2>6, <2>7 DEF PidsInv
<1>5. ASSUME procs' = procs, cur' = cur,
             boot' = boot \/ (boot \notin {"reset", "forked"}
                              /\ boot' \notin {"reset", "forked"})
      PROVE  PidsInv'
  BY <1>5 DEF PidsInv
<1>6. CASE Ssml \/ BootExec \/ BootRte
  BY <1>5, <1>6 DEF Ssml, BootExec, BootRte, ExecFile
<1>7. CASE Boot
  BY <1>2, <1>3, <1>6, <1>7 DEF Boot
<1>8. ASSUME NEW f \in Files \cup {Missing}, Exec(f) PROVE PidsInv'
  BY <1>5, <1>8 DEF Exec, ExecFile
<1>9. ASSUME NEW r \in {"EFAULT", "EPERM", "EACCES", "Fault"}, ExecBadName(r) PROVE PidsInv'
  BY <1>5, <1>9 DEF ExecBadName
<1>10. CASE ForkNoRoom
  BY <1>5, <1>10 DEF ForkNoRoom
<1>11. ASSUME NEW r \in {"EPERM", "ok"}, OtherCall(r) PROVE PidsInv'
  BY <1>5, <1>11 DEF OtherCall
<1>12. CASE Stop
  BY <1>5, <1>12 DEF Stop
<1>13. CASE UNCHANGED vars
  BY <1>5, <1>13 DEF vars
<1>14. QED
  BY <1>4, <1>7, <1>8, <1>9, <1>10, <1>11, <1>12, <1>13, Zenon DEF Next

\* The variables of ProcessImages, as the kernel implements them.
BarImage   == [p \in DOMAIN procs |-> MappedImage(procs[p])]
BarRunning == IF cur = 0 THEN 0 ELSE PidOf(cur)

ReadsOf(F, tabs, ss) == [p \in DOMAIN F |-> Reads(tabs[F[p]], ss)]

LEMMA BarImageIs ==
  /\ BarImage = ReadsOf(procs, tables, segs)
  /\ BarImage' = ReadsOf(procs', tables', segs')
BY DEF BarImage, MappedImage, ReadsOf, Reads

LEMMA BarRunningIs ==
  ASSUME KernelInv, PidsInv, cur # 0
  PROVE  BarRunning \in DOMAIN procs /\ procs[BarRunning] = cur /\ BarRunning # 0
<1>1. PICK p \in DOMAIN procs : procs[p] = cur
  BY DEF PidsInv
<1>2. BarRunning \in DOMAIN procs /\ procs[BarRunning] = cur
  BY <1>1 DEF BarRunning, PidOf
<1>3. 0 \notin DOMAIN procs
  BY DEF KernelInv, ControlInv
<1>4. QED
  BY <1>2, <1>3

LEMMA StutterIs ==
  ASSUME UNCHANGED <<segs, tables, procs, cur>>
  PROVE  UNCHANGED Images!ivars
<1>1. BarImage' = BarImage
  BY BarImageIs
<1>2. BarRunning' = BarRunning
  BY DEF BarRunning, PidOf
<1>3. QED
  BY <1>1, <1>2 DEF BarImage, BarRunning, Images!ivars

\* A process other than the caller reads what it did.
LEMMA OthersRead ==
  ASSUME NEW t2, NEW s2, NEW u,
         FilesKept([segs |-> s2], [segs |-> segs], tables, u),
         \A v \in DOMAIN tables : v # u => t2[v] = tables[v],
         NEW v \in DOMAIN tables, v # u
  PROVE  Reads(t2[v], s2) = Reads(tables[v], segs)
<1>1. t2[v] = tables[v]
  OBVIOUS
<1>2. \A no \in SegNos : Valid(tables[v][no]) =>
        s2[t2[v][no].segid].ino = segs[tables[v][no].segid].ino
  BY <1>1 DEF FilesKept
<1>3. QED
  BY <1>1, <1>2, SameReads

LEMMA ExecImages ==
  ASSUME BenignDivisors, WellFormedFiles, KernelInv, FilesInv, PidsInv,
         Sane(segs, objs, tables), cur \in DOMAIN tables, cur # 0, MemoryInv', NEW f, ExecFile(f)
  PROVE  Images!INext
<1> DEFINE r == BarRunning
<1>1. procs' = procs /\ cur' = cur
  BY DEF ExecFile
<1>2. r \in DOMAIN procs /\ procs[r] = cur /\ r # 0
  BY BarRunningIs
<1>3. BarRunning' = BarRunning
  BY <1>1 DEF BarRunning, PidOf
<1>4. /\ FilesKept([segs |-> segs'], [segs |-> segs], tables, cur)
      /\ IF ret' = "ok"
         THEN /\ Sane(segs', objs', tables') /\ f \in DOMAIN objs'
              /\ MapsFile(tables'[cur], objs', f)
         ELSE MapsNothing(tables'[cur])
      /\ \A v \in DOMAIN tables : v # cur => tables'[v] = tables[v]
  BY ExecFit
<1>5. ASSUME NEW p \in DOMAIN procs, p # r
      PROVE  Reads(tables'[procs[p]], segs') = Reads(tables[procs[p]], segs)
  <2>1. procs[p] \in DOMAIN tables /\ procs[p] # cur
    BY <1>2, <1>5 DEF KernelInv, ControlInv, PidsInv
  <2> DEFINE t2 == tables'
             s2 == segs'
             v == procs[p]
  <2>2. /\ FilesKept([segs |-> s2], [segs |-> segs], tables, cur)
        /\ \A w \in DOMAIN tables : w # cur => t2[w] = tables[w]
    BY <1>4
  <2>3. v \in DOMAIN tables /\ v # cur
    BY <2>1
  <2> HIDE DEF t2, s2, v
  <2>4. Reads(t2[v], s2) = Reads(tables[v], segs)
    BY <2>2, <2>3, OthersRead
  <2>5. QED
    BY <2>4 DEF t2, s2, v
<1> HIDE DEF r
<1>6. ASSUME NEW X, Reads(tables'[cur], segs') = X
      PROVE  BarImage' = [BarImage EXCEPT ![r] = X]
  <2>1. BarImage' = ReadsOf(procs, tables', segs')
    BY <1>1, BarImageIs
  <2>2. BarImage = ReadsOf(procs, tables, segs)
    BY BarImageIs
  <2>3. QED
    BY <1>2, <1>5, <1>6, <2>1, <2>2 DEF ReadsOf
<1>7. CASE ret' = "ok"
  <2> DEFINE t2 == tables'[cur]
             s2 == segs'
             os == objs'
  <2>1. os \in Caches
    BY DEF MemoryInv
  <2>2. Sound(s2, os) /\ f \in DOMAIN os /\ MapsFile(t2, os, f)
    BY <1>4, <1>7 DEF Sane
  <2> HIDE DEF t2, s2, os
  <2>3. f \in Files /\ Reads(t2, s2) = SectionImage(f)
    BY <2>1, <2>2, FileRead
  <2>4. f \in Files /\ BarImage' = [BarImage EXCEPT ![BarRunning] = SectionImage(f)]
    BY <1>6, <2>3 DEF t2, s2, r
  <2>5. Images!IExec(f)
    BY <1>2, <1>3, <2>4 DEF Images!IExec, BarImage, BarRunning, r
  <2>6. QED
    BY <2>4, <2>5 DEF Images!INext
<1>8. CASE ret' # "ok"
  <2> DEFINE t2 == tables'[cur]
             s2 == segs'
  <2>1. MapsNothing(t2)
    BY <1>4, <1>8
  <2> HIDE DEF t2, s2
  <2>2. Reads(t2, s2) = {}
    BY <2>1, NothingRead
  <2>3. BarImage' = [BarImage EXCEPT ![BarRunning] = {}]
    BY <1>6, <2>2 DEF t2, s2, r
  <2>4. Images!IExecFails
    BY <1>2, <1>3, <2>3 DEF Images!IExecFails, BarImage, BarRunning, r
  <2>5. QED
    BY <2>4 DEF Images!INext
<1>9. QED
  BY <1>7, <1>8

\* Others read what they did; the child reads what the table it inherits does.
ReadsJoin(t2, next, tabs, ss, n, tbl) ==
  /\ \A v \in DOMAIN tabs : Reads(t2[v], next) = Reads(tabs[v], ss)
  /\ (\A no \in SegNos \ {Uarea} : tbl[no] = NoEntry) => Reads(t2[n], next) = {}
  /\ \A w \in DOMAIN tabs :
       /\ \A no \in SegNos \ {Uarea} : tbl[no] = Inherited(tabs[w][no])
       /\ ~Valid(tabs[w][Uarea])
       => Reads(t2[n], next) = Reads(tabs[w], ss)

LEMMA JoinedReads ==
  ASSUME NEW h, NEW ss \in Seq(Segment), NEW os, NEW tabs \in Tables,
         Good(h, ss, os, tabs),
         NEW mid, NEW pf, NEW n, NEW tbl, NEW next, NEW t2,
         ProcessJoins(next, t2, ss, tabs, mid, pf, n, tbl)
  PROVE  ReadsJoin(t2, next, tabs, ss, n, tbl)
<1>1. /\ n = Len(ss) + 1 /\ Appended(mid, ss, 1, pf, Page, NoFile)
      /\ tbl[Uarea] = [segid |-> n, base |-> pf, size |-> Page,
                       flags |-> {"SUPER", "READ", "WRITE"}]
      /\ SamePlaces(next, mid)
      /\ t2[n] = tbl /\ \A v \in DOMAIN tabs : t2[v] = tabs[v]
  BY DEF ProcessJoins
<1>2. /\ Len(ss) \in Nat
      /\ \A k \in 1 .. Len(ss) : next[k].ino = ss[k].ino
  BY <1>1 DEF SamePlaces, Appended
<1>3. ~Valid(tbl[Uarea]) /\ ~Valid(NoEntry)
  BY <1>1 DEF Valid, NoEntry
<1>4. ASSUME NEW w \in DOMAIN tabs, NEW no \in SegNos, Valid(tabs[w][no])
      PROVE  next[tabs[w][no].segid].ino = ss[tabs[w][no].segid].ino
  BY <1>2, <1>4, MappedCounts
<1>5. ASSUME NEW v \in DOMAIN tabs PROVE Reads(t2[v], next) = Reads(tabs[v], ss)
  BY <1>1, <1>4, SameReads
<1>6. ASSUME \A no \in SegNos \ {Uarea} : tbl[no] = NoEntry
      PROVE  Reads(t2[n], next) = {}
  <2>1. MapsNothing(tbl)
    BY <1>3, <1>6 DEF MapsNothing
  <2>2. QED
    BY <1>1, <2>1, NothingRead
<1>7. ASSUME NEW w \in DOMAIN tabs, ~Valid(tabs[w][Uarea]),
             \A no \in SegNos \ {Uarea} : tbl[no] = Inherited(tabs[w][no])
      PROVE  Reads(t2[n], next) = Reads(tabs[w], ss)
  <2>1. ASSUME NEW no \in SegNos
        PROVE  /\ Valid(tbl[no]) <=> Valid(tabs[w][no])
               /\ Valid(tabs[w][no]) => tbl[no].segid = tabs[w][no].segid
    <3>1. CASE no = Uarea
      BY <1>3, <1>7, <3>1
    <3>2. CASE no # Uarea
      <4>1. tabs[w][no] \in Entry
        BY TablesEntries
      <4>2. tbl[no] = Inherited(tabs[w][no])
        BY <1>7, <3>2
      <4>3. QED
        BY <4>1, <4>2, InheritedSame
    <3>3. QED
      BY <3>1, <3>2
  <2>2. Reads(tbl, next) = Reads(tabs[w], ss)
    BY <1>4, <2>1, SameReads
  <2>3. QED
    BY <1>1, <2>2
<1>8. QED
  BY <1>5, <1>6, <1>7 DEF ReadsJoin

LEMMA ForkImages ==
  ASSUME WellFormedFiles, KernelInv, FilesInv, PidsInv, Fork
  PROVE  Images!INext
<1> DEFINE pf == Place(heap, PagesFor(Page))
           n == Len(segs) + 1
           child == [no \in SegNos |->
                       IF no = Uarea
                       THEN [segid |-> n, base |-> pf, size |-> Page,
                             flags |-> {"SUPER", "READ", "WRITE"}]
                       ELSE Inherited(tables[cur][no])]
           r == BarRunning
<1>1. /\ MemoryInv /\ cur \in DOMAIN tables /\ Sane(segs, objs, tables) /\ Running
  BY RunningIsSane DEF KernelInv, Fork
<1>2. /\ \E mid : ProcessJoins(segs', tables', segs, tables, mid, pf, n, child)
      /\ \E pid \in 1 .. PidLimit - 1 :
           /\ procs' = Joined(procs, pid, n) /\ pid \notin DOMAIN procs
      /\ cur' = n
  BY <1>1, ForkJoins
<1>3. \A no \in SegNos \ {Uarea} : child[no] = Inherited(tables[cur][no])
  OBVIOUS
<1>4. n \notin DOMAIN tables /\ n # 0
      /\ \A p \in DOMAIN procs : procs[p] \in DOMAIN tables /\ procs[p] # 0
  BY NewestIsNew
<1> HIDE DEF child, pf, n
<1>5. PICK mid : ProcessJoins(segs', tables', segs, tables, mid, pf, n, child)
  BY <1>2
<1>6. PICK pid \in 1 .. PidLimit - 1 :
        procs' = Joined(procs, pid, n) /\ pid \notin DOMAIN procs
  BY <1>2
<1>7. cur # 0 /\ r \in DOMAIN procs /\ procs[r] = cur /\ r # 0
  <2>1. cur # 0
    BY <1>1 DEF PidsInv, Running
  <2>2. QED
    BY <2>1, BarRunningIs
<1> HIDE DEF r
<1>8. /\ segs \in Seq(Segment) /\ objs \in Caches /\ tables \in Tables
      /\ Good(heap, segs, objs, tables)
  BY <1>1 DEF MemoryInv
<1>9. ~Valid(tables[cur][Uarea])
  BY <1>1, <1>8, NothingInStructure
<1> DEFINE s2 == segs'
           t2 == tables'
           next == Joined(procs, pid, n)
<1>10. ProcessJoins(s2, t2, segs, tables, mid, pf, n, child)
  BY <1>5
<1> HIDE DEF s2, t2
<1>11. /\ \A v \in DOMAIN tables : Reads(t2[v], s2) = Reads(tables[v], segs)
       /\ Reads(t2[n], s2) = Reads(tables[cur], segs)
  <2>1. ReadsJoin(t2, s2, tables, segs, n, child)
    BY <1>8, <1>10, JoinedReads
  <2>2. QED
    BY <1>1, <1>3, <1>9, <2>1 DEF ReadsJoin
<1>12. /\ \A p, q \in DOMAIN procs : procs[p] = procs[q] => p = q
       /\ \A p \in DOMAIN procs : procs[p] # n
       /\ pid \notin DOMAIN procs
  BY <1>4, <1>6 DEF PidsInv
<1> HIDE DEF next
<1>13. /\ DOMAIN next = DOMAIN procs \cup {pid} /\ next[pid] = n
       /\ \A p \in DOMAIN procs : next[p] = procs[p]
       /\ \A p, q \in DOMAIN next : next[p] = next[q] => p = q
  <2>1. /\ DOMAIN Joined(procs, pid, n) = DOMAIN procs \cup {pid}
        /\ Joined(procs, pid, n)[pid] = n
        /\ \A p \in DOMAIN procs : Joined(procs, pid, n)[p] = procs[p]
        /\ \A p, q \in DOMAIN Joined(procs, pid, n) :
             Joined(procs, pid, n)[p] = Joined(procs, pid, n)[q] => p = q
    BY <1>12, PidJoins, Zenon
  <2>2. QED
    BY <2>1 DEF next
<1>14. procs' = next
  BY <1>6 DEF next
<1>15. BarRunning' = pid
  <2>1. (CHOOSE q \in DOMAIN next : next[q] = n) = pid
    BY <1>13
  <2>2. BarRunning' = IF cur' = 0 THEN 0
                      ELSE CHOOSE q \in DOMAIN procs' : procs'[q] = cur'
    BY DEF BarRunning, PidOf
  <2>3. QED
    BY <1>2, <1>4, <1>14, <2>1, <2>2
<1>16. BarImage = ReadsOf(procs, tables, segs) /\ BarImage' = ReadsOf(next, t2, s2)
  BY <1>14, BarImageIs DEF t2, s2
<1>17. BarImage' = [p \in DOMAIN BarImage \cup {pid} |->
                      IF p = pid THEN BarImage[r] ELSE BarImage[p]]
  <2>1. DOMAIN BarImage = DOMAIN procs
        /\ \A p \in DOMAIN procs : BarImage[p] = Reads(tables[procs[p]], segs)
    BY <1>16 DEF ReadsOf
  <2>2. ReadsOf(next, t2, s2) = [p \in DOMAIN procs \cup {pid} |-> Reads(t2[next[p]], s2)]
    BY <1>13 DEF ReadsOf
  <2>3. ASSUME NEW p \in DOMAIN procs \cup {pid}
        PROVE  Reads(t2[next[p]], s2) = IF p = pid THEN BarImage[r] ELSE BarImage[p]
    <3>1. CASE p = pid
      BY <1>7, <1>11, <1>13, <2>1, <3>1
    <3>2. CASE p # pid
      BY <1>4, <1>11, <1>13, <2>1, <3>2
    <3>3. QED
      BY <3>1, <3>2
  <2>4. QED
    BY <1>16, <2>1, <2>2, <2>3
<1>18. pid \notin DOMAIN BarImage
  BY <1>12 DEF BarImage
<1>19. /\ BarRunning # 0 /\ BarRunning' \notin DOMAIN BarImage
       /\ BarImage' = [p \in DOMAIN BarImage \cup {BarRunning'} |->
                         IF p = BarRunning' THEN BarImage[BarRunning] ELSE BarImage[p]]
  BY <1>7, <1>15, <1>17, <1>18 DEF r
<1>20. Images!IFork
  BY <1>19 DEF Images!IFork, BarImage, BarRunning
<1>21. QED
  BY <1>20 DEF Images!INext

LEMMA BootForkImages ==
  ASSUME KernelInv, PidsInv, BootFork
  PROVE  Images!INext
<1> DEFINE pf == Place(heap, PagesFor(Page))
           n == Len(segs) + 1
           tbl == NewTable(n, pf)
<1>1. MemoryInv
  BY DEF KernelInv
<1>2. /\ \E mid : ProcessJoins(segs', tables', segs, tables, mid, pf, n, tbl)
      /\ \A no \in SegNos \ {Uarea} : tbl[no] = NoEntry
      /\ procs' = Joined(procs, 1, n)
  BY <1>1, BootForkJoins
<1>3. DOMAIN procs = {} /\ cur' = cur /\ cur = 0
  BY DEF BootFork, PidsInv
<1> HIDE DEF tbl, pf, n
<1>4. PICK mid : ProcessJoins(segs', tables', segs, tables, mid, pf, n, tbl)
  BY <1>2
<1>5. /\ segs \in Seq(Segment) /\ objs \in Caches /\ tables \in Tables
      /\ Good(heap, segs, objs, tables)
  BY <1>1 DEF MemoryInv
<1> DEFINE s2 == segs'
           t2 == tables'
<1>6. ProcessJoins(s2, t2, segs, tables, mid, pf, n, tbl)
  BY <1>4
<1> HIDE DEF s2, t2
<1>7. Reads(t2[n], s2) = {}
  <2>1. ReadsJoin(t2, s2, tables, segs, n, tbl)
    BY <1>5, <1>6, JoinedReads
  <2>2. QED
    BY <1>2, <2>1 DEF ReadsJoin
<1>8. DOMAIN procs' = {1} /\ procs'[1] = n
  BY <1>2, <1>3 DEF Joined
<1>9. BarImage' = [p \in DOMAIN procs' |-> Reads(t2[procs'[p]], s2)]
  BY BarImageIs DEF ReadsOf, s2, t2
<1>10. BarImage' = [p \in {1} |-> {}]
  BY <1>7, <1>8, <1>9
<1>11. DOMAIN BarImage = {} /\ BarRunning' = BarRunning
  BY <1>3 DEF BarImage, BarRunning
<1>12. Images!Create
  BY <1>10, <1>11 DEF Images!Create, BarImage, BarRunning
<1>13. QED
  BY <1>12 DEF Images!INext

LEMMA SsmaImages ==
  ASSUME KernelInv, PidsInv, Ssma
  PROVE  Images!INext
<1>1. /\ segs' = segs /\ tables' = tables /\ procs' = procs /\ cur' = procs[1]
      /\ boot = "forked"
  BY DEF Ssma, memory
<1>2. 1 \in DOMAIN procs /\ procs[1] # 0 /\ cur = 0
  BY <1>1, NewestIsNew DEF KernelInv, ControlInv, PidsInv
<1>3. BarImage' = BarImage
  BY <1>1, BarImageIs
<1>4. BarRunning = 0 /\ 1 \in DOMAIN BarImage
  BY <1>2 DEF BarRunning, BarImage
<1>5. BarRunning' = 1
  <2>1. (CHOOSE q \in DOMAIN procs : procs[q] = procs[1]) = 1
    BY <1>2 DEF PidsInv
  <2>2. BarRunning' = IF cur' = 0 THEN 0
                      ELSE CHOOSE q \in DOMAIN procs' : procs'[q] = cur'
    BY DEF BarRunning, PidOf
  <2>3. QED
    BY <1>1, <1>2, <2>1, <2>2
<1>6. Images!Run
  BY <1>3, <1>4, <1>5 DEF Images!Run, BarImage, BarRunning
<1>7. QED
  BY <1>6 DEF Images!INext

LEMMA NextImages ==
  ASSUME BenignDivisors, WellFormedFiles, KernelInv, FilesInv, PidsInv, [Next]_vars
  PROVE  [Images!INext]_(Images!ivars)
<1>1. MemoryInv'
  BY NextKernel DEF KernelInv
<1>2. ASSUME NEW f, ExecFile(f), boot \in {"sized", "user"}, Sane(segs, objs, tables)
      PROVE  Images!INext
  <2>1. cur \in DOMAIN tables /\ cur # 0
    BY <1>2 DEF KernelInv, ControlInv, PidsInv
  <2>2. QED
    BY <1>1, <1>2, <2>1, ExecImages
<1>3. CASE BootFork
  BY <1>3, BootForkImages
<1>4. CASE Ssma
  BY <1>4, SsmaImages
<1>5. CASE BootExec
  <2>1. boot = "sized" /\ ExecFile(Init_x) /\ Sane(segs, objs, tables)
    BY <1>5 DEF BootExec, FilesInv
  <2>2. QED
    BY <1>2, <2>1
<1>6. CASE Ssml \/ BootRte
  BY <1>6, StutterIs DEF Ssml, BootRte, memory
<1>7. CASE Boot
  BY <1>3, <1>4, <1>5, <1>6, <1>7 DEF Boot
<1>8. ASSUME NEW f \in Files \cup {Missing}, Exec(f) PROVE Images!INext
  <2>1. Running /\ boot = "user" /\ ExecFile(f)
    BY <1>8 DEF Exec, Running
  <2>2. QED
    BY <1>2, <2>1, RunningIsSane
<1>9. CASE Fork
  BY <1>9, ForkImages
<1>10. ASSUME NEW r \in {"EFAULT", "EPERM", "EACCES", "Fault"}, ExecBadName(r)
       PROVE  UNCHANGED Images!ivars
  BY <1>10, StutterIs DEF ExecBadName, memory
<1>11. CASE ForkNoRoom
  BY <1>11, StutterIs DEF ForkNoRoom, memory
<1>12. ASSUME NEW r \in {"EPERM", "ok"}, OtherCall(r) PROVE UNCHANGED Images!ivars
  BY <1>12, StutterIs DEF OtherCall, memory
<1>13. CASE Stop
  BY <1>13, StutterIs DEF Stop, memory
<1>14. CASE UNCHANGED vars
  BY <1>14, StutterIs DEF vars
<1>15. QED
  BY <1>7, <1>8, <1>9, <1>10, <1>11, <1>12, <1>13, <1>14, Zenon DEF Next

\* For well-formed files, exec maps every section of the file, whether it came
\* from the cache or from disk, or leaves nothing; fork gives the child the
\* parent's image; and no call changes the image of a process left behind.
THEOREM ExecMapsWholeImages ==
  ASSUME BenignDivisors, WellFormedFiles
  PROVE  Spec => ImagesAreKept
<1>1. Init => Images!IInit
  <2> SUFFICES ASSUME Init PROVE Images!IInit
    OBVIOUS
  <2>1. DOMAIN procs = {} /\ cur = 0
    BY DEF Init
  <2>2. QED
    BY <2>1 DEF Images!IInit
<1>2. KernelInv /\ FilesInv /\ PidsInv /\ [Next]_vars => [Images!INext]_(Images!ivars)
  BY NextImages
<1>3. Spec => [](KernelInv /\ FilesInv)
  BY FilesInvariance
<1>4. QED
  BY <1>1, <1>2, <1>3, InitPids, NextPids, PTL DEF Spec, ImagesAreKept, Images!ISpec
=============================================================================
