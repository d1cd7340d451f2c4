------------------------------ MODULE PageHeap ------------------------------
(***************************************************************************)
(* Machine::kmalloc and Machine::kfree (os.cc:237-299) under the callers   *)
(* the source has: the raw kmalloc system call (os.cc:427), whose block is *)
(* never freed because system call 1 does nothing, and salloc/sfree, which *)
(* allocate a segment and free it by its base address.                     *)
(***************************************************************************)
EXTENDS Heap

CONSTANTS
  MaxBytes,   \* bound: largest request made
  Garbage     \* values the uninitialised divisor in kfree may hold

ASSUME PageHeapAssumption == MaxBytes \in Nat /\ Garbage \subseteq Nat

VARIABLES
  heap,       \* the vector "heap"
  live,       \* ghost: blocks handed out and not passed to kfree since
  meant,      \* ghost: no kfree so far has divided by a harmful value
  status      \* "running", or "undefined" once the program has misbehaved

vars == <<heap, live, meant, status>>

Block == [page : Nat, pages : Nat, segment : BOOLEAN]

TypeOK ==
  /\ heap \in Heaps
  /\ live \subseteq Block
  /\ meant \in BOOLEAN
  /\ status \in {"running", "undefined"}

Init ==
  /\ heap = EmptyHeap
  /\ live = {}
  /\ meant = TRUE
  /\ status = "running"

(***************************************************************************)
(* kmalloc(bytes), wants > 0: either there is no room and 0 is returned    *)
(* with nothing changed, or a block is handed out.                         *)
(***************************************************************************)
Kmalloc(bytes, segment) ==
  LET wants == PagesFor(bytes) IN
  /\ status = "running"
  /\ wants > 0
  /\ \E pf \in 1 .. Total :
       /\ IsPlace(heap, wants, pf)
       /\ ~NoRoom(heap, wants, pf)
       /\ heap' = WithBlock(heap, wants, pf)
       /\ live' = live \cup {[page |-> pf, pages |-> wants, segment |-> segment]}
  /\ UNCHANGED <<meant, status>>

(***************************************************************************)
(* kmalloc(0), which only the raw system call can ask for: no page is      *)
(* wanted, nothing is resized, and heap[max] = 0 is written one past the   *)
(* end.  With spare capacity in the vector the write is harmless; without  *)
(* it the program is undefined.                                            *)
(***************************************************************************)
KmallocNothing ==
  /\ status = "running"
  /\ status' \in {"running", "undefined"}
  /\ UNCHANGED <<heap, live, meant>>

\* The page size the author meant, a value that stops the program, or one so large
\* that nothing is freed.
Benign(g) == g = Page \/ g = 0 \/ g > Page * Total

\* sfree(sid) on a live segment: kfree(s.base).
Kfree(b, g) ==
  LET addr == b.page * Page IN
  /\ status = "running"
  /\ b \in live /\ b.segment
  /\ live' = live \ {b}
  /\ meant' = (meant /\ Benign(g))
  /\ IF KfreeAborts(heap, addr, g)
     THEN status' = "undefined" /\ UNCHANGED heap
     ELSE heap' = AfterKfree(heap, addr, g) /\ UNCHANGED status

Next ==
  \/ \E bytes \in 1 .. MaxBytes, segment \in BOOLEAN : Kmalloc(bytes, segment)
  \/ KmallocNothing
  \/ \E b \in live, g \in Garbage : Kfree(b, g)

Spec == Init /\ [][Next]_vars

-----------------------------------------------------------------------------
(***************************************************************************)
(* Whatever value kfree divides by, the vector stays a sequence of whole   *)
(* blocks and free pages, so that the scan of kmalloc terminates.          *)
(***************************************************************************)
HeapTiled == Tiled(heap)

(***************************************************************************)
(* A block kmalloc hands out lies inside memory, clear of page 0, and all  *)
(* its pages were free: no block is carved out of another.                 *)
(***************************************************************************)
NewBlocksFree ==
  \A b \in live' \ live :
    /\ b.page >= 1 /\ b.page + b.pages <= Total
    /\ FreeRun(heap, b.page, b.pages)

NewBlockWasFree == [][NewBlocksFree]_vars

(***************************************************************************)
(* As long as kfree has only divided by the page size the author meant, or *)
(* by values that free nothing, every block handed out keeps all its pages *)
(* until it is passed to kfree, and no two of them share a page.           *)
(***************************************************************************)
Apart(b, c) == b.page + b.pages <= c.page \/ c.page + c.pages <= b.page

LiveBlocksKept ==
  meant =>
    \A b \in live :
      /\ heap.cell[b.page] = b.pages
      /\ \A p \in b.page + 1 .. b.page + b.pages - 1 : heap.cell[p] = -b.page
      /\ \A c \in live : b = c \/ Apart(b, c)

(***************************************************************************)
(* os.cc:241-243 says of a cell that 0 means the page is free: no page of  *)
(* a block that is out may then read 0.  kfree's divisor breaks it.        *)
(***************************************************************************)
LiveBlocksNotFree ==
  \A b \in live : \A p \in b.page .. b.page + b.pages - 1 : heap.cell[p] # 0
=============================================================================
