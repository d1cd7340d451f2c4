----------------------------- MODULE MmuProofs -----------------------------
(***************************************************************************)
(* Proofs about Mmu for every number of cache lines, table entries, sizes  *)
(* and system-call entries.                                                *)
(*                                                                         *)
(* CacheIsCoherent is inductive together with TypeOK.  A lookup is the     *)
(* function Fill, so the heart of the argument is one lemma: a coherent    *)
(* cache stays coherent, and of its type, when any segment is looked up    *)
(* (FillCoherent).  Every instruction's cache is a composition of at most  *)
(* three fills.                                                            *)
(***************************************************************************)
EXTENDS Mmu, TLAPS

\* CacheIsCoherent of a cache that is not (yet) the variable's value.
CoherentCache(ca) ==
  \A i \in LineNos :
    "VALID" \in ca[i].flags =>
      /\ LineOf(ca[i].seg) = i
      /\ mapped /\ ca[i].seg < len
      /\ ca[i].flags = table[ca[i].seg].flags
      /\ ca[i].size = table[ca[i].seg].size
      /\ ca[i].mem = table[ca[i].seg].mem

GoodCache(ca) == ca \in [LineNos -> Line] /\ CoherentCache(ca)

IInv == TypeOK /\ CacheIsCoherent

\* A segment number has a line.
LEMMA LineOfType ==
  ASSUME NEW no \in SegNos
  PROVE  LineOf(no) \in LineNos
BY MmuAssumption DEF LineOf, LineNos, SegNos

\* Looking a segment up keeps a cache coherent with the table.
LEMMA FillCoherent ==
  ASSUME TypeOK, NEW ca, GoodCache(ca), NEW no \in SegNos
  PROVE  GoodCache(Fill(ca, no))
<1> DEFINE ln == LineOf(no)
<1>1. ln \in LineNos
  BY LineOfType
<1>2. CASE Hits(ca, no)
  BY <1>2 DEF Fill
<1>3. CASE ~Hits(ca, no) /\ InTable(no)
  <2> DEFINE fresh == [seg |-> no, flags |-> table[no].flags,
                       size |-> table[no].size, mem |-> table[no].mem]
  <2>1. Fill(ca, no) = [ca EXCEPT ![ln] = fresh]
    BY <1>3 DEF Fill
  <2>2. no \in 0 .. NSeg - 1
    BY <1>3, MmuAssumption DEF InTable, TypeOK, SegNos
  <2>3. table[no] \in Entry
    BY <2>2 DEF TypeOK
  <2>4. fresh \in Line
    BY <2>3 DEF Entry, Line
  <2>5. [ca EXCEPT ![ln] = fresh] \in [LineNos -> Line]
    BY <2>4, <1>1 DEF GoodCache
  <2>6. CoherentCache([ca EXCEPT ![ln] = fresh])
    BY <1>1, <1>3 DEF CoherentCache, GoodCache, InTable
  <2> QED
    BY <2>1, <2>5, <2>6 DEF GoodCache
<1>4. CASE ~Hits(ca, no) /\ ~InTable(no)
  <2> DEFINE empty == [ca[ln] EXCEPT !.seg = no, !.flags = {}]
  <2>1. Fill(ca, no) = [ca EXCEPT ![ln] = empty]
    BY <1>4 DEF Fill
  <2>2. ca[ln] \in Line
    BY <1>1 DEF GoodCache
  <2>3. empty \in Line /\ empty.flags = {}
    BY <2>2 DEF Line
  <2>4. [ca EXCEPT ![ln] = empty] \in [LineNos -> Line]
    BY <2>3, <1>1 DEF GoodCache
  <2>5. CoherentCache([ca EXCEPT ![ln] = empty])
    BY <1>1, <2>3 DEF CoherentCache, GoodCache
  <2> QED
    BY <2>1, <2>4, <2>5 DEF GoodCache
<1> QED
  BY <1>2, <1>3, <1>4

\* A cache that has just been invalidated is coherent with any table.
LEMMA InvalidCoherent ==
  ASSUME NEW ca \in [LineNos -> Line]
  PROVE  /\ Invalid(ca) \in [LineNos -> Line]
         /\ \A i \in LineNos : "VALID" \notin Invalid(ca)[i].flags
<1>1. \A i \in LineNos : [ca[i] EXCEPT !.flags = {}] \in Line
  BY DEF Line
<1> QED
  BY <1>1 DEF Invalid, Line

\* An instruction leaves a good cache and changes nothing the cache depends on.
LEMMA OutcomeKeeps ==
  ASSUME IInv, NEW ca, GoodCache(ca), NEW result, result.op \in Ops,
         Outcome(ca, result)
  PROVE  IInv'
BY DEF IInv, TypeOK, CacheIsCoherent, Coherent, GoodCache, CoherentCache, Outcome

LEMMA InitIInv == Init => IInv
<1> SUFFICES ASSUME Init PROVE IInv
  OBVIOUS
<1>1. PICK m \in Mems :
        /\ table = [no \in 0 .. NSeg - 1 |-> [flags |-> {}, size |-> 0, mem |-> m]]
        /\ cache = [i \in LineNos |-> [seg |-> 0, flags |-> {}, size |-> 0, mem |-> m]]
  BY DEF Init
<1>2. [flags |-> {}, size |-> 0, mem |-> m] \in Entry
  BY MmuAssumption DEF Entry
<1>3. [seg |-> 0, flags |-> {}, size |-> 0, mem |-> m] \in Line
  BY MmuAssumption DEF Line, SegNos
<1>4. TypeOK
  BY <1>1, <1>2, <1>3 DEF Init, TypeOK, Idle, Ops
<1>5. CacheIsCoherent
  BY <1>1 DEF CacheIsCoherent, Coherent
<1> QED
  BY <1>4, <1>5 DEF IInv

\* Every step keeps the types and the coherence of the cache.
LEMMA NextIInv == IInv /\ [Next]_vars => IInv'
<1> SUFFICES ASSUME IInv, [Next]_vars PROVE IInv'
  OBVIOUS
<1>1. GoodCache(cache)
  BY DEF IInv, TypeOK, CacheIsCoherent, Coherent, GoodCache, CoherentCache
<1>2. \A code, ea \in SegNos : GoodCache(AfterEa(code, ea))
  BY <1>1, FillCoherent DEF IInv, AfterEa
<1>3. \A code, ea, sp \in SegNos : GoodCache(AfterStack(code, ea, sp))
  BY <1>2, FillCoherent DEF IInv, AfterStack
<1>4. ASSUME NEW no \in 0 .. NSeg - 1, NEW e \in Entries, Remap(no, e)
      PROVE  IInv'
  <2>1. e \in Entry
    BY SizesAssumption
  <2>2. table' \in [0 .. NSeg - 1 -> Entry]
    BY <1>4, <2>1 DEF Remap, IInv, TypeOK
  <2>3. cache \in [LineNos -> Line]
    BY DEF IInv, TypeOK
  <2>4. cache' \in [LineNos -> Line] /\ \A i \in LineNos : "VALID" \notin cache'[i].flags
    BY <1>4, <2>3, InvalidCoherent DEF Remap
  <2>5. TypeOK'
    BY <1>4, <2>2, <2>4 DEF Remap, IInv, TypeOK, Idle, Ops
  <2>6. CacheIsCoherent'
    BY <2>4 DEF CacheIsCoherent, Coherent
  <2> QED
    BY <2>5, <2>6 DEF IInv
<1>5. CASE Ssma
  BY <1>5 DEF Ssma, IInv, TypeOK, CacheIsCoherent, Coherent, Idle, Ops
<1>6. CASE Ssml
  <2>1. TypeOK'
    BY <1>6 DEF Ssml, IInv, TypeOK, Idle, Ops
  <2>2. \A i \in LineNos : "VALID" \notin cache[i].flags
    BY <1>6, <1>1 DEF Ssml, GoodCache, CoherentCache, Line, SegNos
  <2> QED
    BY <1>6, <2>1, <2>2 DEF Ssml, IInv, CacheIsCoherent, Coherent
<1>7. CASE ChangeMode
  BY <1>7 DEF ChangeMode, IInv, TypeOK, CacheIsCoherent, Coherent, Idle, Ops
<1>8. ASSUME NEW no \in SegNos, NameLookup(no) PROVE IInv'
  <2>1. GoodCache(Fill(cache, no))
    BY <1>1, FillCoherent DEF IInv
  <2> QED
    BY <1>8, <2>1 DEF NameLookup, IInv, TypeOK, CacheIsCoherent, Coherent, GoodCache,
                      CoherentCache, Idle, Ops
<1>9. ASSUME NEW code \in SegNos, NEW ea \in SegNos, NEW a \in 0 .. MaxSize,
             NEW off \in Offsets, NEW n \in 1 .. MaxLen, NEW perm \in Perms,
             Access(code, ea, a, off, n, perm)
      PROVE  IInv'
  BY <1>9, <1>2, OutcomeKeeps DEF Access, Ops
<1>10. ASSUME NEW code \in SegNos, NEW ea \in SegNos, NEW a \in 0 .. MaxSize,
             Jmp(code, ea, a) \/ Movm(code, ea, a) \/ EaFaults(code, ea, a)
      PROVE  IInv'
  BY <1>10, <1>2, OutcomeKeeps DEF Jmp, Movm, EaFaults, Ops
<1>11. ASSUME NEW code \in SegNos, NEW ea \in SegNos, NEW a \in 0 .. MaxSize,
              NEW sp \in SegNos, NEW op \in {"jsr", "pea"}, Jsr(op, code, ea, sp, a)
       PROVE  IInv'
  BY <1>11, <1>3, OutcomeKeeps DEF Jsr, Ops
<1>12. CASE Instruction
  BY <1>12, <1>9, <1>10, <1>11 DEF Instruction
<1>13. CASE UNCHANGED vars
  BY <1>13 DEF vars, IInv, TypeOK, CacheIsCoherent, Coherent
<1> QED
  BY <1>4, <1>5, <1>6, <1>7, <1>8, <1>12, <1>13 DEF Next

\* IInv is an invariant.
LEMMA Inductive == Spec => []IInv
  BY InitIInv, NextIInv, PTL DEF Spec

\* The table, its length and the lines of the cache keep their types.
THEOREM MmuTypeCorrect == Spec => []TypeOK
<1>1. IInv => TypeOK
  BY DEF IInv
<1> QED
  BY <1>1, Inductive, PTL

\* A line of the cache that can be hit always agrees with the segment table, for
\* any number of lines and of entries.
THEOREM CacheStaysCoherent == Spec => []CacheIsCoherent
<1>1. IInv => CacheIsCoherent
  BY DEF IInv
<1> QED
  BY <1>1, Inductive, PTL

-----------------------------------------------------------------------------
(* Where operands end *)

\* The line that an address which resolves points to, right after its lookup, is
\* the table's entry for the segment that was asked for.
LEMMA ResolvedLine ==
  ASSUME TypeOK, NEW ca, GoodCache(ca), NEW no \in SegNos, NEW a, Resolves(ca, no, a)
  PROVE  /\ Fill(ca, no)[LineOf(no)].seg = no
         /\ no \in 0 .. NSeg - 1
         /\ Fill(ca, no)[LineOf(no)].size = table[no].size
         /\ Fill(ca, no)[LineOf(no)].mem = table[no].mem
         /\ a <= table[no].size
<1>1. LineOf(no) \in LineNos
  BY LineOfType
<1>2. CASE Hits(ca, no)
  <2>1. Fill(ca, no) = ca
    BY <1>2 DEF Fill
  <2>2. no < len /\ ca[LineOf(no)].size = table[no].size /\ ca[LineOf(no)].mem = table[no].mem
    BY <1>1, <1>2 DEF Hits, GoodCache, CoherentCache
  <2> QED
    BY <1>2, <2>1, <2>2, MmuAssumption DEF Hits, TypeOK, SegNos, Resolves
<1>3. CASE ~Hits(ca, no)
  <2>1. InTable(no)
    BY <1>3 DEF Resolves
  <2>2. Fill(ca, no)[LineOf(no)] =
          [seg |-> no, flags |-> table[no].flags, size |-> table[no].size,
           mem |-> table[no].mem]
    BY <1>1, <1>3, <2>1 DEF Fill, GoodCache
  <2> QED
    BY <2>1, <2>2, MmuAssumption DEF InTable, TypeOK, SegNos, Resolves
<1> QED
  BY <1>2, <1>3

\* An operand that access() grants ends within the segment, wherever its address and
\* the sum wrap.
LEMMA GrantedEnds ==
  ASSUME NEW size \in 0 .. MaxSize, NEW a \in 0 .. MaxSize, a <= size,
         NEW n \in 1 .. MaxLen, NEW off \in Offsets, (((a + off) % Wrap) + n) % Wrap <= size
  PROVE  a + off + n \in 0 .. size
<1> DEFINE from == a + off
<1>1. /\ off \in Int /\ from \in Int /\ -MaxOff <= from /\ from <= MaxSize + MaxOff
      /\ n \in Nat /\ n <= MaxLen /\ size \in Nat /\ size <= MaxSize
      /\ MaxSize \in Nat /\ MaxOff \in Nat /\ MaxLen \in Nat
      /\ Wrap \in Nat /\ Wrap > MaxSize + MaxOff + MaxLen
  BY MmuAssumption, SizesAssumption
<1>2. ((from % Wrap) + n) % Wrap <= size
  OBVIOUS
<1> HIDE DEF from
<1>3. CASE from >= 0
  <2>1. from % Wrap = from
    BY <1>1, <1>3
  <2>2. (from + n) % Wrap = from + n
    BY <1>1, <1>3
  <2>3. from + n \in 0 .. size
    BY <1>1, <1>2, <1>3, <2>1, <2>2
  <2> QED
    BY <2>3 DEF from
<1>4. CASE from < 0
  <2>1. from % Wrap = from + Wrap
    BY <1>1, <1>4
  <2>2. CASE from + n < 0
    <3>1. (from + Wrap + n) % Wrap = from + Wrap + n
      BY <1>1, <2>2
    <3> QED
      BY <1>1, <1>2, <2>1, <3>1
  <2>3. CASE from + n >= 0
    <3>1. from + n \in Nat /\ from + n < Wrap
      BY <1>1, <1>4, <2>3
    <3>2. (from + Wrap + n) % Wrap = from + n
      BY <1>1, <3>1
    <3>3. from + n \in 0 .. size
      BY <1>1, <1>2, <2>1, <3>1, <3>2
    <3> QED
      BY <3>3 DEF from
  <2> QED
    BY <1>1, <2>2, <2>3
<1> QED
  BY <1>1, <1>3, <1>4

\* Every step leaves did either without an operand or with one that ends in its segment.
LEMMA NextEndsInSegment ==
  IInv /\ AccessEndsInSegment /\ [Next]_vars => AccessEndsInSegment'
<1> SUFFICES ASSUME IInv, AccessEndsInSegment, [Next]_vars PROVE AccessEndsInSegment'
  OBVIOUS
<1>1. TypeOK /\ GoodCache(cache)
  BY DEF IInv, TypeOK, CacheIsCoherent, Coherent, GoodCache, CoherentCache
<1>2. \A code \in SegNos : GoodCache(Fill(cache, code))
  BY <1>1, FillCoherent
<1>3. ASSUME NEW code \in SegNos, NEW ea \in SegNos, NEW a \in 0 .. MaxSize,
             NEW off \in Offsets, NEW n \in 1 .. MaxLen, NEW perm \in Perms,
             Access(code, ea, a, off, n, perm)
      PROVE  AccessEndsInSegment'
  <2> DEFINE l == Fill(Fill(cache, code), ea)[LineOf(ea)]
  <2>1. Resolves(Fill(cache, code), ea, a)
    BY <1>3 DEF Access, Decoded
  <2>2. /\ l.seg = ea /\ ea \in 0 .. NSeg - 1 /\ l.size = table[ea].size
        /\ l.mem = table[ea].mem /\ a <= table[ea].size
    BY <1>1, <1>2, <2>1, ResolvedLine
  <2>3. table[ea].size \in 0 .. MaxSize
    BY <1>1, <2>2 DEF TypeOK, Entry
  <2>4. (((a + off) % Wrap) + n) % Wrap <= table[ea].size
    BY <1>3, <2>2 DEF Access, Grants, AfterEa
  <2>5. a + off + n \in 0 .. table[ea].size
    BY <2>2, <2>3, <2>4, GrantedEnds
  <2>6. /\ did' = [op |-> "access", want |-> ea, got |-> l.seg, mem |-> l.mem,
                   to |-> a + off + n]
        /\ table' = table
    BY <1>3 DEF Access, Outcome, AfterEa
  <2> QED
    BY <2>2, <2>5, <2>6 DEF AccessEndsInSegment
<1>4. ASSUME NEW code \in SegNos, NEW ea \in SegNos, NEW a \in 0 .. MaxSize,
             Jmp(code, ea, a)
      PROVE  AccessEndsInSegment'
  <2>1. Resolves(Fill(cache, code), ea, a)
    BY <1>4 DEF Jmp, Decoded
  <2>2. Fill(Fill(cache, code), ea)[LineOf(ea)].seg = ea
    BY <1>1, <1>2, <2>1, ResolvedLine
  <2> QED
    BY <1>4, <2>2 DEF Jmp, Outcome, AfterEa, AccessEndsInSegment
<1>5. ASSUME NEW code \in SegNos, NEW ea \in SegNos, NEW a \in 0 .. MaxSize,
             \/ Movm(code, ea, a)
             \/ EaFaults(code, ea, a)
             \/ \E sp \in SegNos, op \in {"jsr", "pea"} : Jsr(op, code, ea, sp, a)
      PROVE  AccessEndsInSegment'
  BY <1>5 DEF Movm, EaFaults, Jsr, Outcome, AccessEndsInSegment
<1>6. CASE Instruction
  BY <1>3, <1>4, <1>5, <1>6 DEF Instruction
<1>7. ASSUME NEW no, NEW e, Remap(no, e) \/ NameLookup(no) \/ Ssma \/ Ssml \/ ChangeMode
      PROVE  AccessEndsInSegment'
  BY <1>7 DEF Remap, NameLookup, Ssma, Ssml, ChangeMode, Idle, AccessEndsInSegment
<1>8. CASE UNCHANGED vars
  BY <1>8 DEF vars, AccessEndsInSegment
<1> QED
  BY <1>6, <1>7, <1>8 DEF Next

\* An operand or a jump is in the segment the program named and in the memory the table
\* gives that segment, and an operand ends within it, wherever offsets have put its
\* beginning: for any number of lines, and although a lookup may evict the line of the
\* one before it.  It may begin below the segment, as cpu.hh:230 does not notice.
THEOREM OperandsEndInSegment == Spec => []AccessEndsInSegment
<1>1. Init => AccessEndsInSegment
  BY DEF Init, Idle, AccessEndsInSegment
<1> QED
  BY <1>1, Inductive, NextEndsInSegment, PTL DEF Spec
=============================================================================
