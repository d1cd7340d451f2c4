-------------------------------- MODULE Mmu --------------------------------
(***************************************************************************)
(* How the CPU reaches memory: the segment table in memory, the cache of   *)
(* its entries (CPU::seg, CPU::invalidate), the checks of CPU::addr and    *)
(* Addr::access, and the instructions in which one lookup follows another. *)
(*                                                                         *)
(* An Addr is a pointer to a line of the cache and an offset: it names     *)
(* whatever segment the line holds when it is used.                        *)
(***************************************************************************)
EXTENDS Integers

CONSTANTS
  Lines,      \* lines of the cache (16)
  NSeg,       \* entries of the table (32)
  MaxSeg,     \* bound: largest segment number a program names
  MaxSize,    \* bound: largest segment
  MaxLen,     \* bound: largest access
  MaxOff,     \* bound: largest distance of an operand from its register's address
  Wrap,       \* 2^64, where an offset wraps
  Offsets,    \* what is added to an address after it was looked up
  Mems,       \* what a segment's memory can be (a base address)
  Entries     \* the entries system calls write

ASSUME MmuAssumption ==
  /\ Lines \in Nat \ {0} /\ NSeg \in Nat \ {0} /\ MaxSeg \in Nat
  /\ MaxSize \in Nat /\ MaxLen \in Nat \ {0} /\ MaxOff \in Nat /\ Mems # {}
Perms == {"READ", "WRITE", "EXEC"}
Flag == Perms \cup {"VALID", "SUPER"}
SegNos == 0 .. MaxSeg
LineNos == 0 .. Lines - 1
Entry == [flags : SUBSET Flag, size : 0 .. MaxSize, mem : Mems]

ASSUME SizesAssumption ==
  /\ Offsets \subseteq -MaxOff .. MaxOff
  /\ Wrap \in Nat /\ Wrap > MaxSize + MaxOff + MaxLen
  /\ Entries \subseteq Entry

Line == [seg : SegNos, flags : SUBSET Flag, size : 0 .. MaxSize, mem : Mems]
Ops == {"none", "access", "jmp", "jsr", "pea", "movm", "fault"}

VARIABLES
  mapped,     \* segmap is set
  len,        \* segmap_len
  table,      \* the segment table segmap leads to
  cache,      \* scache
  su,         \* smr & SU
  did         \* ghost: what the last instruction was asked and what it did

vars == <<mapped, len, table, cache, su, did>>

Idle == [op |-> "none"]

Invalid(ca) == [i \in LineNos |-> [ca[i] EXCEPT !.flags = {}]]

Init ==
  /\ mapped = FALSE /\ len = 0 /\ su = TRUE /\ did = Idle
  /\ \E m \in Mems :
       /\ table = [no \in 0 .. NSeg - 1 |-> [flags |-> {}, size |-> 0, mem |-> m]]
       /\ cache = [i \in LineNos |-> [seg |-> 0, flags |-> {}, size |-> 0, mem |-> m]]

-----------------------------------------------------------------------------
(* Lookups *)

LineOf(no) == no % Lines

\* Mutant of Hits: a line is taken to hold a segment it may not hold.
HitsAny(ca, no) == "VALID" \in ca[LineOf(no)].flags

Hits(ca, no) == "VALID" \in ca[LineOf(no)].flags /\ ca[LineOf(no)].seg = no

InTable(no) == mapped /\ no < len

\* The cache after seg(no): a miss refills the line, a number past the table
\* leaves it without flags and throws.
Fill(ca, no) ==
  IF Hits(ca, no) THEN ca
  ELSE IF InTable(no)
       THEN [ca EXCEPT ![LineOf(no)] =
               [seg |-> no, flags |-> table[no].flags, size |-> table[no].size,
                mem |-> table[no].mem]]
       ELSE [ca EXCEPT ![LineOf(no)] = [@ EXCEPT !.seg = no, !.flags = {}]]

\* addr(no, a) gives an address and does not throw.  a > len lets the address one
\* past the end through.
Resolves(ca, no, a) ==
  LET l == Fill(ca, no)[LineOf(no)] IN
  /\ Hits(ca, no) \/ InTable(no)
  /\ a <= l.size
  /\ "SUPER" \in l.flags => su

\* access(n, perm) through a line, at a 64-bit offset.
Grants(l, at, n, perm) == (at + n) % Wrap <= l.size /\ perm \in l.flags

-----------------------------------------------------------------------------
(* The table changes only in system calls: mmap, munmap and fork, each of  *)
(* which invalidates the cache (a fork, which changes table, is several    *)
(* steps here); exec clears VALID from the stack's entry after such a call *)
(* and before any lookup.                                                  *)

\* Mutant of Remap: the cache is left as it was.
RemapKeepsCache(no, e) ==
  /\ mapped /\ len = NSeg /\ no < NSeg
  /\ table' = [table EXCEPT ![no] = e]
  /\ did' = Idle
  /\ UNCHANGED <<mapped, len, su, cache>>

Remap(no, e) ==
  /\ mapped /\ len = NSeg /\ no < NSeg
  /\ table' = [table EXCEPT ![no] = e]
  /\ cache' = Invalid(cache)
  /\ did' = Idle
  /\ UNCHANGED <<mapped, len, su>>

\* The bootstrap: SSMA, SSML and RTE, none of which invalidates the cache.
Ssma ==
  /\ su /\ ~mapped
  /\ mapped' = TRUE
  /\ did' = Idle
  /\ UNCHANGED <<len, table, cache, su>>

\* Mutant of Ssml: the length counts one entry too many.
SsmlOneMore ==
  /\ su /\ mapped /\ len = 0
  /\ len' = NSeg + 1
  /\ did' = Idle
  /\ UNCHANGED <<mapped, table, cache, su>>

Ssml ==
  /\ su /\ mapped /\ len = 0
  /\ len' = NSeg
  /\ did' = Idle
  /\ UNCHANGED <<mapped, table, cache, su>>

ChangeMode ==
  /\ len = NSeg
  /\ su' = ~su
  /\ did' = Idle
  /\ UNCHANGED <<mapped, len, table, cache>>

\* exec looks up the segment of its file name with seg(), outside any instruction;
\* a bad name ends the call there.
NameLookup(no) ==
  /\ len = NSeg
  /\ cache' = Fill(cache, no)
  /\ did' = Idle
  /\ UNCHANGED <<mapped, len, table, su>>

-----------------------------------------------------------------------------
(* Instructions.  instr = addr(pc) is the first lookup of each; the one    *)
(* for the effective address is the next, and JSR and PEA make a third,    *)
(* for the stack, before they use the second.  code, ea and sp are the     *)
(* segments of pc, of the effective address and of a7.  Segment 0777777,   *)
(* which never misses, and the offsets of pc and a7 play no part here.     *)

Fetched(code) ==
  /\ Resolves(cache, code, 0)
  /\ Grants(Fill(cache, code)[LineOf(code)], 0, 1, "EXEC")

Decoded(code, ea, a) ==
  Fetched(code) /\ Resolves(Fill(cache, code), ea, a)

\* The cache once the effective address is known, and once the stack's is.
AfterEa(code, ea) == Fill(Fill(cache, code), ea)
AfterStack(code, ea, sp) == Fill(AfterEa(code, ea), sp)

Outcome(ca, result) ==
  /\ cache' = ca
  /\ did' = result
  /\ UNCHANGED <<mapped, len, table, su>>

\* An operand n bytes long is read or written.  The lookup checks the address in the
\* register; the predecrement, displacement and index are added to it afterwards and
\* wrap below 0.
Access(code, ea, a, off, n, perm) ==
  LET at == (a + off) % Wrap
      l  == AfterEa(code, ea)[LineOf(ea)]
  IN  /\ Decoded(code, ea, a)
      /\ Grants(l, at, n, perm)
      /\ Outcome(AfterEa(code, ea),
                 [op |-> "access", want |-> ea, got |-> l.seg, mem |-> l.mem,
                  to |-> a + off + n])

\* JMP uses the effective address with no lookup after it.
Jmp(code, ea, a) ==
  /\ Decoded(code, ea, a)
  /\ Outcome(AfterEa(code, ea),
             [op |-> "jmp", want |-> ea, got |-> AfterEa(code, ea)[LineOf(ea)].seg])

\* JSR (pc.seg = eaddr.seg->seg) and PEA (tos[0].uw(eaddr.seg->seg)).
Jsr(op, code, ea, sp, a) ==
  /\ op \in {"jsr", "pea"}
  /\ Decoded(code, ea, a)
  /\ Resolves(AfterEa(code, ea), sp, 0)
  /\ Grants(AfterStack(code, ea, sp)[LineOf(sp)], 0, 1, "WRITE")
  /\ Outcome(AfterStack(code, ea, sp),
             [op |-> op, want |-> ea,
              got |-> AfterStack(code, ea, sp)[LineOf(ea)].seg])

\* MOVM reads its register mask through instr after the effective address has been
\* looked up, with no check.
Movm(code, ea, a) ==
  /\ Decoded(code, ea, a)
  /\ Outcome(AfterEa(code, ea),
             [op |-> "movm", want |-> code,
              got |-> AfterEa(code, ea)[LineOf(code)].seg])

\* The effective address faults: the catch of run() takes pc's segment from instr.
EaFaults(code, ea, a) ==
  /\ Fetched(code)
  /\ ~Resolves(Fill(cache, code), ea, a)
  /\ Outcome(AfterEa(code, ea),
             [op |-> "fault", want |-> code,
              got |-> AfterEa(code, ea)[LineOf(code)].seg])

Instruction ==
  \E code \in SegNos :
    /\ Fetched(code)
    /\ \E ea \in SegNos, a \in 0 .. MaxSize :
         \/ \E off \in Offsets, n \in 1 .. MaxLen, perm \in Perms :
              Access(code, ea, a, off, n, perm)
         \/ Jmp(code, ea, a)
         \/ \E sp \in SegNos, op \in {"jsr", "pea"} : Jsr(op, code, ea, sp, a)
         \/ Movm(code, ea, a)
         \/ EaFaults(code, ea, a)

Next ==
  \/ \E no \in 0 .. NSeg - 1, e \in Entries : Remap(no, e)
  \/ Ssma
  \/ Ssml
  \/ ChangeMode
  \/ \E no \in SegNos : NameLookup(no)
  \/ Instruction

Spec == Init /\ [][Next]_vars

-----------------------------------------------------------------------------
TypeOK ==
  /\ mapped \in BOOLEAN /\ len \in {0, NSeg} /\ su \in BOOLEAN
  /\ table \in [0 .. NSeg - 1 -> Entry]
  /\ cache \in [LineNos -> Line]
  /\ did.op \in Ops

(***************************************************************************)
(* A line that can be hit holds the table's entry for its segment as the   *)
(* table is now, although neither SSMA nor SSML invalidates the cache and  *)
(* system calls rewrite the table in memory.                               *)
(***************************************************************************)
Coherent(i) ==
  "VALID" \in cache[i].flags =>
    /\ LineOf(cache[i].seg) = i
    /\ mapped /\ cache[i].seg < len
    /\ cache[i].flags = table[cache[i].seg].flags
    /\ cache[i].size = table[cache[i].seg].size
    /\ cache[i].mem = table[cache[i].seg].mem

CacheIsCoherent == \A i \in LineNos : Coherent(i)

(***************************************************************************)
(* An operand or a jump through the address looked up last is in the       *)
(* segment the program named and in the memory the table gives it, and the *)
(* operand ends within that segment although nothing but its sum with the  *)
(* length is checked after offsets were added.  Where it begins the code   *)
(* does not check: the sum of cpu.hh:230 wraps, so that an operand that    *)
(* begins below 0 is granted if it reaches 0, as -(ar) from 0 does.        *)
(***************************************************************************)
AccessEndsInSegment ==
  did.op \in {"access", "jmp"} =>
    /\ did.got = did.want
    /\ did.op = "access" =>
         did.mem = table[did.want].mem /\ did.to \in 0 .. table[did.want].size

(***************************************************************************)
(* cpu.hh:300-305 documents "JSR ea", "PEA ea" and "MOVM regs...,ea": the  *)
(* segment jumped to or pushed is the effective address's, and the mask of *)
(* registers is in the code.  The lookup for the stack may have refilled   *)
(* the line the effective address points to, and the lookup for MOVM's     *)
(* operand the line instr points to.                                       *)
(***************************************************************************)
NamedSegmentIsUsed == did.op \in {"jsr", "pea", "movm"} => did.got = did.want
=============================================================================
