------------------------------- MODULE Frames -------------------------------
(***************************************************************************)
(* The stack of a program: calls, frames and saved registers, that is BSR, *)
(* JSR, PEA, RTS, LINK, UNLK, MOVM, LDA, STA, LDS, STS and MOV of a long   *)
(* through (a7)+ and -(a7).  The stack grows upwards.  The program is any  *)
(* that takes things off the stack in the reverse of the order in which it *)
(* put them there.  It is followed to its first fault, and as long as a7   *)
(* points into the segment of the stack and pc into code.  Each segment    *)
(* has a line of the cache to itself; Mmu has what happens otherwise.      *)
(*                                                                         *)
(* Registers are numbered as in the list of MOVM: 0-7 data, 8-14 a0-a6, 15 *)
(* CCR, 16 IR, 17 SMR; 18 is the segment of a0, for LDS and STS.  A byte   *)
(* of memory is a value that was stored and which byte of it this is.      *)
(***************************************************************************)
EXTENDS Integers, SequencesExt

CONSTANTS
  Stack,      \* the segment of the stack, of Room bytes
  Room,
  Code,       \* code addresses
  Pointers,   \* what other instructions leave in an address register
  Data,       \* and in a data register
  Lower,      \* of each of these the lower 36 bits, which is what a long in memory has
  Long,       \* numbers of a long in memory (2^36)
  Flags,      \* what ccr can be
  Lists,      \* the registers that are saved together
  Locals,     \* what LINK reserves
  Wrap        \* numbers of a uword_t (2^32); the address in a register has Wrap * Wrap

ASSUME FramesAssumption ==
  /\ Room \in Nat /\ Wrap \in Nat /\ Room + 6 < Wrap
  /\ Long \in Nat /\ Room + 6 < Long /\ Long <= Wrap * Wrap
  /\ Lower \in [Data -> Data] /\ \A v \in Data : Lower[Lower[v]] = Lower[v]
  /\ \A p \in Code : p.addr < Long
  /\ \A p \in Code \cup Pointers : p = [seg |-> p.seg, addr |-> p.addr] /\ p.addr \in 0 .. Wrap * Wrap - 1
  /\ \A n \in Locals : n \in Nat /\ Room + n < Wrap * Wrap
  /\ \A list \in Lists : list \subseteq {0, 8, 15, 16, 17} \/ list = {18}

VARIABLES
  st,         \* d, a, w (data, address and control registers), pc, mem, fault
  frames,     \* ghost: what the program has put on the stack
  lost        \* ghost: something put there is not found again

vars == <<st, frames, lost>>

Junk == [seg |-> "?", addr |-> Wrap]

Cut(n) == n % (Wrap * Wrap)
Top(s) == s.a[7].addr
Move(s, n) == [s EXCEPT !.a[7].addr = Cut(@ + n)]
Fault(s) == [s EXCEPT !.fault = TRUE]

\* addr() of a7, and access() to n bytes.
Resolves(s) == Top(s) <= Room

\* Mutant of Grants: the length is not counted.
GrantsStart(at, n) == at <= Room

Grants(at, n) == Cut(at + n) <= Room

Put(m, at, v, n) ==
  [x \in DOMAIN m \cup at .. at + n - 1 |-> IF x \in at .. at + n - 1 THEN <<v, x - at>> ELSE m[x]]
Get(m, at, n) ==
  IF at \in DOMAIN m /\ \A k \in 0 .. n - 1 : at + k \in DOMAIN m /\ m[at + k] = <<m[at][1], k>>
  THEN m[at][1] ELSE Junk

\* What memory has of register i, from which it is read back: 36 bits.
InMemory(i, v) ==
  IF i < 8 THEN IF v \in Data THEN Lower[v] ELSE v
  ELSE IF i < 15 THEN [v EXCEPT !.addr = @ % Long] ELSE v

Init ==
  /\ st \in [d : [{0} -> Data], w : [{15} -> Flags], pc : Code, fault : {FALSE},
             a : {[r \in {0, 7} |-> IF r = 0 THEN p ELSE [seg |-> Stack, addr |-> 0]] : p \in Pointers},
             mem : {[x \in 0 .. Room - 1 |-> <<Junk, 0>>]}]
  /\ frames = <<>> /\ lost = FALSE

\* What an instruction starts from: pc is past it, as it is left, fault or not, unless
\* the instruction jumps.
Executing ==
  {[st EXCEPT !.pc = c] : c \in {c \in Code : /\ c.seg = st.pc.seg
                                             /\ ~st.fault /\ st.a[7].seg = Stack}}

-----------------------------------------------------------------------------
(* Calls *)

\* An address is put on top of the stack.
Called(s, v) == Move([s EXCEPT !.mem = Put(@, Top(s), InMemory(8, v), 6)], 6)

CanCall(s) == Resolves(s) /\ Grants(Top(s), 6)

Frame(kind, what, saved, n) ==
  [kind |-> kind, what |-> what, saved |-> saved, at |-> Top(st), size |-> n]

\* Less than a long on the stack moves a7 by 2^32 too much, and a frame linked to a7
\* itself is looked for behind its locals.
Lost(f) == \/ f.kind = "save" /\ f.size < 4
           \/ f.kind = "link" /\ f.what = {7} /\ f.size > 6

Enter(new, frame) ==
  /\ st' = new
  /\ frames' = IF new.fault THEN frames ELSE Append(frames, frame)
  /\ lost' = (lost \/ (~new.fault /\ Lost(frame)))

\* BSR moves a7 before it asks whether it may write.
Bsr ==
  \E s \in Executing, to \in {c \in Code : c.seg = st.pc.seg} :
    Enter(IF CanCall(s) THEN [Called(s, s.pc) EXCEPT !.pc = to]
          ELSE Fault(IF Resolves(s) THEN Move(s, 6) ELSE s),
          Frame("call", {}, s.pc, 6))

Jsr ==
  \E s \in Executing, to \in Code :
    Enter(IF CanCall(s) THEN [Called(s, s.pc) EXCEPT !.pc = to] ELSE Fault(s),
          Frame("call", {}, s.pc, 6))

Pea ==
  \E s \in Executing, p \in Pointers :
    Enter(IF CanCall(s) THEN Called(s, p) ELSE Fault(s),
          Frame("save", {8}, [i \in {8} |-> InMemory(8, p)], 6))

\* LINK #n,ar
Linked(s, r, n) ==
  LET t == Called(s, s.a[r]) IN Move([t EXCEPT !.a[r] = t.a[7]], n)

Link(r, n) ==
  \E s \in Executing :
    Enter(IF CanCall(s) THEN Linked(s, r, n) ELSE Fault(s),
          Frame("link", {r}, InMemory(8, st.a[r]), 6 + n))

\* What was put on the stack last is of this kind.
IsLast(kind, what) ==
  frames # <<>> /\ Last(frames).kind = kind /\ Last(frames).what = what

Leave(new) ==
  /\ st' = new
  /\ frames' = IF new.fault THEN frames ELSE Front(frames)
  /\ UNCHANGED lost

Returned(s) == IF CanCall(s) THEN [s EXCEPT !.pc = Get(s.mem, Top(s), 6)] ELSE Fault(s)

Rts == IsLast("call", {}) /\ \E s \in Executing : Leave(Returned(Move(s, -6)))

Unlinked(s, r) ==
  IF CanCall(s) THEN [s EXCEPT !.a[r] = Get(s.mem, Top(s), 6)] ELSE Fault(s)

\* UNLK ar, the register being what LINK made of it.
Unlk(r) ==
  /\ IsLast("link", {r})
  /\ r # 7 => st.a[r] = [seg |-> Stack, addr |-> Last(frames).at + 6]
  /\ \E s \in Executing : Leave(Unlinked(Move([s EXCEPT !.a[7] = s.a[r]], -6), r))

-----------------------------------------------------------------------------
(* Registers *)

Size(i) == IF i > 14 THEN 2 ELSE IF i > 7 THEN 6 ELSE 4
Bytes(list) ==
  4 * Cardinality({i \in list : Size(i) = 4}) + 6 * Cardinality({i \in list : Size(i) = 6})
    + 2 * Cardinality({i \in list : Size(i) = 2})
Offset(list, i) == Bytes({j \in list : j < i})

Register(s, i) ==
  CASE i < 8 -> s.d[i] [] i \in 8 .. 14 -> s.a[i - 8] [] i = 18 -> s.a[0].seg [] OTHER -> s.w[i]

\* The registers in the domain of vals take the values it has for them.
SetRegisters(s, vals) ==
  [s EXCEPT
    !.d = [r \in DOMAIN @ |-> IF r \in DOMAIN vals THEN vals[r] ELSE @[r]],
    !.w = [r \in DOMAIN @ |-> IF r \in DOMAIN vals THEN vals[r] ELSE @[r]],
    !.a = [r \in DOMAIN @ |->
             IF r + 8 \in DOMAIN vals /\ r # 7 THEN vals[r + 8]
             ELSE IF r = 0 /\ 18 \in DOMAIN vals THEN [@[r] EXCEPT !.seg = vals[18]]
             ELSE @[r]]]

\* Mutant of Step: what was added for a long is not taken back.
StepTwice(n) == 4 + n

(***************************************************************************)
(* How far a7 moves for n bytes: by four, as for any long, before the      *)
(* instruction, then by the rest (ea_readjust), which is a uword_t.        *)
(***************************************************************************)
Step(n) == 4 + ((n - 4) % Wrap)

\* The control registers are for the system, and all bytes are asked for at once.
Checked(at, list) == list \cap {16, 17} = {} /\ Grants(at, Bytes(list))

\* The registers of the list whose bytes on the stack at this address include x.
Covers(list, at, x) ==
  {i \in list : x \in at + Offset(list, i) .. at + Offset(list, i) + Size(i) - 1}

\* One register behind the other, the lowest first.
Lay(s, at, list) ==
  [s EXCEPT !.mem =
     [x \in DOMAIN @ \cup at .. at + Bytes(list) - 1 |->
        IF Covers(list, at, x) = {} THEN @[x]
        ELSE LET i == CHOOSE i \in Covers(list, at, x) : TRUE
             IN <<InMemory(i, Register(s, i)), x - (at + Offset(list, i))>>]]

\* Mutant of Stored: registers are stored as long as there is room for the next.
StoredOneByOne(s, at, list) ==
  LET fits == {i \in list : i \notin {16, 17} /\ Grants(at + Offset(list, i), Size(i))}
      t == Lay(s, at, fits)
  IN IF fits = list THEN t ELSE Fault(t)

Stored(s, at, list) == IF Checked(at, list) THEN Lay(s, at, list) ELSE Fault(s)

\* What the list is to find again when it is loaded.
Saving(list) ==
  Frame("save", list, [i \in list \ {16, 17} |-> InMemory(i, Register(st, i))], Bytes(list))

\* MOVM list,(a7)+ and STA, STS of one register.
Store(list) ==
  \E s \in Executing :
    Enter(IF Resolves(s) THEN Stored(Move(s, Step(Bytes(list))), Top(s), list) ELSE Fault(s),
          Saving(list))

\* MOV d0,(a7)+: the flags are set before it asks whether it may write.
MovStore ==
  \E s \in Executing, flags \in Flags :
    Enter(IF Resolves(s) THEN Stored(Move([s EXCEPT !.w[15] = flags], 4), Top(s), {0}) ELSE Fault(s),
          Saving({0}))

\* Mutant of Fetched: the order of the registers is that of the stack.
FetchedBackwards(s, list) ==
  SetRegisters(s, [i \in list |-> Get(s.mem, Top(s) + Bytes({j \in list : j > i}), Size(i))])

Fetched(s, list) ==
  SetRegisters(s, [i \in list |-> Get(s.mem, Top(s) + Offset(list, i), Size(i))])

\* s is after a7 has moved.
Loaded(s, list) == IF Checked(Top(s), list) THEN Fetched(s, list) ELSE Fault(s)

\* MOVM -(a7),list and LDA, LDS of one register.
Load(list) ==
  /\ IsLast("save", list)
  /\ \E s \in Executing :
       Leave(IF Resolves(s) THEN Loaded(Move(s, -Step(Bytes(list))), list) ELSE Fault(s))

\* MOV -(a7),d0, which sets the flags last.
MovLoad ==
  /\ IsLast("save", {0})
  /\ \E s \in Executing, flags \in Flags :
       LET t == Loaded(Move(s, -4), {0})
       IN Leave(IF ~Resolves(s) THEN Fault(s) ELSE IF t.fault THEN t ELSE [t EXCEPT !.w[15] = flags])

-----------------------------------------------------------------------------
(* Any other instruction: a jump, a register, or a write where nothing is saved *)

Jmp ==
  /\ \E s \in Executing, to \in Code : st' = [s EXCEPT !.pc = to]
  /\ UNCHANGED <<frames, lost>>

Compute ==
  /\ \E s \in Executing :
       \/ \E v \in Data : st' = SetRegisters(s, [j \in {0} |-> v])
       \/ \E v \in Flags : st' = SetRegisters(s, [j \in {15} |-> v])
       \/ \E p \in Pointers : st' = SetRegisters(s, [j \in {8} |-> p])
  /\ UNCHANGED <<frames, lost>>

Held(f) == f.at .. f.at + (IF f.kind = "link" THEN 6 ELSE f.size) - 1

Scribble ==
  /\ \E s \in Executing :
       st' = [s EXCEPT !.mem = [x \in DOMAIN @ |->
                IF \E k \in DOMAIN frames : x \in Held(frames[k]) THEN @[x] ELSE <<Junk, 0>>]]
  /\ UNCHANGED <<frames, lost>>

Next ==
  \/ Bsr \/ Jsr \/ Pea \/ Rts \/ MovStore \/ MovLoad \/ Jmp \/ Compute \/ Scribble
  \/ \E r \in {0, 7}, n \in Locals : Link(r, n)
  \/ \E r \in {0, 7} : Unlk(r)
  \/ \E list \in Lists : Store(list)
  \/ \E list \in Lists : Load(list)

Spec == Init /\ [][Next]_vars

-----------------------------------------------------------------------------
\* What is written through a7, while it points into the stack's segment, lies in it.
TypeOK ==
  /\ DOMAIN st.mem = 0 .. Room - 1
  /\ Top(st) \in 0 .. Wrap * Wrap - 1
  /\ \A k \in DOMAIN frames : frames[k].kind \in {"call", "link", "save"}

\* The frames lie one behind the other from the bottom of the stack up to a7.
Contiguous(fs, top) ==
  \A k \in DOMAIN fs :
    fs[k].at + fs[k].size = IF k = Len(fs) THEN top ELSE fs[k + 1].at

\* Wherever the program is, every frame still holds the 36 bits that were put there of
\* each register, and the stack pointer is behind the last one.
FramesHold ==
  ~st.fault /\ ~lost =>
    /\ Contiguous(frames, Top(st))
    /\ frames = <<>> => Top(st) = 0
    /\ \A k \in DOMAIN frames :
         LET f == frames[k]
         IN IF f.kind = "save"
            THEN \A i \in f.what :
                   Get(st.mem, f.at + Offset(f.what, i), Size(i)) = f.saved[i]
            ELSE Get(st.mem, f.at, 6) = f.saved

\* What takes the last frame off restores 36 bits of each register saved in it, whatever
\* was called, computed and written in between, and all of a7 and pc.
Restored(f, new) ==
  /\ new.a[7] = [seg |-> Stack, addr |-> f.at]
  /\ CASE f.kind = "call" -> new.pc = f.saved
       [] f.kind = "link" -> \A r \in f.what : new.a[r] = f.saved
       [] f.kind = "save" -> \A i \in f.what : Register(new, i) = f.saved[i]

ReturnsRestore ==
  [][Len(frames') < Len(frames) /\ ~lost => Restored(Last(frames), st')]_vars

\* An instruction that faults has written neither memory nor any register except a7;
\* only MOV to memory has set its flags, and pc is past it, in the same segment.
FaultsKeepState ==
  [][st'.fault =>
       /\ st'.mem = st.mem /\ st'.d = st.d /\ [st'.a EXCEPT ![7] = st.a[7]] = st.a
       /\ st'.w = st.w \/ MovStore
       /\ st'.pc.seg = st.pc.seg]_vars

\* cpu.hh:294-300 has "STS ar,ea", "LDS ea,ar" and "MOVM regs...,ea", which test.ns
\* uses with ccr: words on the stack take two bytes, like all else their size.
WordsTakeTwoBytes ==
  ~st.fault /\ (\A k \in DOMAIN frames : frames[k].kind = "save") => Contiguous(frames, Top(st))
=============================================================================
