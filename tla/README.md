# Nightmare: a verification project

Nightmare is a virtual machine: a CPU with 9-bit bytes, segmented memory and
signed-magnitude arithmetic (`cpu.cc`, `cpu.hh`, `machine.hh`), a small kernel
in C++ reached by `TRAP #15` (`os.cc`), a bootstrap in its own assembly
(`bootstrap.s`), user programs (`init.s`, `nforth.s`) and an assembler (`nas/`).
This directory holds TLA+ models of the machine and its kernel, the TLC
configurations that check them, and proofs checked by TLAPS.

Run a model with `tlc -workers 2 -config X.cfg M`, a proof with `tlapm M.tla`.

## Inventory

### Page heap (`os.cc:237-299`)
State: the vector `heap`, one cell per page: a positive head, negative
continuations, 0 for a free page. Operations: `kmalloc`, `kfree`, called by the
raw system call 0 and by `salloc`/`sfree`. Hard: the scan steps from head to
head and must never land inside a block; the limit of memory; `kfree`'s divisor
is the variable being declared (`os.cc:286`). Correct if no page belongs to two
blocks, the scan terminates, and a block keeps its pages until it is freed.

### Segments, objects, processes (`os.cc:38-235`, `384-556`)
State: the global list `segs` with reference counts, `loaded_objects` with
theirs, a segment table in each `Process` structure, `procs`, `npid`, and the
CPU's `segmap`, `segmap_len` and mode. Operations: `salloc`, `sfree`, `mmap`,
`munmap`, `freesegs`, `load`, and the system calls exec and fork, which throw an
`int` errno to report a failure. fork switches to the child and nothing ever
switches back (`loadctx` has no caller), so a parent only keeps its segments.
Hard: three kinds of reference (entry to segment, segment to object, cache to
segment) changed over long sequences of calls; failures in the middle of exec.
Correct if counts match mappings, nothing mapped is freed, the object cache is
usable, and a process left behind keeps its image.

### Bootstrap (`bootstrap.s`)
State: vectors at the bottom of memory, a stack. It forks the first context,
sets SMA and SML, executes `init.x` and enters user mode with a frame it builds;
its handlers serve every trap afterwards.

### Trap unit (`cpu.cc:94-137`, `175-188`, `593-608`, `892-903`; `os.cc:339-359`)
State: `pending`, one fault register, `smr`, `pc`, `a7`, `ssp`, and the memory of
the kernel stack. Operations: `trap`, RTE, the catch in `run`, and `savectx`,
which puts a whole context on the same stack. Hard: handlers that fault, RTE
taking `ssp` from `a7`, forks in the middle, a handler that faults for ever.
Correct if RTE resumes what was interrupted last, saved contexts survive, and a
handler gets back to the program or halts the machine.

### Memory access and segment cache (`cpu.cc:23-63`, `cpu.hh:59-105`, `228-234`)
State: the 16 lines of `scache`, in front of a table in memory that system calls
rewrite. Operations: `seg`, `addr`, `access`, `invalidate`. An `Addr` is a pointer
to a line, so a later lookup can change what an earlier one names. Correct if a
line agrees with the table and an access stays in the segment it names.

### Effective addresses, arithmetic, transfers (`cpu.cc:312-892`, `cpu.hh`, `machine.hh`)
Registers, flags, conversions between C++ integers and signed-magnitude words of
9, 18 and 36 bits. Sequential; hard at the ends of ranges, where a fault comes
after a side effect on a register, and where a value is kept beyond 36 bits.
Calls, frames and register lists share one stack, which moves by a different
amount for each. Correct if V tells every result that was not kept, where V is
meant for that, chains through C compute wide numbers, branches decide as the
numbers compare, of what was pushed the 36 bits that memory takes are found again,
and a fault leaves all as it was but for what the code does before it knows: a7,
pc, and the flags of MOV.

### Object files and assembler (`object.cc`, `nas/nas.cc`)
State: the parsed lines, symbols, local labels, segments with a place each, the
ranges of bytes collected from the lines. Two passes go over the source; operand
lengths must agree between them. The loader reads what is written. Sequential;
hard where a name is defined later than it is used, where encodings meet at the
ends of fields, and where lines lie behind one another. Correct if the CPU
decodes what was written, names land, and the loaded image is the program.

### Parser, console, debugger, user programs
Generated lexer and grammar; input and output, the ncurses display; `init.s` (a
shell that forks and executes) and `nforth.s`. The models admit any user program.

Interactions: every instruction goes through the segment cache; a fault or TRAP
goes through `pending` to `trap`, which for `TRAP #15` calls `oscall` and
otherwise enters the bootstrap's handlers; `oscall` allocates from the page heap
by way of segments, rewrites the table and invalidates the cache; exec loads what
the assembler wrote, which the CPU decodes.

`PROJECT.json` lists the components with what is left out of each, the hazards
at their lines with the properties aimed at them, and, definition by
definition, the source lines modelled.

## Modules

| Module | Models | Notes |
|---|---|---|
| `Heap` | `kmalloc`, `kfree` as operators on a heap value | shared by the next and `Kernel` |
| `PageHeap` | the heap and its callers | ghosts: `live`, the blocks out, and `meant` |
| `HeapProofs` | lemmas on what `Kmalloc` and `Kfree` do to a tiled heap | for the proofs of `PageHeap` and `Kernel` |
| `PageHeapProofs` | theorems about `PageHeap`, the loop of `kmalloc` among them | extends `MC_PageHeap`, which has the loop |
| `Kernel` | segments, object cache, processes, exec, fork, boot | a call is one action; helpers thread a record of the state and an errno through the steps of the call, as a throw skips them |
| `ProcessImages` | what exec and fork promise | abstract specification of `Kernel` |
| `FoldProofs` | what the folds of the community modules and functions of step numbers compute, step by step | induction over finite sets and up to a number |
| `KernelProofs` | theorems about `Kernel`, its implementing `ProcessImages` among them | extends `MC_Kernel`, which has the mapping |
| `TrapUnit` | pending, `trap`, RTE, the handlers, `savectx` | one action per instruction of a handler |
| `TrapUnitProofs` | theorems about `TrapUnit`, its implementing `ExceptionStack` among them | extends `MC_TrapUnit`, which has the mapping |
| `ExceptionStack` | a stack of interrupted contexts | abstract specification of `TrapUnit` |
| `Mmu` | segment table, cache, checks, order of lookups | an instruction is one action; `did` is a ghost: what it was asked and what it did |
| `MmuProofs` | theorems about `Mmu` | |
| `Words` | numbers of the machine, layout in memory | width is a parameter |
| `Alu` | OP Dn,EA, OP EA,Dn, OP EA, CLC, conditions, flags | an instruction is one action; runs a short program |
| `AluProofs` | theorems about `Words` and `Alu` | |
| `Frames` | BSR, JSR, PEA, RTS, LINK, UNLK, MOVM, LDA, STA, LDS, STS, MOV on the stack | `frames` is a ghost: what the program put there |
| `FramesProofs` | theorems about `Frames` | |
| `Decoder` | instruction selection and effective-address decoding of `run` | operators on a sequence of words |
| `NasEa` | `ealen` and `ea` of the assembler | how long an operand is, how it is encoded |
| `NasCode` | expressions, lengths and bytes of every mnemonic | operators on a line and the assembler's state |
| `Nas` | the passes, the collection of ranges, the object file, the loader | a line of a pass is one action |
| `NasPromises` | what a programmer relies on | exceptions are named operators |
| `MC_*` | constants for TLC, refinement mappings, the loop of `kmalloc` as written, the programs of `alu` and `nas` | |

Operators whose comment says "Mutant of X" are plausible bugs in X. They are used
by no specification; substituted for X, each makes a property fail.

### Correspondence worth knowing

* **Heap.** `IsPlace` states in closed form where the scan of `kmalloc` ends;
  `MC_PageHeap` writes the two nested loops out, one test of a `while` after the other,
  and `PlaceIsTheLoop` says on every reachable heap and for every request that they
  end and where. `Loop` makes three tests for each page of memory; it is a recursive
  function, so that it can be proved about. The divisor of `kfree` is a choice from
  `Garbage`, made at each call.
* **Kernel.** Segments are numbered from 1 and a process is named by the segment
  that holds its structure. An exec is one step: no process, handler or other
  call runs in the middle of `oscall`. A file is a sequence of sections and an inode is
  the file. A program whose next fetch fails wedges in the fault handler
  (`Running` is false); what happens there is `TrapUnit`'s subject.
* **TrapUnit.** The kernel stack is a set of placed records, and a write removes
  the records it overlaps. The words `uspace_vec` tests lie over `ppid`, `status`,
  `sleep_on` and `ssp` of `struct Process`: the one for faults of a new process
  begins with `ppid` and is not 0 (`NewVectors`), the one for breakpoints may be. A
  program sets either by TRAP #0, to 0:0 too (`SetHandler`). `uspace_vec` then
  returns to what follows its call (`NoHandler`): `fault_vec` stops; `break_vec` goes
  on to the debugger and to an `rte` with ten bytes of registers on top of the
  frame. That `rte` finds no frame (`RteMisread`): pc, a7 and smr are what lies ten
  bytes off, partly the program's own registers, and `ssp` ends ten bytes higher.
  Where it leaves SU set the program runs on in supervisor mode; the model has that
  state and no step from it.
* **Mmu.** `Fill` is the cache after a lookup; an instruction is a composition of
  fills, and an address is the number of its line. A fork, which moves `segmap` to
  a copied table, is several `Remap` steps. `addr` checks the address in the register,
  and displacements and the predecrement are added after it: `Access` takes both
  apart, and what wraps below 0 is granted if it ends in the segment.
* **Alu.** A byte's sign weighs `Byte`; words and longs follow from it. A register
  may hold more than a long: `Signed` does not clamp a negative number, and MULS
  and ASL write wide results (`machine.hh:34`). Products and shifts are computed in
  `int_t`, which `AsInt` cuts to `IntSign`. Flags are set before the write is
  checked, as in the code. `Shift` and `And`, `Or`, `Xor` are arithmetic on the weights
  of bits, `TwoTo(k)`: the number with just the bits asked for. Weights go up to
  `MaxShift`, and `AluAssumption` has them cover a long.
* **Frames.** A stored value occupies placed bytes `<<value, index>>`, so a read of
  anything but exactly what was stored is `Junk`. Memory has four bytes of nine bits
  for an address or a data register, which may be wider: `InMemory` is what of it is
  stored and read back. pc moves past an instruction whether or not it faults
  (`Executing`), as the catch of `run` sees to (`cpu.cc:898-900`); `MovStore` sets the
  flags before its write is checked. The program is followed as long as a7 points
  into the segment of the stack: LINK #n,a7, UNLK a7 and loads that change it end
  the behaviour, as does a pc that is not code. The program takes things off in
  the reverse order of putting them there and stops at its first fault; the
  ghosts hold what it should find. The loops of MOVM over its list are written as
  what they leave: `Lay` and `SetRegisters` treat all registers of the list at once, as
  they are checked at once and lie in bytes of their own.
* **Decoder, Nas.** Words and addresses are numbers, taken apart by `Bitwise`
  where the code uses masks. `Garbage` is the operand that RTS, RTE and TRAP read
  uninitialised when none is written. Nothing stops after an error: the code ignores
  the result of `assemble`, and so does `Nas` once the first pass is over.

## What the runs show

| Run | Result |
|---|---|
| `heap` | passes: the vector stays tiled whatever `kfree` divides by; a new block was free; the loop of `kmalloc` ends where the closed form says; blocks keep their pages and never overlap while the divisors have been benign |
| `heap_free` | violated: the real divisor frees pages in use |
| `kernel` | passes: counts equal mappings, no stale entry, the cache is usable, segments are apart, `ProcessImages` is implemented, all with benign divisors of `kfree` |
| `kernel_caller` | violated: an exec that fails has already destroyed its caller |
| `traps` | passes: one pending trap; contexts intact; handlers end; the stack is balanced and `ExceptionStack` is implemented, but for each breakpoint without a handler, which leaves ten bytes and loses the frame |
| `mmu` | passes: cache coherent; operands and jumps use the segment they name; operands end in it, though they may begin below it |
| `mmu_named` | violated: a second lookup evicts the line of the first, and JSR, PEA and MOVM use the wrong segment |
| `alu` | passes: after SEX, ADD, ASL, INC, DEC, NEG and MULS into a long, V tells a result that was not kept, within `int_t`; ADC and SBC add and subtract over two longs, branches decide as numbers compare, rotations come back, division is exact, an instruction refused a write has changed nothing but flags |
| `nas` | passes: what is assembled without a message decodes as written, but for the exceptions named; data reads back; labels land; undefined names are reported in instructions; lengths disagree only over what `DesyncsAreKnown` lists; the loaded image is the program; the assembler aborts only on an overlap |
| `nas_transfers` | violated: LDA, LDS, STA, STS without a suffix, as `bootstrap.s` has them: LDS is assembled as LEA, the others as no instruction |
| `frames` | passes: what is put on the stack is found again, calls, frames and register lists return 36 bits of each register they saved, a fault has changed nothing but a7, pc and, for MOV to memory, the flags |
| `frames_words` | violated: STS, LDS and a MOVM of a control register alone move a7 by 2^32 too much |

The quotation a violated property rests on (a comment, an instruction table, a
line of a program) is in its finding in `PROJECT.json`.

What a reader of `kernel` should not conclude: two facts its invariants rely on
are leaks. A stack's entry is not VALID, so exec never releases the old stack,
and `RefsAreMappings` counts that reference explicitly. Its `Garbage` holds the two
benign kinds of divisor only; with the others `kfree` frees foreign pages, as
`heap_free` shows, and nothing is claimed of the layers above it.

Nor from `alu`: V says whether the result was kept only where `OverflowIsFlagged`
says so. After SUB it is the comparison's (`cpu.cc:643-645`); after MULS into a byte
or a word it is that of a long (`cpu.cc:657`). `CompareDecides` is about the ten
branches that follow a comparison; BMI and BPL test N, which CMP does not set. Alu
has no address registers: an (ar)+ that has moved before a write is refused is the
subject of `frames`, for a7.

Nor from `nas`: `Excepted` in `NasPromises` is long, and each line of it is
behaviour of the code that a reader of the assembler's manual would not expect.

### Behaviour met while modelling

These are in the model because they are in the code, and no property is stated
against them:

* kernel: exec refuses a file for the x bit of others, because `!=` binds before `&`
  (`os.cc:192`); `kmalloc` never reuses a hole below the last block (`os.cc:269`); an
  object can replace segment 4 (`os.cc:139`); a Fault inside `oscall` sets no C
  (`os.cc:400`);
* traps: after TRAP #0 has stored 0:0, each BKPT leaves ten bytes on the kernel stack
  and returns through what is no frame (`bootstrap.s:59-63`, `108-117`);
* memory: an operand that begins below 0, as by a predecrement from 0, is granted if
  it ends in the segment (`cpu.hh:230`); a fault after a lookup
  that evicted the code's line moves pc to another segment (`cpu.cc:900`);
* arithmetic: a product or a shift past 64 bits is cut before it is tested, so MULS
  of 2^32 by 2^32 leaves 0 with V clear; ASR of a negative number gives a negative zero; DIV Dn,EA loses the
  quotient; DIV by an immediate faults EINVAL; a rotation of a sized register uses
  the operand's width;
* stack: BSR moves a7, and MOV sets the flags, before the write is checked
  (`cpu.cc:506-507`); of a register wider than 36 bits, as MULS, ASL and -(a0) from 0
  leave one, LINK, STA, MOVM and MOV store 36 (`machine.hh:69`), so that UNLK, LDA,
  MOVM and MOV do not restore it; the operand of RTS is ignored; LINK of
  a7 with locals is not undone by UNLK of a7;
* assembler: data operations without a suffix are assembled as bytes; UNLK is 0600000
  for 0060000; a load by MOVM has no direction bit; `([d,ar])` beyond nine bits
  loses its brackets; `.1f` may mean its own line; `a-b` keeps a segment; an unresolved
  right operand is not asked about (`nas.cc:541`); an undefined name is 0 in DW, DL and
  DA; code before any segment dereferences a null pointer; ranges that follow on
  another are not compared with later ones.

### Bounds

* `heap`: a page of a few bytes and a handful of pages; requests up to `MaxBytes`
  give blocks of one to three pages, enough for holes below, between and at the
  end of blocks, and for a full memory. The divisors cover 0, fractions of a page
  (continuation pages, pages past the vector), the page and beyond.
* `kernel`: `Total = 9` pages and `NSeg = 5` entries, of which entry 4 is the
  Process structure; three files: two sections, one section besides an empty one, no
  sections. Nine pages let two forks, several execs and running out of memory at
  each allocation of exec and fork all happen. Memory bounds the behaviours (fork
  and exec never give back their page), so no counter needs a bound; `PidLimit`
  stands for the 2^18 at which `npid` wraps and is above the number of processes
  that fit.
* `traps`: 450 bytes hold the two contexts that `MaxForks` allows, 392 bytes, with room
  for a frame, registers and a call above them, and without forks for breakpoints that
  leave their registers and for nested frames, until the stack reaches the end
  of memory.
* `mmu`: two lines for four segment numbers, three in the table and one past it, let
  every lookup evict an earlier one; segments of one byte, operands of one and two
  and displacements of -1 and 1 reach and pass both ends of a segment, and `Wrap =
  8` tells below 0 from past the end.
* `alu`: bytes of two bits, so words of four and longs of eight; values 0, small, the
  largest and smallest of each sign and the negative zero; every operation with
  every size and side, and the pairs and triples that chains through C and rotations
  need. `MaxShift = 7` is the highest bit of a long; the code takes counts to 63. `IntSign = 2048`: an
  `int_t` of twelve bits, wide enough for a register (nine) and too narrow for the
  largest products, as the code's 64 bits are for 36.
* `nas`: 18492 programs hold one instruction between labels before and after it,
  with every mnemonic, kind of operand, suffix and the numbers at the ends of
  fields; 2816 put two or three lines out of an alphabet together (segments, ORG,
  labels, data, branches, errors). `Row = 3` splits small data over several DD
  lines; the code's is 30.
* `frames`: `Room = 20` holds three frames or four, so pushes reach and pass the end
  at every size; `Long = 512` and the one pointer, beyond it, are an address that
  memory does not hold whole, and of the two data values one is the lower part of
  the other; the lists cover data, address and control registers alone and
  mixed, `{18}` being the segment of a0. `Wrap = 64` stands for 2^32: more than a
  frame can move. What LINK reserves is assumed to leave a7 below 2^64, so that a7
  wraps only in the steps of `frames_words`. SYMMETRY permutes the two values of the
  flags, which no property or guard tells apart; VIEW hides bytes no frame
  holds, which no step reads before they are written.

`CHECK_DEADLOCK FALSE`: STOP and a double fault halt the machine, memory runs out,
a kernel process that cannot fetch its code does nothing more, what `RteMisread`
leaves in supervisor mode is not followed, and programs of `alu`, `frames` and `nas`
end.

### Fairness

`TrapUnit!Spec` has `WF_vars(Next)`: `run()` is a loop that goes on until `halted`,
with nothing to wait for. `HandlersEnd` needs it. No other module states
liveness: in the others a step is a choice of the user program, which need not
ever make one, or one of a finite sequence.

## What is proved

All theorems hold for every value of the constants that the modules' assumptions
admit; TLC evaluates the assumptions on every run. The assumptions say what the
machine and its files are (numbers in range, a table that has an entry 4, sections
with a number and a size, more pids than pages, lists of registers that MOVM can
name). The theorems of the Kernel have hypotheses of their own, named there.

* **Page heap.** `TypeCorrect`, `HeapStaysTiled`, `NewBlocksAreFree`, `BlocksAreKept`.
  Tiling alone is not enough for the last: the inductive invariant adds that, as
  long as every divisor so far was benign (the ghost `meant`), each live block is
  headed by its page and no two live blocks start on one page. From tiling, two
  heads never overlap, so `kfree` of one cannot touch another. `HeapProofs` states what
  `IsPlace`, `WithBlock` and `AfterKfree` do to a tiled heap.

  `ScanEndsAtThePlace` is about the loops in `kmalloc`. Their invariant, `ScanInv`:
  between tests of the outer loop no run of free pages that has ended is long enough;
  in the inner one the run being counted lies right below `p` and follows on a block.
  Both need that `p` is never inside a block, which is tiling again. `Progress`
  counts three for each page passed and up to two for where the loops are at the next;
  it rises with each test, so three tests for each page are enough. `kmalloc` ends only because the
  vector is tiled, and that holds whatever `kfree` divides by.
* **Kernel.** `KernelTypeCorrect`, `CountsAreMappings`, `ObjectsCountSegments`,
  `SegmentsStayApart`, for any files; `MappingsAreLive`, `CacheStaysUsable` and
  `ExecMapsWholeImages` (the refinement of `ProcessImages`) for well-formed ones. An
  exec is dozens of allocations, mappings and releases any of which may fail, so the
  argument is by step of a call and not by action. `GoodState` says of the state in
  the middle of a call what `KernelInv` says between calls (the heap is tiled; a
  live segment heads a block of its own; counts equal the mappings of all tables,
  the ones of the running process included; an entry means what its flags say), and
  each of `Salloc`, `Sfree`, `Mmap`, `Munmap`, `Load` has a lemma that it keeps
  `GoodState`. The loops over sections, entries and cached objects are folds.
  `FoldProofs` carries a fact over a fold: the library's induction theorems take a
  predicate, which the provers cannot instantiate, so these take the set of numbers
  for which the fact holds.

  A file is well-formed (`WellFormedFiles`) if no segment number occurs in it twice
  and all are numbers of the table but for 4, the Process structure.
  `NoStaleMapping` is false without it, because `mmap` then overwrites an entry that
  still counts, or the Process structure's own. The assembler does not see to it: a
  second `SEG 3` is a second segment with the same number (`nas.cc:749-764`). With
  it, an exec writes each entry once, into a slot that freesegs has emptied:
  `FilesInv`. `PidsInv` adds for the refinement that no process has two pids and the
  running one has its own. Each theorem has the hypothesis `BenignDivisors`, that
  `kfree` divides by what was meant or by what frees nothing. The code does not
  guarantee that, and `heap_free` shows what happens otherwise: blocks in use are
  freed, and segments then overlap.
* **Segment cache.** `MmuTypeCorrect`, `CacheStaysCoherent`, `OperandsEndInSegment`.
  Coherence is inductive
  with the type invariant; one lemma, `FillCoherent`, says that a lookup keeps any
  coherent cache coherent, and every instruction is up to three lookups. SSML
  is safe, though it does not invalidate, because no line can be valid while
  the length is 0: that is part of coherence. The last follows: the line an operand
  is looked up in is the latest, so it is the operand's and agrees with the table
  (`ResolvedLine`), and what is granted ends in the segment although the sum of
  address and length wraps (`GrantedEnds`). Where it begins is not checked by the code
  and not claimed.
* **Trap unit.** `PendingIsOne`: an instruction runs only with nothing pending and
  throws at most once, and taking a trap removes it first. `TrapTypeCorrect`,
  `StackIsBalanced`, `ContextsSurvive` rest on one invariant, `StackInv`. Nothing in
  `UserStackIsBalanced` says why RTE finds the right frame, so the invariant follows
  the stack down: records in memory do not overlap; the frame of the running handler
  lies at its stack pointer less what the handler has pushed; a frame saved from a
  handler lies on that handler's frame, one saved from the program at the bottom,
  above fork's contexts and the registers that breakpoints without a handler have left
  (`Bottom`); and while segment 4 is sound no handler faults, so the only
  frame is at the bottom, which is why redirecting it to the user's handler is safe.
  A push that ran off memory is the one exception: then a7 lies past the end, and
  taking its fault halts the machine. The lemmas `Written...` say what one write
  leaves of all this. `FramesImplementStack` is the refinement of `ExceptionStack`. Its
  mapping puts the frames in memory in the order of their addresses; by `StackInv`
  a trap adds one above all others, RTE removes the highest, and no other write
  overlaps one, so the list changes at its end only. RTE resumes what was
  interrupted last, as it was left, but for the redirection the handlers mean. The
  one step that does neither is break_vec's own `rte`: `ExceptionStack` has it as
  `Lose`, possible only where its constant `Unbalanced` says so, which the mapping makes
  pc at `break_rte`.
* **Stack of a program.** `FramesTypeCorrect`, `FramesAreHeld`, `ReturnsAreRestored`,
  `FaultsLeaveTheRest`. What is restored of a register is the 36 bits memory has of it,
  and a faulting instruction cannot simply be run again: a7 may have moved and pc
  has. That each frame is found is not inductive. `FramesInv` adds
  that the first frame lies at the bottom and each behind the ones before it,
  so that what is written at a7 disturbs none, and that each is what
  the instruction that takes it off expects (a save has at least the four bytes that
  a7 always moves by, all that is read back lies in the segment, a frame linked
  to a7 reserves nothing). For a stack that is lost only types remain: six bytes that
  read as one value are an address. `OffsetsAreApart` and `LayIs` say that the
  registers of a list lie behind one another and are all found; `NextIs` reduces every
  instruction to one of three steps: put a frame, take one, leave the stack alone.
* **Conversions.** `FittingNumbersAreKept`, `OverflowIsNeverKept`, `RegistersAreKept`,
  `AssemblerAgrees`: at every width, storing and reading back lose exactly what
  overflows and the sign of zero, and the two conversions, of `machine.hh` and of
  `nas.cc`, agree on what fits.
* **Arithmetic.** `AluTypeCorrect`, `FaultsWriteNothing`, `ResultsFitOrAreFlagged`,
  `BranchesDecide`, `QuotientAndRemainder`, `RotationsUndo`, `CarriesAcross`, for every
  weight of a byte, every set of registers and values and all programs. TLC runs them
  on bytes of two bits.
  `Proper` says what one instruction may do to a state: keep the types; leave registers
  below two longs unless it is MULS or ASL; change neither registers nor memory if it
  faults, DIV Dn,EA excepted. It is shown operation by operation. The others speak of
  whole programs, of up to three instructions, and are not inductive: `Inv` adds the
  history, that `st` is what the instructions before `at` make of `start`. What is
  left of each property is then about a function. `UTest` and `STest` look at the number
  before it is cut to the width, so V clear means it fits, if `int_t` has held it
  (`ResultsFitOrAreFlagged` says so of the operations named above), and a number that fits reads back
  (`SignedBack`), in memory after `LoadStore`, at every width. A rotation keeps
  the bit that leaves in C or at the other end, so its inverse finds it (`Restorable`).
  A sum or difference is what is kept and a carry of two longs (`KeptAndCarried`),
  and CLC and the flags in between pass that carry on unchanged (`Across`).

Only model-checked: `Decoder` and the assembler, that is the properties of
`NasPromises`. They take words apart with `Bitwise` and evaluate expressions by a
RECURSIVE operator; neither can be used from a module with theorems, and what an
expression of any depth evaluates to is induction over data. `HandlersEnd`: liveness and
fairness are outside the prover.

## Not modelled

* The generated lexer and grammar of the assembler and the tree they build
  (`nasparser.cc`), the macro preprocessor, the listing, GS and GY lines, which only
  the debugger reads, and the expression operators besides `+ - *`. Characters of
  strings are taken as 0 and numbers stay below 2^27.
* In `Alu`, immediates of 18 and 36 bits (they are decoded in `Decoder`) and shift
  counts past `MaxShift`; memory-indirect operands, which look up a fourth segment;
  LEA.
* The console, debugger and display: input, output and layout.
* `loadctx`, which has no caller; the contents of memory segments in `Kernel`, so
  that shared or reused data is not visible; TRAPs whose vector leads to no code; a
  fork with less than a context of kernel stack before the end of memory; segment
  0777777, which bypasses the cache, in `Mmu`.

## Plan

Done, with proofs: `Heap` and `PageHeap`; `Kernel` against `ProcessImages`;
`TrapUnit` against `ExceptionStack`; `Mmu`, `Words`, `Alu`, `Frames`. Done, checked
only: `Decoder`; the assembler and loader.

What remains, in order of worth:

1. `KernelStack`: `TrapUnit` with the pages of `Kernel`, for the kernel stack that
   leaves the first Process structure after five generations.
2. Files with segment numbers of 4, past the table or used twice in the runs of
   `Kernel` (its actions and four of its theorems admit them), and the contents of
   segments.
3. Proofs about the assembler: the encodings of `NasCode` and `Decoder` in sums of
   weights, as `Alu` has them, instead of `Bitwise`, and that collecting ranges into
   rows and loading them (`Nas`) loses and adds nothing.
4. Memory-indirect operands and LEA, composed with `Mmu`.
