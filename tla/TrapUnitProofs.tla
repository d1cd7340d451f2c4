--------------------------- MODULE TrapUnitProofs ---------------------------
(***************************************************************************)
(* Proofs about TrapUnit for every size of memory and number of forks.     *)
(*                                                                         *)
(* OnePending holds for two reasons, one per side of run()'s loop: an      *)
(* instruction, of a program or of a handler, runs only with nothing       *)
(* pending and throws at most once; and taking a trap removes it before    *)
(* the call or handler it starts can make another pending.                 *)
(*                                                                         *)
(* The theorems about the kernel stack rest on StackInv: what lies on the  *)
(* stack never overlaps, the frame of a handler lies where its stack       *)
(* pointer, less what it has pushed, says, and a frame saved from a        *)
(* handler lies on that handler's own.  The one place where the stack is   *)
(* off, break_vec after uspace_vec has found no handler, is reached with   *)
(* that one frame on it, and what the rte there loses is counted.          *)
(*                                                                         *)
(* That the frames in memory are a stack (ExceptionStack) follows from the *)
(* same invariant: each step changes only the frame on top, and a sequence *)
(* sorted by address changes at its end with it.                           *)
(***************************************************************************)
EXTENDS MC_TrapUnit, Sequences, FiniteSetTheorems, TLAPS

USE DEF history

\* OnePending without Cardinality: the pending trap, if any, is t.
AtMost(t) == pending \subseteq {t}

OneTrap == \E t \in Traps : AtMost(t)

LEMMA OneTrapIsOnePending == OneTrap => OnePending
<1> SUFFICES ASSUME NEW t \in Traps, pending \subseteq {t} PROVE OnePending
  BY DEF OneTrap, AtMost
<1>1. pending = {} \/ pending = {t}
  OBVIOUS
<1> QED
  BY <1>1, FS_EmptySet, FS_Singleton DEF OnePending

LEMMA InitOneTrap == Init => OneTrap
BY DEF Init, OneTrap, AtMost, Traps

\* A throw with nothing pending.
LEMMA ThrowsOne ==
  ASSUME Ready, NEW f \in Traps, Throws(f)
  PROVE  OneTrap'
BY DEF Ready, Throws, OneTrap, AtMost

\* A trap that is taken leaves nothing.
LEMMA TakenOne ==
  ASSUME OneTrap, NEW t, Taken(t)
  PROVE  OneTrap'
BY DEF OneTrap, AtMost, Taken

LEMMA KeepsOne ==
  ASSUME OneTrap, UNCHANGED pending
  PROVE  OneTrap'
BY DEF OneTrap, AtMost

LEMMA PushOne ==
  ASSUME OneTrap, Ready, NEW x, NEW next, Push(x, next)
  PROVE  OneTrap'
<1>1. eFAULT \in Traps
  BY DEF Traps, Faults
<1>2. Throws(eFAULT) \/ UNCHANGED pending
  BY DEF Push
<1> QED
  BY <1>1, <1>2, ThrowsOne, KeepsOne

LEMMA NextOneTrap == OneTrap /\ [Next]_vars => OneTrap'
<1> SUFFICES ASSUME OneTrap, [Next]_vars PROVE OneTrap'
  OBVIOUS
<1>0. eFAULT \in Traps /\ TRAP14 \in Traps
  BY DEF Traps, Faults
<1>1. ASSUME NEW t \in Traps, Enter(t) PROVE OneTrap'
  BY <1>1, TakenOne DEF Enter
<1>2. CASE Debug \/ CallReturns \/ CallForks
  BY <1>2, TakenOne DEF Debug, CallReturns, CallForks
<1>3. CASE CallFaults
  BY <1>3, <1>0 DEF CallFaults, OneTrap, AtMost
<1>4. CASE TakeTrap
  BY <1>4, <1>1, <1>2, <1>3 DEF TakeTrap
<1>5. ASSUME NEW v \in Vecs, SaveRegs(v) \/ CallUspace(v) PROVE OneTrap'
  BY <1>5, PushOne DEF SaveRegs, CallUspace, Handler
<1>6. ASSUME NEW v \in Vecs, Redirect(v) \/ NoHandler(v) PROVE OneTrap'
  BY <1>6, KeepsOne DEF Redirect, NoHandler
<1>6a. CASE SetHandler \/ Rte \/ RteMisread \/ HandlerStops
  BY <1>6a, KeepsOne DEF SetHandler, Rte, RteMisread, HandlerStops
<1>7. CASE HandlerFaults \/ CallDebugger
  BY <1>7, <1>0, ThrowsOne DEF HandlerFaults, CallDebugger
<1>8. CASE RunHandler
  BY <1>8, <1>5, <1>6, <1>6a, <1>7 DEF RunHandler
<1>9. ASSUME NEW t \in Traps, UserTraps(t) \/ UserFaults(t) PROVE OneTrap'
  BY <1>9, ThrowsOne DEF UserTraps, UserFaults, User
<1>10. CASE UserJumps \/ UserStops
  BY <1>10, KeepsOne DEF UserJumps, UserStops
<1>11. CASE RunUser
  BY <1>11, <1>9, <1>10 DEF RunUser
<1>12. CASE UNCHANGED vars
  BY <1>12, KeepsOne DEF vars
<1> QED
  BY <1>4, <1>8, <1>11, <1>12 DEF Next

\* However oscall, handlers and faults in handlers follow each other, at most one
\* trap is pending: the fault register and the bits that catch sets never have two
\* to tell apart.
THEOREM PendingIsOne == Spec => []OnePending
<1>1. Spec => []OneTrap
  BY InitOneTrap, NextOneTrap, PTL DEF Spec
<1> QED
  BY <1>1, OneTrapIsOnePending, PTL

-----------------------------------------------------------------------------
(***************************************************************************)
(* The discipline of the kernel stack.  m is its memory, b the bottom of   *)
(* the running process's part (Bottom) and ok whether segment 4 is sound.  *)
(***************************************************************************)
Written(m, x) == {y \in m : ~Overlap(x, y)} \cup {x}

LayoutOK(m) ==
  /\ \A x \in m : x.at \in 0 .. MemTop /\ x.size \in Nat \ {0} /\ Fits(x)
  /\ \A x, y \in m : x = y \/ ~Overlap(x, y)

\* fork's contexts, written at the addresses S, below b.
ContextsIn(m, S, b) ==
  \A at \in S : /\ at \in Nat /\ at + ContextStep <= b
               /\ \E x \in m : x.at = at /\ x.size = ContextSize

\* What a handler has pushed on top of its frame when pc is at p.
Pushed(p) ==
  CASE p \in {"fault_bsr", "break_bsr", "fault_stop", "break_trap", "break_rte"} -> RegsSize
    [] p \in {"uspace_fault", "uspace_break"} -> RegsSize + CallSize
    [] OTHER -> 0

\* What follows break_vec's call of uspace_vec.
AfterCall == {"break_trap", "break_rte"}

\* Where the frame of a handler at p lies, with the stack pointer at sp.
Base(p, sp) == sp - Pushed(p) - FrameSize

Held(m, b, p, sp) ==
  /\ p \in HandlerCode
  /\ Base(p, sp) >= b
  /\ \E f \in m : f.at = Base(p, sp) /\ f.size = FrameSize

FrameSet ==
  [at : Nat, size : {FrameSize}, su : BOOLEAN, pc : UserCode \cup HandlerCode,
   a7 : Nat \cup {-1}]

\* A frame from user mode is the lowest one; one from a handler lies on top of
\* what that handler had pushed, and there are none while segment 4 is sound.
FrameOK(m, b, ok, f) ==
  /\ f \in FrameSet
  /\ IF f.su THEN ~ok /\ f.a7 = f.at /\ Held(m, b, f.pc, f.at) /\ f.pc \notin AfterCall
     ELSE f.at = b /\ f.a7 = -1 /\ f.pc \in UserCode

IsFrame(f, b, top) == f.size = FrameSize /\ f.at >= b /\ f.at < top

FramesOK(m, b, ok, top) == \A f \in m : IsFrame(f, b, top) => FrameOK(m, b, ok, f)

\* A push ran off the end of memory: taking the fault will halt the machine.
Doomed == pending = {eFAULT} /\ a7 > MemTop

\* In a handler the only trap to come is the debugger's or, if segment 4 is not
\* sound, a fault.
Nested == pending \subseteq {TRAP14} \/ (pending = {eFAULT} /\ ~seg4)

Sound ==
  /\ Held(kmem, Bottom, pc, a7) /\ FramesOK(kmem, Bottom, seg4, a7) /\ Nested
  /\ pc \in AfterCall => seg4

\* A program in supervisor mode, where the model stops.
Astray == pc \in UserCode /\ pending = {}

StackInv ==
  /\ TypeOK /\ OneTrap /\ LayoutOK(kmem)
  /\ ContextsIn(kmem, saved, Bottom) /\ IsFiniteSet(saved) /\ Cardinality(saved) = forks
  /\ ~su => ssp = Bottom /\ a7 = -1 /\ pc \in UserCode
  /\ su /\ ~halted => Astray \/ (a7 \in Nat /\ (Doomed \/ Sound))

\* Memory after a write is laid out as before it.
LEMMA WrittenLayout ==
  ASSUME NEW m, LayoutOK(m), NEW x, x.at \in Nat, x.size \in Nat \ {0}, Fits(x)
  PROVE  LayoutOK(Written(m, x)) /\ x \in Written(m, x)
BY TrapAssumption DEF LayoutOK, Written, Overlap, Fits

\* A handler's frame survives what is written above its stack pointer,
LEMMA WrittenHeld ==
  ASSUME NEW m, LayoutOK(m), NEW b, NEW p, NEW sp \in Nat, Held(m, b, p, sp),
         NEW x, x.at \in Nat, x.size \in Nat \ {0}, sp <= x.at
  PROVE  Held(Written(m, x), b, p, sp)
<1>1. PICK f \in m : f.at = Base(p, sp) /\ f.size = FrameSize
  BY DEF Held
<1>2. f.at + f.size <= x.at
  BY <1>1 DEF Base, Pushed, FrameSize, RegsSize, CallSize
<1>3. f \in Written(m, x)
  BY <1>1, <1>2 DEF Written, Overlap, LayoutOK
<1> QED
  BY <1>1, <1>3 DEF Held

\* the frames below it stay as they should be,
LEMMA WrittenFrames ==
  ASSUME NEW m, LayoutOK(m), NEW b \in Nat, NEW ok,
         NEW x, x.at \in Nat, x.size \in Nat \ {0}, FramesOK(m, b, ok, x.at)
  PROVE  \A f \in Written(m, x) :
           f # x /\ IsFrame(f, b, x.at + x.size) => FrameOK(Written(m, x), b, ok, f)
<1> SUFFICES ASSUME NEW f \in Written(m, x), f # x, IsFrame(f, b, x.at + x.size)
             PROVE  FrameOK(Written(m, x), b, ok, f)
  OBVIOUS
<1>1. f \in m /\ ~Overlap(x, f)
  BY DEF Written
<1>2. f.at \in Nat /\ f.size \in Nat /\ f.at < x.at
  BY <1>1 DEF LayoutOK, Overlap, IsFrame, FrameSize
<1>3. FrameOK(m, b, ok, f)
  BY <1>1, <1>2 DEF FramesOK, IsFrame
<1>4. ASSUME f.su PROVE Held(Written(m, x), b, f.pc, f.at)
  <2>1. Held(m, b, f.pc, f.at)
    BY <1>3, <1>4 DEF FrameOK
  <2> QED
    BY <1>2, <2>1, WrittenHeld
<1> QED
  BY <1>3, <1>4 DEF FrameOK

\* and so do fork's contexts.
LEMMA WrittenContexts ==
  ASSUME NEW m, LayoutOK(m), NEW S, NEW b \in Nat, ContextsIn(m, S, b),
         NEW x, x.at \in Nat, x.at >= b
  PROVE  ContextsIn(Written(m, x), S, b)
<1> SUFFICES ASSUME NEW at \in S
             PROVE  \E y \in Written(m, x) : y.at = at /\ y.size = ContextSize
  BY DEF ContextsIn
<1>1. PICK y \in m : y.at = at /\ y.size = ContextSize /\ at \in Nat /\ at + ContextStep <= b
  BY DEF ContextsIn
<1>2. y.at + y.size <= x.at
  BY <1>1 DEF ContextStep, ContextSize
<1>3. y \in Written(m, x)
  BY <1>1, <1>2 DEF Written, Overlap, LayoutOK
<1> QED
  BY <1>1, <1>3

LEMMA InitStackInv == Init => StackInv
<1> SUFFICES ASSUME Init PROVE StackInv
  OBVIOUS
<1>1. TypeOK
  <2>1. su \in BOOLEAN /\ seg4 \in BOOLEAN /\ halted \in BOOLEAN
    BY Zenon DEF Init
  <2>2. pc \in UserCode \cup HandlerCode /\ uvec \in [Vecs -> Handlers]
    BY DEF Init, UserCode
  <2> QED
    BY <2>1, <2>2, TrapAssumption DEF Init, TypeOK
<1>2. OneTrap
  BY InitOneTrap
<1>3. LayoutOK(kmem) /\ ContextsIn(kmem, saved, Bottom)
  BY DEF Init, LayoutOK, ContextsIn
<1>4. IsFiniteSet(saved) /\ Cardinality(saved) = forks
  BY FS_EmptySet DEF Init
<1> QED
  BY <1>1, <1>2, <1>3, <1>4 DEF Init, StackInv, Bottom, ContextStep, RegsSize, UserCode

-----------------------------------------------------------------------------
\* The fault of a push that went off the end of memory halts the machine, and so
\* does a frame that does not fit; another frame is well placed.
LEMMA EnterKeeps ==
  ASSUME StackInv, NEW t \in Traps, Enter(t)
  PROVE  StackInv'
<1> DEFINE at == IF su THEN a7 ELSE ssp
           frame == Frame(at, su, pc, a7)
<1> USE DEF Bottom
<1>0a. t \in pending /\ ~halted
  BY DEF Enter, Taken
<1>1. at \in Nat /\ Bottom \in Nat /\ forks \in Nat /\ (su => ~Astray)
  BY <1>0a, TrapAssumption DEF StackInv, TypeOK, ContextStep, RegsSize, Astray
<1>2. frame.at = at /\ frame.size = FrameSize /\ frame.su = su /\ frame.pc = pc /\ frame.a7 = a7
  BY DEF Frame
<1>0. (su => at = a7) /\ (~su => at = ssp)
  OBVIOUS
<1> HIDE DEF at
<1>2a. frame.at \in Nat /\ frame.size \in Nat \ {0} /\ (su => a7 = frame.at)
  BY <1>0, <1>1, <1>2 DEF FrameSize
<1> HIDE DEF frame
<1>3. OneTrap'
  BY TakenOne DEF StackInv, Enter
<1>4. pending' \subseteq Traps /\ su' = TRUE /\ pending' = {}
  BY DEF StackInv, TypeOK, Enter, Taken, OneTrap, AtMost
<1>5. CASE ~Fits(frame)
  <2>1. halted' = TRUE /\ a7' = at /\ UNCHANGED <<kmem, pc, ssp, uvec, seg4, forks, saved, unserved>>
    BY <1>2, <1>5 DEF Enter, frame, at
  <2>2. TypeOK'
    BY <1>1, <1>4, <2>1 DEF StackInv, TypeOK, Fits
  <2> QED
    BY <1>1, <1>3, <1>4, <2>1, <2>2 DEF StackInv, LayoutOK, ContextsIn, Fits
<1>6. CASE Fits(frame)
  <2>1. /\ kmem' = Written(kmem, frame) /\ a7' = at + FrameSize /\ pc' = Vector(t)
        /\ UNCHANGED <<halted, ssp, uvec, seg4, forks, saved, unserved>> /\ ~halted
    BY <1>2, <1>6 DEF Enter, Taken, Write, Written, frame, at
  <2>2. LayoutOK(Written(kmem, frame)) /\ frame \in Written(kmem, frame)
    BY <1>1, <1>2, <1>6, WrittenLayout DEF StackInv, FrameSize
  <2>3. t \notin {TRAP14, TRAP15} => pc' \in HandlerCode \ AfterCall /\ Pushed(pc') = 0
    BY <2>1 DEF Vector, Traps, Faults, HandlerCode, AfterCall, Pushed, eFAULT, eINVAL, ePERM, eACCES,
                eBREAK, TRAP0, TRAP14, TRAP15
  <2>4. pc' \in HandlerCode \ AfterCall /\ Pushed(pc') = 0
    BY <2>3 DEF Enter
  <2>5. \/ ~su /\ at = Bottom
        \/ su /\ Sound /\ ~seg4
    <3>1. CASE ~su
      BY <1>0, <3>1 DEF StackInv
    <3>2. CASE su
      <4>1. ~Doomed
        BY <1>2, <1>2a, <1>6, <3>2, TrapAssumption DEF Doomed, Fits, FrameSize
      <4>2. Sound
        BY <1>1, <2>1, <3>2, <4>1 DEF StackInv
      <4>3. t \in pending /\ t # TRAP14
        BY DEF Enter, Taken
      <4> QED
        BY <3>2, <4>2, <4>3 DEF Sound, Nested
    <3> QED
      BY <3>1, <3>2
  <2>6. at >= Bottom
    BY <1>0, <1>1, <2>5 DEF Sound, Held, Base, Pushed, FrameSize, RegsSize, CallSize
  <2>7. TypeOK'
    BY <1>1, <1>4, <2>1, <2>2, <2>4 DEF StackInv, TypeOK, LayoutOK, FrameSize, Fits
  <2>8. ContextsIn(Written(kmem, frame), saved, Bottom)
    BY <1>1, <1>2, <2>6, WrittenContexts DEF StackInv
  <2>9. Held(Written(kmem, frame), Bottom, pc', a7')
    <3>1. Base(pc', a7') = at
      BY <1>1, <2>1, <2>4 DEF Base, FrameSize
    <3> QED
      BY <1>2, <2>2, <2>4, <2>6, <3>1 DEF Held
  <2>10. FrameOK(Written(kmem, frame), Bottom, seg4, frame)
    <3>1. frame \in FrameSet
      BY <1>0, <1>1 DEF Frame, FrameSet, StackInv, TypeOK, frame
    <3>2. CASE ~su
      BY <1>2, <2>5, <3>1, <3>2 DEF FrameOK, StackInv
    <3>3. CASE su
      <4>1. Held(kmem, Bottom, pc, a7)
        BY <2>5, <3>3 DEF Sound
      <4>2. Held(Written(kmem, frame), Bottom, pc, a7)
        <5>1. a7 \in Nat /\ a7 <= frame.at /\ LayoutOK(kmem)
          BY <1>2a, <3>3 DEF StackInv
        <5> QED
          BY <1>2a, <4>1, <5>1, WrittenHeld
      <4> QED
        BY <1>0, <1>2, <2>5, <3>1, <3>3, <4>2 DEF FrameOK, Sound
    <3> QED
      BY <3>2, <3>3
  <2>11. FramesOK(kmem, Bottom, seg4, at)
    <3>1. CASE su
      BY <1>0, <2>5, <3>1 DEF Sound
    <3>2. CASE ~su
      BY <1>1, <2>5, <3>2 DEF FramesOK, IsFrame, StackInv, LayoutOK
    <3> QED
      BY <3>1, <3>2
  <2>12. FramesOK(Written(kmem, frame), Bottom, seg4, a7')
    <3>1. \A f \in Written(kmem, frame) :
            f # frame /\ IsFrame(f, Bottom, at + FrameSize)
              => FrameOK(Written(kmem, frame), Bottom, seg4, f)
      BY <1>1, <1>2, <2>11, WrittenFrames DEF StackInv, FrameSize
    <3> QED
      BY <2>1, <2>10, <3>1 DEF FramesOK
  <2>13. Sound'
    BY <1>4, <2>1, <2>4, <2>9, <2>12 DEF Sound, Nested
  <2> QED
    BY <1>1, <1>3, <1>4, <2>1, <2>2, <2>7, <2>8, <2>13 DEF StackInv, FrameSize
<1> QED
  BY <1>5, <1>6

\* A step of user code, or of oscall, that leaves the stack alone.
LEMMA UserKeeps ==
  ASSUME StackInv, ~su, TypeOK', OneTrap', UNCHANGED <<su, a7, ssp, kmem, forks, saved, unserved>>,
         pc' \in UserCode
  PROVE  StackInv'
BY Zenon DEF StackInv, Bottom

\* A step of a handler that does.
LEMMA HandlerKeeps ==
  ASSUME StackInv, su, a7 \in Nat, Sound, TypeOK', OneTrap', Nested',
         UNCHANGED <<su, a7, ssp, kmem, seg4, forks, saved, unserved>>,
         pc' \in HandlerCode, Pushed(pc') = Pushed(pc), pc' \in AfterCall => seg4
  PROVE  StackInv'
<1>1. Held(kmem, Bottom, pc', a7)
  BY DEF Sound, Held, Base
<1>2. Sound'
  BY <1>1 DEF Sound, Bottom
<1> QED
  BY <1>2 DEF StackInv, Bottom

\* An instruction runs in a handler only with the stack as it should be.
LEMMA ReadyIsSound ==
  ASSUME StackInv, Ready, su, pc \in HandlerCode
  PROVE  /\ Sound /\ a7 \in Nat /\ ~halted /\ pending = {}
         /\ Bottom \in Nat /\ Base(pc, a7) >= Bottom
<1>1. ~Astray /\ ~Doomed /\ ~halted /\ pending = {}
  BY DEF Ready, Astray, Doomed, UserCode, HandlerCode
<1>2. Sound /\ a7 \in Nat
  BY <1>1 DEF StackInv
<1>3. Bottom \in Nat
  BY TrapAssumption DEF StackInv, TypeOK, Bottom, ContextStep, RegsSize
<1> QED
  BY <1>1, <1>2, <1>3 DEF Sound, Held

LEMMA PushKeeps ==
  ASSUME StackInv, OneTrap', NEW next \in HandlerCode \ AfterCall, NEW x, pc \in HandlerCode,
         Handler(pc), Push(x, next),
         x.at = a7, x.size \in Nat \ {0, FrameSize}, Pushed(next) = Pushed(pc) + x.size
  PROVE  StackInv'
<1>1. su /\ Sound /\ a7 \in Nat /\ ~halted /\ pending = {}
  BY ReadyIsSound DEF Handler
<1>2. a7' = a7 + x.size /\ UNCHANGED <<su, ssp, uvec, seg4, forks, saved, unserved, halted>>
  BY DEF Push
<1>3. Bottom \in Nat /\ Bottom' = Bottom
  BY <1>2, ReadyIsSound DEF Bottom, Handler
<1>4. CASE ~Fits(x)
  <2>1. pending' = {eFAULT} /\ UNCHANGED <<kmem, pc>>
    BY <1>1, <1>4 DEF Push, Throws
  <2>2. Doomed'
    BY <1>1, <1>2, <1>4, <2>1, TrapAssumption DEF Doomed, Fits
  <2>3. TypeOK'
    <3>1. pending' \subseteq Traps
      BY <2>1 DEF Traps, Faults
    <3> QED
      BY <1>1, <1>2, <2>1, <3>1 DEF StackInv, TypeOK
  <2> QED
    BY <1>1, <1>2, <1>3, <2>1, <2>2, <2>3 DEF StackInv
<1>5. CASE Fits(x)
  <2>1. kmem' = Written(kmem, x) /\ pc' = next /\ pending' = {}
    BY <1>1, <1>5 DEF Push, Write, Written
  <2>2. LayoutOK(kmem') /\ x \in kmem'
    BY <1>1, <1>5, <2>1, WrittenLayout DEF StackInv
  <2>3. TypeOK'
    BY <1>1, <1>2, <2>1, <2>2 DEF StackInv, TypeOK, LayoutOK
  <2>4. Held(kmem, Bottom, pc, a7) /\ FramesOK(kmem, Bottom, seg4, a7)
    BY <1>1 DEF Sound
  <2>5. Held(kmem', Bottom, pc, a7)
    BY <1>1, <2>1, <2>4, WrittenHeld DEF StackInv
  <2>6. Base(next, a7 + x.size) = Base(pc, a7)
    BY <1>1 DEF Base, Pushed, FrameSize, RegsSize, CallSize
  <2>7. Held(kmem', Bottom, next, a7 + x.size)
    BY <2>5, <2>6 DEF Held
  <2>8. FramesOK(kmem', Bottom, seg4, a7 + x.size)
    <3>1. x.at \in Nat /\ x.size \in Nat \ {0} /\ LayoutOK(kmem)
      BY <1>1 DEF StackInv
    <3>2. \A f \in Written(kmem, x) :
            f # x /\ IsFrame(f, Bottom, x.at + x.size)
              => FrameOK(Written(kmem, x), Bottom, seg4, f)
      BY <1>3, <2>4, <3>1, WrittenFrames
    <3>3. ~IsFrame(x, Bottom, x.at + x.size)
      BY DEF IsFrame
    <3> QED
      BY <2>1, <3>2, <3>3 DEF FramesOK
  <2>9. Base(pc, a7) >= Bottom
    BY <2>4 DEF Held
  <2>10. x.at >= Bottom
    BY <1>1, <1>3, <2>9 DEF Base, Pushed, FrameSize, RegsSize, CallSize
  <2>11. ContextsIn(kmem', saved, Bottom)
    BY <1>1, <1>3, <2>1, <2>10, WrittenContexts DEF StackInv
  <2>12. Sound'
    BY <1>2, <1>3, <2>1, <2>7, <2>8 DEF Sound, Nested
  <2> QED
    BY <1>1, <1>2, <1>3, <2>1, <2>2, <2>3, <2>11, <2>12 DEF StackInv
<1> QED
  BY <1>4, <1>5

\* At most one frame lies at an address.
LEMMA SameFrame ==
  ASSUME NEW m, LayoutOK(m), NEW x \in m, NEW y \in m, x.at = y.at
  PROVE  x = y
BY DEF LayoutOK, Overlap

\* The frame of a handler that is about to return.
LEMMA FrameUnderStackPointer ==
  ASSUME StackInv, Ready, su, pc \in HandlerCode
  PROVE  \E f \in kmem : /\ f.at = Base(pc, a7) /\ f.at >= Bottom /\ f.at < a7
                         /\ f.size = FrameSize
                         /\ FrameOK(kmem, Bottom, seg4, f)
                         /\ \A x \in kmem : x.at = f.at => x = f
<1>1. Sound /\ a7 \in Nat
  BY ReadyIsSound
<1>2. PICK f \in kmem : f.at = Base(pc, a7) /\ f.size = FrameSize
  BY <1>1 DEF Sound, Held
<1>3. f.at >= Bottom /\ f.at < a7
  BY <1>1, <1>2 DEF Sound, Held, Base, Pushed, FrameSize, RegsSize, CallSize
<1>4. FrameOK(kmem, Bottom, seg4, f)
  BY <1>1, <1>2, <1>3 DEF Sound, FramesOK, IsFrame
<1>5. \A x \in kmem : x.at = f.at => x = f
  BY SameFrame DEF StackInv
<1> QED
  BY <1>2, <1>3, <1>4, <1>5

\* The handler's frame is sent to the program's handler: it is the only one, since
\* no fault came between it and the program.
LEMMA RedirectKeeps ==
  ASSUME StackInv, OneTrap', NEW v \in Vecs, Redirect(v)
  PROVE  StackInv'
<1>1. /\ Ready /\ su /\ pc \in {"uspace_fault", "uspace_break"} /\ seg4
      /\ pc \in HandlerCode /\ uvec[v] \in UserCode
  BY DEF Redirect, Handler, LooksAt, HandlerCode, StackInv, TypeOK, Handlers
<1>2. Sound /\ a7 \in Nat /\ ~halted /\ pending = {}
  BY <1>1, ReadyIsSound
<1>3. PICK f \in kmem : /\ f.at = Base(pc, a7) /\ f.at >= Bottom /\ f.at < a7
                        /\ f.size = FrameSize
                        /\ FrameOK(kmem, Bottom, seg4, f)
                        /\ \A x \in kmem : x.at = f.at => x = f
  BY <1>1, FrameUnderStackPointer
<1> DEFINE g == [f EXCEPT !.pc = uvec[v]]
<1>4. f \in FrameSet /\ ~f.su /\ f.at = Bottom /\ f.a7 = -1 /\ f.at = a7 - CallSize - RegsSize - FrameSize
  BY <1>1, <1>2, <1>3 DEF FrameOK, Base, Pushed, FrameSize, RegsSize, CallSize
<1>5. g \in FrameSet /\ g.at = f.at /\ g.size = f.size /\ g.su = f.su /\ g.pc = uvec[v] /\ g.a7 = f.a7
  BY <1>1, <1>4 DEF FrameSet
<1>6. {x \in kmem : x.at = a7 - CallSize - RegsSize - FrameSize} = {f}
  BY <1>3, <1>4
<1>7. kmem' = (kmem \ {f}) \cup {g}
  BY <1>6 DEF Redirect
<1> HIDE DEF g
<1>8. /\ a7' = a7 - CallSize - RegsSize /\ pc' = "rte"
      /\ UNCHANGED <<pending, su, ssp, uvec, seg4, forks, saved, unserved, halted>>
  BY DEF Redirect
<1>9. a7' \in Nat /\ Base(pc', a7') = f.at /\ a7' = f.at + FrameSize /\ f.at \in Nat
  BY <1>2, <1>4, <1>8 DEF Base, Pushed, FrameSize, RegsSize, CallSize, FrameSet
<1>10. LayoutOK(kmem')
  BY <1>3, <1>5, <1>7 DEF StackInv, LayoutOK, Overlap, Fits
<1>11. ContextsIn(kmem', saved, Bottom)
  <2>1. \A at \in saved : at # f.at
    BY <1>2, <1>3, ReadyIsSound, <1>1 DEF StackInv, ContextsIn, ContextStep
  <2> QED
    BY <1>7, <2>1 DEF StackInv, ContextsIn
<1>12. TypeOK'
  BY <1>8, <1>9, <1>10 DEF StackInv, TypeOK, LayoutOK, HandlerCode
<1>13. Held(kmem', Bottom, pc', a7')
  BY <1>3, <1>5, <1>7, <1>8, <1>9 DEF Held, HandlerCode
<1>14. FramesOK(kmem', Bottom, seg4, a7')
  <2> SUFFICES ASSUME NEW h \in kmem', IsFrame(h, Bottom, a7')
               PROVE  FrameOK(kmem', Bottom, seg4, h)
    BY DEF FramesOK
  <2>1. h = g
    <3>1. h.at \in Nat /\ g.at \in Nat /\ h.size = FrameSize /\ g.size = FrameSize
      BY <1>3, <1>5, <1>9, <1>10 DEF LayoutOK, IsFrame
    <3>2. Overlap(h, g)
      BY <1>3, <1>4, <1>5, <1>9, <3>1 DEF Overlap, IsFrame, FrameSize
    <3>3. g \in kmem'
      BY <1>7
    <3> QED
      BY <1>10, <3>2, <3>3 DEF LayoutOK
  <2> QED
    BY <1>1, <1>4, <1>5, <2>1 DEF FrameOK
<1>15. Sound'
  BY <1>2, <1>8, <1>13, <1>14 DEF Sound, Nested, Bottom, AfterCall
<1> QED
  BY <1>1, <1>8, <1>9, <1>10, <1>11, <1>12, <1>15 DEF StackInv, Bottom

\* Without a handler the return address is popped, and the registers stay.
LEMMA NoHandlerKeeps ==
  ASSUME StackInv, OneTrap', NEW v \in Vecs, NoHandler(v)
  PROVE  StackInv'
<1>1. /\ Ready /\ su /\ pc \in {"uspace_fault", "uspace_break"} /\ seg4
      /\ pc \in HandlerCode
      /\ pc' \in {"fault_stop", "break_trap"} /\ pc' \in HandlerCode
      /\ a7' = a7 - CallSize
      /\ UNCHANGED <<pending, su, ssp, kmem, uvec, seg4, forks, saved, unserved, halted>>
  BY DEF NoHandler, Handler, LooksAt, ReturnAt, HandlerCode
<1>2. Sound /\ a7 \in Nat /\ ~halted /\ Bottom \in Nat /\ Base(pc, a7) >= Bottom
  BY <1>1, ReadyIsSound
<1>3. Base(pc', a7') = Base(pc, a7) /\ a7' \in Nat /\ a7' <= a7
  BY <1>1, <1>2 DEF Base, Pushed, RegsSize, CallSize, FrameSize
<1>4. Held(kmem, Bottom, pc', a7')
  BY <1>1, <1>2, <1>3 DEF Sound, Held
<1>5. FramesOK(kmem, Bottom, seg4, a7')
  BY <1>2, <1>3 DEF Sound, FramesOK, IsFrame, StackInv, LayoutOK
<1>6. Sound'
  BY <1>1, <1>2, <1>4, <1>5 DEF Sound, Nested, Bottom
<1>7. TypeOK'
  BY <1>1, <1>3 DEF StackInv, TypeOK
<1> QED
  BY <1>1, <1>3, <1>6, <1>7 DEF StackInv, Bottom

\* After break_vec's call has returned the registers lie on the frame, so that rte
\* finds none under the stack pointer; elsewhere it does.
LEMMA ReturnFinds ==
  ASSUME StackInv, Returning
  PROVE  pc = "rte" <=> FramesUnder # {}
<1>1. pc \in {"rte", "break_rte"} /\ pc \in HandlerCode /\ Ready /\ su
  BY DEF Returning, HandlerCode
<1>2. PICK f \in kmem : f.at = Base(pc, a7) /\ f.size = FrameSize
  BY <1>1, FrameUnderStackPointer
<1>3. a7 \in Nat
  BY <1>1, ReadyIsSound
<1>4. CASE pc = "rte"
  BY <1>2, <1>3, <1>4 DEF FramesUnder, Base, Pushed, FrameSize
<1>5. CASE pc = "break_rte"
  <2>1. f.at = a7 - RegsSize - FrameSize
    BY <1>2, <1>5 DEF Base, Pushed
  <2>2. \A x \in FramesUnder : x \in kmem /\ x # f /\ Overlap(x, f)
    BY <1>2, <1>3, <2>1 DEF FramesUnder, Overlap, FrameSize, RegsSize
  <2> QED
    BY <1>2, <1>5, <2>2 DEF StackInv, LayoutOK
<1> QED
  BY <1>1, <1>4, <1>5

LEMMA RteIsBalanced == StackInv /\ Rte => pc = "rte"
BY ReturnFinds DEF Rte

LEMMA MisreadIsBreak == StackInv /\ RteMisread => pc = "break_rte"
BY ReturnFinds DEF RteMisread, Returning

\* break_vec's rte loses its frame, the only one, and leaves ssp above the registers.
LEMMA MisreadKeeps ==
  ASSUME StackInv, OneTrap', RteMisread
  PROVE  StackInv' /\ ssp' = Bottom' /\ Bottom' = Bottom + RegsSize
<1>1. Ready /\ su /\ pc = "break_rte" /\ pc \in HandlerCode
  BY MisreadIsBreak DEF RteMisread, Returning, HandlerCode
<1>2. Sound /\ a7 \in Nat /\ ~halted /\ pending = {} /\ Bottom \in Nat
  BY <1>1, ReadyIsSound
<1>3. PICK f \in kmem : /\ f.at = Base(pc, a7) /\ FrameOK(kmem, Bottom, seg4, f)
  BY <1>1, FrameUnderStackPointer
<1>4. f.at = Bottom
  BY <1>1, <1>2, <1>3 DEF Sound, AfterCall, FrameOK
<1>5. /\ su' \in BOOLEAN /\ pc' \in UserCode /\ a7' = -1 /\ ssp' = a7 - FrameSize
      /\ unserved' = unserved + 1
      /\ UNCHANGED <<pending, kmem, uvec, seg4, forks, saved, halted>>
  BY DEF RteMisread
<1>6. unserved \in Nat /\ forks \in Nat
  BY TrapAssumption DEF StackInv, TypeOK
<1>7. Bottom' = Bottom + RegsSize
  BY <1>5, <1>6 DEF Bottom, ContextStep, RegsSize
<1>8. ssp' = Bottom' /\ ssp' \in Nat
  BY <1>1, <1>2, <1>3, <1>4, <1>5, <1>7 DEF Base, Pushed, RegsSize, FrameSize
<1>9. ContextsIn(kmem', saved', Bottom')
  BY <1>2, <1>5, <1>7 DEF StackInv, ContextsIn, RegsSize, ContextStep
<1>10. TypeOK'
  <2>1. unserved' \in Nat /\ a7' \in Nat \cup {-1} /\ pc' \in UserCode \cup HandlerCode
    BY <1>5, <1>6
  <2>2. /\ pending' \subseteq Traps /\ uvec' \in [Vecs -> Handlers]
        /\ forks' \in 0 .. MaxForks /\ saved' \subseteq Nat
        /\ \A x \in kmem' : x.at \in 0 .. MemTop /\ Fits(x)
    BY <1>5 DEF StackInv, TypeOK
  <2>3. su' \in BOOLEAN /\ seg4' \in BOOLEAN /\ halted' \in BOOLEAN
    BY <1>5, Zenon DEF StackInv, TypeOK
  <2> QED
    BY <1>8, <2>1, <2>2, <2>3, Zenon DEF TypeOK
<1>11. su' => Astray'
  BY <1>2, <1>5 DEF Astray
<1>12. LayoutOK(kmem') /\ IsFiniteSet(saved') /\ Cardinality(saved') = forks'
  BY <1>5 DEF StackInv
<1> QED
  BY <1>5, <1>7, <1>8, <1>9, <1>10, <1>11, <1>12 DEF StackInv

\* RTE goes back to the program with nothing on the stack, or to a handler whose own
\* frame lies below.
LEMMA RteKeeps ==
  ASSUME StackInv, OneTrap', Rte
  PROVE  StackInv'
<1>1. Ready /\ su /\ pc = "rte" /\ pc \in HandlerCode
  BY RteIsBalanced DEF Rte, Returning, HandlerCode
<1>2. Sound /\ a7 \in Nat /\ ~halted /\ pending = {}
  BY <1>1, ReadyIsSound
<1>3. PICK f \in kmem : /\ f.at = Base(pc, a7) /\ f.at >= Bottom /\ f.at < a7
                        /\ f.size = FrameSize
                        /\ FrameOK(kmem, Bottom, seg4, f)
                        /\ \A x \in kmem : x.at = f.at => x = f
  BY <1>1, FrameUnderStackPointer
<1>4. f.at = a7 - FrameSize /\ f \in FrameSet
  BY <1>1, <1>2, <1>3 DEF Base, Pushed, FrameSize, FrameOK
<1>5. /\ su' = f.su /\ pc' = f.pc /\ a7' = f.a7 /\ ssp' = f.at
      /\ UNCHANGED <<pending, kmem, uvec, seg4, forks, saved, unserved, halted>>
  <2>1. FramesUnder = {f}
    BY <1>3, <1>4 DEF FramesUnder
  <2> QED
    BY <1>4, <2>1 DEF Rte, FrameSet, FrameSize
<1>6. TypeOK'
  <2>1. su' \in BOOLEAN
    BY <1>4, <1>5 DEF FrameSet
  <2>2. seg4' \in BOOLEAN /\ halted' \in BOOLEAN
    BY <1>5, Zenon DEF StackInv, TypeOK
  <2>3. ssp' \in Nat /\ a7' \in Nat \cup {-1} /\ pc' \in UserCode \cup HandlerCode
    BY <1>4, <1>5 DEF FrameSet
  <2> QED
    BY <1>5, <2>1, <2>2, <2>3 DEF StackInv, TypeOK
<1>7. Bottom' = Bottom
  BY <1>5 DEF Bottom
<1>8. /\ LayoutOK(kmem') /\ ContextsIn(kmem', saved', Bottom')
      /\ IsFiniteSet(saved') /\ Cardinality(saved') = forks'
  BY <1>5, <1>7 DEF StackInv
<1>9. CASE ~f.su
  BY <1>3, <1>5, <1>6, <1>7, <1>8, <1>9 DEF StackInv, FrameOK
<1>10. CASE f.su
  <2>1. f.a7 = f.at /\ f.at \in Nat /\ Held(kmem, Bottom, f.pc, f.at) /\ a7' < a7
    BY <1>3, <1>4, <1>5, <1>10 DEF FrameOK, FrameSet
  <2>2. FramesOK(kmem, Bottom, seg4, f.at)
    <3> SUFFICES ASSUME NEW h \in kmem, IsFrame(h, Bottom, f.at)
                 PROVE  FrameOK(kmem, Bottom, seg4, h)
      BY DEF FramesOK
    <3>1. IsFrame(h, Bottom, a7)
      BY <1>2, <1>3, <2>1 DEF IsFrame, StackInv, LayoutOK
    <3> QED
      BY <1>2, <3>1 DEF Sound, FramesOK
  <2>3. Sound'
    BY <1>2, <1>3, <1>5, <1>7, <1>10, <2>1, <2>2 DEF Sound, Nested, FrameOK
  <2> QED
    BY <1>5, <1>6, <1>7, <1>8, <1>10, <2>1, <2>3 DEF StackInv
<1> QED
  BY <1>9, <1>10

\* oscall is only ever called by the program.
LEMMA CallIsFromUser ==
  ASSUME StackInv, ~halted, TRAP15 \in pending
  PROVE  ~su
BY DEF StackInv, Astray, Doomed, Sound, Nested, TRAP14, TRAP15, eFAULT

\* fork leaves one more context, and an empty stack above it.
LEMMA ForkKeeps ==
  ASSUME StackInv, OneTrap', CallForks
  PROVE  StackInv'
<1> DEFINE x == Context(ssp, pc)
<1>1. ~su /\ ssp = Bottom /\ a7 = -1 /\ pc \in UserCode
  <2>1. ~su
    BY CallIsFromUser DEF CallForks, Taken
  <2> QED
    BY <2>1 DEF StackInv
<1>2. x.at = ssp /\ x.size = ContextSize
  BY DEF Context
<1> HIDE DEF x
<1>3. /\ kmem' = Written(kmem, x) /\ Fits(x)
      /\ ssp' = ssp + ContextStep /\ forks' = forks + 1 /\ forks < MaxForks
      /\ seg4' = TRUE /\ uvec' \in [Vecs -> Handlers] /\ pending' \subseteq pending
      /\ saved' = saved \cup {ssp}
      /\ UNCHANGED <<su, pc, a7, unserved, halted>>
  BY DEF CallForks, Write, Written, Taken, x
<1>4. ssp \in Nat /\ forks \in Nat /\ MaxForks \in Nat /\ unserved \in Nat
  BY TrapAssumption DEF StackInv, TypeOK
<1>5. LayoutOK(kmem') /\ x \in kmem'
  BY <1>2, <1>3, <1>4, WrittenLayout DEF StackInv, ContextSize
<1>6. ssp' = Bottom' /\ Bottom' = Bottom + ContextStep /\ Bottom \in Nat
  BY <1>1, <1>3, <1>4 DEF Bottom, ContextStep, RegsSize
<1>7. ContextsIn(kmem', saved', Bottom')
  <2>1. ContextsIn(kmem', saved, Bottom)
    BY <1>1, <1>2, <1>3, <1>4, <1>6, WrittenContexts DEF StackInv
  <2>2. /\ ssp \in Nat /\ ssp + ContextStep <= Bottom'
        /\ \E y \in kmem' : y.at = ssp /\ y.size = ContextSize
    BY <1>1, <1>2, <1>4, <1>5, <1>6 DEF ContextStep
  <2> QED
    BY <1>3, <1>6, <2>1, <2>2 DEF ContextsIn, ContextStep
<1>7a. IsFiniteSet(saved') /\ Cardinality(saved') = forks'
  <2>1. ssp \notin saved
    BY <1>1, <1>4 DEF StackInv, ContextsIn, ContextStep
  <2>2. IsFiniteSet(saved) /\ Cardinality(saved) = forks
    BY DEF StackInv
  <2> QED
    BY <1>3, <2>1, <2>2, FS_AddElement
<1>8. TypeOK'
  <2>1. su' \in BOOLEAN /\ seg4' \in BOOLEAN /\ halted' \in BOOLEAN
    BY <1>3, Zenon DEF StackInv, TypeOK
  <2>2. uvec' \in [Vecs -> Handlers]
    BY <1>3
  <2>3. ssp' \in Nat /\ forks' \in 0 .. MaxForks /\ saved' \subseteq Nat
    BY <1>3, <1>4 DEF ContextStep, StackInv, TypeOK
  <2> QED
    BY <1>3, <1>5, <2>1, <2>2, <2>3 DEF StackInv, TypeOK, LayoutOK
<1> QED
  BY <1>1, <1>3, <1>5, <1>6, <1>7, <1>7a, <1>8 DEF StackInv

\* What every step does to the types when it leaves the stack alone.
LEMMA QuietTypes ==
  ASSUME StackInv, UNCHANGED <<su, a7, ssp, kmem, forks, saved, unserved>>,
         pending' \subseteq Traps,
         pc' \in UserCode \cup HandlerCode, uvec' \in [Vecs -> Handlers],
         seg4' \in BOOLEAN, halted' \in BOOLEAN
  PROVE  TypeOK'
BY Zenon DEF StackInv, TypeOK

LEMMA TakeTrapKeeps ==
  ASSUME StackInv, OneTrap', TakeTrap
  PROVE  StackInv'
<1> USE DEF StackInv, TypeOK
<1>1. CASE Debug
  <2>1. /\ UNCHANGED <<su, pc, a7, ssp, kmem, uvec, seg4, forks, saved, unserved, halted>>
        /\ pending' \subseteq pending /\ TRAP14 \in pending /\ ~halted
    BY <1>1 DEF Debug, Taken
  <2>2. TypeOK'
    BY <2>1, QuietTypes
  <2>3. CASE ~su
    BY <2>1, <2>2, <2>3, UserKeeps
  <2>4. CASE su
    <3>1. Sound /\ a7 \in Nat /\ pending \subseteq {TRAP14}
      BY <2>1, <2>4 DEF Astray, Doomed, Sound, Nested, TRAP14, eFAULT
    <3>2. Nested' /\ pc \in HandlerCode /\ (pc \in AfterCall => seg4)
      BY <2>1, <3>1 DEF Nested, Sound, Held
    <3> QED
      BY <2>1, <2>2, <2>4, <3>1, <3>2, HandlerKeeps
  <2> QED
    BY <2>3, <2>4
<1>2. CASE CallReturns \/ CallFaults
  <2>1. ~su
    BY <1>2, CallIsFromUser DEF CallReturns, CallFaults, Taken
  <2>2. /\ UNCHANGED <<su, a7, ssp, kmem, uvec, forks, saved, unserved, halted>>
        /\ pc' \in UserCode
    BY <1>2, <2>1 DEF CallReturns, CallFaults
  <2>3. seg4' \in BOOLEAN
    BY <1>2, Zenon DEF CallReturns, CallFaults
  <2>4. pending' \subseteq Traps
    BY <1>2 DEF CallReturns, CallFaults, Taken, Traps, Faults
  <2>5. TypeOK'
    BY <2>2, <2>3, <2>4, QuietTypes
  <2> QED
    BY <2>1, <2>2, <2>5, UserKeeps
<1> QED
  BY <1>1, <1>2, EnterKeeps, ForkKeeps DEF TakeTrap

LEMMA RunHandlerKeeps ==
  ASSUME StackInv, OneTrap', RunHandler
  PROVE  StackInv'
<1>1. ASSUME NEW v \in Vecs, SaveRegs(v) PROVE StackInv'
  <2>1. /\ Handler(pc) /\ Push(Regs(a7), CallsAt(v)) /\ pc \in {"fault_vec", "break_vec"}
        /\ pc \in HandlerCode
    BY <1>1 DEF SaveRegs, Handler, SavesAt, HandlerCode
  <2>2. CallsAt(v) \in HandlerCode \ AfterCall /\ Pushed(CallsAt(v)) = Pushed(pc) + RegsSize
    BY <2>1 DEF CallsAt, HandlerCode, AfterCall, Pushed, RegsSize
  <2>3. Regs(a7).at = a7 /\ Regs(a7).size = RegsSize /\ RegsSize \in Nat \ {0, FrameSize}
    BY DEF Regs, RegsSize, FrameSize
  <2> QED
    BY <2>1, <2>2, <2>3, PushKeeps
<1>2. ASSUME NEW v \in Vecs, CallUspace(v) PROVE StackInv'
  <2>1. /\ Handler(pc) /\ Push(Call(a7), LooksAt(v)) /\ pc \in {"fault_bsr", "break_bsr"}
        /\ pc \in HandlerCode
    BY <1>2 DEF CallUspace, Handler, CallsAt, HandlerCode
  <2>2. LooksAt(v) \in HandlerCode \ AfterCall /\ Pushed(LooksAt(v)) = Pushed(pc) + CallSize
    BY <2>1 DEF LooksAt, HandlerCode, AfterCall, Pushed, RegsSize, CallSize
  <2>3. Call(a7).at = a7 /\ Call(a7).size = CallSize /\ CallSize \in Nat \ {0, FrameSize}
    BY DEF Call, CallSize, FrameSize
  <2> QED
    BY <2>1, <2>2, <2>3, PushKeeps
<1>3. CASE SetHandler \/ HandlerFaults \/ CallDebugger \/ HandlerStops
  <2>1. Ready /\ su /\ UNCHANGED <<su, a7, ssp, kmem, seg4, forks, saved, unserved>>
    BY <1>3 DEF SetHandler, HandlerFaults, CallDebugger, HandlerStops, Handler
  <2>1a. pc \in HandlerCode
    BY <1>3
      DEF SetHandler, HandlerFaults, CallDebugger, HandlerStops, Handler, HandlerCode
  <2>2. Sound /\ a7 \in Nat /\ pending = {}
    BY <2>1, <2>1a, ReadyIsSound
  <2>3. /\ pc' \in HandlerCode /\ Pushed(pc') = Pushed(pc)
        /\ pc' \in AfterCall => pc \in AfterCall
    BY <1>3, <2>1a
      DEF SetHandler, HandlerFaults, CallDebugger, HandlerStops, Handler, HandlerCode,
          Pushed, AfterCall
  <2>3a. pc' \in AfterCall => seg4
    BY <2>2, <2>3 DEF Sound
  <2>4. Nested' /\ pending' \subseteq Traps
    BY <1>3, <2>2
      DEF SetHandler, HandlerFaults, CallDebugger, HandlerStops, Throws, Nested, Traps, Faults
  <2>5. seg4' \in BOOLEAN /\ halted' \in BOOLEAN
    BY <1>3, Zenon
      DEF SetHandler, HandlerFaults, CallDebugger, HandlerStops, StackInv, TypeOK
  <2>5a. uvec' \in [Vecs -> Handlers]
    BY <1>3
      DEF SetHandler, HandlerFaults, CallDebugger, HandlerStops, StackInv, TypeOK
  <2>6. TypeOK'
    BY <2>1, <2>3, <2>4, <2>5, <2>5a, QuietTypes
  <2> QED
    BY <2>1, <2>2, <2>3, <2>3a, <2>4, <2>6, HandlerKeeps
<1> QED
  BY <1>1, <1>2, <1>3, RedirectKeeps, NoHandlerKeeps, RteKeeps, MisreadKeeps DEF RunHandler

LEMMA RunUserKeeps ==
  ASSUME StackInv, OneTrap', RunUser
  PROVE  StackInv'
<1>1. ~su /\ pc \in UserCode /\ pending = {}
  BY DEF RunUser, UserTraps, UserFaults, UserJumps, UserStops, User, Ready, StackInv
<1>2. /\ UNCHANGED <<su, a7, ssp, kmem, uvec, seg4, forks, saved, unserved>>
      /\ pc' \in UserCode
  BY <1>1 DEF RunUser, UserTraps, UserFaults, UserJumps, UserStops, UserCode
<1>3. pending' \subseteq Traps
  BY <1>1 DEF RunUser, UserTraps, UserFaults, UserJumps, UserStops, Throws
<1>4. seg4' \in BOOLEAN /\ halted' \in BOOLEAN
  BY Zenon DEF RunUser, UserTraps, UserFaults, UserJumps, UserStops, StackInv, TypeOK
<1>5. TypeOK'
  <2>1. uvec' \in [Vecs -> Handlers]
    BY <1>2 DEF StackInv, TypeOK
  <2> QED
    BY <1>2, <1>3, <1>4, <2>1, QuietTypes
<1> QED
  BY <1>1, <1>2, <1>5, UserKeeps

LEMMA NextStackInv == StackInv /\ [Next]_vars => StackInv'
<1> SUFFICES ASSUME StackInv, [Next]_vars PROVE StackInv'
  OBVIOUS
<1>1. OneTrap'
  BY NextOneTrap DEF StackInv
<1>2. CASE UNCHANGED vars
  <2>1. UNCHANGED <<pending, su, pc, a7, ssp, kmem, uvec, seg4, forks, saved, unserved, halted>>
    BY <1>2 DEF vars
  <2>2. TypeOK'
    BY <2>1, Zenon DEF StackInv, TypeOK
  <2>3. Doomed' = Doomed /\ Sound' = Sound /\ Astray' = Astray /\ Bottom' = Bottom
    BY <2>1 DEF Doomed, Sound, Nested, Bottom, Astray
  <2> QED
    BY <1>1, <2>1, <2>2, <2>3, Zenon DEF StackInv
<1> QED
  BY <1>1, <1>2, TakeTrapKeeps, RunHandlerKeeps, RunUserKeeps DEF Next

LEMMA StackInvHolds == Spec => []StackInv
BY InitStackInv, NextStackInv, PTL DEF Spec

\* The trap unit's state is well formed, for every size of memory: what the kernel
\* stack holds lies in memory, however deep the faults of handlers nest.
THEOREM TrapTypeCorrect == Spec => []TypeOK
<1>1. StackInv => TypeOK
  BY DEF StackInv
<1> QED
  BY <1>1, StackInvHolds, PTL

\* Whenever user code runs the kernel stack is empty above the contexts fork has
\* saved and the ten bytes of each breakpoint that found no handler: all other
\* handlers, and RTE, give back what they took.
THEOREM StackIsBalanced == Spec => []UserStackIsBalanced
<1>1. StackInv => UserStackIsBalanced
  BY DEF StackInv, UserStackIsBalanced
<1> QED
  BY <1>1, StackInvHolds, PTL

\* The contexts that fork has saved are not touched by what the processes after it do
\* on the same stack.
THEOREM ContextsSurvive == Spec => []ContextsAreIntact
<1>1. StackInv => ContextsAreIntact
  BY DEF StackInv, ContextsAreIntact, ContextsIn
<1> QED
  BY <1>1, StackInvHolds, PTL

-----------------------------------------------------------------------------
(* A set of frames as a sequence, in the order of their addresses *)

Below(F, f) == {g \in F : g.at < f.at}

NthIn(F, i) == {f \in F : Cardinality(Below(F, f)) = i - 1}

InOrder(F) ==
  [i \in 1 .. Cardinality(F) |->
     <<(CHOOSE f \in NthIn(F, i) : TRUE).su, (CHOOSE f \in NthIn(F, i) : TRUE).pc>>]

\* A frame above all the others is the last, and leaves their places alone.
LEMMA TopIsLast ==
  ASSUME NEW F, IsFiniteSet(F), \A f \in F : f.at \in Nat,
         NEW x, x.at \in Nat, \A f \in F : f.at < x.at
  PROVE  /\ Cardinality(F) \in Nat /\ Cardinality(F \cup {x}) = Cardinality(F) + 1
         /\ \A i \in 1 .. Cardinality(F) : NthIn(F \cup {x}, i) = NthIn(F, i)
         /\ NthIn(F \cup {x}, Cardinality(F) + 1) = {x}
<1> DEFINE n == Cardinality(F)
<1>1. x \notin F
  OBVIOUS
<1>2. n \in Nat /\ Cardinality(F \cup {x}) = n + 1
  BY <1>1, FS_CardinalityType, FS_AddElement
<1>3. Below(F \cup {x}, x) = F
  BY DEF Below
<1>4. ASSUME NEW f \in F
      PROVE  /\ Below(F \cup {x}, f) = Below(F, f)
             /\ Cardinality(Below(F, f)) \in Nat /\ Cardinality(Below(F, f)) < n
  <2>1. Below(F \cup {x}, f) = Below(F, f)
    BY DEF Below
  <2>2. Below(F, f) \in SUBSET F /\ f \notin Below(F, f) /\ Below(F, f) # F
    BY DEF Below
  <2>3. /\ IsFiniteSet(Below(F, f)) /\ Cardinality(Below(F, f)) <= n
        /\ Cardinality(Below(F, f)) # n
    BY <2>2, FS_Subset
  <2>4. Cardinality(Below(F, f)) \in Nat
    BY <2>3, FS_CardinalityType
  <2>5. QED
    BY <1>2, <2>1, <2>3, <2>4
<1> HIDE DEF n
<1>5. ASSUME NEW i \in 1 .. n PROVE NthIn(F \cup {x}, i) = NthIn(F, i)
  <2>1. x \notin NthIn(F \cup {x}, i)
    BY <1>2, <1>3 DEF NthIn, n
  <2>2. QED
    BY <1>4, <2>1 DEF NthIn
<1>6. NthIn(F \cup {x}, n + 1) = {x}
  <2>1. x \in NthIn(F \cup {x}, n + 1)
    BY <1>2, <1>3 DEF NthIn, n
  <2>2. \A f \in F : f \notin NthIn(F \cup {x}, n + 1)
    BY <1>2, <1>4 DEF NthIn
  <2>3. QED
    BY <2>1, <2>2 DEF NthIn
<1>7. QED
  BY <1>2, <1>5, <1>6 DEF n

LEMMA TopIsAppended ==
  ASSUME NEW F, IsFiniteSet(F), \A f \in F : f.at \in Nat,
         NEW x, x.at \in Nat, \A f \in F : f.at < x.at
  PROVE  /\ InOrder(F \cup {x}) = Append(InOrder(F), <<x.su, x.pc>>)
         /\ Len(InOrder(F)) = Cardinality(F)
         /\ InOrder(F) = SubSeq(InOrder(F \cup {x}), 1, Len(InOrder(F)))
         /\ Len(InOrder(F \cup {x})) = Len(InOrder(F)) + 1 /\ Len(InOrder(F)) \in Nat
         /\ InOrder(F \cup {x})[Len(InOrder(F)) + 1] = <<x.su, x.pc>>
<1> DEFINE n == Cardinality(F)
           G == F \cup {x}
           at(S, i) == <<(CHOOSE f \in NthIn(S, i) : TRUE).su,
                         (CHOOSE f \in NthIn(S, i) : TRUE).pc>>
<1>1. /\ n \in Nat /\ Cardinality(G) = n + 1
      /\ \A i \in 1 .. n : NthIn(G, i) = NthIn(F, i)
      /\ NthIn(G, n + 1) = {x}
  BY TopIsLast
<1>2. InOrder(F) = [i \in 1 .. n |-> at(F, i)] /\ InOrder(G) = [i \in 1 .. n + 1 |-> at(G, i)]
  BY <1>1 DEF InOrder
<1>3. \A i \in 1 .. n : at(G, i) = at(F, i)
  BY <1>1
<1>4. at(G, n + 1) = <<x.su, x.pc>>
  BY <1>1
<1> HIDE DEF at, G, n
<1>5. /\ InOrder(F) \in Seq({at(F, i) : i \in 1 .. n}) /\ Len(InOrder(F)) = n
      /\ InOrder(G) \in Seq({at(G, i) : i \in 1 .. n + 1}) /\ Len(InOrder(G)) = n + 1
  BY <1>1, <1>2
<1>6. InOrder(G) = Append(InOrder(F), <<x.su, x.pc>>)
  BY <1>1, <1>2, <1>3, <1>4, <1>5
<1>7. InOrder(F) = SubSeq(InOrder(G), 1, n)
  BY <1>1, <1>2, <1>3, <1>5
<1>8. InOrder(G)[n + 1] = <<x.su, x.pc>>
  BY <1>1, <1>2, <1>4
<1>9. QED
  BY <1>1, <1>5, <1>6, <1>7, <1>8 DEF G, n

LEMMA OnlyInOrder ==
  ASSUME NEW x \in FrameSet
  PROVE  InOrder({x}) = << <<x.su, x.pc>> >>
<1>1. x.at \in Nat /\ IsFiniteSet({}) /\ Cardinality({}) = 0
  BY FS_EmptySet DEF FrameSet
<1>2. InOrder({} \cup {x}) = Append(InOrder({}), <<x.su, x.pc>>)
  BY <1>1, TopIsAppended
<1>3. InOrder({}) = << >>
  BY <1>1 DEF InOrder
<1>4. {} \cup {x} = {x}
  OBVIOUS
<1>5. Append(<< >>, <<x.su, x.pc>>) = << <<x.su, x.pc>> >>
  OBVIOUS
<1>6. QED
  BY <1>2, <1>3, <1>4, <1>5, Zenon

-----------------------------------------------------------------------------
(* The frames in memory are the stack of ExceptionStack *)

\* The frames between the bottom of the stack and a stack pointer.
Framed(m, b, sp) == {f \in m : f.size = FrameSize /\ f.at >= b /\ f.at + FrameSize <= sp}

Sp == IF su THEN a7 ELSE ssp

BarFrames == [i \in 1 .. Cardinality(FramesInMemory) |->
                <<NthFrame(i).su, NthFrame(i).pc>>]

LEMMA BarFramesAre ==
  /\ BarFrames = InOrder(Framed(kmem, Bottom, Sp))
  /\ BarFrames' = InOrder(Framed(kmem', Bottom', Sp'))
<1>1. FramesInMemory = Framed(kmem, Bottom, Sp)
  BY DEF FramesInMemory, Framed, Sp
<1>2. FramesInMemory' = Framed(kmem', Bottom', Sp')
  BY DEF FramesInMemory, Framed, Sp
<1>3. ASSUME NEW i
      PROVE  /\ Nth(i) = NthIn(FramesInMemory, i)
             /\ Nth(i)' = NthIn(FramesInMemory', i)
  BY DEF Nth, NthIn, Below
<1>4. ASSUME NEW i
      PROVE  /\ NthFrame(i) = CHOOSE f \in NthIn(FramesInMemory, i) : TRUE
             /\ NthFrame(i)' = CHOOSE f \in NthIn(FramesInMemory', i) : TRUE
  BY <1>3 DEF NthFrame
<1>5. BarFrames = InOrder(FramesInMemory)
  BY <1>4 DEF BarFrames, InOrder
<1>6. BarFrames' = InOrder(FramesInMemory')
  BY <1>4 DEF BarFrames, InOrder
<1>7. QED
  BY <1>1, <1>2, <1>5, <1>6

\* uspace_vec exchanges the only frame for one that returns elsewhere.
LEMMA RedirectSwaps ==
  ASSUME StackInv, NEW v \in Vecs, Redirect(v)
  PROVE  \E f \in kmem : \E g \in FrameSet :
           /\ f \in FrameSet /\ f.at = Bottom
           /\ a7 = f.at + FrameSize + CallSize + RegsSize
           /\ a7' = f.at + FrameSize /\ su /\ su' = su /\ pc' = "rte"
           /\ g.at = f.at /\ g.su = f.su /\ g.pc = uvec[v]
           /\ kmem' = (kmem \ {f}) \cup {g}
<1>1. /\ Ready /\ su /\ pc \in {"uspace_fault", "uspace_break"} /\ seg4
      /\ pc \in HandlerCode /\ uvec[v] \in UserCode
  BY DEF Redirect, Handler, LooksAt, HandlerCode, StackInv, TypeOK, Handlers
<1>2. Sound /\ a7 \in Nat
  BY <1>1, ReadyIsSound
<1>3. PICK f \in kmem : /\ f.at = Base(pc, a7) /\ f.at >= Bottom /\ f.at < a7
                        /\ f.size = FrameSize
                        /\ FrameOK(kmem, Bottom, seg4, f)
                        /\ \A x \in kmem : x.at = f.at => x = f
  BY <1>1, FrameUnderStackPointer
<1> DEFINE g == [f EXCEPT !.pc = uvec[v]]
<1>4. /\ f \in FrameSet /\ f.at = Bottom /\ f.at \in Nat
      /\ f.at = a7 - CallSize - RegsSize - FrameSize
      /\ a7 = f.at + FrameSize + CallSize + RegsSize
  BY <1>1, <1>2, <1>3 DEF FrameOK, Base, Pushed, FrameSize, RegsSize, CallSize, FrameSet
<1>5. g \in FrameSet /\ g.at = f.at /\ g.su = f.su /\ g.pc = uvec[v]
  BY <1>1, <1>4 DEF FrameSet
<1>6. {x \in kmem : x.at = a7 - CallSize - RegsSize - FrameSize} = {f}
  BY <1>3, <1>4
<1>7. kmem' = (kmem \ {f}) \cup {g}
  BY <1>6 DEF Redirect
<1> HIDE DEF g
<1>8. a7' = f.at + FrameSize /\ su' = su /\ pc' = "rte"
  BY <1>2, <1>4 DEF Redirect, FrameSize, CallSize, RegsSize
<1>9. QED
  BY <1>1, <1>4, <1>5, <1>7, <1>8

\* The memory of the kernel stack holds finitely many things.
LEMMA NextFinite == StackInv /\ IsFiniteSet(kmem) /\ [Next]_vars => IsFiniteSet(kmem')
<1> SUFFICES ASSUME StackInv, IsFiniteSet(kmem), [Next]_vars PROVE IsFiniteSet(kmem')
  OBVIOUS
<1>1. ASSUME NEW x, Write(x) PROVE IsFiniteSet(kmem')
  <2>1. {y \in kmem : ~Overlap(x, y)} \in SUBSET kmem
    OBVIOUS
  <2>2. IsFiniteSet({y \in kmem : ~Overlap(x, y)})
    BY <2>1, FS_Subset
  <2>3. QED
    BY <1>1, <2>2, FS_AddElement DEF Write
<1>2. ASSUME UNCHANGED kmem PROVE IsFiniteSet(kmem')
  BY <1>2
<1>3. ASSUME NEW v \in Vecs, Redirect(v) PROVE IsFiniteSet(kmem')
  <2>1. PICK f, g : kmem' = (kmem \ {f}) \cup {g}
    BY <1>3, RedirectSwaps
  <2>2. IsFiniteSet(kmem \ {f})
    <3>1. kmem \ {f} \in SUBSET kmem
      OBVIOUS
    <3>2. QED
      BY <3>1, FS_Subset
  <2>3. IsFiniteSet((kmem \ {f}) \cup {g})
    BY <2>2, FS_AddElement
  <2>4. QED
    BY <2>1, <2>3
<1>4. ASSUME NEW t \in Traps, Enter(t) PROVE IsFiniteSet(kmem')
  BY <1>1, <1>2, <1>4 DEF Enter
<1>5. ASSUME NEW x, NEW next, Push(x, next) PROVE IsFiniteSet(kmem')
  BY <1>1, <1>2, <1>5 DEF Push
<1>6. CASE TakeTrap
  BY <1>1, <1>2, <1>4, <1>6 DEF TakeTrap, Debug, CallReturns, CallFaults, CallForks
<1>7. CASE RunHandler
  BY <1>2, <1>3, <1>5, <1>7
     DEF RunHandler, SaveRegs, CallUspace, NoHandler, SetHandler, HandlerFaults, Rte,
         RteMisread, CallDebugger, HandlerStops
<1>8. CASE RunUser
  BY <1>2, <1>8 DEF RunUser, UserTraps, UserFaults, UserJumps, UserStops
<1>9. QED
  BY <1>2, <1>6, <1>7, <1>8 DEF Next, vars

\* A write at the stack pointer leaves the frames below it alone.
LEMMA WrittenFramed ==
  ASSUME NEW m, LayoutOK(m), NEW b \in Nat, NEW sp \in Nat, NEW x, x.at = sp,
         x.size \in 1 .. FrameSize
  PROVE  Framed(Written(m, x), b, sp + x.size) =
           Framed(m, b, sp) \cup IF x.size = FrameSize /\ b <= sp THEN {x} ELSE {}
<1>1. ASSUME NEW f \in m, f.size = FrameSize
      PROVE  f.at \in Nat /\ f.size \in Nat
             /\ (f.at + FrameSize <= sp <=> ~Overlap(x, f) /\ f.at + FrameSize <= sp + x.size)
  BY <1>1 DEF LayoutOK, Overlap, FrameSize
<1>2. \A f \in m : f.size = FrameSize /\ f.at + FrameSize <= sp => f # x
  BY <1>1 DEF FrameSize
<1>3. x.at + FrameSize <= sp + x.size <=> x.size = FrameSize
  BY DEF FrameSize
<1>4. QED
  BY <1>1, <1>2, <1>3 DEF Framed, Written

\* The frames lie at numbers, in order, and are as many as their sequence is long.
LEMMA FramedIsOrdered ==
  ASSUME NEW m, LayoutOK(m), IsFiniteSet(m), NEW b, NEW sp
  PROVE  /\ IsFiniteSet(Framed(m, b, sp))
         /\ \A f \in Framed(m, b, sp) : f.at \in Nat
<1>1. Framed(m, b, sp) \in SUBSET m
  BY DEF Framed
<1>2. QED
  BY <1>1, FS_Subset DEF LayoutOK

\* Steps that change neither the frames nor the mode.
LEMMA Proceeds ==
  ASSUME Framed(kmem', Bottom', Sp') = Framed(kmem, Bottom, Sp), su' = su,
         pc' \in UserCode \cup HandlerCode
  PROVE  Stack!Proceed
<1>1. BarFrames' = BarFrames
  BY BarFramesAre
<1>2. <<su, pc>>' \in {<<(<<su, pc>>)[1], p>> : p \in UserCode \cup HandlerCode}
  OBVIOUS
<1>3. QED
  BY <1>1, <1>2 DEF Stack!Proceed, BarFrames

LEMMA QuietProceeds ==
  ASSUME UNCHANGED <<su, a7, ssp, kmem, forks, unserved>>, pc' \in UserCode \cup HandlerCode
  PROVE  Stack!Proceed
<1>1. Framed(kmem', Bottom', Sp') = Framed(kmem, Bottom, Sp)
  BY DEF Bottom, Sp
<1>2. QED
  BY <1>1, Proceeds

LEMMA EnterSteps ==
  ASSUME StackInv, IsFiniteSet(kmem), NEW t \in Traps, Enter(t)
  PROVE  Stack!Interrupt \/ Stack!DoubleFault
<1> DEFINE frame == Frame(Sp, su, pc, a7)
           F == Framed(kmem, Bottom, Sp)
<1>1. /\ Sp \in Nat /\ Bottom \in Nat /\ forks' = forks /\ unserved' = unserved
      /\ Sp + FrameSize <= MemTop => Bottom <= Sp
  <2>1. Bottom \in Nat /\ ssp \in Nat /\ ~halted /\ t \in pending
    BY TrapAssumption
       DEF StackInv, TypeOK, Enter, Taken, Bottom, ContextStep, RegsSize
  <2>2. CASE ~su
    BY <2>1, <2>2 DEF Sp, StackInv, Enter
  <2>3. CASE su
    <3>1. a7 \in Nat /\ (Doomed \/ Sound)
      BY <2>1, <2>3 DEF StackInv, Astray
    <3>2. CASE Sound
      BY <2>1, <2>3, <3>1, <3>2
         DEF Sound, Held, Base, Pushed, FrameSize, RegsSize, CallSize, Sp, Enter
    <3>3. CASE Doomed
      BY <2>1, <2>3, <3>1, <3>3, TrapAssumption DEF Doomed, Sp, FrameSize, Enter
    <3>4. QED
      BY <3>1, <3>2, <3>3
  <2>4. QED
    BY <2>2, <2>3
<1>2. /\ frame.at = Sp /\ frame.size = FrameSize /\ frame.su = su /\ frame.pc = pc
      /\ FrameSize \in 1 .. FrameSize /\ FrameSize \in Nat
  BY DEF Frame, FrameSize
<1> HIDE DEF frame
<1>3. CASE Fits(frame)
  <2>1. /\ kmem' = Written(kmem, frame) /\ su' = TRUE /\ pc' = Vector(t)
        /\ a7' = Sp + FrameSize /\ t \notin {TRAP14, TRAP15}
    BY <1>2, <1>3 DEF Enter, Write, Written, Sp, frame
  <2>2. Framed(kmem', Bottom', Sp') = F \cup {frame}
    <3>1. Bottom <= Sp
      BY <1>1, <1>2, <1>3 DEF Fits
    <3>2. Bottom' = Bottom /\ Sp' = Sp + frame.size
      BY <1>1, <1>2, <2>1 DEF Bottom, Sp
    <3>3. QED
      BY <1>1, <1>2, <2>1, <3>1, <3>2, WrittenFramed DEF StackInv
  <2>3. IsFiniteSet(F) /\ \A f \in F : f.at \in Nat /\ f.at < frame.at
    <3>1. IsFiniteSet(F) /\ \A f \in F : f.at \in Nat
      BY FramedIsOrdered DEF StackInv
    <3>2. QED
      BY <1>1, <1>2, <3>1 DEF Framed, FrameSize
  <2> HIDE DEF F
  <2>4. InOrder(F \cup {frame}) = Append(InOrder(F), <<su, pc>>)
    BY <1>1, <1>2, <2>3, TopIsAppended
  <2>5. BarFrames' = Append(BarFrames, <<su, pc>>)
    BY <2>2, <2>4, BarFramesAre DEF F
  <2>6. pc' \in UserCode \cup HandlerCode
    BY <2>1 DEF Vector, Traps, Faults, HandlerCode, TRAP0, TRAP14, TRAP15, eFAULT, eINVAL,
                ePERM, eACCES, eBREAK
  <2>7. <<su, pc>>' \in {TRUE} \X (UserCode \cup HandlerCode)
    BY <2>1, <2>6
  <2>8. QED
    BY <2>5, <2>7 DEF Stack!Interrupt, BarFrames
<1>4. CASE ~Fits(frame)
  <2>1. UNCHANGED <<kmem, pc>> /\ a7' = Sp /\ su' = TRUE
    BY <1>2, <1>4 DEF Enter, Sp, frame
  <2>2. Framed(kmem', Bottom', Sp') = F
    BY <1>1, <2>1 DEF Sp, Bottom
  <2>3. BarFrames' = BarFrames
    BY <2>2, BarFramesAre
  <2>4. QED
    BY <2>1, <2>3 DEF Stack!DoubleFault, BarFrames
<1>5. QED
  BY <1>3, <1>4

LEMMA PushSteps ==
  ASSUME StackInv, NEW next \in HandlerCode, NEW x, pc \in HandlerCode, Handler(pc), Push(x, next),
         x.at = a7, \/ pc \in {"fault_vec", "break_vec"} /\ x.size = RegsSize
                    \/ pc \in {"fault_bsr", "break_bsr"} /\ x.size = CallSize
  PROVE  Stack!Proceed
<1>1. su /\ Sound /\ a7 \in Nat /\ Bottom \in Nat
  BY ReadyIsSound DEF Handler
<1>2. /\ a7' = a7 + x.size /\ UNCHANGED <<su, ssp, forks, unserved>>
      /\ IF Fits(x) THEN kmem' = Written(kmem, x) /\ pc' = next
         ELSE UNCHANGED <<kmem, pc>>
  BY DEF Push, Write, Written
<1>3. Bottom' = Bottom /\ Sp = a7 /\ Sp' = a7 + x.size
  BY <1>1, <1>2 DEF Sp, Bottom
<1>4. x.size \in 1 .. FrameSize /\ x.size # FrameSize
  BY DEF RegsSize, CallSize, FrameSize
<1>5. CASE Fits(x)
  <2>1. Framed(kmem', Bottom', Sp') = Framed(kmem, Bottom, Sp)
    <3>1. LayoutOK(kmem) /\ x.at = a7 /\ a7 \in Nat /\ Bottom \in Nat
      BY <1>1, <1>3 DEF StackInv
    <3>2. Framed(Written(kmem, x), Bottom, a7 + x.size) =
            Framed(kmem, Bottom, a7) \cup IF x.size = FrameSize /\ Bottom <= a7 THEN {x} ELSE {}
      BY <1>4, <3>1, WrittenFramed
    <3>3. QED
      BY <1>2, <1>3, <1>4, <1>5, <3>2
  <2>2. QED
    BY <1>1, <1>2, <1>5, <2>1, Proceeds
<1>6. CASE ~Fits(x)
  <2>1. PICK h \in kmem : h.at = Base(pc, a7) /\ h.size = FrameSize
    BY <1>1 DEF Sound, Held
  <2>2. ASSUME NEW f \in kmem, f.size = FrameSize, f.at + FrameSize <= a7 + x.size
        PROVE  f.at + FrameSize <= a7
    <3>1. f.at \in Nat /\ Fits(f) /\ (f = h \/ ~Overlap(f, h))
      BY <2>1 DEF StackInv, LayoutOK
    <3>2. QED
      BY <1>1, <1>6, <2>1, <2>2, <3>1, TrapAssumption
         DEF Fits, Overlap, Base, Pushed, FrameSize, RegsSize, CallSize
  <2>3. Framed(kmem, Bottom, a7 + x.size) = Framed(kmem, Bottom, a7)
    <3>1. \A f \in kmem : f.size = FrameSize /\ f.at + FrameSize <= a7
                            => f.at + FrameSize <= a7 + x.size
      BY <1>1, <1>4 DEF StackInv, LayoutOK, FrameSize
    <3>2. QED
      BY <2>2, <3>1 DEF Framed
  <2>4. QED
    BY <1>1, <1>2, <1>3, <1>6, <2>3, Proceeds
<1>7. QED
  BY <1>5, <1>6

LEMMA RedirectSteps ==
  ASSUME StackInv, IsFiniteSet(kmem), NEW v \in Vecs, Redirect(v)
  PROVE  Stack!Divert
<1>1. PICK f \in kmem : \E g \in FrameSet :
           /\ f \in FrameSet /\ f.at = Bottom
           /\ a7 = f.at + FrameSize + CallSize + RegsSize
           /\ a7' = f.at + FrameSize /\ su /\ su' = su /\ pc' = "rte"
           /\ g.at = f.at /\ g.su = f.su /\ g.pc = uvec[v]
           /\ kmem' = (kmem \ {f}) \cup {g}
  BY RedirectSwaps
<1>2. PICK g \in FrameSet :
           /\ f \in FrameSet /\ f.at = Bottom
           /\ a7 = f.at + FrameSize + CallSize + RegsSize
           /\ a7' = f.at + FrameSize /\ su /\ su' = su /\ pc' = "rte"
           /\ g.at = f.at /\ g.su = f.su /\ g.pc = uvec[v]
           /\ kmem' = (kmem \ {f}) \cup {g}
  BY <1>1
<1>3. /\ f.at \in Nat /\ f.size = FrameSize /\ g.at \in Nat /\ g.size = FrameSize
      /\ Bottom \in Nat /\ forks' = forks /\ unserved' = unserved
  BY <1>2 DEF FrameSet, Redirect
<1>4. Bottom' = Bottom /\ Sp = a7 /\ Sp' = f.at + FrameSize
  BY <1>2, <1>3 DEF Bottom, Sp
<1>5. ASSUME NEW h \in kmem, h.size = FrameSize, h.at >= Bottom, h.at + FrameSize <= a7
      PROVE  h = f
  <2>1. h.at \in Nat /\ (h = f \/ ~Overlap(h, f))
    BY DEF StackInv, LayoutOK
  <2>2. QED
    BY <1>2, <1>3, <1>5, <2>1 DEF Overlap, FrameSize, CallSize, RegsSize
<1>6. Framed(kmem, Bottom, Sp) = {f}
  <2>1. f \in Framed(kmem, Bottom, Sp)
    BY <1>2, <1>3, <1>4 DEF Framed, FrameSize, CallSize, RegsSize
  <2>2. QED
    BY <1>4, <1>5, <2>1 DEF Framed
<1>7. Framed(kmem', Bottom', Sp') = {g}
  <2>1. g \in Framed(kmem', Bottom', Sp')
    BY <1>2, <1>3, <1>4 DEF Framed
  <2>2. ASSUME NEW h \in Framed(kmem', Bottom', Sp'), h # g PROVE FALSE
    <3>1. h \in kmem /\ h # f /\ h.size = FrameSize /\ h.at >= Bottom
          /\ h.at + FrameSize <= f.at + FrameSize
      BY <1>2, <1>4, <2>2 DEF Framed
    <3>2. h.at + FrameSize <= a7
      <4>1. h.at \in Nat
        BY <3>1 DEF StackInv, LayoutOK
      <4>2. QED
        BY <1>2, <1>3, <3>1, <4>1 DEF FrameSize, CallSize, RegsSize
    <3>3. QED
      BY <1>5, <3>1, <3>2
  <2>3. QED
    BY <2>1, <2>2
<1>9. BarFrames = << <<f.su, f.pc>> >> /\ BarFrames' = << <<f.su, uvec[v]>> >>
  BY <1>2, <1>6, <1>7, OnlyInOrder, BarFramesAre
<1>10. uvec[v] \in UserCode \cup HandlerCode /\ "rte" \in UserCode \cup HandlerCode
  BY DEF StackInv, TypeOK, HandlerCode, Redirect, Handlers
<1>11. BarFrames # <<>> /\ BarFrames' = [BarFrames EXCEPT ![Len(BarFrames)] = <<@[1], uvec[v]>>]
  BY <1>9
<1>12. <<su, pc>>' \in {<<(<<su, pc>>)[1], p>> : p \in UserCode \cup HandlerCode}
  BY <1>2, <1>10
<1>13. QED
  BY <1>10, <1>11, <1>12 DEF Stack!Divert, BarFrames

LEMMA RteSteps ==
  ASSUME StackInv, IsFiniteSet(kmem), Rte
  PROVE  Stack!Resume
<1>1. Ready /\ su /\ pc = "rte" /\ pc \in HandlerCode
  BY RteIsBalanced DEF Rte, Returning, HandlerCode
<1>2. Sound /\ a7 \in Nat
  BY <1>1, ReadyIsSound
<1>3. PICK f \in kmem : /\ f.at = Base(pc, a7) /\ f.at >= Bottom /\ f.at < a7
                        /\ f.size = FrameSize
                        /\ FrameOK(kmem, Bottom, seg4, f)
                        /\ \A x \in kmem : x.at = f.at => x = f
  BY <1>1, FrameUnderStackPointer
<1>4. f.at = a7 - FrameSize /\ f \in FrameSet /\ f.at \in Nat /\ a7 = f.at + FrameSize
  BY <1>1, <1>2, <1>3 DEF Base, Pushed, FrameSize, FrameOK, FrameSet
<1>5. /\ su' = f.su /\ pc' = f.pc /\ a7' = f.a7 /\ ssp' = f.at
      /\ UNCHANGED <<kmem, forks, unserved>>
  <2>1. FramesUnder = {f}
    BY <1>3, <1>4 DEF FramesUnder
  <2>2. QED
    BY <1>4, <2>1 DEF Rte, FrameSize
<1> DEFINE F == Framed(kmem', Bottom', Sp')
<1>6. Bottom' = Bottom /\ Sp = a7 /\ Sp' = f.at /\ kmem' = kmem
  BY <1>1, <1>3, <1>5 DEF Bottom, Sp, FrameOK
<1>7. Framed(kmem, Bottom, Sp) = F \cup {f}
  <2>1. ASSUME NEW h \in kmem, h.size = FrameSize
        PROVE  h.at + FrameSize <= a7 <=> h = f \/ h.at + FrameSize <= f.at
    <3>1. h.at \in Nat /\ (h = f \/ ~Overlap(h, f))
      BY DEF StackInv, LayoutOK
    <3>2. QED
      BY <1>2, <1>3, <1>4, <2>1, <3>1 DEF Overlap, FrameSize
  <2>2. QED
    BY <1>3, <1>4, <1>6, <2>1 DEF Framed
<1>8. IsFiniteSet(F) /\ \A h \in F : h.at \in Nat /\ h.at < f.at
  <2>1. IsFiniteSet(F) /\ \A h \in F : h.at \in Nat
    BY <1>6, FramedIsOrdered DEF StackInv
  <2>2. QED
    BY <1>4, <1>6, <2>1 DEF Framed, FrameSize
<1> HIDE DEF F
<1>9. /\ Len(InOrder(F)) \in Nat /\ Len(InOrder(F \cup {f})) = Len(InOrder(F)) + 1
      /\ InOrder(F) = SubSeq(InOrder(F \cup {f}), 1, Len(InOrder(F)))
      /\ InOrder(F \cup {f})[Len(InOrder(F)) + 1] = <<f.su, f.pc>>
  BY <1>4, <1>8, TopIsAppended
<1>10. BarFrames = InOrder(F \cup {f}) /\ BarFrames' = InOrder(F)
  BY <1>7, BarFramesAre DEF F
<1>11. /\ BarFrames # <<>> /\ BarFrames[Len(BarFrames)] = <<f.su, f.pc>>
       /\ BarFrames' = SubSeq(BarFrames, 1, Len(BarFrames) - 1)
  <2> DEFINE S == InOrder(F \cup {f})
             n == Len(InOrder(F))
  <2>1. n \in Nat /\ Len(S) = n + 1 /\ InOrder(F) = SubSeq(S, 1, n)
        /\ S[n + 1] = <<f.su, f.pc>>
    BY <1>9
  <2>2. BarFrames = S /\ BarFrames' = InOrder(F)
    BY <1>10
  <2> HIDE DEF S, n
  <2>3. S # <<>> /\ Len(S) - 1 = n
    BY <2>1
  <2>4. QED
    BY <2>1, <2>2, <2>3
<1>12. <<su, pc>>' = <<f.su, f.pc>>
  BY <1>5
<1>13. QED
  BY <1>1, <1>11, <1>12 DEF Stack!Resume, Stack!Popped, BarFrames

\* After break_vec's call the stack holds one frame, and rte takes it away.
LEMMA MisreadSteps ==
  ASSUME StackInv, IsFiniteSet(kmem), RteMisread
  PROVE  Stack!Lose
<1>1. Ready /\ su /\ pc = "break_rte" /\ pc \in HandlerCode
  BY MisreadIsBreak DEF RteMisread, Returning, HandlerCode
<1>2. Sound /\ a7 \in Nat /\ Bottom \in Nat
  BY <1>1, ReadyIsSound
<1>3. PICK f \in kmem : /\ f.at = Base(pc, a7) /\ f.size = FrameSize
                        /\ FrameOK(kmem, Bottom, seg4, f)
  BY <1>1, FrameUnderStackPointer
<1>4. /\ f.at = Bottom /\ f \in FrameSet /\ a7 = f.at + FrameSize + RegsSize
      /\ f.at \in Nat
  BY <1>1, <1>2, <1>3 DEF Sound, AfterCall, FrameOK, Base, Pushed, FrameSize, RegsSize
<1>5. /\ su' \in BOOLEAN /\ pc' \in UserCode /\ a7' = -1 /\ kmem' = kmem
      /\ ssp' = Bottom' /\ Bottom' = Bottom + RegsSize
  BY MisreadKeeps, NextOneTrap DEF RteMisread, StackInv, Next, RunHandler
<1>6. ASSUME NEW h \in kmem, h.size = FrameSize, h.at >= Bottom, h.at + FrameSize <= a7
      PROVE  h = f
  <2>1. h.at \in Nat /\ (h = f \/ ~Overlap(h, f))
    BY DEF StackInv, LayoutOK
  <2>2. QED
    BY <1>2, <1>3, <1>4, <1>6, <2>1 DEF Overlap, FrameSize, RegsSize
<1>7. Framed(kmem, Bottom, Sp) = {f}
  <2>1. f \in Framed(kmem, Bottom, Sp) /\ Sp = a7
    BY <1>1, <1>3, <1>4 DEF Framed, Sp, FrameSize, RegsSize
  <2>2. QED
    BY <1>6, <2>1 DEF Framed
<1>8. Framed(kmem', Bottom', Sp') = {}
  <2>1. Sp' \in {-1, Bottom'}
    BY <1>5 DEF Sp
  <2>2. QED
    BY <1>2, <1>5, <2>1 DEF Framed, FrameSize, RegsSize, StackInv, LayoutOK
<1>9. InOrder({}) = <<>>
  <2>1. Cardinality({}) = 0
    BY FS_EmptySet
  <2>2. QED
    BY <2>1 DEF InOrder
<1>10. BarFrames = << <<f.su, f.pc>> >> /\ BarFrames' = <<>>
  BY <1>4, <1>7, <1>8, <1>9, OnlyInOrder, BarFramesAre
<1>11. BarFrames # <<>> /\ SubSeq(BarFrames, 1, Len(BarFrames) - 1) = <<>>
  BY <1>10
<1>12. <<su, pc>>' \in BOOLEAN \X (UserCode \cup HandlerCode)
  BY <1>5
<1>13. QED
  BY <1>1, <1>10, <1>11, <1>12 DEF Stack!Lose, Stack!Popped, Stack!Contexts, BarFrames

\* The frames are where they were when a handler returns from uspace_vec.
LEMMA NoHandlerSteps ==
  ASSUME StackInv, NEW v \in Vecs, NoHandler(v)
  PROVE  Stack!Proceed
<1>1. /\ Ready /\ su /\ pc \in {"uspace_fault", "uspace_break"} /\ pc \in HandlerCode
      /\ pc' \in HandlerCode /\ a7' = a7 - CallSize /\ su' = su /\ kmem' = kmem
      /\ UNCHANGED <<forks, unserved>>
  BY DEF NoHandler, Handler, LooksAt, ReturnAt, HandlerCode
<1>2. Sound /\ a7 \in Nat
  BY <1>1, ReadyIsSound
<1>3. PICK f \in kmem : f.at = Base(pc, a7) /\ f.size = FrameSize
  BY <1>1, FrameUnderStackPointer
<1>4. ASSUME NEW h \in kmem, h.size = FrameSize
      PROVE  h.at + FrameSize <= a7 <=> h.at + FrameSize <= a7 - CallSize
  <2>1. h.at \in Nat /\ (h = f \/ ~Overlap(h, f))
    BY DEF StackInv, LayoutOK
  <2>2. QED
    BY <1>1, <1>2, <1>3, <1>4, <2>1
       DEF Overlap, Base, Pushed, FrameSize, RegsSize, CallSize
<1>5. Framed(kmem', Bottom', Sp') = Framed(kmem, Bottom, Sp)
  BY <1>1, <1>4 DEF Framed, Sp, Bottom
<1>6. QED
  BY <1>1, <1>5, Proceeds

LEMMA CallForksSteps ==
  ASSUME StackInv, CallForks
  PROVE  Stack!Proceed
<1>1. /\ ~su /\ forks \in Nat /\ unserved \in Nat
      /\ ssp = Bottom /\ Bottom \in Nat /\ pc \in UserCode
  <2>1. ~su
    BY CallIsFromUser DEF CallForks, Taken
  <2>2. forks \in Nat /\ unserved \in Nat
    BY TrapAssumption DEF StackInv, TypeOK
  <2>3. QED
    BY <2>1, <2>2 DEF StackInv, Bottom, ContextStep, RegsSize
<1>2. Bottom' = Bottom + ContextStep /\ Sp = Bottom /\ Sp' = Bottom'
      /\ su' = su /\ pc' = pc
  BY <1>1 DEF CallForks, Bottom, Sp, ContextStep, RegsSize
<1>3. ASSUME NEW m, LayoutOK(m), NEW b \in Nat PROVE Framed(m, b, b) = {}
  BY <1>3 DEF Framed, FrameSize, LayoutOK
<1>4. Framed(kmem, Bottom, Sp) = {} /\ Framed(kmem', Bottom', Sp') = {}
  <2>1. LayoutOK(kmem) /\ LayoutOK(kmem')
    BY NextStackInv DEF StackInv, Next, TakeTrap
  <2>2. QED
    BY <1>1, <1>2, <1>3, <2>1 DEF ContextStep
<1>5. QED
  BY <1>1, <1>2, <1>4, Proceeds

\* Every step of the machine is a step of the stack of contexts, or leaves it as it is.
LEMMA NextSteps ==
  StackInv /\ IsFiniteSet(kmem) /\ [Next]_vars => [Stack!ENext]_(Stack!evars)
<1> SUFFICES ASSUME StackInv, IsFiniteSet(kmem), [Next]_vars
             PROVE  Stack!ENext \/ UNCHANGED Stack!evars
  BY Zenon
<1>1. pc \in UserCode \cup HandlerCode
  BY DEF StackInv, TypeOK
<1>2. CASE UNCHANGED vars
  <2>1. UNCHANGED <<su, pc, a7, ssp, kmem, forks, unserved>>
    BY <1>2 DEF vars
  <2>2. Framed(kmem', Bottom', Sp') = Framed(kmem, Bottom, Sp)
    BY <2>1 DEF Bottom, Sp
  <2>3. BarFrames' = BarFrames
    BY <2>2, BarFramesAre
  <2>4. QED
    BY <2>1, <2>3 DEF Stack!evars, BarFrames
<1>3. CASE TakeTrap
  <2>1. ASSUME NEW t \in Traps, Enter(t) PROVE Stack!ENext
    BY <2>1, EnterSteps, Zenon DEF Stack!ENext
  <2>2. CASE Debug \/ CallReturns \/ CallFaults
    <3>1. UNCHANGED <<su, a7, ssp, kmem, forks, unserved>> /\ pc' \in UserCode \cup HandlerCode
      BY <1>1, <2>2 DEF Debug, CallReturns, CallFaults
    <3>2. QED
      BY <3>1, QuietProceeds, Zenon DEF Stack!ENext
  <2>3. CASE CallForks
    BY <2>3, CallForksSteps, Zenon DEF Stack!ENext
  <2>4. QED
    BY <1>3, <2>1, <2>2, <2>3, Zenon DEF TakeTrap
<1>4. CASE RunHandler
  <2>1. ASSUME NEW v \in Vecs, SaveRegs(v) PROVE Stack!ENext
    <3>1. /\ Handler(pc) /\ Push(Regs(a7), CallsAt(v)) /\ pc \in {"fault_vec", "break_vec"}
          /\ Regs(a7).at = a7 /\ Regs(a7).size = RegsSize
          /\ CallsAt(v) \in HandlerCode /\ pc \in HandlerCode
      BY <2>1 DEF SaveRegs, Handler, Regs, HandlerCode, SavesAt, CallsAt
    <3>2. QED
      BY <3>1, PushSteps, Zenon DEF Stack!ENext
  <2>2. ASSUME NEW v \in Vecs, CallUspace(v) PROVE Stack!ENext
    <3>1. /\ Handler(pc) /\ Push(Call(a7), LooksAt(v)) /\ pc \in {"fault_bsr", "break_bsr"}
          /\ Call(a7).at = a7 /\ Call(a7).size = CallSize
          /\ LooksAt(v) \in HandlerCode /\ pc \in HandlerCode
      BY <2>2 DEF CallUspace, Handler, Call, HandlerCode, CallsAt, LooksAt
    <3>2. QED
      BY <3>1, PushSteps, Zenon DEF Stack!ENext
  <2>3. ASSUME NEW v \in Vecs, Redirect(v) PROVE Stack!ENext
    BY <2>3, RedirectSteps, Zenon DEF Stack!ENext
  <2>3a. ASSUME NEW v \in Vecs, NoHandler(v) PROVE Stack!ENext
    BY <2>3a, NoHandlerSteps, Zenon DEF Stack!ENext
  <2>3b. CASE RteMisread
    BY <2>3b, MisreadSteps, Zenon DEF Stack!ENext
  <2>4. CASE Rte
    BY <2>4, RteSteps, Zenon DEF Stack!ENext
  <2>5. CASE SetHandler \/ HandlerFaults \/ CallDebugger \/ HandlerStops
    <3>1. UNCHANGED <<su, a7, ssp, kmem, forks, unserved>> /\ pc' \in UserCode \cup HandlerCode
      BY <1>1, <2>5
         DEF SetHandler, HandlerFaults, CallDebugger, HandlerStops, HandlerCode
    <3>2. QED
      BY <3>1, QuietProceeds, Zenon DEF Stack!ENext
  <2>6. QED
    BY <1>4, <2>1, <2>2, <2>3, <2>3a, <2>3b, <2>4, <2>5, Zenon DEF RunHandler
<1>5. CASE RunUser
  <2>1. UNCHANGED <<su, a7, ssp, kmem, forks, unserved>> /\ pc' \in UserCode \cup HandlerCode
    BY <1>1, <1>5 DEF RunUser, UserTraps, UserFaults, UserJumps, UserStops, UserCode
  <2>2. QED
    BY <2>1, QuietProceeds, Zenon DEF Stack!ENext
<1>6. QED
  BY <1>2, <1>3, <1>4, <1>5, Zenon DEF Next

LEMMA InitSteps == Init => Stack!EInit
<1> SUFFICES ASSUME Init PROVE Stack!EInit
  OBVIOUS
<1>1. Framed(kmem, Bottom, Sp) = {}
  BY DEF Init, Framed
<1>2. BarFrames = <<>>
  <2>1. InOrder({}) = <<>>
    BY FS_EmptySet DEF InOrder
  <2>2. QED
    BY <1>1, <2>1, BarFramesAre
<1>3. <<su, pc>> \in {FALSE} \X (UserCode \cup HandlerCode)
  BY DEF Init, UserCode
<1>4. QED
  BY <1>2, <1>3 DEF Stack!EInit, BarFrames

\* The frames in the kernel stack's memory are a stack of interrupted contexts, for
\* every size of memory and number of forks: each trap pushes the context it
\* interrupts, RTE resumes the last one as it was left, and only uspace_vec sends it
\* elsewhere.  Only break_vec's own rte, after uspace_vec has found no handler, loses it.
THEOREM FramesImplementStack == Spec => FramesAreAStack
<1>1. Init => StackInv /\ IsFiniteSet(kmem)
  BY InitStackInv, FS_EmptySet DEF Init
<1>2. StackInv /\ IsFiniteSet(kmem) /\ [Next]_vars => (StackInv /\ IsFiniteSet(kmem))'
  BY NextStackInv, NextFinite
<1>3. QED
  BY <1>1, <1>2, InitSteps, NextSteps, PTL DEF Spec, FramesAreAStack, Stack!ESpec
=============================================================================
