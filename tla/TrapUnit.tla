------------------------------ MODULE TrapUnit ------------------------------
(***************************************************************************)
(* Traps: the pending set and catch of CPU::run, CPU::trap, RTE, the       *)
(* handlers of bootstrap.s and the use fork makes of the same kernel stack *)
(* (savectx), after the bootstrap's own rte has entered user mode.         *)
(*                                                                         *)
(* The kernel stack is memory reached through segment 0777777: ssp is an   *)
(* absolute address, and only the end of memory bounds it.  Addresses are  *)
(* counted from the start of the first Process structure's stack.          *)
(***************************************************************************)
EXTENDS Integers, FiniteSets

CONSTANTS
  MemTop,     \* bytes from the start of the stack to the end of memory
  MaxForks    \* bound: forks made

ASSUME TrapAssumption == MemTop \in Nat /\ MaxForks \in Nat

FrameSize == 24     \* ExceptionFrame
RegsSize == 10      \* movm d0,a0,(a7)+
CallSize == 6       \* bsr
ContextSize == 98   \* ContextFrame, 24 + 8*4 + 7*6
ContextStep == 196  \* sizeof(ContextFrame), in host bytes

\* Trap numbers: the faults, BKPT, and TRAP #0, #14 and #15.
eFAULT == 2
eINVAL == 3
ePERM == 4
eACCES == 5
eBREAK == 6
TRAP0 == 8
TRAP14 == 22
TRAP15 == 23

Faults == {eFAULT, eINVAL, ePERM, eACCES}
Traps == Faults \cup {eBREAK, TRAP0, TRAP14, TRAP15}

\* Where pc is.  In user mode: in the program, or at an address that cannot be
\* fetched from.  In supervisor mode: in a handler of bootstrap.s.
UserCode == {"program", "nowhere"}
HandlerCode ==
  {"fault_vec", "fault_bsr", "uspace_fault", "fault_stop",
   "break_vec", "break_bsr", "uspace_break", "break_trap", "break_rte",
   "trap0_vec", "rte", "trap14", "stop"}

\* The two words for a user handler, and the code that looks for each: break_vec, and
\* fault_vec, with which access_vec agrees.
Vecs == {"fault", "break"}

SavesAt(v)  == IF v = "fault" THEN "fault_vec"    ELSE "break_vec"
CallsAt(v)  == IF v = "fault" THEN "fault_bsr"    ELSE "break_bsr"
LooksAt(v)  == IF v = "fault" THEN "uspace_fault" ELSE "uspace_break"
ReturnAt(v) == IF v = "fault" THEN "fault_stop"   ELSE "break_trap"

Handlers == UserCode \cup {"none"}

VARIABLES
  pending,    \* the pending traps
  su,         \* smr & SU
  pc,
  a7,         \* the stack pointer in supervisor mode, -1 in user mode
  ssp,
  kmem,       \* what the kernel stack's memory holds
  uvec,       \* where the words uspace_vec takes for a user handler lead: "none" for 0:0
  seg4,       \* segment 4 is the Process structure, not a section too small for it
  forks,      \* contexts savectx has written
  saved,      \* history: where they were written
  unserved,   \* history: breakpoints break_vec has returned from itself
  halted

history == <<saved, unserved>>
vars == <<pending, su, pc, a7, ssp, kmem, uvec, seg4, forks, saved, unserved, halted>>

Frame(at, s, p, sp) == [at |-> at, size |-> FrameSize, su |-> s, pc |-> p, a7 |-> sp]
Regs(at) == [at |-> at, size |-> RegsSize]
Call(at) == [at |-> at, size |-> CallSize]
Context(at, p) == [at |-> at, size |-> ContextSize, pc |-> p]

Overlap(x, y) == x.at < y.at + y.size /\ y.at < x.at + x.size

\* Writing x destroys whatever it overlaps.
Write(x) == kmem' = {y \in kmem : ~Overlap(x, y)} \cup {x}

Fits(x) == x.at + x.size <= MemTop

(***************************************************************************)
(* What a new Process structure holds where the handlers' words are read:  *)
(* u_vec_fault begins with its ppid, which is never 0, and u_vec_break     *)
(* with what is left of sleep_on (bootstrap.s:9-12, os.cc:43-50).          *)
(***************************************************************************)
NewVectors(u) == u.fault # "none"

Init ==
  /\ pending = {} /\ su = FALSE /\ pc = "program" /\ a7 = -1 /\ ssp = 0
  /\ kmem = {} /\ seg4 = TRUE /\ forks = 0 /\ halted = FALSE
  /\ uvec \in [Vecs -> Handlers] /\ NewVectors(uvec)
  /\ saved = {} /\ unserved = 0

-----------------------------------------------------------------------------
(* The loop of run() *)

\* Mutant of Ready: an instruction runs although a trap is pending.
ReadyWithPending == ~halted

Ready == ~halted /\ pending = {}

\* catch(const Fault&): the trap becomes pending.
Throws(f) == pending' = pending \cup {f}

\* The lowest pending trap is taken, and only if there is none does run go on to
\* an instruction.
Taken(t) ==
  /\ ~halted
  /\ t \in pending /\ \A u \in pending : t <= u
  /\ pending' = pending \ {t}

Vector(t) ==
  CASE t \in {eFAULT, eACCES} -> "fault_vec"
    [] t = eBREAK             -> "break_vec"
    [] t \in {eINVAL, ePERM}  -> "trap14"
    [] t = TRAP0              -> "trap0_vec"

\* Mutant of Enter: the frame goes to ssp whatever the mode.
EnterAtSsp(t) ==
  LET frame == Frame(ssp, su, pc, a7) IN
  /\ Taken(t)
  /\ t \notin {TRAP14, TRAP15}
  /\ su' = TRUE
  /\ IF Fits(frame)
     THEN /\ Write(frame)
          /\ a7' = frame.at + FrameSize
          /\ pc' = Vector(t)
          /\ UNCHANGED halted
     ELSE halted' = TRUE /\ a7' = ssp /\ UNCHANGED <<kmem, pc>>
  /\ UNCHANGED <<ssp, uvec, seg4, forks, history>>

\* Mutant of Enter: a fault while the frame is written is caught as any other.
EnterRethrows(t) ==
  LET frame == Frame(IF su THEN a7 ELSE ssp, su, pc, a7) IN
  /\ t \notin {TRAP14, TRAP15}
  /\ su' = TRUE
  /\ IF Fits(frame)
     THEN /\ Taken(t)
          /\ Write(frame)
          /\ a7' = frame.at + FrameSize
          /\ pc' = Vector(t)
     ELSE /\ ~halted
          /\ t \in pending /\ \A u \in pending : t <= u
          /\ pending' = (pending \ {t}) \cup {eFAULT}
          /\ a7' = frame.at
          /\ UNCHANGED <<kmem, pc>>
  /\ UNCHANGED <<ssp, uvec, seg4, forks, history, halted>>

\* trap(): user mode switches to the kernel stack; a fault in here is a double
\* fault, and the machine halts.
Enter(t) ==
  LET frame == Frame(IF su THEN a7 ELSE ssp, su, pc, a7) IN
  /\ Taken(t)
  /\ t \notin {TRAP14, TRAP15}
  /\ su' = TRUE
  /\ IF Fits(frame)
     THEN /\ Write(frame)
          /\ a7' = frame.at + FrameSize
          /\ pc' = Vector(t)
          /\ UNCHANGED halted
     ELSE halted' = TRUE /\ a7' = frame.at /\ UNCHANGED <<kmem, pc>>
  /\ UNCHANGED <<ssp, uvec, seg4, forks, history>>

\* TRAP #14 only turns the debugger on.
Debug ==
  /\ Taken(TRAP14)
  /\ UNCHANGED <<su, pc, a7, ssp, kmem, uvec, seg4, forks, history, halted>>

-----------------------------------------------------------------------------
(* TRAP #15: oscall, which no handler of the machine sees *)

\* A call that returns, with or without an error: exec may have taken the program
\* away, or put a section in the place of the Process structure.
CallReturns ==
  /\ Taken(TRAP15)
  /\ pc' \in UserCode
  /\ seg4' \in {seg4, FALSE}
  /\ UNCHANGED <<su, a7, ssp, kmem, uvec, forks, history, halted>>

\* A Fault that oscall does not catch: the name given to exec is in a segment past
\* the table.
CallFaults ==
  /\ TRAP15 \in pending /\ ~halted
  /\ pending' = (pending \ {TRAP15}) \cup {eFAULT}
  /\ UNCHANGED <<su, pc, a7, ssp, kmem, uvec, seg4, forks, history, halted>>

\* Mutant of CallForks: ssp is left where the context was written.
CallForksInPlace ==
  /\ Taken(TRAP15)
  /\ forks < MaxForks
  /\ Fits(Context(ssp, pc))
  /\ Write(Context(ssp, pc))
  /\ forks' = forks + 1 /\ saved' = saved \cup {ssp}
  /\ seg4' = TRUE /\ uvec' \in [Vecs -> Handlers] /\ NewVectors(uvec')
  /\ UNCHANGED <<su, pc, a7, ssp, unserved, halted>>

\* fork: savectx writes the parent's context at ssp, from where the child goes on.
\* A fork with less than a context of memory left is outside the model.
CallForks ==
  /\ Taken(TRAP15)
  /\ forks < MaxForks
  /\ Fits(Context(ssp, pc))
  /\ Write(Context(ssp, pc))
  /\ ssp' = ssp + ContextStep
  /\ forks' = forks + 1 /\ saved' = saved \cup {ssp}
  /\ seg4' = TRUE /\ uvec' \in [Vecs -> Handlers] /\ NewVectors(uvec')
  /\ UNCHANGED <<su, pc, a7, unserved, halted>>

-----------------------------------------------------------------------------
(* An instruction of a user program *)

User == Ready /\ ~su

\* TRAP and BKPT; the others fault, or jump somewhere, or STOP.
UserTraps(t) ==
  /\ User /\ pc = "program"
  /\ t \in {eBREAK, TRAP0, TRAP14, TRAP15}
  /\ Throws(t)
  /\ UNCHANGED <<su, pc, a7, ssp, kmem, uvec, seg4, forks, history, halted>>

UserFaults(f) ==
  /\ User
  /\ f \in Faults
  /\ pc = "nowhere" => f \in {eFAULT, eACCES, ePERM}
  /\ Throws(f)
  /\ pc' \in {pc, "program"}  \* a failed fetch leaves the pc of an older instruction
  /\ UNCHANGED <<su, a7, ssp, kmem, uvec, seg4, forks, history, halted>>

UserJumps ==
  /\ User /\ pc = "program"
  /\ pc' = "nowhere"
  /\ UNCHANGED <<pending, su, a7, ssp, kmem, uvec, seg4, forks, history, halted>>

UserStops ==
  /\ User /\ pc = "program"
  /\ halted' = TRUE
  /\ UNCHANGED <<pending, su, pc, a7, ssp, kmem, uvec, seg4, forks, history>>

-----------------------------------------------------------------------------
(* The handlers of bootstrap.s *)

Handler(label) == Ready /\ su /\ pc = label

\* Mutant of Push: the end of memory is not checked.
PushUnchecked(x, next) ==
  /\ Write(x) /\ a7' = a7 + x.size /\ pc' = next
  /\ UNCHANGED <<pending, su, ssp, uvec, seg4, forks, history, halted>>

\* A push that runs off memory is a fault like any other, but a7 has moved.
Push(x, next) ==
  /\ a7' = a7 + x.size
  /\ IF Fits(x)
     THEN Write(x) /\ pc' = next /\ UNCHANGED pending
     ELSE Throws(eFAULT) /\ UNCHANGED <<kmem, pc>>
  /\ UNCHANGED <<su, ssp, uvec, seg4, forks, history, halted>>

\* fault_vec, access_vec and break_vec save two registers and call uspace_vec.
SaveRegs(v) == Handler(SavesAt(v)) /\ Push(Regs(a7), CallsAt(v))
CallUspace(v) == Handler(CallsAt(v)) /\ Push(Call(a7), LooksAt(v))

\* uspace_vec finds a user handler: the pc in the frame is replaced by the handler's
\* and the registers are restored.
Redirect(v) ==
  LET frames == {f \in kmem : f.at = a7 - CallSize - RegsSize - FrameSize} IN
  /\ Handler(LooksAt(v))
  /\ seg4 /\ uvec[v] # "none"
  /\ kmem' = {x \in kmem : x \notin frames} \cup {[f EXCEPT !.pc = uvec[v]] : f \in frames}
  /\ a7' = a7 - CallSize - RegsSize
  /\ pc' = "rte"
  /\ UNCHANGED <<pending, su, ssp, uvec, seg4, forks, history, halted>>

\* It finds 0:0: rts, to what follows the call.  The registers stay on the stack.
NoHandler(v) ==
  /\ Handler(LooksAt(v))
  /\ seg4 /\ uvec[v] = "none"
  /\ a7' = a7 - CallSize
  /\ pc' = ReturnAt(v)
  /\ UNCHANGED <<pending, su, ssp, kmem, uvec, seg4, forks, history, halted>>

\* trap0_vec stores whatever the program has in a0, 0:0 too, where uspace_vec looks:
\* for breakpoints or for faults, as d0 says.
SetHandler ==
  /\ Handler("trap0_vec")
  /\ seg4
  /\ \E v \in Vecs, h \in Handlers : uvec' = [uvec EXCEPT ![v] = h]
  /\ pc' = "rte"
  /\ UNCHANGED <<pending, su, a7, ssp, kmem, seg4, forks, history, halted>>

\* Segment 4 is something else: the handler's access to it faults in its turn.
HandlerFaults ==
  /\ Ready /\ su /\ pc \in {"uspace_fault", "uspace_break", "trap0_vec"}
  /\ ~seg4
  /\ Throws(eFAULT)
  /\ UNCHANGED <<su, pc, a7, ssp, kmem, uvec, seg4, forks, history, halted>>

Returning == Ready /\ su /\ pc \in {"rte", "break_rte"}

\* The frame that lies under a7, if one does.
FramesUnder == {f \in kmem : f.at = a7 - FrameSize /\ f.size = FrameSize}

\* Mutant of Rte: ssp is not brought back.
RteKeepsSsp ==
  /\ Returning
  /\ \E f \in FramesUnder : su' = f.su /\ pc' = f.pc /\ a7' = f.a7
  /\ ssp' = a7
  /\ UNCHANGED <<pending, kmem, uvec, seg4, forks, history, halted>>

\* RTE: the frame under a7 is popped, and ssp becomes the place it had.
Rte ==
  /\ Returning
  /\ \E f \in FramesUnder : su' = f.su /\ pc' = f.pc /\ a7' = f.a7
  /\ ssp' = a7 - FrameSize
  /\ UNCHANGED <<pending, kmem, uvec, seg4, forks, history, halted>>

(***************************************************************************)
(* RTE where no frame lies: smr, a7 and pc are taken from the end of the   *)
(* frame and from the registers above it, which the program chose, and ssp *)
(* is off by the registers.  With SU set in that smr the program runs on   *)
(* in supervisor mode; the model stops there.                              *)
(***************************************************************************)
RteMisread ==
  /\ Returning
  /\ FramesUnder = {}
  /\ su' \in BOOLEAN /\ pc' \in UserCode /\ a7' = -1
  /\ ssp' = a7 - FrameSize
  /\ unserved' = unserved + 1
  /\ UNCHANGED <<pending, kmem, uvec, seg4, forks, saved, halted>>

\* inval_vec and perm_vec: trap #14, stop.  What follows break_vec's call: trap #14, rte.
CallDebugger ==
  /\ Ready /\ su
  /\ \/ pc = "trap14" /\ pc' = "stop"
     \/ pc = "break_trap" /\ pc' = "break_rte"
  /\ Throws(TRAP14)
  /\ UNCHANGED <<su, a7, ssp, kmem, uvec, seg4, forks, history, halted>>

\* And what follows fault_vec's: stop.
HandlerStops ==
  /\ Ready /\ su /\ pc \in {"stop", "fault_stop"}
  /\ halted' = TRUE
  /\ UNCHANGED <<pending, su, pc, a7, ssp, kmem, uvec, seg4, forks, history>>

TakeTrap ==
  \/ \E t \in Traps : Enter(t)
  \/ Debug
  \/ CallReturns
  \/ CallFaults
  \/ CallForks

RunHandler ==
  \/ \E v \in Vecs : SaveRegs(v) \/ CallUspace(v) \/ Redirect(v) \/ NoHandler(v)
  \/ SetHandler
  \/ HandlerFaults
  \/ Rte
  \/ RteMisread
  \/ CallDebugger
  \/ HandlerStops

RunUser ==
  \/ \E t \in Traps : UserTraps(t) \/ UserFaults(t)
  \/ UserJumps
  \/ UserStops

Next == TakeTrap \/ RunHandler \/ RunUser

\* run() loops until it halts.
Spec == Init /\ [][Next]_vars /\ WF_vars(Next)

-----------------------------------------------------------------------------
TypeOK ==
  /\ pending \subseteq Traps
  /\ su \in BOOLEAN /\ seg4 \in BOOLEAN /\ halted \in BOOLEAN
  /\ pc \in UserCode \cup HandlerCode /\ uvec \in [Vecs -> Handlers]
  /\ a7 \in Nat \cup {-1} /\ ssp \in Nat /\ forks \in 0 .. MaxForks
  /\ saved \subseteq Nat /\ unserved \in Nat
  /\ \A x \in kmem : x.at \in 0 .. MemTop /\ Fits(x)

(***************************************************************************)
(* At most one trap is pending: the one fault register and the catch that  *)
(* ORs bits into pending (cpu.cc:896-897) never have two to tell apart,    *)
(* however oscall, handlers and faults in handlers follow each other.      *)
(***************************************************************************)
OnePending == Cardinality(pending) <= 1

\* Where the stack of the running process begins: above the contexts fork has saved
\* and the registers break_vec has left behind.
Bottom == forks * ContextStep + unserved * RegsSize

(***************************************************************************)
(* Whenever user code runs, the kernel stack holds the contexts fork has   *)
(* saved and, for each breakpoint that found no handler, the ten bytes     *)
(* break_vec did not take back (bootstrap.s:59-63), and nothing else: every *)
(* other handler, nested ones and those that send the program to its own   *)
(* included, gives back what it pushed, and RTE leaves ssp where the trap  *)
(* found it (cpu.cc:596-604).                                              *)
(***************************************************************************)
UserStackIsBalanced == ~su => ssp = Bottom

(***************************************************************************)
(* The context of each process that fork has left behind is intact: no     *)
(* frame or push of the processes after it, on the same stack, has touched *)
(* it (os.cc:343-358), wherever the stack pointer had got to by then.      *)
(***************************************************************************)
ContextsAreIntact ==
  /\ Cardinality(saved) = forks
  /\ \A at \in saved : \E x \in kmem : x.at = at /\ x.size = ContextSize

(***************************************************************************)
(* Handlers come to an end: from supervisor mode the machine gets back to  *)
(* the program or halts, also when a handler faults in its turn: the       *)
(* frames then grow to the end of memory and trap() itself faults.         *)
(***************************************************************************)
HandlersEnd == su ~> (~su \/ halted \/ pc \in UserCode)
=============================================================================
