--------------------------- MODULE ExceptionStack ---------------------------
(***************************************************************************)
(* What traps promise, without memory or stack pointers: a stack of        *)
(* interrupted contexts.  A trap pushes the context it interrupts, a       *)
(* return resumes the one interrupted last, and a handler may send that    *)
(* one, and only that one, elsewhere.  A return from a place that leaves   *)
(* something on the stack is the exception: the context is lost.           *)
(***************************************************************************)
EXTENDS Integers, Sequences

CONSTANTS
  PC,         \* where the program counter can be
  Unbalanced  \* the places that return with more than the context on the stack

VARIABLES
  frames,     \* the interrupted contexts, each <<supervisor, pc>>
  context     \* the context that runs

evars == <<frames, context>>

Contexts == BOOLEAN \X PC

EInit == frames = <<>> /\ context \in {FALSE} \X PC

\* A trap is taken: its handler runs in supervisor mode.
Interrupt ==
  /\ frames' = Append(frames, context)
  /\ context' \in {TRUE} \X PC

\* A trap that cannot be taken: the machine halts in supervisor mode.
DoubleFault ==
  /\ context' = <<TRUE, context[2]>>
  /\ UNCHANGED frames

Popped == frames # <<>> /\ frames' = SubSeq(frames, 1, Len(frames) - 1)

Resume ==
  /\ context[2] \notin Unbalanced
  /\ Popped
  /\ context' = frames[Len(frames)]

\* The context interrupted last is forgotten, and another one runs.
Lose ==
  /\ context[2] \in Unbalanced
  /\ Popped
  /\ context' \in Contexts

Divert ==
  /\ frames # <<>>
  /\ \E p \in PC : frames' = [frames EXCEPT ![Len(frames)] = <<@[1], p>>]
  /\ context' \in {<<context[1], p>> : p \in PC}

\* The context that runs goes on, in the mode it has.
Proceed ==
  /\ context' \in {<<context[1], p>> : p \in PC}
  /\ UNCHANGED frames

ENext == Interrupt \/ DoubleFault \/ Resume \/ Lose \/ Divert \/ Proceed

ESpec == EInit /\ [][ENext]_evars
=============================================================================
