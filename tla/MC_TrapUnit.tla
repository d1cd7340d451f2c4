---------------------------- MODULE MC_TrapUnit ----------------------------
(***************************************************************************)
(* TrapUnit for TLC, and the refinement mapping to ExceptionStack: the     *)
(* frames are read out of memory, from the start of the stack the running  *)
(* process has up to its stack pointer.  Only break_vec's own rte may lose *)
(* the context its trap interrupted.                                       *)
(***************************************************************************)
EXTENDS TrapUnit

FramesInMemory ==
  {f \in kmem : /\ f.size = FrameSize
                /\ f.at >= Bottom
                /\ f.at + FrameSize <= IF su THEN a7 ELSE ssp}

\* The frame with i - 1 below it.
Nth(i) ==
  {f \in FramesInMemory : Cardinality({g \in FramesInMemory : g.at < f.at}) = i - 1}

NthFrame(i) == CHOOSE f \in Nth(i) : TRUE

Stack == INSTANCE ExceptionStack WITH
  PC         <- UserCode \cup HandlerCode,
  Unbalanced <- {"break_rte"},
  frames     <- [i \in 1 .. Cardinality(FramesInMemory) |->
                   <<NthFrame(i).su, NthFrame(i).pc>>],
  context    <- <<su, pc>>

(***************************************************************************)
(* The frames in memory behave as a stack of interrupted contexts: every   *)
(* RTE but break_vec's own resumes the one interrupted last, as it was     *)
(* left, whatever ssp, nested faults, forks and earlier breakpoints have   *)
(* done to the memory in between.                                          *)
(***************************************************************************)
FramesAreAStack == Stack!ESpec
=============================================================================
