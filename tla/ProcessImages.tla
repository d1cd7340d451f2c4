--------------------------- MODULE ProcessImages ---------------------------
(***************************************************************************)
(* What exec and fork promise, without segments, counts or caches: each    *)
(* process has an image, the set of <<segment number, file>> it maps, and  *)
(* one process runs.  A call replaces the running image as a whole, or     *)
(* empties it, and never touches another.                                  *)
(***************************************************************************)
EXTENDS Integers

CONSTANTS
  File,       \* the object files
  ImageOf     \* file -> its image, a set of <<segment number, file>>

VARIABLES
  image,      \* pid -> what the process maps of object files
  running     \* the pid that runs, 0 before there is one

ivars == <<image, running>>

IInit == image = [p \in {} |-> {}] /\ running = 0

\* The context of the first process.
Create == DOMAIN image = {} /\ image' = [p \in {1} |-> {}] /\ UNCHANGED running

Run == running = 0 /\ 1 \in DOMAIN image /\ running' = 1 /\ UNCHANGED image

IExec(f) ==
  /\ running # 0
  /\ image' = [image EXCEPT ![running] = ImageOf[f]]
  /\ UNCHANGED running

IExecFails ==
  /\ running # 0
  /\ image' = [image EXCEPT ![running] = {}]
  /\ UNCHANGED running

IFork ==
  /\ running # 0
  /\ running' \notin DOMAIN image
  /\ image' = [p \in DOMAIN image \cup {running'} |->
                 IF p = running' THEN image[running] ELSE image[p]]

INext ==
  \/ Create
  \/ Run
  \/ \E f \in File : IExec(f)
  \/ IExecFails
  \/ IFork

ISpec == IInit /\ [][INext]_ivars
=============================================================================
