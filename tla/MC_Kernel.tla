----------------------------- MODULE MC_Kernel -----------------------------
(***************************************************************************)
(* Kernel for TLC, with small object files, and the refinement mapping to  *)
(* ProcessImages.                                                          *)
(***************************************************************************)
EXTENDS Kernel

Section(no, flags) == [no |-> no, size |-> 1, flags |-> flags]
Data(no) == Section(no, {"READ", "WRITE"})
Text(no) == Section(no, {"EXEC"})

\* init has data and text, sh has text in another segment and a section of no
\* size, notes is not an object and loads as one without sections, tool may be executed
\* by others and is refused.
MCFiles == {"init", "sh", "notes", "tool"}
MCSections ==
  [f \in MCFiles |->
     CASE f \in {"init", "tool"} -> <<Data(1), Text(3)>>
       [] f = "sh"    -> <<[Data(1) EXCEPT !.size = 0], Text(2)>>
       [] f = "notes" -> <<>>]
MCStart ==
  [f \in MCFiles |-> CASE f \in {"init", "tool"} -> 3 [] f = "sh" -> 2 [] f = "notes" -> 0]

\* The page size the author meant, or a value that makes every kfree a no-op: these are
\* the BenignDivisors.
MCGarbage == {1, 100}

-----------------------------------------------------------------------------
PidOf(u) == CHOOSE p \in DOMAIN procs : procs[p] = u

MappedImage(u) ==
  {<<no, segs[tables[u][no].segid].ino>> : no \in {n \in SegNos : Valid(tables[u][n])}}

SectionImage(f) ==
  {<<s.no, f>> : s \in {x \in ToSet(Sections[f]) : x.size > 0}}

Images == INSTANCE ProcessImages WITH
  File    <- Files,
  ImageOf <- [f \in Files |-> SectionImage(f)],
  image   <- [p \in DOMAIN procs |-> MappedImage(procs[p])],
  running <- IF cur = 0 THEN 0 ELSE PidOf(cur)

(***************************************************************************)
(* The kernel implements ProcessImages: exec maps every section of the     *)
(* file, from cache or disk, or leaves nothing; fork gives the child the   *)
(* parent's image; no call changes the image of a process left behind.     *)
(***************************************************************************)
ImagesAreKept == Images!ISpec
=============================================================================
