------------------------------- MODULE Kernel -------------------------------
(***************************************************************************)
(* The memory and process side of os.cc: the global segment list, the      *)
(* cache of loaded objects, the segment tables in the Process structures,  *)
(* and the exec and fork system calls, driven by the boot sequence of      *)
(* bootstrap.s and then by user programs.                                  *)
(*                                                                         *)
(* One process runs.  fork switches to the child and nothing ever switches *)
(* back (loadctx has no caller), so the others only keep their segments.   *)
(*                                                                         *)
(* Segments are numbered from 1 here and from 0 in segs; a Process         *)
(* structure is named by the segment that holds it (segmap is its base);   *)
(* an inode is the file.                                                   *)
(***************************************************************************)
EXTENDS Heap, Sequences, FiniteSets, SequencesExt

CONSTANTS
  NSeg,       \* SEG_PER_PROC (32)
  Files,      \* the files under fs/
  Missing,    \* a name no file has
  Init_x,     \* the file the bootstrap executes
  Sections,   \* file -> sequence of [no, size, flags]: Object::segs
  Start,      \* file -> sseg, the segment execution starts in
  Refused,    \* the files whose mode lets others execute them
  PidLimit,   \* 2^18, where npid wraps
  Garbage     \* what the uninitialised divisor of kfree holds (see Heap)

Flag == {"EXEC", "WRITE", "READ", "SUPER", "COW", "VALID"}
SegNos == 0 .. NSeg - 1
Uarea == 4            \* the table entry of the Process structure
NoFile == "no file"
Absolute == 262143    \* segment 0777777, all of memory

ASSUME KernelAssumption ==
  /\ NSeg \in Nat /\ NSeg > Uarea
  /\ PidLimit \in Nat /\ PidLimit > Total + 2
  /\ Init_x \in Files /\ Missing \notin Files /\ NoFile \notin Files
  /\ Start \in [Files -> Nat]
  /\ Sections \in [Files -> Seq([no : Nat, size : Nat, flags : SUBSET Flag])]
  /\ Refused \subseteq Files
  /\ Garbage \subseteq Nat /\ Garbage # {}

\* kfree frees the block it is given, or nothing: it divides by the page size, or by
\* more than memory holds.  Nothing in the code makes the uninitialised divisor one of
\* these; for the others PageHeap shows that kfree frees pages in use.
BenignDivisors == \A g \in Garbage : g = Page \/ g > Page * Total

VARIABLES
  heap,       \* the page heap
  segs,       \* segs: sequence of [refs, base, size, ino, flags]
  objs,       \* loaded_objects: file -> [refs, map, whole]
  tables,     \* Process structure -> its segment table
  procs,      \* procs: pid -> Process structure
  npid,       \* npid
  cur,        \* segmap: the running Process structure, 0 before SSMA
  len,        \* segmap_len
  su,         \* smr & SU
  boot,       \* where the bootstrap is
  pcseg,      \* the segment of pc
  ret,        \* how the last system call ended: "ok", an errno, or "Fault"
  c,          \* the C flag after the last system call
  status      \* "running", "halted" (STOP), "crashed" (a null Object)

memory == <<heap, segs, objs, tables>>
vars == <<heap, segs, objs, tables, procs, npid, cur, len, su, boot, pcseg,
          ret, c, status>>

-----------------------------------------------------------------------------
(* State threaded through a system call: the heap, the segment list, the  *)
(* loaded objects, one segment table, and the errno thrown, if any.  Every *)
(* step leaves a state with an errno alone, as a throw skips what follows. *)

NoEntry == [segid |-> 0, base |-> 0, size |-> 0, flags |-> {}]

Valid(e) == "VALID" \in e.flags

Place(h, wants) == CHOOSE pf \in 1 .. Total : IsPlace(h, wants, pf)

HasRoom(h, bytes) == ~NoRoom(h, PagesFor(bytes), Place(h, PagesFor(bytes)))

Throw(st, errno) == [st EXCEPT !.err = errno]

\* salloc(bytes) followed by the ino and flags its caller gives the segment.
Salloc(st, bytes, ino, flags) ==
  LET wants == PagesFor(bytes)
      pf    == Place(st.heap, wants)
  IN  IF ~HasRoom(st.heap, bytes)
      THEN Throw(st, "ENOMEM")
      ELSE [st EXCEPT
              !.heap = WithBlock(@, wants, pf),
              !.segs = Append(@, [refs |-> 0, base |-> pf, size |-> bytes,
                                  ino |-> ino, flags |-> flags])]

\* One segment fewer of object f: --refs, erased from the cache at 0.
DropObject(objs_, f) ==
  IF objs_[f].refs = 1
  THEN [x \in DOMAIN objs_ \ {f} |-> objs_[x]]
  ELSE [objs_ EXCEPT ![f].refs = @ - 1]

\* Mutant of Sfree: the object keeps its count when a segment of it is freed.
SfreeKeepsObject(st, sid, g) ==
  LET s == st.segs[sid] IN
  [st EXCEPT
     !.heap = AfterKfree(@, s.base * Page, g),
     !.segs[sid] = [@ EXCEPT !.base = 0, !.size = 0, !.ino = NoFile]]

Sfree(st, sid, g) ==
  LET s == st.segs[sid] IN
  [st EXCEPT
     !.objs = IF s.ino = NoFile THEN @ ELSE DropObject(@, s.ino),
     !.heap = AfterKfree(@, s.base * Page, g),
     !.segs[sid] = [@ EXCEPT !.base = 0, !.size = 0, !.ino = NoFile]]

\* Mutant of Munmap: the segment is freed whatever its count.
MunmapFrees(st, no, g) ==
  LET e == st.tbl[no] IN
  IF ~Valid(e) THEN st
  ELSE Sfree([st EXCEPT !.segs[e.segid].refs = @ - 1,
                        !.tbl[no] = [@ EXCEPT !.size = 0, !.flags = {}]],
             e.segid, g[e.segid])

\* Mutant of Munmap: the entry keeps its size and flags.
MunmapKeepsEntry(st, no, g) ==
  LET e == st.tbl[no]
      unmapped == [st EXCEPT !.segs[e.segid].refs = @ - 1]
  IN  IF ~Valid(e) THEN st
      ELSE IF unmapped.segs[e.segid].refs = 0
           THEN Sfree(unmapped, e.segid, g[e.segid])
           ELSE unmapped

\* munmap(no), no within the table.
Munmap(st, no, g) ==
  LET e == st.tbl[no]
      unmapped == [st EXCEPT !.segs[e.segid].refs = @ - 1,
                             !.tbl[no] = [@ EXCEPT !.size = 0, !.flags = {}]]
  IN  IF ~Valid(e) THEN st
      ELSE IF unmapped.segs[e.segid].refs = 0
           THEN Sfree(unmapped, e.segid, g[e.segid])
           ELSE unmapped

\* Mutant of Mmap: the mapping is not counted.
MmapUncounted(st, sid, no, g) ==
  IF st.err # "ok" THEN st
  ELSE IF no \notin SegNos THEN Throw(st, "ENOMEM")
  ELSE IF Valid(st.tbl[no]) /\ no = Uarea THEN Throw(st, "EPERM")
  ELSE LET freed == Munmap(st, no, g)
           s == freed.segs[sid]
       IN  [freed EXCEPT
              !.tbl[no] = [segid |-> sid, base |-> s.base, size |-> s.size,
                           flags |-> s.flags \cup {"VALID"}]]

\* mmap(sid, no).  The second half of the test for EPERM, "!smr&SU", is (!smr)&0.
Mmap(st, sid, no, g) ==
  IF st.err # "ok" THEN st
  ELSE IF no \notin SegNos THEN Throw(st, "ENOMEM")
  ELSE IF Valid(st.tbl[no]) /\ no = Uarea THEN Throw(st, "EPERM")
  ELSE LET freed == Munmap(st, no, g)
           s == freed.segs[sid]
       IN  [freed EXCEPT
              !.segs[sid].refs = @ + 1,
              !.tbl[no] = [segid |-> sid, base |-> s.base, size |-> s.size,
                           flags |-> s.flags \cup {"VALID"}]]

\* A loop over the numbers of a set, in ascending order.
Ascending(step(_, _), st, numbers) ==
  MapThenFoldSet(LAMBDA no, x : step(x, no), st, LAMBDA no : no,
                 LAMBDA some : Max(some), numbers)

\* freesegs(): every entry but the Process structure's.
FreeSegs(st, g) ==
  Ascending(LAMBDA x, no : Munmap(x, no, g), st, SegNos \ {Uarea})

\* mmap(salloc(4096), 0), whose flags are then set to READ|WRITE, without VALID.
MapStack(st, g) ==
  LET got == Salloc(st, Page, NoFile, {})
      mapped == Mmap(got, Len(got.segs), 0, g)
  IN  IF got.err # "ok" THEN got
      ELSE [mapped EXCEPT !.tbl[0].flags = {"READ", "WRITE"}]

\* One section of file f becomes a segment of its object.
LoadSection(st, f, s) ==
  IF st.err # "ok" \/ s.size = 0 THEN st
  ELSE LET got == Salloc(st, s.size, f, s.flags \cup {"VALID"})
           sid == Len(got.segs)
           map == got.objs[f].map
       IN  IF got.err # "ok" THEN got
           ELSE [got EXCEPT
                   !.objs[f].map = IF s.no \in DOMAIN map THEN map
                                   ELSE [n \in DOMAIN map \cup {s.no} |->
                                           IF n = s.no THEN sid ELSE map[n]],
                   !.objs[f].refs = @ + 1]

(***************************************************************************)
(* load(name).  A cached object is returned as it is.  Object::load never  *)
(* fails, so a file that is not an object loads as one without sections;   *)
(* the only errors are open's, the ENOEXEC of a test of the file's mode,   *)
(* st_mode&S_IFMT != S_IFREG, which is st_mode&1, and the lack of memory,  *)
(* which leaves an object in the cache whose obj is still null.            *)
(***************************************************************************)
Load(st, f) ==
  IF st.err # "ok" THEN st
  ELSE IF f \notin Files THEN Throw(st, "ENOENT")
  ELSE IF f \in Refused THEN Throw(st, "ENOEXEC")
  ELSE IF f \in DOMAIN st.objs THEN st
  ELSE LET empty == [x \in DOMAIN st.objs \cup {f} |->
                       IF x = f THEN [refs |-> 0, map |-> <<>>, whole |-> FALSE]
                                ELSE st.objs[x]]
           loaded == FoldLeft(LAMBDA x, s : LoadSection(x, f, s),
                              [st EXCEPT !.objs = empty], Sections[f])
       IN  IF loaded.err # "ok" THEN loaded
           ELSE [loaded EXCEPT !.objs[f].whole = TRUE]

\* The loop over lo.segs, in the order of the segment numbers.
MapSections(st, f, g) ==
  IF st.err # "ok" THEN st
  ELSE LET map == st.objs[f].map
       IN  Ascending(LAMBDA x, no : Mmap(x, map[no], no, g), st, DOMAIN map)

\* What exec does to the table once it has the file name.
Image(st, f, g) == MapSections(Load(MapStack(FreeSegs(st, g), g), f), f, g)

Current(err) == [heap |-> heap, segs |-> segs, objs |-> objs,
                 tbl |-> tables[cur], err |-> err]

\* F with x for number y: a pid in procs, a table in a new Process structure.
Joined(F, y, x) == [z \in DOMAIN F \cup {y} |-> IF z = y THEN x ELSE F[z]]

-----------------------------------------------------------------------------
(* The boot sequence, in supervisor mode *)

Errnos == {"EPERM", "ENOENT", "ENOEXEC", "ENOMEM", "EFAULT", "EACCES"}

Init ==
  /\ heap = EmptyHeap
  /\ segs = <<>> /\ objs = <<>> /\ tables = <<>> /\ procs = <<>>
  /\ npid = 2 /\ cur = 0 /\ len = 0
  /\ su = TRUE /\ boot = "reset" /\ pcseg = Absolute
  /\ ret = "ok" /\ c = FALSE /\ status = "running"

Returns(r) == ret' = r /\ c' = (r \in Errnos)

\* A new Process structure's table: only the entry for itself, without VALID.
NewTable(sid, base) ==
  [no \in SegNos |->
     IF no = Uarea
     THEN [segid |-> sid, base |-> base, size |-> Page,
           flags |-> {"SUPER", "READ", "WRITE"}]
     ELSE NoEntry]

\* fork in supervisor mode: the context of the first process, not a fork.  The
\* bootstrap does not test C: the memory it runs in has room.
BootFork ==
  LET got == Salloc([heap |-> heap, segs |-> segs, err |-> "ok"], Page, NoFile, {})
      sid == Len(got.segs)
  IN  /\ boot = "reset"
      /\ HasRoom(heap, Page)
      /\ heap' = got.heap
      /\ segs' = [got.segs EXCEPT ![sid].refs = 1]
      /\ tables' = Joined(tables, sid, NewTable(sid, got.segs[sid].base))
      /\ procs' = Joined(procs, 1, sid)
      /\ boot' = "forked"
      /\ Returns("ok")
      /\ UNCHANGED <<objs, npid, cur, len, su, pcseg, status>>

\* ssma: segmap is the address fork returned in a0.
Ssma ==
  /\ boot = "forked" /\ boot' = "mapped"
  /\ cur' = procs[1]
  /\ UNCHANGED <<memory, procs, npid, len, su, pcseg, ret, c, status>>

\* ssml
Ssml ==
  /\ boot = "mapped" /\ boot' = "sized"
  /\ len' = NSeg
  /\ UNCHANGED <<memory, procs, npid, cur, su, pcseg, ret, c, status>>

\* The VALID entries of a table: the segments it counts as references.
Mapped(u) == {e \in {tables[u][no] : no \in SegNos} : Valid(e)}

(***************************************************************************)
(* exec with a good name.  The image is taken down before the new one is   *)
(* known to load, so an errno finds the caller without its segments.  A    *)
(* cached object whose load failed has a null obj.  pcseg is pc, or in     *)
(* supervisor mode a0, which the bootstrap's rte takes pc from.            *)
(***************************************************************************)
ExecFile(f) ==
  \E g \in [{e.segid : e \in Mapped(cur)} -> Garbage] :
    LET x == Image(Current("ok"), f, g)
        null == x.err = "ok" /\ ~x.objs[f].whole
    IN  /\ heap' = x.heap /\ segs' = x.segs /\ objs' = x.objs
        /\ tables' = [tables EXCEPT ![cur] = x.tbl]
        /\ status' = IF null THEN "crashed" ELSE status
        /\ pcseg' = IF x.err = "ok" THEN Start[f] ELSE pcseg
        /\ Returns(x.err)
        /\ UNCHANGED <<procs, npid, cur, len, su>>

BootExec ==
  /\ boot = "sized" /\ boot' = "execd"
  /\ ExecFile(Init_x)

\* The bootstrap's rte.  If exec failed a0 still holds the file name's absolute
\* address, which user mode may not fetch from: the handler stops the machine.
BootRte ==
  /\ boot = "execd" /\ boot' = "user"
  /\ su' = FALSE
  /\ status' = IF pcseg = Absolute THEN "halted" ELSE status
  /\ UNCHANGED <<memory, procs, npid, cur, len, pcseg, ret, c>>

-----------------------------------------------------------------------------
(* User programs *)

\* The next instruction can be fetched.  When it cannot, the fault handler the
\* bootstrap installs finds a nonzero word where it looks for a user handler (the
\* ppid of the Process structure) and faults again for ever.
Fetches(no) == no \in SegNos /\ "EXEC" \in tables[cur][no].flags

Running == boot = "user" /\ status = "running" /\ Fetches(pcseg)

Exec(f) ==
  /\ Running
  /\ ExecFile(f)
  /\ UNCHANGED boot

\* exec, its name in a segment that is not VALID, as the Process structure's and the
\* stack's are not (EFAULT), is marked SUPER by its file (EPERM), cannot be read
\* (EACCES), or is past the table: there seg() throws a Fault, which oscall does not
\* catch, so that neither C nor d0 is set.
ExecBadName(r) ==
  /\ Running
  /\ r \in {"EFAULT", "EPERM", "EACCES", "Fault"}
  /\ Returns(r)
  /\ UNCHANGED <<memory, procs, npid, cur, len, su, boot, pcseg, status>>

\* A child's entry: its writable mapping becomes copy-on-write.
Inherited(e) ==
  IF Valid(e) /\ "WRITE" \in e.flags
  THEN [e EXCEPT !.flags = (@ \ {"WRITE"}) \cup {"COW"}]
  ELSE e

\* Mutant of Counted: the entries the child inherits are not counted.
CountedNot(ss, tbl) == ss

\* One more reference for each segment a VALID entry of tbl maps.
Counted(ss, tbl) ==
  [s \in 1 .. Len(ss) |->
     [ss[s] EXCEPT !.refs = @ + Cardinality(
        {no \in SegNos \ {Uarea} : Valid(tbl[no]) /\ tbl[no].segid = s})]]

\* unsigned_<18>(npid), 0 replaced by 2, until the pid is free.
Wrapped(n) == IF n % PidLimit = 0 THEN 2 ELSE n % PidLimit

IsNextPid(pid) ==
  \E k \in 0 .. PidLimit :
    /\ pid = Wrapped(npid + k)
    /\ pid \notin DOMAIN procs
    /\ \A j \in 0 .. k - 1 : Wrapped(npid + j) \in DOMAIN procs

\* fork in user mode: the child takes over.
Fork ==
  LET got == Salloc(Current("ok"), Page, NoFile, {})
      sid == Len(got.segs)
      own == NewTable(sid, got.segs[sid].base)
      child == [no \in SegNos |->
                  IF no = Uarea THEN own[no] ELSE Inherited(tables[cur][no])]
  IN  /\ Running
      /\ got.err = "ok"
      /\ heap' = got.heap
      /\ segs' = Counted([got.segs EXCEPT ![sid].refs = 1], tables[cur])
      /\ tables' = Joined(tables, sid, child)
      /\ \E pid \in 1 .. PidLimit - 1 :
           /\ IsNextPid(pid)
           /\ procs' = Joined(procs, pid, sid)
           /\ npid' = pid + 1
      /\ cur' = sid
      /\ Returns("ok")
      /\ UNCHANGED <<objs, len, su, boot, pcseg, status>>

ForkNoRoom ==
  /\ Running
  /\ ~HasRoom(heap, Page)
  /\ Returns("ENOMEM")
  /\ UNCHANGED <<memory, procs, npid, cur, len, su, boot, pcseg, status>>

\* kmalloc and kfree are refused to users; a number no case has does nothing.
OtherCall(r) ==
  /\ Running
  /\ r \in {"EPERM", "ok"}
  /\ Returns(r)
  /\ UNCHANGED <<memory, procs, npid, cur, len, su, boot, pcseg, status>>

\* STOP is not privileged.
Stop ==
  /\ Running
  /\ status' = "halted"
  /\ UNCHANGED <<memory, procs, npid, cur, len, su, boot, pcseg, ret, c>>

Boot == BootFork \/ Ssma \/ Ssml \/ BootExec \/ BootRte

Next ==
  \/ Boot
  \/ \E f \in Files \cup {Missing} : Exec(f)
  \/ \E r \in {"EFAULT", "EPERM", "EACCES", "Fault"} : ExecBadName(r)
  \/ Fork
  \/ ForkNoRoom
  \/ \E r \in {"EPERM", "ok"} : OtherCall(r)
  \/ Stop

Spec == Init /\ [][Next]_vars

-----------------------------------------------------------------------------
TypeOK ==
  /\ heap \in Heaps
  /\ segs \in Seq([refs : Nat, base : Nat, size : Nat,
                   ino : Files \cup {NoFile}, flags : SUBSET Flag])
  /\ DOMAIN objs \subseteq Files
  /\ \A f \in DOMAIN objs : objs[f].refs \in Nat /\ objs[f].whole \in BOOLEAN
  /\ DOMAIN tables \subseteq 1 .. Len(segs)
  /\ \A u \in DOMAIN tables :
       tables[u] \in [SegNos -> [segid : 0 .. Len(segs), base : Nat, size : Nat,
                                flags : SUBSET Flag]]
  /\ DOMAIN procs \subseteq 1 .. PidLimit - 1
  /\ \A p \in DOMAIN procs : procs[p] \in DOMAIN tables
  /\ npid \in 2 .. PidLimit
  /\ cur \in DOMAIN tables \cup {0} /\ len \in {0, NSeg}
  /\ ret \in Errnos \cup {"ok", "Fault"} /\ c \in BOOLEAN /\ su \in BOOLEAN
  /\ boot \in {"reset", "forked", "mapped", "sized", "execd", "user"}
  /\ status \in {"running", "halted", "crashed"}

Live(sid) == segs[sid].base # 0

(***************************************************************************)
(* No process, running or left behind by fork, keeps an entry that grants  *)
(* access to a segment that has been freed, or at another place or size    *)
(* than the segment list has it.  exec frees segments by reference count   *)
(* while older processes still map them (os.cc:154-180).                   *)
(***************************************************************************)
NoStaleMapping ==
  \A u \in DOMAIN tables, no \in SegNos :
    LET e == tables[u][no] IN
    e.flags # {} =>
      Live(e.segid) /\ e.base = segs[e.segid].base /\ e.size = segs[e.segid].size

(***************************************************************************)
(* A segment's count is the number of VALID entries of all processes that  *)
(* map it, and one more for as long as it is a Process structure or a      *)
(* stack, whose entries are not VALID (os.cc:144-146, 164-166, 450, 527).  *)
(***************************************************************************)
MappingsOf(sid) ==
  {m \in (DOMAIN tables) \X SegNos :
     Valid(tables[m[1]][m[2]]) /\ tables[m[1]][m[2]].segid = sid}

RefsAreMappings ==
  \A sid \in 1 .. Len(segs) :
    segs[sid].refs = Cardinality(MappingsOf(sid))
                     + IF Live(sid) /\ segs[sid].ino = NoFile THEN 1 ELSE 0

(***************************************************************************)
(* A loaded object's count is the number of segments that came from it; it *)
(* leaves the cache with the last of them (os.cc:123-128, 225-226).        *)
(***************************************************************************)
ObjectRefsAreSegments ==
  /\ \A f \in DOMAIN objs :
       objs[f].refs = Cardinality({sid \in 1 .. Len(segs) : segs[sid].ino = f})
  /\ \A sid \in 1 .. Len(segs) : segs[sid].ino \in DOMAIN objs \cup {NoFile}

(***************************************************************************)
(* While a program runs, every object in the cache is one that exec may    *)
(* hand out: completely loaded and with none of its segments freed.  exec  *)
(* on a half-loaded one would dereference a null Object (os.cc:453-468).   *)
(***************************************************************************)
CacheIsUsable ==
  /\ status # "crashed"
  /\ Running =>
       \A f \in DOMAIN objs :
         /\ objs[f].whole
         /\ DOMAIN objs[f].map = {s.no : s \in {x \in ToSet(Sections[f]) : x.size > 0}}
         /\ \A no \in DOMAIN objs[f].map :
              Live(objs[f].map[no]) /\ segs[objs[f].map[no]].ino = f

(***************************************************************************)
(* Two segments that are both allocated never share a page, and the heap   *)
(* still has each of them as a block of its own: frees by count never let  *)
(* kmalloc hand out memory that is mapped.                                 *)
(***************************************************************************)
SegmentsApart ==
  \A s \in 1 .. Len(segs) :
    Live(s) =>
      /\ heap.cell[segs[s].base] = PagesFor(segs[s].size)
      /\ \A t \in 1 .. Len(segs) :
           s # t => segs[t].base \notin
                      segs[s].base .. segs[s].base + PagesFor(segs[s].size) - 1

(***************************************************************************)
(* init.s:116-117 has an instruction after exec, for when it fails: a call *)
(* that returns an error leaves its caller able to run.  exec has already  *)
(* released the caller's segments.                                         *)
(***************************************************************************)
ErrorReturnsToCaller ==
  boot = "user" /\ status = "running" /\ c => Fetches(pcseg)
=============================================================================
