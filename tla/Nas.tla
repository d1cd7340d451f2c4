-------------------------------- MODULE Nas --------------------------------
(***************************************************************************)
(* The assembler (nas.cc) from parsed source to object file, and the       *)
(* loading of that file (object.cc, os.cc).  Two passes go through the     *)
(* lines: the first places them and defines the symbols, the second        *)
(* encodes them.  What they placed is collected into ranges of bytes and   *)
(* written; nothing of this depends on whether errors were reported, once  *)
(* the first pass is over.                                                 *)
(***************************************************************************)
EXTENDS NasCode, Decoder

CONSTANTS
  Sources,    \* the programs
  Row,        \* bytes of a DD line (30)
  Garbage     \* what the uninitialised operand of RTS, RTE and TRAP holds

ASSUME NasAssumption == Row \in Nat \ {0} /\ Garbage # {}

VARIABLES
  source,     \* source.lines
  phase,      \* what comes next; "stop", "crash" and "abort" end early
  at,         \* the line a pass is at
  asm,        \* segs, syms, locals, cseg, and start (sseg, saddr)
  insn,       \* sl.insn of the lines
  errs,       \* lines with an error reported
  object,     \* the object file
  image       \* the segments the kernel loaded

vars == <<source, phase, at, asm, insn, errs, object, image>>

NoInsn == [made |-> FALSE, seg |-> 0, addr |-> 0, ilen |-> 0, bytes |-> <<>>]

Init ==
  /\ source \in Sources /\ phase = "pass1" /\ at = 1
  /\ asm = [segs |-> <<>>, syms |-> <<>>, locals |-> <<>>, cseg |-> 0, start |-> <<0, 0>>]
  /\ insn = [k \in DOMAIN source |-> NoInsn]
  /\ errs = {} /\ object = <<>> /\ image = <<>>

-----------------------------------------------------------------------------
(* The first pass *)

\* align() is overridden by these.
Unaligned == {"SEG", "ORG", "EQU", "START", "DB"}

Define(a, name, v) == [a EXCEPT !.syms = (name :> v) @@ @]

NewSegment(a, l, type, value, flags) ==
  Define([a EXCEPT !.segs = Append(@, [name |-> l.label, type |-> type, based |-> FALSE,
                                       value |-> value, addr |-> 0, length |-> 0,
                                       flags |-> flags])],
         l.label, Val("seg", FALSE, 0, Len(a.segs) + 1))

\* A segment without operands is declared, not entered.
AfterSeg(a, l) ==
  LET v == Address(l.args[1], a)
      n == Len(l.args)
      enter(b, s) == [b EXCEPT !.cseg = s]
      new == Len(a.segs) + 1
  IN CASE l.label = "" -> enter(a, v.seg)
       [] l.label # "" /\ n = 0 -> NewSegment(a, l, "relocatable", 0, 0)
       [] l.label # "" /\ n > 0 ->
            IF l.args[1].k = "str" THEN enter(NewSegment(a, l, "external", 0, 0), new)
            ELSE IF v.seg = 0
            THEN enter(NewSegment(a, l, "literal", v.v,
                                  IF n = 2 THEN Address(l.args[2], a).v ELSE 4), new)
            ELSE enter(Define(a, l.label, Val("seg", FALSE, 0, v.seg)), v.seg)

AfterOrg(a, l) ==
  LET v == Address(l.args[1], a)
      s == IF v.seg # 0 THEN v.seg ELSE a.cseg
  IN [a EXCEPT !.segs[s].addr = v.v, !.segs[s].based = TRUE, !.cseg = s]

Directive(a, l) ==
  CASE l.op = "SEG" -> AfterSeg(a, l)
    [] l.op = "ORG" -> AfterOrg(a, l)
    [] l.op = "EQU" -> LET v == Address(l.args[1], a)
                       IN Define(a, l.label, IF v.type = "num" THEN [v EXCEPT !.seg = 0] ELSE v)
    [] OTHER -> a

Align(a, op) ==
  IF op \in Unaligned THEN a ELSE [a EXCEPT !.segs[a.cseg].addr = @ + (@ % 2)]

Label(a, l) ==
  LET here == a.segs[a.cseg].addr
  IN IF l.loc # 0
     THEN [a EXCEPT !.locals = Append(@, [num |-> l.loc, addr |-> here, seg |-> a.cseg])]
     ELSE Define(a, l.label, Val("addr", FALSE, here, a.cseg))

\* Mutant of Extend: the length of a segment is where it was left last.
ExtendAlways(a) ==
  IF InSegment(a) THEN [a EXCEPT !.segs[a.cseg].length = a.segs[a.cseg].addr] ELSE a

Extend(a) ==
  IF InSegment(a) /\ a.segs[a.cseg].addr > a.segs[a.cseg].length
  THEN [a EXCEPT !.segs[a.cseg].length = a.segs[a.cseg].addr] ELSE a

Line == source[at]
Quit(why) == phase' = why /\ UNCHANGED <<source, at, asm, insn, errs, object, image>>

\* To the next line, or from a pass to what follows it.
Advance(then) ==
  /\ at' = IF at < Len(source) THEN at + 1 ELSE 1
  /\ phase' = IF at < Len(source) THEN phase ELSE then

\* SEG and EQU name something else than their place.
Names(l) ==
  (l.label # "" \/ l.loc # 0) /\ l.op # "SEG" /\ (l.op = "EQU" => Len(l.args) # 1)

Double(l, a) == Names(l) /\ l.loc = 0 /\ l.label \in DOMAIN a.syms

\* Alignment and labels use cseg->addr, of no segment.
Crashes(l, a) == a.cseg = 0 /\ (l.op \notin Unaligned \/ (Names(l) /\ ~Double(l, a)))

\* The line is at the address of b's segment, which moves on by size.
Reserve(b, len, size) ==
  /\ asm' = Extend(IF size = 0 THEN b ELSE [b EXCEPT !.segs[b.cseg].addr = @ + size])
  /\ insn' = [insn EXCEPT ![at] =
                IF len = 0 THEN [@ EXCEPT !.made = TRUE]
                ELSE [made |-> TRUE, seg |-> b.cseg, addr |-> b.segs[b.cseg].addr,
                      ilen |-> len, bytes |-> <<>>]]
  /\ Advance("pass2")
  /\ UNCHANGED <<source, errs, object, image>>

PlaceLine(l, a, len) ==
  IF Crashes(l, a) THEN Quit("crash")
  ELSE IF Double(l, a) \/ (len > 0 /\ (~InSegment(a) \/ a.segs[a.cseg].type = "external"))
  THEN Quit("stop")
  ELSE Reserve(IF Names(l) THEN Label(Align(a, l.op), l) ELSE Align(a, l.op), len,
               len + IF l.op = "DS" THEN Address(l.args[1], asm).v ELSE 0)

PassOne ==
  /\ phase = "pass1" /\ Line.op \in Known
  /\ IF Refused1(Line, asm)
     THEN Quit(IF Crashes(Line, asm) THEN "crash" ELSE "stop")
     ELSE PlaceLine(Line, Directive(asm, Line), Length(Line, asm))

\* No instruction is made of a line without a mnemonic (its label is lost) or with
\* an unknown one, nor of one the parser rejected ("error"); none of it is fatal.
PassOneSkip ==
  /\ phase = "pass1" /\ Line.op \notin Known
  /\ errs' = IF Line.op = "" THEN errs ELSE errs \cup {at}
  /\ asm' = IF Line.op \in {"", "error"} THEN Extend(asm) ELSE asm
  /\ Advance("pass2")
  /\ UNCHANGED <<source, insn, object, image>>

-----------------------------------------------------------------------------
(* The second pass *)

\* The assembler as the second pass has it for line k.
Revisit(k) ==
  LET i == insn[k]
  IN IF i.seg = 0 THEN [asm EXCEPT !.cseg = 0]
     ELSE [asm EXCEPT !.cseg = i.seg, !.segs[i.seg].addr = i.addr]

\* Lengths that differ end the pass, with what comes after left without bytes.
Emit(a, out, desync) ==
  /\ insn' = [insn EXCEPT ![at].bytes = out.bytes]
  /\ asm' = IF Line.op = "START" /\ ~out.stop
            THEN LET v == Address(Line.args[1], a) IN [a EXCEPT !.start = <<v.seg, v.v>>]
            ELSE a
  /\ errs' = IF out.err \/ desync THEN errs \cup {at} ELSE errs
  /\ IF desync THEN phase' = "collect" /\ at' = at ELSE Advance("collect")
  /\ UNCHANGED <<source, object, image>>

Compare(a, out) == Emit(a, out, ~out.stop /\ Len(out.bytes) # insn[at].ilen)

PassTwo ==
  /\ phase = "pass2" /\ insn[at].made
  /\ \E g \in IF Line.op \in DOMAIN Imm9Bits /\ Line.args = <<>> THEN Garbage ELSE {0} :
       Compare(Revisit(at), Code(Line, insn[at], Revisit(at), g))

PassTwoSkip ==
  /\ phase = "pass2" /\ ~insn[at].made
  /\ Advance("collect")
  /\ UNCHANGED <<source, asm, insn, errs, object, image>>

-----------------------------------------------------------------------------
(* Ranges and the object file *)

\* Mutant of Overlaps: ranges that touch count as well.
OverlapsTouching(s, r) ==
  (r.from < s.from /\ r.to >= s.from) \/ (r.from >= s.from /\ r.from <= s.to)

Overlaps(s, r) == (r.from < s.from /\ r.to > s.from) \/ (r.from >= s.from /\ r.from < s.to)

Join(s, r) == [from |-> s.from, to |-> r.to, bytes |-> s.bytes \o r.bytes]

(***************************************************************************)
(* One range into the list d of a segment, up to the first place where the *)
(* loop settles; a range that follows on another is not compared with the  *)
(* ones after it.  ok is lost where the code throws.                       *)
(***************************************************************************)
Insert(s, r) ==
  LET d == s.d
      k == CHOOSE k \in DOMAIN d :
             LET settles(j) == \/ Overlaps(d[j], r) \/ r.from = d[j].to \/ j = Len(d)
                               \/ d[j + 1].from = r.to
             IN settles(k) /\ \A j \in 1 .. k - 1 : ~settles(j)
      next == k < Len(d) /\ d[k + 1].from = r.to
      with(new) == [ok |-> TRUE, d |-> new]
  IN IF ~s.ok THEN s
     ELSE IF d = <<>> THEN with(<<r>>)
     ELSE IF Overlaps(d[k], r) THEN [s EXCEPT !.ok = FALSE]
     ELSE IF r.from = d[k].to
     THEN IF next THEN with(RemoveAt([d EXCEPT ![k] = Join(Join(@, r), d[k + 1])], k + 1))
          ELSE with([d EXCEPT ![k] = Join(@, r)])
     ELSE IF k = Len(d) THEN with(Append(d, r))
     ELSE with([d EXCEPT ![k + 1] = Join(r, @)])

Ranges(s) ==
  FoldLeft(LAMBDA acc, i :
             IF i.seg = s
             THEN Insert(acc, [from |-> i.addr, to |-> i.addr + i.ilen, bytes |-> i.bytes])
             ELSE acc,
           [ok |-> TRUE, d |-> <<>>], insn)

\* Mutant of Rows: every row has the address of the first.
RowsInPlace(r) ==
  [n \in 1 .. (Len(r.bytes) + Row - 1) \div Row |->
     [t |-> "DD", addr |-> r.from,
      bytes |-> SubSeq(r.bytes, (n - 1) * Row + 1, IF n * Row < Len(r.bytes) THEN n * Row
                                                   ELSE Len(r.bytes))]]

Rows(r) ==
  [n \in 1 .. (Len(r.bytes) + Row - 1) \div Row |->
     [t |-> "DD", addr |-> r.from + (n - 1) * Row,
      bytes |-> SubSeq(r.bytes, (n - 1) * Row + 1, IF n * Row < Len(r.bytes) THEN n * Row
                                                   ELSE Len(r.bytes))]]

Section(s) ==
  LET g == asm.segs[s]
  IN <<[t |-> "SL", value |-> g.value, length |-> g.length, flags |-> g.flags]>>
       \o FlattenSeq([k \in DOMAIN Ranges(s).d |-> Rows(Ranges(s).d[k])])

Write ==
  /\ phase = "collect"
  /\ IF \A s \in DOMAIN asm.segs : Ranges(s).ok
     THEN /\ object' = FlattenSeq([s \in DOMAIN asm.segs |-> Section(s)])
                        \o (IF asm.start = <<0, 0>> THEN <<>>
                            ELSE <<[t |-> "XS", value |-> asm.segs[asm.start[1]].value,
                                    addr |-> asm.start[2]]>>)
          /\ phase' = "load"
     ELSE phase' = "abort" /\ UNCHANGED object   \* nobody catches the string
  /\ UNCHANGED <<source, at, asm, insn, errs, image>>

-----------------------------------------------------------------------------
(* The kernel loads the object *)

\* Mutant of Loaded: a row does not replace what an earlier one wrote.
LoadedFirst(segs, line) ==
  CASE line.t = "SL" -> Append(segs, [value |-> line.value, size |-> line.length,
                                      flags |-> line.flags, cells |-> <<>>])
    [] line.t = "DD" -> [segs EXCEPT ![1].cells =
                           [x \in line.addr .. line.addr + Len(line.bytes) - 1 |->
                              line.bytes[x - line.addr + 1]] @@ @]
    [] OTHER -> segs

\* Object::load and the copying in load(); a row belongs to the last SL.
Loaded(segs, line) ==
  CASE line.t = "SL" -> Append(segs, [value |-> line.value, size |-> line.length,
                                      flags |-> line.flags, cells |-> <<>>])
    [] line.t = "DD" -> [segs EXCEPT ![Len(segs)].cells =
                           [x \in line.addr .. line.addr + Len(line.bytes) - 1 |->
                              line.bytes[x - line.addr + 1]] @@ @]
    [] OTHER -> segs

\* Segments of no size are left out.
Load ==
  /\ phase = "load"
  /\ image' = SelectSeq(FoldLeft(Loaded, <<>>, object), LAMBDA s : s.size > 0)
  /\ phase' = "done"
  /\ UNCHANGED <<source, at, asm, insn, errs, object>>

Next == PassOne \/ PassOneSkip \/ PassTwo \/ PassTwoSkip \/ Write \/ Load

Spec == Init /\ [][Next]_vars
=============================================================================
