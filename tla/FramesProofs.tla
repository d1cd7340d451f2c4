---------------------------- MODULE FramesProofs ----------------------------
(***************************************************************************)
(* Proofs about Frames for every size of the stack, width of a word, code, *)
(* data and lists of registers.                                            *)
(*                                                                         *)
(* FramesHold alone is not inductive.  FramesInv adds where the frames lie *)
(* (in the segment, one before the other, the first at its start) and what *)
(* each must be for the instruction that takes it off to find it; and, for *)
(* a stack that is lost, that what is read as an address is one.           *)
(***************************************************************************)
EXTENDS Frames, FiniteSetTheorems, TLAPS

-----------------------------------------------------------------------------
(* Addresses *)

Limit == Wrap * Wrap

LEMMA LimitIsLarge == Limit \in Nat /\ Room \in Nat /\ Room + 36 < Limit
<1>1. Room \in Nat /\ Wrap \in Nat /\ Wrap >= 7 /\ Wrap >= Room + 7
  BY FramesAssumption
<1>2. Wrap * Wrap >= 7 * Wrap
  BY <1>1
<1>3. Wrap * Wrap \in Nat
  BY <1>1
<1>4. QED
  BY <1>1, <1>2, <1>3 DEF Limit

LEMMA LongIs == Long \in Nat /\ Long > 0 /\ Room + 6 < Long /\ Long <= Limit
BY FramesAssumption DEF Limit

LEMMA CutInRange ==
  ASSUME NEW n \in Int
  PROVE  Cut(n) \in 0 .. Limit - 1
<1>1. Limit \in Nat /\ Limit > 0 /\ Cut(n) = n % Limit
  BY LimitIsLarge DEF Cut, Limit
<1>2. QED
  BY <1>1

LEMMA CutIsSame ==
  ASSUME NEW n \in 0 .. Limit - 1
  PROVE  Cut(n) = n
<1>1. Limit \in Nat /\ Limit > 0 /\ Cut(n) = n % Limit
  BY LimitIsLarge DEF Cut, Limit
<1>2. QED
  BY <1>1

\* What is granted behind an address in the segment lies in it.
LEMMA GrantedFits ==
  ASSUME NEW at \in Nat, at <= Room, NEW n \in 0 .. 36, Grants(at, n)
  PROVE  at + n <= Room
<1>1. at + n \in 0 .. Limit - 1
  BY LimitIsLarge
<1>2. QED
  BY <1>1, CutIsSame DEF Grants

-----------------------------------------------------------------------------
(* Lists of registers *)

IsList(list) == list \subseteq {0, 8, 15, 16, 17} \/ list = {18}

LEMMA ListsAreLists == \A list \in Lists : IsList(list)
BY FramesAssumption DEF IsList

LEMMA ListIsFinite ==
  ASSUME NEW list, IsList(list)
  PROVE  IsFiniteSet(list) /\ list \subseteq Int
<1>1. IsFiniteSet({0, 8, 15, 16, 17}) /\ IsFiniteSet({18})
  <2>1. IsFiniteSet({0}) /\ IsFiniteSet({18})
    BY FS_Singleton
  <2>2. IsFiniteSet({0} \cup {8})
    BY <2>1, FS_AddElement
  <2>3. IsFiniteSet(({0} \cup {8}) \cup {15})
    BY <2>2, FS_AddElement
  <2>4. IsFiniteSet((({0} \cup {8}) \cup {15}) \cup {16})
    BY <2>3, FS_AddElement
  <2>5. IsFiniteSet(((({0} \cup {8}) \cup {15}) \cup {16}) \cup {17})
    BY <2>4, FS_AddElement
  <2>6. {0, 8, 15, 16, 17} = ((({0} \cup {8}) \cup {15}) \cup {16}) \cup {17}
    OBVIOUS
  <2>7. QED
    BY <2>1, <2>5, <2>6
<1>2. list \in SUBSET {0, 8, 15, 16, 17} \/ list = {18}
  BY DEF IsList
<1>3. QED
  BY <1>1, <1>2, FS_Subset

LEMMA SizeIs == \A i : Size(i) \in {2, 4, 6}
BY DEF Size

OfSize(list, n) == {i \in list : Size(i) = n}

LEMMA BytesIsNat ==
  ASSUME NEW list, IsFiniteSet(list)
  PROVE  /\ \A n \in {2, 4, 6} : IsFiniteSet(OfSize(list, n)) /\ Cardinality(OfSize(list, n)) \in Nat
         /\ Bytes(list) = 4 * Cardinality(OfSize(list, 4)) + 6 * Cardinality(OfSize(list, 6))
                            + 2 * Cardinality(OfSize(list, 2))
         /\ Bytes(list) \in Nat
<1>1. ASSUME NEW n \in {2, 4, 6}
      PROVE  IsFiniteSet(OfSize(list, n)) /\ Cardinality(OfSize(list, n)) \in Nat
  <2>1. OfSize(list, n) \in SUBSET list
    BY DEF OfSize
  <2>2. QED
    BY <2>1, FS_Subset, FS_CardinalityType
<1>2. Bytes(list) = 4 * Cardinality(OfSize(list, 4)) + 6 * Cardinality(OfSize(list, 6))
                      + 2 * Cardinality(OfSize(list, 2))
  BY DEF Bytes, OfSize
<1>3. QED
  BY <1>1, <1>2

\* A longer list takes no fewer bytes.
LEMMA BytesGrow ==
  ASSUME NEW list, IsFiniteSet(list), NEW part, part \subseteq list
  PROVE  Bytes(part) <= Bytes(list)
<1>1. IsFiniteSet(part)
  <2>1. part \in SUBSET list
    OBVIOUS
  <2>2. QED
    BY <2>1, FS_Subset
<1>2. ASSUME NEW n \in {2, 4, 6}
      PROVE  Cardinality(OfSize(part, n)) <= Cardinality(OfSize(list, n))
  <2>1. OfSize(part, n) \in SUBSET OfSize(list, n)
    BY DEF OfSize
  <2>2. IsFiniteSet(OfSize(list, n))
    BY BytesIsNat
  <2>3. QED
    BY <2>1, <2>2, FS_Subset
<1>3. QED
  BY <1>1, <1>2, BytesIsNat

\* A register adds its size.
LEMMA BytesAdd ==
  ASSUME NEW list, IsFiniteSet(list), NEW i, i \notin list
  PROVE  Bytes(list \cup {i}) = Bytes(list) + Size(i)
<1>1. IsFiniteSet(list \cup {i})
  BY FS_AddElement
<1>2. ASSUME NEW n \in {2, 4, 6}
      PROVE  Cardinality(OfSize(list \cup {i}, n)) =
               Cardinality(OfSize(list, n)) + IF Size(i) = n THEN 1 ELSE 0
  <2>1. IsFiniteSet(OfSize(list, n)) /\ i \notin OfSize(list, n)
    BY BytesIsNat DEF OfSize
  <2>2. CASE Size(i) = n
    <3>1. OfSize(list \cup {i}, n) = OfSize(list, n) \cup {i}
      BY <2>2 DEF OfSize
    <3>2. Cardinality(OfSize(list, n) \cup {i}) = Cardinality(OfSize(list, n)) + 1
      BY <2>1, FS_AddElement
    <3>3. QED
      BY <2>2, <3>1, <3>2
  <2>3. CASE Size(i) # n
    <3>1. OfSize(list \cup {i}, n) = OfSize(list, n)
      BY <2>3 DEF OfSize
    <3>2. Cardinality(OfSize(list, n)) \in Nat
      BY BytesIsNat
    <3>3. QED
      BY <2>3, <3>1, <3>2
  <2>4. QED
    BY <2>2, <2>3
<1>3. Size(i) \in {2, 4, 6}
  BY SizeIs
<1>4. QED
  BY <1>1, <1>2, <1>3, BytesIsNat

LEMMA BytesOfNothing == Bytes({}) = 0
<1>1. \A n : OfSize({}, n) = {}
  BY DEF OfSize
<1>2. IsFiniteSet({}) /\ Cardinality({}) = 0
  BY FS_EmptySet
<1>3. Bytes({}) = 4 * Cardinality(OfSize({}, 4)) + 6 * Cardinality(OfSize({}, 6))
                    + 2 * Cardinality(OfSize({}, 2))
  BY DEF Bytes, OfSize
<1>4. QED
  BY <1>1, <1>2, <1>3

\* The registers of a list lie one behind the other.
LEMMA OffsetsAreApart ==
  ASSUME NEW list, IsList(list)
  PROVE  /\ Bytes(list) \in 0 .. 16
         /\ \A i \in list : Offset(list, i) \in Nat /\ Offset(list, i) + Size(i) <= Bytes(list)
         /\ \A i, j \in list : i < j => Offset(list, i) + Size(i) <= Offset(list, j)
<1>1. IsFiniteSet(list) /\ list \subseteq Int
  BY ListIsFinite
<1>2. Bytes(list) \in Nat
  BY <1>1, BytesIsNat
<1>3. ASSUME NEW i \in list
      PROVE  /\ Offset(list, i) \in Nat
             /\ Bytes({j \in list : j <= i}) = Offset(list, i) + Size(i)
             /\ IsFiniteSet({j \in list : j < i})
  <2>1. {j \in list : j < i} \in SUBSET list
    OBVIOUS
  <2>2. IsFiniteSet({j \in list : j < i})
    BY <1>1, <2>1, FS_Subset
  <2>3. {j \in list : j <= i} = {j \in list : j < i} \cup {i} /\ i \notin {j \in list : j < i}
    <3>1. i \in Int /\ \A j \in list : j \in Int
      BY <1>1
    <3>2. ~(i < i) /\ \A j \in list : j <= i <=> j < i \/ j = i
      BY <3>1
    <3>3. QED
      BY <3>2
  <2>4. Bytes({j \in list : j < i} \cup {i}) = Bytes({j \in list : j < i}) + Size(i)
    BY <2>2, <2>3, BytesAdd
  <2>5. QED
    BY <2>2, <2>3, <2>4, BytesIsNat DEF Offset
<1>4. ASSUME NEW i \in list PROVE Offset(list, i) + Size(i) <= Bytes(list)
  <2>1. {j \in list : j <= i} \subseteq list
    OBVIOUS
  <2>2. Bytes({j \in list : j <= i}) <= Bytes(list)
    BY <1>1, <2>1, BytesGrow
  <2>3. QED
    BY <1>3, <2>2
<1>5. ASSUME NEW i \in list, NEW j \in list, i < j
      PROVE  Offset(list, i) + Size(i) <= Offset(list, j)
  <2>1. {k \in list : k <= i} \subseteq {k \in list : k < j}
    <3>1. i \in Int /\ j \in Int /\ \A k \in list : k \in Int
      BY <1>1
    <3>2. \A k \in list : k <= i => k < j
      BY <1>5, <3>1
    <3>3. QED
      BY <3>2
  <2>2. Bytes({k \in list : k <= i}) <= Bytes({k \in list : k < j})
    BY <1>3, <2>1, BytesGrow
  <2>3. QED
    BY <1>3, <2>2 DEF Offset
<1>6. Bytes(list) <= 16
  <2>1. Bytes({}) = 0 /\ IsFiniteSet({})
    BY BytesOfNothing, FS_EmptySet
  <2>2. Bytes({} \cup {0}) = 4 /\ IsFiniteSet({} \cup {0})
    BY <2>1, BytesAdd, FS_AddElement DEF Size
  <2>3. Bytes(({} \cup {0}) \cup {8}) = 10 /\ IsFiniteSet(({} \cup {0}) \cup {8})
    BY <2>2, BytesAdd, FS_AddElement DEF Size
  <2> DEFINE three == (({} \cup {0}) \cup {8}) \cup {15}
             four == three \cup {16}
  <2>4. Bytes(three) = 12 /\ IsFiniteSet(three)
    BY <2>3, BytesAdd, FS_AddElement DEF Size
  <2>5. Bytes(four) = 14 /\ IsFiniteSet(four)
    BY <2>4, BytesAdd, FS_AddElement DEF Size
  <2>6. Bytes(four \cup {17}) = 16 /\ IsFiniteSet(four \cup {17})
    BY <2>5, BytesAdd, FS_AddElement DEF Size
  <2>7. Bytes({} \cup {18}) = 2
    BY <2>1, BytesAdd DEF Size
  <2>8. CASE list \subseteq {0, 8, 15, 16, 17}
    <3>1. list \subseteq four \cup {17}
      BY <2>8
    <3>2. Bytes(list) <= Bytes(four \cup {17})
      BY <2>6, <3>1, BytesGrow, Zenon
    <3>3. QED
      BY <2>6, <3>2
  <2>9. CASE list = {18}
    <3>1. list = {} \cup {18}
      BY <2>9
    <3>2. QED
      BY <2>7, <3>1
  <2>10. QED
    BY <2>8, <2>9 DEF IsList
<1>7. Bytes(list) \in 0 .. 16
  BY <1>2, <1>6
<1>8. QED
  BY <1>3, <1>4, <1>5, <1>7, Zenon

-----------------------------------------------------------------------------
(* The state of the machine, and what the operators make of it *)

IsAddress(v) == v = [seg |-> v.seg, addr |-> v.addr] /\ v.addr \in 0 .. Limit - 1

\* A fifth or sixth byte belongs to an address: nothing else is that long.
IsMemory(m) ==
  /\ m = [x \in 0 .. Room - 1 |-> m[x]]
  /\ \A x \in 0 .. Room - 1 : m[x][2] \in {4, 5} => IsAddress(m[x][1])

IsState(s) ==
  /\ s = [d |-> s.d, a |-> s.a, w |-> s.w, pc |-> s.pc, mem |-> s.mem, fault |-> s.fault]
  /\ s.d = [r \in {0} |-> s.d[r]] /\ s.w = [r \in {15} |-> s.w[r]]
  /\ s.a = [r \in {0, 7} |-> s.a[r]]
  /\ IsAddress(s.a[0]) /\ IsAddress(s.a[7])
  /\ IsMemory(s.mem)
  /\ s.fault \in BOOLEAN

\* t is s but for a7.
OnlyA7(t, s) ==
  /\ t.d = s.d /\ t.w = s.w /\ t.pc = s.pc /\ t.mem = s.mem /\ t.fault = s.fault
  /\ t.a[0] = s.a[0]

LEMMA JunkIsAddress == IsAddress(Junk)
<1>1. Wrap \in Nat /\ Wrap >= 7
  BY FramesAssumption
<1>2. Wrap * Wrap >= 7 * Wrap
  BY <1>1
<1>3. Wrap \in 0 .. Limit - 1
  BY <1>1, <1>2, LimitIsLarge DEF Limit
<1>4. QED
  BY <1>3 DEF Junk, IsAddress

\* The lower 36 bits of an address are one.
LEMMA InMemoryIs ==
  ASSUME NEW v, IsAddress(v)
  PROVE  /\ IsAddress(InMemory(8, v))
         /\ v.addr < Long => InMemory(8, v) = v
<1>1. v = [seg |-> v.seg, addr |-> v.addr] /\ v.addr \in Nat
  BY LimitIsLarge DEF IsAddress
<1>2. InMemory(8, v) = [v EXCEPT !.addr = v.addr % Long]
  BY DEF InMemory
<1>3. [v EXCEPT !.addr = v.addr % Long] = [seg |-> v.seg, addr |-> v.addr % Long]
  BY <1>1
<1>4. v.addr % Long \in 0 .. Limit - 1 /\ (v.addr < Long => v.addr % Long = v.addr)
  BY <1>1, LongIs, LimitIsLarge
<1>5. QED
  BY <1>1, <1>2, <1>3, <1>4 DEF IsAddress

LEMMA PointersAreAddresses == \A p \in Code \cup Pointers : IsAddress(p)
BY FramesAssumption DEF IsAddress, Limit

\* Six bytes are an address, or no whole.
LEMMA GetIsAddress ==
  ASSUME NEW m, IsMemory(m), NEW at \in Int
  PROVE  IsAddress(Get(m, at, 6))
<1>1. CASE at \in DOMAIN m /\ \A k \in 0 .. 6 - 1 : at + k \in DOMAIN m /\ m[at + k] = <<m[at][1], k>>
  <2>1. at + 4 \in 0 .. Room - 1 /\ m[at + 4] = <<m[at][1], 4>>
    BY <1>1 DEF IsMemory
  <2>2. IsAddress(m[at][1])
    BY <2>1 DEF IsMemory
  <2>3. Get(m, at, 6) = m[at][1]
    BY <1>1 DEF Get
  <2>4. QED
    BY <2>2, <2>3
<1>2. CASE ~(at \in DOMAIN m /\ \A k \in 0 .. 6 - 1 : at + k \in DOMAIN m /\ m[at + k] = <<m[at][1], k>>)
  <2>1. Get(m, at, 6) = Junk
    BY <1>2 DEF Get
  <2>2. QED
    BY <2>1, JunkIsAddress
<1>3. QED
  BY <1>1, <1>2

\* What is found depends on the bytes that are read.
LEMMA GetSame ==
  ASSUME NEW m, NEW o, DOMAIN m = DOMAIN o, NEW at \in Int, NEW n \in Nat \ {0},
         \A x \in at .. at + n - 1 : m[x] = o[x]
  PROVE  Get(m, at, n) = Get(o, at, n)
<1>1. m[at] = o[at] /\ \A k \in 0 .. n - 1 : m[at + k] = o[at + k]
  BY Z3
<1>2. QED
  BY <1>1 DEF Get

\* The bytes of v lie at an address.
Lies(m, at, n, v) == \A x \in at .. at + n - 1 : m[x] = <<v, x - at>>

\* What was put is found.
LEMMA GetWhole ==
  ASSUME NEW m, DOMAIN m = 0 .. Room - 1, NEW at \in Nat, NEW n \in Nat \ {0}, at + n <= Room,
         NEW v, Lies(m, at, n, v)
  PROVE  Get(m, at, n) = v
<1>1. m[at] = <<v, 0>> /\ at \in DOMAIN m
  BY LimitIsLarge DEF Lies
<1>2. m[at][1] = v
  BY <1>1
<1>3. ASSUME NEW k \in 0 .. n - 1
      PROVE  at + k \in DOMAIN m /\ m[at + k] = <<v, k>>
  <2>1. at + k \in 0 .. Room - 1 /\ at + k \in at .. at + n - 1 /\ (at + k) - at = k
    BY LimitIsLarge
  <2>2. m[at + k] = <<v, (at + k) - at>>
    BY <2>1 DEF Lies
  <2>3. QED
    BY <2>1, <2>2
<1>4. at \in DOMAIN m /\ \A k \in 0 .. n - 1 : at + k \in DOMAIN m /\ m[at + k] = <<m[at][1], k>>
  BY <1>1, <1>3, <1>2, Zenon
<1>5. QED
  BY <1>2, <1>4, Zenon DEF Get

LEMMA PutIs ==
  ASSUME NEW m, IsMemory(m), NEW at \in Nat, at + 6 <= Room, NEW v, IsAddress(v)
  PROVE  /\ IsMemory(Put(m, at, v, 6)) /\ Get(Put(m, at, v, 6), at, 6) = v
         /\ \A x \in 0 .. Room - 1 : x < at => Put(m, at, v, 6)[x] = m[x]
<1> DEFINE o == Put(m, at, v, 6)
<1>1. DOMAIN m = 0 .. Room - 1 /\ (DOMAIN m) \cup at .. at + 6 - 1 = 0 .. Room - 1
  <2>1. Room \in Nat /\ DOMAIN m = 0 .. Room - 1
    BY LimitIsLarge DEF IsMemory
  <2>2. \A x \in at .. at + 6 - 1 : x \in 0 .. Room - 1
    BY <2>1
  <2>3. QED
    BY <2>1, <2>2
<1>2. o = [x \in 0 .. Room - 1 |-> IF x \in at .. at + 6 - 1 THEN <<v, x - at>> ELSE m[x]]
  BY <1>1 DEF Put
<1> HIDE DEF o
<1>3. /\ \A x \in 0 .. Room - 1 : x \in at .. at + 6 - 1 => o[x] = <<v, x - at>>
      /\ \A x \in 0 .. Room - 1 : x \notin at .. at + 6 - 1 => o[x] = m[x]
      /\ DOMAIN o = 0 .. Room - 1
  BY <1>2
<1>4. IsMemory(o)
  <2>1. o = [x \in 0 .. Room - 1 |-> o[x]]
    BY <1>2
  <2>2. ASSUME NEW x \in 0 .. Room - 1, o[x][2] \in {4, 5} PROVE IsAddress(o[x][1])
    <3>1. CASE x \in at .. at + 6 - 1
      BY <1>3, <3>1
    <3>2. CASE x \notin at .. at + 6 - 1
      BY <1>3, <2>2, <3>2 DEF IsMemory
    <3>3. QED
      BY <3>1, <3>2
  <2>3. QED
    BY <2>1, <2>2 DEF IsMemory
<1>5. Get(o, at, 6) = v
  <2>1. DOMAIN o = 0 .. Room - 1 /\ Lies(o, at, 6, v)
    BY <1>3, LimitIsLarge DEF Lies
  <2>2. 6 \in Nat \ {0}
    OBVIOUS
  <2>3. QED
    BY <2>1, <2>2, GetWhole
<1>6. \A x \in 0 .. Room - 1 : x < at => o[x] = m[x]
  <2>1. \A x \in 0 .. Room - 1 : x < at => x \notin at .. at + 6 - 1
    OBVIOUS
  <2>2. QED
    BY <1>3, <2>1
<1>7. QED
  BY <1>4, <1>5, <1>6 DEF o

\* a7 moves, and nothing else.
LEMMA MoveIs ==
  ASSUME NEW s, IsState(s), NEW n \in Int
  PROVE  /\ IsState(Move(s, n)) /\ OnlyA7(Move(s, n), s)
         /\ Move(s, n).a[7] = [seg |-> s.a[7].seg, addr |-> Cut(Top(s) + n)]
<1> DEFINE t == Move(s, n)
<1>1. Top(s) = s.a[7].addr /\ Top(s) \in Int /\ Cut(Top(s) + n) \in 0 .. Limit - 1
  BY CutInRange DEF IsState, IsAddress, Top
<1>2. s.a[7] = [seg |-> s.a[7].seg, addr |-> s.a[7].addr]
  BY DEF IsState, IsAddress
<1>3. t = [s EXCEPT !.a = [s.a EXCEPT ![7] = [s.a[7] EXCEPT !.addr = Cut(s.a[7].addr + n)]]]
  BY DEF Move
<1>4. [s.a[7] EXCEPT !.addr = Cut(s.a[7].addr + n)] = [seg |-> s.a[7].seg, addr |-> Cut(Top(s) + n)]
  BY <1>1, <1>2
<1> DEFINE v == [seg |-> s.a[7].seg, addr |-> Cut(Top(s) + n)]
<1>5. IsAddress(v)
  BY <1>1 DEF IsAddress
<1> HIDE DEF v, t
<1>6. t = [s EXCEPT !.a = [s.a EXCEPT ![7] = v]]
  BY <1>3, <1>4 DEF v
<1>7. t.a = [s.a EXCEPT ![7] = v] /\ t.d = s.d /\ t.w = s.w /\ t.pc = s.pc /\ t.mem = s.mem
      /\ t.fault = s.fault
      /\ t = [d |-> t.d, a |-> t.a, w |-> t.w, pc |-> t.pc, mem |-> t.mem, fault |-> t.fault]
  BY <1>6 DEF IsState
<1>8. t.a[0] = s.a[0] /\ t.a[7] = v /\ t.a = [r \in {0, 7} |-> t.a[r]]
  <2>1. DOMAIN s.a = {0, 7}
    BY DEF IsState
  <2>2. QED
    BY <1>7, <2>1
<1>9. QED
  BY <1>5, <1>7, <1>8 DEF IsState, OnlyA7, t, v

LEMMA FaultFieldIs ==
  ASSUME NEW s, IsState(s), NEW b \in BOOLEAN
  PROVE  LET t == [s EXCEPT !.fault = b]
         IN /\ IsState(t) /\ t.fault = b
            /\ t.d = s.d /\ t.w = s.w /\ t.a = s.a /\ t.pc = s.pc /\ t.mem = s.mem
<1> DEFINE t == [s EXCEPT !.fault = b]
<1>1. /\ t.d = s.d /\ t.w = s.w /\ t.a = s.a /\ t.pc = s.pc /\ t.mem = s.mem /\ t.fault = b
      /\ t = [d |-> t.d, a |-> t.a, w |-> t.w, pc |-> t.pc, mem |-> t.mem, fault |-> t.fault]
  BY DEF IsState
<1> HIDE DEF t
<1>2. IsState(t)
  BY <1>1, Zenon DEF IsState
<1>3. QED
  BY <1>1, <1>2 DEF t

LEMMA FaultIs ==
  ASSUME NEW s, IsState(s)
  PROVE  /\ IsState(Fault(s)) /\ Fault(s).fault
         /\ Fault(s).d = s.d /\ Fault(s).w = s.w /\ Fault(s).a = s.a /\ Fault(s).pc = s.pc
         /\ Fault(s).mem = s.mem
BY FaultFieldIs, Zenon DEF Fault

\* A state with other memory, or another pc.
LEMMA MemIs ==
  ASSUME NEW s, IsState(s), NEW m, IsMemory(m)
  PROVE  LET t == [s EXCEPT !.mem = m]
         IN /\ IsState(t) /\ t.mem = m
            /\ t.d = s.d /\ t.w = s.w /\ t.a = s.a /\ t.pc = s.pc /\ t.fault = s.fault
<1> DEFINE t == [s EXCEPT !.mem = m]
<1>1. /\ t.d = s.d /\ t.w = s.w /\ t.a = s.a /\ t.pc = s.pc /\ t.mem = m /\ t.fault = s.fault
      /\ t = [d |-> t.d, a |-> t.a, w |-> t.w, pc |-> t.pc, mem |-> t.mem, fault |-> t.fault]
  BY DEF IsState
<1> HIDE DEF t
<1>2. IsState(t)
  BY <1>1 DEF IsState
<1>3. QED
  BY <1>1, <1>2 DEF t

LEMMA PcIs ==
  ASSUME NEW s, IsState(s), NEW p
  PROVE  LET t == [s EXCEPT !.pc = p]
         IN /\ IsState(t) /\ t.pc = p
            /\ t.d = s.d /\ t.w = s.w /\ t.a = s.a /\ t.mem = s.mem /\ t.fault = s.fault
<1> DEFINE t == [s EXCEPT !.pc = p]
<1>1. /\ t.d = s.d /\ t.w = s.w /\ t.a = s.a /\ t.pc = p /\ t.mem = s.mem /\ t.fault = s.fault
      /\ t = [d |-> t.d, a |-> t.a, w |-> t.w, pc |-> t.pc, mem |-> t.mem, fault |-> t.fault]
  BY DEF IsState
<1> HIDE DEF t
<1>2. IsState(t)
  BY <1>1 DEF IsState
<1>3. QED
  BY <1>1, <1>2 DEF t

LEMMA AddressIs ==
  ASSUME NEW s, IsState(s), NEW r \in {0, 7}, NEW v, IsAddress(v)
  PROVE  LET t == [s EXCEPT !.a[r] = v]
         IN /\ IsState(t) /\ t.a[r] = v /\ \A q \in {0, 7} \ {r} : t.a[q] = s.a[q]
            /\ t.d = s.d /\ t.w = s.w /\ t.pc = s.pc /\ t.mem = s.mem /\ t.fault = s.fault
<1> DEFINE t == [s EXCEPT !.a[r] = v]
<1>1. /\ t.d = s.d /\ t.w = s.w /\ t.pc = s.pc /\ t.mem = s.mem /\ t.fault = s.fault
      /\ t.a = [s.a EXCEPT ![r] = v]
      /\ t = [d |-> t.d, a |-> t.a, w |-> t.w, pc |-> t.pc, mem |-> t.mem, fault |-> t.fault]
  BY DEF IsState
<1> HIDE DEF t
<1>2. DOMAIN s.a = {0, 7} /\ s.a = [q \in {0, 7} |-> s.a[q]]
  BY DEF IsState
<1>3. t.a = [q \in {0, 7} |-> t.a[q]] /\ t.a[r] = v /\ \A q \in {0, 7} \ {r} : t.a[q] = s.a[q]
  BY <1>1, <1>2
<1>4. IsState(t)
  BY <1>1, <1>3 DEF IsState
<1>5. QED
  BY <1>1, <1>3, <1>4 DEF t

\* A state with other flags.
LEMMA FlagsIs ==
  ASSUME NEW s, IsState(s), NEW v
  PROVE  LET t == [s EXCEPT !.w[15] = v]
         IN /\ IsState(t)
            /\ t.d = s.d /\ t.a = s.a /\ t.pc = s.pc /\ t.mem = s.mem /\ t.fault = s.fault
<1> DEFINE W == [s.w EXCEPT ![15] = v]
           t == [s EXCEPT !.w = W]
<1>1. [s EXCEPT !.w[15] = v] = t
  OBVIOUS
<1>2. W = [r \in {15} |-> W[r]]
  BY DEF IsState
<1> HIDE DEF W
<1>3. /\ t.d = s.d /\ t.w = W /\ t.a = s.a /\ t.pc = s.pc /\ t.mem = s.mem /\ t.fault = s.fault
      /\ t = [d |-> t.d, a |-> t.a, w |-> t.w, pc |-> t.pc, mem |-> t.mem, fault |-> t.fault]
  BY DEF IsState
<1> HIDE DEF t
<1>4. IsState(t)
  BY <1>2, <1>3 DEF IsState
<1>5. QED
  BY <1>1, <1>3, <1>4

LEMMA TopIsNat ==
  ASSUME NEW s, IsState(s)
  PROVE  Top(s) = s.a[7].addr /\ Top(s) \in 0 .. Limit - 1 /\ Top(s) \in Nat
BY LimitIsLarge DEF IsState, IsAddress, Top

\* t has n bytes more on the stack than s, and what lies below is as it was.
Grown(t, s, n) ==
  /\ IsState(t)
  /\ t.d = s.d /\ t.w = s.w /\ t.pc = s.pc /\ t.fault = s.fault /\ t.a[0] = s.a[0]
  /\ t.a[7] = [seg |-> s.a[7].seg, addr |-> Top(s) + n]
  /\ \A x \in 0 .. Room - 1 : x < Top(s) => t.mem[x] = s.mem[x]

LEMMA CalledIs ==
  ASSUME NEW s, IsState(s), CanCall(s), NEW v, IsAddress(v)
  PROVE  /\ Grown(Called(s, v), s, 6) /\ Get(Called(s, v).mem, Top(s), 6) = InMemory(8, v)
         /\ Top(s) + 6 <= Room
<1>1. Top(s) \in Nat /\ Top(s) <= Room /\ Grants(Top(s), 6)
  BY TopIsNat DEF CanCall, Resolves
<1>2. Top(s) + 6 <= Room
  BY <1>1, GrantedFits
<1>3. IsMemory(s.mem)
  BY DEF IsState
<1>0. IsAddress(InMemory(8, v))
  BY InMemoryIs
<1> DEFINE w == InMemory(8, v)
           m == Put(s.mem, Top(s), w, 6)
           u == [s EXCEPT !.mem = m]
           t == Move(u, 6)
<1>4. /\ IsMemory(m) /\ Get(m, Top(s), 6) = w
      /\ \A x \in 0 .. Room - 1 : x < Top(s) => m[x] = s.mem[x]
  BY <1>0, <1>1, <1>2, <1>3, PutIs
<1> HIDE DEF m
<1>5. /\ IsState(u) /\ u.mem = m
      /\ u.d = s.d /\ u.w = s.w /\ u.a = s.a /\ u.pc = s.pc /\ u.fault = s.fault
  BY <1>4, MemIs
<1> HIDE DEF u
<1>6. Top(u) = Top(s) /\ 6 \in Int
  BY <1>5 DEF Top
<1>7. IsState(t) /\ OnlyA7(t, u) /\ t.a[7] = [seg |-> u.a[7].seg, addr |-> Cut(Top(u) + 6)]
  BY <1>5, <1>6, MoveIs
<1>8. Cut(Top(s) + 6) = Top(s) + 6
  BY <1>1, <1>2, LimitIsLarge, CutIsSame
<1>9. t = Called(s, v)
  BY DEF Called, u, m, w
<1> HIDE DEF t
<1>10. Grown(t, s, 6) /\ Get(t.mem, Top(s), 6) = w
  BY <1>4, <1>5, <1>6, <1>7, <1>8 DEF Grown, OnlyA7
<1>11. QED
  BY <1>2, <1>9, <1>10 DEF w

\* A register of the list is stored where its turn comes.
LEMMA CoversOne ==
  ASSUME NEW list, IsList(list), NEW at \in Nat, NEW i \in list,
         NEW x \in at + Offset(list, i) .. at + Offset(list, i) + Size(i) - 1
  PROVE  Covers(list, at, x) = {i}
<1>1. i \in Covers(list, at, x)
  BY DEF Covers
<1>2. ASSUME NEW j \in Covers(list, at, x), j # i PROVE FALSE
  <2>1. /\ j \in list /\ x \in at + Offset(list, j) .. at + Offset(list, j) + Size(j) - 1
    BY <1>2 DEF Covers
  <2>2. /\ Offset(list, i) \in Nat /\ Offset(list, j) \in Nat
        /\ Size(i) \in Nat /\ Size(j) \in Nat /\ i \in Int /\ j \in Int
        /\ i < j => Offset(list, i) + Size(i) <= Offset(list, j)
        /\ j < i => Offset(list, j) + Size(j) <= Offset(list, i)
    BY <2>1, OffsetsAreApart, ListIsFinite, SizeIs
  <2>3. CASE i < j
    BY <2>1, <2>2, <2>3
  <2>4. CASE j < i
    BY <2>1, <2>2, <2>4
  <2>5. QED
    BY <1>2, <2>2, <2>3, <2>4
<1>3. QED
  BY <1>1, <1>2

LEMMA RegisterIsAddress ==
  ASSUME NEW s, IsState(s), NEW list, IsList(list), NEW i \in list, Size(i) = 6
  PROVE  IsAddress(InMemory(i, Register(s, i)))
<1>1. i = 8
  BY DEF IsList, Size
<1>2. Register(s, 8) = s.a[0]
  BY DEF Register
<1>3. QED
  BY <1>1, <1>2, InMemoryIs DEF IsState

\* All the registers of the list are stored, and nothing else changes.
LEMMA LayIs ==
  ASSUME NEW s, IsState(s), NEW at \in Nat, NEW list, IsList(list), at + Bytes(list) <= Room
  PROVE  LET t == Lay(s, at, list)
         IN /\ IsState(t)
            /\ t.d = s.d /\ t.w = s.w /\ t.a = s.a /\ t.pc = s.pc /\ t.fault = s.fault
            /\ \A x \in 0 .. Room - 1 : x < at => t.mem[x] = s.mem[x]
            /\ \A i \in list : Get(t.mem, at + Offset(list, i), Size(i)) = InMemory(i, Register(s, i))
<1> DEFINE The(x) == CHOOSE i \in Covers(list, at, x) : TRUE
           m == [x \in (DOMAIN s.mem) \cup at .. at + Bytes(list) - 1 |->
                   IF Covers(list, at, x) = {} THEN s.mem[x]
                   ELSE <<InMemory(The(x), Register(s, The(x))), x - (at + Offset(list, The(x)))>>]
<1>1. Bytes(list) \in Nat /\ Room \in Nat
  BY OffsetsAreApart, LimitIsLarge
<1>2. DOMAIN s.mem = 0 .. Room - 1 /\ (DOMAIN s.mem) \cup at .. at + Bytes(list) - 1 = 0 .. Room - 1
  BY <1>1 DEF IsState, IsMemory
<1>3. /\ DOMAIN m = 0 .. Room - 1 /\ m = [x \in 0 .. Room - 1 |-> m[x]]
      /\ \A x \in 0 .. Room - 1 : Covers(list, at, x) = {} => m[x] = s.mem[x]
      /\ \A x \in 0 .. Room - 1 : Covers(list, at, x) # {} =>
           m[x] = <<InMemory(The(x), Register(s, The(x))), x - (at + Offset(list, The(x)))>>
  BY <1>2
<1>4. Lay(s, at, list) = [s EXCEPT !.mem = m]
  BY DEF Lay
<1> HIDE DEF m
<1>5. ASSUME NEW i \in list, NEW x \in at + Offset(list, i) .. at + Offset(list, i) + Size(i) - 1
      PROVE  /\ x \in 0 .. Room - 1 /\ x >= at
             /\ m[x] = <<InMemory(i, Register(s, i)), x - (at + Offset(list, i))>>
  <2>1. /\ Offset(list, i) \in Nat /\ Size(i) \in Nat
        /\ Offset(list, i) + Size(i) <= Bytes(list)
    BY OffsetsAreApart, SizeIs
  <2>2. x \in 0 .. Room - 1 /\ x >= at
    BY <1>1, <2>1
  <2>3. Covers(list, at, x) = {i}
    BY CoversOne
  <2>4. The(x) = i /\ Covers(list, at, x) # {}
    BY <2>3
  <2>5. QED
    BY <1>3, <2>2, <2>4
<1>6. ASSUME NEW x \in 0 .. Room - 1, Covers(list, at, x) # {}
      PROVE  \E i \in list : x \in at + Offset(list, i) .. at + Offset(list, i) + Size(i) - 1
  BY <1>6 DEF Covers
<1>7. IsMemory(m)
  <2>1. ASSUME NEW x \in 0 .. Room - 1, m[x][2] \in {4, 5} PROVE IsAddress(m[x][1])
    <3>1. CASE Covers(list, at, x) = {}
      BY <1>3, <2>1, <3>1 DEF IsState, IsMemory
    <3>2. CASE Covers(list, at, x) # {}
      <4>1. PICK i \in list : x \in at + Offset(list, i) .. at + Offset(list, i) + Size(i) - 1
        BY <1>6, <3>2
      <4>2. m[x] = <<InMemory(i, Register(s, i)), x - (at + Offset(list, i))>>
        BY <1>5, <4>1
      <4>3. m[x][1] = InMemory(i, Register(s, i)) /\ x - (at + Offset(list, i)) \in {4, 5}
        BY <2>1, <4>2
      <4>4. Size(i) = 6
        BY <4>1, <4>3, OffsetsAreApart, SizeIs
      <4>5. QED
        BY <4>3, <4>4, RegisterIsAddress
    <3>3. QED
      BY <3>1, <3>2
  <2>2. QED
    BY <1>3, <2>1 DEF IsMemory
<1>8. ASSUME NEW i \in list
      PROVE  Get(m, at + Offset(list, i), Size(i)) = InMemory(i, Register(s, i))
  <2> DEFINE b == at + Offset(list, i)
  <2>1. /\ b \in Nat /\ Size(i) \in Nat \ {0} /\ b + Size(i) <= Room
    BY OffsetsAreApart, SizeIs, <1>1
  <2>2. Lies(m, b, Size(i), InMemory(i, Register(s, i)))
    BY <1>5 DEF Lies
  <2>3. QED
    BY <1>3, <2>1, <2>2, GetWhole
<1>9. ASSUME NEW x \in 0 .. Room - 1, x < at PROVE m[x] = s.mem[x]
  <2>1. Covers(list, at, x) = {}
    <3>1. ASSUME Covers(list, at, x) # {} PROVE FALSE
      <4>1. PICK i \in list : x \in at + Offset(list, i) .. at + Offset(list, i) + Size(i) - 1
        BY <1>6, <3>1
      <4>2. QED
        BY <1>5, <1>9, <4>1
    <3>2. QED
      BY <3>1
  <2>2. QED
    BY <1>3, <2>1
<1> DEFINE t == [s EXCEPT !.mem = m]
<1>10. /\ IsState(t) /\ t.mem = m
       /\ t.d = s.d /\ t.w = s.w /\ t.a = s.a /\ t.pc = s.pc /\ t.fault = s.fault
  BY <1>7, MemIs
<1> HIDE DEF t
<1>11. t = Lay(s, at, list)
  BY <1>4 DEF t
<1>12. QED
  BY <1>8, <1>9, <1>10, <1>11

LEMMA ThreeFields ==
  ASSUME NEW s,
         s = [d |-> s.d, a |-> s.a, w |-> s.w, pc |-> s.pc, mem |-> s.mem, fault |-> s.fault],
         NEW D, NEW W, NEW A, NEW t, t = [s EXCEPT !.d = D, !.w = W, !.a = A]
  PROVE  t = [d |-> D, a |-> A, w |-> W, pc |-> s.pc, mem |-> s.mem, fault |-> s.fault]
OBVIOUS

\* The registers that are set have their values, and nothing else changes.
LEMMA SetRegistersIs ==
  ASSUME NEW s, IsState(s), NEW vals, IsList(DOMAIN vals),
         8 \in DOMAIN vals => IsAddress(vals[8])
  PROVE  LET t == SetRegisters(s, vals)
         IN /\ IsState(t)
            /\ t.a[7] = s.a[7] /\ t.pc = s.pc /\ t.mem = s.mem /\ t.fault = s.fault
            /\ \A i \in (DOMAIN vals) \ {16, 17} : Register(t, i) = vals[i]
<1> DEFINE D == [r \in {0} |-> IF r \in DOMAIN vals THEN vals[r] ELSE s.d[r]]
           W == [r \in {15} |-> IF r \in DOMAIN vals THEN vals[r] ELSE s.w[r]]
           A == [r \in {0, 7} |->
                   IF r + 8 \in DOMAIN vals /\ r # 7 THEN vals[r + 8]
                   ELSE IF r = 0 /\ 18 \in DOMAIN vals THEN [s.a[r] EXCEPT !.seg = vals[18]]
                   ELSE s.a[r]]
           t == [s EXCEPT !.d = D, !.w = W, !.a = A]
<1>1. DOMAIN s.d = {0} /\ DOMAIN s.w = {15} /\ DOMAIN s.a = {0, 7}
  BY DEF IsState
<1>2. SetRegisters(s, vals) = t
  BY <1>1 DEF SetRegisters
<1>3. D = [r \in {0} |-> D[r]] /\ (0 \in DOMAIN vals => D[0] = vals[0])
  OBVIOUS
<1>4. W = [r \in {15} |-> W[r]] /\ (15 \in DOMAIN vals => W[15] = vals[15])
  OBVIOUS
<1>5. /\ A = [r \in {0, 7} |-> A[r]] /\ A[7] = s.a[7]
      /\ 8 \in DOMAIN vals => A[0] = vals[8]
      /\ 8 \notin DOMAIN vals /\ 18 \in DOMAIN vals => A[0] = [s.a[0] EXCEPT !.seg = vals[18]]
      /\ 8 \notin DOMAIN vals /\ 18 \notin DOMAIN vals => A[0] = s.a[0]
  OBVIOUS
<1>6. IsAddress([s.a[0] EXCEPT !.seg = vals[18]]) /\ [s.a[0] EXCEPT !.seg = vals[18]].seg = vals[18]
  BY DEF IsState, IsAddress
<1>7. IsAddress(A[0]) /\ IsAddress(A[7])
  BY <1>5, <1>6 DEF IsState
<1> HIDE DEF D, W, A
<1>8. /\ t.d = D /\ t.w = W /\ t.a = A /\ t.pc = s.pc /\ t.mem = s.mem /\ t.fault = s.fault
      /\ t = [d |-> t.d, a |-> t.a, w |-> t.w, pc |-> t.pc, mem |-> t.mem, fault |-> t.fault]
  <2>1. s = [d |-> s.d, a |-> s.a, w |-> s.w, pc |-> s.pc, mem |-> s.mem, fault |-> s.fault]
    BY DEF IsState
  <2>2. t = [s EXCEPT !.d = D, !.w = W, !.a = A]
    OBVIOUS
  <2> HIDE DEF t
  <2>3. t = [d |-> D, a |-> A, w |-> W, pc |-> s.pc, mem |-> s.mem, fault |-> s.fault]
    BY <2>1, <2>2, ThreeFields, Zenon
  <2>4. QED
    BY <2>3
<1> HIDE DEF t
<1>9. IsState(t)
  BY <1>3, <1>4, <1>5, <1>7, <1>8 DEF IsState
<1>10. ASSUME NEW i \in (DOMAIN vals) \ {16, 17} PROVE Register(t, i) = vals[i]
  <2>1. CASE i = 0
    BY <1>3, <1>8, <2>1 DEF Register
  <2>2. CASE i = 15
    BY <1>4, <1>8, <2>2 DEF Register
  <2>3. CASE i = 8
    BY <1>5, <1>8, <2>3 DEF Register
  <2>4. CASE i = 18
    <3>1. 8 \notin DOMAIN vals
      BY <2>4 DEF IsList
    <3>2. t.a[0].seg = vals[18]
      BY <1>5, <1>6, <1>8, <2>4, <3>1
    <3>3. QED
      BY <2>4, <3>2 DEF Register
  <2>5. QED
    BY <2>1, <2>2, <2>3, <2>4 DEF IsList
<1>11. QED
  BY <1>2, <1>5, <1>8, <1>9, <1>10

\* What is kept in d0, a0 and the words does not depend on a7.
LEMMA RegisterSame ==
  ASSUME NEW s, NEW t, t.d = s.d, t.w = s.w, t.a[0] = s.a[0], NEW i \in {0, 8, 15, 16, 17, 18}
  PROVE  Register(t, i) = Register(s, i)
<1>1. CASE i = 0
  BY <1>1 DEF Register
<1>2. CASE i = 8
  BY <1>2 DEF Register
<1>3. CASE i = 18
  BY <1>3 DEF Register
<1>4. CASE i \in {15, 16, 17}
  BY <1>4 DEF Register
<1>5. QED
  BY <1>1, <1>2, <1>3, <1>4

LEMMA StepIs ==
  ASSUME NEW n \in Nat
  PROVE  /\ Step(n) \in Int
         /\ n >= 4 /\ n <= Room => Step(n) = n
         /\ n = 4 => Step(n) = n
<1>1. Room \in Nat /\ Wrap \in Nat /\ Room + 6 < Wrap
  BY FramesAssumption
<1>2. (n - 4) % Wrap \in Int
  BY <1>1
<1>3. ASSUME n >= 4, n <= Room PROVE (n - 4) % Wrap = n - 4
  <2>1. n - 4 \in 0 .. Wrap - 1
    BY <1>1, <1>3
  <2>2. QED
    BY <1>1, <2>1
<1>4. ASSUME n = 4 PROVE (n - 4) % Wrap = n - 4
  BY <1>1, <1>4
<1>5. QED
  BY <1>2, <1>3, <1>4 DEF Step

LEMMA BytesOfData == Bytes({0}) = 4
<1>1. {} \cup {0} = {0} /\ Size(0) = 4
  BY DEF Size
<1>2. QED
  BY <1>1, BytesAdd, BytesOfNothing, FS_EmptySet

-----------------------------------------------------------------------------
(* The frames *)

\* Each kind of frame is what the instruction that takes it off expects.
FrameOK(f) ==
  /\ f.at \in Nat /\ f.kind \in {"call", "link", "save"}
  /\ f.kind # "save" => f.at + 6 <= Room
  /\ f.kind = "call" => f.what = {} /\ f.size = 6
  /\ f.kind = "link" =>
       /\ \E n \in Locals : f.size = 6 + n
       /\ f.what = {7} => f.size = 6 /\ f.saved = [seg |-> Stack, addr |-> f.at]
  /\ f.kind = "save" =>
       /\ IsList(f.what) /\ f.what \cap {16, 17} = {}
       /\ f.size = Bytes(f.what) /\ f.size >= 4 /\ f.at + f.size <= Room

FrameHolds(f, m) ==
  IF f.kind = "save"
  THEN \A i \in f.what : Get(m, f.at + Offset(f.what, i), Size(i)) = f.saved[i]
  ELSE Get(m, f.at, 6) = f.saved

Behind(f) == f.at + f.size

\* The stack of a program whose frames are all found again.
Kept(fs, s) ==
  /\ s.a[7].seg = Stack
  /\ fs = <<>> => Top(s) = 0
  /\ fs # <<>> => fs[1].at = 0
  /\ Contiguous(fs, Top(s))
  /\ \A k \in DOMAIN fs : FrameOK(fs[k]) /\ FrameHolds(fs[k], s.mem)
  /\ \A j, k \in DOMAIN fs : j < k => Behind(fs[j]) <= fs[k].at

IsFrames(fs) ==
  /\ \E S : fs \in Seq(S)
  /\ \A k \in DOMAIN fs : fs[k].kind \in {"call", "link", "save"}

FramesInv ==
  /\ IsState(st) /\ IsFrames(frames) /\ lost \in BOOLEAN
  /\ ~st.fault /\ ~lost => Kept(frames, st)

LEMMA FrameSize ==
  ASSUME NEW f, FrameOK(f)
  PROVE  /\ f.size \in Nat /\ f.at \in Nat /\ Behind(f) = f.at + f.size
         /\ Held(f) \subseteq f.at .. Behind(f) - 1 /\ Held(f) \subseteq 0 .. Room - 1
         /\ Behind(f) < Limit
<1>1. \A n \in Locals : n \in Nat /\ Room + n < Limit
  BY FramesAssumption DEF Limit
<1>2. CASE f.kind = "call"
  BY <1>2, LimitIsLarge DEF FrameOK, Held, Behind
<1>3. CASE f.kind = "link"
  <2>1. PICK n \in Locals : f.size = 6 + n
    BY <1>3 DEF FrameOK
  <2>2. f.at \in Nat /\ f.at + 6 <= Room /\ Held(f) = f.at .. f.at + 6 - 1
    BY <1>3 DEF FrameOK, Held
  <2>3. n \in Nat /\ Room + n < Limit /\ Room \in Nat /\ Limit \in Nat
    BY <1>1, LimitIsLarge
  <2>4. f.size \in Nat /\ Behind(f) = f.at + f.size /\ Behind(f) < Limit
    BY <2>1, <2>2, <2>3 DEF Behind
  <2>5. f.at + 6 <= Behind(f)
    BY <2>1, <2>2, <2>3 DEF Behind
  <2>6. Held(f) \subseteq f.at .. Behind(f) - 1 /\ Held(f) \subseteq 0 .. Room - 1
    <3>0. f.at \in Nat /\ Behind(f) \in Nat /\ f.at + 6 <= Behind(f)
      BY <2>2, <2>4, <2>5
    <3>1. \A x \in f.at .. f.at + 6 - 1 : x \in f.at .. Behind(f) - 1
      BY <3>0
    <3>2. \A x \in f.at .. f.at + 6 - 1 : x \in 0 .. Room - 1
      BY <2>2, <2>3
    <3>3. QED
      BY <2>2, <3>1, <3>2
  <2>7. QED
    BY <2>2, <2>4, <2>6
<1>4. CASE f.kind = "save"
  <2>1. Bytes(f.what) \in Nat
    BY <1>4, OffsetsAreApart DEF FrameOK
  <2>2. QED
    BY <1>4, <2>1, LimitIsLarge DEF FrameOK, Held, Behind
<1>5. QED
  BY <1>2, <1>3, <1>4 DEF FrameOK

\* A frame is found as long as its bytes stay.
LEMMA HoldsSame ==
  ASSUME NEW f, FrameOK(f), NEW m, NEW o, DOMAIN m = DOMAIN o, FrameHolds(f, m),
         \A x \in Held(f) : m[x] = o[x]
  PROVE  FrameHolds(f, o)
<1>1. CASE f.kind = "save"
  <2>1. f.at \in Nat /\ IsList(f.what) /\ Held(f) = f.at .. f.at + Bytes(f.what) - 1
    BY <1>1 DEF FrameOK, Held
  <2>2. ASSUME NEW i \in f.what
        PROVE  Get(o, f.at + Offset(f.what, i), Size(i)) = f.saved[i]
    <3>1. /\ Offset(f.what, i) \in Nat /\ Bytes(f.what) \in Nat
          /\ Offset(f.what, i) + Size(i) <= Bytes(f.what) /\ Size(i) \in Nat \ {0}
      BY <2>1, OffsetsAreApart, SizeIs
    <3> DEFINE b == f.at + Offset(f.what, i)
    <3>2. b .. b + Size(i) - 1 \subseteq Held(f) /\ b \in Int
      <4>1. b \in Nat /\ f.at <= b /\ b + Size(i) <= f.at + Bytes(f.what)
        BY <2>1, <3>1
      <4> HIDE DEF b
      <4>2. \A x \in b .. b + Size(i) - 1 : x \in f.at .. f.at + Bytes(f.what) - 1
        <5>1. f.at \in Nat /\ Size(i) \in Nat /\ Bytes(f.what) \in Nat
          BY <2>1, <3>1
        <5>2. QED
          BY <4>1, <5>1
      <4>3. QED
        BY <2>1, <4>1, <4>2
    <3>3. Get(m, b, Size(i)) = Get(o, b, Size(i))
      BY <3>1, <3>2, GetSame
    <3>4. QED
      BY <1>1, <3>3 DEF FrameHolds
  <2>3. QED
    BY <1>1, <2>2 DEF FrameHolds
<1>2. CASE f.kind # "save"
  <2>1. f.at \in Int /\ 6 \in Nat \ {0} /\ f.at .. f.at + 6 - 1 = Held(f)
    BY <1>2 DEF FrameOK, Held
  <2>2. Get(m, f.at, 6) = Get(o, f.at, 6)
    BY <2>1, GetSame
  <2>3. QED
    BY <1>2, <2>2 DEF FrameHolds
<1>3. QED
  BY <1>1, <1>2

\* Nothing on the stack lies behind its top.
LEMMA KeptBelow ==
  ASSUME NEW fs, IsFrames(fs), NEW s, IsState(s), Kept(fs, s)
  PROVE  /\ DOMAIN fs = 1 .. Len(fs) /\ Len(fs) \in Nat
         /\ \A k \in DOMAIN fs : Behind(fs[k]) <= Top(s) /\ Held(fs[k]) \subseteq 0 .. Top(s) - 1
<1>1. DOMAIN fs = 1 .. Len(fs) /\ Len(fs) \in Nat
  BY DEF IsFrames
<1>2. ASSUME NEW k \in DOMAIN fs
      PROVE  Behind(fs[k]) <= Top(s) /\ Held(fs[k]) \subseteq 0 .. Top(s) - 1
  <2>1. Top(s) \in Nat
    BY TopIsNat
  <2>2. FrameOK(fs[k]) /\ Len(fs) \in DOMAIN fs /\ FrameOK(fs[Len(fs)])
    BY <1>1 DEF Kept
  <2>3. /\ Held(fs[k]) \subseteq fs[k].at .. Behind(fs[k]) - 1 /\ fs[k].at \in Nat
        /\ Behind(fs[k]) \in Nat
    BY <2>2, FrameSize
  <2>4. Behind(fs[Len(fs)]) = Top(s)
    BY <2>2 DEF Kept, Contiguous, Behind
  <2>5. CASE k = Len(fs)
    BY <2>1, <2>3, <2>4, <2>5
  <2>6. CASE k < Len(fs)
    <3>1. Behind(fs[k]) <= fs[Len(fs)].at
      BY <2>2, <2>6 DEF Kept
    <3>2. fs[Len(fs)].at \in Nat /\ fs[Len(fs)].at <= Behind(fs[Len(fs)])
      BY <2>2, FrameSize
    <3>3. Behind(fs[k]) <= Top(s)
      BY <2>1, <2>3, <2>4, <3>1, <3>2
    <3>4. \A x \in fs[k].at .. Behind(fs[k]) - 1 : x \in 0 .. Top(s) - 1
      BY <2>1, <2>3, <3>3
    <3>5. QED
      BY <2>3, <3>3, <3>4
  <2>7. QED
    BY <1>1, <2>5, <2>6
<1>3. QED
  BY <1>1, <1>2

LEMMA Appended ==
  ASSUME NEW fs, IsFrames(fs), NEW f, f.kind \in {"call", "link", "save"}
  PROVE  LET gs == Append(fs, f)
         IN /\ IsFrames(gs) /\ Len(gs) = Len(fs) + 1 /\ Len(fs) \in Nat
            /\ DOMAIN fs = 1 .. Len(fs) /\ DOMAIN gs = 1 .. Len(fs) + 1
            /\ \A k \in 1 .. Len(fs) : gs[k] = fs[k]
            /\ gs[Len(fs) + 1] = f
<1> DEFINE gs == Append(fs, f)
<1>1. PICK S : fs \in Seq(S)
  BY DEF IsFrames
<1>2. fs \in Seq(S \cup {f}) /\ f \in S \cup {f}
  BY <1>1
<1>3. /\ gs \in Seq(S \cup {f}) /\ Len(gs) = Len(fs) + 1 /\ Len(fs) \in Nat
      /\ DOMAIN fs = 1 .. Len(fs) /\ DOMAIN gs = 1 .. Len(fs) + 1
      /\ \A k \in 1 .. Len(fs) : gs[k] = fs[k]
      /\ gs[Len(fs) + 1] = f
  BY <1>2
<1> HIDE DEF gs
<1>4. \A k \in DOMAIN gs : gs[k].kind \in {"call", "link", "save"}
  <2>1. \A k \in DOMAIN gs : k \in 1 .. Len(fs) \/ k = Len(fs) + 1
    BY <1>3
  <2>2. QED
    BY <1>3, <2>1 DEF IsFrames
<1>5. IsFrames(gs)
  BY <1>3, <1>4 DEF IsFrames
<1>6. QED
  BY <1>3, <1>5 DEF gs

LEMMA Fronted ==
  ASSUME NEW fs, IsFrames(fs), fs # <<>>
  PROVE  LET gs == Front(fs)
         IN /\ IsFrames(gs) /\ Len(fs) \in Nat \ {0} /\ Len(gs) = Len(fs) - 1
            /\ Last(fs) = fs[Len(fs)]
            /\ DOMAIN fs = 1 .. Len(fs) /\ DOMAIN gs = 1 .. Len(fs) - 1
            /\ \A k \in 1 .. Len(fs) - 1 : gs[k] = fs[k]
<1> DEFINE gs == Front(fs)
<1>1. PICK S : fs \in Seq(S)
  BY DEF IsFrames
<1>2. Len(fs) \in Nat \ {0} /\ DOMAIN fs = 1 .. Len(fs) /\ Last(fs) = fs[Len(fs)]
  BY <1>1 DEF Last
<1>3. gs = SubSeq(fs, 1, Len(fs) - 1)
  BY DEF Front
<1> HIDE DEF gs
<1>4. /\ gs \in Seq(S) /\ Len(gs) = Len(fs) - 1
      /\ DOMAIN gs = 1 .. Len(fs) - 1
      /\ \A k \in 1 .. Len(fs) - 1 : gs[k] = fs[k]
  BY <1>1, <1>2, <1>3
<1>5. \A k \in DOMAIN gs : gs[k].kind \in {"call", "link", "save"}
  <2>1. \A k \in DOMAIN gs : k \in 1 .. Len(fs)
    BY <1>2, <1>4
  <2>2. QED
    BY <1>2, <1>4, <2>1 DEF IsFrames
<1>6. IsFrames(gs)
  BY <1>4, <1>5 DEF IsFrames
<1>7. QED
  BY <1>2, <1>4, <1>6 DEF gs

\* The last of the instructions that put a frame on the stack keep what is there.
LEMMA PushKept ==
  ASSUME NEW fs, IsFrames(fs), NEW s, IsState(s), Kept(fs, s),
         NEW f, FrameOK(f), f.at = Top(s),
         NEW t, IsState(t), t.a[7] = [seg |-> s.a[7].seg, addr |-> Behind(f)],
         \A x \in 0 .. Room - 1 : x < Top(s) => t.mem[x] = s.mem[x],
         FrameHolds(f, t.mem)
  PROVE  Kept(Append(fs, f), t)
<1> DEFINE gs == Append(fs, f)
           n == Len(fs)
<1>1. /\ n \in Nat /\ Len(gs) = n + 1 /\ DOMAIN fs = 1 .. n /\ DOMAIN gs = 1 .. n + 1
      /\ \A k \in 1 .. n : gs[k] = fs[k]
      /\ gs[n + 1] = f
  BY Appended DEF FrameOK
<1> HIDE DEF gs, n
<1>2. Top(t) = Behind(f) /\ t.a[7].seg = Stack /\ Behind(f) = f.at + f.size /\ Top(s) \in Nat
  BY FrameSize, TopIsNat DEF Kept, Top
<1>3. DOMAIN s.mem = 0 .. Room - 1 /\ DOMAIN t.mem = 0 .. Room - 1
  BY DEF IsState, IsMemory
<1>4. ASSUME NEW k \in DOMAIN gs
      PROVE  FrameOK(gs[k]) /\ FrameHolds(gs[k], t.mem)
  <2>1. CASE k \in 1 .. n
    <3>1. FrameOK(fs[k]) /\ FrameHolds(fs[k], s.mem) /\ gs[k] = fs[k]
      BY <1>1, <2>1 DEF Kept
    <3>2. Held(fs[k]) \subseteq 0 .. Top(s) - 1 /\ Held(fs[k]) \subseteq 0 .. Room - 1
      BY <1>1, <2>1, <3>1, KeptBelow, FrameSize
    <3>3. \A x \in Held(fs[k]) : x \in 0 .. Room - 1 /\ x < Top(s)
      BY <1>2, <3>2
    <3>4. \A x \in Held(fs[k]) : s.mem[x] = t.mem[x]
      BY <3>3
    <3>5. FrameHolds(fs[k], t.mem)
      BY <1>3, <3>1, <3>4, HoldsSame
    <3>6. QED
      BY <3>1, <3>5
  <2>2. CASE k = n + 1
    BY <1>1, <2>2
  <2>3. QED
    BY <1>1, <2>1, <2>2
<1>5. Contiguous(gs, Top(t))
  <2>1. ASSUME NEW k \in DOMAIN gs
        PROVE  gs[k].at + gs[k].size = IF k = Len(gs) THEN Top(t) ELSE gs[k + 1].at
    <3>1. CASE k = n + 1
      BY <1>1, <1>2, <3>1
    <3>2. CASE k = n /\ n > 0
      <4>0. n \in 1 .. n /\ n # n + 1
        BY <1>1, <3>2
      <4>1. gs[k] = fs[k] /\ k \in DOMAIN fs /\ k = Len(fs) /\ gs[k + 1] = f /\ k # Len(gs)
        BY <1>1, <3>2, <4>0, Zenon DEF n
      <4>2. fs[k].at + fs[k].size = Top(s)
        BY <4>1 DEF Kept, Contiguous
      <4>3. QED
        BY <4>1, <4>2
    <3>3. CASE k \in 1 .. n - 1
      <4>1. /\ gs[k] = fs[k] /\ gs[k + 1] = fs[k + 1] /\ k \in DOMAIN fs /\ k # Len(fs)
            /\ k # Len(gs)
        BY <1>1, <3>3 DEF n
      <4>2. fs[k].at + fs[k].size = fs[k + 1].at
        BY <4>1 DEF Kept, Contiguous
      <4>3. QED
        BY <4>1, <4>2
    <3>4. QED
      BY <1>1, <3>1, <3>2, <3>3
  <2>2. QED
    BY <2>1 DEF Contiguous
<1>6. gs # <<>> /\ gs[1].at = 0
  <2>0. gs # <<>>
    BY <1>1
  <2>1. CASE n = 0
    <3>1. fs = <<>>
      BY <1>1, <2>1 DEF IsFrames, n
    <3>2. Top(s) = 0
      BY <3>1 DEF Kept
    <3>3. gs[1] = f
      BY <1>1, <2>1
    <3>4. QED
      BY <2>0, <3>2, <3>3
  <2>2. CASE n > 0
    <3>1. fs # <<>> /\ gs[1] = fs[1]
      BY <1>1, <2>2 DEF n
    <3>2. QED
      BY <1>1, <3>1 DEF Kept
  <2>3. QED
    BY <1>1, <2>1, <2>2
<1>7. ASSUME NEW j \in DOMAIN gs, NEW k \in DOMAIN gs, j < k
      PROVE  Behind(gs[j]) <= gs[k].at
  <2>1. j \in 1 .. n /\ gs[j] = fs[j] /\ j \in DOMAIN fs
    BY <1>1, <1>7
  <2>2. CASE k \in 1 .. n
    BY <1>1, <1>7, <2>1, <2>2 DEF Kept
  <2>3. CASE k = n + 1
    <3>1. Behind(fs[j]) <= Top(s)
      BY <2>1, KeptBelow
    <3>2. QED
      BY <1>1, <2>1, <2>3, <3>1
  <2>4. QED
    BY <1>1, <2>2, <2>3
<1>8. QED
  BY <1>2, <1>4, <1>5, <1>6, <1>7 DEF Kept, gs

\* When the last frame is taken off, a7 is where the one before it ends.
LEMMA PopKept ==
  ASSUME NEW fs, IsFrames(fs), fs # <<>>, NEW s, IsState(s), Kept(fs, s),
         NEW t, IsState(t), t.a[7] = [seg |-> Stack, addr |-> Last(fs).at], t.mem = s.mem
  PROVE  Kept(Front(fs), t)
<1> DEFINE gs == Front(fs)
           n == Len(fs)
<1>1. /\ n \in Nat \ {0} /\ Len(gs) = n - 1 /\ DOMAIN fs = 1 .. n /\ DOMAIN gs = 1 .. n - 1
      /\ \A k \in 1 .. n - 1 : gs[k] = fs[k]
      /\ Last(fs) = fs[n] /\ IsFrames(gs)
  BY Fronted
<1> HIDE DEF gs, n
<1>2. Top(t) = fs[n].at /\ t.a[7].seg = Stack
  BY <1>1 DEF Top
<1>3. \A k \in DOMAIN gs : k \in DOMAIN fs /\ k + 1 \in DOMAIN fs /\ k # n
  BY <1>1
<1>4. Contiguous(gs, Top(t))
  <2>1. ASSUME NEW k \in DOMAIN gs
        PROVE  gs[k].at + gs[k].size = IF k = Len(gs) THEN Top(t) ELSE gs[k + 1].at
    <3>1. fs[k].at + fs[k].size = fs[k + 1].at /\ gs[k] = fs[k]
      BY <1>1, <1>3 DEF Kept, Contiguous, n
    <3>2. CASE k = n - 1
      BY <1>1, <1>2, <3>1, <3>2
    <3>3. CASE k # n - 1
      <4>1. k + 1 \in 1 .. n - 1 /\ k # Len(gs)
        BY <1>1, <3>3
      <4>2. QED
        BY <1>1, <3>1, <4>1
    <3>4. QED
      BY <3>2, <3>3
  <2>2. QED
    BY <2>1 DEF Contiguous
<1>5. /\ gs = <<>> => Top(t) = 0
      /\ gs # <<>> => gs[1].at = 0
  <2>1. fs[1].at = 0
    BY DEF Kept
  <2>2. ASSUME gs = <<>> PROVE Top(t) = 0
    <3>1. n = 1
      BY <1>1, <2>2
    <3>2. QED
      BY <1>2, <2>1, <3>1
  <2>3. ASSUME gs # <<>> PROVE gs[1].at = 0
    <3>1. Len(gs) # 0
      BY <1>1, <2>3 DEF IsFrames
    <3>2. 1 \in 1 .. n - 1
      BY <1>1, <3>1
    <3>3. QED
      BY <1>1, <2>1, <3>2
  <2>4. QED
    BY <2>2, <2>3
<1>6. ASSUME NEW k \in DOMAIN gs PROVE FrameOK(gs[k]) /\ FrameHolds(gs[k], t.mem)
  BY <1>1, <1>3 DEF Kept
<1>7. ASSUME NEW j \in DOMAIN gs, NEW k \in DOMAIN gs, j < k
      PROVE  Behind(gs[j]) <= gs[k].at
  BY <1>1, <1>3, <1>7 DEF Kept
<1>8. QED
  BY <1>2, <1>4, <1>5, <1>6, <1>7 DEF Kept, gs

\* Nor does an instruction that leaves a7 and the frames alone disturb them.
LEMMA SameKept ==
  ASSUME NEW fs, IsFrames(fs), NEW s, IsState(s), Kept(fs, s),
         NEW t, IsState(t), t.a[7] = s.a[7],
         \A k \in DOMAIN fs : \A x \in Held(fs[k]) \cap 0 .. Room - 1 : s.mem[x] = t.mem[x]
  PROVE  Kept(fs, t)
<1>1. DOMAIN s.mem = 0 .. Room - 1 /\ DOMAIN t.mem = 0 .. Room - 1
  BY DEF IsState, IsMemory
<1>2. ASSUME NEW k \in DOMAIN fs PROVE FrameOK(fs[k]) /\ FrameHolds(fs[k], t.mem)
  <2>1. FrameOK(fs[k]) /\ FrameHolds(fs[k], s.mem)
    BY DEF Kept
  <2>2. \A x \in Held(fs[k]) : s.mem[x] = t.mem[x]
    BY <2>1, FrameSize
  <2>3. QED
    BY <1>1, <2>1, <2>2, HoldsSame
<1>3. Top(t) = Top(s)
  BY DEF Top
<1>4. QED
  BY <1>2, <1>3 DEF Kept

-----------------------------------------------------------------------------
(* The instructions that put a frame on the stack *)

\* An instruction starts with pc past it.
LEMMA ExecutingIs ==
  ASSUME IsState(st), NEW b \in Executing
  PROVE  /\ IsState(b) /\ ~b.fault /\ ~st.fault /\ st.a[7].seg = Stack
         /\ b.d = st.d /\ b.w = st.w /\ b.a = st.a /\ b.mem = st.mem /\ Top(b) = Top(st)
         /\ b.pc \in Code /\ b.pc.seg = st.pc.seg
<1>1. PICK c \in Code : /\ c.seg = st.pc.seg /\ ~st.fault /\ st.a[7].seg = Stack
                        /\ b = [st EXCEPT !.pc = c]
  BY DEF Executing
<1> DEFINE t == [st EXCEPT !.pc = c]
<1>2. /\ IsState(t) /\ t.pc = c
      /\ t.d = st.d /\ t.w = st.w /\ t.a = st.a /\ t.mem = st.mem /\ t.fault = st.fault
  BY PcIs
<1>3. b = t
  BY <1>1
<1> HIDE DEF t
<1>4. QED
  BY <1>1, <1>2, <1>3 DEF Top

\* An instruction faults: only a7 may have moved, and MOV may have set the flags.
FaultedTo(t, s) ==
  /\ IsState(t) /\ t.fault
  /\ t.d = s.d /\ t.mem = s.mem /\ t.a[0] = s.a[0]
  /\ t.w = s.w \/ MovStore
  /\ t.pc.seg = s.pc.seg

\* The frame is on the stack; if it will be found again, it holds what it says.
PushedTo(t, s, f) ==
  /\ IsState(t) /\ ~t.fault
  /\ f.at = Top(s) /\ f.kind \in {"call", "link", "save"}
  /\ \A x \in 0 .. Room - 1 : x < Top(s) => t.mem[x] = s.mem[x]
  /\ s.a[7].seg = Stack /\ ~Lost(f) =>
       /\ FrameOK(f) /\ FrameHolds(f, t.mem)
       /\ t.a[7] = [seg |-> s.a[7].seg, addr |-> Behind(f)]

Entered ==
  /\ ~st.fault
  /\ \E new, f : Enter(new, f) /\ (FaultedTo(new, st) \/ PushedTo(new, st, f))

\* a7 has moved or has not when the instruction faults.
LEMMA FaultedMoved ==
  ASSUME IsState(st), NEW b \in Executing,
         NEW u, IsState(u), u.d = b.d, u.mem = b.mem, u.a[0] = b.a[0], u.pc = b.pc,
         u.w = b.w \/ MovStore
  PROVE  FaultedTo(Fault(u), st)
<1>1. /\ IsState(Fault(u)) /\ Fault(u).fault
      /\ Fault(u).d = u.d /\ Fault(u).w = u.w /\ Fault(u).a = u.a /\ Fault(u).pc = u.pc
      /\ Fault(u).mem = u.mem
  BY FaultIs, Zenon
<1>2. /\ b.d = st.d /\ b.w = st.w /\ b.mem = st.mem /\ b.a = st.a
      /\ b.pc.seg = st.pc.seg
  BY ExecutingIs, Zenon
<1>3. Fault(u).a[0] = st.a[0] /\ Fault(u).pc.seg = st.pc.seg
  BY <1>1, <1>2, Zenon
<1>4. QED
  BY <1>1, <1>2, <1>3, Zenon DEF FaultedTo

LEMMA FaultedWhole ==
  ASSUME IsState(st), NEW b \in Executing
  PROVE  FaultedTo(Fault(b), st) /\ ~st.fault
<1>1. IsState(b) /\ ~st.fault
  BY ExecutingIs, Zenon
<1>2. QED
  BY <1>1, FaultedMoved, Zenon

\* Only a7 has moved.
LEMMA FaultedTop ==
  ASSUME IsState(st), NEW b \in Executing, NEW u, IsState(u), OnlyA7(u, b)
  PROVE  FaultedTo(Fault(u), st)
BY FaultedMoved, Zenon DEF OnlyA7

LEMMA StillRuns ==
  ASSUME NEW s, ~s.fault, NEW t, t.fault = s.fault
  PROVE  ~t.fault
BY Zenon

\* What is called from b is pushed on the stack of st.
LEMMA CalledFrom ==
  ASSUME IsState(st), NEW b \in Executing, CanCall(b), NEW v, IsAddress(v)
  PROVE  LET s == Called(b, v)
         IN /\ IsState(s) /\ s.fault = b.fault /\ ~s.fault /\ s.a[0] = st.a[0]
            /\ Get(s.mem, Top(st), 6) = InMemory(8, v)
            /\ s.a[7] = [seg |-> Stack, addr |-> Top(st) + 6]
            /\ \A x \in 0 .. Room - 1 : x < Top(st) => s.mem[x] = st.mem[x]
            /\ Top(st) \in Nat /\ Top(st) + 6 <= Room
<1> DEFINE s == Called(b, v)
<1>1. /\ IsState(b) /\ ~b.fault /\ st.a[7].seg = Stack
      /\ b.a = st.a /\ b.mem = st.mem /\ Top(b) = Top(st)
  BY ExecutingIs
<1>2. Grown(s, b, 6) /\ Get(s.mem, Top(b), 6) = InMemory(8, v) /\ Top(b) + 6 <= Room
  BY <1>1, CalledIs
<1> HIDE DEF s
<1>3. IsState(s) /\ s.fault = b.fault
  BY <1>2, Zenon DEF Grown
<1>4. ~s.fault
  BY <1>1, <1>3, StillRuns, Zenon
<1>5. s.a[0] = st.a[0] /\ s.a[7] = [seg |-> Stack, addr |-> Top(st) + 6]
  BY <1>1, <1>2 DEF Grown
<1>6. \A x \in 0 .. Room - 1 : x < Top(st) => s.mem[x] = st.mem[x]
  BY <1>1, <1>2 DEF Grown
<1>7. Top(st) \in Nat /\ Top(st) + 6 <= Room /\ Get(s.mem, Top(st), 6) = InMemory(8, v)
  BY <1>1, <1>2, TopIsNat
<1>8. QED
  BY <1>3, <1>4, <1>5, <1>6, <1>7 DEF s

LEMMA CallPushes ==
  ASSUME IsState(st), NEW b \in Executing, CanCall(b), NEW to
  PROVE  PushedTo([Called(b, b.pc) EXCEPT !.pc = to], st, Frame("call", {}, b.pc, 6))
<1> DEFINE next == b.pc
           s == Called(b, next)
           t == [s EXCEPT !.pc = to]
           f == Frame("call", {}, next, 6)
<1>0. IsAddress(next) /\ InMemory(8, next) = next
  <2>1. next \in Code
    BY ExecutingIs
  <2>2. IsAddress(next) /\ next.addr < Long
    BY <2>1, PointersAreAddresses, FramesAssumption
  <2>3. QED
    BY <2>2, InMemoryIs
<1> HIDE DEF next
<1>1. /\ IsState(s) /\ ~s.fault /\ Get(s.mem, Top(st), 6) = next
      /\ s.a[7] = [seg |-> Stack, addr |-> Top(st) + 6] /\ st.a[7].seg = Stack
      /\ \A x \in 0 .. Room - 1 : x < Top(st) => s.mem[x] = st.mem[x]
      /\ Top(st) \in Nat /\ Top(st) + 6 <= Room
  BY <1>0, CalledFrom, ExecutingIs
<1> HIDE DEF s
<1>3. IsState(t) /\ t.a = s.a /\ t.mem = s.mem /\ t.fault = s.fault
  BY <1>1, PcIs, Zenon
<1> HIDE DEF t
<1>5. ~t.fault
  BY <1>1, <1>3, StillRuns, Zenon
<1>6. /\ f.kind = "call" /\ f.what = {} /\ f.saved = next /\ f.size = 6 /\ f.at = Top(st)
      /\ f.kind # "save" /\ f.kind # "link" /\ Behind(f) = Top(st) + 6
  BY DEF Frame, Behind
<1> HIDE DEF f
<1>7. FrameOK(f) /\ FrameHolds(f, t.mem)
  BY <1>1, <1>3, <1>6 DEF FrameOK, FrameHolds
<1>8. t.a[7] = [seg |-> st.a[7].seg, addr |-> Behind(f)]
  BY <1>1, <1>3, <1>6
<1>9. \A x \in 0 .. Room - 1 : x < Top(st) => t.mem[x] = st.mem[x]
  BY <1>1, <1>3
<1>10. PushedTo(t, st, f)
  BY <1>3, <1>5, <1>6, <1>7, <1>8, <1>9, Zenon DEF PushedTo
<1>11. QED
  BY <1>10 DEF t, f, s, next

LEMMA BsrEnters ==
  ASSUME IsState(st), Bsr
  PROVE  Entered
<1> DEFINE f(b) == Frame("call", {}, b.pc, 6)
<1>1. PICK b \in Executing, to \in Code :
        Enter(IF CanCall(b) THEN [Called(b, b.pc) EXCEPT !.pc = to]
              ELSE Fault(IF Resolves(b) THEN Move(b, 6) ELSE b), f(b))
  BY DEF Bsr
<1>2. ~st.fault /\ IsState(b)
  BY ExecutingIs
<1>3. CASE CanCall(b)
  <2>1. Enter([Called(b, b.pc) EXCEPT !.pc = to], f(b))
    BY <1>1, <1>3
  <2>2. PushedTo([Called(b, b.pc) EXCEPT !.pc = to], st, f(b))
    BY <1>3, CallPushes
  <2>3. QED
    BY <1>2, <2>1, <2>2, Zenon DEF Entered
<1>4. CASE ~CanCall(b) /\ Resolves(b)
  <2>1. Enter(Fault(Move(b, 6)), f(b))
    BY <1>1, <1>4
  <2>2. IsState(Move(b, 6)) /\ OnlyA7(Move(b, 6), b)
    <3>1. 6 \in Int
      OBVIOUS
    <3>2. QED
      BY <1>2, <3>1, MoveIs, Zenon
  <2>3. FaultedTo(Fault(Move(b, 6)), st)
    BY <2>2, FaultedTop, Zenon
  <2>4. QED
    BY <1>2, <2>1, <2>3, Zenon DEF Entered
<1>5. CASE ~CanCall(b) /\ ~Resolves(b)
  <2>1. Enter(Fault(b), f(b))
    BY <1>1, <1>5
  <2>2. QED
    BY <2>1, FaultedWhole, Zenon DEF Entered
<1>6. QED
  BY <1>3, <1>4, <1>5

LEMMA JsrEnters ==
  ASSUME IsState(st), Jsr
  PROVE  Entered
<1> DEFINE f(b) == Frame("call", {}, b.pc, 6)
<1>1. PICK b \in Executing, to \in Code :
        Enter(IF CanCall(b) THEN [Called(b, b.pc) EXCEPT !.pc = to] ELSE Fault(b), f(b))
  BY DEF Jsr
<1>2. ~st.fault
  BY ExecutingIs
<1>3. CASE CanCall(b)
  <2>1. Enter([Called(b, b.pc) EXCEPT !.pc = to], f(b))
    BY <1>1, <1>3
  <2>2. PushedTo([Called(b, b.pc) EXCEPT !.pc = to], st, f(b))
    BY <1>3, CallPushes
  <2>3. QED
    BY <1>2, <2>1, <2>2, Zenon DEF Entered
<1>4. CASE ~CanCall(b)
  <2>1. Enter(Fault(b), f(b))
    BY <1>1, <1>4
  <2>2. QED
    BY <2>1, FaultedWhole, Zenon DEF Entered
<1>5. QED
  BY <1>3, <1>4

LEMMA PeaEnters ==
  ASSUME IsState(st), Pea
  PROVE  Entered
<1> DEFINE f(p) == Frame("save", {8}, [i \in {8} |-> InMemory(8, p)], 6)
<1>1. PICK b \in Executing, p \in Pointers :
        Enter(IF CanCall(b) THEN Called(b, p) ELSE Fault(b), f(p))
  BY DEF Pea
<1>2. ~st.fault /\ st.a[7].seg = Stack
  BY ExecutingIs
<1>3. CASE CanCall(b)
  <2> DEFINE s == Called(b, p)
             g == f(p)
  <2>1. Enter(s, g)
    BY <1>1, <1>3
  <2>2. /\ IsState(s) /\ ~s.fault /\ Get(s.mem, Top(st), 6) = InMemory(8, p)
        /\ s.a[7] = [seg |-> Stack, addr |-> Top(st) + 6]
        /\ \A x \in 0 .. Room - 1 : x < Top(st) => s.mem[x] = st.mem[x]
        /\ Top(st) \in Nat /\ Top(st) + 6 <= Room
    BY <1>3, CalledFrom, PointersAreAddresses
  <2> HIDE DEF s
  <2>5. /\ g.kind = "save" /\ g.what = {8} /\ g.saved[8] = InMemory(8, p) /\ g.size = 6 /\ g.at = Top(st)
        /\ Behind(g) = Top(st) + 6
    BY DEF Frame, Behind
  <2> HIDE DEF g
  <2>6. Bytes({8}) = 6 /\ Offset({8}, 8) = 0 /\ Size(8) = 6
    <3>1. Size(8) = 6 /\ {j \in {8} : j < 8} = {}
      BY DEF Size
    <3>2. Bytes({} \cup {8}) = 6
      BY <3>1, BytesAdd, BytesOfNothing, FS_EmptySet
    <3>3. {} \cup {8} = {8}
      OBVIOUS
    <3>4. QED
      BY <3>1, <3>2, <3>3, BytesOfNothing DEF Offset
  <2>7. FrameOK(g)
    BY <2>2, <2>5, <2>6 DEF FrameOK, IsList
  <2>8. FrameHolds(g, s.mem)
    <3>1. g.at + Offset({8}, 8) = Top(st)
      BY <2>2, <2>5, <2>6
    <3>2. QED
      BY <2>2, <2>5, <2>6, <3>1 DEF FrameHolds
  <2>9. /\ s.a[7] = [seg |-> st.a[7].seg, addr |-> Behind(g)]
        /\ \A x \in 0 .. Room - 1 : x < Top(st) => s.mem[x] = st.mem[x]
    BY <1>2, <2>2, <2>5
  <2>10. PushedTo(s, st, g)
    BY <2>2, <2>5, <2>7, <2>8, <2>9, Zenon DEF PushedTo
  <2>11. QED
    BY <1>2, <2>1, <2>10, Zenon DEF Entered
<1>4. CASE ~CanCall(b)
  <2>1. Enter(Fault(b), f(p))
    BY <1>1, <1>4
  <2>2. QED
    BY <2>1, FaultedWhole, Zenon DEF Entered
<1>5. QED
  BY <1>3, <1>4

\* The address register of LINK, of which there are two.
LEMMA LinkEnters ==
  ASSUME IsState(st), NEW r \in {0, 7}, NEW n \in Locals, Link(r, n)
  PROVE  Entered
<1> DEFINE s(b) == Called(b, b.a[r])
           u(b) == [s(b) EXCEPT !.a[r] = s(b).a[7]]
           f == Frame("link", {r}, InMemory(8, st.a[r]), 6 + n)
<1>1. PICK b \in Executing :
        Enter(IF CanCall(b) THEN Move(u(b), n) ELSE Fault(b), f)
  BY DEF Link, Linked
<1>2. ~st.fault /\ st.a[7].seg = Stack /\ b.a = st.a
  BY ExecutingIs
<1>3. CASE CanCall(b)
  <2> DEFINE s1 == s(b)
             u1 == u(b)
             t == Move(u1, n)
  <2>1. Enter(t, f)
    BY <1>1, <1>3
  <2>2. IsAddress(st.a[r]) /\ n \in Int /\ n \in Nat /\ Room + n < Limit
    BY FramesAssumption DEF IsState, Limit
  <2>3. /\ IsState(s1) /\ ~s1.fault /\ Get(s1.mem, Top(st), 6) = InMemory(8, st.a[r])
        /\ s1.a[7] = [seg |-> Stack, addr |-> Top(st) + 6]
        /\ \A x \in 0 .. Room - 1 : x < Top(st) => s1.mem[x] = st.mem[x]
        /\ Top(st) \in Nat /\ Top(st) + 6 <= Room
    BY <1>2, <1>3, <2>2, CalledFrom
  <2>4. u1 = [s1 EXCEPT !.a[r] = s1.a[7]]
    OBVIOUS
  <2> HIDE DEF s, u, s1, u1
  <2>5. IsAddress(s1.a[7])
    BY <2>3, Zenon DEF IsState
  <2>6. /\ IsState(u1) /\ u1.a[r] = s1.a[7] /\ \A q \in {0, 7} \ {r} : u1.a[q] = s1.a[q]
        /\ u1.mem = s1.mem /\ u1.fault = s1.fault
    BY <2>3, <2>4, <2>5, AddressIs
  <2>7. u1.a[7] = s1.a[7] /\ Top(u1) = Top(st) + 6
    <3>1. u1.a[7] = s1.a[7]
      BY <2>6
    <3>2. QED
      BY <2>3, <3>1 DEF Top
  <2>8. /\ IsState(t) /\ OnlyA7(t, u1)
        /\ t.a[7] = [seg |-> u1.a[7].seg, addr |-> Cut(Top(u1) + n)]
    BY <2>2, <2>6, MoveIs, Zenon
  <2> HIDE DEF t
  <2>9. t.fault = s1.fault
    BY <2>6, <2>8, Zenon DEF OnlyA7
  <2>10. ~t.fault
    BY <2>3, <2>9, StillRuns, Zenon
  <2>11. Cut(Top(st) + 6 + n) = Top(st) + 6 + n
    BY <2>2, <2>3, LimitIsLarge, CutIsSame
  <2>12. /\ f.kind = "link" /\ f.what = {r} /\ f.saved = InMemory(8, st.a[r]) /\ f.size = 6 + n
         /\ f.at = Top(st) /\ f.kind # "save" /\ f.kind # "call" /\ Behind(f) = Top(st) + (6 + n)
    BY DEF Frame, Behind
  <2> HIDE DEF f
  <2>13. t.mem = s1.mem /\ t.a[7] = [seg |-> st.a[7].seg, addr |-> Behind(f)]
    <3>1. t.mem = s1.mem
      BY <2>6, <2>8, Zenon DEF OnlyA7
    <3>2. u1.a[7].seg = st.a[7].seg
      BY <1>2, <2>3, <2>7
    <3>3. Top(u1) + n = Top(st) + 6 + n /\ Behind(f) = Top(st) + 6 + n
      BY <2>2, <2>3, <2>7, <2>12
    <3>4. QED
      BY <2>8, <2>11, <3>1, <3>2, <3>3
  <2>14. ASSUME st.a[7].seg = Stack, ~Lost(f)
         PROVE  FrameOK(f) /\ FrameHolds(f, t.mem)
    <3>1. FrameHolds(f, t.mem)
      BY <2>3, <2>12, <2>13 DEF FrameHolds
    <3>2. ASSUME f.what = {7}
          PROVE  f.size = 6 /\ f.saved = [seg |-> Stack, addr |-> f.at]
      <4>1. r = 7 /\ ~(f.size > 6)
        BY <2>12, <2>14, <3>2 DEF Lost
      <4>2. st.a[7] = [seg |-> st.a[7].seg, addr |-> st.a[7].addr]
        BY DEF IsState, IsAddress
      <4>3. f.size = 6
        BY <2>2, <2>12, <4>1
      <4>4. InMemory(8, st.a[7]) = st.a[7]
        <5>1. st.a[7].addr < Long /\ IsAddress(st.a[7])
          BY <2>3, LongIs, LimitIsLarge DEF Top, IsState
        <5>2. QED
          BY <5>1, InMemoryIs
      <4>5. QED
        BY <2>12, <2>14, <4>1, <4>2, <4>3, <4>4 DEF Top
    <3>3. FrameOK(f)
      BY <2>3, <2>4, <2>12, <3>2 DEF FrameOK
    <3>4. QED
      BY <3>1, <3>3
  <2>15. \A x \in 0 .. Room - 1 : x < Top(st) => t.mem[x] = st.mem[x]
    BY <2>3, <2>13
  <2>16. f.kind \in {"call", "link", "save"}
    BY <2>12
  <2>17. PushedTo(t, st, f)
    BY <2>8, <2>10, <2>12, <2>13, <2>14, <2>15, <2>16, Zenon DEF PushedTo
  <2>18. QED
    BY <1>2, <2>1, <2>17, Zenon DEF Entered
<1>4. CASE ~CanCall(b)
  <2>1. Enter(Fault(b), f)
    BY <1>1, <1>4
  <2>2. QED
    BY <2>1, FaultedWhole, Zenon DEF Entered
<1>5. QED
  BY <1>3, <1>4

\* A list is stored by an instruction from b that has moved a7 and made s of it; if
\* it is MOV, s also has its flags.
LEMMA StoredEnters ==
  ASSUME IsState(st), NEW b \in Executing, NEW list, IsList(list),
         NEW s, IsState(s), ~s.fault, s.d = b.d, s.mem = b.mem, s.a[0] = b.a[0], s.pc = b.pc,
         s.w = b.w \/ (list = {0} /\ MovStore),
         s.a[7] = [seg |-> Stack, addr |-> Cut(Top(b) + Step(Bytes(list)))],
         Enter(IF Resolves(b) THEN Stored(s, Top(b), list) ELSE Fault(b), Saving(list))
  PROVE  Entered
<1> DEFINE f == Saving(list)
           t == Lay(s, Top(st), list)
<1>1. /\ ~st.fault /\ st.a[7].seg = Stack /\ Top(b) = Top(st)
      /\ b.d = st.d /\ b.w = st.w /\ b.a = st.a /\ b.mem = st.mem
  BY ExecutingIs
<1>2. Bytes(list) \in 0 .. 16 /\ Bytes(list) \in Nat
  BY OffsetsAreApart
<1>3. CASE ~Resolves(b)
  <2>1. Enter(Fault(b), f)
    BY <1>3
  <2>2. QED
    BY <2>1, FaultedWhole, Zenon DEF Entered
<1>4. CASE Resolves(b) /\ ~Checked(Top(st), list)
  <2>1. Enter(Fault(s), f)
    BY <1>1, <1>4 DEF Stored
  <2>2. FaultedTo(Fault(s), st)
    BY FaultedMoved, Zenon
  <2>3. QED
    BY <1>1, <2>1, <2>2, Zenon DEF Entered
<1>5. CASE Resolves(b) /\ Checked(Top(st), list)
  <2>1. Enter(t, f)
    BY <1>1, <1>5 DEF Stored
  <2>2. Top(st) \in Nat /\ Top(st) <= Room /\ Grants(Top(st), Bytes(list)) /\ list \cap {16, 17} = {}
    BY <1>1, <1>5, TopIsNat DEF Resolves, Checked
  <2>3. Top(st) + Bytes(list) <= Room
    BY <1>2, <2>2, GrantedFits
  <2>4. /\ IsState(t) /\ t.a = s.a /\ t.fault = s.fault
        /\ \A x \in 0 .. Room - 1 : x < Top(st) => t.mem[x] = s.mem[x]
        /\ \A i \in list : Get(t.mem, Top(st) + Offset(list, i), Size(i)) = InMemory(i, Register(s, i))
    BY <1>2, <2>2, <2>3, LayIs
  <2> HIDE DEF t
  <2>5. ~t.fault
    BY <2>4, StillRuns, Zenon
  <2>6. /\ f.kind = "save" /\ f.what = list /\ f.size = Bytes(list) /\ f.at = Top(st)
        /\ f.saved = [i \in list \ {16, 17} |-> InMemory(i, Register(st, i))]
        /\ Behind(f) = Top(st) + Bytes(list)
    BY DEF Saving, Frame, Behind
  <2> HIDE DEF f
  <2>7. ASSUME NEW i \in list
        PROVE  f.saved[i] = InMemory(i, Register(st, i)) /\ Register(s, i) = Register(st, i)
    <3>1. i \notin {16, 17} /\ i \in {0, 8, 15, 16, 17, 18}
      BY <2>2 DEF IsList
    <3>2. CASE s.w = b.w
      <4>1. s.d = st.d /\ s.w = st.w /\ s.a[0] = st.a[0]
        BY <1>1, <3>2, Zenon
      <4>2. Register(s, i) = Register(st, i)
        BY <3>1, <4>1, RegisterSame, Zenon
      <4>3. QED
        BY <2>6, <3>1, <4>2
    <3>3. CASE list = {0}
      BY <1>1, <2>6, <3>1, <3>3 DEF Register
    <3>4. QED
      BY <3>2, <3>3
  <2>8. FrameHolds(f, t.mem)
    <3>1. ASSUME NEW i \in f.what
          PROVE  Get(t.mem, f.at + Offset(f.what, i), Size(i)) = f.saved[i]
      BY <2>4, <2>6, <2>7
    <3>2. QED
      BY <2>6, <3>1 DEF FrameHolds
  <2>9. ASSUME ~Lost(f)
        PROVE  FrameOK(f) /\ t.a[7] = [seg |-> st.a[7].seg, addr |-> Behind(f)]
    <3>1. Bytes(list) >= 4
      BY <1>2, <2>6, <2>9 DEF Lost
    <3>2. Bytes(list) <= Room /\ Room \in Nat
      BY <1>2, <2>2, <2>3, LimitIsLarge
    <3>3. Step(Bytes(list)) = Bytes(list)
      BY <1>2, <3>1, <3>2, StepIs
    <3>4. Cut(Top(st) + Bytes(list)) = Top(st) + Bytes(list)
      BY <1>2, <2>2, <2>3, LimitIsLarge, CutIsSame
    <3>5. FrameOK(f)
      BY <2>2, <2>3, <2>6, <3>1 DEF FrameOK
    <3>6. t.a[7] = [seg |-> st.a[7].seg, addr |-> Behind(f)]
      BY <1>1, <2>4, <2>6, <3>3, <3>4
    <3>7. QED
      BY <3>5, <3>6
  <2>10. \A x \in 0 .. Room - 1 : x < Top(st) => t.mem[x] = st.mem[x]
    BY <1>1, <2>4
  <2>11. f.kind \in {"call", "link", "save"}
    BY <2>6
  <2>12. PushedTo(t, st, f)
    BY <2>4, <2>5, <2>6, <2>8, <2>9, <2>10, <2>11, Zenon DEF PushedTo
  <2>13. QED
    BY <1>1, <2>1, <2>12, Zenon DEF Entered
<1>6. QED
  BY <1>3, <1>4, <1>5

\* MOVM list,(a7)+ and STA, STS of one register.
LEMMA StoreEnters ==
  ASSUME IsState(st), NEW list \in Lists, Store(list)
  PROVE  Entered
<1>1. PICK b \in Executing :
        Enter(IF Resolves(b) THEN Stored(Move(b, Step(Bytes(list))), Top(b), list) ELSE Fault(b),
              Saving(list))
  BY DEF Store
<1>2. IsState(b) /\ ~b.fault /\ b.a = st.a /\ st.a[7].seg = Stack
  BY ExecutingIs
<1>3. IsList(list) /\ Step(Bytes(list)) \in Int
  BY ListsAreLists, OffsetsAreApart, StepIs
<1> DEFINE s == Move(b, Step(Bytes(list)))
<1>4. /\ IsState(s) /\ OnlyA7(s, b)
      /\ s.a[7] = [seg |-> b.a[7].seg, addr |-> Cut(Top(b) + Step(Bytes(list)))]
  BY <1>2, <1>3, MoveIs
<1>5. Enter(IF Resolves(b) THEN Stored(s, Top(b), list) ELSE Fault(b), Saving(list))
  BY <1>1
<1> HIDE DEF s
<1>6. /\ s.d = b.d /\ s.mem = b.mem /\ s.a[0] = b.a[0] /\ s.pc = b.pc /\ s.w = b.w
      /\ s.fault = b.fault
  BY <1>4, Zenon DEF OnlyA7
<1>7. ~s.fault /\ s.a[7] = [seg |-> Stack, addr |-> Cut(Top(b) + Step(Bytes(list)))]
  BY <1>2, <1>4, <1>6
<1>8. QED
  BY <1>3, <1>4, <1>5, <1>6, <1>7, StoredEnters

\* MOV d0,(a7)+.
LEMMA MovStoreEnters ==
  ASSUME IsState(st), MovStore
  PROVE  Entered
<1>1. PICK b \in Executing, flags \in Flags :
        Enter(IF Resolves(b) THEN Stored(Move([b EXCEPT !.w[15] = flags], 4), Top(b), {0})
              ELSE Fault(b), Saving({0}))
  BY DEF MovStore
<1>2. IsState(b) /\ ~b.fault /\ b.a = st.a /\ st.a[7].seg = Stack
  BY ExecutingIs
<1>3. IsList({0}) /\ Bytes({0}) = 4 /\ Step(Bytes({0})) = 4
  BY BytesOfData, StepIs DEF IsList
<1> DEFINE u == [b EXCEPT !.w[15] = flags]
           s == Move(u, 4)
<1>4. /\ IsState(u) /\ u.d = b.d /\ u.a = b.a /\ u.pc = b.pc /\ u.mem = b.mem
      /\ u.fault = b.fault
  BY <1>2, FlagsIs
<1>5. Enter(IF Resolves(b) THEN Stored(s, Top(b), {0}) ELSE Fault(b), Saving({0}))
  BY <1>1
<1> HIDE DEF u
<1>6. /\ IsState(s) /\ OnlyA7(s, u)
      /\ s.a[7] = [seg |-> u.a[7].seg, addr |-> Cut(Top(u) + 4)]
  <2>1. 4 \in Int
    OBVIOUS
  <2>2. QED
    BY <1>4, <2>1, MoveIs
<1> HIDE DEF s
<1>7. /\ s.d = b.d /\ s.mem = b.mem /\ s.a[0] = b.a[0] /\ s.pc = b.pc /\ s.fault = b.fault
  BY <1>4, <1>6, Zenon DEF OnlyA7
<1>8. ~s.fault /\ s.a[7] = [seg |-> Stack, addr |-> Cut(Top(b) + Step(Bytes({0})))]
  BY <1>2, <1>3, <1>4, <1>6, <1>7 DEF Top
<1>9. QED
  BY <1>3, <1>5, <1>6, <1>7, <1>8, StoredEnters

-----------------------------------------------------------------------------
(* The instructions that take the last frame off *)

\* The last frame is off the stack; if it was to be found, all it saved is restored.
PoppedTo(t, s, fs) ==
  /\ IsState(t) /\ ~t.fault /\ t.mem = s.mem
  /\ Kept(fs, s) => Restored(Last(fs), t)

Left ==
  /\ frames # <<>> /\ ~st.fault
  /\ \E new : Leave(new) /\ (FaultedTo(new, st) \/ PoppedTo(new, st, frames))

\* The last frame of a stack that is kept.
LEMMA LastIs ==
  ASSUME NEW fs, IsFrames(fs), fs # <<>>, NEW s, IsState(s), Kept(fs, s)
  PROVE  /\ FrameOK(Last(fs)) /\ FrameHolds(Last(fs), s.mem)
         /\ Last(fs).at + Last(fs).size = Top(s) /\ Last(fs).at \in 0 .. Limit - 1
<1>1. Len(fs) \in DOMAIN fs /\ Last(fs) = fs[Len(fs)]
  BY Fronted
<1>2. FrameOK(Last(fs)) /\ FrameHolds(Last(fs), s.mem)
  BY <1>1 DEF Kept
<1>3. Last(fs).at + Last(fs).size = Top(s)
  BY <1>1 DEF Kept, Contiguous
<1>4. Last(fs).size \in Nat /\ Last(fs).at \in Nat
  BY <1>2, FrameSize
<1>5. QED
  BY <1>2, <1>3, <1>4, TopIsNat, LimitIsLarge

LEMMA RtsLeaves ==
  ASSUME IsState(st), IsFrames(frames), Rts
  PROVE  Left
<1> DEFINE f == Last(frames)
<1>0. PICK b \in Executing : Leave(Returned(Move(b, -6)))
  BY DEF Rts
<1> DEFINE s == Move(b, -6)
           t == [s EXCEPT !.pc = Get(s.mem, Top(s), 6)]
<1>1. /\ frames # <<>> /\ f.kind = "call"
      /\ Leave(IF CanCall(s) THEN t ELSE Fault(s))
  BY <1>0 DEF Rts, IsLast, Returned
<1>2. ~st.fault /\ IsState(b) /\ ~b.fault /\ b.mem = st.mem /\ b.a = st.a /\ Top(b) = Top(st)
  BY ExecutingIs
<1>3. IsState(s) /\ OnlyA7(s, b) /\ s.a[7] = [seg |-> st.a[7].seg, addr |-> Cut(Top(st) + (-6))]
  <2>1. -6 \in Int
    OBVIOUS
  <2>2. QED
    BY <1>2, <2>1, MoveIs
<1> HIDE DEF s
<1>4. CASE ~CanCall(s)
  <2>1. Leave(Fault(s))
    BY <1>1, <1>4
  <2>2. FaultedTo(Fault(s), st)
    BY <1>3, FaultedTop, Zenon
  <2>3. QED
    BY <1>1, <1>2, <2>1, <2>2, Zenon DEF Left
<1>5. CASE CanCall(s)
  <2>1. Leave(t)
    BY <1>1, <1>5
  <2>2. /\ IsState(t) /\ t.pc = Get(s.mem, Top(s), 6) /\ t.a = s.a /\ t.mem = s.mem
        /\ t.fault = s.fault
    BY <1>3, PcIs
  <2> HIDE DEF t
  <2>3. t.fault = b.fault /\ t.mem = st.mem /\ s.mem = st.mem
    BY <1>2, <1>3, <2>2, Zenon DEF OnlyA7
  <2>4. ~t.fault
    BY <1>2, <2>3, StillRuns, Zenon
  <2>5. ASSUME Kept(frames, st) PROVE Restored(f, t)
    <3>1. FrameOK(f) /\ FrameHolds(f, st.mem) /\ f.at + f.size = Top(st) /\ f.at \in 0 .. Limit - 1
      BY <1>1, <2>5, LastIs
    <3> HIDE DEF f
    <3>2. f.size = 6 /\ Top(st) + (-6) = f.at /\ Get(st.mem, f.at, 6) = f.saved
      BY <1>1, <3>1 DEF FrameOK, FrameHolds
    <3>3. s.a[7] = [seg |-> Stack, addr |-> f.at]
      BY <1>3, <2>5, <3>1, <3>2, CutIsSame DEF Kept
    <3>4. Top(s) = f.at
      BY <3>3 DEF Top
    <3>5. t.a[7] = [seg |-> Stack, addr |-> f.at] /\ t.pc = f.saved
      BY <2>2, <2>3, <3>2, <3>3, <3>4
    <3>6. QED
      BY <1>1, <3>5 DEF Restored
  <2>6. PoppedTo(t, st, frames)
    BY <2>2, <2>3, <2>4, <2>5, Zenon DEF PoppedTo
  <2>7. QED
    BY <1>1, <1>2, <2>1, <2>6, Zenon DEF Left
<1>6. QED
  BY <1>4, <1>5

LEMMA UnlkLeaves ==
  ASSUME IsState(st), IsFrames(frames), NEW r \in {0, 7}, Unlk(r)
  PROVE  Left
<1> DEFINE f == Last(frames)
<1>0. PICK b \in Executing : Leave(Unlinked(Move([b EXCEPT !.a[7] = b.a[r]], -6), r))
  BY DEF Unlk
<1> DEFINE u == [b EXCEPT !.a[7] = b.a[r]]
           s == Move(u, -6)
           v == Get(s.mem, Top(s), 6)
           t == [s EXCEPT !.a[r] = v]
<1>1. /\ frames # <<>> /\ f.kind = "link" /\ f.what = {r}
      /\ r # 7 => st.a[r] = [seg |-> Stack, addr |-> f.at + 6]
      /\ Leave(IF CanCall(s) THEN t ELSE Fault(s))
  BY <1>0 DEF Unlk, IsLast, Unlinked
<1>2. /\ ~st.fault /\ IsState(b) /\ ~b.fault
      /\ b.mem = st.mem /\ b.a = st.a /\ b.d = st.d /\ b.w = st.w
  BY ExecutingIs
<1>3. /\ IsState(u) /\ u.a[7] = st.a[r] /\ u.a[0] = b.a[0]
      /\ u.d = b.d /\ u.w = b.w /\ u.pc = b.pc /\ u.mem = b.mem /\ u.fault = b.fault
  <2>1. IsAddress(b.a[r]) /\ 7 \in {0, 7} /\ 0 \in {0, 7} \ {7}
    BY <1>2 DEF IsState
  <2>2. QED
    BY <1>2, <2>1, AddressIs
<1> HIDE DEF u
<1>4. IsState(s) /\ OnlyA7(s, u) /\ s.a[7] = [seg |-> u.a[7].seg, addr |-> Cut(Top(u) + (-6))]
  <2>1. -6 \in Int
    OBVIOUS
  <2>2. QED
    BY <1>3, <2>1, MoveIs, Zenon
<1> HIDE DEF s
<1>5. OnlyA7(s, b)
  BY <1>3, <1>4, Zenon DEF OnlyA7
<1>6. CASE ~CanCall(s)
  <2>1. Leave(Fault(s))
    BY <1>1, <1>6
  <2>2. FaultedTo(Fault(s), st)
    BY <1>4, <1>5, FaultedTop, Zenon
  <2>3. QED
    BY <1>1, <1>2, <2>1, <2>2, Zenon DEF Left
<1>7. CASE CanCall(s)
  <2>1. Leave(t)
    BY <1>1, <1>7
  <2>2. IsAddress(v)
    <3>1. IsMemory(s.mem) /\ Top(s) \in Int
      BY <1>4, TopIsNat DEF IsState
    <3>2. QED
      BY <3>1, GetIsAddress
  <2> HIDE DEF v
  <2>3. /\ IsState(t) /\ t.a[r] = v /\ \A q \in {0, 7} \ {r} : t.a[q] = s.a[q]
        /\ t.mem = s.mem /\ t.fault = s.fault
    BY <1>4, <2>2, AddressIs
  <2> HIDE DEF t
  <2>4. t.fault = b.fault /\ t.mem = st.mem /\ s.mem = st.mem
    BY <1>2, <1>5, <2>3, Zenon DEF OnlyA7
  <2>5. ~t.fault
    BY <1>2, <2>4, StillRuns, Zenon
  <2>6. ASSUME Kept(frames, st) PROVE Restored(f, t)
    <3>1. FrameOK(f) /\ FrameHolds(f, st.mem) /\ f.at + f.size = Top(st) /\ f.at \in 0 .. Limit - 1
      BY <1>1, <2>6, LastIs
    <3> HIDE DEF f
    <3>2. Get(st.mem, f.at, 6) = f.saved
      BY <1>1, <3>1 DEF FrameHolds
    <3>3. st.a[r] = [seg |-> Stack, addr |-> f.at + 6]
      <4>1. CASE r = 0
        BY <1>1, <4>1
      <4>2. CASE r = 7
        <5>1. f.size = 6 /\ f.at + 6 = Top(st)
          BY <1>1, <3>1, <4>2 DEF FrameOK
        <5>2. st.a[7] = [seg |-> st.a[7].seg, addr |-> st.a[7].addr]
          BY DEF IsState, IsAddress
        <5>3. QED
          BY <2>6, <4>2, <5>1, <5>2 DEF Kept, Top
      <4>3. QED
        BY <4>1, <4>2
    <3>4. u.a[7].seg = Stack /\ Top(u) + (-6) = f.at
      <4>1. Top(u) = f.at + 6 /\ f.at \in Nat
        BY <1>3, <3>1, <3>3, LimitIsLarge DEF Top
      <4>2. QED
        BY <1>3, <3>3, <4>1
    <3>5. s.a[7] = [seg |-> Stack, addr |-> f.at]
      BY <1>4, <3>1, <3>4, CutIsSame
    <3>6. v = f.saved
      BY <2>4, <3>2, <3>5 DEF Top, v
    <3>7. t.a[7] = [seg |-> Stack, addr |-> f.at] /\ t.a[r] = f.saved
      <4>1. CASE r = 0
        BY <2>3, <3>5, <3>6, <4>1
      <4>2. CASE r = 7
        <5>1. f.saved = [seg |-> Stack, addr |-> f.at]
          BY <1>1, <3>1, <4>2 DEF FrameOK
        <5>2. QED
          BY <2>3, <3>6, <4>2, <5>1
      <4>3. QED
        BY <4>1, <4>2
    <3>8. QED
      BY <1>1, <3>7 DEF Restored
  <2>7. PoppedTo(t, st, frames)
    BY <2>3, <2>4, <2>5, <2>6, Zenon DEF PoppedTo
  <2>8. QED
    BY <1>1, <1>2, <2>1, <2>7, Zenon DEF Left
<1>8. QED
  BY <1>6, <1>7

\* The registers of the last frame are loaded once a7 is moved, if they may be read.
LEMMA LoadedIs ==
  ASSUME IsState(st), IsFrames(frames), NEW b \in Executing, NEW list, IsList(list),
         IsLast("save", list),
         NEW s, IsState(s), OnlyA7(s, b),
         s.a[7] = [seg |-> Stack, addr |-> Cut(Top(b) + (-Step(Bytes(list))))]
  PROVE  LET t == Loaded(s, list)
         IN /\ Checked(Top(s), list) => PoppedTo(t, st, frames)
            /\ ~Checked(Top(s), list) => FaultedTo(t, st)
<1> DEFINE vals == [i \in list |-> Get(s.mem, Top(s) + Offset(list, i), Size(i))]
           t == SetRegisters(s, vals)
           f == Last(frames)
<1>1. /\ IsState(b) /\ ~b.fault /\ b.mem = st.mem /\ Top(b) = Top(st)
      /\ frames # <<>> /\ f.kind = "save" /\ f.what = list
  BY ExecutingIs DEF IsLast
<1>2. Bytes(list) \in 0 .. 16 /\ Bytes(list) \in Nat
  BY OffsetsAreApart
<1>3. DOMAIN vals = list /\ IsList(DOMAIN vals)
  OBVIOUS
<1>4. ASSUME 8 \in DOMAIN vals PROVE IsAddress(vals[8])
  <2>1. vals[8] = Get(s.mem, Top(s) + Offset(list, 8), 6)
    BY <1>3, <1>4 DEF Size
  <2>2. IsMemory(s.mem) /\ Top(s) + Offset(list, 8) \in Int
    BY <1>2, <1>3, <1>4, TopIsNat, OffsetsAreApart DEF IsState
  <2>3. QED
    BY <2>1, <2>2, GetIsAddress
<1>5. \A i \in list : vals[i] = Get(s.mem, Top(s) + Offset(list, i), Size(i))
  OBVIOUS
<1>6. Checked(Top(s), list) => Loaded(s, list) = t
  BY DEF Loaded, Fetched
<1> HIDE DEF vals
<1>7. /\ IsState(t)
      /\ t.a[7] = s.a[7] /\ t.pc = s.pc /\ t.mem = s.mem /\ t.fault = s.fault
      /\ \A i \in (DOMAIN vals) \ {16, 17} : Register(t, i) = vals[i]
  BY <1>3, <1>4, SetRegistersIs
<1> HIDE DEF t
<1>8. t.fault = b.fault /\ t.mem = st.mem /\ s.mem = st.mem
  BY <1>1, <1>7, Zenon DEF OnlyA7
<1>9. ~t.fault
  BY <1>1, <1>8, StillRuns, Zenon
<1>10. ASSUME Kept(frames, st) PROVE Restored(f, t)
  <2>1. FrameOK(f) /\ FrameHolds(f, st.mem) /\ f.at + f.size = Top(st) /\ f.at \in 0 .. Limit - 1
    BY <1>1, <1>10, LastIs
  <2> HIDE DEF f
  <2>2. f.size = Bytes(list) /\ Bytes(list) >= 4 /\ Bytes(list) <= Room /\ list \cap {16, 17} = {}
    BY <1>1, <1>2, <2>1, LimitIsLarge DEF FrameOK
  <2>3. Step(Bytes(list)) = Bytes(list)
    BY <1>2, <2>2, StepIs
  <2>4. Top(b) + (-Step(Bytes(list))) = f.at
    <3>1. f.at \in Int /\ f.at + Bytes(list) = Top(b)
      BY <1>1, <2>1, <2>2, LimitIsLarge
    <3>2. QED
      BY <1>2, <2>3, <3>1
  <2>5. s.a[7] = [seg |-> Stack, addr |-> f.at]
    BY <2>1, <2>4, CutIsSame
  <2>6. ASSUME NEW i \in f.what PROVE Register(t, i) = f.saved[i]
    <3>1. i \in list /\ i \in (DOMAIN vals) \ {16, 17}
      BY <1>1, <1>3, <2>2
    <3>2. Register(t, i) = Get(st.mem, f.at + Offset(list, i), Size(i))
      BY <1>5, <1>7, <1>8, <2>5, <3>1 DEF Top
    <3>3. Get(st.mem, f.at + Offset(list, i), Size(i)) = f.saved[i]
      BY <1>1, <2>1 DEF FrameHolds
    <3>4. QED
      BY <3>2, <3>3
  <2>7. QED
    BY <1>1, <1>7, <2>5, <2>6 DEF Restored
<1>11. ASSUME Checked(Top(s), list) PROVE PoppedTo(Loaded(s, list), st, frames)
  <2>1. PoppedTo(t, st, frames)
    BY <1>7, <1>8, <1>9, <1>10, Zenon DEF PoppedTo
  <2>2. QED
    BY <1>6, <1>11, <2>1, Zenon
<1>12. ASSUME ~Checked(Top(s), list) PROVE FaultedTo(Loaded(s, list), st)
  <2>1. Loaded(s, list) = Fault(s)
    BY <1>12 DEF Loaded
  <2>2. FaultedTo(Fault(s), st)
    BY FaultedTop, Zenon
  <2>3. QED
    BY <2>1, <2>2, Zenon
<1>13. QED
  BY <1>11, <1>12, Zenon

\* MOVM -(a7),list and LDA, LDS of one register.
LEMMA LoadLeaves ==
  ASSUME IsState(st), IsFrames(frames), NEW list \in Lists, Load(list)
  PROVE  Left
<1>1. IsLast("save", list) /\ frames # <<>>
  BY DEF Load, IsLast
<1>2. PICK b \in Executing :
        Leave(IF Resolves(b) THEN Loaded(Move(b, -Step(Bytes(list))), list) ELSE Fault(b))
  BY DEF Load
<1>3. IsState(b) /\ ~st.fault /\ b.a = st.a /\ st.a[7].seg = Stack
  BY ExecutingIs
<1>4. IsList(list) /\ -Step(Bytes(list)) \in Int
  BY ListsAreLists, OffsetsAreApart, StepIs
<1> DEFINE s == Move(b, -Step(Bytes(list)))
<1>5. /\ IsState(s) /\ OnlyA7(s, b)
      /\ s.a[7] = [seg |-> Stack, addr |-> Cut(Top(b) + (-Step(Bytes(list))))]
  BY <1>3, <1>4, MoveIs
<1>6. Leave(IF Resolves(b) THEN Loaded(s, list) ELSE Fault(b))
  BY <1>2
<1> HIDE DEF s
<1>7. CASE Resolves(b)
  <2>1. FaultedTo(Loaded(s, list), st) \/ PoppedTo(Loaded(s, list), st, frames)
    BY <1>1, <1>4, <1>5, LoadedIs
  <2>2. QED
    BY <1>1, <1>3, <1>6, <1>7, <2>1 DEF Left
<1>8. CASE ~Resolves(b)
  <2>1. Leave(Fault(b)) /\ FaultedTo(Fault(b), st)
    BY <1>6, <1>8, FaultedWhole
  <2>2. QED
    BY <1>1, <1>3, <2>1 DEF Left
<1>9. QED
  BY <1>7, <1>8

\* MOV -(a7),d0.
LEMMA MovLoadLeaves ==
  ASSUME IsState(st), IsFrames(frames), MovLoad
  PROVE  Left
<1>1. IsLast("save", {0}) /\ frames # <<>> /\ Last(frames).kind = "save" /\ Last(frames).what = {0}
  BY DEF MovLoad, IsLast
<1>2. PICK b \in Executing, flags \in Flags :
        LET t == Loaded(Move(b, -4), {0})
        IN Leave(IF ~Resolves(b) THEN Fault(b) ELSE IF t.fault THEN t ELSE [t EXCEPT !.w[15] = flags])
  BY DEF MovLoad
<1>3. IsState(b) /\ ~st.fault /\ b.a = st.a /\ st.a[7].seg = Stack
  BY ExecutingIs
<1>4. IsList({0}) /\ -4 \in Int /\ -Step(Bytes({0})) = -4
  BY BytesOfData, StepIs DEF IsList
<1> DEFINE s == Move(b, -4)
           t == Loaded(s, {0})
           new == [t EXCEPT !.w[15] = flags]
<1>5. /\ IsState(s) /\ OnlyA7(s, b)
      /\ s.a[7] = [seg |-> Stack, addr |-> Cut(Top(b) + (-Step(Bytes({0}))))]
  BY <1>3, <1>4, MoveIs
<1>6. Leave(IF ~Resolves(b) THEN Fault(b) ELSE IF t.fault THEN t ELSE new)
  BY <1>2
<1> HIDE DEF s
<1>7. FaultedTo(t, st) \/ PoppedTo(t, st, frames)
  BY <1>1, <1>4, <1>5, LoadedIs
<1> HIDE DEF t
<1>8. CASE ~Resolves(b)
  <2>1. Leave(Fault(b)) /\ FaultedTo(Fault(b), st)
    BY <1>6, <1>8, FaultedWhole
  <2>2. QED
    BY <1>1, <1>3, <2>1 DEF Left
<1>9. CASE Resolves(b) /\ t.fault
  <2>1. Leave(t) /\ FaultedTo(t, st)
    <3>1. Leave(t)
      BY <1>6, <1>9
    <3>2. ~PoppedTo(t, st, frames)
      BY <1>9, Zenon DEF PoppedTo
    <3>3. QED
      BY <1>7, <3>1, <3>2
  <2>2. QED
    BY <1>1, <1>3, <2>1 DEF Left
<1>10. CASE Resolves(b) /\ ~t.fault
  <2>1. Leave(new)
    BY <1>6, <1>10
  <2>2. PoppedTo(t, st, frames)
    BY <1>7, <1>10, Zenon DEF FaultedTo
  <2>3. IsState(t) /\ t.mem = st.mem
    BY <2>2, Zenon DEF PoppedTo
  <2>4. /\ IsState(new) /\ new.d = t.d /\ new.a = t.a /\ new.pc = t.pc /\ new.mem = t.mem
        /\ new.fault = t.fault
    BY <2>3, FlagsIs
  <2> HIDE DEF new
  <2>5. ASSUME Kept(frames, st) PROVE Restored(Last(frames), new)
    <3>1. Restored(Last(frames), t)
      BY <2>2, <2>5, Zenon DEF PoppedTo
    <3>2. /\ t.a[7] = [seg |-> Stack, addr |-> Last(frames).at]
          /\ Register(t, 0) = Last(frames).saved[0]
      BY <1>1, <3>1 DEF Restored
    <3>3. Register(new, 0) = Register(t, 0)
      BY <2>4 DEF Register
    <3>4. QED
      BY <1>1, <2>4, <3>2, <3>3 DEF Restored
  <2>6. ~new.fault
    BY <1>10, <2>4, StillRuns, Zenon
  <2>7. PoppedTo(new, st, frames)
    BY <2>3, <2>4, <2>5, <2>6, Zenon DEF PoppedTo
  <2>8. QED
    BY <1>1, <1>3, <2>1, <2>7 DEF Left
<1>11. QED
  BY <1>8, <1>9, <1>10

-----------------------------------------------------------------------------
(* The instructions that leave the stack alone *)

\* Registers and memory may change, but not a7 and what the frames hold.
Aside ==
  /\ frames' = frames /\ lost' = lost /\ ~st.fault
  /\ IsState(st') /\ ~st'.fault /\ st'.a[7] = st.a[7]
  /\ \A k \in DOMAIN frames :
       \A x \in Held(frames[k]) \cap 0 .. Room - 1 : st.mem[x] = st'.mem[x]

LEMMA JmpIsAside ==
  ASSUME IsState(st), Jmp
  PROVE  Aside
<1>1. PICK b \in Executing, to \in Code : st' = [b EXCEPT !.pc = to]
  BY DEF Jmp
<1>2. /\ ~st.fault /\ frames' = frames /\ lost' = lost
      /\ IsState(b) /\ ~b.fault /\ b.a = st.a /\ b.mem = st.mem
  BY ExecutingIs DEF Jmp
<1> DEFINE t == [b EXCEPT !.pc = to]
<1>3. IsState(t) /\ t.a = b.a /\ t.mem = b.mem /\ t.fault = b.fault
  BY <1>2, PcIs
<1>4. st' = t
  BY <1>1
<1> HIDE DEF t
<1>5. ~t.fault
  BY <1>2, <1>3, StillRuns, Zenon
<1>6. t.a[7] = st.a[7] /\ \A x : st.mem[x] = t.mem[x]
  BY <1>2, <1>3
<1>7. QED
  BY <1>2, <1>3, <1>4, <1>5, <1>6, Zenon DEF Aside

LEMMA SetIsAside ==
  ASSUME IsState(st), NEW b \in Executing, frames' = frames, lost' = lost,
         NEW i \in {0, 8, 15}, NEW v, i = 8 => IsAddress(v),
         st' = SetRegisters(b, [j \in {i} |-> v])
  PROVE  Aside
<1> DEFINE vals == [j \in {i} |-> v]
           t == SetRegisters(b, vals)
<1>1. DOMAIN vals = {i} /\ vals[i] = v
  OBVIOUS
<1>2. IsList(DOMAIN vals) /\ (8 \in DOMAIN vals => IsAddress(vals[8]))
  BY <1>1 DEF IsList
<1> HIDE DEF vals
<1>3. IsState(b) /\ ~b.fault /\ ~st.fault /\ b.a = st.a /\ b.mem = st.mem
  BY ExecutingIs
<1>4. IsState(t) /\ t.a[7] = b.a[7] /\ t.mem = b.mem /\ t.fault = b.fault
  BY <1>2, <1>3, SetRegistersIs
<1>5. st' = t
  BY DEF vals
<1> HIDE DEF t
<1>6. ~t.fault /\ t.a[7] = st.a[7]
  BY <1>3, <1>4, StillRuns, Zenon
<1>7. \A x : st.mem[x] = t.mem[x]
  BY <1>3, <1>4
<1>8. QED
  BY <1>3, <1>4, <1>5, <1>6, <1>7, Zenon DEF Aside

LEMMA ComputeIsAside ==
  ASSUME IsState(st), Compute
  PROVE  Aside
<1>1. frames' = frames /\ lost' = lost
  BY DEF Compute
<1>2. PICK b \in Executing :
        \/ \E v \in Data : st' = SetRegisters(b, [j \in {0} |-> v])
        \/ \E v \in Flags : st' = SetRegisters(b, [j \in {15} |-> v])
        \/ \E p \in Pointers : st' = SetRegisters(b, [j \in {8} |-> p])
  BY DEF Compute
<1>3. CASE \E v \in Data : st' = SetRegisters(b, [j \in {0} |-> v])
  <2>1. 0 \in {0, 8, 15} /\ 0 # 8
    OBVIOUS
  <2>2. QED
    BY <1>1, <1>3, <2>1, SetIsAside, Zenon
<1>4. CASE \E v \in Flags : st' = SetRegisters(b, [j \in {15} |-> v])
  <2>1. 15 \in {0, 8, 15} /\ 15 # 8
    OBVIOUS
  <2>2. QED
    BY <1>1, <1>4, <2>1, SetIsAside, Zenon
<1>5. CASE \E p \in Pointers : st' = SetRegisters(b, [j \in {8} |-> p])
  <2>1. PICK p \in Pointers : st' = SetRegisters(b, [j \in {8} |-> p])
    BY <1>5
  <2>2. IsAddress(p) /\ 8 \in {0, 8, 15}
    BY PointersAreAddresses
  <2>3. QED
    BY <1>1, <2>1, <2>2, SetIsAside, Zenon
<1>6. QED
  BY <1>2, <1>3, <1>4, <1>5

LEMMA ScribbleIsAside ==
  ASSUME IsState(st), Scribble
  PROVE  Aside
<1>0. PICK b \in Executing :
        st' = [b EXCEPT !.mem = [x \in DOMAIN @ |->
                 IF \E k \in DOMAIN frames : x \in Held(frames[k]) THEN @[x] ELSE <<Junk, 0>>]]
  BY DEF Scribble
<1>a. IsState(b) /\ ~b.fault /\ ~st.fault /\ b.a = st.a /\ b.mem = st.mem
  BY ExecutingIs
<1> DEFINE m == [x \in DOMAIN st.mem |->
                   IF \E k \in DOMAIN frames : x \in Held(frames[k]) THEN st.mem[x] ELSE <<Junk, 0>>]
           t == [b EXCEPT !.mem = m]
<1>1. ~st.fault /\ frames' = frames /\ lost' = lost /\ st' = t
  BY <1>0, <1>a DEF Scribble
<1>2. DOMAIN st.mem = 0 .. Room - 1
  BY DEF IsState, IsMemory
<1>3. /\ m = [x \in 0 .. Room - 1 |-> m[x]]
      /\ \A x \in 0 .. Room - 1 : (\E k \in DOMAIN frames : x \in Held(frames[k])) => m[x] = st.mem[x]
      /\ \A x \in 0 .. Room - 1 : m[x] = st.mem[x] \/ m[x] = <<Junk, 0>>
  BY <1>2
<1> HIDE DEF m
<1>4. IsMemory(m)
  <2>1. ASSUME NEW x \in 0 .. Room - 1, m[x][2] \in {4, 5} PROVE IsAddress(m[x][1])
    BY <1>3, <2>1 DEF IsState, IsMemory
  <2>2. QED
    BY <1>3, <2>1 DEF IsMemory
<1>5. IsState(t) /\ t.mem = m /\ t.a = b.a /\ t.fault = b.fault
  BY <1>4, <1>a, MemIs
<1> HIDE DEF t
<1>6. ~t.fault
  BY <1>a, <1>5, StillRuns, Zenon
<1>7. \A k \in DOMAIN frames : \A x \in Held(frames[k]) \cap 0 .. Room - 1 : st.mem[x] = t.mem[x]
  BY <1>3, <1>5
<1>8. t.a[7] = st.a[7]
  BY <1>a, <1>5
<1>9. QED
  BY <1>1, <1>5, <1>6, <1>7, <1>8, Zenon DEF Aside

-----------------------------------------------------------------------------
(* The invariant *)

LEMMA NextIs ==
  ASSUME IsState(st), IsFrames(frames), Next
  PROVE  Entered \/ Left \/ Aside
<1>1. CASE Bsr \/ Jsr \/ Pea
  BY <1>1, BsrEnters, JsrEnters, PeaEnters, Zenon
<1>2. CASE Rts \/ MovStore \/ MovLoad
  BY <1>2, RtsLeaves, MovStoreEnters, MovLoadLeaves, Zenon
<1>3. CASE Jmp \/ Compute \/ Scribble
  BY <1>3, JmpIsAside, ComputeIsAside, ScribbleIsAside, Zenon
<1>4. CASE \E r \in {0, 7}, n \in Locals : Link(r, n)
  BY <1>4, LinkEnters, Zenon
<1>5. CASE \E r \in {0, 7} : Unlk(r)
  BY <1>5, UnlkLeaves, Zenon
<1>6. CASE \E list \in Lists : Store(list)
  BY <1>6, StoreEnters, Zenon
<1>7. CASE \E list \in Lists : Load(list)
  BY <1>7, LoadLeaves, Zenon
<1>8. QED
  BY <1>1, <1>2, <1>3, <1>4, <1>5, <1>6, <1>7, Zenon DEF Next

LEMMA InitKeeps == Init => FramesInv
<1> SUFFICES ASSUME Init PROVE FramesInv
  OBVIOUS
<1>1. /\ st \in [d : [{0} -> Data], w : [{15} -> Flags], pc : Code, fault : {FALSE},
                 a : {[r \in {0, 7} |-> IF r = 0 THEN p ELSE [seg |-> Stack, addr |-> 0]] : p \in Pointers},
                 mem : {[x \in 0 .. Room - 1 |-> <<Junk, 0>>]}]
      /\ frames = <<>> /\ lost = FALSE
  BY DEF Init
<1>2. st = [d |-> st.d, a |-> st.a, w |-> st.w, pc |-> st.pc, mem |-> st.mem, fault |-> st.fault]
  BY <1>1
<1>3. st.fault \in BOOLEAN
  BY <1>1
<1>4. st.d = [r \in {0} |-> st.d[r]] /\ st.w = [r \in {15} |-> st.w[r]]
  BY <1>1
<1>5. PICK p \in Pointers : st.a = [r \in {0, 7} |-> IF r = 0 THEN p ELSE [seg |-> Stack, addr |-> 0]]
  BY <1>1
<1>6. st.a = [r \in {0, 7} |-> st.a[r]] /\ st.a[0] = p /\ st.a[7] = [seg |-> Stack, addr |-> 0]
  BY <1>5
<1>7. IsAddress(st.a[0]) /\ IsAddress(st.a[7])
  BY <1>6, PointersAreAddresses, LimitIsLarge DEF IsAddress
<1>8. IsMemory(st.mem)
  <2>1. st.mem = [x \in 0 .. Room - 1 |-> <<Junk, 0>>]
    BY <1>1
  <2>2. QED
    BY <2>1 DEF IsMemory
<1>9. IsState(st)
  BY <1>2, <1>3, <1>4, <1>6, <1>7, <1>8, Zenon DEF IsState
<1>10. IsFrames(frames) /\ DOMAIN frames = {}
  <2>1. <<>> \in Seq({0}) /\ DOMAIN <<>> = {}
    OBVIOUS
  <2>2. QED
    BY <1>1, <2>1 DEF IsFrames
<1>11. Kept(frames, st)
  BY <1>1, <1>6, <1>10 DEF Kept, Contiguous, Top
<1>12. QED
  BY <1>1, <1>9, <1>10, <1>11, Zenon DEF FramesInv

LEMMA EnteredKeeps ==
  ASSUME FramesInv, Entered
  PROVE  FramesInv'
<1>1. PICK new, f : Enter(new, f) /\ (FaultedTo(new, st) \/ PushedTo(new, st, f))
  BY DEF Entered
<1>2. /\ IsState(st) /\ IsFrames(frames) /\ lost \in BOOLEAN /\ ~st.fault /\ st' = new
  BY <1>1, Zenon DEF FramesInv, Enter, Entered
<1>3. lost' = (lost \/ (~new.fault /\ Lost(f))) /\ lost' \in BOOLEAN
  <2>1. lost' = (lost \/ (~new.fault /\ Lost(f)))
    BY <1>1, Zenon DEF Enter
  <2>2. QED
    BY <2>1
<1>4. CASE FaultedTo(new, st)
  <2>1. frames' = frames /\ new.fault /\ IsState(new)
    BY <1>1, <1>4, Zenon DEF Enter, FaultedTo
  <2>2. IsFrames(frames') /\ IsState(st') /\ st'.fault
    BY <1>2, <2>1
  <2>3. QED
    BY <1>3, <2>2, Zenon DEF FramesInv
<1>5. CASE PushedTo(new, st, f)
  <2>1. ~new.fault /\ IsState(new) /\ f.kind \in {"call", "link", "save"}
    BY <1>5, Zenon DEF PushedTo
  <2>2. frames' = Append(frames, f)
    BY <1>1, <2>1, Zenon DEF Enter
  <2>3. IsFrames(frames')
    BY <1>2, <2>1, <2>2, Appended
  <2>4. ASSUME ~lost' PROVE Kept(frames', st')
    <3>1. ~lost /\ ~Lost(f)
      BY <1>3, <2>1, <2>4, Zenon
    <3>2. Kept(frames, st)
      BY <1>2, <3>1, Zenon DEF FramesInv
    <3>3. /\ FrameOK(f) /\ FrameHolds(f, new.mem) /\ f.at = Top(st)
          /\ new.a[7] = [seg |-> st.a[7].seg, addr |-> Behind(f)]
          /\ \A x \in 0 .. Room - 1 : x < Top(st) => new.mem[x] = st.mem[x]
      <4>1. st.a[7].seg = Stack
        BY <3>2, Zenon DEF Kept
      <4>2. QED
        BY <1>5, <3>1, <4>1, Zenon DEF PushedTo
    <3>4. Kept(Append(frames, f), new)
      BY <1>2, <2>1, <3>2, <3>3, PushKept, Zenon
    <3>5. QED
      BY <1>2, <2>2, <3>4
  <2>5. IsState(st')
    BY <1>2, <2>1
  <2>6. QED
    BY <1>3, <2>3, <2>4, <2>5, Zenon DEF FramesInv
<1>6. QED
  BY <1>1, <1>4, <1>5

LEMMA LeftKeeps ==
  ASSUME FramesInv, Left
  PROVE  FramesInv'
<1>1. PICK new : Leave(new) /\ (FaultedTo(new, st) \/ PoppedTo(new, st, frames))
  BY DEF Left
<1>2. /\ IsState(st) /\ IsFrames(frames) /\ frames # <<>> /\ lost \in BOOLEAN /\ ~st.fault
      /\ st' = new /\ lost' = lost
  BY <1>1, Zenon DEF FramesInv, Leave, Left
<1>3. CASE FaultedTo(new, st)
  <2>1. frames' = frames /\ new.fault /\ IsState(new)
    BY <1>1, <1>3, Zenon DEF Leave, FaultedTo
  <2>2. IsFrames(frames') /\ IsState(st') /\ st'.fault /\ lost' \in BOOLEAN
    BY <1>2, <2>1
  <2>3. QED
    BY <2>2, Zenon DEF FramesInv
<1>4. CASE PoppedTo(new, st, frames)
  <2>1. ~new.fault /\ IsState(new) /\ new.mem = st.mem
    BY <1>4, Zenon DEF PoppedTo
  <2>2. frames' = Front(frames)
    BY <1>1, <2>1, Zenon DEF Leave
  <2>3. IsFrames(frames')
    BY <1>2, <2>2, Fronted
  <2>4. ASSUME ~lost' PROVE Kept(frames', st')
    <3>1. Kept(frames, st)
      BY <1>2, <2>4, Zenon DEF FramesInv
    <3>2. new.a[7] = [seg |-> Stack, addr |-> Last(frames).at]
      BY <1>4, <3>1, Zenon DEF PoppedTo, Restored
    <3>3. Kept(Front(frames), new)
      BY <1>2, <2>1, <3>1, <3>2, PopKept, Zenon
    <3>4. QED
      BY <1>2, <2>2, <3>3
  <2>5. IsState(st') /\ lost' \in BOOLEAN
    BY <1>2, <2>1
  <2>6. QED
    BY <2>3, <2>4, <2>5, Zenon DEF FramesInv
<1>5. QED
  BY <1>1, <1>3, <1>4

LEMMA AsideKeeps ==
  ASSUME FramesInv, Aside
  PROVE  FramesInv'
<1>1. /\ IsState(st) /\ IsFrames(frames) /\ lost \in BOOLEAN
      /\ frames' = frames /\ lost' = lost /\ IsState(st') /\ st'.a[7] = st.a[7]
  BY Zenon DEF FramesInv, Aside
<1>2. ASSUME ~st'.fault, ~lost' PROVE Kept(frames', st')
  <2>1. Kept(frames, st)
    <3>1. lost' = lost /\ ~st.fault
      BY Zenon DEF Aside
    <3>2. ~lost
      BY <1>2, <3>1, Zenon
    <3>3. QED
      BY <3>1, <3>2, Zenon DEF FramesInv
  <2>2. \A k \in DOMAIN frames : \A x \in Held(frames[k]) \cap 0 .. Room - 1 : st.mem[x] = st'.mem[x]
    BY DEF Aside
  <2>3. Kept(frames, st')
    BY <1>1, <2>1, <2>2, SameKept, Zenon
  <2>4. QED
    BY <1>1, <2>3
<1>3. IsFrames(frames') /\ lost' \in BOOLEAN
  BY <1>1
<1>4. QED
  BY <1>1, <1>2, <1>3, Zenon DEF FramesInv

LEMMA StutterKeeps ==
  ASSUME FramesInv, UNCHANGED vars
  PROVE  FramesInv'
BY Zenon DEF FramesInv, vars

LEMMA StepKeeps ==
  ASSUME FramesInv, [Next]_vars
  PROVE  FramesInv'
<1>1. IsState(st) /\ IsFrames(frames)
  BY Zenon DEF FramesInv
<1>2. CASE Next
  BY <1>1, <1>2, NextIs, EnteredKeeps, LeftKeeps, AsideKeeps, Zenon
<1>3. CASE UNCHANGED vars
  BY <1>3, StutterKeeps, Zenon
<1>4. QED
  BY <1>2, <1>3

\* FramesInv holds in every state of Frames.
THEOREM FramesInvariant == Spec => []FramesInv
<1>1. FramesInv /\ [Next]_vars => FramesInv'
  BY StepKeeps
<1>2. Init => FramesInv
  BY InitKeeps
<1>3. QED
  BY <1>1, <1>2, PTL DEF Spec

\* What is written through a7 lies in the segment of the stack, a7 is an address, and
\* every frame has a kind (TypeOK), for a stack of any size, even when the stack is lost.
\* The program is followed only while a7 points into that segment.
THEOREM FramesTypeCorrect == Spec => []TypeOK
<1>1. FramesInv => TypeOK
  <2>1. ASSUME FramesInv PROVE TypeOK
    <3>1. IsState(st) /\ IsFrames(frames)
      BY <2>1, Zenon DEF FramesInv
    <3>2. DOMAIN st.mem = 0 .. Room - 1
      BY <3>1 DEF IsState, IsMemory
    <3>3. Top(st) \in 0 .. Wrap * Wrap - 1
      BY <3>1, TopIsNat DEF Limit
    <3>4. QED
      BY <3>1, <3>2, <3>3, Zenon DEF TypeOK, IsFrames
  <2>2. QED
    BY <2>1
<1>2. QED
  BY <1>1, FramesInvariant, PTL

\* Until the program faults or pushes what it cannot find again, every frame holds
\* the 36 bits of what was put there and a7 is behind the last one (FramesHold).
THEOREM FramesAreHeld == Spec => []FramesHold
<1>1. FramesInv => FramesHold
  <2>1. ASSUME FramesInv PROVE FramesHold
    <3>1. ASSUME ~st.fault /\ ~lost
          PROVE  /\ Contiguous(frames, Top(st))
                 /\ frames = <<>> => Top(st) = 0
                 /\ \A k \in DOMAIN frames : FrameHolds(frames[k], st.mem)
      <4>1. Kept(frames, st)
        BY <2>1, <3>1, Zenon DEF FramesInv
      <4>2. QED
        BY <4>1, Zenon DEF Kept
    <3>2. QED
      BY <3>1, Zenon DEF FramesHold, FrameHolds
  <2>2. QED
    BY <2>1
<1>2. QED
  BY <1>1, FramesInvariant, PTL

\* RTS, UNLK, MOVM -(a7),list and the loads of one register restore pc and a7, and
\* of the register or the registers that were saved the lower 36 bits (ReturnsRestore).
THEOREM ReturnsAreRestored == Spec => ReturnsRestore
<1>1. FramesInv /\ [Next]_vars
        => [Len(frames') < Len(frames) /\ ~lost => Restored(Last(frames), st')]_vars
  <2> SUFFICES ASSUME FramesInv, [Next]_vars, ~UNCHANGED vars,
                      Len(frames') < Len(frames), ~lost
               PROVE  Restored(Last(frames), st')
    BY Zenon
  <2>1. IsState(st) /\ IsFrames(frames)
    BY Zenon DEF FramesInv
  <2>2. Len(frames) \in Nat
    BY <2>1 DEF IsFrames
  <2>3. frames' # frames
    BY <2>2
  <2>4. CASE Entered
    <3>1. PICK new, f : Enter(new, f) /\ (FaultedTo(new, st) \/ PushedTo(new, st, f))
      BY <2>4 DEF Entered
    <3>2. frames' = Append(frames, f) /\ f.kind \in {"call", "link", "save"}
      <4>1. ~new.fault
        BY <2>3, <3>1, Zenon DEF Enter
      <4>2. PushedTo(new, st, f)
        BY <3>1, <4>1, Zenon DEF FaultedTo
      <4>3. QED
        BY <3>1, <4>1, <4>2, Zenon DEF Enter, PushedTo
    <3>3. Len(frames') = Len(frames) + 1
      BY <2>1, <3>2, Appended
    <3>4. QED
      BY <2>2, <3>3
  <2>5. CASE Left
    <3>1. PICK new : Leave(new) /\ (FaultedTo(new, st) \/ PoppedTo(new, st, frames))
      BY <2>5 DEF Left
    <3>2. ~new.fault /\ st' = new /\ ~st.fault
      BY <2>3, <2>5, <3>1, Zenon DEF Leave, Left
    <3>3. PoppedTo(new, st, frames)
      BY <3>1, <3>2, Zenon DEF FaultedTo
    <3>4. Kept(frames, st)
      BY <3>2, Zenon DEF FramesInv
    <3>5. QED
      BY <3>2, <3>3, <3>4, Zenon DEF PoppedTo
  <2>6. CASE Aside
    BY <2>3, <2>6, Zenon DEF Aside
  <2>7. QED
    BY <2>1, <2>4, <2>5, <2>6, NextIs, Zenon
<1>2. QED
  BY <1>1, FramesInvariant, PTL DEF Spec, ReturnsRestore

\* What a fault leaves is the state but for a7, pc and the flags.
LEMMA FaultedRestores ==
  ASSUME NEW s, IsState(s), NEW t, FaultedTo(t, s)
  PROVE  /\ t.mem = s.mem /\ t.d = s.d /\ [t.a EXCEPT ![7] = s.a[7]] = s.a
         /\ t.w = s.w \/ MovStore
         /\ t.pc.seg = s.pc.seg
<1> DEFINE A == [t.a EXCEPT ![7] = s.a[7]]
<1>1. t.a = [r \in {0, 7} |-> t.a[r]] /\ s.a = [r \in {0, 7} |-> s.a[r]]
  BY Zenon DEF FaultedTo, IsState
<1>2. /\ t.d = s.d /\ t.mem = s.mem /\ t.a[0] = s.a[0]
      /\ t.w = s.w \/ MovStore
      /\ t.pc.seg = s.pc.seg
  BY Zenon DEF FaultedTo
<1>3. A = s.a
  <2>1. DOMAIN A = {0, 7} /\ A[7] = s.a[7] /\ A[0] = s.a[0] /\ A = [r \in {0, 7} |-> A[r]]
    BY <1>1, <1>2
  <2> HIDE DEF A
  <2>2. QED
    BY <1>1, <2>1
<1>4. QED
  BY <1>2, <1>3

\* An instruction that faults has written neither memory nor any register but a7; MOV to
\* memory has set its flags all the same, and pc is past the instruction, in its segment
\* (FaultsKeepState).
THEOREM FaultsLeaveTheRest == Spec => FaultsKeepState
<1> DEFINE Keeps ==
      /\ st'.mem = st.mem /\ st'.d = st.d /\ [st'.a EXCEPT ![7] = st.a[7]] = st.a
      /\ st'.w = st.w \/ MovStore
      /\ st'.pc.seg = st.pc.seg
<1>1. FramesInv /\ [Next]_vars => [st'.fault => Keeps]_vars
  <2> SUFFICES ASSUME FramesInv, [Next]_vars, ~UNCHANGED vars, st'.fault
               PROVE  Keeps
    BY Zenon
  <2>1. IsState(st) /\ IsFrames(frames)
    BY Zenon DEF FramesInv
  <2>2. ASSUME NEW new, st' = new, ~st.fault, FaultedTo(new, st)
        PROVE  Keeps
    BY <2>1, <2>2, FaultedRestores, Zenon
  <2> HIDE DEF Keeps
  <2>3. CASE Entered
    <3>1. PICK new, f : Enter(new, f) /\ (FaultedTo(new, st) \/ PushedTo(new, st, f))
      BY <2>3 DEF Entered
    <3>2. st' = new /\ ~st.fault /\ new.fault
      BY <2>3, <3>1, Zenon DEF Enter, Entered
    <3>3. FaultedTo(new, st)
      BY <3>1, <3>2, Zenon DEF PushedTo
    <3>4. QED
      BY <2>2, <3>2, <3>3, Zenon
  <2>4. CASE Left
    <3>1. PICK new : Leave(new) /\ (FaultedTo(new, st) \/ PoppedTo(new, st, frames))
      BY <2>4 DEF Left
    <3>2. st' = new /\ ~st.fault /\ new.fault
      BY <2>4, <3>1, Zenon DEF Leave, Left
    <3>3. FaultedTo(new, st)
      BY <3>1, <3>2, Zenon DEF PoppedTo
    <3>4. QED
      BY <2>2, <3>2, <3>3, Zenon
  <2>5. CASE Aside
    BY <2>5, Zenon DEF Aside
  <2>6. QED
    BY <2>1, <2>3, <2>4, <2>5, NextIs, Zenon
<1>2. QED
  BY <1>1, FramesInvariant, PTL DEF Spec, FaultsKeepState
=============================================================================
