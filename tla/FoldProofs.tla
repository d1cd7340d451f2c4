----------------------------- MODULE FoldProofs -----------------------------
(***************************************************************************)
(* What the folds of the community modules compute, for the loops of the   *)
(* model: a fold over the indices of a sequence, or over a set of numbers  *)
(* in ascending order, takes its steps one at a time and the last one at   *)
(* the largest element.  The library's induction theorems take predicates; *)
(* these take sets, so that a proof can put any formula in their place.    *)
(***************************************************************************)
EXTENDS Integers, FiniteSetsExt, FiniteSetTheorems, WellFoundedInduction, TLAPS

\* Induction over the finite subsets of S, as a minimal counterexample: if every
\* set not in good has a proper subset not in good, all are in good.
LEMMA FiniteDescent ==
  ASSUME NEW S, IsFiniteSet(S), NEW good,
         \A s \in SUBSET S :
           (\A t \in SUBSET s : t # s => t \in good) => s \in good
  PROVE  \A s \in SUBSET S : s \in good
<1> DEFINE bad == {s \in SUBSET S : s \notin good}
           R == StrictSubsetOrdering(S)
<1>1. IsWellFoundedOn(R, SUBSET S)
  BY FS_StrictSubsetOrderingWellFounded, FS_FiniteSubsetsOfFinite
<1>2. SUFFICES ASSUME bad # {} PROVE FALSE
  OBVIOUS
<1>3. bad \subseteq SUBSET S
  OBVIOUS
<1> HIDE DEF bad, R
<1>4. PICK s \in bad : \A t \in bad : ~(<<t, s>> \in R)
  BY <1>1, <1>2, <1>3, WFMin
<1>5. s \in SUBSET S /\ s \notin good
  BY DEF bad
<1>6. PICK t \in SUBSET s : t # s /\ t \notin good
  BY <1>5
<1>7. t \in bad
  BY <1>5, <1>6 DEF bad
<1>8. <<t, s>> \in R
  BY <1>5, <1>6 DEF R, StrictSubsetOrdering
<1>9. QED
  BY <1>4, <1>7, <1>8

\* A nonempty finite set of integers has a largest element.
LEMMA MaxIsLargest ==
  ASSUME NEW S \in SUBSET Int, IsFiniteSet(S), S # {}
  PROVE  Max(S) \in S /\ \A x \in S : x <= Max(S)
<1> DEFINE good == {s \in SUBSET S : s # {} => \E m \in s : \A x \in s : x <= m}
<1>1. ASSUME NEW s \in SUBSET S, \A t \in SUBSET s : t # s => t \in good
      PROVE  s \in good
  <2>1. SUFFICES ASSUME s # {} PROVE \E m \in s : \A x \in s : x <= m
    OBVIOUS
  <2>2. PICK y \in s : TRUE
    BY <2>1
  <2>3. CASE s \ {y} = {}
    BY <2>2, <2>3
  <2>4. CASE s \ {y} # {}
    <3>0. s \ {y} \in good
      BY <1>1, <2>2
    <3>1. PICK m \in s \ {y} : \A x \in s \ {y} : x <= m
      BY <2>4, <3>0
    <3>2. CASE y <= m
      BY <3>1, <3>2
    <3>3. CASE m <= y
      BY <2>2, <3>1, <3>3
    <3>4. QED
      BY <2>2, <3>1, <3>2, <3>3
  <2>5. QED
    BY <2>3, <2>4
<1> HIDE DEF good
<1>2. \A s \in SUBSET S : s \in good
  BY <1>1, FiniteDescent
<1>3. \E m \in S : \A x \in S : m >= x
  BY <1>2 DEF good
<1>4. QED
  BY <1>3 DEF Max

\* Induction along a fold: a family that holds the empty set, and every set whose
\* part below its largest element it holds, holds them all.
LEMMA FoldInduction ==
  ASSUME NEW S \in SUBSET Int, IsFiniteSet(S), NEW good,
         {} \in good,
         \A s \in SUBSET S : s # {} /\ s \ {Max(s)} \in good => s \in good
  PROVE  \A s \in SUBSET S : s \in good
<1>1. ASSUME NEW s \in SUBSET S, \A t \in SUBSET s : t # s => t \in good
      PROVE  s \in good
  <2>1. CASE s = {}
    BY <2>1
  <2>2. CASE s # {}
    <3>1. Max(s) \in s
      BY <2>2, MaxIsLargest, FS_Subset
    <3>2. s \ {Max(s)} \in good
      BY <1>1, <3>1
    <3>3. QED
      BY <2>2, <3>2
  <2>3. QED
    BY <2>1, <2>2
<1>2. QED
  BY <1>1, FiniteDescent

\* it folds the step G, a function of a value and an element, over every part of S.
FoldsWith(it, S, base, G) ==
  /\ it = [s \in SUBSET S |-> it[s]]
  /\ it[{}] = base
  /\ \A s \in SUBSET S : s # {} => it[s] = G[<<it[s \ {Max(s)}], Max(s)>>]

\* The recursion of MapThenFoldSet has a solution, whatever its step G does.
LEMMA FoldExists ==
  ASSUME NEW S \in SUBSET Int, IsFiniteSet(S), NEW base, NEW G
  PROVE  \E it : FoldsWith(it, S, base, G)
<1> DEFINE Solves(it, s) ==
             it = [r \in SUBSET s |-> IF r = {} THEN base
                                      ELSE G[<<it[r \ {Max(r)}], Max(r)>>]]
           good == {s \in SUBSET S : \E it : Solves(it, s)}
<1>1. {} \in good
  <2>1. Solves([r \in SUBSET {} |-> base], {})
    OBVIOUS
  <2>2. QED
    BY <2>1
<1>2. ASSUME NEW s \in SUBSET S, s # {}, s \ {Max(s)} \in good
      PROVE  s \in good
  <2> DEFINE m == Max(s)
  <2>1. m \in s /\ \A x \in s : x <= m
    BY <1>2, MaxIsLargest, FS_Subset
  <2>2. PICK f : Solves(f, s \ {m})
    BY <1>2
  <2> DEFINE it == [r \in SUBSET s |-> IF m \in r THEN G[<<f[r \ {m}], m>>] ELSE f[r]]
  <2>3. ASSUME NEW r \in SUBSET s
        PROVE  it[r] = IF r = {} THEN base ELSE G[<<it[r \ {Max(r)}], Max(r)>>]
    <3>1. CASE m \in r
      <4>1. Max(r) \in r /\ \A x \in r : x <= Max(r)
        BY <3>1, MaxIsLargest, FS_Subset
      <4> HIDE DEF m
      <4>1a. Max(r) <= m /\ m <= Max(r) /\ m \in Int /\ Max(r) \in Int
        BY <2>1, <3>1, <4>1
      <4>2. Max(r) = m
        BY <4>1a
      <4>3. it[r \ {m}] = f[r \ {m}]
        OBVIOUS
      <4>4. it[r] = G[<<f[r \ {m}], m>>]
        BY <3>1
      <4> HIDE DEF it
      <4>5. QED
        BY <3>1, <4>2, <4>3, <4>4
    <3>2. CASE m \notin r
      <4>1. r \in SUBSET (s \ {m})
        BY <3>2
      <4>2. f[r] = IF r = {} THEN base ELSE G[<<f[r \ {Max(r)}], Max(r)>>]
        BY <2>2, <4>1
      <4>3. m \notin r \ {Max(r)} /\ r \ {Max(r)} \in SUBSET s
        BY <3>2
      <4>4. it[r] = f[r] /\ it[r \ {Max(r)}] = f[r \ {Max(r)}]
        BY <3>2, <4>3
      <4> HIDE DEF it
      <4>5. QED
        BY <4>2, <4>4
    <3>3. QED
      BY <3>1, <3>2
  <2>4. it = [r \in SUBSET s |-> it[r]]
    OBVIOUS
  <2> HIDE DEF it, m
  <2>4a. it = [r \in SUBSET s |-> IF r = {} THEN base
                                 ELSE G[<<it[r \ {Max(r)}], Max(r)>>]]
    BY <2>3, <2>4, Zenon
  <2>5. Solves(it, s)
    BY <2>4a
  <2>6. QED
    BY <2>5
<1> HIDE DEF good
<1>3. \A s \in SUBSET S : s \in good
  BY <1>1, <1>2, FoldInduction
<1>4. PICK it : Solves(it, S)
  BY <1>3 DEF good
<1>5. /\ it[{}] = base
      /\ \A s \in SUBSET S : s # {} => it[s] = G[<<it[s \ {Max(s)}], Max(s)>>]
  BY <1>4
<1>6. it = [s \in SUBSET S |-> it[s]]
  BY <1>4
<1>7. FoldsWith(it, S, base, G)
  BY <1>5, <1>6, Zenon DEF FoldsWith
<1>8. QED
  BY <1>7

-----------------------------------------------------------------------------
(* Functions of a number of steps *)

\* Induction up to N, along the fold of an interval.
LEMMA UpTo ==
  ASSUME NEW N \in Nat, NEW good, 0 \in good, \A k \in 1 .. N : k - 1 \in good => k \in good
  PROVE  \A k \in 0 .. N : k \in good
<1> DEFINE S == 1 .. N
           held == {s \in SUBSET S : \A k \in 0 .. N : s = 1 .. k => k \in good}
<1>1. S \in SUBSET Int /\ IsFiniteSet(S)
  BY FS_Interval
<1>2. {} \in held
  <2>1. \A k \in 0 .. N : {} = 1 .. k => k = 0
    <3>1. ASSUME NEW k \in 0 .. N, k # 0 PROVE 1 \in 1 .. k
      BY <3>1
    <3>2. QED
      BY <3>1
  <2>2. QED
    BY <2>1
<1>3. ASSUME NEW s \in SUBSET S, s # {}, s \ {Max(s)} \in held
      PROVE  s \in held
  <2>1. SUFFICES ASSUME NEW k \in 0 .. N, s = 1 .. k PROVE k \in good
    OBVIOUS
  <2>2. k \in 1 .. N /\ k \in s
    BY <1>3, <2>1
  <2>3. Max(s) \in s /\ k <= Max(s)
    BY <1>1, <1>3, <2>2, MaxIsLargest, FS_Subset
  <2>4. Max(s) = k
    BY <2>1, <2>3
  <2>5. s \ {Max(s)} = 1 .. k - 1 /\ k - 1 \in 0 .. N
    BY <2>1, <2>2, <2>4
  <2>6. k - 1 \in good
    BY <1>3, <2>5
  <2>7. QED
    BY <2>2, <2>6
<1> HIDE DEF held
<1>4. \A s \in SUBSET S : s \in held
  BY <1>1, <1>2, <1>3, FoldInduction
<1>5. ASSUME NEW k \in 0 .. N PROVE k \in good
  <2>1. 1 .. k \in SUBSET S
    OBVIOUS
  <2>2. 1 .. k \in held
    BY <1>4, <2>1
  <2>3. QED
    BY <2>2 DEF held
<1>6. QED
  BY <1>5

\* The recursion that takes a step of G for each number has a solution.
LEMMA StepsExist ==
  ASSUME NEW N \in Nat, NEW S, NEW base \in S, NEW G \in [S -> S]
  PROVE  \E f \in [0 .. N -> S] :
           f = [k \in 0 .. N |-> IF k = 0 THEN base ELSE G[f[k - 1]]]
<1> DEFINE Solves(f, n) ==
             f \in [0 .. n -> S] /\ \A k \in 0 .. n : f[k] = IF k = 0 THEN base ELSE G[f[k - 1]]
           good == {n \in 0 .. N : \E f : Solves(f, n)}
<1>1. 0 \in good
  <2>1. Solves([k \in 0 .. 0 |-> base], 0)
    OBVIOUS
  <2> HIDE DEF Solves
  <2>2. QED
    BY <2>1
<1>2. ASSUME NEW n \in 1 .. N, n - 1 \in good
      PROVE  n \in good
  <2>1. PICK f : Solves(f, n - 1)
    BY <1>2
  <2> DEFINE g == [k \in 0 .. n |-> IF k = n THEN G[f[n - 1]] ELSE f[k]]
  <2>2. f[n - 1] \in S /\ G[f[n - 1]] \in S
    BY <2>1
  <2>3. \A k \in 0 .. n : k # n => k \in 0 .. n - 1
    OBVIOUS
  <2>4. g \in [0 .. n -> S]
    BY <2>1, <2>2, <2>3
  <2>5. ASSUME NEW k \in 0 .. n PROVE g[k] = IF k = 0 THEN base ELSE G[g[k - 1]]
    <3>1. CASE k = n
      <4>1. g[n] = G[f[n - 1]] /\ g[n - 1] = f[n - 1] /\ n # 0
        OBVIOUS
      <4>2. QED
        BY <3>1, <4>1
    <3>2. CASE k # n
      <4>1. g[k] = f[k] /\ (k # 0 => g[k - 1] = f[k - 1])
        BY <3>2
      <4>2. f[k] = IF k = 0 THEN base ELSE G[f[k - 1]]
        BY <2>1, <2>3, <3>2
      <4>3. QED
        BY <4>1, <4>2
    <3>3. QED
      BY <3>1, <3>2
  <2> HIDE DEF g
  <2>6. Solves(g, n)
    BY <2>4, <2>5
  <2>7. QED
    BY <2>6
<1> HIDE DEF good
<1>3. \A n \in 0 .. N : n \in good
  BY <1>1, <1>2, UpTo
<1>4. N \in good
  BY <1>3
<1>5. PICK f : Solves(f, N)
  BY <1>4 DEF good
<1>6. f = [k \in 0 .. N |-> IF k = 0 THEN base ELSE G[f[k - 1]]]
  BY <1>5
<1>7. QED
  BY <1>5, <1>6
=============================================================================
