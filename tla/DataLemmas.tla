----------------------------- MODULE DataLemmas -----------------------------
(***************************************************************************)
(* Facts about numbers, finite sets and sequences that the proofs of more  *)
(* than one component need.  Nothing here is about the code: there are no  *)
(* variables, and every lemma holds for all values.                        *)
(***************************************************************************)
EXTENDS Integers, Sequences, FiniteSets, FiniteSetsExt, Functions, SequencesExt,
        FiniteSetTheorems, SequenceTheorems, WellFoundedInduction, TLAPS

-----------------------------------------------------------------------------
(***************************************************************************)
(* Smallest and largest                                                    *)
(***************************************************************************)

\* Every set of numbers has a smallest one.
LEMMA MinOfNumbers ==
    ASSUME NEW S \in SUBSET Nat, S # {}
    PROVE  Min(S) \in S /\ \A n \in S : Min(S) <= n
<1>1. PICK n \in S : \A m \in S : ~ (<<m, n>> \in OpToRel(<, Nat))
  BY NatLessThanWellFounded, WFMin
<1>2. ASSUME NEW m \in S PROVE n <= m
  <2>1. m \in Nat /\ n \in Nat
    OBVIOUS
  <2>2. m < n => <<m, n>> \in {ss \in Nat \X Nat : ss[1] < ss[2]}
    BY <2>1
  <2>3. ~ (m < n)
    BY <2>2, <1>1 DEF OpToRel
  <2>4. QED
    BY <2>1, <2>3
<1>3. QED
  BY <1>2 DEF Min

\* A finite set of numbers has a largest one: a smallest set without one would
\* lose it with any of its elements, and the rest has one.
LEMMA MaxOfFinite ==
    ASSUME NEW S \in SUBSET Nat, IsFiniteSet(S), S # {}
    PROVE  Max(S) \in S /\ \A y \in S : Max(S) >= y
<1> DEFINE Topped(T) == \E x \in T : \A y \in T : x >= y
           Bad == {T \in FiniteSubsetsOf(S) : T # {} /\ ~ Topped(T)}
<1>1. Bad = {}
  <2>1. SUFFICES ASSUME Bad # {} PROVE FALSE
    OBVIOUS
  <2>2. IsWellFoundedOn(StrictSubsetOrdering(S), FiniteSubsetsOf(S))
    BY FS_StrictSubsetOrderingWellFounded
  <2>3. PICK T \in Bad : \A U \in Bad : ~ (<<U, T>> \in StrictSubsetOrdering(S))
    <3> HIDE DEF Topped
    <3>1. Bad \subseteq FiniteSubsetsOf(S)
      OBVIOUS
    <3> HIDE DEF Bad
    <3>2. QED
      BY ONLY <2>1, <2>2, <3>1, WFMin
  <2>4. PICK x \in T : TRUE
    OBVIOUS
  <2>5. T \in SUBSET S /\ IsFiniteSet(T) /\ x \in Nat
    BY DEF FiniteSubsetsOf
  <2>6. T \ {x} \in FiniteSubsetsOf(S)
    BY <2>5, FS_RemoveElement DEF FiniteSubsetsOf
  <2>7. <<T \ {x}, T>> \in StrictSubsetOrdering(S)
    BY <2>5, <2>4 DEF StrictSubsetOrdering
  <2>8. T \ {x} = {} \/ Topped(T \ {x})
    BY <2>3, <2>6, <2>7
  <2>9. CASE T \ {x} = {}
    BY <2>4, <2>5, <2>9
  <2>10. CASE Topped(T \ {x})
    <3>1. PICK y \in T \ {x} : \A z \in T \ {x} : y >= z
      BY <2>10
    <3>2. y \in Nat
      BY <2>5
    <3>3. CASE y >= x
      BY <3>1, <3>3
    <3>4. CASE ~(y >= x)
      <4>1. \A z \in T : x >= z
        BY <3>1, <3>2, <3>4, <2>5
      <4>2. QED
        BY <4>1, <2>4
    <3>5. QED
      BY <3>3, <3>4
  <2>11. QED
    BY <2>8, <2>9, <2>10
<1>2. S \in FiniteSubsetsOf(S)
  BY DEF FiniteSubsetsOf
<1>3. Topped(S)
  BY <1>1, <1>2
<1>4. QED
  BY <1>3 DEF Max

-----------------------------------------------------------------------------
(***************************************************************************)
(* Counting up                                                             *)
(***************************************************************************)

\* A set that holds 0, and with every number the next one, holds them all.
LEMMA CountingUp ==
    ASSUME NEW n \in Nat, NEW P \in SUBSET (0..n), 0 \in P,
           \A i \in 1..n : i - 1 \in P => i \in P
    PROVE  P = 0..n
<1> DEFINE Rest == (0..n) \ P
<1>1. SUFFICES ASSUME Rest # {} PROVE FALSE
  OBVIOUS
<1>2. Rest \in SUBSET Nat
  OBVIOUS
<1>3. PICK m \in Rest : \A k \in Rest : m <= k
  <2> HIDE DEF Rest
  <2>1. QED
    BY <1>1, <1>2, MinOfNumbers
<1>4. m \in 1..n /\ m - 1 \in 0..n
  BY <1>3
<1>5. m - 1 \in P
  BY <1>3, <1>4
<1>6. QED
  BY <1>3, <1>4, <1>5

\* h starts at a, and the i-th of n steps takes it from i - 1 to i
Steps(n, S) == [1..n -> [S -> S]]

BuiltUp(h, n, a, step) == h[0] = a /\ \A i \in 1..n : h[i] = step[i][h[i - 1]]

\* What is defined from 0 upwards, each value from the one before, exists.
LEMMA DefinedUpwards ==
    ASSUME NEW n \in Nat, NEW S, NEW a \in S, NEW step \in Steps(n, S)
    PROVE  \E h \in [0..n -> S] : BuiltUp(h, n, a, step)
<1> DEFINE Upto(h, m) == h[0] = a /\ \A i \in 1..m : h[i] = step[i][h[i - 1]]
           P == {m \in 0..n : \E h \in [0..m -> S] : Upto(h, m)}
<1>0. step \in [1..n -> [S -> S]]
  BY DEF Steps
<1>1. 0 \in P
  <2>1. [i \in 0..0 |-> a] \in [0..0 -> S] /\ [i \in 0..0 |-> a][0] = a
    OBVIOUS
  <2>2. Upto([i \in 0..0 |-> a], 0)
    BY <2>1
  <2> HIDE DEF Upto
  <2>3. QED
    BY <2>1, <2>2
<1>2. ASSUME NEW m \in 1..n, m - 1 \in P PROVE m \in P
  <2>1. PICK h \in [0..m - 1 -> S] : Upto(h, m - 1)
    BY <1>2
  <2> DEFINE g == [i \in 0..m |-> IF i = m THEN step[m][h[m - 1]] ELSE h[i]]
  <2>2. m \in Nat /\ m - 1 \in 0..m - 1 /\ h[m - 1] \in S /\ step[m] \in [S -> S]
    BY <1>0
  <2>3. g \in [0..m -> S]
    BY <2>2
  <2>4. g[m] = step[m][h[m - 1]] /\ \A i \in 0..m - 1 : g[i] = h[i]
    BY <2>2
  <2> HIDE DEF g
  <2>5. ASSUME NEW i \in 1..m PROVE g[i] = step[i][g[i - 1]]
    <3>1. CASE i = m
      BY <2>2, <2>4, <3>1
    <3>2. CASE i # m
      <4>1. i \in 1..m - 1 /\ i \in 0..m - 1 /\ i - 1 \in 0..m - 1
        BY <2>2, <3>2
      <4>2. QED
        BY <2>1, <2>4, <4>1
    <3>3. QED
      BY <3>1, <3>2
  <2>6. g[0] = a
    BY <2>1, <2>2, <2>4
  <2>7. Upto(g, m) /\ m \in 0..n
    BY <2>2, <2>5, <2>6
  <2> HIDE DEF Upto
  <2>8. QED
    BY <2>3, <2>7
<1>3. P = 0..n
  <2> HIDE DEF P
  <2>1. P \in SUBSET (0..n)
    BY DEF P
  <2>2. QED
    BY <1>1, <1>2, <2>1, CountingUp
<1>4. PICK h \in [0..n -> S] : Upto(h, n)
  BY <1>3
<1>5. QED
  BY <1>4 DEF BuiltUp

-----------------------------------------------------------------------------
(***************************************************************************)
(* Sequences without repetitions                                           *)
(***************************************************************************)

\* A new element at the end.
LEMMA Appended ==
    ASSUME NEW S, NEW s \in Seq(S), IsInjective(s), NEW e \in S, e \notin Range(s)
    PROVE  /\ Append(s, e) \in Seq(S) /\ Len(Append(s, e)) = Len(s) + 1
           /\ IsInjective(Append(s, e)) /\ Range(Append(s, e)) = Range(s) \cup {e}
<1> DEFINE t == Append(s, e)
<1>1. /\ t \in Seq(S) /\ Len(t) = Len(s) + 1 /\ Len(s) \in Nat
      /\ \A i \in 1..Len(s) : t[i] = s[i]
      /\ t[Len(s) + 1] = e
      /\ DOMAIN t = 1..Len(s) + 1 /\ DOMAIN s = 1..Len(s)
  OBVIOUS
<1> HIDE DEF t
<1>2. \A i \in 1..Len(s) : t[i] \in Range(s) /\ t[i] # e
  BY <1>1 DEF Range
<1>3. IsInjective(t)
  BY <1>1, <1>2 DEF IsInjective
<1>4. Range(t) = Range(s) \cup {e}
  BY <1>1 DEF Range
<1>5. QED
  BY <1>1, <1>3, <1>4 DEF t

\* what is left of a sequence without one of its elements
LEMMA Removed ==
    ASSUME NEW S, NEW s \in Seq(S), NEW i \in 1..Len(s)
    PROVE  /\ RemoveAt(s, i) \in Seq(S) /\ Len(RemoveAt(s, i)) = Len(s) - 1
           /\ \A k \in 1..Len(s) - 1 : RemoveAt(s, i)[k] = IF k < i THEN s[k] ELSE s[k + 1]
<1> DEFINE front == SubSeq(s, 1, i - 1)
           rest == SubSeq(s, i + 1, Len(s))
<1>1. Len(s) \in Nat /\ \A k \in 1..Len(s) : s[k] \in S
  OBVIOUS
<1>2. /\ front \in Seq(S) /\ Len(front) = i - 1
      /\ \A k \in 1..i - 1 : front[k] = s[k]
  OBVIOUS
<1>3. /\ rest \in Seq(S) /\ Len(rest) = Len(s) - i
      /\ \A k \in 1..Len(s) - i : rest[k] = s[k + i]
  OBVIOUS
<1> HIDE DEF front, rest
<1>4. /\ front \o rest \in Seq(S) /\ Len(front \o rest) = Len(front) + Len(rest)
      /\ \A k \in 1..Len(front) + Len(rest) :
            (front \o rest)[k] = IF k <= Len(front) THEN front[k] ELSE rest[k - Len(front)]
  BY ONLY <1>2, <1>3, ConcatProperties
<1>5. RemoveAt(s, i) = front \o rest
  BY DEF RemoveAt, front, rest
<1>6. Len(front) + Len(rest) = Len(s) - 1 /\ i \in Nat
  BY <1>1, <1>2, <1>3
<1>7. ASSUME NEW k \in 1..Len(s) - 1
      PROVE  (front \o rest)[k] = IF k < i THEN s[k] ELSE s[k + 1]
  <2>1. (front \o rest)[k] = IF k <= i - 1 THEN front[k] ELSE rest[k - (i - 1)]
    BY <1>2, <1>4, <1>6, <1>7
  <2>2. CASE k < i
    BY <2>1, <2>2, <1>1, <1>2, <1>6
  <2>3. CASE ~ (k < i)
    <3>1. k - (i - 1) \in 1..Len(s) - i /\ k - (i - 1) + i = k + 1
      BY <2>3, <1>1, <1>6
    <3>2. QED
      BY <2>1, <2>3, <3>1, <1>1, <1>3, <1>6
  <2>4. QED
    BY <2>2, <2>3
<1>8. QED
  BY <1>4, <1>5, <1>6, <1>7

\* without repetitions only that element is gone, and the last one stays last
\* unless it is the one
LEMMA RemovedElement ==
    ASSUME NEW S, NEW s \in Seq(S), IsInjective(s), NEW c \in 1..Len(s)
    PROVE  /\ IsInjective(RemoveAt(s, c))
           /\ Range(RemoveAt(s, c)) = Range(s) \ {s[c]}
           /\ c < Len(s) => Last(RemoveAt(s, c)) = Last(s)
<1> DEFINE t == RemoveAt(s, c)
<1>1. Len(s) \in Nat /\ c \in 1..Len(s) /\ c \in Nat
  OBVIOUS
<1>2. /\ t \in Seq(S) /\ Len(t) = Len(s) - 1
      /\ \A k \in 1..Len(s) - 1 : t[k] = IF k < c THEN s[k] ELSE s[k + 1]
  BY <1>1, Removed
<1> HIDE DEF t
<1>3. DOMAIN t = 1..Len(s) - 1 /\ DOMAIN s = 1..Len(s)
  BY <1>2
<1>4. IsInjective(t)
  BY <1>1, <1>2, <1>3 DEF IsInjective
<1>5. c < Len(s) => Last(t) = Last(s)
  BY <1>1, <1>2 DEF Last
<1>6. ASSUME NEW k \in 1..Len(s) - 1 PROVE t[k] \in Range(s) /\ t[k] # s[c]
  <2>1. PICK m \in 1..Len(s) : m # c /\ t[k] = s[m]
    <3>1. CASE k < c
      BY <3>1, <1>1, <1>2
    <3>2. CASE ~ (k < c)
      <4>1. k + 1 \in 1..Len(s) /\ k + 1 # c /\ t[k] = s[k + 1]
        BY <3>2, <1>1, <1>2
      <4>2. QED
        BY <4>1
    <3>3. QED
      BY <3>1, <3>2
  <2>2. QED
    BY <2>1, <1>1, <1>3 DEF IsInjective, Range
<1>7. ASSUME NEW k \in 1..Len(s), k # c PROVE s[k] \in Range(t)
  <2>1. CASE k < c
    <3>1. k \in 1..Len(s) - 1 /\ t[k] = s[k]
      BY <1>1, <1>2, <2>1
    <3>2. QED
      BY <3>1, <1>3 DEF Range
  <2>2. CASE k > c
    <3>1. k - 1 \in 1..Len(s) - 1 /\ ~ (k - 1 < c) /\ k - 1 + 1 = k
      BY <1>1, <2>2
    <3>2. t[k - 1] = s[k - 1 + 1]
      BY <1>2, <3>1
    <3>3. QED
      BY <3>1, <3>2, <1>3 DEF Range
  <2>3. QED
    BY <1>1, <1>7, <2>1, <2>2
<1>8. Range(t) = Range(s) \ {s[c]}
  BY <1>1, <1>3, <1>6, <1>7 DEF Range
<1>9. QED
  BY <1>4, <1>5, <1>8 DEF t

\* Popping a sequence at its end.
LEMMA Popped ==
    ASSUME NEW S, NEW s \in Seq(S), s # <<>>
    PROVE  /\ Front(s) \in Seq(S) /\ Last(s) \in S
           /\ Range(s) = Range(Front(s)) \cup {Last(s)}
<1>1. Len(s) \in Nat /\ Len(s) > 0 /\ DOMAIN s = 1..Len(s)
  OBVIOUS
<1>2. /\ Front(s) \in Seq(S) /\ Len(Front(s)) = Len(s) - 1
      /\ \A k \in 1..Len(s) - 1 : Front(s)[k] = s[k]
  BY <1>1 DEF Front
<1>3. DOMAIN Front(s) = 1..Len(s) - 1 /\ Last(s) = s[Len(s)] /\ Last(s) \in S
  BY <1>1, <1>2 DEF Last
<1>4. Range(s) = Range(Front(s)) \cup {Last(s)}
  <2>1. \A k \in 1..Len(s) : k \in 1..Len(s) - 1 \/ k = Len(s)
    <3>1. \A n \in Nat : \A k \in 1..n : k \in 1..n - 1 \/ k = n
      OBVIOUS
    <3>2. QED
      BY <1>1, <3>1
  <2>2. \A k \in 1..Len(s) - 1 : k \in 1..Len(s)
    BY <1>1
  <2>3. Len(s) \in 1..Len(s)
    BY <1>1
  <2>4. QED
    BY <1>1, <1>2, <1>3, <2>1, <2>2, <2>3 DEF Range
<1>5. QED
  BY <1>2, <1>3, <1>4
=============================================================================
