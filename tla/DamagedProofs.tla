---------------------------- MODULE DamagedProofs ----------------------------
(***************************************************************************)
(* Proofs about the recovery of a capture that something else has edited,  *)
(* for any number of channels, blocks and damaged rows: the walk measures  *)
(* what every channel holds without a break, what recovery closes          *)
(* validates, and no agreed frame is given up.                             *)
(***************************************************************************)
EXTENDS RecoveryDamaged, TLAPS, FiniteSetTheorems, WellFoundedInduction

----------------------------------------------------------------------------
(* Induction and extremes of sets of numbers.                              *)

LEMMA LeastNatural ==
  ASSUME NEW S, S \subseteq Nat, S # {}
  PROVE  \E x \in S : \A y \in S : x <= y
<1> DEFINE R == {ss \in Nat \X Nat : ss[1] < ss[2]}
<1>1. IsWellFoundedOn(R, Nat)
  BY NatLessThanWellFounded DEF OpToRel
<1>2. \A a, b \in Nat : a < b => <<a, b>> \in R
  OBVIOUS
<1> HIDE DEF R
<1>3. PICK x \in S : \A y \in S : ~ (<<y, x>> \in R)
  BY <1>1, WFMin
<1>4. ASSUME NEW y \in S
      PROVE  x <= y
  <2>1. x \in Nat /\ y \in Nat /\ ~ (y < x)
    BY <1>2, <1>3, <1>4
  <2> QED
    BY <2>1
<1> QED
  BY <1>4

LEMMA SetInduction ==
  ASSUME NEW S, 0 \in S, \A n \in Nat : n \in S => n + 1 \in S
  PROVE  \A n \in Nat : n \in S
<1> DEFINE T == {n \in Nat : n \notin S}
<1> SUFFICES ASSUME T # {}
             PROVE  FALSE
  OBVIOUS
<1>1. PICK x \in T : \A y \in T : x <= y
  <2>1. T \subseteq Nat
    OBVIOUS
  <2> HIDE DEF T
  <2> QED
    BY <2>1, LeastNatural
<1>2. x \in Nat /\ x # 0 /\ x - 1 \in Nat /\ x - 1 \notin T
  BY <1>1
<1>3. x - 1 \in S /\ (x - 1) + 1 = x
  BY <1>2
<1> QED
  BY <1>1, <1>2, <1>3

----------------------------------------------------------------------------
(* Sums over sets: one definition of MapThenSumSet, for a weight w.        *)

Picked(s) == CHOOSE x \in s : TRUE

Adds(sum, w, S) ==
  sum = [s \in SUBSET S |-> IF s = {} THEN 0 ELSE w[Picked(s)] + sum[s \ {Picked(s)}]]

AddsFrames(sum, S) ==
  sum = [s \in SUBSET S |-> IF s = {} THEN 0 ELSE Picked(s).frames + sum[s \ {Picked(s)}]]

LEMMA FramesInIs ==
  ASSUME NEW S
  PROVE  FramesIn(S) = (CHOOSE sum : AddsFrames(sum, S))[S]
BY DEF FramesIn, MapThenSumSet, MapThenFoldSet, AddsFrames, Picked

LEMMA StartIs ==
  ASSUME NEW w, NEW i
  PROVE  Start(w, i) = (CHOOSE sum : Adds(sum, w, 1 .. i - 1))[1 .. i - 1]
BY DEF Start, MapThenSumSet, MapThenFoldSet, Adds, Picked

Weighs(w, S) == \A x \in S : w[x] \in Int

LEMMA PickedIsOne ==
  ASSUME NEW s, s # {}
  PROVE  Picked(s) \in s
BY DEF Picked

\* Such a sum exists: it is laid out by the size of the sets.
LEMMA AddsExist ==
  ASSUME NEW S, IsFiniteSet(S), NEW w
  PROVE  \E sum : Adds(sum, w, S)
<1> DEFINE Of(sum, s) == IF s = {} THEN 0 ELSE w[Picked(s)] + sum[s \ {Picked(s)}]
           Upto(n) == \E sum : \A s \in SUBSET S : Cardinality(s) <= n => sum[s] = Of(sum, s)
           T == {n \in Nat : Upto(n)}
<1>1. \A s \in SUBSET S : IsFiniteSet(s) /\ Cardinality(s) \in Nat /\ Cardinality(s) <= Cardinality(S)
  BY FS_Subset, FS_CardinalityType
<1>2. 0 \in T
  <2> DEFINE sum == [s \in SUBSET S |-> 0]
  <2>1. ASSUME NEW s \in SUBSET S, Cardinality(s) <= 0
        PROVE  sum[s] = Of(sum, s)
    <3>1. s = {}
      BY <1>1, <2>1, FS_EmptySet
    <3> QED
      BY <3>1
  <2> QED
    BY <2>1
<1>3. ASSUME NEW n \in Nat, Upto(n)
      PROVE  Upto(n + 1)
  <2>1. PICK old : \A s \in SUBSET S : Cardinality(s) <= n => old[s] = Of(old, s)
    BY <1>3
  <2> DEFINE sum == [s \in SUBSET S |-> Of(old, s)]
  <2>2. ASSUME NEW s \in SUBSET S, Cardinality(s) <= n + 1
        PROVE  sum[s] = Of(sum, s)
    <3>1. CASE s = {}
      BY <3>1
    <3>2. CASE s # {}
      <4> DEFINE r == s \ {Picked(s)}
      <4>1. Picked(s) \in s /\ r \in SUBSET S
        BY <3>2, PickedIsOne
      <4>2. Cardinality(r) = Cardinality(s) - 1
        BY <1>1, <4>1, FS_RemoveElement
      <4>3. Cardinality(r) <= n
        BY <1>1, <2>2, <4>2
      <4>4. sum[r] = Of(old, r) /\ old[r] = Of(old, r)
        BY <2>1, <4>1, <4>3
      <4>5. sum[s] = w[Picked(s)] + old[r] /\ Of(sum, s) = w[Picked(s)] + sum[r]
        BY <3>2
      <4> QED
        BY <4>4, <4>5
    <3> QED
      BY <3>1, <3>2
  <2> HIDE DEF sum
  <2> QED
    BY <2>2
<1>4. \A n \in Nat : n \in T => n + 1 \in T
  <2> HIDE DEF Upto
  <2> QED
    BY <1>3
<1>5. Upto(Cardinality(S))
  <2> HIDE DEF Upto
  <2>1. Cardinality(S) \in T
    <3> HIDE DEF T
    <3> QED
      BY <1>2, <1>4, SetInduction, FS_CardinalityType
  <2> QED
    BY <2>1
<1>6. PICK sum : \A s \in SUBSET S : Cardinality(s) <= Cardinality(S) => sum[s] = Of(sum, s)
  BY <1>5
<1> DEFINE whole == [s \in SUBSET S |-> sum[s]]
<1>7. ASSUME NEW s \in SUBSET S
      PROVE  sum[s] = Of(whole, s)
  <2>1. sum[s] = Of(sum, s)
    BY <1>1, <1>6
  <2>2. CASE s # {}
    <3>1. s \ {Picked(s)} \in SUBSET S
      OBVIOUS
    <3> QED
      BY <2>1, <3>1
  <2> QED
    BY <2>1, <2>2
<1>8. whole = [s \in SUBSET S |-> sum[s]]
  OBVIOUS
<1> HIDE DEF whole
<1>9. [s \in SUBSET S |-> sum[s]] = [s \in SUBSET S |-> Of(whole, s)]
  BY <1>7
<1>10. Adds(whole, w, S)
  BY <1>8, <1>9 DEF Adds
<1> QED
  BY <1>10

\* What each of its values is.
LEMMA AddsGives ==
  ASSUME NEW S, NEW w, NEW sum, Adds(sum, w, S), NEW s \in SUBSET S
  PROVE  sum[s] = IF s = {} THEN 0 ELSE w[Picked(s)] + sum[s \ {Picked(s)}]
BY DEF Adds

LEMMA AddsInt ==
  ASSUME NEW S, IsFiniteSet(S), NEW w, Weighs(w, S), NEW sum, Adds(sum, w, S)
  PROVE  \A s \in SUBSET S : sum[s] \in Int
<1> DEFINE T == {n \in Nat : \A s \in SUBSET S : Cardinality(s) = n => sum[s] \in Int}
<1>1. \A s \in SUBSET S : IsFiniteSet(s) /\ Cardinality(s) \in Nat
  BY FS_Subset, FS_CardinalityType
<1>2. 0 \in T
  <2>1. ASSUME NEW s \in SUBSET S, Cardinality(s) = 0
        PROVE  sum[s] = 0
    <3>1. s = {}
      BY <1>1, <2>1, FS_EmptySet
    <3> QED
      BY <3>1, AddsGives
  <2> QED
    BY <2>1
<1>3. ASSUME NEW n \in Nat, \A s \in SUBSET S : Cardinality(s) = n => sum[s] \in Int,
             NEW s \in SUBSET S, Cardinality(s) = n + 1
      PROVE  sum[s] \in Int
  <2> DEFINE p == Picked(s)
  <2>1. s # {}
    BY <1>3, FS_EmptySet
  <2>2. p \in s /\ sum[s] = w[p] + sum[s \ {p}]
    BY <2>1, PickedIsOne, AddsGives
  <2>3. s \ {p} \in SUBSET S /\ Cardinality(s \ {p}) = n
    BY <1>1, <1>3, <2>2, FS_RemoveElement
  <2>4. w[p] \in Int
    BY <2>2 DEF Weighs
  <2> QED
    BY <1>3, <2>2, <2>3, <2>4
<1>4. \A n \in Nat : n \in T => n + 1 \in T
  BY <1>3
<1> HIDE DEF T
<1>5. \A n \in Nat : n \in T
  BY <1>2, <1>4, SetInduction
<1> QED
  BY <1>1, <1>5 DEF T

\* It is the sum whichever element is taken first.
LEMMA AddsAny ==
  ASSUME NEW S, IsFiniteSet(S), NEW w, Weighs(w, S), NEW sum, Adds(sum, w, S)
  PROVE  \A s \in SUBSET S : \A x \in s : sum[s] = w[x] + sum[s \ {x}]
<1> DEFINE Good(s) == \A x \in s : sum[s] = w[x] + sum[s \ {x}]
           T == {n \in Nat : \A s \in SUBSET S : Cardinality(s) = n => Good(s)}
<1>1. \A s \in SUBSET S : IsFiniteSet(s) /\ Cardinality(s) \in Nat /\ sum[s] \in Int
  BY FS_Subset, FS_CardinalityType, AddsInt
<1>2. \A s \in SUBSET S : \A x \in s : s \ {x} \in SUBSET S /\ Cardinality(s \ {x}) = Cardinality(s) - 1
  BY <1>1, FS_RemoveElement
<1>3. 0 \in T
  <2>1. ASSUME NEW s \in SUBSET S, Cardinality(s) = 0
        PROVE  Good(s)
    <3>1. s = {}
      BY <1>1, <2>1, FS_EmptySet
    <3> QED
      BY <3>1
  <2> QED
    BY <2>1
<1>4. ASSUME NEW n \in Nat, \A s \in SUBSET S : Cardinality(s) = n => Good(s),
             NEW s \in SUBSET S, Cardinality(s) = n + 1
      PROVE  Good(s)
  <2> DEFINE p == Picked(s)
  <2>0. Cardinality(s) # 0
    BY <1>4
  <2>1. s # {}
    BY <2>0, FS_EmptySet
  <2>2. p \in s /\ sum[s] = w[p] + sum[s \ {p}]
    BY <2>1, PickedIsOne, AddsGives
  <2>3. \A x \in s : s \ {x} \in SUBSET S /\ Good(s \ {x})
    <3>1. \A x \in s : s \ {x} \in SUBSET S /\ Cardinality(s \ {x}) = n
      BY <1>2, <1>4
    <3> HIDE DEF Good
    <3> QED
      BY <1>4, <3>1
  <2>4. \A x \in s : w[x] \in Int
    BY DEF Weighs
  <2> HIDE DEF p
  <2>5. ASSUME NEW x \in s
        PROVE  sum[s] = w[x] + sum[s \ {x}]
    <3>1. CASE x = p
      BY <2>2, <3>1
    <3>2. CASE x # p
      <4>1. x \in s \ {p} /\ p \in s \ {x} /\ (s \ {p}) \ {x} = (s \ {x}) \ {p}
        BY <2>2, <3>2
      <4> DEFINE rest == (s \ {x}) \ {p}
      <4>2. sum[s \ {p}] = w[x] + sum[rest] /\ sum[s \ {x}] = w[p] + sum[rest]
        BY <2>2, <2>3, <4>1
      <4>3. rest \in SUBSET S
        OBVIOUS
      <4> HIDE DEF rest
      <4>4. sum[rest] \in Int /\ w[x] \in Int /\ w[p] \in Int
        BY <1>1, <2>2, <2>4, <4>3
      <4> QED
        BY <2>2, <4>2, <4>4
    <3> QED
      BY <3>1, <3>2
  <2> QED
    BY <2>5
<1>5. \A n \in Nat : n \in T => n + 1 \in T
  <2> HIDE DEF Good
  <2> QED
    BY <1>4
<1> HIDE DEF T
<1>6. \A n \in Nat : n \in T
  BY <1>3, <1>5, SetInduction
<1> QED
  BY <1>1, <1>6 DEF T

\* Two sums of the same weights agree wherever both are defined.
LEMMA SumsAgree ==
  ASSUME NEW T, IsFiniteSet(T), NEW S \in SUBSET T, NEW w, NEW v, \A x \in S : w[x] = v[x],
         NEW sum, Adds(sum, w, S), NEW total, Adds(total, v, T)
  PROVE  \A s \in SUBSET S : sum[s] = total[s]
<1> DEFINE Size == {n \in Nat : \A s \in SUBSET S : Cardinality(s) = n => sum[s] = total[s]}
<1>1. \A s \in SUBSET S : s \in SUBSET T /\ IsFiniteSet(s) /\ Cardinality(s) \in Nat
  BY FS_Subset, FS_CardinalityType
<1>2. 0 \in Size
  <2>1. ASSUME NEW s \in SUBSET S, Cardinality(s) = 0
        PROVE  sum[s] = total[s]
    <3>1. s = {}
      BY <1>1, <2>1, FS_EmptySet
    <3>2. sum[s] = 0 /\ total[s] = 0
      BY <1>1, <3>1, AddsGives
    <3> QED
      BY <3>2
  <2> QED
    BY <2>1
<1>3. ASSUME NEW n \in Nat, \A s \in SUBSET S : Cardinality(s) = n => sum[s] = total[s],
             NEW s \in SUBSET S, Cardinality(s) = n + 1
      PROVE  sum[s] = total[s]
  <2> DEFINE p == Picked(s)
  <2>1. Cardinality(s) # 0
    BY <1>3
  <2>2. s # {}
    BY <2>1, FS_EmptySet
  <2>3. p \in s /\ sum[s] = w[p] + sum[s \ {p}] /\ total[s] = v[p] + total[s \ {p}]
    BY <1>1, <2>2, PickedIsOne, AddsGives
  <2>4. s \ {p} \in SUBSET S /\ Cardinality(s \ {p}) = n
    <3>1. Cardinality(s \ {p}) = Cardinality(s) - 1
      BY <1>1, <2>3, FS_RemoveElement
    <3> QED
      BY <1>3, <3>1
  <2>5. w[p] = v[p] /\ sum[s \ {p}] = total[s \ {p}]
    BY <1>3, <2>3, <2>4
  <2> QED
    BY <2>3, <2>5
<1>4. \A n \in Nat : n \in Size => n + 1 \in Size
  BY <1>3
<1> HIDE DEF Size
<1>5. \A n \in Nat : n \in Size
  BY <1>2, <1>4, SetInduction
<1> QED
  BY <1>1, <1>5 DEF Size

\* The sum of MapThenSumSet over blocks is such a sum.
Frames(S) == [r \in S |-> r.frames]

LEMMA FramesAreAdded ==
  ASSUME NEW S, IsFiniteSet(S)
  PROVE  \E sum : Adds(sum, Frames(S), S) /\ FramesIn(S) = sum[S]
<1>1. ASSUME NEW sum
      PROVE  AddsFrames(sum, S) <=> Adds(sum, Frames(S), S)
  <2> DEFINE f(s) == IF s = {} THEN 0 ELSE Picked(s).frames + sum[s \ {Picked(s)}]
             g(s) == IF s = {} THEN 0 ELSE Frames(S)[Picked(s)] + sum[s \ {Picked(s)}]
  <2>1. ASSUME NEW s \in SUBSET S
        PROVE  f(s) = g(s)
    <3>1. CASE s # {}
      <4>1. Picked(s) \in S
        BY <3>1, PickedIsOne
      <4>2. Frames(S)[Picked(s)] = Picked(s).frames
        BY <4>1 DEF Frames
      <4> QED
        BY <4>2
    <3> QED
      BY <3>1
  <2>2. AddsFrames(sum, S) <=> sum = [s \in SUBSET S |-> f(s)]
    BY DEF AddsFrames
  <2>3. Adds(sum, Frames(S), S) <=> sum = [s \in SUBSET S |-> g(s)]
    BY DEF Adds
  <2> HIDE DEF f, g
  <2>4. [s \in SUBSET S |-> f(s)] = [s \in SUBSET S |-> g(s)]
    BY <2>1
  <2> QED
    BY <2>2, <2>3, <2>4
<1>2. \E sum : AddsFrames(sum, S)
  BY <1>1, AddsExist
<1> DEFINE sum == CHOOSE sum : AddsFrames(sum, S)
<1>3. AddsFrames(sum, S)
  BY <1>2
<1>4. FramesIn(S) = sum[S]
  BY FramesInIs
<1> HIDE DEF sum
<1> QED
  BY <1>1, <1>3, <1>4

\* What a set of blocks holds, one block at a time.
LEMMA FramesInNone == FramesIn({}) = 0
<1>1. PICK sum : Adds(sum, Frames({}), {}) /\ FramesIn({}) = sum[{}]
  BY FramesAreAdded, FS_EmptySet
<1>2. sum[{}] = 0
  BY <1>1, AddsGives
<1> QED
  BY <1>1, <1>2

LEMMA FramesInMore ==
  ASSUME NEW S, IsFiniteSet(S), NEW x, x \notin S, \A r \in S \cup {x} : r.frames \in Int
  PROVE  FramesIn(S) \in Int /\ FramesIn(S \cup {x}) = FramesIn(S) + x.frames
<1> DEFINE T == S \cup {x}
<1>1. IsFiniteSet(T)
  BY FS_AddElement
<1>2. PICK sum : Adds(sum, Frames(S), S) /\ FramesIn(S) = sum[S]
  BY FramesAreAdded
<1>3. PICK total : Adds(total, Frames(T), T) /\ FramesIn(T) = total[T]
  BY <1>1, FramesAreAdded
<1>4. Weighs(Frames(S), S) /\ Weighs(Frames(T), T)
  BY DEF Weighs, Frames
<1>5. T \ {x} = S /\ x \in T /\ S \in SUBSET T /\ S \in SUBSET S /\ T \in SUBSET T
  OBVIOUS
<1>6. Frames(T)[x] = x.frames /\ \A r \in S : Frames(S)[r] = Frames(T)[r]
  BY DEF Frames
<1> HIDE DEF T
<1>7. total[T] = x.frames + total[S]
  BY <1>1, <1>3, <1>4, <1>5, <1>6, AddsAny
<1>8. sum[S] = total[S]
  BY <1>1, <1>2, <1>3, <1>5, <1>6, SumsAgree
<1>9. sum[S] \in Int /\ x.frames \in Int
  BY <1>2, <1>4, <1>5, AddsInt
<1> QED
  BY <1>2, <1>3, <1>7, <1>8, <1>9 DEF T

\* Blocks written one after another start where the one before ends.
LEMMA StartGrows ==
  ASSUME NEW n \in Nat, NEW w, \A j \in 1 .. n : w[j] \in Nat
  PROVE  \A i \in 1 .. n + 1 : Start(w, i) \in Nat
<1>1. ASSUME NEW i \in 1 .. n + 1
      PROVE  \E sum : Adds(sum, w, 1 .. i - 1) /\ Start(w, i) = sum[1 .. i - 1]
  <2>1. IsFiniteSet(1 .. i - 1)
    BY FS_Interval
  <2>2. \E sum : Adds(sum, w, 1 .. i - 1)
    BY <2>1, AddsExist
  <2> QED
    BY <2>2, StartIs
<1> DEFINE T == {i \in Nat : i <= n => Start(w, i + 1) \in Nat}
<1>2. 0 \in T
  <2>1. 1 \in 1 .. n + 1 /\ 1 .. 1 - 1 = {} /\ 0 + 1 = 1
    OBVIOUS
  <2>2. PICK sum : Adds(sum, w, {}) /\ Start(w, 1) = sum[{}]
    BY <1>1, <2>1
  <2>3. sum[{}] = 0
    BY <2>2, AddsGives
  <2> QED
    BY <2>1, <2>2, <2>3
<1>3. ASSUME NEW i \in Nat, i + 1 <= n, Start(w, i + 1) \in Nat
      PROVE  Start(w, (i + 1) + 1) \in Nat
  <2>1. /\ i + 1 \in 1 .. n + 1 /\ (i + 1) + 1 \in 1 .. n + 1 /\ i + 1 \in 1 .. n
        /\ (i + 1) - 1 = i /\ ((i + 1) + 1) - 1 = i + 1
    BY <1>3
  <2> DEFINE S == 1 .. i
             U == 1 .. i + 1
             m == i + 1
  <2>2. /\ m \in U /\ S \in SUBSET U /\ U \ {m} = S /\ U \in SUBSET U /\ S \in SUBSET S
        /\ \A x \in U : x \in 1 .. n
    BY <1>3
  <2>3. IsFiniteSet(U)
    BY FS_Interval
  <2>4. PICK sum : Adds(sum, w, S) /\ Start(w, i + 1) = sum[S]
    BY <1>1, <2>1
  <2>5. PICK total : Adds(total, w, U) /\ Start(w, (i + 1) + 1) = total[U]
    BY <1>1, <2>1
  <2>6. Weighs(w, U)
    BY <2>2 DEF Weighs
  <2> HIDE DEF S, U, m
  <2>7. total[U] = w[m] + total[S]
    BY <2>2, <2>3, <2>5, <2>6, AddsAny
  <2>8. sum[S] = total[S]
    <3>1. S \in SUBSET U /\ IsFiniteSet(U)
      BY <2>2, <2>3
    <3>2. \A s \in SUBSET S : sum[s] = total[s]
      BY <2>4, <2>5, <3>1, SumsAgree
    <3> QED
      BY <2>2, <3>2
  <2>9. w[m] \in Nat
    BY <2>2
  <2> QED
    BY <1>3, <2>4, <2>5, <2>7, <2>8, <2>9
<1>4. \A i \in Nat : i \in T => i + 1 \in T
  BY <1>3
<1> HIDE DEF T
<1>5. \A i \in Nat : i \in T
  BY <1>2, <1>4, SetInduction
<1> QED
  <2>1. ASSUME NEW i \in 1 .. n + 1
        PROVE  Start(w, i) \in Nat
    <3>1. i - 1 \in T /\ i - 1 <= n /\ (i - 1) + 1 = i
      BY <1>5
    <3> QED
      BY <3>1 DEF T
  <2> QED
    BY <2>1

----------------------------------------------------------------------------
(* The blocks of one channel: at most one of each number.  The walk sees   *)
(* them in the order of their numbers.                                     *)

Line(R) ==
  /\ IsFiniteSet(R)
  /\ \A r \in R : r.sequence \in Nat /\ r.start \in Nat /\ r.frames \in Int
  /\ \A q, r \in R : q.sequence = r.sequence => q = r

LEMMA RankBound ==
  ASSUME NEW R, Line(R), NEW r \in R
  PROVE  /\ IsFiniteSet(Before(R, r))
         /\ Cardinality(Before(R, r)) \in Nat
         /\ Cardinality(Before(R, r)) <= r.sequence
         /\ Cardinality(Before(R, r)) < Cardinality(R)
<1> DEFINE B == Before(R, r)
           n == r.sequence
           number == [q \in B |-> q.sequence]
<1>1. B \in SUBSET R /\ r \in R /\ r \notin B /\ IsFiniteSet(R) /\ n \in Nat
  BY DEF Before, Line
<1>2. IsFiniteSet(B) /\ Cardinality(B) \in Nat
  BY <1>1, FS_Subset, FS_CardinalityType
<1>3. number \in Injection(B, 0 .. n - 1)
  <2>1. \A q \in B : q.sequence \in 0 .. n - 1
    BY <1>1 DEF Before, Line
  <2>2. \A p, q \in B : p.sequence = q.sequence => p = q
    BY <1>1 DEF Line
  <2> QED
    BY <2>1, <2>2 DEF Injection, IsInjective
<1> HIDE DEF number
<1>4. IsFiniteSet(0 .. n - 1) /\ Cardinality(0 .. n - 1) = n
  <2> DEFINE last == n - 1
  <2>1. n \in Nat /\ 0 \in Int /\ last \in Int /\ (IF 0 > last THEN 0 ELSE last - 0 + 1) = n
    BY <1>1
  <2> HIDE DEF n, last, B
  <2>2. /\ IsFiniteSet(0 .. last)
        /\ Cardinality(0 .. last) = IF 0 > last THEN 0 ELSE last - 0 + 1
    BY <2>1, FS_Interval
  <2>3. IsFiniteSet(0 .. last) /\ Cardinality(0 .. last) = n
    BY <2>1, <2>2
  <2> QED
    BY <2>3 DEF last
<1>5. Cardinality(B) <= n
  BY <1>3, <1>4, FS_Injection
<1> HIDE DEF B
<1>6. Cardinality(B) < Cardinality(R)
  <2>1. IsFiniteSet(R \ {r}) /\ Cardinality(R \ {r}) = Cardinality(R) - 1
    BY <1>1, FS_RemoveElement
  <2>2. B \in SUBSET (R \ {r})
    BY <1>1
  <2>3. Cardinality(B) <= Cardinality(R \ {r})
    BY <2>1, <2>2, FS_Subset
  <2>4. Cardinality(R) \in Nat
    BY <1>1, FS_CardinalityType
  <2> QED
    BY <1>2, <2>1, <2>3, <2>4
<1> QED
  BY <1>2, <1>5, <1>6 DEF B

LEMMA RankGrows ==
  ASSUME NEW R, Line(R), NEW q \in R, NEW r \in R, q.sequence < r.sequence
  PROVE  Cardinality(Before(R, q)) < Cardinality(Before(R, r))
<1> DEFINE A == Before(R, q)
           B == Before(R, r)
<1>1. A \cup {q} \in SUBSET B /\ q \notin A
  BY DEF Before, Line
<1>2. IsFiniteSet(A) /\ IsFiniteSet(B) /\ Cardinality(A) \in Nat /\ Cardinality(B) \in Nat
  BY RankBound
<1> HIDE DEF A, B
<1>3. Cardinality(A \cup {q}) = Cardinality(A) + 1
  BY <1>1, <1>2, FS_AddElement
<1>4. Cardinality(A \cup {q}) <= Cardinality(B)
  BY <1>1, <1>2, FS_Subset
<1>5. Cardinality(A) < Cardinality(B)
  BY <1>2, <1>3, <1>4
<1> QED
  BY <1>5 DEF A, B

LEMMA RankIsTaken ==
  ASSUME NEW R, Line(R), NEW i \in 1 .. Cardinality(R)
  PROVE  \E r \in R : Cardinality(Before(R, r)) = i - 1
<1> DEFINE n == Cardinality(R)
           rank == [r \in R |-> Cardinality(Before(R, r)) + 1]
<1>1. IsFiniteSet(R) /\ n \in Nat
  BY FS_CardinalityType DEF Line
<1>2. IsFiniteSet(1 .. n) /\ Cardinality(1 .. n) = n
  BY <1>1, FS_Interval
<1>3. \A r \in R : rank[r] \in 1 .. n
  BY <1>1, RankBound
<1>4. ASSUME NEW q \in R, NEW r \in R, rank[q] = rank[r]
      PROVE  q = r
  <2>1. /\ Cardinality(Before(R, q)) \in Nat
        /\ Cardinality(Before(R, r)) \in Nat
        /\ Cardinality(Before(R, q)) = Cardinality(Before(R, r))
    BY <1>4, RankBound
  <2>2. ~ (q.sequence < r.sequence) /\ ~ (r.sequence < q.sequence)
    BY <2>1, RankGrows
  <2>3. q.sequence = r.sequence
    BY <2>2 DEF Line
  <2> QED
    BY <2>3 DEF Line
<1>5. rank \in [R -> 1 .. n]
  BY <1>3
<1>6. \A q, r \in R : rank[q] = rank[r] => q = r
  BY <1>4
<1> HIDE DEF rank
<1>7. rank \in Injection(R, 1 .. n)
  BY <1>5, <1>6 DEF Injection, IsInjective
<1>8. rank \in Surjection(R, 1 .. n)
  <2>1. Cardinality(R) = Cardinality(1 .. n)
    BY <1>2
  <2> HIDE DEF n
  <2> QED
    BY <1>2, <1>7, <2>1, FS_Injection
<1>9. PICK r \in R : rank[r] = i
  BY <1>8 DEF Surjection
<1>10. Cardinality(Before(R, r)) \in Nat
  BY RankBound
<1>11. Cardinality(Before(R, r)) = i - 1
  BY <1>9, <1>10 DEF rank
<1> QED
  BY <1>11

\* The list the walk goes over.
LEMMA Ordered ==
  ASSUME NEW R, Line(R)
  PROVE  LET list == BySequence(R)
         IN  /\ Len(list) = Cardinality(R) /\ Len(list) \in Nat
             /\ \A i \in 1 .. Len(list) :
                  list[i] \in R /\ Cardinality(Before(R, list[i])) = i - 1 /\ i - 1 <= list[i].sequence
             /\ \A r \in R : \E i \in 1 .. Len(list) : list[i] = r
<1> DEFINE n == Cardinality(R)
           list == BySequence(R)
<1>1. IsFiniteSet(R) /\ n \in Nat
  BY FS_CardinalityType DEF Line
<1>2. list = [i \in 1 .. n |-> CHOOSE r \in R : Cardinality(Before(R, r)) = i - 1]
  BY DEF BySequence
<1>3. Len(list) = n
  BY <1>1, <1>2
<1>4. ASSUME NEW i \in 1 .. n
      PROVE  list[i] \in R /\ Cardinality(Before(R, list[i])) = i - 1
  <2>1. \E r \in R : Cardinality(Before(R, r)) = i - 1
    BY RankIsTaken
  <2>2. list[i] = CHOOSE r \in R : Cardinality(Before(R, r)) = i - 1
    BY <1>2
  <2> QED
    BY <2>1, <2>2
<1> HIDE DEF list
<1>5. ASSUME NEW i \in 1 .. n
      PROVE  i - 1 <= list[i].sequence
  BY <1>4, RankBound
<1>6. ASSUME NEW r \in R
      PROVE  \E i \in 1 .. n : list[i] = r
  <2> DEFINE m == Cardinality(Before(R, r))
  <2>1. m \in Nat /\ m < n
    BY RankBound
  <2>2. m + 1 \in 1 .. n /\ (m + 1) - 1 = m
    BY <1>1, <2>1
  <2>3. list[m + 1] \in R /\ Cardinality(Before(R, list[m + 1])) = m
    BY <1>4, <2>2
  <2>4. list[m + 1].sequence \in Nat /\ r.sequence \in Nat
    BY <2>3 DEF Line
  <2> HIDE DEF m
  <2>5. ~ (list[m + 1].sequence < r.sequence) /\ ~ (r.sequence < list[m + 1].sequence)
    BY <2>1, <2>3, RankGrows DEF m
  <2>6. list[m + 1] = r
    BY <2>3, <2>4, <2>5 DEF Line
  <2> QED
    BY <2>2, <2>6
<1> QED
  BY <1>1, <1>3, <1>4, <1>5, <1>6 DEF list

----------------------------------------------------------------------------
(* The walk over one channel.                                              *)

WalkFrom(w, list, i) ==
  IF i = 0 THEN [frame |-> 0, sequence |-> 0, broken |-> FALSE, stranded |-> {}]
  ELSE Visit(w[i - 1], list[i])

Walks(w, list) == w = [i \in 0 .. Len(list) |-> WalkFrom(w, list, i)]

LEMMA WalkOverIs ==
  ASSUME NEW list, Len(list) \in Nat
  PROVE  \E w : /\ WalkOver(list) = w[Len(list)]
                /\ \A i \in 0 .. Len(list) : w[i] = WalkFrom(w, list, i)
<1> DEFINE n == Len(list)
           Upto(m) == \E w : \A i \in 0 .. m : w[i] = WalkFrom(w, list, i)
           T == {m \in Nat : Upto(m)}
<1>1. Upto(0)
  <2> DEFINE w == [i \in {0} |-> WalkFrom(<<>>, list, 0)]
  <2>1. \A i \in 0 .. 0 : w[i] = WalkFrom(w, list, i)
    BY DEF WalkFrom
  <2> QED
    BY <2>1
<1>2. ASSUME NEW m \in Nat, Upto(m)
      PROVE  Upto(m + 1)
  <2>1. PICK w : \A i \in 0 .. m : w[i] = WalkFrom(w, list, i)
    BY <1>2
  <2> DEFINE v == [i \in 0 .. m + 1 |-> IF i = m + 1 THEN WalkFrom(w, list, i) ELSE w[i]]
  <2>2. ASSUME NEW i \in 0 .. m + 1
        PROVE  v[i] = WalkFrom(v, list, i)
    <3>1. v[i] = WalkFrom(w, list, i)
      <4>1. CASE i = m + 1
        BY <4>1
      <4>2. CASE i # m + 1
        <5>1. i \in 0 .. m /\ v[i] = w[i]
          BY <4>2
        <5> QED
          BY <2>1, <5>1
      <4> QED
        BY <4>1, <4>2
    <3>2. i # 0 => v[i - 1] = w[i - 1]
      OBVIOUS
    <3> HIDE DEF v
    <3> QED
      BY <3>1, <3>2 DEF WalkFrom
  <2> HIDE DEF v
  <2> QED
    BY <2>2
<1>3. 0 \in T /\ \A m \in Nat : m \in T => m + 1 \in T
  <2> HIDE DEF Upto
  <2> QED
    BY <1>1, <1>2
<1>4. Upto(n)
  <2> HIDE DEF Upto
  <2>1. n \in T
    <3> HIDE DEF T
    <3> QED
      BY <1>3, SetInduction
  <2> QED
    BY <2>1
<1>5. PICK v : \A i \in 0 .. n : v[i] = WalkFrom(v, list, i)
  BY <1>4
<1> DEFINE g == [i \in 0 .. n |-> v[i]]
<1>6. ASSUME NEW i \in 0 .. n
      PROVE  g[i] = WalkFrom(g, list, i)
  <2>1. g[i] = WalkFrom(v, list, i)
    BY <1>5
  <2>2. i # 0 => g[i - 1] = v[i - 1]
    OBVIOUS
  <2> HIDE DEF g
  <2> QED
    BY <2>1, <2>2 DEF WalkFrom
<1>7. \E w : Walks(w, list)
  <2>1. [i \in 0 .. n |-> g[i]] = [i \in 0 .. n |-> WalkFrom(g, list, i)]
    <3> HIDE DEF g
    <3> QED
      BY <1>6
  <2>2. g = [i \in 0 .. n |-> g[i]]
    OBVIOUS
  <2> HIDE DEF g
  <2>3. Walks(g, list)
    BY <2>1, <2>2 DEF Walks
  <2> QED
    BY <2>3
<1> DEFINE w == CHOOSE f : Walks(f, list)
<1>8. WalkOver(list) = w[Len(list)]
  BY DEF WalkOver, Walks, WalkFrom
<1>9. Walks(w, list)
  BY <1>7
<1> HIDE DEF w
<1>10. \A i \in 0 .. Len(list) : w[i] = WalkFrom(w, list, i)
  BY <1>9 DEF Walks
<1> QED
  BY <1>8, <1>10

WalkTypes(R) == [frame : Nat, sequence : Nat, broken : BOOLEAN, stranded : SUBSET R]

LEMMA Visited ==
  ASSUME NEW R, Line(R), NEW v \in WalkTypes(R), NEW r \in R
  PROVE  /\ Visit(v, r) \in WalkTypes(R)
         /\ CarriesOn(v, r) =>
              /\ Visit(v, r).frame = v.frame + r.frames
              /\ Visit(v, r).sequence = v.sequence + 1
              /\ Visit(v, r).broken = v.broken
              /\ Visit(v, r).stranded = v.stranded
         /\ ~ CarriesOn(v, r) =>
              /\ Visit(v, r).frame = v.frame
              /\ Visit(v, r).sequence = v.sequence
              /\ Visit(v, r).broken
              /\ Visit(v, r).stranded = v.stranded \cup {r}
<1>1. CASE CarriesOn(v, r)
  <2>1. v.frame + r.frames \in Nat /\ v.sequence + 1 \in Nat
    BY <1>1 DEF CarriesOn, Line, WalkTypes
  <2>2. Visit(v, r) = [v EXCEPT !.frame = v.frame + r.frames, !.sequence = v.sequence + 1]
    BY <1>1 DEF Visit
  <2> QED
    BY <1>1, <2>1, <2>2 DEF WalkTypes
<1>2. CASE ~ CarriesOn(v, r)
  <2>1. v.stranded \cup {r} \in SUBSET R
    BY DEF WalkTypes
  <2>2. Visit(v, r) = [v EXCEPT !.broken = TRUE, !.stranded = v.stranded \cup {r}]
    BY <1>2 DEF Visit
  <2> QED
    BY <1>2, <2>1, <2>2 DEF WalkTypes
<1> QED
  BY <1>1, <1>2

(***************************************************************************)
(* A run of k blocks from the first frame, with its ends; and that no      *)
(* block goes on from its end.                                             *)
(***************************************************************************)
Follows(r, e, j) ==
  r.sequence = j /\ r.frames > 0 /\ r.start = e[j] /\ e[j + 1] = e[j] + r.frames

Run(R, e, k) ==
  /\ k \in Nat
  /\ e \in [0 .. k -> Nat]
  /\ e[0] = 0
  /\ \A j \in 0 .. k - 1 : \E r \in R : Follows(r, e, j)

GoesOn(r, e, k) == r.sequence = k /\ r.frames > 0 /\ r.start = e[k]

\* After i blocks of the list: the run it started with, and the rest of it.
Shape(R, list, v, i, e, k) ==
  /\ k \in 0 .. i /\ e \in [0 .. k -> Nat] /\ e[0] = 0
  /\ \A j \in 0 .. k - 1 : Follows(list[j + 1], e, j)
  /\ v \in WalkTypes(R)
  /\ v.frame = e[k] /\ v.sequence = k /\ (v.broken <=> k < i)
  /\ v.stranded = {list[j] : j \in k + 1 .. i}
  /\ k < i => ~ GoesOn(list[k + 1], e, k)

LEMMA ShapeStarts ==
  ASSUME NEW R, NEW list
  PROVE  Shape(R, list, [frame |-> 0, sequence |-> 0, broken |-> FALSE, stranded |-> {}], 0,
               [j \in 0 .. 0 |-> 0], 0)
BY DEF Shape, WalkTypes

LEMMA ShapeGrows ==
  ASSUME NEW R, Line(R), NEW list, NEW v, NEW i \in Nat, NEW e, NEW k, Shape(R, list, v, i, e, k),
         list[i + 1] \in R
  PROVE  \E f, m : Shape(R, list, Visit(v, list[i + 1]), i + 1, f, m)
<1> DEFINE r == list[i + 1]
           to == Visit(v, r)
<1>1. k \in 0 .. i /\ v \in WalkTypes(R) /\ r \in R
  BY DEF Shape
<1>2. r.sequence \in Nat /\ r.start \in Nat /\ r.frames \in Int /\ NotNegative(r.start) = r.start
  BY <1>1 DEF Line, NotNegative
<1>3. CASE k < i
  <2>1. ~ CarriesOn(v, r)
    BY <1>3 DEF Shape, CarriesOn
  <2>2. /\ to \in WalkTypes(R) /\ to.frame = e[k] /\ to.sequence = k /\ to.broken
        /\ to.stranded = {list[j] : j \in k + 1 .. i} \cup {r}
    <3>1. /\ to \in WalkTypes(R) /\ to.frame = v.frame /\ to.sequence = v.sequence /\ to.broken
          /\ to.stranded = v.stranded \cup {r}
      BY <1>1, <2>1, Visited
    <3> HIDE DEF to
    <3> QED
      BY <3>1 DEF Shape
  <2>3. {list[j] : j \in k + 1 .. i + 1} = {list[j] : j \in k + 1 .. i} \cup {list[i + 1]}
    <3>1. \A j : j \in k + 1 .. i + 1 <=> j \in k + 1 .. i \/ j = i + 1
      BY <1>1
    <3> QED
      BY <3>1
  <2>4. k \in 0 .. i + 1 /\ k < i + 1
    BY <1>1, <1>3
  <2> HIDE DEF to
  <2>5. Shape(R, list, to, i + 1, e, k)
    BY <1>3, <2>2, <2>3, <2>4 DEF Shape
  <2> QED
    BY <2>5 DEF to
<1>4. CASE k = i /\ ~ GoesOn(r, e, k)
  <2>1. ~ CarriesOn(v, r)
    BY <1>2, <1>4 DEF Shape, CarriesOn, GoesOn
  <2>2. {list[j] : j \in k + 1 .. i} = {} /\ {list[j] : j \in k + 1 .. i + 1} = {r}
    <3>1. k + 1 .. i = {} /\ k + 1 .. i + 1 = {i + 1}
      BY <1>4
    <3> QED
      BY <3>1
  <2>3. /\ to \in WalkTypes(R) /\ to.frame = e[k] /\ to.sequence = k /\ to.broken
        /\ to.stranded = {list[j] : j \in k + 1 .. i} \cup {r}
    <3>1. /\ to \in WalkTypes(R) /\ to.frame = v.frame /\ to.sequence = v.sequence /\ to.broken
          /\ to.stranded = v.stranded \cup {r}
      BY <1>1, <2>1, Visited
    <3> HIDE DEF to
    <3> QED
      BY <3>1 DEF Shape
  <2>4. k \in 0 .. i + 1 /\ k < i + 1 /\ k + 1 = i + 1
    BY <1>1, <1>4
  <2> HIDE DEF to
  <2>5. Shape(R, list, to, i + 1, e, k)
    BY <1>4, <2>2, <2>3, <2>4 DEF Shape
  <2> QED
    BY <2>5 DEF to
<1>5. CASE k = i /\ GoesOn(r, e, k)
  <2>1. CarriesOn(v, r)
    BY <1>2, <1>5 DEF Shape, CarriesOn, GoesOn
  <2>2. /\ to \in WalkTypes(R) /\ to.frame = e[k] + r.frames /\ to.sequence = k + 1
        /\ ~ to.broken /\ to.stranded = {list[j] : j \in k + 1 .. i}
    BY <1>1, <1>5, <2>1, Visited DEF Shape
  <2> DEFINE m == i + 1
             f == [j \in 0 .. m |-> IF j = m THEN e[i] + r.frames ELSE e[j]]
  <2>3. e \in [0 .. i -> Nat] /\ e[i] \in Nat /\ r.frames > 0
    BY <1>5 DEF Shape, GoesOn
  <2>4. /\ f \in [0 .. m -> Nat] /\ f[m] = e[i] + r.frames
        /\ \A j \in 0 .. i : f[j] = e[j]
    <3>1. \A j \in 0 .. m : j # m => j \in 0 .. i
      OBVIOUS
    <3>2. e[i] + r.frames \in Nat
      BY <1>2, <2>3
    <3>3. \A j \in 0 .. i : j \in 0 .. m /\ j # m
      OBVIOUS
    <3>4. m \in 0 .. m
      OBVIOUS
    <3> HIDE DEF m
    <3> QED
      BY <2>3, <3>1, <3>2, <3>3, <3>4
  <2>5. f[0] = 0
    BY <1>5, <2>4 DEF Shape
  <2> HIDE DEF f
  <2>6. ASSUME NEW j \in 0 .. m - 1
        PROVE  Follows(list[j + 1], f, j)
    <3>1. CASE j = i
      BY <1>5, <2>4, <3>1 DEF Follows, GoesOn
    <3>2. CASE j # i
      <4>1. j \in 0 .. k - 1 /\ j \in 0 .. i /\ j + 1 \in 0 .. i
        BY <1>5, <3>2
      <4>2. Follows(list[j + 1], e, j)
        BY <4>1 DEF Shape
      <4> QED
        BY <2>4, <4>1, <4>2 DEF Follows
    <3> QED
      BY <3>1, <3>2
  <2>7. {list[j] : j \in k + 1 .. i} = {list[j] : j \in m + 1 .. i + 1}
    <3>1. k + 1 .. i = {} /\ m + 1 .. i + 1 = {}
      BY <1>5
    <3> QED
      BY <3>1
  <2>8. m \in 0 .. i + 1 /\ ~ (m < i + 1) /\ k + 1 = m /\ e[k] = e[i]
    BY <1>5
  <2> HIDE DEF to
  <2>9. Shape(R, list, to, i + 1, f, m)
    BY <2>2, <2>4, <2>5, <2>6, <2>7, <2>8 DEF Shape
  <2> QED
    BY <2>9 DEF to
<1> QED
  BY <1>1, <1>3, <1>4, <1>5

LEMMA WalkIsRun ==
  ASSUME NEW R, Line(R)
  PROVE  \E e, k : /\ Run(R, e, k)
                   /\ \A r \in R : ~ GoesOn(r, e, k)
                   /\ WalkOver(BySequence(R)).frame = e[k]
                   /\ WalkOver(BySequence(R)).stranded = {r \in R : r.sequence >= k}
<1> DEFINE list == BySequence(R)
           n == Len(list)
<1>1. /\ n \in Nat
      /\ \A i \in 1 .. n : list[i] \in R /\ i - 1 <= list[i].sequence
      /\ \A r \in R : \E i \in 1 .. n : list[i] = r
  BY Ordered
<1> HIDE DEF list
<1>2. PICK w : /\ WalkOver(list) = w[n]
               /\ \A i \in 0 .. n : w[i] = WalkFrom(w, list, i)
  BY <1>1, WalkOverIs
<1> HIDE DEF n
<1> DEFINE Shaped(i) == \E e, k : Shape(R, list, w[i], i, e, k)
           T == {i \in Nat : i <= n => Shaped(i)}
<1>3. Shaped(0)
  <2>1. w[0] = [frame |-> 0, sequence |-> 0, broken |-> FALSE, stranded |-> {}]
    BY <1>1, <1>2 DEF WalkFrom
  <2> QED
    BY <2>1, ShapeStarts
<1>4. ASSUME NEW i \in Nat, i + 1 <= n, Shaped(i)
      PROVE  Shaped(i + 1)
  <2>1. i + 1 \in 1 .. n /\ i + 1 \in 0 .. n /\ i + 1 # 0 /\ (i + 1) - 1 = i
    BY <1>1, <1>4
  <2>2. w[i + 1] = Visit(w[i], list[i + 1])
    BY <1>2, <2>1 DEF WalkFrom
  <2>3. PICK e, k : Shape(R, list, w[i], i, e, k)
    BY <1>4
  <2>4. \E f, m : Shape(R, list, Visit(w[i], list[i + 1]), i + 1, f, m)
    BY <1>1, <2>1, <2>3, ShapeGrows
  <2> QED
    BY <2>2, <2>4
<1>5. Shaped(n)
  <2> HIDE DEF Shaped
  <2>1. 0 \in T /\ \A i \in Nat : i \in T => i + 1 \in T
    BY <1>1, <1>3, <1>4
  <2>2. n \in T
    <3> HIDE DEF T
    <3> QED
      BY <1>1, <2>1, SetInduction
  <2> QED
    BY <1>1, <2>2
<1>6. PICK e, k : Shape(R, list, w[n], n, e, k)
  BY <1>5
<1>7. /\ k \in 0 .. n /\ k \in Nat
      /\ \A j \in 0 .. k - 1 : Follows(list[j + 1], e, j)
  BY <1>1, <1>6 DEF Shape
<1>8. ASSUME NEW i \in 1 .. n
      PROVE  /\ i <= k => list[i].sequence = i - 1 /\ ~ (list[i].sequence >= k)
             /\ i > k => list[i].sequence >= k
             /\ list[i].sequence = k => i = k + 1
  <2>1. CASE i <= k
    <3>1. i - 1 \in 0 .. k - 1 /\ (i - 1) + 1 = i
      BY <1>7, <2>1
    <3>2. list[i].sequence = i - 1
      BY <1>7, <3>1 DEF Follows
    <3> QED
      BY <1>7, <2>1, <3>2
  <2>2. CASE i > k
    <3>1. list[i].sequence \in Nat /\ i - 1 <= list[i].sequence
      BY <1>1 DEF Line
    <3> QED
      BY <1>7, <2>2, <3>1
  <2> QED
    BY <1>7, <2>1, <2>2
<1>9. Run(R, e, k)
  <2>1. ASSUME NEW j \in 0 .. k - 1
        PROVE  \E r \in R : Follows(r, e, j)
    <3>1. j + 1 \in 1 .. n
      BY <1>1, <1>7
    <3> QED
      BY <1>1, <1>7, <3>1
  <2> QED
    BY <1>6, <1>7, <2>1 DEF Shape, Run
<1>10. ASSUME NEW r \in R
       PROVE  ~ GoesOn(r, e, k)
  <2>1. PICK i \in 1 .. n : list[i] = r
    BY <1>1
  <2>2. CASE r.sequence = k
    <3>1. i = k + 1 /\ k < n
      BY <1>1, <1>7, <1>8, <2>1, <2>2
    <3> QED
      BY <1>6, <2>1, <3>1 DEF Shape
  <2>3. CASE r.sequence # k
    BY <2>3 DEF GoesOn
  <2> QED
    BY <2>2, <2>3
<1>11. {list[j] : j \in k + 1 .. n} = {r \in R : r.sequence >= k}
  <2>1. ASSUME NEW j \in k + 1 .. n
        PROVE  list[j] \in R /\ list[j].sequence >= k
    <3>1. j \in 1 .. n /\ j > k
      BY <1>7
    <3> QED
      BY <1>1, <1>8, <3>1
  <2>2. ASSUME NEW r \in R, r.sequence >= k
        PROVE  \E j \in k + 1 .. n : list[j] = r
    <3>1. PICK i \in 1 .. n : list[i] = r
      BY <1>1
    <3>2. i > k
      BY <1>7, <1>8, <2>2, <3>1
    <3>3. i \in k + 1 .. n
      BY <1>7, <3>2
    <3> QED
      BY <3>1, <3>3
  <2> QED
    BY <2>1, <2>2
<1>12. /\ WalkOver(list).frame = e[k]
       /\ WalkOver(list).stranded = {r \in R : r.sequence >= k}
  BY <1>2, <1>6, <1>11 DEF Shape
<1> QED
  BY <1>9, <1>10, <1>12 DEF list

----------------------------------------------------------------------------
(* What a run holds.                                                       *)

First(R, j) == {r \in R : r.sequence < j}

LEMMA RunRows ==
  ASSUME NEW R, Line(R), NEW e, NEW k, Run(R, e, k), NEW r \in R, r.sequence < k
  PROVE  Follows(r, e, r.sequence)
<1>1. r.sequence \in 0 .. k - 1
  BY DEF Line, Run
<1>2. PICK q \in R : Follows(q, e, r.sequence)
  BY <1>1 DEF Run
<1>3. q = r
  BY <1>2 DEF Line, Follows
<1> QED
  BY <1>2, <1>3

LEMMA RunGrows ==
  ASSUME NEW R, Line(R), NEW e, NEW k, Run(R, e, k)
  PROVE  \A i, j \in 0 .. k : i < j => e[i] < e[j]
<1> DEFINE T == {j \in Nat : j <= k => \A i \in 0 .. k : i < j => e[i] < e[j]}
<1>1. k \in Nat /\ e \in [0 .. k -> Nat]
  BY DEF Run
<1>2. 0 \in T
  OBVIOUS
<1>3. ASSUME NEW j \in Nat, j + 1 <= k, \A i \in 0 .. k : i < j => e[i] < e[j],
             NEW i \in 0 .. k, i < j + 1
      PROVE  e[i] < e[j + 1]
  <2>1. j \in 0 .. k - 1 /\ j \in 0 .. k /\ j + 1 \in 0 .. k
    BY <1>1, <1>3
  <2>2. PICK r \in R : Follows(r, e, j)
    BY <2>1 DEF Run
  <2>3. r.frames \in Int /\ r.frames > 0 /\ e[j + 1] = e[j] + r.frames
    BY <2>2 DEF Line, Follows
  <2>4. e[i] \in Nat /\ e[j] \in Nat
    BY <1>1, <2>1
  <2>5. i = j \/ i < j
    BY <1>1, <1>3
  <2> QED
    BY <1>3, <2>3, <2>4, <2>5
<1>4. \A j \in Nat : j \in T => j + 1 \in T
  <2> TAKE j \in Nat
  <2> HAVE j \in T
  <2>1. j + 1 <= k => j <= k
    BY <1>1
  <2> QED
    BY <1>3, <2>1
<1> HIDE DEF T
<1>5. \A j \in Nat : j \in T
  BY <1>2, <1>4, SetInduction
<1> QED
  BY <1>1, <1>5 DEF T

LEMMA RunFrames ==
  ASSUME NEW R, Line(R), NEW e, NEW k, Run(R, e, k)
  PROVE  \A j \in 0 .. k : /\ IsFiniteSet(First(R, j))
                           /\ Cardinality(First(R, j)) = j
                           /\ FramesIn(First(R, j)) = e[j]
<1> DEFINE Held(j) == /\ IsFiniteSet(First(R, j))
                      /\ Cardinality(First(R, j)) = j
                      /\ FramesIn(First(R, j)) = e[j]
           T == {j \in Nat : j <= k => Held(j)}
<1>1. k \in Nat /\ e \in [0 .. k -> Nat]
  BY DEF Run
<1>2. Held(0)
  <2>1. First(R, 0) = {}
    BY DEF First, Line
  <2> QED
    BY <2>1, FramesInNone, FS_EmptySet DEF Run
<1>3. ASSUME NEW j \in Nat, j + 1 <= k, Held(j)
      PROVE  Held(j + 1)
  <2>1. j \in 0 .. k - 1
    BY <1>1, <1>3
  <2>2. PICK r \in R : Follows(r, e, j)
    BY <2>1 DEF Run
  <2>3. /\ r.sequence = j /\ e[j + 1] = e[j] + r.frames
        /\ r \notin First(R, j)
    BY <2>2 DEF Line, Follows, First
  <2>4. First(R, j + 1) = First(R, j) \cup {r}
    <3>1. ASSUME NEW q \in R
          PROVE  q.sequence < j + 1 <=> q.sequence < j \/ q = r
      <4>1. q.sequence \in Nat /\ (q.sequence = j => q = r)
        BY <2>3 DEF Line
      <4> QED
        BY <2>3, <4>1
    <3> QED
      BY <3>1 DEF First
  <2>5. \A q \in First(R, j) \cup {r} : q.frames \in Int
    BY DEF First, Line
  <2>6. FramesIn(First(R, j) \cup {r}) = FramesIn(First(R, j)) + r.frames
    BY <1>3, <2>3, <2>5, FramesInMore
  <2>7. /\ IsFiniteSet(First(R, j) \cup {r})
        /\ Cardinality(First(R, j) \cup {r}) = j + 1
    BY <1>3, <2>3, FS_AddElement
  <2> QED
    BY <1>3, <2>3, <2>4, <2>6, <2>7
<1>4. \A j \in Nat : j \in T => j + 1 \in T
  <2> TAKE j \in Nat
  <2> HAVE j \in T
  <2>1. j + 1 <= k => j <= k
    BY <1>1
  <2> HIDE DEF Held
  <2> QED
    BY <1>3, <2>1
<1> HIDE DEF T
<1>5. \A j \in Nat : j \in T
  BY <1>2, <1>4, SetInduction DEF T
<1> QED
  BY <1>1, <1>5 DEF T

\* j blocks numbered below j are numbered 0 to j - 1.
LEMMA NoneMissing ==
  ASSUME NEW R, Line(R), NEW j \in Nat, Cardinality(First(R, j)) = j, NEW i \in 0 .. j - 1
  PROVE  \E r \in R : r.sequence = i
<1> DEFINE C == First(R, j)
           number == [r \in C |-> r.sequence]
<1>1. IsFiniteSet(C) /\ C \in SUBSET R
  <2>1. C \in SUBSET R /\ IsFiniteSet(R)
    BY DEF First, Line
  <2> QED
    BY <2>1, FS_Subset
<1>2. \A r \in C : r.sequence \in 0 .. j - 1
  BY DEF First, Line
<1>3. \A q, r \in C : q.sequence = r.sequence => q = r
  BY <1>1 DEF Line
<1>4. number \in Injection(C, 0 .. j - 1)
  BY <1>2, <1>3 DEF Injection, IsInjective
<1> HIDE DEF number
<1>5. IsFiniteSet(0 .. j - 1) /\ Cardinality(0 .. j - 1) = j
  BY FS_Interval
<1>6. Cardinality(C) = Cardinality(0 .. j - 1)
  BY <1>5
<1> HIDE DEF C
<1>7. number \in Surjection(C, 0 .. j - 1)
  BY <1>4, <1>5, <1>6, FS_Injection
<1>8. PICK r \in C : number[r] = i
  BY <1>7 DEF Surjection
<1>9. r.sequence = i
  BY <1>8 DEF number
<1> QED
  BY <1>1, <1>8, <1>9

\* Each frame of a run is in one of its blocks.
LEMMA RunCovers ==
  ASSUME NEW R, Line(R), NEW e, NEW k, Run(R, e, k), NEW f \in Nat, f < e[k]
  PROVE  \E r \in R : r.sequence < k /\ r.start <= f /\ f < r.start + r.frames
<1> DEFINE S == {j \in 0 .. k : f < e[j]}
<1>1. k \in Nat /\ e \in [0 .. k -> Nat] /\ e[0] = 0
  BY DEF Run
<1>2. S \subseteq Nat /\ S # {}
  BY <1>1
<1>3. PICK j \in S : \A i \in S : j <= i
  <2> HIDE DEF S
  <2> QED
    BY <1>2, LeastNatural
<1>4. j \in 0 .. k /\ f < e[j] /\ j # 0
  BY <1>1, <1>3
<1>5. j - 1 \in 0 .. k - 1 /\ j - 1 \in 0 .. k /\ (j - 1) + 1 = j /\ ~ (j <= j - 1)
  BY <1>1, <1>4
<1>6. j - 1 \notin S
  BY <1>3, <1>5
<1>7. e[j - 1] <= f
  BY <1>1, <1>5, <1>6
<1>8. PICK r \in R : Follows(r, e, j - 1)
  BY <1>5 DEF Run
<1>9. r.sequence < k /\ r.start = e[j - 1] /\ r.start + r.frames = e[j]
  BY <1>1, <1>5, <1>8 DEF Follows
<1> QED
  BY <1>4, <1>7, <1>9

----------------------------------------------------------------------------
(* The capture's blocks: what the table's UNIQUE and its types allow.      *)

Sound(set) ==
  /\ IsFiniteSet(set)
  /\ set \subseteq [channel : 0 .. Channels - 1, sequence : 0 .. Blocks - 1,
                    start : Nat, frames : Int]
  /\ \A q, r \in set : q.channel = r.channel /\ q.sequence = r.sequence => q = r

LEMMA ChannelIsLine ==
  ASSUME NEW set, Sound(set), NEW c
  PROVE  Line(OnChannel(set, c))
<1>1. OnChannel(set, c) \in SUBSET set /\ IsFiniteSet(set)
  BY DEF OnChannel, Sound
<1>2. IsFiniteSet(OnChannel(set, c))
  BY <1>1, FS_Subset
<1>3. \A r \in OnChannel(set, c) : r.sequence \in Nat /\ r.start \in Nat /\ r.frames \in Int
  BY <1>1 DEF Sound
<1>4. \A q, r \in OnChannel(set, c) : q.sequence = r.sequence => q = r
  BY <1>1 DEF Sound, OnChannel
<1> QED
  BY <1>2, <1>3, <1>4 DEF Line

\* The walk of channel c stops after the k blocks that end at e.
WalkStops(set, c, e, k) ==
  /\ Run(OnChannel(set, c), e, k)
  /\ \A r \in OnChannel(set, c) : ~ GoesOn(r, e, k)
  /\ Walk(set, c).frame = e[k]
  /\ Walk(set, c).stranded = {r \in OnChannel(set, c) : r.sequence >= k}

LEMMA WalkMeets ==
  ASSUME NEW set, Sound(set), NEW c
  PROVE  \E e, k : WalkStops(set, c, e, k)
BY ChannelIsLine, WalkIsRun DEF WalkStops, Walk

LEMMA LeastIs ==
  ASSUME NEW S, S \subseteq Nat, S # {}
  PROVE  Min(S) \in S /\ \A x \in S : Min(S) <= x
BY LeastNatural DEF Min

\* The agreed end: no channel holds less, and one holds no more.
LEMMA UsableIsLeast ==
  ASSUME NEW set, Sound(set)
  PROVE  /\ Usable(set, Channels) \in Nat
         /\ \A c \in 0 .. Channels - 1 : Usable(set, Channels) <= Walk(set, c).frame
<1> DEFINE S == {Walk(set, c).frame : c \in 0 .. Channels - 1}
<1>1. \A c \in 0 .. Channels - 1 : Walk(set, c).frame \in Nat
  <2> TAKE c \in 0 .. Channels - 1
  <2>1. PICK e, k : WalkStops(set, c, e, k)
    BY WalkMeets
  <2>2. k \in 0 .. k /\ e \in [0 .. k -> Nat]
    BY <2>1 DEF WalkStops, Run
  <2> QED
    BY <2>1, <2>2 DEF WalkStops
<1>2. 0 \in 0 .. Channels - 1 /\ Channels # 0
  BY DamagedAssumption
<1>3. S \subseteq Nat /\ S # {}
  BY <1>1, <1>2
<1>4. \A c \in 0 .. Channels - 1 : Walk(set, c).frame \in S
  OBVIOUS
<1>5. Usable(set, Channels) = Min(S)
  BY <1>2 DEF Usable
<1> HIDE DEF S
<1> QED
  BY <1>3, <1>4, <1>5, LeastIs

(***************************************************************************)
(* A channel reaches as far as its walk.                                   *)
(***************************************************************************)
LEMMA ReachIsWalk ==
  ASSUME Sound(rows), NEW c \in 0 .. Channels - 1
  PROVE  Reach(c) = Walk(rows, c).frame
<1> DEFINE R == OnChannel(rows, c)
<1>1. Line(R)
  BY ChannelIsLine
<1>2. PICK e, k : WalkStops(rows, c, e, k)
  BY WalkMeets
<1>3. /\ Run(R, e, k) /\ Walk(rows, c).frame = e[k]
      /\ \A r \in R : ~ GoesOn(r, e, k)
  BY <1>2 DEF WalkStops
<1>4. k \in Nat /\ e \in [0 .. k -> Nat]
  BY <1>3 DEF Run
<1>5. \A j : Chain(c, j) = First(R, j)
  BY DEF Chain, First, OnChannel
<1>6. \A r \in R : r.sequence \in 0 .. Blocks - 1
  BY DEF Sound, OnChannel
<1> HIDE DEF R
<1>7. \A j \in 0 .. k : /\ Cardinality(Chain(c, j)) = j
                        /\ FramesIn(Chain(c, j)) = e[j]
  BY <1>1, <1>3, <1>5, RunFrames
<1>8. k \in 0 .. Blocks
  <2>1. CASE k = 0
    BY <2>1, DamagedAssumption
  <2>2. CASE k # 0
    <3>1. k - 1 \in 0 .. k - 1
      BY <1>4, <2>2
    <3>2. PICK r \in R : Follows(r, e, k - 1)
      BY <1>3, <3>1 DEF Run
    <3>3. k - 1 \in 0 .. Blocks - 1
      BY <1>6, <3>2 DEF Follows
    <3> QED
      BY <1>4, <3>3, DamagedAssumption
  <2> QED
    BY <2>1, <2>2
<1>9. ASSUME NEW j \in 0 .. Blocks
      PROVE  IsRun(c, j) <=> j <= k
  <2>1. CASE j <= k
    <3>1. ASSUME NEW r \in Chain(c, j)
          PROVE  r.frames > 0 /\ r.start = FramesIn(Chain(c, r.sequence))
      <4>1. r \in R /\ r.sequence < j
        BY <1>5 DEF First
      <4>2. r.sequence \in 0 .. k /\ r.sequence < k
        BY <1>4, <1>6, <2>1, <4>1
      <4>3. Follows(r, e, r.sequence)
        BY <1>1, <1>3, <4>1, <4>2, RunRows
      <4> QED
        BY <1>7, <4>2, <4>3 DEF Follows
    <3>2. Cardinality(Chain(c, j)) = j
      BY <1>4, <1>7, <2>1
    <3> QED
      BY <2>1, <3>1, <3>2 DEF IsRun
  <2>2. CASE k < j /\ IsRun(c, j)
    <3>1. Cardinality(First(R, j)) = j /\ k \in 0 .. j - 1 /\ j \in Nat
      BY <1>4, <1>5, <2>2 DEF IsRun
    <3>2. PICK r \in R : r.sequence = k
      BY <1>1, <3>1, NoneMissing
    <3>3. r \in Chain(c, j)
      BY <1>5, <2>2, <3>2 DEF First
    <3>4. r.frames > 0 /\ r.start = FramesIn(Chain(c, k))
      BY <2>2, <3>2, <3>3 DEF IsRun
    <3>5. r.start = e[k]
      BY <1>4, <1>7, <3>4
    <3> QED
      BY <1>3, <3>2, <3>4, <3>5 DEF GoesOn
  <2> QED
    BY <1>4, <2>1, <2>2
<1> DEFINE ends == {FramesIn(Chain(c, j)) : j \in {i \in 0 .. Blocks : IsRun(c, i)}}
<1>10. ends = {e[j] : j \in 0 .. k}
  <2>1. {i \in 0 .. Blocks : IsRun(c, i)} = 0 .. k
    <3>1. \A i : i \in 0 .. Blocks /\ i <= k <=> i \in 0 .. k
      BY <1>4, <1>8, DamagedAssumption
    <3> QED
      BY <1>9, <3>1
  <2> QED
    BY <1>7, <2>1
<1>11. e[k] \in ends /\ \A x \in ends : x <= e[k] /\ x \in Nat
  <2>1. \A j \in 0 .. k : j < k => e[j] < e[k]
    <3>1. k \in 0 .. k
      BY <1>4
    <3> QED
      BY <1>1, <1>3, <3>1, RunGrows
  <2>2. \A j \in 0 .. k : j < k \/ j = k
    BY <1>4
  <2>3. \A j \in 0 .. k : e[j] <= e[k] /\ e[j] \in Nat
    BY <1>4, <2>1, <2>2
  <2>4. e[k] \in {e[j] : j \in 0 .. k}
    BY <1>4
  <2> HIDE DEF ends
  <2> QED
    BY <1>10, <2>3, <2>4
<1>12. Reach(c) = Max(ends)
  BY DEF Reach
<1> HIDE DEF ends
<1>13. e[k] \in Nat
  BY <1>4
<1>14. Max(ends) = e[k]
  <2>1. \A x \in ends : (\A y \in ends : x >= y) => x = e[k]
    BY <1>11, <1>13
  <2>2. \A y \in ends : e[k] >= y
    BY <1>11, <1>13
  <2> QED
    BY <1>11, <2>1, <2>2 DEF Max
<1> QED
  BY <1>3, <1>12, <1>14

----------------------------------------------------------------------------
(* What recovery leaves of a channel: one run of blocks, each of which     *)
(* starts before the agreed end, and the last of which reaches it.         *)

Straight(set, end, c) ==
  \E e, k : /\ Run(OnChannel(set, c), e, k)
            /\ e[k] >= end
            /\ \A r \in OnChannel(set, c) : r.sequence < k /\ r.start < end

LEMMA SurplusIs ==
  ASSUME NEW set, Sound(set), NEW c \in 0 .. Channels - 1, NEW e, NEW k, WalkStops(set, c, e, k)
  PROVE  OnChannel(set \ Surplus(set, Channels), c)
           = {r \in OnChannel(set, c) : r.sequence < k /\ r.start < Usable(set, Channels)}
<1> DEFINE U == Usable(set, Channels)
<1>1. k \in Nat /\ U \in Nat
  BY UsableIsLeast DEF WalkStops, Run
<1>2. ASSUME NEW r \in OnChannel(set, c)
      PROVE  r \in Surplus(set, Channels) <=> ~ (r.sequence < k /\ r.start < U)
  <2>1. /\ r \in set /\ r.channel = c /\ r.sequence \in Nat /\ r.start \in Nat
        /\ NotNegative(r.start) = r.start
    BY DEF OnChannel, Sound, NotNegative
  <2>2. r \in Stranded(set) <=> r \in Walk(set, c).stranded
    <3>1. ASSUME NEW d, r \in Walk(set, d).stranded
          PROVE  d = c
      <4>1. PICK f, m : WalkStops(set, d, f, m)
        BY WalkMeets
      <4>2. r \in OnChannel(set, d)
        BY <3>1, <4>1 DEF WalkStops
      <4> QED
        BY <2>1, <4>2 DEF OnChannel
    <3>2. c \in {q.channel : q \in set}
      BY <2>1
    <3>3. r \in Stranded(set) <=> \E d \in {q.channel : q \in set} : r \in Walk(set, d).stranded
      BY DEF Stranded
    <3> QED
      BY <3>1, <3>2, <3>3
  <2>3. r \in Walk(set, c).stranded <=> r.sequence >= k
    BY DEF WalkStops
  <2>4. r \in Surplus(set, Channels) <=> r \in Stranded(set) \/ r.start >= U
    BY <2>1 DEF Surplus
  <2> HIDE DEF U
  <2>5. (r.sequence >= k \/ r.start >= U) <=> ~ (r.sequence < k /\ r.start < U)
    BY <1>1, <2>1
  <2> QED
    BY <2>2, <2>3, <2>4, <2>5
<1> QED
  BY <1>2 DEF OnChannel

LEMMA LeftIsStraight ==
  ASSUME NEW set, Sound(set), NEW c \in 0 .. Channels - 1
  PROVE  Straight(set \ Surplus(set, Channels), Usable(set, Channels), c)
<1> DEFINE U == Usable(set, Channels)
           R == OnChannel(set, c)
           left == OnChannel(set \ Surplus(set, Channels), c)
<1>1. PICK e, k : WalkStops(set, c, e, k)
  BY WalkMeets
<1>2. left = {r \in R : r.sequence < k /\ r.start < U}
  BY <1>1, SurplusIs
<1>3. /\ Line(R) /\ Run(R, e, k) /\ U \in Nat /\ U <= e[k]
  BY <1>1, ChannelIsLine, UsableIsLeast DEF WalkStops
<1>4. k \in Nat /\ e \in [0 .. k -> Nat] /\ e[0] = 0 /\ k \in 0 .. k
  BY <1>3 DEF Run
<1> HIDE DEF U, R, left
<1> DEFINE S == {j \in 0 .. k : e[j] >= U}
<1>5. S \subseteq Nat /\ S # {}
  BY <1>3, <1>4
<1>6. PICK m \in S : \A j \in S : m <= j
  <2> HIDE DEF S
  <2> QED
    BY <1>5, LeastNatural
<1>7. m \in 0 .. k /\ e[m] >= U /\ m \in Nat /\ m <= k
  BY <1>4, <1>6
<1>8. ASSUME NEW r \in R, r.sequence < k
      PROVE  r.start < U <=> r.sequence < m
  <2> DEFINE s == r.sequence
  <2>1. s \in 0 .. k /\ s \in Nat /\ r.start = e[s]
    <3>1. Follows(r, e, s)
      BY <1>3, <1>8, RunRows
    <3>2. s \in Nat
      BY <1>3 DEF Line
    <3> QED
      BY <1>4, <1>8, <3>1, <3>2 DEF Follows
  <2> HIDE DEF s
  <2>2. e[s] \in Nat /\ e[m] \in Nat
    BY <1>4, <1>7, <2>1
  <2>3. CASE s < m
    <3>1. s \notin S
      BY <1>6, <1>7, <2>1, <2>3
    <3> QED
      BY <1>3, <2>1, <2>2, <2>3, <3>1 DEF s
  <2>4. CASE m < s
    <3>1. e[m] < e[s]
      BY <1>3, <1>7, <2>1, <2>4, RunGrows
    <3> QED
      BY <1>3, <1>7, <2>1, <2>2, <2>4, <3>1 DEF s
  <2>5. CASE m = s
    BY <1>3, <1>7, <2>1, <2>2, <2>5 DEF s
  <2> QED
    BY <1>7, <2>1, <2>3, <2>4, <2>5
<1> DEFINE f == [j \in 0 .. m |-> e[j]]
<1>9. ASSUME NEW r \in R
      PROVE  r \in left <=> r.sequence < m
  <2>1. r.sequence \in Nat
    BY <1>3 DEF Line
  <2>2. r.sequence < m => r.sequence < k
    BY <1>4, <1>7, <2>1
  <2> QED
    BY <1>2, <1>8, <2>2
<1>10. Run(left, f, m)
  <2>1. \A j \in 0 .. m : j \in 0 .. k
    BY <1>4, <1>7
  <2>2. f \in [0 .. m -> Nat] /\ f[0] = 0
    BY <1>4, <1>7, <2>1
  <2>3. ASSUME NEW j \in 0 .. m - 1
        PROVE  \E r \in left : Follows(r, f, j)
    <3>1. j \in 0 .. k - 1 /\ j \in 0 .. m /\ j + 1 \in 0 .. m /\ j < m
      BY <1>4, <1>7
    <3>2. PICK r \in R : Follows(r, e, j)
      BY <1>3, <3>1 DEF Run
    <3>3. r \in left
      BY <1>9, <3>1, <3>2 DEF Follows
    <3>4. f[j] = e[j] /\ f[j + 1] = e[j + 1]
      BY <3>1
    <3> HIDE DEF f
    <3> QED
      BY <3>2, <3>3, <3>4 DEF Follows
  <2> HIDE DEF f
  <2> QED
    BY <1>7, <2>2, <2>3 DEF Run
<1>11. f[m] >= U
  BY <1>7
<1>12. \A r \in left : r.sequence < m /\ r.start < U
  BY <1>2, <1>9
<1> HIDE DEF f
<1>13. \E g, n : /\ Run(left, g, n) /\ g[n] >= U
                 /\ \A r \in left : r.sequence < n /\ r.start < U
  BY <1>10, <1>11, <1>12
<1> QED
  BY <1>13 DEF Straight, left, U

LEMMA SoundPart ==
  ASSUME NEW set, Sound(set), NEW part \in SUBSET set
  PROVE  Sound(part)
BY FS_Subset DEF Sound

----------------------------------------------------------------------------
(* What validate() finds in such a capture.                                *)

LEMMA StraightIsTiled ==
  ASSUME Sound(rows), NEW c \in 0 .. Channels - 1, Straight(rows, declared, c),
         NEW r \in OnChannel(rows, c)
  PROVE  r.frames > 0 /\ r.start = Expected(r)
<1> DEFINE R == OnChannel(rows, c)
           n == r.sequence
<1>1. PICK e, k : Run(R, e, k) /\ \A q \in R : q.sequence < k
  BY DEF Straight
<1>2. Line(R) /\ r \in R
  BY ChannelIsLine
<1>3. n \in Nat /\ e[0] = 0 /\ k \in Nat /\ n < k
  BY <1>1, <1>2 DEF Line, Run
<1>4. Follows(r, e, n)
  BY <1>1, <1>2, RunRows
<1>5. Earlier(r) = First(R, n)
  BY <1>2 DEF Earlier, First, OnChannel
<1> HIDE DEF R
<1>6. CASE n = 0
  <2>1. Earlier(r) = {}
    BY <1>2, <1>5, <1>6 DEF First, Line
  <2> QED
    BY <1>3, <1>4, <1>6, <2>1 DEF Expected, Follows
<1>7. CASE n # 0
  <2>1. n - 1 \in 0 .. k - 1 /\ (n - 1) + 1 = n
    BY <1>3, <1>7
  <2>2. PICK q \in R : Follows(q, e, n - 1)
    BY <1>1, <2>1 DEF Run
  <2>3. q.sequence = n - 1 /\ q.frames > 0 /\ q.start = e[n - 1] /\ e[n] = e[n - 1] + q.frames
    BY <2>1, <2>2 DEF Follows
  <2>4. q \in Earlier(r) /\ \A p \in Earlier(r) : p.sequence <= q.sequence
    <3>1. \A p \in R : p.sequence \in Nat
      BY <1>2 DEF Line
    <3>2. n - 1 < n /\ \A m \in Nat : m < n => m <= n - 1
      BY <1>3
    <3> QED
      BY <1>5, <2>3, <3>1, <3>2 DEF First
  <2> DEFINE before == CHOOSE b \in Earlier(r) : \A p \in Earlier(r) : p.sequence <= b.sequence
  <2>5. before \in Earlier(r) /\ \A p \in Earlier(r) : p.sequence <= before.sequence
    BY <2>4
  <2>6. Expected(r) = before.start + NotNegative(before.frames)
    BY <2>4 DEF Expected
  <2> HIDE DEF before
  <2>7. before = q
    <3>1. before \in R /\ before.sequence <= q.sequence /\ q.sequence <= before.sequence
      BY <1>5, <2>4, <2>5 DEF First
    <3>2. before.sequence = q.sequence
      BY <1>2, <3>1 DEF Line
    <3> QED
      BY <1>2, <3>1, <3>2 DEF Line
  <2>8. NotNegative(q.frames) = q.frames
    BY <1>2, <2>3 DEF NotNegative, Line
  <2> QED
    BY <1>4, <2>3, <2>6, <2>7, <2>8 DEF Follows
<1> QED
  BY <1>4, <1>6, <1>7 DEF Follows

LEMMA StraightIsWhole ==
  ASSUME Sound(rows), NEW c \in 0 .. Channels - 1, Straight(rows, declared, c),
         declared \in Nat, declared > 0, Straddling = {}
  PROVE  c \in Found /\ FramesOn(c) = declared
<1> DEFINE R == OnChannel(rows, c)
<1>1. PICK e, k : /\ Run(R, e, k) /\ e[k] >= declared
                  /\ \A r \in R : r.sequence < k /\ r.start < declared
  BY DEF Straight
<1>2. Line(R) /\ R \in SUBSET rows
  BY ChannelIsLine DEF OnChannel
<1>3. k \in Nat /\ k \in 0 .. k /\ e \in [0 .. k -> Nat] /\ e[0] = 0
  BY <1>1 DEF Run
<1>4. k # 0
  BY <1>1, <1>3
<1>5. k - 1 \in 0 .. k - 1 /\ (k - 1) + 1 = k
  BY <1>3, <1>4
<1>6. PICK r \in R : Follows(r, e, k - 1)
  BY <1>1, <1>5 DEF Run
<1>7. c \in Found
  BY <1>6 DEF Found, OnChannel
<1>8. e[k] = declared
  <2>1. r \in rows /\ r.start < declared /\ e[k] = r.start + r.frames
    BY <1>1, <1>2, <1>5, <1>6 DEF Follows
  <2>2. ~ (e[k] > declared)
    BY <2>1 DEF Straddling
  <2>3. e[k] \in Nat
    BY <1>3
  <2> QED
    BY <1>1, <2>2, <2>3
<1>9. FramesOn(c) = e[k]
  <2>1. {q \in rows : q.channel = c} = First(R, k)
    BY <1>1 DEF First, OnChannel
  <2>2. FramesIn(First(R, k)) = e[k]
    BY <1>1, <1>2, <1>3, RunFrames
  <2> QED
    BY <2>1, <2>2 DEF FramesOn
<1> QED
  BY <1>7, <1>8, <1>9

LEMMA NothingIsFound ==
  ASSUME Sound(rows), declared \in Nat, \A c \in 0 .. Channels - 1 : Straight(rows, declared, c),
         Straddling = {}
  PROVE  Findings = {}
<1>1. ASSUME NEW r \in rows
      PROVE  /\ r.frames > 0 /\ r.frames \in Int /\ r.start = Expected(r)
             /\ r.start \in Nat /\ r.start < declared
             /\ r.channel \in 0 .. Channels - 1
  <2>1. /\ r.channel \in 0 .. Channels - 1 /\ r \in OnChannel(rows, r.channel)
        /\ r.frames \in Int /\ r.start \in Nat
    BY DEF Sound, OnChannel
  <2>2. Straight(rows, declared, r.channel)
    BY <2>1
  <2>3. r.start < declared
    BY <2>1, <2>2 DEF Straight
  <2> QED
    BY <2>1, <2>2, <2>3, StraightIsTiled
<1>2. TimelineFindings = {}
  <2>1. \A r \in rows : r.start = Expected(r) /\ ~ (r.frames <= 0)
    BY <1>1
  <2> QED
    BY <2>1 DEF TimelineFindings
<1>3. CoverageFindings = {}
  <2>1. CASE rows = {}
    BY <2>1 DEF CoverageFindings
  <2>2. CASE rows # {}
    <3>1. declared > 0
      BY <1>1, <2>2
    <3>2. \A c \in 0 .. Channels - 1 : c \in Found /\ FramesOn(c) = declared
      BY <3>1, StraightIsWhole
    <3>3. Found = 0 .. Channels - 1
      BY <1>1, <3>2 DEF Found
    <3>4. Cardinality(Found) = Channels
      BY <3>3, FS_Interval, DamagedAssumption
    <3> DEFINE held == {FramesOn(c) : c \in Found}
    <3>5. held = {declared}
      <4>1. 0 \in Found
        BY <3>3, DamagedAssumption
      <4> QED
        BY <3>2, <3>3, <4>1
    <3>6. CoverageFindings
            = {f \in {"missing-channel", "ragged-channels", "frame-count-mismatch"} :
                 \/ f = "missing-channel" /\ Cardinality(Found) # Channels
                 \/ f = "ragged-channels" /\ Cardinality(held) # 1
                 \/ f = "frame-count-mismatch" /\ declared # Min(held)}
      BY <2>2 DEF CoverageFindings
    <3> HIDE DEF held
    <3>7. Cardinality(held) = 1 /\ Min(held) = declared
      <4>1. Cardinality(held) = 1
        BY <3>5, FS_Singleton
      <4>2. Min(held) = declared
        BY <3>5, LeastIs
      <4> QED
        BY <4>1, <4>2
    <3> QED
      BY <3>4, <3>6, <3>7
  <2> QED
    BY <2>1, <2>2
<1> QED
  BY <1>2, <1>3 DEF Findings

----------------------------------------------------------------------------
(***************************************************************************)
(* The inductive invariant: the rows are what the table allows, whatever   *)
(* the damage; and once recovery has closed the capture, every channel is  *)
(* one run of blocks that reaches the length the row declares.             *)
(***************************************************************************)
RowsInv == Sound(rows) /\ declared \in Nat /\ finished \in BOOLEAN

ClosedInv == finished => \A c \in 0 .. Channels - 1 : Straight(rows, declared, c)

DamagedInv == RowsInv /\ ClosedInv

LEMMA WrittenIsSound ==
  ASSUME NEW n \in 0 .. Blocks, NEW lengths \in [1 .. n -> 1 .. BlockFrames]
  PROVE  Sound(WrittenRows(lengths)) /\ Start(lengths, n + 1) \in Nat
<1> DEFINE P == (0 .. Channels - 1) \X (1 .. n)
           Row(c, i) == [channel |-> c, sequence |-> i - 1, start |-> Start(lengths, i),
                         frames |-> lengths[i]]
           row == [p \in P |-> Row(p[1], p[2])]
           W == WrittenRows(lengths)
<1>1. n \in Nat /\ n <= Blocks /\ Blocks \in Nat /\ Channels \in Nat /\ BlockFrames \in Nat
  BY DamagedAssumption
<1>2. \A i \in 1 .. n : lengths[i] \in Nat
  BY <1>1
<1>3. \A i \in 1 .. n + 1 : Start(lengths, i) \in Nat
  BY <1>1, <1>2, StartGrows
<1>4. W = {Row(c, i) : c \in 0 .. Channels - 1, i \in 1 .. n}
  BY DEF WrittenRows
<1> HIDE DEF W
<1>5. IsFiniteSet(W)
  <2>1. IsFiniteSet(P)
    <3>1. IsFiniteSet(0 .. Channels - 1) /\ IsFiniteSet(1 .. n)
      BY <1>1, FS_Interval
    <3> QED
      BY <3>1, FS_Product
  <2>2. \A c \in 0 .. Channels - 1, i \in 1 .. n : <<c, i>> \in P /\ row[<<c, i>>] = Row(c, i)
    OBVIOUS
  <2>3. \A p \in P : row[p] \in W
    <3>1. \A p \in P : p[1] \in 0 .. Channels - 1 /\ p[2] \in 1 .. n /\ row[p] = Row(p[1], p[2])
      OBVIOUS
    <3> HIDE DEF P, Row, row
    <3> QED
      BY <1>4, <3>1
  <2>4. DOMAIN row = P /\ row = [p \in P |-> row[p]]
    OBVIOUS
  <2> HIDE DEF P, Row, row
  <2>5. row \in [P -> W]
    BY <2>3, <2>4
  <2>6. ASSUME NEW r \in W
        PROVE  \E p \in P : row[p] = r
    <3>1. PICK c \in 0 .. Channels - 1, i \in 1 .. n : r = Row(c, i)
      BY <1>4
    <3>2. <<c, i>> \in P /\ row[<<c, i>>] = r
      BY <2>2, <3>1
    <3> QED
      BY <3>2
  <2>7. row \in Surjection(P, W)
    BY <2>5, <2>6 DEF Surjection
  <2> QED
    BY <2>1, <2>7, FS_Surjection
<1>6. ASSUME NEW c \in 0 .. Channels - 1, NEW i \in 1 .. n
      PROVE  Row(c, i) \in [channel : 0 .. Channels - 1, sequence : 0 .. Blocks - 1,
                            start : Nat, frames : Int]
  <2>1. i - 1 \in 0 .. Blocks - 1
    BY <1>1
  <2>2. Start(lengths, i) \in Nat /\ lengths[i] \in Int
    BY <1>1, <1>2, <1>3
  <2> QED
    BY <2>1, <2>2
<1>7. ASSUME NEW c \in 0 .. Channels - 1, NEW i \in 1 .. n,
             NEW d \in 0 .. Channels - 1, NEW j \in 1 .. n,
             Row(c, i).channel = Row(d, j).channel, Row(c, i).sequence = Row(d, j).sequence
      PROVE  Row(c, i) = Row(d, j)
  <2>1. c = d /\ i - 1 = j - 1
    BY <1>7
  <2>2. i = j
    BY <2>1
  <2> QED
    BY <2>1, <2>2
<1> HIDE DEF Row
<1>8. W \subseteq [channel : 0 .. Channels - 1, sequence : 0 .. Blocks - 1,
                   start : Nat, frames : Int]
  BY <1>4, <1>6
<1>9. \A q, r \in W : q.channel = r.channel /\ q.sequence = r.sequence => q = r
  BY <1>4, <1>7
<1>10. n + 1 \in 1 .. n + 1
  BY <1>1
<1> QED
  BY <1>3, <1>5, <1>8, <1>9, <1>10 DEF Sound, W

LEMMA ReplacedIsSound ==
  ASSUME NEW set, Sound(set), NEW r \in set, NEW q,
         q \in [channel : 0 .. Channels - 1, sequence : 0 .. Blocks - 1, start : Nat, frames : Int],
         q.channel = r.channel, q.sequence = r.sequence
  PROVE  Sound((set \ {r}) \cup {q})
<1>1. IsFiniteSet((set \ {r}) \cup {q})
  BY FS_RemoveElement, FS_AddElement DEF Sound
<1> QED
  BY <1>1 DEF Sound

LEMMA DamagedStart ==
  ASSUME Init
  PROVE  DamagedInv
<1>1. PICK n \in 0 .. Blocks : \E lengths \in [1 .. n -> 1 .. BlockFrames] :
        rows = WrittenRows(lengths) /\ declared = Start(lengths, n + 1) /\ finished = FALSE
  BY DEF Init
<1>2. PICK lengths \in [1 .. n -> 1 .. BlockFrames] :
        rows = WrittenRows(lengths) /\ declared = Start(lengths, n + 1) /\ finished = FALSE
  BY <1>1
<1> QED
  BY <1>2, WrittenIsSound DEF DamagedInv, RowsInv, ClosedInv

LEMMA DamageKeepsSound ==
  ASSUME Sound(rows), Damage
  PROVE  Sound(rows') /\ ~ finished /\ UNCHANGED <<declared, finished>>
<1>1. PICK r \in rows :
        \/ Replace(r, {})
        \/ Replace(r, {[r EXCEPT !.start = @ + 1]})
        \/ Replace(r, {[r EXCEPT !.frames = @ - 1]})
  BY DEF Damage
<1> DEFINE Types == [channel : 0 .. Channels - 1, sequence : 0 .. Blocks - 1,
                     start : Nat, frames : Int]
           moved == [r EXCEPT !.start = @ + 1]
           cut == [r EXCEPT !.frames = @ - 1]
<1>2. r \in Types
  BY DEF Sound
<1>3. moved \in Types /\ moved.channel = r.channel /\ moved.sequence = r.sequence
  BY <1>2
<1>4. cut \in Types /\ cut.channel = r.channel /\ cut.sequence = r.sequence
  BY <1>2
<1>5. ~ finished /\ UNCHANGED <<declared, finished>>
  BY <1>1 DEF Replace
<1>6. \/ rows' = rows \ {r} \/ rows' = (rows \ {r}) \cup {moved}
      \/ rows' = (rows \ {r}) \cup {cut}
  BY <1>1 DEF Replace
<1> HIDE DEF moved, cut
<1>7. Sound(rows \ {r}) /\ Sound((rows \ {r}) \cup {moved}) /\ Sound((rows \ {r}) \cup {cut})
  BY <1>3, <1>4, SoundPart, ReplacedIsSound
<1> QED
  BY <1>5, <1>6, <1>7

\* Both plans leave the rows that are not surplus.
LEMMA RecoveryLeaves ==
  ASSUME RecoverCommit \/ RecoverRepair
  PROVE  /\ rows' = rows \ Surplus(rows, Channels)
         /\ declared' = Usable(rows, Channels)
         /\ finished' = TRUE
BY DEF RecoverCommit, RecoverRepair, CloseRecovered

LEMMA DamagedStep ==
  ASSUME DamagedInv, [Next]_vars
  PROVE  DamagedInv'
<1>1. CASE Damage
  <2>1. Sound(rows') /\ ~ finished /\ UNCHANGED <<declared, finished>>
    BY <1>1, DamageKeepsSound DEF DamagedInv, RowsInv
  <2> QED
    BY <2>1 DEF DamagedInv, RowsInv, ClosedInv, Sound
<1>2. CASE RecoverCommit \/ RecoverRepair
  <2> DEFINE left == rows \ Surplus(rows, Channels)
             end == Usable(rows, Channels)
  <2>1. rows' = left /\ declared' = end /\ finished' = TRUE
    BY <1>2, RecoveryLeaves
  <2>2. Sound(rows)
    BY DEF DamagedInv, RowsInv
  <2>3. Sound(left) /\ end \in Nat
    BY <2>2, SoundPart, UsableIsLeast
  <2>4. \A c \in 0 .. Channels - 1 : Straight(left, end, c)
    BY <2>2, LeftIsStraight
  <2> HIDE DEF left, end
  <2>5. RowsInv'
    BY <2>1, <2>3 DEF RowsInv, Sound
  <2>6. ClosedInv'
    BY <2>1, <2>4 DEF ClosedInv, Straight, OnChannel, Run, Follows
  <2> QED
    BY <2>5, <2>6 DEF DamagedInv
<1>3. CASE Rest \/ UNCHANGED vars
  <2>1. UNCHANGED <<rows, declared, finished>>
    BY <1>3 DEF Rest, vars
  <2> QED
    BY <2>1 DEF DamagedInv, RowsInv, ClosedInv, Sound, Straight, OnChannel, Run, Follows
<1> QED
  BY <1>1, <1>2, <1>3 DEF Next

(***************************************************************************)
(* Whatever is lost, moved or miscounted, the rows stay what the table     *)
(* allows, and a closed capture is one unbroken run on every channel.      *)
(***************************************************************************)
THEOREM DamagedStaysSound == Spec => []DamagedInv
<1>1. Init => DamagedInv
  BY DamagedStart
<1>2. DamagedInv /\ [Next]_vars => DamagedInv'
  BY DamagedStep
<1> QED
  BY <1>1, <1>2, PTL DEF Spec

(***************************************************************************)
(* recovery.rs, walk() and assess_record(): the length recovery writes is  *)
(* the longest that every channel holds without a break, for any number of *)
(* channels, of blocks and of damaged rows.                                *)
(***************************************************************************)
THEOREM WalkMeasuresRuns == Spec => []WalkMeasures
<1>1. DamagedInv => WalkMeasures
  <2> SUFFICES ASSUME DamagedInv
               PROVE  WalkMeasures
    OBVIOUS
  <2>1. \A c \in 0 .. Channels - 1 : Reach(c) = Walk(rows, c).frame
    BY ReachIsWalk DEF DamagedInv, RowsInv
  <2>2. {Reach(c) : c \in 0 .. Channels - 1} = {Walk(rows, c).frame : c \in 0 .. Channels - 1}
    BY <2>1
  <2>3. Channels # 0
    BY DamagedAssumption
  <2> QED
    BY <2>2, <2>3 DEF WalkMeasures, Usable
<1> QED
  BY <1>1, DamagedStaysSound, PTL

(***************************************************************************)
(* recovery.rs and validate.rs agree: a capture recovery has closed has no *)
(* finding of the timeline or of the coverage, unless a block was cut to   *)
(* lie across the agreed end.                                              *)
(***************************************************************************)
THEOREM RecoveryValidates == Spec => []RecoveredValidates
<1>1. DamagedInv => RecoveredValidates
  BY NothingIsFound DEF DamagedInv, RowsInv, ClosedInv, RecoveredValidates
<1> QED
  BY <1>1, DamagedStaysSound, PTL

(***************************************************************************)
(* recover() under Plan::Repair deletes only what lies past the agreed     *)
(* end: in the step that closes the capture, every agreed frame of every   *)
(* channel stays in some block.                                            *)
(***************************************************************************)
THEOREM RecoveryKeepsAudio == Spec => AgreedAudioKept
<1> DEFINE Kept == finished' =>
                     \A c \in 0 .. Channels - 1, f \in 0 .. Usable(rows, Channels) - 1 :
                       \E r \in rows' : Covers(r, c, f)
<1>1. ASSUME DamagedInv, [Next]_vars
      PROVE  [Kept]_vars
  <2>1. CASE Damage
    <3>1. ~ finished /\ finished' = finished
      BY <1>1, <2>1, DamageKeepsSound DEF DamagedInv, RowsInv
    <3> QED
      BY <3>1
  <2>2. CASE RecoverCommit \/ RecoverRepair
    <3> DEFINE left == rows \ Surplus(rows, Channels)
               end == Usable(rows, Channels)
    <3>1. rows' = left
      BY <2>2, RecoveryLeaves
    <3>2. Sound(rows)
      BY <1>1 DEF DamagedInv, RowsInv
    <3>3. Sound(left) /\ end \in Nat
      BY <3>2, SoundPart, UsableIsLeast
    <3>4. ASSUME NEW c \in 0 .. Channels - 1, NEW f \in 0 .. end - 1
          PROVE  \E r \in left : Covers(r, c, f)
      <4>1. Straight(left, end, c)
        BY <3>2, LeftIsStraight
      <4> HIDE DEF left, end
      <4>2. PICK e, k : Run(OnChannel(left, c), e, k) /\ e[k] >= end
        BY <4>1 DEF Straight
      <4>3. Line(OnChannel(left, c))
        BY <3>3, ChannelIsLine
      <4>4. f \in Nat /\ f < e[k]
        <5>1. e[k] \in Nat
          BY <4>2 DEF Run
        <5> QED
          BY <3>3, <4>2, <5>1
      <4>5. PICK r \in OnChannel(left, c) : r.start <= f /\ f < r.start + r.frames
        BY <4>2, <4>3, <4>4, RunCovers
      <4> QED
        BY <4>5 DEF Covers, OnChannel
    <3> QED
      BY <3>1, <3>4
  <2>3. CASE Rest \/ UNCHANGED vars
    BY <2>3 DEF Rest
  <2> QED
    BY <1>1, <2>1, <2>2, <2>3 DEF Next
<1>2. [][Kept]_vars => AgreedAudioKept
  BY DEF AgreedAudioKept
<1> QED
  BY <1>1, <1>2, DamagedStaysSound, PTL DEF Spec

=============================================================================
