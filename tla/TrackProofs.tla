----------------------------- MODULE TrackProofs -----------------------------
(***************************************************************************)
(* Proofs about the edit model, for any sides and captures, any rows to    *)
(* start with that are sound, and any reports of the detectors.            *)
(*                                                                         *)
(* The rows stay sound because of what is known of the statements still to *)
(* come: a row to be put is there under its id or nowhere, two of them are *)
(* never for one place, what an insertion names is there or is put before, *)
(* and nothing is named once a statement may take a boundary away (Ready). *)
(* For an adoption the first of these rests on the resolver, which gives   *)
(* one decision for a place.                                               *)
(*                                                                         *)
(* The tracks keep their order because a side is in order or a renumbering *)
(* of it is still to come (NumberInv), and their audio because of where    *)
(* each verb stands: a split is still whole, in two or done, a merge has   *)
(* still to delete, still to extend or is done (WayInv).                   *)
(***************************************************************************)
EXTENDS TrackEdits, TLAPS, FiniteSetTheorems, SequenceTheorems, WellFoundedInduction

LEMMA LeastNatural ==
  ASSUME NEW S, S \subseteq Nat, S # {}
  PROVE  \E x \in S : \A y \in S : x <= y
<1> DEFINE R == {ss \in Nat \X Nat : ss[1] < ss[2]}
<1>1. IsWellFoundedOn(R, Nat)
  BY NatLessThanWellFounded DEF OpToRel
<1>2. \A a, b \in Nat : a < b => <<a, b>> \in R
  OBVIOUS
<1> HIDE DEF R
<1>3. PICK x \in S : \A y \in S : ~ (<<y, x>> \in R)
  BY <1>1, WFMin
<1>4. ASSUME NEW y \in S
      PROVE  x <= y
  <2>1. x \in Nat /\ y \in Nat /\ ~ (y < x)
    BY <1>2, <1>3, <1>4
  <2> QED
    BY <2>1
<1> QED
  BY <1>4

LEMMA MinIsLeast ==
  ASSUME NEW S, S \subseteq Nat, S # {}
  PROVE  Min(S) \in S /\ \A y \in S : Min(S) <= y
BY LeastNatural DEF Min

LEMMA MaxIsGreatest ==
  ASSUME NEW S, S \subseteq Nat, S # {}, NEW m \in Nat, \A x \in S : x <= m
  PROVE  Max(S) \in S /\ \A y \in S : y <= Max(S)
<1> DEFINE T == {n \in Nat : \A x \in S : x <= n}
<1>1. PICK n \in T : \A k \in T : n <= k
  <2>1. T \subseteq Nat /\ T # {}
    OBVIOUS
  <2> HIDE DEF T
  <2> QED
    BY <2>1, LeastNatural
<1>2. n \in S
  <2>1. CASE n = 0
    <3>1. PICK x \in S : TRUE
      OBVIOUS
    <3>2. x \in Nat /\ x <= 0
      BY <1>1, <2>1
    <3> QED
      BY <2>1, <3>2
  <2>2. CASE n # 0
    <3>1. n - 1 \in Nat /\ n - 1 \notin T
      BY <1>1, <2>2
    <3>2. PICK x \in S : ~ (x <= n - 1)
      BY <3>1
    <3>3. x <= n /\ x \in Nat
      BY <1>1
    <3>4. x = n
      BY <3>1, <3>2, <3>3
    <3> QED
      BY <3>4
  <2> QED
    BY <2>1, <2>2
<1>3. \A y \in S : n >= y
  BY <1>1
<1> QED
  BY <1>2, <1>3 DEF Max

(***************************************************************************)
(* A set in order.                                                         *)
(***************************************************************************)
Orders(prior, S) ==
  /\ \A x \in S : <<x, x>> \notin prior
  /\ \A x, y \in S : x # y => <<x, y>> \in prior \/ <<y, x>> \in prior
  /\ \A x, y, z \in S : <<x, y>> \in prior /\ <<y, z>> \in prior => <<x, z>> \in prior

Below(S, prior, x) == {y \in S : <<y, x>> \in prior}

LEMMA RankRange ==
  ASSUME NEW S, IsFiniteSet(S), NEW prior, Orders(prior, S), NEW x \in S
  PROVE  /\ IsFiniteSet(Below(S, prior, x))
         /\ Cardinality(Below(S, prior, x)) \in 0 .. Cardinality(S) - 1
<1>1. Below(S, prior, x) \subseteq S \ {x}
  BY DEF Below, Orders
<1>2. IsFiniteSet(S \ {x}) /\ Cardinality(S \ {x}) = Cardinality(S) - 1
  BY FS_RemoveElement
<1>3. /\ IsFiniteSet(Below(S, prior, x))
      /\ Cardinality(Below(S, prior, x)) <= Cardinality(S) - 1
  BY <1>1, <1>2, FS_Subset
<1>4. Cardinality(S) \in Nat /\ Cardinality(Below(S, prior, x)) \in Nat
  BY <1>3, FS_CardinalityType
<1> QED
  BY <1>3, <1>4

LEMMA RankGrows ==
  ASSUME NEW S, IsFiniteSet(S), NEW prior, Orders(prior, S),
         NEW x \in S, NEW y \in S, <<x, y>> \in prior
  PROVE  Cardinality(Below(S, prior, x)) < Cardinality(Below(S, prior, y))
<1> DEFINE A == Below(S, prior, x)
           B == Below(S, prior, y)
<1>1. A \cup {x} \subseteq B /\ x \notin A
  BY DEF Below, Orders
<1>2. /\ IsFiniteSet(A) /\ IsFiniteSet(B)
      /\ Cardinality(A) \in Nat /\ Cardinality(B) \in Nat
  BY RankRange, FS_CardinalityType
<1> HIDE DEF A, B
<1>3. Cardinality(A \cup {x}) = Cardinality(A) + 1
  BY <1>1, <1>2, FS_AddElement
<1>4. Cardinality(A \cup {x}) <= Cardinality(B)
  BY <1>1, <1>2, FS_Subset
<1>5. Cardinality(A) < Cardinality(B)
  BY <1>2, <1>3, <1>4
<1> QED
  BY <1>5 DEF A, B

(***************************************************************************)
(* Each rank is taken once.                                                *)
(***************************************************************************)
LEMMA RankTaken ==
  ASSUME NEW S, IsFiniteSet(S), NEW prior, Orders(prior, S),
         NEW i \in 1 .. Cardinality(S)
  PROVE  /\ \E x \in S : Cardinality(Below(S, prior, x)) = i - 1
         /\ \A x, y \in S : Cardinality(Below(S, prior, x)) = Cardinality(Below(S, prior, y))
                               => x = y
<1> DEFINE n == Cardinality(S)
           f == [x \in S |-> Cardinality(Below(S, prior, x)) + 1]
<1>1. n \in Nat
  BY FS_CardinalityType
<1>2. IsFiniteSet(1 .. n) /\ Cardinality(1 .. n) = n
  BY <1>1, FS_Interval
<1>3. ASSUME NEW x \in S, NEW y \in S,
             Cardinality(Below(S, prior, x)) = Cardinality(Below(S, prior, y))
      PROVE  x = y
  <2>1. /\ Cardinality(Below(S, prior, x)) \in Nat
        /\ Cardinality(Below(S, prior, y)) \in Nat
    BY RankRange, FS_CardinalityType
  <2>2. CASE x # y
    <3>1. <<x, y>> \in prior \/ <<y, x>> \in prior
      BY <2>2 DEF Orders
    <3>2. \/ Cardinality(Below(S, prior, x)) < Cardinality(Below(S, prior, y))
          \/ Cardinality(Below(S, prior, y)) < Cardinality(Below(S, prior, x))
      BY <3>1, RankGrows
    <3> QED
      BY <1>3, <2>1, <3>2
  <2> QED
    BY <2>2
<1>4. \A x \in S : f[x] \in 1 .. n
  <2> TAKE x \in S
  <2>1. Cardinality(Below(S, prior, x)) \in 0 .. n - 1
    BY RankRange
  <2> QED
    BY <1>1, <2>1
<1>5. f \in [S -> 1 .. n]
  BY <1>4
<1>6. \A x, y \in S : f[x] = f[y] => x = y
  <2> TAKE x, y \in S
  <2>1. /\ Cardinality(Below(S, prior, x)) \in Nat
        /\ Cardinality(Below(S, prior, y)) \in Nat
    BY RankRange, FS_CardinalityType
  <2> QED
    BY <1>3, <2>1
<1> HIDE DEF f
<1>7. f \in Injection(S, 1 .. n)
  BY <1>5, <1>6 DEF Injection, IsInjective
<1>8. f \in Surjection(S, 1 .. n)
  <2>1. Cardinality(S) = Cardinality(1 .. n)
    BY <1>2
  <2> HIDE DEF n
  <2> QED
    BY <1>2, <1>7, <2>1, FS_Injection
<1>9. PICK x \in S : f[x] = i
  BY <1>8 DEF Surjection
<1>10. Cardinality(Below(S, prior, x)) \in Nat
  BY RankRange, FS_CardinalityType
<1>11. Cardinality(Below(S, prior, x)) = i - 1
  BY <1>9, <1>10 DEF f
<1> QED
  BY <1>3, <1>11

LEMMA Listed ==
  ASSUME NEW S, IsFiniteSet(S), NEW prior, Orders(prior, S)
  PROVE  LET list == InOrder(S, prior)
         IN  /\ list \in Seq(S) /\ Len(list) = Cardinality(S)
             /\ \A x \in S : \E i \in 1 .. Len(list) : list[i] = x
             /\ \A i, j \in 1 .. Len(list) : i < j => <<list[i], list[j]>> \in prior
             /\ \A i, j \in 1 .. Len(list) : list[i] = list[j] => i = j
<1> DEFINE n == Cardinality(S)
           g == [i \in 1 .. n |->
                   CHOOSE x \in S : Cardinality({y \in S : <<y, x>> \in prior}) = i - 1]
<1>1. n \in Nat
  BY FS_CardinalityType
<1>2. ASSUME NEW i \in 1 .. n
      PROVE  g[i] \in S /\ Cardinality(Below(S, prior, g[i])) = i - 1
  <2>1. \E x \in S : Cardinality({y \in S : <<y, x>> \in prior}) = i - 1
    BY RankTaken DEF Below
  <2> QED
    BY <2>1 DEF Below
<1>3. g \in [1 .. n -> S]
  BY <1>2
<1>4. DOMAIN g = 1 .. n
  OBVIOUS
<1>5. InOrder(S, prior) = <<>> \o g
  BY DEF InOrder
<1> HIDE DEF g
<1>6. g \in Seq(S) /\ Len(g) = n
  BY <1>1, <1>3, <1>4
<1>7. InOrder(S, prior) = g
  BY <1>5, <1>6, ConcatEmptySeq
<1>8. ASSUME NEW x \in S
      PROVE  \E i \in 1 .. n : g[i] = x
  <2>1. Cardinality(Below(S, prior, x)) \in 0 .. n - 1
    BY RankRange
  <2>2. PICK i \in 1 .. n : i - 1 = Cardinality(Below(S, prior, x))
    <3>1. Cardinality(Below(S, prior, x)) + 1 \in 1 .. n
      BY <1>1, <2>1
    <3> QED
      BY <2>1, <3>1
  <2>3. Cardinality(Below(S, prior, g[i])) = Cardinality(Below(S, prior, x)) /\ g[i] \in S
    BY <1>2, <2>2
  <2>4. g[i] = x
    BY <2>3, RankTaken
  <2> QED
    BY <2>4
<1>9. ASSUME NEW i \in 1 .. n, NEW j \in 1 .. n, g[i] = g[j]
      PROVE  i = j
  <2>1. i - 1 = j - 1
    BY <1>2, <1>9
  <2> QED
    BY <2>1
<1>10. ASSUME NEW i \in 1 .. n, NEW j \in 1 .. n, i < j
       PROVE  <<g[i], g[j]>> \in prior
  <2>1. g[i] # g[j] /\ g[i] \in S /\ g[j] \in S
    BY <1>2, <1>9, <1>10
  <2>2. CASE <<g[j], g[i]>> \in prior
    <3>1. Cardinality(Below(S, prior, g[j])) < Cardinality(Below(S, prior, g[i]))
      BY <2>1, <2>2, RankGrows
    <3>2. j - 1 < i - 1
      BY <1>2, <3>1
    <3> QED
      BY <1>10, <3>2
  <2> QED
    BY <2>1, <2>2 DEF Orders
<1> QED
  BY <1>6, <1>7, <1>8, <1>9, <1>10

LEMMA FiniteIsBounded ==
  ASSUME NEW S, S \subseteq Nat, IsFiniteSet(S)
  PROVE  \E m \in Nat : \A x \in S : x <= m
<1> DEFINE Bounds(T) == \E m \in Nat : \A x \in T : x <= m
           K == {k \in Nat : \E T \in SUBSET Nat :
                    IsFiniteSet(T) /\ Cardinality(T) = k /\ ~ Bounds(T)}
<1>1. SUFFICES ASSUME ~ Bounds(S) PROVE FALSE
  OBVIOUS
<1>2. K \subseteq Nat /\ K # {}
  BY <1>1, FS_CardinalityType
<1>3. PICK k \in K : \A j \in K : k <= j
  <2> HIDE DEF K
  <2> QED
    BY <1>2, LeastNatural
<1>4. PICK T \in SUBSET Nat : IsFiniteSet(T) /\ Cardinality(T) = k /\ ~ Bounds(T)
  BY <1>3
<1>5. PICK x \in T : TRUE
  BY <1>4
<1>6. IsFiniteSet(T \ {x}) /\ Cardinality(T \ {x}) = k - 1
  BY <1>4, FS_RemoveElement
<1>7. k - 1 \in Nat
  BY <1>6, FS_CardinalityType
<1>8. Bounds(T \ {x})
  <2>1. k - 1 \notin K
    BY <1>3, <1>7
  <2> QED
    BY <1>6, <1>7, <2>1
<1>9. PICK m \in Nat : \A y \in T \ {x} : y <= m
  BY <1>8
<1>10. x + m \in Nat /\ \A y \in T : y <= x + m
  BY <1>4, <1>9
<1> QED
  BY <1>4, <1>10

LEMMA AscendingOrders ==
  ASSUME NEW S, S \subseteq Nat
  PROVE  Orders(Ascending(S), S)
BY DEF Orders, Ascending

Placed(D) ==
  /\ \A d \in D : d.at \in Nat /\ d.edge \in Edges
  /\ \A d, e \in D : d.at = e.at /\ d.edge = e.edge => d = e

LEMMA DecisionsOrder ==
  ASSUME NEW D, Placed(D)
  PROVE  Orders(DecisionOrder(D), D)
<1>1. \A x, y \in D : <<x, y>> \in DecisionOrder(D) <=>
          \/ x.at < y.at
          \/ x.at = y.at /\ x.edge = "start" /\ y.edge = "end"
  BY DEF DecisionOrder
<1>2. \A x \in D : x.at \in Nat /\ (x.edge = "start" \/ x.edge = "end")
  BY DEF Placed, Edges
<1>3. \A x \in D : <<x, x>> \notin DecisionOrder(D)
  BY <1>1, <1>2
<1>4. ASSUME NEW x \in D, NEW y \in D, x # y
      PROVE  <<x, y>> \in DecisionOrder(D) \/ <<y, x>> \in DecisionOrder(D)
  <2>1. x.at # y.at \/ x.edge # y.edge
    BY <1>4 DEF Placed
  <2> QED
    BY <1>1, <1>2, <2>1
<1>5. ASSUME NEW x \in D, NEW y \in D, NEW z \in D,
             <<x, y>> \in DecisionOrder(D), <<y, z>> \in DecisionOrder(D)
      PROVE  <<x, z>> \in DecisionOrder(D)
  BY <1>1, <1>2, <1>5
<1> QED
  BY <1>3, <1>4, <1>5 DEF Orders

LEMMA RowsTyped ==
  ASSUME NEW bs, NEW ts, RowsOK(bs, ts)
  PROVE  /\ \A b \in DOMAIN bs : /\ bs[b] \in Boundary /\ b \in BoundaryIds
                                 /\ bs[b].side \in Sides /\ bs[b].at \in Frames
                                 /\ bs[b].at \in Nat /\ bs[b].edge \in Edges
                                 /\ bs[b].locked \in BOOLEAN
         /\ \A t \in DOMAIN ts : /\ ts[t] \in Track /\ t \in TrackIds /\ t \in Nat
                                 /\ ts[t].side \in Sides
                                 /\ ts[t].start \in DOMAIN bs /\ ts[t].end \in DOMAIN bs
                                 /\ StartOf(bs, ts, t) \in Nat /\ EndOf(bs, ts, t) \in Nat
<1>1. ASSUME NEW b \in DOMAIN bs
      PROVE  /\ bs[b] \in Boundary /\ b \in BoundaryIds
             /\ bs[b].side \in Sides /\ bs[b].at \in Frames
             /\ bs[b].at \in Nat /\ bs[b].edge \in Edges
             /\ bs[b].locked \in BOOLEAN
  <2>1. bs[b] \in Boundary /\ b \in BoundaryIds
    BY DEF RowsOK
  <2> QED
    BY <2>1, TrackAssumption DEF Boundary, Frames
<1>2. ASSUME NEW t \in DOMAIN ts
      PROVE  /\ ts[t] \in Track /\ t \in TrackIds /\ t \in Nat
             /\ ts[t].side \in Sides
             /\ ts[t].start \in DOMAIN bs /\ ts[t].end \in DOMAIN bs
             /\ StartOf(bs, ts, t) \in Nat /\ EndOf(bs, ts, t) \in Nat
  <2>1. ts[t] \in Track /\ t \in TrackIds
    BY DEF RowsOK
  <2>2. ts[t].side \in Sides
    BY <2>1 DEF Track
  <2>3. ts[t].start \in DOMAIN bs /\ ts[t].end \in DOMAIN bs
    BY DEF RowsOK
  <2> QED
    BY <1>1, <2>1, <2>2, <2>3, TrackAssumption DEF StartOf, EndOf
<1> QED
  BY <1>1, <1>2

LEMMA TracksOrder ==
  ASSUME NEW bs, NEW ts, RowsOK(bs, ts), NEW S, S \subseteq DOMAIN ts
  PROVE  Orders(TrackOrder(bs, ts), S)
<1>1. \A x, y \in S : <<x, y>> \in TrackOrder(bs, ts) <=>
          \/ StartOf(bs, ts, x) < StartOf(bs, ts, y)
          \/ StartOf(bs, ts, x) = StartOf(bs, ts, y) /\ x < y
  BY DEF TrackOrder
<1>2. \A x \in S : x \in Nat /\ StartOf(bs, ts, x) \in Nat
  BY RowsTyped
<1>3. \A x \in S : <<x, x>> \notin TrackOrder(bs, ts)
  BY <1>1, <1>2
<1>4. \A x, y \in S : x # y =>
          <<x, y>> \in TrackOrder(bs, ts) \/ <<y, x>> \in TrackOrder(bs, ts)
  BY <1>1, <1>2
<1>5. \A x, y, z \in S : <<x, y>> \in TrackOrder(bs, ts) /\ <<y, z>> \in TrackOrder(bs, ts)
          => <<x, z>> \in TrackOrder(bs, ts)
  BY <1>1, <1>2
<1> QED
  BY <1>3, <1>4, <1>5 DEF Orders

LEMMA TimelineOrders ==
  ASSUME NEW bs, NEW ts, RowsOK(bs, ts), NEW S, S \subseteq DOMAIN bs,
         \A b, c \in S : bs[b].side = bs[c].side
  PROVE  Orders(TimelineOrder(bs), S)
<1>1. \A x, y \in S : <<x, y>> \in TimelineOrder(bs) <=>
          \/ bs[x].at < bs[y].at
          \/ bs[x].at = bs[y].at /\ bs[x].edge = "end" /\ bs[y].edge = "start"
  BY DEF TimelineOrder
<1>2. \A x \in S : bs[x].at \in Nat /\ (bs[x].edge = "start" \/ bs[x].edge = "end")
  BY RowsTyped DEF Edges
<1>3. \A x \in S : <<x, x>> \notin TimelineOrder(bs)
  BY <1>1, <1>2
<1>4. ASSUME NEW x \in S, NEW y \in S, x # y
      PROVE  <<x, y>> \in TimelineOrder(bs) \/ <<y, x>> \in TimelineOrder(bs)
  <2>1. bs[x].at # bs[y].at \/ bs[x].edge # bs[y].edge
    BY <1>4 DEF RowsOK, Unique, SamePlace
  <2> QED
    BY <1>1, <1>2, <2>1
<1>5. \A x, y, z \in S : <<x, y>> \in TimelineOrder(bs) /\ <<y, z>> \in TimelineOrder(bs)
          => <<x, z>> \in TimelineOrder(bs)
  BY <1>1, <1>2
<1> QED
  BY <1>3, <1>4, <1>5 DEF Orders

----------------------------------------------------------------------------
(* The resolver gives one decision for a place.                            *)

Observation == [at : Frames, edge : Edges, prov : Provenances]

LEMMA ChainsJoin ==
  ASSUME NEW ats, ats \subseteq Nat, NEW a \in Nat, NEW b \in Nat, NEW c \in Nat,
         Chained(ats, a, b), Chained(ats, b, c)
  PROVE  Chained(ats, a, c)
<1>1. ASSUME NEW p \in ats, a <= p, p < c
      PROVE  \E q \in ats : p < q /\ q <= p + Tolerance
  <2>1. CASE p < b
    BY <1>1, <2>1 DEF Chained
  <2>2. CASE b <= p
    BY <1>1, <2>2 DEF Chained
  <2> QED
    BY <2>1, <2>2
<1> QED
  BY <1>1 DEF Chained

LEMMA OwnCluster ==
  ASSUME NEW O, O \subseteq Observation, NEW o \in O
  PROVE  o \in Cluster(O, o)
<1>1. \A p \in O : p.at \in Nat
  BY TrackAssumption DEF Observation, Frames
<1>2. Chained({p.at : p \in {q \in O : q.edge = o.edge}}, o.at, o.at)
  BY <1>1 DEF Chained
<1> QED
  BY <1>2 DEF Cluster

LEMMA ClustersMeet ==
  ASSUME NEW O, O \subseteq Observation, NEW o \in O, NEW p \in O,
         NEW x \in Cluster(O, o), NEW y \in Cluster(O, p), x.at = y.at, x.edge = y.edge
  PROVE  Cluster(O, o) = Cluster(O, p)
<1> DEFINE same == {q \in O : q.edge = o.edge}
           ats  == {q.at : q \in same}
<1>1. x.edge = o.edge /\ y.edge = p.edge /\ x \in O /\ y \in O
  BY DEF Cluster
<1>2. same = {q \in O : q.edge = p.edge}
  BY <1>1
<1>3. \A q \in O : q.at \in Nat
  BY TrackAssumption DEF Observation, Frames
<1>4. ats \subseteq Nat
  BY <1>3
<1>5. /\ Cluster(O, o) = {q \in same : Chained(ats, o.at, q.at) /\ Chained(ats, q.at, o.at)}
      /\ Cluster(O, p) = {q \in same : Chained(ats, p.at, q.at) /\ Chained(ats, q.at, p.at)}
  BY <1>2 DEF Cluster
<1> HIDE DEF ats, same
<1>6. /\ Chained(ats, o.at, x.at) /\ Chained(ats, x.at, o.at)
      /\ Chained(ats, p.at, x.at) /\ Chained(ats, x.at, p.at)
  BY <1>5
<1>7. Chained(ats, o.at, p.at) /\ Chained(ats, p.at, o.at)
  <2>1. o.at \in Nat /\ p.at \in Nat /\ x.at \in Nat
    BY <1>1, <1>3
  <2> QED
    BY <1>4, <1>6, <2>1, ChainsJoin
<1>8. ASSUME NEW q \in O
      PROVE  /\ Chained(ats, o.at, q.at) <=> Chained(ats, p.at, q.at)
             /\ Chained(ats, q.at, o.at) <=> Chained(ats, q.at, p.at)
  <2>1. o.at \in Nat /\ p.at \in Nat /\ q.at \in Nat
    BY <1>3
  <2> QED
    BY <1>4, <1>7, <2>1, ChainsJoin
<1>9. same \subseteq O
  BY DEF same
<1> QED
  BY <1>5, <1>8, <1>9

LEMMA DecisionMade ==
  ASSUME NEW O, O \subseteq Observation, NEW o \in O, NEW sure,
         NEW d \in Decide(Cluster(O, o), (CHOOSE p \in Cluster(O, o) : TRUE).edge, sure)
  PROVE  /\ \E p \in Cluster(O, o) : p.at = d.at /\ p.edge = d.edge
         /\ d.prov \in Provenances /\ d.locked \in BOOLEAN
<1> DEFINE C == Cluster(O, o)
           edge == (CHOOSE p \in C : TRUE).edge
           users == {p \in C : p.prov = "user"}
<1>1. o \in C
  BY OwnCluster
<1>2. C \subseteq O /\ \A p \in C : p.edge = o.edge
  BY DEF Cluster
<1>3. edge = o.edge
  BY <1>1, <1>2
<1>4. \A p \in C : p.at \in Nat /\ p.at <= MaxFrame /\ p.prov \in Provenances
  BY <1>2, TrackAssumption DEF Observation, Frames
<1> HIDE DEF C, edge
<1>5. CASE users = {}
  <2> DEFINE ats == {p.at : p \in C}
             provs == ProvenancesOf(C)
  <2>1. d = Automatic(C, edge, sure)
    BY <1>5 DEF Decide, C, edge
  <2>2. ats \subseteq Nat /\ ats # {} /\ \A a \in ats : a <= MaxFrame
    BY <1>1, <1>4
  <2>3. Min(ats) \in ats /\ Max(ats) \in ats
    <3> HIDE DEF ats
    <3> QED
      BY <2>2, MinIsLeast, MaxIsGreatest, TrackAssumption
  <2>4. provs \subseteq Provenances /\ provs # {}
    BY <1>1, <1>4 DEF ProvenancesOf
  <2>5. /\ d.at = IF edge = "start" THEN Min(ats) ELSE Max(ats)
        /\ d.edge = edge /\ d.locked = FALSE
        /\ d.prov = IF sure \in provs THEN sure ELSE CHOOSE p \in provs : TRUE
    BY <2>1 DEF Automatic
  <2>6. d.prov \in Provenances
    BY <2>4, <2>5
  <2>7. PICK p \in C : p.at = d.at
    BY <2>3, <2>5
  <2> QED
    BY <1>2, <1>3, <2>5, <2>6, <2>7 DEF C
<1>6. CASE users # {}
  <2>1. PICK u \in users : d = Anchored(C, u)
    BY <1>6 DEF Decide, C, edge
  <2>2. d.at = u.at /\ d.edge = u.edge /\ d.prov = "user" /\ d.locked = TRUE
    BY <2>1 DEF Anchored
  <2> QED
    BY <2>2 DEF Provenances, C
<1> QED
  BY <1>5, <1>6

LEMMA OneDecision ==
  ASSUME NEW O, O \subseteq Observation, NEW sure
  PROVE  /\ Placed(Resolve(O, sure))
         /\ \A d \in Resolve(O, sure) : /\ d.at \in Frames /\ d.prov \in Provenances
                                        /\ d.locked \in BOOLEAN
<1> DEFINE Deciding(C) == Decide(C, (CHOOSE p \in C : TRUE).edge, sure)
<1>1. ASSUME NEW d \in Resolve(O, sure)
      PROVE  \E o \in O : d \in Deciding(Cluster(O, o))
  BY <1>1 DEF Resolve, Clusters
<1>2. ASSUME NEW d \in Resolve(O, sure)
      PROVE  /\ d.at \in Frames /\ d.edge \in Edges
             /\ d.prov \in Provenances /\ d.locked \in BOOLEAN
  <2>1. PICK o \in O : d \in Deciding(Cluster(O, o))
    BY <1>1
  <2>2. /\ \E p \in Cluster(O, o) : p.at = d.at /\ p.edge = d.edge
        /\ d.prov \in Provenances /\ d.locked \in BOOLEAN
    BY <2>1, DecisionMade
  <2>3. PICK p \in O : p.at = d.at /\ p.edge = d.edge
    BY <2>2 DEF Cluster
  <2> QED
    BY <2>2, <2>3 DEF Observation
<1>3. ASSUME NEW d \in Resolve(O, sure), NEW e \in Resolve(O, sure),
             d.at = e.at, d.edge = e.edge
      PROVE  d = e
  <2>1. PICK o \in O : d \in Deciding(Cluster(O, o))
    BY <1>1
  <2>2. PICK p \in O : e \in Deciding(Cluster(O, p))
    BY <1>1
  <2>3. PICK x \in Cluster(O, o) : x.at = d.at /\ x.edge = d.edge
    BY <2>1, DecisionMade
  <2>4. PICK y \in Cluster(O, p) : y.at = e.at /\ y.edge = e.edge
    BY <2>2, DecisionMade
  <2>5. Cluster(O, o) = Cluster(O, p)
    BY <1>3, <2>3, <2>4, ClustersMeet
  <2> DEFINE C == Cluster(O, o)
             users == {q \in C : q.prov = "user"}
  <2>6. CASE users = {}
    BY <2>1, <2>2, <2>5, <2>6 DEF Decide
  <2>7. CASE users # {}
    <3>1. PICK u \in users : d = Anchored(C, u)
      BY <2>1, <2>7 DEF Decide
    <3>2. PICK v \in users : e = Anchored(C, v)
      BY <2>2, <2>5, <2>7 DEF Decide
    <3>3. d.at = u.at /\ d.edge = u.edge /\ e.at = v.at /\ e.edge = v.edge
      BY <3>1, <3>2 DEF Anchored
    <3>4. u \in Observation /\ v \in Observation /\ u.prov = v.prov
      BY DEF Cluster
    <3>5. u = v
      <4>1. u = [at |-> u.at, edge |-> u.edge, prov |-> u.prov]
        BY <3>4 DEF Observation
      <4>2. v = [at |-> v.at, edge |-> v.edge, prov |-> v.prov]
        BY <3>4 DEF Observation
      <4> QED
        BY <1>3, <3>3, <3>4, <4>1, <4>2
    <3> QED
      BY <3>1, <3>2, <3>5
  <2> QED
    BY <2>6, <2>7
<1>4. \A d \in Resolve(O, sure) : d.at \in Nat
  BY <1>2, TrackAssumption DEF Frames
<1> QED
  BY <1>2, <1>3, <1>4 DEF Placed

LEMMA PlacedIsFinite ==
  ASSUME NEW D, Placed(D), \A d \in D : d.at \in Frames
  PROVE  IsFiniteSet(D)
<1> DEFINE f == [d \in D |-> <<d.at, d.edge>>]
<1>1. IsFiniteSet(Frames)
  BY FS_Interval, TrackAssumption DEF Frames
<1>2. IsFiniteSet(Edges)
  <2>1. IsFiniteSet({} \cup {"start"})
    BY FS_EmptySet, FS_AddElement
  <2>2. IsFiniteSet(({} \cup {"start"}) \cup {"end"})
    BY <2>1, FS_AddElement
  <2>3. Edges = ({} \cup {"start"}) \cup {"end"}
    BY DEF Edges
  <2> QED
    BY <2>2, <2>3
<1>3. IsFiniteSet(Frames \X Edges)
  BY <1>1, <1>2, FS_Product
<1>4. f \in [D -> Frames \X Edges]
  BY DEF Placed
<1>5. \A d, e \in D : f[d] = f[e] => d = e
  BY DEF Placed
<1> HIDE DEF f
<1>6. f \in Injection(D, Frames \X Edges)
  BY <1>4, <1>5 DEF Injection, IsInjective
<1> QED
  BY <1>3, <1>6, FS_Injection

----------------------------------------------------------------------------
(* What a statement does to the rows.                                      *)

LEMMA BoundaryChanged ==
  ASSUME NEW r \in Boundary, NEW at \in Frames, NEW side \in Sides,
         NEW prov \in Provenances, NEW locked \in BOOLEAN
  PROVE  /\ [r EXCEPT !.at = at] \in Boundary
         /\ [r EXCEPT !.side = side] \in Boundary
         /\ [r EXCEPT !.locked = locked] \in Boundary
         /\ [r EXCEPT !.prov = prov, !.locked = locked] \in Boundary
<1>1. [r EXCEPT !.at = at] \in Boundary
  BY DEF Boundary
<1>2. [r EXCEPT !.side = side] \in Boundary
  BY DEF Boundary
<1>3. [r EXCEPT !.locked = locked] \in Boundary
  BY DEF Boundary
<1>4. [r EXCEPT !.prov = prov, !.locked = locked] \in Boundary
  BY DEF Boundary
<1> QED
  BY <1>1, <1>2, <1>3, <1>4

LEMMA BoundaryFields ==
  ASSUME NEW r \in Boundary, NEW at, NEW side, NEW prov, NEW locked
  PROVE  /\ LET m == [r EXCEPT !.at = at]
            IN  /\ m.at = at /\ m.side = r.side /\ m.edge = r.edge
                /\ m.prov = r.prov /\ m.locked = r.locked
         /\ LET m == [r EXCEPT !.side = side]
            IN  /\ m.side = side /\ m.at = r.at /\ m.edge = r.edge
                /\ m.prov = r.prov /\ m.locked = r.locked
         /\ LET m == [r EXCEPT !.locked = locked]
            IN  /\ m.locked = locked /\ m.at = r.at /\ m.edge = r.edge
                /\ m.prov = r.prov /\ m.side = r.side
         /\ LET m == [r EXCEPT !.prov = prov, !.locked = locked]
            IN  /\ m.locked = locked /\ m.prov = prov
                /\ m.at = r.at /\ m.edge = r.edge /\ m.side = r.side
BY DEF Boundary

LEMMA TrackChanged ==
  ASSUME NEW r \in Track, NEW number \in Nat \ {0}, NEW end \in BoundaryIds,
         NEW side \in Sides
  PROVE  /\ LET m == [r EXCEPT !.number = number]
            IN  /\ m \in Track
                /\ m.side = r.side /\ m.start = r.start /\ m.end = r.end
         /\ LET m == [r EXCEPT !.end = end]
            IN  m \in Track /\ m.side = r.side /\ m.start = r.start /\ m.end = end
         /\ LET m == [r EXCEPT !.side = side, !.number = number]
            IN  m \in Track /\ m.side = side /\ m.start = r.start /\ m.end = r.end
BY DEF Track

(***************************************************************************)
(* Boundaries that keep their ids and their edges.                         *)
(***************************************************************************)
LEMMA RowsChanged ==
  ASSUME NEW bs, NEW ts, RowsOK(bs, ts), NEW bs2,
         bs2 \in [DOMAIN bs -> Boundary], Unique(bs2),
         \A b \in DOMAIN bs : bs2[b].edge = bs[b].edge
  PROVE  RowsOK(bs2, ts)
<1>1. DOMAIN bs2 = DOMAIN bs
  OBVIOUS
<1> QED
  BY <1>1 DEF RowsOK

LEMMA RowAdded ==
  ASSUME NEW bs, NEW ts, RowsOK(bs, ts), NEW id \in BoundaryIds, id \notin DOMAIN bs,
         NEW row \in Boundary, \A b \in DOMAIN bs : ~ SamePlace(bs[b], row)
  PROVE  RowsOK(With(bs, id, row), ts)
<1> DEFINE bs2 == With(bs, id, row)
<1>1. /\ DOMAIN bs2 = DOMAIN bs \cup {id}
      /\ bs2[id] = row /\ \A b \in DOMAIN bs : bs2[b] = bs[b]
      /\ bs2 = [x \in DOMAIN bs \cup {id} |-> bs2[x]]
  BY DEF With
<1> HIDE DEF bs2
<1>2. \A b \in DOMAIN bs : bs[b] \in Boundary /\ b \in BoundaryIds
  BY RowsTyped
<1>3. bs2 \in [DOMAIN bs2 -> Boundary] /\ DOMAIN bs2 \subseteq BoundaryIds
  BY <1>1, <1>2
<1>4. \A b \in DOMAIN bs : ~ SamePlace(row, bs[b])
  BY DEF SamePlace
<1>5. Unique(bs2)
  BY <1>1, <1>4 DEF RowsOK, Unique
<1>6. \A t \in DOMAIN ts :
          /\ {ts[t].start, ts[t].end} \subseteq DOMAIN bs2
          /\ bs2[ts[t].start].edge = "start"
          /\ bs2[ts[t].end].edge = "end"
  BY <1>1 DEF RowsOK
<1>7. RowsOK(bs2, ts)
  BY <1>3, <1>5, <1>6 DEF RowsOK
<1> QED
  BY <1>7 DEF bs2

LEMMA RowDropped ==
  ASSUME NEW bs, NEW ts, RowsOK(bs, ts), NEW id, Bounding(ts, id) = {}
  PROVE  RowsOK(Without(bs, id), ts)
<1> DEFINE bs2 == Without(bs, id)
<1>1. /\ DOMAIN bs2 = DOMAIN bs \ {id}
      /\ \A b \in DOMAIN bs \ {id} : bs2[b] = bs[b]
      /\ bs2 = [x \in DOMAIN bs \ {id} |-> bs2[x]]
  BY DEF Without, Restrict
<1> HIDE DEF bs2
<1>2. \A b \in DOMAIN bs : bs[b] \in Boundary /\ b \in BoundaryIds
  BY RowsTyped
<1>3. bs2 \in [DOMAIN bs2 -> Boundary] /\ DOMAIN bs2 \subseteq BoundaryIds
  BY <1>1, <1>2
<1>4. Unique(bs2)
  BY <1>1 DEF RowsOK, Unique
<1>5. \A t \in DOMAIN ts : ts[t].start # id /\ ts[t].end # id
  BY DEF Bounding
<1>6. \A t \in DOMAIN ts :
          /\ {ts[t].start, ts[t].end} \subseteq DOMAIN bs2
          /\ bs2[ts[t].start].edge = "start"
          /\ bs2[ts[t].end].edge = "end"
  BY <1>1, <1>5 DEF RowsOK
<1>7. RowsOK(bs2, ts)
  BY <1>3, <1>4, <1>6 DEF RowsOK
<1> QED
  BY <1>7 DEF bs2

(***************************************************************************)
(* Tracks that keep their ids and their boundaries.                        *)
(***************************************************************************)
LEMMA TracksChanged ==
  ASSUME NEW bs, NEW ts, RowsOK(bs, ts), NEW ts2,
         ts2 \in [DOMAIN ts -> Track],
         \A t \in DOMAIN ts : ts2[t].start = ts[t].start /\ ts2[t].end = ts[t].end
  PROVE  RowsOK(bs, ts2)
<1>1. DOMAIN ts2 = DOMAIN ts
  OBVIOUS
<1> QED
  BY <1>1 DEF RowsOK

LEMMA TrackDeleted ==
  ASSUME NEW bs, NEW ts, RowsOK(bs, ts), NEW t
  PROVE  RowsOK(bs, Without(ts, t))
<1> DEFINE ts2 == Without(ts, t)
<1>1. /\ DOMAIN ts2 = DOMAIN ts \ {t}
      /\ \A u \in DOMAIN ts \ {t} : ts2[u] = ts[u]
      /\ ts2 = [x \in DOMAIN ts \ {t} |-> ts2[x]]
  BY DEF Without, Restrict
<1> HIDE DEF ts2
<1>2. \A u \in DOMAIN ts : ts[u] \in Track /\ u \in TrackIds
  BY RowsTyped
<1>3. ts2 \in [DOMAIN ts2 -> Track] /\ DOMAIN ts2 \subseteq TrackIds
  BY <1>1, <1>2
<1>4. RowsOK(bs, ts2)
  BY <1>1, <1>3 DEF RowsOK
<1> QED
  BY <1>4 DEF ts2

LEMMA TrackAdded ==
  ASSUME NEW bs, NEW ts, RowsOK(bs, ts), NEW t \in TrackIds, t \notin DOMAIN ts,
         NEW row \in Track, Bounding(ts, row.start) = {}, Bounding(ts, row.end) = {},
         row.start \in DOMAIN bs, bs[row.start].edge = "start",
         row.end \in DOMAIN bs, bs[row.end].edge = "end"
  PROVE  RowsOK(bs, With(ts, t, row))
<1> DEFINE ts2 == With(ts, t, row)
<1>1. /\ DOMAIN ts2 = DOMAIN ts \cup {t}
      /\ ts2[t] = row /\ \A u \in DOMAIN ts : ts2[u] = ts[u]
      /\ ts2 = [x \in DOMAIN ts \cup {t} |-> ts2[x]]
  BY DEF With
<1> HIDE DEF ts2
<1>2. \A u \in DOMAIN ts : ts[u] \in Track /\ u \in TrackIds
  BY RowsTyped
<1>3. ts2 \in [DOMAIN ts2 -> Track] /\ DOMAIN ts2 \subseteq TrackIds
  BY <1>1, <1>2
<1>4. \A u \in DOMAIN ts : ts[u].start # row.start /\ ts[u].end # row.end
  BY DEF Bounding
<1>5. RowsOK(bs, ts2)
  BY <1>1, <1>3, <1>4 DEF RowsOK
<1> QED
  BY <1>5 DEF ts2

LEMMA EndChanged ==
  ASSUME NEW bs, NEW ts, RowsOK(bs, ts), NEW t \in DOMAIN ts, NEW end \in DOMAIN bs,
         bs[end].edge = "end", \A u \in DOMAIN ts \ {t} : ts[u].end # end
  PROVE  RowsOK(bs, [ts EXCEPT ![t].end = end])
<1> DEFINE ts2 == [ts EXCEPT ![t].end = end]
<1>1. DOMAIN ts2 = DOMAIN ts /\ ts2[t] = [ts[t] EXCEPT !.end = end]
  OBVIOUS
<1>2. \A u \in DOMAIN ts \ {t} : ts2[u] = ts[u]
  OBVIOUS
<1>3. ts2 = [u \in DOMAIN ts |-> ts2[u]]
  OBVIOUS
<1>4. end \in BoundaryIds /\ ts[t] \in Track
  BY RowsTyped
<1>5. 1 \in Nat \ {0} /\ ts[t].side \in Sides
  BY RowsTyped
<1> HIDE DEF ts2
<1>6. ts2[t] \in Track /\ ts2[t].start = ts[t].start /\ ts2[t].end = end
  <2>1. LET m == [ts[t] EXCEPT !.end = end]
        IN  m \in Track /\ m.side = ts[t].side /\ m.start = ts[t].start /\ m.end = end
    BY <1>4 DEF Track
  <2> QED
    BY <1>1, <2>1
<1>7. \A u \in DOMAIN ts : ts[u] \in Track /\ u \in TrackIds
  BY RowsTyped
<1>8. ts2 \in [DOMAIN ts2 -> Track] /\ DOMAIN ts2 \subseteq TrackIds
  BY <1>1, <1>2, <1>3, <1>6, <1>7
<1>9. ASSUME NEW u \in DOMAIN ts
      PROVE  /\ {ts2[u].start, ts2[u].end} \subseteq DOMAIN bs
             /\ bs[ts2[u].start].edge = "start"
             /\ bs[ts2[u].end].edge = "end"
  BY <1>2, <1>6 DEF RowsOK
<1>10. ASSUME NEW u \in DOMAIN ts, NEW v \in DOMAIN ts \ {u}
       PROVE  ts2[u].start # ts2[v].start /\ ts2[u].end # ts2[v].end
  <2>1. ts[u].start # ts[v].start /\ ts[u].end # ts[v].end
    BY DEF RowsOK
  <2>2. u = t \/ v = t \/ (u # t /\ v # t)
    OBVIOUS
  <2> QED
    BY <1>2, <1>6, <2>1, <2>2
<1>11. RowsOK(bs, ts2)
  BY <1>1, <1>8, <1>9, <1>10 DEF RowsOK
<1> QED
  BY <1>11 DEF ts2

LEMMA SideIsFinite ==
  ASSUME NEW bs, NEW ts, RowsOK(bs, ts), NEW s
  PROVE  IsFiniteSet(TracksOn(ts, s))
<1>1. TracksOn(ts, s) \subseteq TrackIds
  BY DEF TracksOn, RowsOK
<1> QED
  BY <1>1, FS_Subset, TrackAssumption

LEMMA NumberFollows ==
  ASSUME NEW bs, NEW ts, RowsOK(bs, ts), NEW s
  PROVE  NextNumber(ts, s) \in Nat \ {0}
<1> DEFINE T == TracksOn(ts, s)
           numbers == {ts[t].number : t \in T}
           f == [t \in T |-> ts[t].number]
<1>1. IsFiniteSet(T)
  BY SideIsFinite
<1>2. \A t \in T : ts[t].number \in Nat
  BY RowsTyped DEF TracksOn, Track
<1>3. numbers \subseteq Nat
  BY <1>2
<1>4. f \in [T -> numbers] /\ \A n \in numbers : \E t \in T : f[t] = n
  OBVIOUS
<1> HIDE DEF f, T
<1>5. f \in Surjection(T, numbers)
  BY <1>4 DEF Surjection
<1>6. IsFiniteSet(numbers)
  <2> HIDE DEF numbers
  <2> QED
    BY <1>1, <1>5, FS_Surjection
<1>7. IsFiniteSet(numbers \cup {0})
  BY <1>6, FS_AddElement
<1> DEFINE all == numbers \cup {0}
<1>8. all \subseteq Nat /\ all # {} /\ IsFiniteSet(all)
  BY <1>3, <1>7
<1>9. Max(all) \in all
  <2> HIDE DEF all
  <2>1. PICK m \in Nat : \A x \in all : x <= m
    BY <1>8, FiniteIsBounded
  <2> QED
    BY <1>8, <2>1, MaxIsGreatest
<1>10. NextNumber(ts, s) = Max(all) + 1
  BY DEF NextNumber, T
<1>11. Max(all) \in Nat
  BY <1>8, <1>9
<1> QED
  BY <1>10, <1>11

LEMMA RowsRenumbered ==
  ASSUME NEW bs, NEW ts, RowsOK(bs, ts), NEW s
  PROVE  /\ RowsOK(bs, Renumbered(bs, ts, s))
         /\ DOMAIN Renumbered(bs, ts, s) = DOMAIN ts
         /\ \A t \in DOMAIN ts : /\ Renumbered(bs, ts, s)[t].start = ts[t].start
                                 /\ Renumbered(bs, ts, s)[t].end = ts[t].end
                                 /\ Renumbered(bs, ts, s)[t].side = ts[t].side
<1> DEFINE ts2 == Renumbered(bs, ts, s)
           n == Cardinality(TracksOn(ts, s))
           place(t) == CHOOSE i \in 1 .. n : Listing(bs, ts, s)[i] = t
<1>1. /\ DOMAIN ts2 = DOMAIN ts /\ ts2 = [t \in DOMAIN ts |-> ts2[t]]
      /\ \A t \in DOMAIN ts : ts2[t] = IF ts[t].side = s THEN [ts[t] EXCEPT !.number = place(t)]
                                                        ELSE ts[t]
  BY DEF Renumbered
<1>2. ASSUME NEW t \in DOMAIN ts
      PROVE  /\ ts2[t] \in Track /\ ts2[t].start = ts[t].start
             /\ ts2[t].end = ts[t].end /\ ts2[t].side = ts[t].side
  <2>1. ts[t] \in Track /\ ts[t].side \in Sides
    BY RowsTyped
  <2>2. CASE ts[t].side = s
    <3>1. t \in TracksOn(ts, s) /\ TracksOn(ts, s) \subseteq DOMAIN ts
      BY <2>2 DEF TracksOn
    <3>2. Orders(TrackOrder(bs, ts), TracksOn(ts, s))
      BY <3>1, TracksOrder
    <3>3. \E i \in 1 .. n : Listing(bs, ts, s)[i] = t
      BY <3>1, <3>2, SideIsFinite, Listed DEF Listing
    <3>4. place(t) \in 1 .. n
      BY <3>3
    <3>5. n \in Nat
      BY SideIsFinite, FS_CardinalityType
    <3> HIDE DEF place, n
    <3>6. place(t) \in Nat \ {0}
      BY <3>4, <3>5
    <3>7. ts[t].end \in BoundaryIds
      BY <2>1 DEF Track
    <3>8. LET m == [ts[t] EXCEPT !.number = place(t)]
          IN  m \in Track /\ m.side = ts[t].side /\ m.start = ts[t].start /\ m.end = ts[t].end
      BY <2>1, <3>6, <3>7, TrackChanged
    <3> QED
      BY <1>1, <2>2, <3>8
  <2>3. CASE ts[t].side # s
    BY <1>1, <2>1, <2>3
  <2> QED
    BY <2>2, <2>3
<1> HIDE DEF ts2
<1>3. ts2 \in [DOMAIN ts -> Track]
  BY <1>1, <1>2
<1>4. RowsOK(bs, ts2)
  BY <1>2, <1>3, TracksChanged
<1> QED
  BY <1>1, <1>2, <1>4 DEF ts2

----------------------------------------------------------------------------
(* The statements to come.                                                 *)

Statements ==
  UNION { [do : {"put"}, row : Boundary, id : BoundaryIds],
          [do : {"insert"}, side : Sides, start : BoundaryIds, end : BoundaryIds],
          [do : {"setEnd"}, track : TrackIds, end : BoundaryIds],
          [do : {"delete"}, track : TrackIds],
          [do : {"drop"}, id : BoundaryIds],
          [do : {"renumber"}, side : Sides],
          [do : {"place"}, id : BoundaryIds, at : Frames],
          [do : {"claim"}, id : BoundaryIds],
          [do : {"rehome"}, ids : SUBSET BoundaryIds, side : Sides],
          [do : {"adoptTrack"}, track : TrackIds, side : Sides],
          [do : {"pair"}, side : Sides] }

LEMMA StatementFields ==
  ASSUME NEW st \in Statements
  PROVE  /\ st.do = "put" => st.row \in Boundary /\ st.id \in BoundaryIds
         /\ st.do = "insert" => /\ st.side \in Sides
                                /\ st.start \in BoundaryIds /\ st.end \in BoundaryIds
         /\ st.do = "setEnd" => st.track \in TrackIds /\ st.end \in BoundaryIds
         /\ st.do = "place" => st.id \in BoundaryIds /\ st.at \in Frames
         /\ st.do \in {"rehome", "adoptTrack", "renumber", "pair"} => st.side \in Sides
BY DEF Statements

(***************************************************************************)
(* The forced move alone places and claims; a reassignment alone moves     *)
(* rows to another side.                                                   *)
(***************************************************************************)
Fits(st, v) ==
  /\ st.do \in {"place", "claim"} => v = "force"
  /\ st.do \in {"rehome", "adoptTrack"} => v = "reassign"

(***************************************************************************)
(* A row to be put is there already under its id, or nowhere.              *)
(***************************************************************************)
PutReady(bs, st) ==
  IF st.id \in DOMAIN bs THEN SamePlace(bs[st.id], st.row)
                         ELSE \A b \in DOMAIN bs : ~ SamePlace(bs[b], st.row)

Edged(bs, b, edge) == b \in DOMAIN bs /\ bs[b].edge = edge

(***************************************************************************)
(* What the i-th statement names is there, or put by an earlier one.       *)
(***************************************************************************)
Awaits(bs, list, i, b, edge) ==
  \/ Edged(bs, b, edge)
  \/ \E j \in 1 .. i - 1 : list[j].do = "put" /\ list[j].id = b /\ list[j].row.edge = edge

Upsetting == {"drop", "place", "rehome"}
Naming    == {"put", "insert", "setEnd"}

PutsReady(bs, list) ==
  \A i \in 1 .. Len(list) : list[i].do = "put" => PutReady(bs, list[i])

PutsDiffer(list) ==
  \A i, j \in 1 .. Len(list) :
     i < j /\ list[i].do = "put" /\ list[j].do = "put" =>
        list[i].id # list[j].id /\ ~ SamePlace(list[i].row, list[j].row)

EndsAwaited(bs, list) ==
  \A i \in 1 .. Len(list) :
     /\ list[i].do = "insert" => Awaits(bs, list, i, list[i].start, "start")
     /\ list[i].do \in {"insert", "setEnd"} => Awaits(bs, list, i, list[i].end, "end")

NamesFirst(list) ==
  \A i, j \in 1 .. Len(list) : i < j /\ list[i].do \in Upsetting => list[j].do \notin Naming

PairsLast(list) ==
  \A i \in 1 .. Len(list) : list[i].do = "pair" => i = Len(list)

Ready(bs, list) ==
  /\ PutsReady(bs, list)
  /\ PutsDiffer(list)
  /\ EndsAwaited(bs, list)
  /\ NamesFirst(list)
  /\ PairsLast(list)

LEMMA TailOf ==
  ASSUME NEW list \in Seq(Statements), list # <<>>
  PROVE  /\ Tail(list) \in Seq(Statements)
         /\ Len(list) \in Nat /\ Len(list) > 0 /\ Len(Tail(list)) = Len(list) - 1
         /\ \A i \in 1 .. Len(Tail(list)) :
               Tail(list)[i] = list[i + 1] /\ i + 1 \in 1 .. Len(list)
         /\ Head(list) = list[1] /\ list[1] \in Statements
<1>1. Tail(list) \in Seq(Statements) /\ Len(Tail(list)) = Len(list) - 1
  BY HeadTailProperties
<1>2. Len(list) \in Nat /\ Len(list) > 0
  BY EmptySeq
<1>3. \A i \in 1 .. Len(Tail(list)) : Tail(list)[i] = list[i + 1]
  BY HeadTailProperties
<1>4. Head(list) = list[1] /\ list[1] \in Statements
  BY <1>2, ElementOfSeq
<1> QED
  BY <1>1, <1>2, <1>3, <1>4

LEMMA OrderedRest ==
  ASSUME NEW list \in Seq(Statements), list # <<>>,
         PutsDiffer(list), NamesFirst(list), PairsLast(list)
  PROVE  PutsDiffer(Tail(list)) /\ NamesFirst(Tail(list)) /\ PairsLast(Tail(list))
<1> DEFINE rest == Tail(list)
<1>1. /\ Len(list) \in Nat /\ Len(rest) = Len(list) - 1
      /\ \A i \in 1 .. Len(rest) : rest[i] = list[i + 1] /\ i + 1 \in 1 .. Len(list)
  BY TailOf
<1> HIDE DEF rest
<1>2. \A i, j \in 1 .. Len(rest) : i < j => i + 1 < j + 1
  BY <1>1
<1>3. PutsDiffer(rest)
  <2>1. ASSUME NEW i \in 1 .. Len(rest), NEW j \in 1 .. Len(rest), i < j,
               rest[i].do = "put", rest[j].do = "put"
        PROVE  rest[i].id # rest[j].id /\ ~ SamePlace(rest[i].row, rest[j].row)
    <3>1. rest[i] = list[i + 1] /\ rest[j] = list[j + 1] /\ i + 1 < j + 1
      BY <1>1, <1>2, <2>1
    <3>2. i + 1 \in 1 .. Len(list) /\ j + 1 \in 1 .. Len(list)
      BY <1>1
    <3> HIDE <1>1
    <3> QED
      BY <2>1, <3>1, <3>2 DEF PutsDiffer
  <2> QED
    BY <2>1 DEF PutsDiffer
<1>4. NamesFirst(rest)
  BY <1>1, <1>2 DEF NamesFirst
<1>5. PairsLast(rest)
  BY <1>1 DEF PairsLast
<1> QED
  BY <1>3, <1>4, <1>5 DEF rest

(***************************************************************************)
(* A statement that takes no boundary away leaves the rest ready.          *)
(***************************************************************************)
LEMMA ReadyKept ==
  ASSUME NEW list \in Seq(Statements), list # <<>>, NEW bs, Ready(bs, list), NEW bs2,
         \A b, edge : Edged(bs, b, edge) => Edged(bs2, b, edge),
         list[1].do = "put" => Edged(bs2, list[1].id, list[1].row.edge),
         \A i \in 2 .. Len(list) : list[i].do = "put" => PutReady(bs2, list[i])
  PROVE  Ready(bs2, Tail(list))
<1> DEFINE rest == Tail(list)
<1>1. /\ Len(list) \in Nat /\ Len(rest) = Len(list) - 1
      /\ \A i \in 1 .. Len(rest) : rest[i] = list[i + 1] /\ i + 1 \in 1 .. Len(list)
  BY TailOf
<1>2. PutsDiffer(rest) /\ NamesFirst(rest) /\ PairsLast(rest)
  BY OrderedRest DEF Ready
<1> HIDE DEF rest
<1>3. PutsReady(bs2, rest)
  <2>1. \A i \in 1 .. Len(rest) : i + 1 \in 2 .. Len(list)
    BY <1>1
  <2> QED
    BY <1>1, <2>1 DEF PutsReady
<1>4. ASSUME NEW i \in 1 .. Len(rest), NEW b, NEW edge, Awaits(bs, list, i + 1, b, edge)
      PROVE  Awaits(bs2, rest, i, b, edge)
  <2>1. CASE Edged(bs, b, edge)
    BY <2>1 DEF Awaits
  <2>2. CASE \E j \in 1 .. (i + 1) - 1 :
                list[j].do = "put" /\ list[j].id = b /\ list[j].row.edge = edge
    <3>1. PICK j \in 1 .. i : list[j].do = "put" /\ list[j].id = b /\ list[j].row.edge = edge
      BY <1>1, <2>2
    <3>2. CASE j = 1
      BY <3>1, <3>2 DEF Awaits
    <3>3. CASE j # 1
      <4>1. j - 1 \in 1 .. i - 1 /\ j - 1 \in 1 .. Len(rest) /\ (j - 1) + 1 = j
        BY <1>1, <3>3
      <4>2. rest[j - 1] = list[j]
        BY <1>1, <4>1
      <4> QED
        BY <3>1, <4>1, <4>2 DEF Awaits
    <3> QED
      BY <3>2, <3>3
  <2> QED
    BY <1>4, <2>1, <2>2 DEF Awaits
<1>5. EndsAwaited(bs2, rest)
  <2>1. ASSUME NEW i \in 1 .. Len(rest)
        PROVE  /\ rest[i].do = "insert" => Awaits(bs2, rest, i, rest[i].start, "start")
               /\ rest[i].do \in {"insert", "setEnd"} => Awaits(bs2, rest, i, rest[i].end, "end")
    <3>1. rest[i] = list[i + 1] /\ i + 1 \in 1 .. Len(list)
      BY <1>1
    <3>2. /\ rest[i].do = "insert" => Awaits(bs, list, i + 1, rest[i].start, "start")
          /\ rest[i].do \in {"insert", "setEnd"} => Awaits(bs, list, i + 1, rest[i].end, "end")
      BY <3>1 DEF Ready, EndsAwaited
    <3> QED
      BY <1>4, <3>2
  <2> QED
    BY <2>1 DEF EndsAwaited
<1>6. Ready(bs2, rest)
  BY <1>2, <1>3, <1>5 DEF Ready
<1> QED
  BY <1>6 DEF rest

(***************************************************************************)
(* After one that does, no statement names any.                            *)
(***************************************************************************)
LEMMA ReadyUpset ==
  ASSUME NEW list \in Seq(Statements), list # <<>>, NEW bs, Ready(bs, list), NEW bs2,
         list[1].do \in Upsetting
  PROVE  Ready(bs2, Tail(list))
<1> DEFINE rest == Tail(list)
<1>1. /\ Len(list) \in Nat /\ Len(list) > 0 /\ Len(rest) = Len(list) - 1
      /\ \A i \in 1 .. Len(rest) : rest[i] = list[i + 1] /\ i + 1 \in 1 .. Len(list)
  BY TailOf
<1>2. PutsDiffer(rest) /\ NamesFirst(rest) /\ PairsLast(rest)
  BY OrderedRest DEF Ready
<1> HIDE DEF rest
<1>3. \A i \in 1 .. Len(rest) : 1 < i + 1 /\ 1 \in 1 .. Len(list)
  BY <1>1
<1>4. \A i \in 1 .. Len(rest) : rest[i].do \notin Naming
  BY <1>1, <1>3 DEF Ready, NamesFirst
<1>5. PutsReady(bs2, rest) /\ EndsAwaited(bs2, rest)
  BY <1>4 DEF PutsReady, EndsAwaited, Naming
<1>6. Ready(bs2, rest)
  BY <1>2, <1>5 DEF Ready
<1> QED
  BY <1>6 DEF rest

----------------------------------------------------------------------------
(* The invariant, statement by statement.                                  *)

FitsAll(list, v) == \A i \in 1 .. Len(list) : Fits(list[i], v)

EditInv ==
  /\ TypeOK
  /\ todo \in Seq(Statements)
  /\ Ready(boundaries, todo)
  /\ FitsAll(todo, verb)

LEMMA NothingToCome ==
  ASSUME NEW bs, NEW v
  PROVE  /\ <<>> \in Seq(Statements)
         /\ Ready(bs, <<>>)
         /\ FitsAll(<<>>, v)
<1>1. <<>> \in Seq(Statements) /\ 1 .. Len(<<>>) = {}
  BY EmptySeq
<1> QED
  BY <1>1 DEF Ready, PutsReady, PutsDiffer, EndsAwaited, NamesFirst, PairsLast, FitsAll

LEMMA UnderWay ==
  ASSUME EditInv, NEW do, Is(do)
  PROVE  /\ todo \in Seq(Statements) /\ todo # <<>>
         /\ Next1 = todo[1] /\ todo[1].do = do /\ todo[1] \in Statements
         /\ Len(todo) \in Nat /\ Len(todo) > 0
         /\ RowsOK(boundaries, tracks) /\ Ready(boundaries, todo)
         /\ Fits(Next1, verb)
<1>1. todo \in Seq(Statements) /\ todo # <<>>
  BY DEF EditInv, Is
<1>2. /\ Next1 = todo[1] /\ todo[1] \in Statements
      /\ Len(todo) \in Nat /\ Len(todo) > 0
  BY <1>1, TailOf DEF Next1
<1> QED
  BY <1>1, <1>2 DEF EditInv, Is, TypeOK, FitsAll

LEMMA ProceedKeeps ==
  ASSUME EditInv, todo # <<>>, Proceed(Tail(todo)),
         RowsOK(boundaries, tracks)', Ready(boundaries', Tail(todo)), unsettled' \subseteq Sides
  PROVE  EditInv'
<1>1. todo' = Tail(todo) /\ todo \in Seq(Statements)
  BY DEF Proceed, EditInv
<1>2. /\ Tail(todo) \in Seq(Statements)
      /\ \A i \in 1 .. Len(Tail(todo)) : Tail(todo)[i] = todo[i + 1] /\ i + 1 \in 1 .. Len(todo)
  BY <1>1, TailOf
<1>3. FitsAll(todo', verb')
  <2>1. CASE Tail(todo) = <<>>
    BY <1>1, <2>1, NothingToCome
  <2>2. CASE Tail(todo) # <<>>
    <3>1. verb' = verb
      BY <2>2 DEF Proceed
    <3> QED
      BY <1>1, <1>2, <3>1 DEF EditInv, FitsAll
  <2> QED
    BY <2>1, <2>2
<1>4. capture' = capture /\ edits' = edits
  BY DEF Proceed
<1>5. TypeOK'
  BY <1>4 DEF EditInv, TypeOK
<1> QED
  BY <1>1, <1>2, <1>3, <1>5 DEF EditInv

(***************************************************************************)
(* A boundary that stays in its place keeps what is said of places.        *)
(***************************************************************************)
LEMMA PlacesKept ==
  ASSUME NEW bs, NEW ts, RowsOK(bs, ts), NEW bs2, bs2 \in [DOMAIN bs -> Boundary],
         \A b \in DOMAIN bs : SamePlace(bs2[b], bs[b])
  PROVE  /\ RowsOK(bs2, ts)
         /\ \A b, edge : Edged(bs, b, edge) => Edged(bs2, b, edge)
         /\ \A st : PutReady(bs, st) => PutReady(bs2, st)
<1>1. DOMAIN bs2 = DOMAIN bs
  OBVIOUS
<1>2. \A b \in DOMAIN bs : /\ bs2[b].side = bs[b].side /\ bs2[b].at = bs[b].at
                           /\ bs2[b].edge = bs[b].edge
  BY DEF SamePlace
<1>3. Unique(bs2)
  BY <1>1, <1>2 DEF RowsOK, Unique, SamePlace
<1>4. RowsOK(bs2, ts)
  BY <1>2, <1>3, RowsChanged
<1>5. \A b, edge : Edged(bs, b, edge) => Edged(bs2, b, edge)
  BY <1>1, <1>2 DEF Edged
<1>6. \A st : PutReady(bs, st) => PutReady(bs2, st)
  BY <1>1, <1>2 DEF PutReady, SamePlace
<1> QED
  BY <1>4, <1>5, <1>6

(***************************************************************************)
(* A statement that leaves the boundaries alone.                           *)
(***************************************************************************)
LEMMA ReadyAsBefore ==
  ASSUME NEW list \in Seq(Statements), list # <<>>, NEW bs, Ready(bs, list),
         list[1].do # "put"
  PROVE  Ready(bs, Tail(list))
<1>1. \A i \in 2 .. Len(list) : list[i].do = "put" => PutReady(bs, list[i])
  <2>1. \A i \in 2 .. Len(list) : i \in 1 .. Len(list)
    BY TailOf
  <2> QED
    BY <2>1 DEF Ready, PutsReady
<1> QED
  BY <1>1, ReadyKept

LEMMA PutKeeps ==
  ASSUME EditInv, PutBoundary
  PROVE  EditInv'
<1> DEFINE row == Next1.row
           id  == Next1.id
<1>1. Is("put")
  BY DEF PutBoundary
<1>2. /\ todo \in Seq(Statements) /\ todo # <<>>
      /\ Next1 = todo[1] /\ todo[1].do = "put" /\ todo[1] \in Statements
      /\ Len(todo) \in Nat /\ Len(todo) > 0
      /\ RowsOK(boundaries, tracks) /\ Ready(boundaries, todo)
  BY <1>1, UnderWay
<1>3. row \in Boundary /\ id \in BoundaryIds
  BY <1>2, StatementFields
<1>4. /\ 1 \in 1 .. Len(todo)
      /\ \A i \in 2 .. Len(todo) : i \in 1 .. Len(todo) /\ 1 < i
  BY <1>2
<1>5. PutReady(boundaries, Next1)
  BY <1>2, <1>4 DEF Ready, PutsReady
<1>6. ASSUME NEW i \in 2 .. Len(todo), todo[i].do = "put"
      PROVE  /\ PutReady(boundaries, todo[i])
             /\ todo[i].id # id /\ ~ SamePlace(row, todo[i].row)
  <2>1. PutReady(boundaries, todo[i])
    BY <1>2, <1>4, <1>6 DEF Ready, PutsReady
  <2>2. todo[1].id # todo[i].id /\ ~ SamePlace(todo[1].row, todo[i].row)
    BY <1>2, <1>4, <1>6 DEF Ready, PutsDiffer
  <2> QED
    BY <1>2, <2>1, <2>2
<1>7. Proceed(Tail(todo)) /\ tracks' = tracks /\ unsettled' = unsettled
  BY DEF PutBoundary
<1>8. RowsOK(boundaries', tracks) /\ Ready(boundaries', Tail(todo))
  <2>1. CASE id \notin DOMAIN boundaries
    <3>1. boundaries' = With(boundaries, id, row)
      BY <2>1 DEF PutBoundary
    <3>2. \A b \in DOMAIN boundaries : ~ SamePlace(boundaries[b], row)
      BY <1>5, <2>1 DEF PutReady
    <3>3. RowsOK(boundaries', tracks)
      BY <1>2, <1>3, <2>1, <3>1, <3>2, RowAdded
    <3>4. /\ DOMAIN boundaries' = DOMAIN boundaries \cup {id}
          /\ boundaries'[id] = row
          /\ \A b \in DOMAIN boundaries : boundaries'[b] = boundaries[b]
      BY <2>1, <3>1 DEF With
    <3>5. \A b, edge : Edged(boundaries, b, edge) => Edged(boundaries', b, edge)
      BY <3>4 DEF Edged
    <3>6. Edged(boundaries', todo[1].id, todo[1].row.edge)
      BY <1>2, <3>4 DEF Edged
    <3>7. ASSUME NEW i \in 2 .. Len(todo), todo[i].do = "put"
          PROVE  PutReady(boundaries', todo[i])
      BY <1>6, <3>4, <3>7 DEF PutReady
    <3>8. Ready(boundaries', Tail(todo))
      BY <1>2, <3>5, <3>6, <3>7, ReadyKept
    <3> QED
      BY <3>3, <3>8
  <2>2. CASE id \in DOMAIN boundaries
    <3> DEFINE old == boundaries[id]
               prov == IF old.locked THEN old.prov ELSE row.prov
               locked == old.locked \/ row.locked
    <3>1. boundaries' = [boundaries EXCEPT ![id] = [old EXCEPT !.prov = prov, !.locked = locked]]
      BY <2>2 DEF PutBoundary
    <3>2. old \in Boundary /\ old.side \in Sides /\ old.at \in Frames
      BY <1>2, <2>2, RowsTyped
    <3>3. prov \in Provenances /\ locked \in BOOLEAN
      BY <1>3, <3>2 DEF Boundary
    <3> HIDE DEF prov, locked, old
    <3>4. [old EXCEPT !.prov = prov, !.locked = locked] \in Boundary
      BY <3>2, <3>3, BoundaryChanged
    <3>5. SamePlace([old EXCEPT !.prov = prov, !.locked = locked], old)
      BY <3>2, BoundaryFields DEF SamePlace
    <3>6. \A b \in DOMAIN boundaries : boundaries[b] \in Boundary
      BY <1>2, RowsTyped
    <3>7. boundaries' \in [DOMAIN boundaries -> Boundary]
      BY <3>1, <3>4, <3>6
    <3>8. \A b \in DOMAIN boundaries : SamePlace(boundaries'[b], boundaries[b])
      BY <3>1, <3>5 DEF SamePlace, old
    <3>9. /\ RowsOK(boundaries', tracks)
          /\ \A b, edge : Edged(boundaries, b, edge) => Edged(boundaries', b, edge)
          /\ \A st : PutReady(boundaries, st) => PutReady(boundaries', st)
      BY <1>2, <3>7, <3>8, PlacesKept
    <3>10. Edged(boundaries, todo[1].id, todo[1].row.edge)
      BY <1>2, <1>5, <2>2 DEF PutReady, SamePlace, Edged
    <3>11. Ready(boundaries', Tail(todo))
      BY <1>2, <1>6, <3>9, <3>10, ReadyKept
    <3> QED
      BY <3>9, <3>11
  <2> QED
    BY <2>1, <2>2
<1> QED
  BY <1>2, <1>7, <1>8, ProceedKeeps DEF EditInv, TypeOK

LEMMA InsertKeeps ==
  ASSUME EditInv, InsertTrack
  PROVE  EditInv'
<1> DEFINE free == TrackIds \ DOMAIN tracks
           row == [side |-> Next1.side, number |-> NextNumber(tracks, Next1.side),
                   start |-> Next1.start, end |-> Next1.end]
<1>1. Is("insert")
  BY DEF InsertTrack
<1>2. /\ todo \in Seq(Statements) /\ todo # <<>>
      /\ Next1 = todo[1] /\ todo[1].do = "insert" /\ todo[1] \in Statements
      /\ Len(todo) \in Nat /\ Len(todo) > 0
      /\ RowsOK(boundaries, tracks) /\ Ready(boundaries, todo)
  BY <1>1, UnderWay
<1>3. Next1.side \in Sides /\ Next1.start \in BoundaryIds /\ Next1.end \in BoundaryIds
  BY <1>2, StatementFields
<1>4. Edged(boundaries, Next1.start, "start") /\ Edged(boundaries, Next1.end, "end")
  <2>1. 1 \in 1 .. Len(todo) /\ 1 .. 1 - 1 = {}
    BY <1>2
  <2>2. /\ Awaits(boundaries, todo, 1, todo[1].start, "start")
        /\ Awaits(boundaries, todo, 1, todo[1].end, "end")
    BY <1>2, <2>1 DEF Ready, EndsAwaited
  <2> QED
    BY <1>2, <2>1, <2>2 DEF Awaits
<1>5. Min(free) \in free
  <2>1. free \subseteq Nat /\ free # {}
    BY TrackAssumption DEF InsertTrack
  <2> HIDE DEF free
  <2> QED
    BY <2>1, MinIsLeast
<1>6. row \in Track
  BY <1>2, <1>3, NumberFollows DEF Track
<1>7. tracks' = With(tracks, Min(free), row)
  BY DEF InsertTrack
<1>8. /\ row.start = Next1.start /\ row.end = Next1.end
      /\ Bounding(tracks, Next1.start) = {} /\ Bounding(tracks, Next1.end) = {}
  BY DEF InsertTrack
<1>9. Min(free) \in TrackIds /\ Min(free) \notin DOMAIN tracks
  BY <1>5
<1> HIDE DEF row, free
<1>10. RowsOK(boundaries, tracks')
  BY <1>2, <1>4, <1>6, <1>7, <1>8, <1>9, TrackAdded DEF Edged
<1>11. Ready(boundaries, Tail(todo))
  BY <1>2, ReadyAsBefore
<1>12. Proceed(Tail(todo)) /\ boundaries' = boundaries /\ unsettled' = unsettled
  BY DEF InsertTrack
<1> QED
  BY <1>2, <1>10, <1>11, <1>12, ProceedKeeps DEF EditInv, TypeOK

LEMMA SetEndKeeps ==
  ASSUME EditInv, SetEndBoundary
  PROVE  EditInv'
<1>1. Is("setEnd")
  BY DEF SetEndBoundary
<1>2. /\ todo \in Seq(Statements) /\ todo # <<>>
      /\ Next1 = todo[1] /\ todo[1].do = "setEnd" /\ todo[1] \in Statements
      /\ Len(todo) \in Nat /\ Len(todo) > 0
      /\ RowsOK(boundaries, tracks) /\ Ready(boundaries, todo)
  BY <1>1, UnderWay
<1>3. Edged(boundaries, Next1.end, "end")
  <2>1. 1 \in 1 .. Len(todo) /\ 1 .. 1 - 1 = {}
    BY <1>2
  <2>2. Awaits(boundaries, todo, 1, todo[1].end, "end")
    BY <1>2, <2>1 DEF Ready, EndsAwaited
  <2> QED
    BY <1>2, <2>1, <2>2 DEF Awaits
<1>4. RowsOK(boundaries, tracks')
  <2>1. CASE Next1.track \in DOMAIN tracks
    <3>1. /\ \A u \in DOMAIN tracks \ {Next1.track} : tracks[u].end # Next1.end
          /\ tracks' = [tracks EXCEPT ![Next1.track].end = Next1.end]
      BY <2>1 DEF SetEndBoundary
    <3> QED
      BY <1>2, <1>3, <2>1, <3>1, EndChanged DEF Edged
  <2>2. CASE Next1.track \notin DOMAIN tracks
    BY <1>2, <2>2 DEF SetEndBoundary
  <2> QED
    BY <2>1, <2>2
<1>5. Ready(boundaries, Tail(todo))
  BY <1>2, ReadyAsBefore
<1>6. Proceed(Tail(todo)) /\ boundaries' = boundaries /\ unsettled' = unsettled
  BY DEF SetEndBoundary
<1> QED
  BY <1>2, <1>4, <1>5, <1>6, ProceedKeeps DEF EditInv, TypeOK

LEMMA DeleteKeeps ==
  ASSUME EditInv, DeleteTrack
  PROVE  EditInv'
<1>1. Is("delete")
  BY DEF DeleteTrack
<1>2. /\ todo \in Seq(Statements) /\ todo # <<>> /\ todo[1].do = "delete"
      /\ RowsOK(boundaries, tracks) /\ Ready(boundaries, todo)
  BY <1>1, UnderWay
<1>3. /\ Proceed(Tail(todo)) /\ boundaries' = boundaries /\ unsettled' = unsettled
      /\ tracks' = Without(tracks, Next1.track)
  BY DEF DeleteTrack
<1>4. RowsOK(boundaries, tracks')
  BY <1>2, <1>3, TrackDeleted
<1>5. Ready(boundaries, Tail(todo))
  BY <1>2, ReadyAsBefore
<1> QED
  BY <1>2, <1>3, <1>4, <1>5, ProceedKeeps DEF EditInv, TypeOK

LEMMA DropKeeps ==
  ASSUME EditInv, DropBoundary
  PROVE  EditInv'
<1>1. Is("drop")
  BY DEF DropBoundary
<1>2. /\ todo \in Seq(Statements) /\ todo # <<>> /\ todo[1].do = "drop"
      /\ RowsOK(boundaries, tracks) /\ Ready(boundaries, todo)
  BY <1>1, UnderWay
<1>3. Proceed(Tail(todo)) /\ tracks' = tracks /\ unsettled' = unsettled
  BY DEF DropBoundary
<1>4. RowsOK(boundaries', tracks)
  <2>1. CASE Bounding(tracks, Next1.id) = {} /\ ~ boundaries[Next1.id].locked
    BY <1>2, <2>1, RowDropped DEF DropBoundary
  <2>2. CASE ~ (Bounding(tracks, Next1.id) = {} /\ ~ boundaries[Next1.id].locked)
    BY <1>2, <2>2 DEF DropBoundary
  <2> QED
    BY <2>1, <2>2
<1>5. Ready(boundaries', Tail(todo))
  BY <1>2, ReadyUpset DEF Upsetting
<1> QED
  BY <1>2, <1>3, <1>4, <1>5, ProceedKeeps DEF EditInv, TypeOK

LEMMA RenumberKeeps ==
  ASSUME EditInv, RenumberTracks
  PROVE  EditInv'
<1>1. Is("renumber")
  BY DEF RenumberTracks
<1>2. /\ todo \in Seq(Statements) /\ todo # <<>> /\ todo[1].do = "renumber"
      /\ RowsOK(boundaries, tracks) /\ Ready(boundaries, todo)
  BY <1>1, UnderWay
<1>3. /\ Proceed(Tail(todo)) /\ boundaries' = boundaries /\ unsettled' \subseteq Sides
      /\ tracks' = Renumbered(boundaries, tracks, Next1.side)
  BY DEF RenumberTracks, EditInv, TypeOK
<1>4. RowsOK(boundaries, tracks')
  BY <1>2, <1>3, RowsRenumbered
<1>5. Ready(boundaries, Tail(todo))
  BY <1>2, ReadyAsBefore
<1> QED
  BY <1>2, <1>3, <1>4, <1>5, ProceedKeeps DEF EditInv, TypeOK

LEMMA RowsMoved ==
  ASSUME NEW bs, NEW ts, RowsOK(bs, ts), NEW b, NEW at \in Frames,
         Unique([bs EXCEPT ![b].at = at])
  PROVE  RowsOK([bs EXCEPT ![b].at = at], ts)
<1> DEFINE bs2 == [bs EXCEPT ![b].at = at]
<1>1. ASSUME NEW c \in DOMAIN bs
      PROVE  bs2[c] \in Boundary /\ bs2[c].edge = bs[c].edge
  <2>1. bs[c] \in Boundary
    BY RowsTyped
  <2>2. [bs[c] EXCEPT !.at = at] \in Boundary
    BY <2>1 DEF Boundary
  <2>3. [bs[c] EXCEPT !.at = at].edge = bs[c].edge
    BY <2>1 DEF Boundary
  <2>4. bs2[c] = IF c = b THEN [bs[c] EXCEPT !.at = at] ELSE bs[c]
    OBVIOUS
  <2> QED
    BY <2>1, <2>2, <2>3, <2>4
<1>2. bs2 = [c \in DOMAIN bs |-> bs2[c]]
  OBVIOUS
<1> HIDE DEF bs2
<1>3. bs2 \in [DOMAIN bs -> Boundary]
  BY <1>1, <1>2
<1>4. Unique(bs2)
  BY DEF bs2
<1>5. RowsOK(bs2, ts)
  BY <1>1, <1>3, <1>4, RowsChanged
<1> QED
  BY <1>5 DEF bs2

LEMMA BoundedSides ==
  ASSUME RowsOK(boundaries, tracks), NEW b
  PROVE  Bounded(b) \subseteq Sides
BY RowsTyped DEF Bounded, Bounding

LEMMA PlaceKeeps ==
  ASSUME EditInv, PlaceBoundary
  PROVE  EditInv'
<1>1. Is("place")
  BY DEF PlaceBoundary
<1>2. /\ todo \in Seq(Statements) /\ todo # <<>>
      /\ Next1 = todo[1] /\ todo[1].do = "place" /\ todo[1] \in Statements
      /\ RowsOK(boundaries, tracks) /\ Ready(boundaries, todo)
  BY <1>1, UnderWay
<1>3. Next1.at \in Frames
  BY <1>2, StatementFields
<1>4. /\ Proceed(Tail(todo)) /\ tracks' = tracks
      /\ boundaries' = [boundaries EXCEPT ![Next1.id].at = Next1.at]
      /\ Unique([boundaries EXCEPT ![Next1.id].at = Next1.at])
  BY DEF PlaceBoundary, Moved
<1>5. unsettled' \subseteq Sides
  BY <1>2, BoundedSides DEF PlaceBoundary, EditInv, TypeOK
<1>6. RowsOK(boundaries', tracks)
  BY <1>2, <1>3, <1>4, RowsMoved
<1>7. Ready(boundaries', Tail(todo))
  BY <1>2, ReadyUpset DEF Upsetting
<1> QED
  BY <1>2, <1>4, <1>5, <1>6, <1>7, ProceedKeeps

LEMMA ClaimKeeps ==
  ASSUME EditInv, ClaimBoundary
  PROVE  EditInv'
<1> DEFINE claimed(b) == [boundaries[b] EXCEPT !.prov = "user", !.locked = TRUE]
<1>1. Is("claim")
  BY DEF ClaimBoundary
<1>2. /\ todo \in Seq(Statements) /\ todo # <<>> /\ todo[1].do = "claim"
      /\ RowsOK(boundaries, tracks) /\ Ready(boundaries, todo)
      /\ Len(todo) \in Nat
  BY <1>1, UnderWay
<1>3. /\ Proceed(Tail(todo)) /\ tracks' = tracks /\ unsettled' = unsettled
      /\ boundaries' = [boundaries EXCEPT ![Next1.id] = claimed(Next1.id)]
  BY DEF ClaimBoundary
<1>4. ASSUME NEW b \in DOMAIN boundaries
      PROVE  /\ boundaries[b] \in Boundary
             /\ claimed(b) \in Boundary /\ SamePlace(claimed(b), boundaries[b])
             /\ SamePlace(boundaries[b], boundaries[b])
  <2>1. boundaries[b] \in Boundary
    BY <1>2, RowsTyped
  <2>2. claimed(b) \in Boundary
    BY <2>1 DEF Boundary, Provenances
  <2>3. SamePlace(claimed(b), boundaries[b])
    BY <2>1, BoundaryFields DEF SamePlace
  <2> QED
    BY <2>1, <2>2, <2>3 DEF SamePlace
<1> HIDE DEF claimed
<1>5. boundaries' \in [DOMAIN boundaries -> Boundary]
  BY <1>3, <1>4
<1>6. \A b \in DOMAIN boundaries : SamePlace(boundaries'[b], boundaries[b])
  BY <1>3, <1>4
<1>7. /\ RowsOK(boundaries', tracks)
      /\ \A b, edge : Edged(boundaries, b, edge) => Edged(boundaries', b, edge)
      /\ \A st : PutReady(boundaries, st) => PutReady(boundaries', st)
  BY <1>2, <1>5, <1>6, PlacesKept
<1>8. \A i \in 2 .. Len(todo) : todo[i].do = "put" => PutReady(boundaries', todo[i])
  <2>1. \A i \in 2 .. Len(todo) : i \in 1 .. Len(todo)
    BY <1>2
  <2> QED
    BY <1>2, <1>7, <2>1 DEF Ready, PutsReady
<1>9. Ready(boundaries', Tail(todo))
  BY <1>2, <1>7, <1>8, ReadyKept
<1> QED
  BY <1>2, <1>3, <1>7, <1>9, ProceedKeeps DEF EditInv, TypeOK

LEMMA RehomeKeeps ==
  ASSUME EditInv, RehomeBoundaries
  PROVE  EditInv'
<1>1. Is("rehome")
  BY DEF RehomeBoundaries
<1>2. /\ todo \in Seq(Statements) /\ todo # <<>>
      /\ Next1 = todo[1] /\ todo[1].do = "rehome" /\ todo[1] \in Statements
      /\ RowsOK(boundaries, tracks) /\ Ready(boundaries, todo)
  BY <1>1, UnderWay
<1>3. Next1.side \in Sides
  BY <1>2, StatementFields
<1>4. /\ Proceed(Tail(todo)) /\ tracks' = tracks /\ unsettled' = unsettled
      /\ Unique(boundaries')
      /\ boundaries' = [b \in DOMAIN boundaries |->
                          IF b \in Next1.ids THEN [boundaries[b] EXCEPT !.side = Next1.side]
                                             ELSE boundaries[b]]
  BY DEF RehomeBoundaries
<1>5. ASSUME NEW b \in DOMAIN boundaries
      PROVE  boundaries'[b] \in Boundary /\ boundaries'[b].edge = boundaries[b].edge
  <2>1. boundaries[b] \in Boundary
    BY <1>2, RowsTyped
  <2>2. [boundaries[b] EXCEPT !.side = Next1.side] \in Boundary
    BY <1>3, <2>1 DEF Boundary
  <2>3. [boundaries[b] EXCEPT !.side = Next1.side].edge = boundaries[b].edge
    BY <2>1 DEF Boundary
  <2> QED
    BY <1>4, <2>1, <2>2, <2>3
<1>6. boundaries' \in [DOMAIN boundaries -> Boundary]
  <2>1. boundaries' = [b \in DOMAIN boundaries |-> boundaries'[b]]
    BY <1>4
  <2> QED
    BY <1>5, <2>1
<1>7. RowsOK(boundaries', tracks)
  BY <1>2, <1>4, <1>5, <1>6, RowsChanged
<1>8. Ready(boundaries', Tail(todo))
  BY <1>2, ReadyUpset DEF Upsetting
<1> QED
  BY <1>2, <1>4, <1>7, <1>8, ProceedKeeps DEF EditInv, TypeOK

LEMMA RehomeTrackKeeps ==
  ASSUME EditInv, RehomeTrack
  PROVE  EditInv'
<1> DEFINE number == NextNumber(tracks, Next1.side)
           moved(t) == [tracks[t] EXCEPT !.side = Next1.side, !.number = number]
<1>1. Is("adoptTrack")
  BY DEF RehomeTrack
<1>2. /\ todo \in Seq(Statements) /\ todo # <<>>
      /\ Next1 = todo[1] /\ todo[1].do = "adoptTrack" /\ todo[1] \in Statements
      /\ RowsOK(boundaries, tracks) /\ Ready(boundaries, todo)
  BY <1>1, UnderWay
<1>3. Next1.side \in Sides /\ number \in Nat \ {0}
  BY <1>2, StatementFields, NumberFollows
<1>4. /\ Proceed(Tail(todo)) /\ boundaries' = boundaries /\ unsettled' = unsettled
      /\ tracks' = [tracks EXCEPT ![Next1.track] = moved(Next1.track)]
  BY DEF RehomeTrack
<1> HIDE DEF number
<1>5. ASSUME NEW t \in DOMAIN tracks
      PROVE  /\ tracks[t] \in Track /\ moved(t) \in Track
             /\ moved(t).start = tracks[t].start /\ moved(t).end = tracks[t].end
  <2>1. tracks[t] \in Track
    BY <1>2, RowsTyped
  <2> QED
    BY <1>3, <2>1 DEF Track
<1> HIDE DEF moved
<1>6. tracks' \in [DOMAIN tracks -> Track]
  BY <1>4, <1>5
<1>7. \A t \in DOMAIN tracks : /\ tracks'[t].start = tracks[t].start
                               /\ tracks'[t].end = tracks[t].end
  BY <1>4, <1>5
<1>8. RowsOK(boundaries, tracks')
  BY <1>2, <1>6, <1>7, TracksChanged
<1>9. Ready(boundaries, Tail(todo))
  BY <1>2, ReadyAsBefore
<1> QED
  BY <1>2, <1>4, <1>8, <1>9, ProceedKeeps DEF EditInv, TypeOK

----------------------------------------------------------------------------
(* The pairing.                                                            *)

Opening(s) == InOrder(Opens(Free(s)), Ascending(Opens(Free(s))))

LEMMA FreeListed ==
  ASSUME RowsOK(boundaries, tracks), NEW s
  PROVE  /\ Free(s) \in Seq(DOMAIN boundaries) /\ Len(Free(s)) \in Nat
         /\ \A i \in 1 .. Len(Free(s)) :
               /\ Free(s)[i] \in DOMAIN boundaries /\ Free(s)[i] \in BoundaryIds
               /\ boundaries[Free(s)[i]].at \in Nat
               /\ \A t \in TracksOn(tracks, s) :
                     ~ Inside(boundaries, tracks, t, boundaries[Free(s)[i]].at)
         /\ \A i, j \in 1 .. Len(Free(s)) :
               i < j => boundaries[Free(s)[i]].at <= boundaries[Free(s)[j]].at
<1> DEFINE S == {b \in BoundariesOn(s) :
                   \A t \in TracksOn(tracks, s) :
                      /\ b \notin {tracks[t].start, tracks[t].end}
                      /\ ~ Inside(boundaries, tracks, t, boundaries[b].at)}
<1>1. S \subseteq DOMAIN boundaries /\ \A b \in S : boundaries[b].side = s
  BY DEF BoundariesOn
<1>2. \A b \in S : \A t \in TracksOn(tracks, s) :
         ~ Inside(boundaries, tracks, t, boundaries[b].at)
  OBVIOUS
<1>3. Free(s) = InOrder(S, TimelineOrder(boundaries))
  BY DEF Free
<1> HIDE DEF S
<1>4. IsFiniteSet(S)
  <2>1. S \subseteq BoundaryIds
    BY <1>1 DEF RowsOK
  <2> QED
    BY <2>1, FS_Subset, TrackAssumption
<1>5. Orders(TimelineOrder(boundaries), S)
  BY <1>1, TimelineOrders
<1> DEFINE list == Free(s)
<1>6. /\ list \in Seq(S) /\ Len(list) = Cardinality(S)
      /\ \A i, j \in 1 .. Len(list) : i < j => <<list[i], list[j]>> \in TimelineOrder(boundaries)
  <2> HIDE DEF list
  <2>1. list = InOrder(S, TimelineOrder(boundaries))
    BY <1>3 DEF list
  <2> QED
    BY <1>4, <1>5, <2>1, Listed
<1>7. Len(list) \in Nat
  BY <1>4, <1>6, FS_CardinalityType
<1>8. \A i \in 1 .. Len(list) : list[i] \in S
  BY <1>6, ElementOfSeq
<1>9. list \in Seq(DOMAIN boundaries)
  BY <1>1, <1>6, SeqMonotonic
<1>10. \A b \in S : boundaries[b].at \in Nat /\ b \in BoundaryIds
  BY <1>1, RowsTyped
<1>11. \A b, c \in S : <<b, c>> \in TimelineOrder(boundaries) => boundaries[b].at <= boundaries[c].at
  BY <1>10 DEF TimelineOrder
<1> HIDE DEF list
<1>12. \A i, j \in 1 .. Len(list) : i < j => boundaries[list[i]].at <= boundaries[list[j]].at
  BY <1>6, <1>8, <1>11
<1>13. \A i \in 1 .. Len(list) :
               /\ list[i] \in DOMAIN boundaries /\ list[i] \in BoundaryIds
               /\ boundaries[list[i]].at \in Nat
               /\ \A t \in TracksOn(tracks, s) :
                     ~ Inside(boundaries, tracks, t, boundaries[list[i]].at)
  BY <1>1, <1>2, <1>8, <1>10
<1> QED
  BY <1>7, <1>9, <1>12, <1>13 DEF list

LEMMA OpeningListed ==
  ASSUME RowsOK(boundaries, tracks), NEW s
  PROVE  /\ Opening(s) \in Seq(Opens(Free(s))) /\ Len(Opening(s)) \in Nat
         /\ \A k \in 1 .. Len(Opening(s)) : Opening(s)[k] \in Opens(Free(s))
         /\ \A k, m \in 1 .. Len(Opening(s)) : k < m => Opening(s)[k] < Opening(s)[m]
<1> DEFINE S == Opens(Free(s))
<1>1. Len(Free(s)) \in Nat
  BY FreeListed
<1>2. S \subseteq 1 .. Len(Free(s)) - 1
  BY DEF Opens
<1>3. S \subseteq Nat /\ IsFiniteSet(S)
  <2>1. IsFiniteSet(1 .. Len(Free(s)) - 1)
    BY <1>1, FS_Interval
  <2> QED
    BY <1>1, <1>2, <2>1, FS_Subset
<1> HIDE DEF S
<1>4. Opening(s) = InOrder(S, Ascending(S))
  BY DEF Opening, S
<1> DEFINE list == Opening(s)
<1>5. /\ list \in Seq(S) /\ Len(list) = Cardinality(S)
      /\ \A i, j \in 1 .. Len(list) : i < j => <<list[i], list[j]>> \in Ascending(S)
  <2> HIDE DEF list
  <2>1. list = InOrder(S, Ascending(S))
    BY <1>4 DEF list
  <2>2. Orders(Ascending(S), S)
    BY <1>3, AscendingOrders
  <2> QED
    BY <1>3, <2>1, <2>2, Listed
<1>6. Len(list) \in Nat
  BY <1>3, <1>5, FS_CardinalityType
<1>7. \A i \in 1 .. Len(list) : list[i] \in S
  BY <1>5, ElementOfSeq
<1> HIDE DEF list
<1>8. \A i, j \in 1 .. Len(list) : i < j => list[i] < list[j]
  BY <1>5 DEF Ascending
<1> QED
  BY <1>5, <1>6, <1>7, <1>8 DEF list, S

LEMMA PairShape ==
  ASSUME RowsOK(boundaries, tracks), NEW s \in Sides
  PROVE  LET list == PairStatements(s)
             free == Free(s)
         IN  /\ Len(list) \in Nat /\ list \in Seq(Statements)
             /\ Len(list) = 2 * Len(Opening(s))
             /\ \A k \in 1 .. Len(list) :
                   LET i == Opening(s)[(k + 1) \div 2]
                   IN  /\ (k + 1) \div 2 \in 1 .. Len(Opening(s))
                       /\ i \in Opens(free) /\ i \in 1 .. Len(free) /\ i + 1 \in 1 .. Len(free)
                       /\ list[k] = IF k % 2 = 1 THEN Insert(s, free[i], free[i + 1])
                                                 ELSE Renumber(s)
<1> DEFINE free == Free(s)
           opens == Opening(s)
           n == 2 * Len(opens)
           list == PairStatements(s)
           half(k) == (k + 1) \div 2
<1>1. list = [k \in 1 .. n |->
                 IF k % 2 = 1 THEN Insert(s, free[opens[half(k)]], free[opens[half(k)] + 1])
                              ELSE Renumber(s)]
  BY DEF PairStatements, Opening
<1>2. Len(opens) \in Nat /\ \A k \in 1 .. Len(opens) : opens[k] \in Opens(free)
  BY OpeningListed
<1>3. Len(free) \in Nat /\ \A i \in 1 .. Len(free) : free[i] \in BoundaryIds
  BY FreeListed
<1>4. \A i \in Opens(free) : i \in 1 .. Len(free) - 1
  BY DEF Opens
<1> HIDE DEF free, opens, list
<1>5. \A k \in 1 .. n : half(k) \in 1 .. Len(opens)
  BY <1>2
<1>6. ASSUME NEW k \in 1 .. n
      PROVE  LET i == opens[half(k)]
             IN  /\ i \in Opens(free) /\ i \in 1 .. Len(free) /\ i + 1 \in 1 .. Len(free)
                 /\ list[k] = IF k % 2 = 1 THEN Insert(s, free[i], free[i + 1])
                                           ELSE Renumber(s)
                 /\ list[k] \in Statements
  <2> DEFINE i == opens[half(k)]
  <2>1. i \in Opens(free)
    BY <1>2, <1>5
  <2>2. i \in 1 .. Len(free) /\ i + 1 \in 1 .. Len(free)
    BY <1>3, <1>4, <2>1
  <2>3. list[k] = IF k % 2 = 1 THEN Insert(s, free[i], free[i + 1]) ELSE Renumber(s)
    BY <1>1
  <2> HIDE DEF i
  <2>4. free[i] \in BoundaryIds /\ free[i + 1] \in BoundaryIds
    BY <1>3, <2>2
  <2>5. Insert(s, free[i], free[i + 1]) \in Statements /\ Renumber(s) \in Statements
    BY <2>4 DEF Statements, Insert, Renumber
  <2>6. list[k] \in Statements
    BY <2>3, <2>5
  <2> QED
    BY <2>1, <2>2, <2>3, <2>6 DEF i
<1>7. n \in Nat
  BY <1>2
<1>8. DOMAIN list = 1 .. n /\ list \in [1 .. n -> Statements]
  <2>1. list = [k \in 1 .. n |-> list[k]]
    BY <1>1
  <2> HIDE DEF n, half
  <2> QED
    BY <1>6, <2>1
<1> HIDE DEF n
<1>9. list \in Seq(Statements) /\ Len(list) = n
  BY <1>7, <1>8
<1> QED
  BY <1>5, <1>6, <1>7, <1>9 DEF list, free, opens, n

LEMMA PairsReady ==
  ASSUME RowsOK(boundaries, tracks), NEW s \in Sides, NEW v
  PROVE  LET list == PairStatements(s)
         IN  /\ list \in Seq(Statements)
             /\ \A k \in 1 .. Len(list) : list[k].do \in {"insert", "renumber"}
             /\ Ready(boundaries, list) /\ FitsAll(list, v)
<1> DEFINE list == PairStatements(s)
           free == Free(s)
           at(k) == Opening(s)[(k + 1) \div 2]
<1>1. list \in Seq(Statements) /\ Len(list) \in Nat
  BY PairShape
<1>2. ASSUME NEW k \in 1 .. Len(list)
      PROVE  /\ at(k) \in Opens(free) /\ at(k) \in 1 .. Len(free) /\ at(k) + 1 \in 1 .. Len(free)
             /\ list[k] = IF k % 2 = 1 THEN Insert(s, free[at(k)], free[at(k) + 1]) ELSE Renumber(s)
  BY PairShape
<1>3. \A i \in 1 .. Len(free) : free[i] \in DOMAIN boundaries
  BY FreeListed
<1>4. \A i \in Opens(free) : /\ boundaries[free[i]].edge = "start"
                             /\ boundaries[free[i + 1]].edge = "end"
  BY DEF Opens
<1> HIDE DEF list, free, at
<1>5. ASSUME NEW k \in 1 .. Len(list)
      PROVE  /\ list[k].do \in {"insert", "renumber"}
             /\ list[k].do = "insert" => /\ Edged(boundaries, list[k].start, "start")
                                         /\ Edged(boundaries, list[k].end, "end")
  <2>1. CASE k % 2 = 1
    <3>1. list[k] = Insert(s, free[at(k)], free[at(k) + 1])
      BY <1>2, <2>1
    <3>2. /\ list[k].do = "insert"
          /\ list[k].start = free[at(k)] /\ list[k].end = free[at(k) + 1]
      BY <3>1 DEF Insert
    <3> QED
      BY <1>2, <1>3, <1>4, <3>2 DEF Edged
  <2>2. CASE k % 2 # 1
    BY <1>2, <2>2 DEF Renumber
  <2> QED
    BY <2>1, <2>2
<1>6. Ready(boundaries, list)
  BY <1>5 DEF Ready, PutsReady, PutsDiffer, EndsAwaited, Awaits, NamesFirst, PairsLast, Upsetting
<1>7. FitsAll(list, v)
  BY <1>5 DEF FitsAll, Fits
<1> QED
  BY <1>1, <1>5, <1>6, <1>7 DEF list

LEMMA OnlyThePairing ==
  ASSUME EditInv, PairFree
  PROVE  Tail(todo) = <<>> /\ Next1.side \in Sides
<1>1. Is("pair")
  BY DEF PairFree
<1>2. /\ todo \in Seq(Statements) /\ todo # <<>>
      /\ Next1 = todo[1] /\ todo[1].do = "pair" /\ todo[1] \in Statements
      /\ Len(todo) \in Nat /\ Len(todo) > 0
      /\ Ready(boundaries, todo)
  BY <1>1, UnderWay
<1>3. Len(todo) = 1
  <2>1. 1 \in 1 .. Len(todo)
    BY <1>2
  <2> QED
    BY <1>2, <2>1 DEF Ready, PairsLast
<1>4. Tail(todo) \in Seq(Statements) /\ Len(Tail(todo)) = 0
  BY <1>2, <1>3, TailOf
<1> QED
  BY <1>2, <1>4, EmptySeq, StatementFields

LEMMA PairKeeps ==
  ASSUME EditInv, PairFree
  PROVE  EditInv'
<1> DEFINE list == PairStatements(Next1.side)
<1>1. RowsOK(boundaries, tracks) /\ Next1.side \in Sides
  BY OnlyThePairing DEF EditInv, TypeOK
<1>2. list \in Seq(Statements) /\ Ready(boundaries, list) /\ FitsAll(list, verb')
  BY <1>1, PairsReady
<1>3. /\ todo' = list /\ capture' = capture /\ edits' = edits
      /\ boundaries' = boundaries /\ tracks' = tracks /\ unsettled' = unsettled
  BY DEF PairFree, Proceed
<1> HIDE DEF list
<1>4. TypeOK'
  BY <1>3 DEF EditInv, TypeOK
<1> QED
  BY <1>2, <1>3, <1>4 DEF EditInv

----------------------------------------------------------------------------
(* The statements a verb begins with.                                      *)

LEMMA FreshListed ==
  ASSUME RowsOK(boundaries, tracks)
  PROVE  /\ Len(Fresh) \in Nat
         /\ \A i \in 1 .. Len(Fresh) : Fresh[i] \in BoundaryIds \ DOMAIN boundaries
         /\ \A i, j \in 1 .. Len(Fresh) : i # j => Fresh[i] # Fresh[j]
<1> DEFINE S == BoundaryIds \ DOMAIN boundaries
<1>1. S \subseteq Nat /\ IsFiniteSet(S)
  BY FS_Subset, TrackAssumption
<1> HIDE DEF S
<1>2. Orders(Ascending(S), S)
  BY <1>1, AscendingOrders
<1>3. Fresh = InOrder(S, Ascending(S))
  BY DEF Fresh, S
<1> DEFINE list == Fresh
<1> HIDE DEF list
<1>4. list = InOrder(S, Ascending(S))
  BY <1>3 DEF list
<1>5. /\ list \in Seq(S) /\ Len(list) = Cardinality(S)
      /\ \A i, j \in 1 .. Len(list) : list[i] = list[j] => i = j
  BY <1>1, <1>2, <1>4, Listed
<1>6. Len(list) \in Nat
  BY <1>1, <1>5, FS_CardinalityType
<1>7. \A i \in 1 .. Len(list) : list[i] \in S
  BY <1>5, ElementOfSeq
<1> QED
  BY <1>5, <1>6, <1>7 DEF list, S

There(row) == RowAt(boundaries, row.side, row.at, row.edge)

LEMMA PutFields ==
  ASSUME RowsOK(boundaries, tracks), NEW row \in Boundary, NEW n,
         There(row) = {} => n \in 1 .. Len(Fresh)
  PROVE  LET st == Put(row, n)
         IN  /\ st \in Statements /\ st.do = "put" /\ st.row = row
             /\ st.id \in BoundaryIds /\ PutReady(boundaries, st)
             /\ There(row) = {} => st.id = Fresh[n] /\ st.id \notin DOMAIN boundaries
             /\ There(row) # {} => /\ st.id \in DOMAIN boundaries
                                   /\ SamePlace(boundaries[st.id], row)
<1> DEFINE id == IF There(row) # {} THEN CHOOSE b \in There(row) : TRUE ELSE Fresh[n]
           st == Put(row, n)
<1>1. st = [do |-> "put", row |-> row, id |-> id]
  BY DEF Put, There
<1>2. CASE There(row) = {}
  <2>1. id = Fresh[n] /\ id \in BoundaryIds /\ id \notin DOMAIN boundaries
    BY <1>2, FreshListed
  <2>2. \A b \in DOMAIN boundaries : ~ SamePlace(boundaries[b], row)
    BY <1>2 DEF There, RowAt, SamePlace
  <2> HIDE DEF id, st
  <2>3. st.do = "put" /\ st.row = row /\ st.id = id
    BY <1>1
  <2>4. st \in Statements
    BY <1>1, <2>1 DEF Statements
  <2>5. PutReady(boundaries, st)
    BY <2>1, <2>2, <2>3 DEF PutReady
  <2>6. /\ st \in Statements /\ st.do = "put" /\ st.row = row
        /\ st.id \in BoundaryIds /\ PutReady(boundaries, st)
        /\ st.id = Fresh[n] /\ st.id \notin DOMAIN boundaries
    BY <2>1, <2>3, <2>4, <2>5
  <2> QED
    BY <1>2, <2>6 DEF st
<1>3. CASE There(row) # {}
  <2>1. id \in There(row)
    BY <1>3
  <2>2. /\ id \in DOMAIN boundaries /\ id \in BoundaryIds
        /\ SamePlace(boundaries[id], row)
    BY <2>1 DEF There, RowAt, SamePlace, RowsOK
  <2> HIDE DEF id, st
  <2>3. st.do = "put" /\ st.row = row /\ st.id = id
    BY <1>1
  <2>4. st \in Statements
    BY <1>1, <2>2 DEF Statements
  <2>5. PutReady(boundaries, st)
    BY <2>2, <2>3 DEF PutReady
  <2>6. /\ st \in Statements /\ st.do = "put" /\ st.row = row
        /\ st.id \in BoundaryIds /\ PutReady(boundaries, st)
        /\ st.id \in DOMAIN boundaries /\ SamePlace(boundaries[st.id], row)
    BY <2>2, <2>3, <2>4, <2>5
  <2> QED
    BY <1>3, <2>6 DEF st
<1> QED
  BY <1>2, <1>3

LEMMA PutsApart ==
  ASSUME RowsOK(boundaries, tracks), NEW row \in Boundary, NEW n, NEW row2 \in Boundary, NEW n2,
         There(row) = {} => n \in 1 .. Len(Fresh),
         There(row2) = {} => n2 \in 1 .. Len(Fresh),
         There(row) = {} /\ There(row2) = {} => n # n2,
         ~ SamePlace(row, row2)
  PROVE  Put(row, n).id # Put(row2, n2).id
<1> DEFINE a == Put(row, n)
           b == Put(row2, n2)
<1>1. /\ There(row) = {} => a.id = Fresh[n] /\ a.id \notin DOMAIN boundaries
      /\ There(row) # {} => a.id \in DOMAIN boundaries /\ SamePlace(boundaries[a.id], row)
  BY PutFields
<1>2. /\ There(row2) = {} => b.id = Fresh[n2] /\ b.id \notin DOMAIN boundaries
      /\ There(row2) # {} => b.id \in DOMAIN boundaries /\ SamePlace(boundaries[b.id], row2)
  BY PutFields
<1> HIDE DEF a, b
<1>3. CASE There(row) = {} /\ There(row2) = {}
  <2>1. Fresh[n] # Fresh[n2]
    BY <1>3, FreshListed
  <2> QED
    BY <1>1, <1>2, <1>3, <2>1 DEF a, b
<1>4. CASE There(row) # {} /\ There(row2) # {}
  <2>1. SamePlace(boundaries[a.id], row) /\ SamePlace(boundaries[b.id], row2)
    BY <1>1, <1>2, <1>4
  <2>2. a.id # b.id
    BY <2>1 DEF SamePlace
  <2> QED
    BY <2>2 DEF a, b
<1>5. CASE (There(row) = {}) # (There(row2) = {})
  BY <1>1, <1>2, <1>5 DEF a, b
<1> QED
  BY <1>3, <1>4, <1>5

LEMMA BeginKeeps ==
  ASSUME EditInv, Idle, NEW name, NEW list, Begin(name, list),
         list \in Seq(Statements), Ready(boundaries, list), FitsAll(list, name)
  PROVE  EditInv'
<1>1. /\ todo' = list /\ verb' = name /\ edits' = edits + 1 /\ capture' = capture
      /\ boundaries' = boundaries /\ tracks' = tracks /\ unsettled' = unsettled
  BY DEF Begin
<1>2. edits + 1 \in 0 .. MaxEdits
  BY TrackAssumption DEF EditInv, TypeOK, Idle
<1>3. TypeOK'
  BY <1>1, <1>2 DEF EditInv, TypeOK
<1> QED
  BY <1>1, <1>3 DEF EditInv

LEMMA UserRow ==
  ASSUME NEW s \in Sides, NEW at \in Frames, NEW edge \in Edges
  PROVE  /\ ByUser(s, at, edge) \in Boundary
         /\ ByUser(s, at, edge).edge = edge
BY DEF ByUser, Boundary, Provenances

(***************************************************************************)
(* Two edges put by the operator, and what is said with them.              *)
(***************************************************************************)
LEMMA EdgesPut ==
  ASSUME RowsOK(boundaries, tracks), Room(2), NEW s \in Sides,
         NEW at \in Frames, NEW at2 \in Frames, NEW edge \in Edges, NEW edge2 \in Edges,
         edge # edge2
  PROVE  LET a == Put(ByUser(s, at, edge), 1)
             b == Put(ByUser(s, at2, edge2), 2)
         IN  /\ a \in Statements /\ a.do = "put" /\ a.row.edge = edge
             /\ a.id \in BoundaryIds /\ PutReady(boundaries, a)
             /\ b \in Statements /\ b.do = "put" /\ b.row.edge = edge2
             /\ b.id \in BoundaryIds /\ PutReady(boundaries, b)
             /\ a.id # b.id /\ ~ SamePlace(a.row, b.row)
<1> DEFINE r == ByUser(s, at, edge)
           r2 == ByUser(s, at2, edge2)
<1>1. r \in Boundary /\ r.edge = edge /\ r2 \in Boundary /\ r2.edge = edge2
  BY UserRow
<1>2. 1 \in 1 .. Len(Fresh) /\ 2 \in 1 .. Len(Fresh) /\ 1 # 2
  BY FreshListed DEF Room
<1> HIDE DEF r, r2
<1>3. ~ SamePlace(r, r2)
  BY <1>1 DEF SamePlace
<1>4. Put(r, 1).id # Put(r2, 2).id
  BY <1>1, <1>2, <1>3, PutsApart
<1>5. /\ Put(r, 1) \in Statements /\ Put(r, 1).do = "put" /\ Put(r, 1).row = r
      /\ Put(r, 1).id \in BoundaryIds /\ PutReady(boundaries, Put(r, 1))
  BY <1>1, <1>2, PutFields
<1>6. /\ Put(r2, 2) \in Statements /\ Put(r2, 2).do = "put" /\ Put(r2, 2).row = r2
      /\ Put(r2, 2).id \in BoundaryIds /\ PutReady(boundaries, Put(r2, 2))
  BY <1>1, <1>2, PutFields
<1> QED
  BY <1>1, <1>3, <1>4, <1>5, <1>6 DEF r, r2

LEMMA AddBegins ==
  ASSUME EditInv, NEW s \in Sides, NEW start \in Frames, NEW end \in Frames,
         AddTrack(s, start, end)
  PROVE  EditInv'
<1> DEFINE a == Put(ByUser(s, start, "start"), 1)
           b == Put(ByUser(s, end, "end"), 2)
           c == Insert(s, a.id, b.id)
           d == Renumber(s)
           list == <<a, b, c, d>>
<1>1. RowsOK(boundaries, tracks) /\ Idle /\ Room(2) /\ Begin("add", list)
  BY DEF EditInv, TypeOK, AddTrack
<1>2. /\ a \in Statements /\ a.do = "put" /\ a.row.edge = "start"
      /\ a.id \in BoundaryIds /\ PutReady(boundaries, a)
      /\ b \in Statements /\ b.do = "put" /\ b.row.edge = "end"
      /\ b.id \in BoundaryIds /\ PutReady(boundaries, b)
      /\ a.id # b.id /\ ~ SamePlace(a.row, b.row)
  BY <1>1, EdgesPut DEF Edges
<1> HIDE DEF a, b
<1>3. /\ c \in Statements /\ c.do = "insert" /\ c.start = a.id /\ c.end = b.id
      /\ d \in Statements /\ d.do = "renumber"
  BY <1>2 DEF Insert, Renumber, Statements
<1> HIDE DEF c, d
<1>4. list \in Seq(Statements) /\ Len(list) = 4
  BY <1>2, <1>3
<1>5. list[1] = a /\ list[2] = b /\ list[3] = c /\ list[4] = d
  OBVIOUS
<1>6. \A i \in 1 .. Len(list) : i = 1 \/ i = 2 \/ i = 3 \/ i = 4
  BY <1>4
<1>7. 1 \in 1 .. 3 - 1 /\ 2 \in 1 .. 3 - 1
  OBVIOUS
<1> HIDE DEF list
<1>8. EndsAwaited(boundaries, list)
  <2>1. /\ Awaits(boundaries, list, 3, c.start, "start")
        /\ Awaits(boundaries, list, 3, c.end, "end")
    BY <1>2, <1>3, <1>5, <1>7 DEF Awaits
  <2> QED
    BY <1>2, <1>3, <1>5, <1>6, <2>1 DEF EndsAwaited
<1>9. PutsReady(boundaries, list)
  BY <1>2, <1>3, <1>5, <1>6 DEF PutsReady
<1>10. PutsDiffer(list)
  BY <1>2, <1>3, <1>5, <1>6 DEF PutsDiffer
<1>11. NamesFirst(list) /\ PairsLast(list)
  BY <1>2, <1>3, <1>5, <1>6 DEF NamesFirst, PairsLast, Upsetting
<1>12. FitsAll(list, "add")
  BY <1>2, <1>3, <1>5, <1>6 DEF FitsAll, Fits
<1> QED
  BY <1>1, <1>4, <1>8, <1>9, <1>10, <1>11, <1>12, BeginKeeps DEF Ready

LEMMA SplitBegins ==
  ASSUME EditInv, NEW t \in DOMAIN tracks, NEW at \in Frames, Split(t, at)
  PROVE  EditInv'
<1> DEFINE s == tracks[t].side
           a == Put(ByUser(s, at, "end"), 1)
           b == Put(ByUser(s, at, "start"), 2)
           c == SetEnd(t, a.id)
           d == Insert(s, b.id, tracks[t].end)
           e == Renumber(s)
           list == <<a, b, c, d, e>>
<1>1. RowsOK(boundaries, tracks) /\ Idle /\ Room(2) /\ Begin("split", list)
  BY DEF EditInv, TypeOK, Split
<1>2. /\ s \in Sides /\ t \in TrackIds /\ tracks[t].end \in BoundaryIds
      /\ Edged(boundaries, tracks[t].end, "end")
  BY <1>1, RowsTyped DEF Edged, RowsOK
<1> HIDE DEF s
<1>3. /\ a \in Statements /\ a.do = "put" /\ a.row.edge = "end"
      /\ a.id \in BoundaryIds /\ PutReady(boundaries, a)
      /\ b \in Statements /\ b.do = "put" /\ b.row.edge = "start"
      /\ b.id \in BoundaryIds /\ PutReady(boundaries, b)
      /\ a.id # b.id /\ ~ SamePlace(a.row, b.row)
  BY <1>1, <1>2, EdgesPut DEF Edges
<1> HIDE DEF a, b
<1>4. /\ c \in Statements /\ c.do = "setEnd" /\ c.end = a.id
      /\ d \in Statements /\ d.do = "insert" /\ d.start = b.id /\ d.end = tracks[t].end
      /\ e \in Statements /\ e.do = "renumber"
  BY <1>2, <1>3 DEF SetEnd, Insert, Renumber, Statements
<1> HIDE DEF c, d, e
<1>5. list \in Seq(Statements) /\ Len(list) = 5
  BY <1>3, <1>4
<1>6. list[1] = a /\ list[2] = b /\ list[3] = c /\ list[4] = d /\ list[5] = e
  OBVIOUS
<1>7. \A i \in 1 .. Len(list) : i = 1 \/ i = 2 \/ i = 3 \/ i = 4 \/ i = 5
  BY <1>5
<1>8. 1 \in 1 .. 3 - 1 /\ 2 \in 1 .. 4 - 1
  OBVIOUS
<1> HIDE DEF list
<1>9. EndsAwaited(boundaries, list)
  <2>1. /\ Awaits(boundaries, list, 3, c.end, "end")
        /\ Awaits(boundaries, list, 4, d.start, "start")
        /\ Awaits(boundaries, list, 4, d.end, "end")
    BY <1>2, <1>3, <1>4, <1>6, <1>8 DEF Awaits
  <2> QED
    BY <1>3, <1>4, <1>6, <1>7, <2>1 DEF EndsAwaited
<1>10. PutsReady(boundaries, list)
  BY <1>3, <1>4, <1>6, <1>7 DEF PutsReady
<1>11. PutsDiffer(list)
  BY <1>3, <1>4, <1>6, <1>7 DEF PutsDiffer
<1>12. NamesFirst(list) /\ PairsLast(list)
  BY <1>3, <1>4, <1>6, <1>7 DEF NamesFirst, PairsLast, Upsetting
<1>13. FitsAll(list, "split")
  BY <1>3, <1>4, <1>6, <1>7 DEF FitsAll, Fits
<1> QED
  BY <1>1, <1>5, <1>9, <1>10, <1>11, <1>12, <1>13, BeginKeeps DEF Ready

LEMMA MergeBegins ==
  ASSUME EditInv, NEW left \in DOMAIN tracks, NEW right \in DOMAIN tracks, Merge(left, right)
  PROVE  EditInv'
<1> DEFINE a == Delete(right)
           b == SetEnd(left, tracks[right].end)
           c == DropIfFree(tracks[left].end)
           d == DropIfFree(tracks[right].start)
           e == Renumber(tracks[left].side)
           list == <<a, b, c, d, e>>
<1>1. RowsOK(boundaries, tracks) /\ Idle /\ Begin("merge", list)
  BY DEF EditInv, TypeOK, Merge
<1>2. /\ left \in TrackIds /\ right \in TrackIds /\ tracks[left].side \in Sides
      /\ tracks[left].end \in BoundaryIds
      /\ tracks[right].start \in BoundaryIds /\ tracks[right].end \in BoundaryIds
      /\ Edged(boundaries, tracks[right].end, "end")
  BY <1>1, RowsTyped DEF Edged, RowsOK
<1>3. /\ a \in Statements /\ a.do = "delete"
      /\ b \in Statements /\ b.do = "setEnd" /\ b.end = tracks[right].end
      /\ c \in Statements /\ c.do = "drop"
      /\ d \in Statements /\ d.do = "drop"
      /\ e \in Statements /\ e.do = "renumber"
  BY <1>2 DEF Delete, SetEnd, DropIfFree, Renumber, Statements
<1> HIDE DEF a, b, c, d, e
<1>4. list \in Seq(Statements) /\ Len(list) = 5
  BY <1>3
<1>5. list[1] = a /\ list[2] = b /\ list[3] = c /\ list[4] = d /\ list[5] = e
  OBVIOUS
<1>6. \A i \in 1 .. Len(list) : i = 1 \/ i = 2 \/ i = 3 \/ i = 4 \/ i = 5
  BY <1>4
<1> HIDE DEF list
<1>7. EndsAwaited(boundaries, list)
  BY <1>2, <1>3, <1>5, <1>6 DEF EndsAwaited, Awaits
<1>8. PutsReady(boundaries, list) /\ PutsDiffer(list) /\ PairsLast(list)
  BY <1>3, <1>5, <1>6 DEF PutsReady, PutsDiffer, PairsLast
<1>9. NamesFirst(list)
  BY <1>3, <1>5, <1>6 DEF NamesFirst, Upsetting, Naming
<1>10. FitsAll(list, "merge")
  BY <1>3, <1>5, <1>6 DEF FitsAll, Fits
<1> QED
  BY <1>1, <1>4, <1>7, <1>8, <1>9, <1>10, BeginKeeps DEF Ready

LEMMA RemoveBegins ==
  ASSUME EditInv, NEW t \in DOMAIN tracks, RemoveTrack(t)
  PROVE  EditInv'
<1> DEFINE a == Delete(t)
           b == DropIfFree(tracks[t].start)
           c == DropIfFree(tracks[t].end)
           d == Renumber(tracks[t].side)
           list == <<a, b, c, d>>
<1>1. RowsOK(boundaries, tracks) /\ Idle /\ Begin("remove", list)
  BY DEF EditInv, TypeOK, RemoveTrack
<1>2. /\ t \in TrackIds /\ tracks[t].side \in Sides
      /\ tracks[t].start \in BoundaryIds /\ tracks[t].end \in BoundaryIds
  BY <1>1, RowsTyped
<1>3. /\ a \in Statements /\ a.do = "delete"
      /\ b \in Statements /\ b.do = "drop"
      /\ c \in Statements /\ c.do = "drop"
      /\ d \in Statements /\ d.do = "renumber"
  BY <1>2 DEF Delete, DropIfFree, Renumber, Statements
<1> HIDE DEF a, b, c, d
<1>4. list \in Seq(Statements) /\ Len(list) = 4
  BY <1>3
<1>5. list[1] = a /\ list[2] = b /\ list[3] = c /\ list[4] = d
  OBVIOUS
<1>6. \A i \in 1 .. Len(list) : list[i].do \in {"delete", "drop", "renumber"}
  BY <1>3, <1>4, <1>5
<1> HIDE DEF list
<1>7. Ready(boundaries, list)
  BY <1>6 DEF Ready, EndsAwaited, PutsReady, PutsDiffer, PairsLast, NamesFirst, Naming
<1>8. FitsAll(list, "remove")
  BY <1>6 DEF FitsAll, Fits
<1> QED
  BY <1>1, <1>4, <1>7, <1>8, BeginKeeps

LEMMA ReassignBegins ==
  ASSUME EditInv, NEW t \in DOMAIN tracks, NEW to \in Sides, MoveToSide(t, to)
  PROVE  EditInv'
<1> DEFINE from == tracks[t].side
           a == [do |-> "rehome", ids |-> {tracks[t].start, tracks[t].end}, side |-> to]
           b == [do |-> "adoptTrack", track |-> t, side |-> to]
           c == Renumber(from)
           d == Renumber(to)
           list == <<a, b, c, d>>
<1>1. RowsOK(boundaries, tracks) /\ Idle /\ Begin("reassign", list)
  BY DEF EditInv, TypeOK, MoveToSide
<1>2. /\ t \in TrackIds /\ from \in Sides
      /\ tracks[t].start \in BoundaryIds /\ tracks[t].end \in BoundaryIds
  BY <1>1, RowsTyped
<1> HIDE DEF from
<1>3. /\ a \in Statements /\ a.do = "rehome"
      /\ b \in Statements /\ b.do = "adoptTrack"
      /\ c \in Statements /\ c.do = "renumber"
      /\ d \in Statements /\ d.do = "renumber"
  BY <1>2 DEF Renumber, Statements
<1> HIDE DEF a, b, c, d
<1>4. list \in Seq(Statements) /\ Len(list) = 4
  BY <1>3
<1>5. list[1] = a /\ list[2] = b /\ list[3] = c /\ list[4] = d
  OBVIOUS
<1>6. \A i \in 1 .. Len(list) : list[i].do \in {"rehome", "adoptTrack", "renumber"}
  BY <1>3, <1>4, <1>5
<1> HIDE DEF list
<1>7. Ready(boundaries, list)
  BY <1>6 DEF Ready, EndsAwaited, PutsReady, PutsDiffer, PairsLast, NamesFirst, Naming
<1>8. FitsAll(list, "reassign")
  BY <1>6 DEF FitsAll, Fits
<1> QED
  BY <1>1, <1>4, <1>7, <1>8, BeginKeeps

LEMMA ForceBegins ==
  ASSUME EditInv, NEW b \in DOMAIN boundaries, NEW to \in Frames, MoveForced(b, to)
  PROVE  EditInv'
<1> DEFINE a == [do |-> "place", id |-> b, at |-> to]
           c == [do |-> "claim", id |-> b]
           list == <<a, c>>
<1>1. RowsOK(boundaries, tracks) /\ Idle /\ Begin("force", list)
  BY DEF EditInv, TypeOK, MoveForced
<1>2. b \in BoundaryIds
  BY <1>1, RowsTyped
<1>3. /\ a \in Statements /\ a.do = "place"
      /\ c \in Statements /\ c.do = "claim"
  BY <1>2 DEF Statements
<1> HIDE DEF a, c
<1>4. list \in Seq(Statements) /\ Len(list) = 2
  BY <1>3
<1>5. list[1] = a /\ list[2] = c
  OBVIOUS
<1>6. \A i \in 1 .. Len(list) : list[i].do \in {"place", "claim"}
  BY <1>3, <1>4, <1>5
<1> HIDE DEF list
<1>7. Ready(boundaries, list)
  BY <1>6 DEF Ready, EndsAwaited, PutsReady, PutsDiffer, PairsLast, NamesFirst, Naming
<1>8. FitsAll(list, "force")
  BY <1>6 DEF FitsAll, Fits
<1> QED
  BY <1>1, <1>4, <1>7, <1>8, BeginKeeps

(***************************************************************************)
(* Adoption: as many puts as decisions, then the pairing.                  *)
(***************************************************************************)
Found(s, pass, sure)   == Decisions(s, pass, sure)
Ordered(s, pass, sure) ==
  InOrder(Found(s, pass, sure), DecisionOrder(Found(s, pass, sure)))

LEMMA ObservedTyped ==
  ASSUME RowsOK(boundaries, tracks), NEW s \in Sides, NEW pass \in Passes
  PROVE  Observed(s, pass) \subseteq Observation
<1>1. ASSUME NEW r \in RowsOn(s)
      PROVE  r.at \in Frames /\ r.edge \in Edges /\ r.prov \in Provenances
  <2>1. r \in Boundary
    BY <1>1, RowsTyped DEF RowsOn, BoundariesOn
  <2> QED
    BY <2>1 DEF Boundary
<1>2. ASSUME NEW d \in pass, NEW p \in d.sources
      PROVE  d.at \in Frames /\ d.edge \in Edges /\ p \in Provenances
  BY <1>2, PassesAssumption DEF Provenances
<1>3. ASSUME NEW o \in Observed(s, pass)
      PROVE  \/ \E r \in RowsOn(s) : o = [at |-> r.at, edge |-> r.edge, prov |-> r.prov]
             \/ \E d \in pass : \E p \in d.sources :
                   o = [at |-> d.at, edge |-> d.edge, prov |-> p]
  BY <1>3 DEF Observed
<1>4. ASSUME NEW o \in Observed(s, pass)
      PROVE  o \in Observation
  BY <1>1, <1>2, <1>3 DEF Observation
<1> QED
  BY <1>4

LEMMA FoundOnce ==
  ASSUME RowsOK(boundaries, tracks), NEW s \in Sides, NEW pass \in Passes, NEW sure
  PROVE  LET D == Found(s, pass, sure)
         IN  /\ Placed(D) /\ IsFiniteSet(D)
             /\ \A d \in D : /\ d.at \in Frames /\ d.edge \in Edges
                             /\ AsNew(s, d) \in Boundary
                             /\ AsNew(s, d).at = d.at /\ AsNew(s, d).edge = d.edge
                             /\ AsNew(s, d).side = s
<1> DEFINE O == Observed(s, pass)
           D == Found(s, pass, sure)
<1>1. D \subseteq Resolve(O, sure)
  BY DEF Found, Decisions, Adopted
<1>2. O \subseteq Observation
  BY ObservedTyped
<1> HIDE DEF O, D
<1>3. /\ Placed(Resolve(O, sure))
      /\ \A d \in Resolve(O, sure) : /\ d.at \in Frames /\ d.prov \in Provenances
                                     /\ d.locked \in BOOLEAN
  BY <1>2, OneDecision
<1>4. Placed(D) /\ \A d \in D : d.at \in Frames
  BY <1>1, <1>3 DEF Placed
<1>5. IsFiniteSet(D)
  BY <1>4, PlacedIsFinite
<1>6. ASSUME NEW d \in D
      PROVE  /\ d.at \in Frames /\ d.edge \in Edges
             /\ AsNew(s, d) \in Boundary
             /\ AsNew(s, d).at = d.at /\ AsNew(s, d).edge = d.edge
             /\ AsNew(s, d).side = s
  <2>1. /\ d.at \in Frames /\ d.edge \in Edges /\ d.prov \in Provenances
        /\ (d.locked \/ d.prov = "user") \in BOOLEAN
    BY <1>1, <1>3, <1>4 DEF Placed
  <2>2. AsNew(s, d) \in Boundary
    BY <2>1 DEF AsNew, Boundary
  <2>3. AsNew(s, d).at = d.at /\ AsNew(s, d).edge = d.edge /\ AsNew(s, d).side = s
    BY DEF AsNew
  <2> QED
    BY <2>1, <2>2, <2>3
<1> QED
  BY <1>4, <1>5, <1>6 DEF D

LEMMA FoundListed ==
  ASSUME RowsOK(boundaries, tracks), NEW s \in Sides, NEW pass \in Passes, NEW sure
  PROVE  LET list == Ordered(s, pass, sure)
         IN  /\ Len(list) \in Nat
             /\ \A i \in 1 .. Len(list) : list[i] \in Found(s, pass, sure)
             /\ \A i, j \in 1 .. Len(list) : i # j =>
                   ~ SamePlace(AsNew(s, list[i]), AsNew(s, list[j]))
<1> DEFINE D == Found(s, pass, sure)
           list == Ordered(s, pass, sure)
<1>1. /\ Placed(D) /\ IsFiniteSet(D)
      /\ \A d \in D : /\ AsNew(s, d).at = d.at /\ AsNew(s, d).edge = d.edge
                      /\ AsNew(s, d).side = s
  BY FoundOnce
<1>2. list = InOrder(D, DecisionOrder(D))
  BY DEF Ordered
<1> HIDE DEF D, list
<1>3. Orders(DecisionOrder(D), D)
  BY <1>1, DecisionsOrder
<1>4. /\ list \in Seq(D) /\ Len(list) = Cardinality(D)
      /\ \A i, j \in 1 .. Len(list) : list[i] = list[j] => i = j
  BY <1>1, <1>2, <1>3, Listed
<1>5. Len(list) \in Nat
  BY <1>1, <1>4, FS_CardinalityType
<1>6. \A i \in 1 .. Len(list) : list[i] \in D
  BY <1>4, ElementOfSeq
<1>7. ASSUME NEW i \in 1 .. Len(list), NEW j \in 1 .. Len(list), i # j
      PROVE  ~ SamePlace(AsNew(s, list[i]), AsNew(s, list[j]))
  <2>1. list[i] \in D /\ list[j] \in D /\ list[i] # list[j]
    BY <1>4, <1>6, <1>7
  <2>2. list[i].at # list[j].at \/ list[i].edge # list[j].edge
    BY <1>1, <2>1 DEF Placed
  <2> QED
    BY <1>1, <2>1, <2>2 DEF SamePlace
<1> QED
  BY <1>5, <1>6, <1>7 DEF list, D

LEMMA Counts ==
  ASSUME NEW n \in Nat, NEW J, J \subseteq 1 .. n
  PROVE  /\ \A i \in 0 .. n : /\ IsFiniteSet({j \in 1 .. i : j \in J})
                              /\ Cardinality({j \in 1 .. i : j \in J}) \in Nat
         /\ \A i, k \in 0 .. n : i <= k =>
               Cardinality({j \in 1 .. i : j \in J}) <= Cardinality({j \in 1 .. k : j \in J})
         /\ \A i, k \in 0 .. n : i < k /\ k \in J =>
               Cardinality({j \in 1 .. i : j \in J}) < Cardinality({j \in 1 .. k : j \in J})
<1> DEFINE first(i) == {j \in 1 .. i : j \in J}
<1>1. ASSUME NEW i \in 0 .. n
      PROVE  IsFiniteSet(first(i)) /\ Cardinality(first(i)) \in Nat
  <2>1. IsFiniteSet(1 .. i)
    BY FS_Interval
  <2>2. first(i) \subseteq 1 .. i
    OBVIOUS
  <2> HIDE DEF first
  <2>3. IsFiniteSet(first(i))
    BY <2>1, <2>2, FS_Subset
  <2> QED
    BY <2>3, FS_CardinalityType
<1>2. ASSUME NEW i \in 0 .. n, NEW k \in 0 .. n, i <= k
      PROVE  Cardinality(first(i)) <= Cardinality(first(k))
  <2>1. first(i) \subseteq first(k)
    BY <1>2
  <2> HIDE DEF first
  <2> QED
    BY <1>1, <2>1, FS_Subset
<1>3. ASSUME NEW i \in 0 .. n, NEW k \in 0 .. n, i < k, k \in J
      PROVE  Cardinality(first(i)) < Cardinality(first(k))
  <2>1. first(i) \cup {k} \subseteq first(k) /\ k \notin first(i)
    BY <1>3
  <2> HIDE DEF first
  <2>2. /\ IsFiniteSet(first(i)) /\ Cardinality(first(i)) \in Nat
        /\ IsFiniteSet(first(k)) /\ Cardinality(first(k)) \in Nat
    BY <1>1
  <2>3. Cardinality(first(i) \cup {k}) = Cardinality(first(i)) + 1
    BY <2>1, <2>2, FS_AddElement
  <2>4. Cardinality(first(i) \cup {k}) <= Cardinality(first(k))
    BY <2>1, <2>2, FS_Subset
  <2> QED
    BY <2>2, <2>3, <2>4
<1> QED
  BY <1>1, <1>2, <1>3

LEMMA AdoptBegins ==
  ASSUME EditInv, NEW s \in Sides, NEW pass \in Passes, NEW sure, Adopt(s, pass, sure)
  PROVE  EditInv' /\ \A i \in 1 .. Len(todo') : todo'[i].do \in {"put", "pair"}
<1> DEFINE ordered == Ordered(s, pass, sure)
           n == Len(ordered)
           row(i) == AsNew(s, ordered[i])
           new(i) == Cardinality({j \in 1 .. i :
                        RowAt(boundaries, s, ordered[j].at, ordered[j].edge) = {}})
           puts == [i \in 1 .. n |-> Put(row(i), new(i))]
           pair == [do |-> "pair", side |-> s]
           list == puts \o <<pair>>
           J == {j \in 1 .. n : There(row(j)) = {}}
<1>1. RowsOK(boundaries, tracks) /\ Idle /\ Room(new(n)) /\ Begin("adopt", list)
  BY DEF EditInv, TypeOK, Adopt, Ordered, Found
<1>2. /\ n \in Nat /\ \A i \in 1 .. n : ordered[i] \in Found(s, pass, sure)
      /\ \A i, j \in 1 .. n : i # j => ~ SamePlace(row(i), row(j))
  BY <1>1, FoundListed
<1>3. \A d \in Found(s, pass, sure) : /\ AsNew(s, d) \in Boundary
                                      /\ There(AsNew(s, d)) = RowAt(boundaries, s, d.at, d.edge)
  <2> TAKE d \in Found(s, pass, sure)
  <2>1. /\ AsNew(s, d) \in Boundary
        /\ AsNew(s, d).at = d.at /\ AsNew(s, d).edge = d.edge /\ AsNew(s, d).side = s
    BY <1>1, FoundOnce
  <2> QED
    BY <2>1 DEF There
<1> HIDE DEF ordered
<1>4. \A i \in 1 .. n : /\ row(i) \in Boundary
                        /\ There(row(i)) = RowAt(boundaries, s, ordered[i].at, ordered[i].edge)
  BY <1>2, <1>3
<1> HIDE DEF row
<1>5. ASSUME NEW i \in 0 .. n
      PROVE  new(i) = Cardinality({j \in 1 .. i : j \in J})
  <2>1. \A j \in 1 .. i : j \in 1 .. n
    BY <1>2
  <2>2. {j \in 1 .. i : RowAt(boundaries, s, ordered[j].at, ordered[j].edge) = {}}
          = {j \in 1 .. i : j \in J}
    BY <1>4, <2>1
  <2> QED
    BY <2>2
<1>6. J \subseteq 1 .. n
  OBVIOUS
<1> HIDE DEF new
<1>7. /\ \A i \in 0 .. n : new(i) \in Nat
      /\ \A i, k \in 0 .. n : i <= k => new(i) <= new(k)
      /\ \A i, k \in 0 .. n : i < k /\ k \in J => new(i) < new(k)
  <2> HIDE DEF n, J
  <2> DEFINE count(i) == Cardinality({j \in 1 .. i : j \in J})
  <2>1. /\ \A i \in 0 .. n : count(i) \in Nat
        /\ \A i, k \in 0 .. n : i <= k => count(i) <= count(k)
        /\ \A i, k \in 0 .. n : i < k /\ k \in J => count(i) < count(k)
    BY <1>2, <1>6, Counts
  <2>2. \A i \in 0 .. n : new(i) = count(i)
    BY <1>5
  <2> HIDE DEF count
  <2> QED
    BY <2>1, <2>2
<1>8. \A i \in 1 .. n : There(row(i)) = {} <=> i \in J
  OBVIOUS
<1> HIDE DEF J
<1>9. ASSUME NEW i \in 1 .. n, There(row(i)) = {}
      PROVE  new(i) \in 1 .. Len(Fresh)
  <2>1. i \in 0 .. n /\ 0 \in 0 .. n /\ n \in 0 .. n /\ 0 < i /\ i <= n
    BY <1>2
  <2>2. new(0) < new(i) /\ new(i) <= new(n) /\ new(0) \in Nat /\ new(i) \in Nat
    BY <1>7, <1>8, <1>9, <2>1
  <2>3. Len(Fresh) \in Nat /\ new(n) <= Len(Fresh) /\ new(n) \in Nat
    BY <1>1, <1>7, <2>1, FreshListed DEF Room
  <2> QED
    BY <2>2, <2>3
<1>10. ASSUME NEW i \in 1 .. n
       PROVE  /\ puts[i] \in Statements /\ puts[i].do = "put" /\ puts[i].row = row(i)
              /\ PutReady(boundaries, puts[i])
  <2>1. puts[i] = Put(row(i), new(i))
    OBVIOUS
  <2> HIDE DEF puts
  <2> QED
    BY <1>1, <1>4, <1>9, <2>1, PutFields
<1>11. ASSUME NEW i \in 1 .. n, NEW j \in 1 .. n, i < j
       PROVE  puts[i].id # puts[j].id /\ ~ SamePlace(puts[i].row, puts[j].row)
  <2>1. puts[i] = Put(row(i), new(i)) /\ puts[j] = Put(row(j), new(j))
    OBVIOUS
  <2>2. There(row(j)) = {} => new(i) < new(j) /\ new(i) \in Nat /\ new(j) \in Nat
    <3>1. i \in 0 .. n /\ j \in 0 .. n
      BY <1>2
    <3> QED
      BY <1>7, <1>8, <1>11, <3>1
  <2>3. ~ SamePlace(row(i), row(j))
    BY <1>2, <1>11
  <2>4. There(row(j)) = {} => new(i) # new(j)
    BY <2>2
  <2>5. Put(row(i), new(i)).id # Put(row(j), new(j)).id
    BY <1>1, <1>4, <1>9, <2>3, <2>4, PutsApart
  <2> HIDE DEF puts
  <2> QED
    BY <1>10, <2>1, <2>3, <2>5
<1>12. pair \in Statements /\ pair.do = "pair"
  BY DEF Statements
<1>13. puts \in Seq(Statements) /\ Len(puts) = n
  <2>1. puts \in [1 .. n -> Statements] /\ DOMAIN puts = 1 .. n
    BY <1>10
  <2> HIDE DEF puts, n
  <2> QED
    BY <1>2, <2>1
<1> HIDE DEF puts, pair
<1>14. <<pair>> \in Seq(Statements) /\ Len(<<pair>>) = 1 /\ <<pair>>[1] = pair
  BY <1>12
<1>15. /\ list \in Seq(Statements) /\ Len(list) = n + 1
       /\ \A i \in 1 .. n + 1 : list[i] = IF i <= n THEN puts[i] ELSE <<pair>>[i - n]
  <2>1. \A i \in 1 .. Len(puts) + Len(<<pair>>) :
           list[i] = IF i <= Len(puts) THEN puts[i] ELSE <<pair>>[i - Len(puts)]
    BY <1>13, <1>14, ConcatProperties
  <2>2. list \in Seq(Statements) /\ Len(list) = Len(puts) + Len(<<pair>>)
    BY <1>13, <1>14, ConcatProperties
  <2> QED
    BY <1>2, <1>13, <1>14, <2>1, <2>2
<1>16. /\ \A i \in 1 .. n : list[i] = puts[i]
       /\ list[n + 1] = pair
       /\ \A i \in 1 .. Len(list) : i \in 1 .. n \/ i = n + 1
  BY <1>2, <1>14, <1>15
<1> HIDE DEF list, n
<1>17. \A i \in 1 .. Len(list) : list[i].do = "put" => i \in 1 .. n
  BY <1>12, <1>16
<1>18. PutsReady(boundaries, list)
  BY <1>10, <1>16, <1>17 DEF PutsReady
<1>19. PutsDiffer(list)
  BY <1>11, <1>16, <1>17 DEF PutsDiffer
<1>20. \A i \in 1 .. Len(list) : list[i].do \in {"put", "pair"}
  BY <1>10, <1>12, <1>16
<1>21. EndsAwaited(boundaries, list) /\ NamesFirst(list)
  BY <1>20 DEF EndsAwaited, NamesFirst, Upsetting
<1>22. PairsLast(list)
  BY <1>10, <1>15, <1>16 DEF PairsLast
<1>23. FitsAll(list, "adopt")
  BY <1>20 DEF FitsAll, Fits
<1>24. EditInv'
  BY <1>1, <1>15, <1>18, <1>19, <1>21, <1>22, <1>23, BeginKeeps DEF Ready
<1>25. todo' = list
  BY <1>1 DEF Begin
<1> QED
  BY <1>20, <1>24, <1>25

----------------------------------------------------------------------------
(* The verbs of one statement, and every step.                             *)

LEMMA AtOnceKeeps ==
  ASSUME EditInv, Idle, NEW name, AtOnce(name),
         RowsOK(boundaries, tracks)', capture' \in [Sides -> Captures \cup {NoCapture}],
         unsettled' \subseteq Sides
  PROVE  EditInv'
<1>1. todo = <<>> /\ todo' = <<>> /\ edits' = edits + 1
  BY DEF Idle, AtOnce
<1>2. edits + 1 \in 0 .. MaxEdits
  BY TrackAssumption DEF EditInv, TypeOK, Idle
<1>3. TypeOK'
  BY <1>1, <1>2 DEF TypeOK
<1> QED
  BY <1>1, <1>3, NothingToCome DEF EditInv

LEMMA MoveAtOnce ==
  ASSUME EditInv, NEW b \in DOMAIN boundaries, NEW to \in Frames, MoveBoundary(b, to)
  PROVE  EditInv'
<1>1. /\ RowsOK(boundaries, tracks) /\ Idle /\ AtOnce("move")
      /\ boundaries' = [boundaries EXCEPT ![b].at = to]
      /\ Unique([boundaries EXCEPT ![b].at = to])
      /\ tracks' = tracks /\ capture' = capture
  BY DEF EditInv, TypeOK, MoveBoundary, Moved
<1>2. RowsOK(boundaries', tracks')
  BY <1>1, RowsMoved
<1>3. unsettled' \subseteq Sides
  BY <1>1, BoundedSides DEF MoveBoundary, EditInv, TypeOK
<1> QED
  BY <1>1, <1>2, <1>3, AtOnceKeeps DEF EditInv, TypeOK

LEMMA LockAtOnce ==
  ASSUME EditInv, NEW b \in DOMAIN boundaries, NEW locked \in BOOLEAN, SetLock(b, locked)
  PROVE  EditInv'
<1> DEFINE row == [boundaries[b] EXCEPT !.locked = locked]
<1>1. /\ RowsOK(boundaries, tracks) /\ Idle /\ AtOnce("lock")
      /\ boundaries' = [boundaries EXCEPT ![b] = row]
      /\ tracks' = tracks /\ capture' = capture /\ unsettled' = unsettled
  BY DEF EditInv, TypeOK, SetLock
<1>2. \A c \in DOMAIN boundaries : boundaries[c] \in Boundary
  BY <1>1, RowsTyped
<1>3. row \in Boundary
  BY <1>2 DEF Boundary
<1>4. SamePlace(row, boundaries[b])
  BY <1>2, BoundaryFields DEF SamePlace
<1> HIDE DEF row
<1>5. boundaries' \in [DOMAIN boundaries -> Boundary]
  BY <1>1, <1>2, <1>3
<1>6. \A c \in DOMAIN boundaries : SamePlace(boundaries'[c], boundaries[c])
  BY <1>1, <1>4 DEF SamePlace
<1>7. RowsOK(boundaries', tracks)
  BY <1>1, <1>5, <1>6, PlacesKept
<1> QED
  BY <1>1, <1>7, AtOnceKeeps DEF EditInv, TypeOK

LEMMA OthersAtOnce ==
  ASSUME EditInv,
         \/ \E b \in DOMAIN boundaries : DeleteBoundary(b)
         \/ \E s \in Sides : RenumberSide(s) \/ \E c \in Captures \cup {NoCapture} : Attach(s, c)
  PROVE  EditInv'
<1>1. RowsOK(boundaries, tracks)
  BY DEF EditInv, TypeOK
<1>2. CASE \E b \in DOMAIN boundaries : DeleteBoundary(b)
  <2>1. PICK b \in DOMAIN boundaries : DeleteBoundary(b)
    BY <1>2
  <2>2. RowsOK(boundaries', tracks)
    BY <1>1, <2>1, RowDropped DEF DeleteBoundary
  <2> QED
    BY <2>1, <2>2, AtOnceKeeps DEF DeleteBoundary, EditInv, TypeOK
<1>3. CASE \E s \in Sides : RenumberSide(s)
  <2>1. PICK s \in Sides : RenumberSide(s)
    BY <1>3
  <2>2. RowsOK(boundaries, tracks')
    BY <1>1, <2>1, RowsRenumbered DEF RenumberSide
  <2> QED
    BY <2>1, <2>2, AtOnceKeeps DEF RenumberSide, EditInv, TypeOK
<1>4. CASE \E s \in Sides : \E c \in Captures \cup {NoCapture} : Attach(s, c)
  <2>1. PICK s \in Sides, c \in Captures \cup {NoCapture} : Attach(s, c)
    BY <1>4
  <2>2. capture' \in [Sides -> Captures \cup {NoCapture}]
    BY <2>1 DEF Attach, EditInv, TypeOK
  <2> QED
    BY <1>1, <2>1, <2>2, AtOnceKeeps DEF Attach, EditInv, TypeOK
<1> QED
  BY <1>2, <1>3, <1>4

LEMMA CutKeeps ==
  ASSUME EditInv, CutShort
  PROVE  EditInv'
<1>1. \A i \in DOMAIN todo : todo[i].do = "renumber" => todo[i].side \in Sides
  <2>1. todo \in Seq(Statements)
    BY DEF EditInv
  <2>2. \A i \in DOMAIN todo : todo[i] \in Statements
    BY <2>1, ElementOfSeq, LenProperties
  <2> QED
    BY <2>2, StatementFields
<1>2. /\ todo' = <<>> /\ boundaries' = boundaries /\ tracks' = tracks
      /\ capture' = capture /\ edits' = edits /\ unsettled' \subseteq Sides
  BY <1>1 DEF CutShort, EditInv, TypeOK
<1>3. TypeOK'
  BY <1>2 DEF EditInv, TypeOK
<1> QED
  BY <1>2, <1>3, NothingToCome DEF EditInv

LEMMA StatementKeeps ==
  ASSUME EditInv, Statement
  PROVE  EditInv'
BY PutKeeps, InsertKeeps, SetEndKeeps, DeleteKeeps, DropKeeps, RenumberKeeps,
   PlaceKeeps, ClaimKeeps, RehomeKeeps, RehomeTrackKeeps, PairKeeps DEF Statement

LEMMA VerbKeeps ==
  ASSUME EditInv, Verb
  PROVE  EditInv'
<1>1. CASE \E s \in Sides, a, z \in Frames : AddTrack(s, a, z)
  BY <1>1, AddBegins
<1>2. CASE \E t \in DOMAIN tracks : \E at \in Frames : Split(t, at)
  BY <1>2, SplitBegins
<1>3. CASE \E t \in DOMAIN tracks : \E u \in DOMAIN tracks : Merge(t, u)
  BY <1>3, MergeBegins
<1>4. CASE \E t \in DOMAIN tracks : RemoveTrack(t)
  BY <1>4, RemoveBegins
<1>5. CASE \E t \in DOMAIN tracks : \E s \in Sides : MoveToSide(t, s)
  BY <1>5, ReassignBegins
<1>6. CASE \E b \in DOMAIN boundaries : \E to \in Frames : MoveBoundary(b, to)
  BY <1>6, MoveAtOnce
<1>7. CASE \E b \in DOMAIN boundaries : \E to \in Frames : MoveForced(b, to)
  BY <1>7, ForceBegins
<1>8. CASE \E b \in DOMAIN boundaries : \E l \in BOOLEAN : SetLock(b, l)
  BY <1>8, LockAtOnce
<1>9. CASE \/ \E b \in DOMAIN boundaries : DeleteBoundary(b)
           \/ \E s \in Sides : RenumberSide(s) \/ \E c \in Captures \cup {NoCapture} : Attach(s, c)
  BY <1>9, OthersAtOnce
<1>10. CASE \E s \in Sides : \E pass \in Passes, d \in Detectors : Adopt(s, pass, d)
  BY <1>10, AdoptBegins
<1> QED
  BY <1>1, <1>2, <1>3, <1>4, <1>5, <1>6, <1>7, <1>8, <1>9, <1>10 DEF Verb

LEMMA EditInit ==
  ASSUME Init
  PROVE  EditInv
<1>1. RowsOK(boundaries, tracks)
  BY StartsAssumption DEF Init
<1>2. TypeOK
  BY <1>1, TrackAssumption DEF Init, TypeOK
<1> QED
  BY <1>2, NothingToCome DEF Init, EditInv

LEMMA EditNext ==
  ASSUME EditInv, [Next]_vars
  PROVE  EditInv'
<1>1. CASE Verb
  BY <1>1, VerbKeeps
<1>2. CASE Statement
  BY <1>2, StatementKeeps
<1>3. CASE CutShort
  BY <1>3, CutKeeps
<1>4. CASE UNCHANGED vars
  BY <1>4 DEF vars, EditInv, TypeOK, Ready, PutsReady, PutsDiffer, EndsAwaited, NamesFirst,
             PairsLast, FitsAll
<1>5. CASE Over
  BY <1>4, <1>5 DEF Over
<1> QED
  BY <1>1, <1>2, <1>3, <1>4, <1>5 DEF Next

LEMMA EditsHold == Spec => []EditInv
<1>1. Init => EditInv
  BY EditInit
<1>2. EditInv /\ [Next]_vars => EditInv'
  BY EditNext
<1> QED
  BY <1>1, <1>2, PTL DEF Spec

(***************************************************************************)
(* The rows keep to the schema through every verb and at whatever          *)
(* statement it is cut short: a track names two boundaries that are there, *)
(* of the right edges, shared with no other track, and no place has two    *)
(* boundaries (schema.rs:390-467).                                         *)
(***************************************************************************)
THEOREM RowsStaySound == Spec => []TypeOK
BY EditsHold, PTL DEF EditInv

----------------------------------------------------------------------------
(* Locked boundaries.                                                      *)

(***************************************************************************)
(* What LockedStays says of one boundary, with the verb and its row after. *)
(***************************************************************************)
Stays(v, bs, bs2, b) ==
  bs[b].locked =>
     /\ b \in DOMAIN bs2
     /\ bs2[b].edge = bs[b].edge
     /\ v = "lock" \/ bs2[b].locked
     /\ v = "reassign" \/ bs2[b].side = bs[b].side
     /\ v = "force" \/ /\ bs2[b].at = bs[b].at
                       /\ bs2[b].prov = bs[b].prov

LEMMA StaysAsItIs ==
  ASSUME NEW bs, NEW bs2, NEW v, NEW b \in DOMAIN bs, b \in DOMAIN bs2, bs2[b] = bs[b]
  PROVE  Stays(v, bs, bs2, b)
BY DEF Stays

LEMMA StatementKeepsLocked ==
  ASSUME EditInv, Statement, NEW b \in DOMAIN boundaries
  PROVE  Stays(verb, boundaries, boundaries', b)
<1>1. RowsOK(boundaries, tracks)
  BY DEF EditInv, TypeOK
<1>2. boundaries[b] \in Boundary /\ boundaries[b].locked \in BOOLEAN
  BY <1>1, RowsTyped
<1>3. CASE boundaries' = boundaries
  BY <1>3, StaysAsItIs
<1>4. CASE PutBoundary
  <2> DEFINE row == Next1.row
             id == Next1.id
  <2>1. CASE id \notin DOMAIN boundaries
    <3>1. boundaries' = With(boundaries, id, row)
      BY <1>4, <2>1 DEF PutBoundary
    <3>2. b \in DOMAIN boundaries' /\ boundaries'[b] = boundaries[b]
      BY <2>1, <3>1 DEF With
    <3> QED
      BY <3>2, StaysAsItIs
  <2>2. CASE id \in DOMAIN boundaries /\ b # id
    <3>1. b \in DOMAIN boundaries' /\ boundaries'[b] = boundaries[b]
      BY <1>4, <2>2 DEF PutBoundary
    <3> QED
      BY <3>1, StaysAsItIs
  <2>3. CASE id \in DOMAIN boundaries /\ b = id
    <3> DEFINE old == boundaries[b]
               prov == IF old.locked THEN old.prov ELSE row.prov
               locked == old.locked \/ row.locked
    <3>1. /\ DOMAIN boundaries' = DOMAIN boundaries
          /\ boundaries'[b] = [old EXCEPT !.prov = prov, !.locked = locked]
      BY <1>4, <2>3 DEF PutBoundary
    <3>2. LET m == [old EXCEPT !.prov = prov, !.locked = locked]
          IN  m.locked = locked /\ m.prov = prov
              /\ m.at = old.at /\ m.edge = old.edge /\ m.side = old.side
      BY <1>2, BoundaryFields
    <3> QED
      BY <3>1, <3>2 DEF Stays
  <2> QED
    BY <2>1, <2>2, <2>3
<1>5. CASE DropBoundary
  <2>1. CASE b = Next1.id /\ boundaries[b].locked
    BY <1>3, <1>5, <2>1 DEF DropBoundary
  <2>2. CASE ~ boundaries[b].locked
    BY <2>2 DEF Stays
  <2>3. CASE b # Next1.id
    <3>1. b \in DOMAIN boundaries' /\ boundaries'[b] = boundaries[b]
      BY <1>5, <2>3 DEF DropBoundary, Without, Restrict
    <3> QED
      BY <3>1, StaysAsItIs
  <2> QED
    BY <2>1, <2>2, <2>3
<1>6. CASE PlaceBoundary
  <2>1. Fits(Next1, verb) /\ Next1.do = "place"
    <3>1. Is("place")
      BY <1>6 DEF PlaceBoundary
    <3> QED
      BY <3>1, UnderWay
  <2>2. verb = "force"
    BY <2>1 DEF Fits
  <2>3. /\ DOMAIN boundaries' = DOMAIN boundaries
        /\ boundaries'[b] = IF b = Next1.id THEN [boundaries[b] EXCEPT !.at = Next1.at]
                                            ELSE boundaries[b]
    BY <1>6 DEF PlaceBoundary, Moved
  <2>4. LET m == [boundaries[b] EXCEPT !.at = Next1.at]
        IN  m.side = boundaries[b].side /\ m.edge = boundaries[b].edge
            /\ m.locked = boundaries[b].locked
    BY <1>2, BoundaryFields
  <2> QED
    BY <2>2, <2>3, <2>4 DEF Stays
<1>7. CASE ClaimBoundary
  <2>1. Fits(Next1, verb) /\ Next1.do = "claim"
    <3>1. Is("claim")
      BY <1>7 DEF ClaimBoundary
    <3> QED
      BY <3>1, UnderWay
  <2>2. verb = "force"
    BY <2>1 DEF Fits
  <2>3. /\ DOMAIN boundaries' = DOMAIN boundaries
        /\ boundaries'[b] = IF b = Next1.id
                            THEN [boundaries[b] EXCEPT !.prov = "user", !.locked = TRUE]
                            ELSE boundaries[b]
    BY <1>7 DEF ClaimBoundary
  <2>4. LET m == [boundaries[b] EXCEPT !.prov = "user", !.locked = TRUE]
        IN  m.side = boundaries[b].side /\ m.edge = boundaries[b].edge /\ m.locked = TRUE
    BY <1>2, BoundaryFields
  <2> QED
    BY <2>2, <2>3, <2>4 DEF Stays
<1>8. CASE RehomeBoundaries
  <2>1. Fits(Next1, verb) /\ Next1.do = "rehome"
    <3>1. Is("rehome")
      BY <1>8 DEF RehomeBoundaries
    <3> QED
      BY <3>1, UnderWay
  <2>2. verb = "reassign"
    BY <2>1 DEF Fits
  <2>3. /\ DOMAIN boundaries' = DOMAIN boundaries
        /\ boundaries'[b] = IF b \in Next1.ids THEN [boundaries[b] EXCEPT !.side = Next1.side]
                                               ELSE boundaries[b]
    BY <1>8 DEF RehomeBoundaries
  <2>4. LET m == [boundaries[b] EXCEPT !.side = Next1.side]
        IN  m.at = boundaries[b].at /\ m.edge = boundaries[b].edge
            /\ m.prov = boundaries[b].prov /\ m.locked = boundaries[b].locked
    BY <1>2, BoundaryFields
  <2> QED
    BY <2>2, <2>3, <2>4 DEF Stays
<1>9. CASE InsertTrack \/ SetEndBoundary \/ DeleteTrack \/ RenumberTracks \/ RehomeTrack \/ PairFree
  BY <1>3, <1>9 DEF InsertTrack, SetEndBoundary, DeleteTrack, RenumberTracks, RehomeTrack, PairFree
<1> QED
  BY <1>4, <1>5, <1>6, <1>7, <1>8, <1>9 DEF Statement

LEMMA VerbKeepsLocked ==
  ASSUME EditInv, Verb, NEW b \in DOMAIN boundaries
  PROVE  Stays(verb', boundaries, boundaries', b) /\ todo = <<>>
<1>1. RowsOK(boundaries, tracks)
  BY DEF EditInv, TypeOK
<1>2. boundaries[b] \in Boundary /\ boundaries[b].locked \in BOOLEAN
  BY <1>1, RowsTyped
<1>3. todo = <<>>
  BY DEF Verb, AddTrack, Split, Merge, RemoveTrack, MoveToSide, MoveBoundary, MoveForced, SetLock,
         DeleteBoundary, RenumberSide, Attach, Adopt, Idle
<1>4. CASE boundaries' = boundaries
  BY <1>3, <1>4, StaysAsItIs
<1>5. CASE \E c \in DOMAIN boundaries : \E to \in Frames : MoveBoundary(c, to)
  <2>1. PICK c \in DOMAIN boundaries, to \in Frames : MoveBoundary(c, to)
    BY <1>5
  <2>2. CASE b = c
    BY <1>3, <2>1, <2>2 DEF MoveBoundary, Stays
  <2>3. CASE b # c
    <3>1. b \in DOMAIN boundaries' /\ boundaries'[b] = boundaries[b]
      BY <2>1, <2>3 DEF MoveBoundary, Moved
    <3> QED
      BY <1>3, <3>1, StaysAsItIs
  <2> QED
    BY <2>2, <2>3
<1>6. CASE \E c \in DOMAIN boundaries : \E l \in BOOLEAN : SetLock(c, l)
  <2>1. PICK c \in DOMAIN boundaries, l \in BOOLEAN : SetLock(c, l)
    BY <1>6
  <2>2. verb' = "lock" /\ DOMAIN boundaries' = DOMAIN boundaries
    BY <2>1 DEF SetLock, AtOnce
  <2>3. boundaries'[b] = IF b = c THEN [boundaries[b] EXCEPT !.locked = l] ELSE boundaries[b]
    BY <2>1 DEF SetLock
  <2>4. LET m == [boundaries[b] EXCEPT !.locked = l]
        IN  m.at = boundaries[b].at /\ m.edge = boundaries[b].edge
            /\ m.prov = boundaries[b].prov /\ m.side = boundaries[b].side
    BY <1>2, BoundaryFields
  <2> QED
    BY <1>3, <2>2, <2>3, <2>4 DEF Stays
<1>7. CASE \E c \in DOMAIN boundaries : DeleteBoundary(c)
  <2>1. PICK c \in DOMAIN boundaries : DeleteBoundary(c)
    BY <1>7
  <2>2. CASE b = c
    BY <1>3, <2>1, <2>2 DEF DeleteBoundary, Stays
  <2>3. CASE b # c
    <3>1. b \in DOMAIN boundaries' /\ boundaries'[b] = boundaries[b]
      BY <2>1, <2>3 DEF DeleteBoundary, Without, Restrict
    <3> QED
      BY <1>3, <3>1, StaysAsItIs
  <2> QED
    BY <2>2, <2>3
<1>8. \/ boundaries' = boundaries
      \/ \E c \in DOMAIN boundaries : \E to \in Frames : MoveBoundary(c, to)
      \/ \E c \in DOMAIN boundaries : \E l \in BOOLEAN : SetLock(c, l)
      \/ \E c \in DOMAIN boundaries : DeleteBoundary(c)
  <2>1. \A s, a, z : AddTrack(s, a, z) => boundaries' = boundaries
    BY DEF AddTrack, Begin
  <2>2. \A t, at : Split(t, at) => boundaries' = boundaries
    BY DEF Split, Begin
  <2>3. \A t, u : Merge(t, u) => boundaries' = boundaries
    BY DEF Merge, Begin
  <2>4. \A t : RemoveTrack(t) => boundaries' = boundaries
    BY DEF RemoveTrack, Begin
  <2>5. \A t, s : MoveToSide(t, s) => boundaries' = boundaries
    BY DEF MoveToSide, Begin
  <2>6. \A c, to : MoveForced(c, to) => boundaries' = boundaries
    BY DEF MoveForced, Begin
  <2>7. \A s, c : RenumberSide(s) \/ Attach(s, c) => boundaries' = boundaries
    BY DEF RenumberSide, Attach
  <2>8. \A s, pass, d : Adopt(s, pass, d) => boundaries' = boundaries
    BY DEF Adopt, Begin
  <2> QED
    BY <2>1, <2>2, <2>3, <2>4, <2>5, <2>6, <2>7, <2>8 DEF Verb
<1> QED
  BY <1>4, <1>5, <1>6, <1>7, <1>8

(***************************************************************************)
(* "User-confirmed/locked boundaries shall not be moved by automatic       *)
(* analysis": a locked boundary keeps its place, provenance and lock       *)
(* through every statement of every verb, an adoption's among them         *)
(* (track.rs:290-429).                                                     *)
(***************************************************************************)
THEOREM LockedKept == Spec => LockedStays
<1>1. ASSUME EditInv, [Next]_vars
      PROVE  \A b \in DOMAIN boundaries : Stays(Doing, boundaries, boundaries', b)
  <2> TAKE b \in DOMAIN boundaries
  <2>1. CASE Verb
    BY <1>1, <2>1, VerbKeepsLocked DEF Doing
  <2>2. CASE Statement
    <3>1. todo # <<>>
      BY <2>2 DEF Statement, PutBoundary, InsertTrack, SetEndBoundary, DeleteTrack, DropBoundary,
                  RenumberTracks, PlaceBoundary, ClaimBoundary, RehomeBoundaries, RehomeTrack,
                  PairFree, Is
    <3> QED
      BY <1>1, <2>2, <3>1, StatementKeepsLocked DEF Doing
  <2>3. CASE CutShort \/ Over \/ UNCHANGED vars
    BY <2>3, StaysAsItIs DEF CutShort, Over, vars
  <2> QED
    BY <1>1, <2>1, <2>2, <2>3 DEF Next
<1>2. EditInv /\ [Next]_vars =>
        [\A b \in DOMAIN boundaries :
          boundaries[b].locked =>
             /\ b \in DOMAIN boundaries'
             /\ boundaries'[b].edge = boundaries[b].edge
             /\ Doing = "lock" \/ boundaries'[b].locked
             /\ Doing = "reassign" \/ boundaries'[b].side = boundaries[b].side
             /\ Doing = "force" \/ /\ boundaries'[b].at = boundaries[b].at
                                   /\ boundaries'[b].prov = boundaries[b].prov]_vars
  BY <1>1 DEF Stays
<1> QED
  BY <1>2, EditsHold, PTL DEF Spec, LockedStays

----------------------------------------------------------------------------
(* The tracks an adoption makes.                                           *)

(***************************************************************************)
(* A track to be inserted is long enough and touches no track there is.    *)
(***************************************************************************)
Clear(bs, ts, st) ==
  /\ bs[st.start].at \in Nat /\ bs[st.end].at \in Nat
  /\ bs[st.end].at - bs[st.start].at >= MinTrack
  /\ \A t \in TracksOn(ts, st.side) : /\ ~ Inside(bs, ts, t, bs[st.start].at)
                                      /\ ~ Inside(bs, ts, t, bs[st.end].at)

AllClear(bs, ts, list) ==
  /\ \A i, j \in 1 .. Len(list) : list[i].do = "insert" => list[j].do \in {"insert", "renumber"}
  /\ \A i \in 1 .. Len(list) : list[i].do = "insert" => Clear(bs, ts, list[i])
  /\ \A i, j \in 1 .. Len(list) :
        i < j /\ list[i].do = "insert" /\ list[j].do = "insert" =>
           bs[list[i].end].at <= bs[list[j].start].at

AdoptionKinds == {"put", "pair", "insert", "renumber"}

PairingInv ==
  verb = "adopt" => /\ \A i \in 1 .. Len(todo) : todo[i].do \in AdoptionKinds
                    /\ AllClear(boundaries, tracks, todo)

LEMMA PairsClear ==
  ASSUME RowsOK(boundaries, tracks), NEW s \in Sides
  PROVE  AllClear(boundaries, tracks, PairStatements(s))
<1> DEFINE list == PairStatements(s)
           free == Free(s)
           half(k) == (k + 1) \div 2
           at(k) == Opening(s)[half(k)]
<1>1. Len(list) \in Nat
  BY PairShape
<1>2. ASSUME NEW k \in 1 .. Len(list)
      PROVE  /\ half(k) \in 1 .. Len(Opening(s))
             /\ at(k) \in Opens(free) /\ at(k) \in 1 .. Len(free) /\ at(k) + 1 \in 1 .. Len(free)
             /\ list[k] = IF k % 2 = 1 THEN Insert(s, free[at(k)], free[at(k) + 1]) ELSE Renumber(s)
  BY PairShape
<1>3. /\ Len(free) \in Nat
      /\ \A i \in 1 .. Len(free) :
            /\ boundaries[free[i]].at \in Nat
            /\ \A t \in TracksOn(tracks, s) :
                  ~ Inside(boundaries, tracks, t, boundaries[free[i]].at)
      /\ \A i, j \in 1 .. Len(free) : i < j => boundaries[free[i]].at <= boundaries[free[j]].at
  BY FreeListed
<1>4. \A i \in Opens(free) : /\ boundaries[free[i + 1]].at - boundaries[free[i]].at >= MinTrack
                             /\ boundaries[free[i]].edge = "start"
                             /\ boundaries[free[i + 1]].edge = "end"
  BY DEF Opens
<1>5. ASSUME NEW k \in 1 .. Len(list), NEW m \in 1 .. Len(list), k < m, k % 2 = 1, m % 2 = 1
      PROVE  at(k) < at(m)
  <2>1. half(k) < half(m)
    BY <1>1, <1>5
  <2> QED
    BY <1>2, <2>1, OpeningListed
<1> HIDE DEF list, free, at, half
<1>6. ASSUME NEW k \in 1 .. Len(list)
      PROVE  \/ /\ k % 2 = 1 /\ list[k].do = "insert" /\ list[k].side = s
                /\ list[k].start = free[at(k)] /\ list[k].end = free[at(k) + 1]
             \/ list[k].do = "renumber"
  <2>1. list[k] = IF k % 2 = 1 THEN Insert(s, free[at(k)], free[at(k) + 1]) ELSE Renumber(s)
    BY <1>2
  <2>2. CASE k % 2 = 1
    <3>1. list[k] = Insert(s, free[at(k)], free[at(k) + 1])
      BY <2>1, <2>2
    <3> QED
      BY <2>2, <3>1 DEF Insert
  <2>3. CASE k % 2 # 1
    <3>1. list[k] = Renumber(s)
      BY <2>1, <2>3
    <3> QED
      BY <3>1 DEF Renumber
  <2> QED
    BY <2>2, <2>3
<1>7. ASSUME NEW k \in 1 .. Len(list), list[k].do = "insert"
      PROVE  Clear(boundaries, tracks, list[k])
  <2>1. /\ list[k].side = s
        /\ list[k].start = free[at(k)] /\ list[k].end = free[at(k) + 1]
    BY <1>6, <1>7
  <2>2. boundaries[free[at(k) + 1]].at - boundaries[free[at(k)]].at >= MinTrack
    BY <1>2, <1>4
  <2>3. /\ at(k) \in 1 .. Len(free) /\ at(k) + 1 \in 1 .. Len(free)
    BY <1>2
  <2> QED
    BY <1>3, <2>1, <2>2, <2>3 DEF Clear
<1>8. ASSUME NEW k \in 1 .. Len(list), NEW m \in 1 .. Len(list), k < m,
             list[k].do = "insert", list[m].do = "insert"
      PROVE  boundaries[list[k].end].at <= boundaries[list[m].start].at
  <2>1. /\ k % 2 = 1 /\ m % 2 = 1
        /\ list[k].end = free[at(k) + 1] /\ list[m].start = free[at(m)]
    BY <1>6, <1>8
  <2>2. /\ at(k) < at(m)
        /\ at(k) \in 1 .. Len(free) /\ at(k) + 1 \in 1 .. Len(free) /\ at(m) \in 1 .. Len(free)
    BY <1>2, <1>5, <1>8, <2>1
  <2>3. CASE at(k) + 1 = at(m)
    BY <1>3, <2>1, <2>2, <2>3
  <2>4. CASE at(k) + 1 < at(m)
    BY <1>3, <2>1, <2>2, <2>4
  <2> QED
    BY <1>3, <2>2, <2>3, <2>4
<1>9. \A k \in 1 .. Len(list) : list[k].do \in {"insert", "renumber"}
  BY <1>6
<1>10. AllClear(boundaries, tracks, list)
  BY <1>7, <1>8, <1>9 DEF AllClear
<1> QED
  BY <1>10 DEF list

LEMMA ClearRest ==
  ASSUME NEW list \in Seq(Statements), list # <<>>, NEW bs, NEW ts, NEW ts2, AllClear(bs, ts, list),
         \A i \in 2 .. Len(list) : list[i].do = "insert" => Clear(bs, ts2, list[i])
  PROVE  AllClear(bs, ts2, Tail(list))
<1> DEFINE rest == Tail(list)
<1>1. /\ Len(list) \in Nat /\ Len(rest) = Len(list) - 1
      /\ \A i \in 1 .. Len(rest) : rest[i] = list[i + 1] /\ i + 1 \in 1 .. Len(list)
  BY TailOf
<1> HIDE DEF rest
<1>2. \A i \in 1 .. Len(rest) : i + 1 \in 2 .. Len(list)
  BY <1>1
<1>3. \A i, j \in 1 .. Len(rest) : rest[i].do = "insert" => rest[j].do \in {"insert", "renumber"}
  BY <1>1 DEF AllClear
<1>4. \A i \in 1 .. Len(rest) : rest[i].do = "insert" => Clear(bs, ts2, rest[i])
  BY <1>1, <1>2
<1>5. ASSUME NEW i \in 1 .. Len(rest), NEW j \in 1 .. Len(rest), i < j,
             rest[i].do = "insert", rest[j].do = "insert"
      PROVE  bs[rest[i].end].at <= bs[rest[j].start].at
  <2>1. /\ rest[i] = list[i + 1] /\ rest[j] = list[j + 1] /\ i + 1 < j + 1
        /\ i + 1 \in 1 .. Len(list) /\ j + 1 \in 1 .. Len(list)
    BY <1>1, <1>5
  <2>2. bs[list[i + 1].end].at <= bs[list[j + 1].start].at
    BY <1>5, <2>1 DEF AllClear
  <2> QED
    BY <2>1, <2>2
<1>6. AllClear(bs, ts2, rest)
  BY <1>3, <1>4, <1>5 DEF AllClear
<1> QED
  BY <1>6 DEF rest

LEMMA NoInserts ==
  ASSUME NEW list, \A i \in 1 .. Len(list) : list[i].do # "insert", NEW bs, NEW ts
  PROVE  AllClear(bs, ts, list)
BY DEF AllClear

LEMMA PairingGoesOn ==
  ASSUME EditInv, PairingInv, Statement, verb' = "adopt"
  PROVE  PairingInv'
<1>1. PICK do : Is(do)
  BY DEF Statement, PutBoundary, InsertTrack, SetEndBoundary, DeleteTrack, DropBoundary,
         RenumberTracks, PlaceBoundary, ClaimBoundary, RehomeBoundaries, RehomeTrack, PairFree
<1>2. /\ todo \in Seq(Statements) /\ todo # <<>> /\ Next1 = todo[1] /\ todo[1].do = do
      /\ Len(todo) \in Nat /\ Len(todo) > 0
      /\ RowsOK(boundaries, tracks) /\ Ready(boundaries, todo)
  BY <1>1, UnderWay
<1>3. \A rest : Proceed(rest) => todo' = rest /\ verb = "adopt"
  BY DEF Proceed
<1>4. Proceed(Tail(todo)) \/ Proceed(PairStatements(Next1.side))
  BY DEF Statement, PutBoundary, InsertTrack, SetEndBoundary, DeleteTrack, DropBoundary,
         RenumberTracks, PlaceBoundary, ClaimBoundary, RehomeBoundaries, RehomeTrack, PairFree
<1>5. verb = "adopt"
  BY <1>3, <1>4
<1>6. 1 \in 1 .. Len(todo) /\ \A i \in 2 .. Len(todo) : i \in 1 .. Len(todo) /\ 1 < i
  BY <1>2
<1>7. /\ \A i \in 1 .. Len(todo) : todo[i].do \in AdoptionKinds
      /\ AllClear(boundaries, tracks, todo)
  BY <1>5 DEF PairingInv
<1>8. do \in AdoptionKinds /\ Next1.do = do
  BY <1>2, <1>6, <1>7
<1>9. ASSUME Proceed(Tail(todo))
      PROVE  /\ todo' = Tail(todo)
             /\ \A i \in 1 .. Len(todo') : todo'[i].do \in AdoptionKinds
  <2>1. \A i \in 1 .. Len(Tail(todo)) :
           Tail(todo)[i] = todo[i + 1] /\ i + 1 \in 1 .. Len(todo)
    BY <1>2, TailOf
  <2>2. todo' = Tail(todo)
    BY <1>3, <1>9
  <2>3. \A i \in 1 .. Len(Tail(todo)) : Tail(todo)[i].do \in AdoptionKinds
    BY <1>7, <2>1
  <2> QED
    BY <2>2, <2>3
<1>10. CASE PutBoundary
  <2>1. Is("put") /\ Proceed(Tail(todo))
    BY <1>10 DEF PutBoundary
  <2>2. todo[1].do = "put"
    BY <1>2, <2>1 DEF Is
  <2>3. \A i \in 1 .. Len(todo) : todo[i].do # "insert"
    BY <1>6, <1>7, <2>2 DEF AllClear
  <2>4. \A i \in 1 .. Len(Tail(todo)) : Tail(todo)[i].do # "insert"
    BY <1>2, <2>3, TailOf
  <2> QED
    BY <1>9, <2>1, <2>4, NoInserts DEF PairingInv
<1>11. CASE InsertTrack
  <2> DEFINE free == TrackIds \ DOMAIN tracks
             row == [side |-> Next1.side, number |-> NextNumber(tracks, Next1.side),
                     start |-> Next1.start, end |-> Next1.end]
  <2>1. Is("insert") /\ Proceed(Tail(todo)) /\ boundaries' = boundaries
    BY <1>11 DEF InsertTrack
  <2>2. todo[1].do = "insert"
    BY <1>2, <2>1 DEF Is
  <2>3. Min(free) \in free
    <3>1. free \subseteq Nat /\ free # {}
      BY <1>11, TrackAssumption DEF InsertTrack
    <3> HIDE DEF free
    <3> QED
      BY <3>1, MinIsLeast
  <2>4. tracks' = With(tracks, Min(free), row)
    BY <1>11 DEF InsertTrack
  <2>5. Min(free) \notin DOMAIN tracks
    BY <2>3
  <2>6. /\ row.side = todo[1].side /\ row.start = todo[1].start /\ row.end = todo[1].end
    BY <1>2
  <2> DEFINE new == Min(free)
  <2> HIDE DEF free, row, new
  <2>7. /\ DOMAIN tracks' = DOMAIN tracks \cup {new} /\ tracks'[new] = row
        /\ \A t \in DOMAIN tracks : tracks'[t] = tracks[t]
    BY <2>4, <2>5 DEF With, new
  <2>8. ASSUME NEW i \in 2 .. Len(todo), todo[i].do = "insert"
        PROVE  Clear(boundaries, tracks', todo[i])
    <3> DEFINE start == boundaries[todo[i].start].at
               end == boundaries[todo[i].end].at
               last == boundaries[todo[1].end].at
    <3>1. Clear(boundaries, tracks, todo[i]) /\ Clear(boundaries, tracks, todo[1])
      BY <1>6, <1>7, <2>2, <2>8 DEF AllClear
    <3>2. last <= start
      BY <1>6, <1>7, <2>2, <2>8 DEF AllClear
    <3>3. start \in Nat /\ end \in Nat /\ end - start >= MinTrack /\ last \in Nat
      BY <3>1 DEF Clear
    <3>4. last <= end
      BY <3>2, <3>3, TrackAssumption
    <3>5. EndOf(boundaries, tracks', new) = last
      BY <2>6, <2>7 DEF EndOf
    <3> HIDE DEF last
    <3>6. ~ Inside(boundaries, tracks', new, start) /\ ~ Inside(boundaries, tracks', new, end)
      BY <3>2, <3>3, <3>4, <3>5 DEF Inside
    <3>7. ASSUME NEW t \in TracksOn(tracks', todo[i].side)
          PROVE  ~ Inside(boundaries, tracks', t, start) /\ ~ Inside(boundaries, tracks', t, end)
      <4>1. CASE t = new
        BY <3>6, <4>1
      <4>2. CASE t # new
        <5>1. t \in DOMAIN tracks /\ tracks'[t] = tracks[t] /\ t \in TracksOn(tracks, todo[i].side)
          BY <2>7, <4>2 DEF TracksOn
        <5>2. ~ Inside(boundaries, tracks, t, start) /\ ~ Inside(boundaries, tracks, t, end)
          BY <3>1, <5>1 DEF Clear
        <5> QED
          BY <5>1, <5>2 DEF Inside, StartOf, EndOf
      <4> QED
        BY <4>1, <4>2
    <3> QED
      BY <3>3, <3>7 DEF Clear
  <2>9. AllClear(boundaries, tracks', Tail(todo))
    BY <1>2, <1>7, <2>8, ClearRest
  <2> QED
    BY <1>9, <2>1, <2>9 DEF PairingInv
<1>12. CASE RenumberTracks
  <2>1. /\ Proceed(Tail(todo)) /\ boundaries' = boundaries
        /\ tracks' = Renumbered(boundaries, tracks, Next1.side)
    BY <1>12 DEF RenumberTracks
  <2>2. /\ DOMAIN tracks' = DOMAIN tracks
        /\ \A t \in DOMAIN tracks : /\ tracks'[t].start = tracks[t].start
                                    /\ tracks'[t].end = tracks[t].end
                                    /\ tracks'[t].side = tracks[t].side
    BY <1>2, <2>1, RowsRenumbered
  <2>3. ASSUME NEW i \in 2 .. Len(todo), todo[i].do = "insert"
        PROVE  Clear(boundaries, tracks', todo[i])
    <3>1. Clear(boundaries, tracks, todo[i])
      BY <1>6, <1>7, <2>3 DEF AllClear
    <3>2. \A t \in TracksOn(tracks', todo[i].side) : t \in TracksOn(tracks, todo[i].side)
      BY <2>2 DEF TracksOn
    <3>3. \A t \in DOMAIN tracks : \A frame : Inside(boundaries, tracks', t, frame)
                                               <=> Inside(boundaries, tracks, t, frame)
      BY <2>2 DEF Inside, StartOf, EndOf
    <3> QED
      BY <3>1, <3>2, <3>3 DEF Clear, TracksOn
  <2>4. AllClear(boundaries, tracks', Tail(todo))
    BY <1>2, <1>7, <2>3, ClearRest
  <2> QED
    BY <1>9, <2>1, <2>4 DEF PairingInv
<1>13. CASE PairFree
  <2> DEFINE list == PairStatements(Next1.side)
  <2>1. Next1.side \in Sides
    BY <1>13, OnlyThePairing
  <2>2. /\ \A k \in 1 .. Len(list) : list[k].do \in {"insert", "renumber"}
        /\ AllClear(boundaries, tracks, list)
    BY <1>2, <2>1, PairsReady, PairsClear
  <2>3. todo' = list /\ boundaries' = boundaries /\ tracks' = tracks
    BY <1>3, <1>13 DEF PairFree
  <2> HIDE DEF list
  <2> QED
    BY <2>2, <2>3 DEF PairingInv, AdoptionKinds
<1>14. CASE SetEndBoundary \/ DeleteTrack \/ DropBoundary \/ PlaceBoundary \/ ClaimBoundary
            \/ RehomeBoundaries \/ RehomeTrack
  <2>1. Next1.do \in {"setEnd", "delete", "drop", "place", "claim", "rehome", "adoptTrack"}
    BY <1>14 DEF SetEndBoundary, DeleteTrack, DropBoundary, PlaceBoundary, ClaimBoundary,
                 RehomeBoundaries, RehomeTrack, Is
  <2> QED
    BY <1>8, <2>1 DEF AdoptionKinds
<1> QED
  BY <1>10, <1>11, <1>12, <1>13, <1>14 DEF Statement


LEMMA PairingNext ==
  ASSUME EditInv, PairingInv, [Next]_vars
  PROVE  PairingInv'
<1>1. CASE Statement
  BY <1>1, PairingGoesOn DEF PairingInv
<1>2. CASE CutShort \/ Over \/ UNCHANGED vars
  BY <1>2 DEF CutShort, Over, vars, PairingInv, AllClear
<1>3. CASE Verb
  <2>1. CASE \E s \in Sides, pass \in Passes, d \in Detectors : Adopt(s, pass, d)
    <3>1. PICK s \in Sides, pass \in Passes, d \in Detectors : Adopt(s, pass, d)
      BY <2>1
    <3>2. \A i \in 1 .. Len(todo') : todo'[i].do \in {"put", "pair"}
      BY <3>1, AdoptBegins
    <3>3. AllClear(boundaries', tracks', todo')
      BY <3>2, NoInserts
    <3> QED
      BY <3>2, <3>3 DEF PairingInv, AdoptionKinds
  <2>2. CASE verb' # "adopt"
    BY <2>2 DEF PairingInv
  <2>3. \/ \E s \in Sides, pass \in Passes, d \in Detectors : Adopt(s, pass, d)
        \/ verb' # "adopt"
    BY <1>3 DEF Verb, AddTrack, Split, Merge, RemoveTrack, MoveToSide, MoveBoundary, MoveForced,
                SetLock, DeleteBoundary, RenumberSide, Attach, Begin, AtOnce
  <2> QED
    BY <2>1, <2>2, <2>3
<1> QED
  BY <1>1, <1>2, <1>3 DEF Next

LEMMA PairingHolds == Spec => [](EditInv /\ PairingInv)
<1>1. Init => PairingInv
  BY DEF Init, PairingInv
<1>2. EditInv /\ PairingInv /\ [Next]_vars => PairingInv'
  BY PairingNext
<1> QED
  BY <1>1, <1>2, EditsHold, PTL DEF Spec

(***************************************************************************)
(* "Pairing that with the next free end would make a second track          *)
(* overlapping the merged one": whatever the detectors report and however  *)
(* the rows came to be, no track an adoption is about to insert starts or  *)
(* ends inside another, and none is too short (adopt.rs:373-412).          *)
(***************************************************************************)
THEOREM AdoptionIsClear == Spec => []AdoptionKeepsOut
<1>1. EditInv /\ PairingInv => AdoptionKeepsOut
  <2> SUFFICES ASSUME EditInv, PairingInv, Is("insert"), verb = "adopt"
               PROVE  Clear(boundaries, tracks, Next1)
    BY DEF AdoptionKeepsOut, Clear
  <2>1. Next1 = todo[1] /\ todo[1].do = "insert" /\ Len(todo) \in Nat /\ Len(todo) > 0
    BY UnderWay
  <2>2. 1 \in 1 .. Len(todo)
    BY <2>1
  <2> QED
    BY <2>1, <2>2 DEF PairingInv, AllClear
<1> QED
  BY <1>1, PairingHolds, PTL

----------------------------------------------------------------------------
(* The numbers of the tracks.                                              *)

LEMMA Ranked ==
  ASSUME NEW S, IsFiniteSet(S), NEW prior, Orders(prior, S),
         NEW i \in 1 .. Cardinality(S)
  PROVE  /\ InOrder(S, prior)[i] \in S
         /\ Cardinality(Below(S, prior, InOrder(S, prior)[i])) = i - 1
<1> DEFINE n == Cardinality(S)
           g == [j \in 1 .. n |->
                   CHOOSE x \in S : Cardinality({y \in S : <<y, x>> \in prior}) = j - 1]
<1>1. n \in Nat
  BY FS_CardinalityType
<1>2. ASSUME NEW j \in 1 .. n
      PROVE  g[j] \in S /\ Cardinality(Below(S, prior, g[j])) = j - 1
  <2>0. \E x \in S : Cardinality(Below(S, prior, x)) = j - 1
    BY RankTaken
  <2>1. \E x \in S : Cardinality({y \in S : <<y, x>> \in prior}) = j - 1
    BY <2>0 DEF Below
  <2>2. /\ g[j] \in S
        /\ Cardinality({y \in S : <<y, g[j]>> \in prior}) = j - 1
    BY <2>1
  <2> HIDE DEF g
  <2> QED
    BY <2>2 DEF Below
<1>3. InOrder(S, prior) = <<>> \o g
  BY DEF InOrder
<1>4. g \in [1 .. n -> S]
  <2>1. \A j \in 1 .. n :
           (CHOOSE x \in S : Cardinality({y \in S : <<y, x>> \in prior}) = j - 1) \in S
    BY <1>2
  <2> QED
    BY <2>1, Zenon
<1> HIDE DEF g
<1>5. g \in Seq(S)
  BY <1>1, <1>4
<1>6. InOrder(S, prior) = g
  BY <1>3, <1>5, ConcatEmptySeq
<1> QED
  BY <1>2, <1>6

(***************************************************************************)
(* The number renumber_side() gives: one more than the tracks before it.   *)
(***************************************************************************)
Rank(bs, ts, t) == Cardinality(Below(TracksOn(ts, ts[t].side), TrackOrder(bs, ts), t)) + 1

Numbered(bs, ts, s) == \A t \in TracksOn(ts, s) : ts[t].number = Rank(bs, ts, t)

LEMMA RankGiven ==
  ASSUME NEW bs, NEW ts, RowsOK(bs, ts), NEW s, NEW t \in TracksOn(ts, s)
  PROVE  Renumbered(bs, ts, s)[t].number = Rank(bs, ts, t)
<1> DEFINE S == TracksOn(ts, s)
           n == Cardinality(S)
           list == Listing(bs, ts, s)
           place == CHOOSE i \in 1 .. n : list[i] = t
<1>1. t \in DOMAIN ts /\ ts[t].side = s /\ S \subseteq DOMAIN ts /\ ts[t] \in Track
  BY RowsTyped DEF TracksOn
<1>2. IsFiniteSet(S) /\ Orders(TrackOrder(bs, ts), S) /\ n \in Nat
  BY <1>1, SideIsFinite, TracksOrder, FS_CardinalityType
<1>3. \E i \in 1 .. n : list[i] = t
  BY <1>2, Listed DEF Listing
<1>4. place \in 1 .. n /\ list[place] = t
  BY <1>3
<1>5. Cardinality(Below(S, TrackOrder(bs, ts), t)) = place - 1
  <2> HIDE DEF place
  <2>1. Cardinality(Below(S, TrackOrder(bs, ts), list[place])) = place - 1
    BY <1>2, <1>4, Ranked DEF Listing
  <2> QED
    BY <1>4, <2>1
<1>6. Renumbered(bs, ts, s)[t] = [ts[t] EXCEPT !.number = place]
  BY <1>1 DEF Renumbered
<1>7. [ts[t] EXCEPT !.number = place].number = place
  BY <1>1 DEF Track
<1> HIDE DEF place
<1>8. Rank(bs, ts, t) = place
  BY <1>1, <1>2, <1>4, <1>5 DEF Rank
<1> QED
  BY <1>6, <1>7, <1>8

(***************************************************************************)
(* Only the tracks of a side and where they start decide its numbers.      *)
(***************************************************************************)
LEMMA RankKept ==
  ASSUME NEW bs, NEW ts, NEW bs2, NEW ts2, NEW s, TracksOn(ts2, s) = TracksOn(ts, s),
         \A t \in TracksOn(ts, s) : StartOf(bs2, ts2, t) = StartOf(bs, ts, t),
         NEW t \in TracksOn(ts, s)
  PROVE  Rank(bs2, ts2, t) = Rank(bs, ts, t)
<1> DEFINE S == TracksOn(ts, s)
<1>1. /\ ts[t].side = s /\ ts2[t].side = s
      /\ S \subseteq DOMAIN ts /\ S \subseteq DOMAIN ts2
  BY DEF TracksOn
<1>2. \A y \in S : <<y, t>> \in TrackOrder(bs2, ts2) <=> <<y, t>> \in TrackOrder(bs, ts)
  BY <1>1 DEF TrackOrder
<1>3. Below(S, TrackOrder(bs2, ts2), t) = Below(S, TrackOrder(bs, ts), t)
  BY <1>2 DEF Below
<1> QED
  BY <1>1, <1>3 DEF Rank

LEMMA NumberedKept ==
  ASSUME NEW bs, NEW ts, NEW bs2, NEW ts2, NEW s, TracksOn(ts2, s) = TracksOn(ts, s),
         \A t \in TracksOn(ts, s) : /\ StartOf(bs2, ts2, t) = StartOf(bs, ts, t)
                                    /\ ts2[t].number = ts[t].number,
         Numbered(bs, ts, s)
  PROVE  Numbered(bs2, ts2, s)
BY RankKept DEF Numbered

LEMMA RenumberedIs ==
  ASSUME NEW bs, NEW ts, RowsOK(bs, ts), NEW s
  PROVE  /\ Numbered(bs, Renumbered(bs, ts, s), s)
         /\ \A u : u # s /\ Numbered(bs, ts, u) => Numbered(bs, Renumbered(bs, ts, s), u)
         /\ Numbered(bs, ts, s) <=> Renumbered(bs, ts, s) = ts
<1> DEFINE ts2 == Renumbered(bs, ts, s)
<1>1. /\ DOMAIN ts2 = DOMAIN ts
      /\ \A t \in DOMAIN ts : /\ ts2[t].start = ts[t].start /\ ts2[t].end = ts[t].end
                              /\ ts2[t].side = ts[t].side
  BY RowsRenumbered
<1>2. \A t \in TracksOn(ts, s) : ts2[t].number = Rank(bs, ts, t)
  BY RankGiven
<1>3. \A t \in DOMAIN ts : ts[t].side # s => ts2[t] = ts[t]
  BY DEF Renumbered
<1>4. ts2 = [t \in DOMAIN ts |-> ts2[t]] /\ ts = [t \in DOMAIN ts |-> ts[t]]
  BY DEF Renumbered, RowsOK
<1>5. \A t \in DOMAIN ts : ts2[t].number = ts[t].number => ts2[t] = ts[t]
  <2> TAKE t \in DOMAIN ts
  <2>1. ts2[t] = ts[t] \/ \E k : ts2[t] = [ts[t] EXCEPT !.number = k]
    BY DEF Renumbered
  <2>2. ts[t] \in Track
    BY RowsTyped
  <2>3. \A k : [ts[t] EXCEPT !.number = k].number = ts[t].number
                 => [ts[t] EXCEPT !.number = k] = ts[t]
    BY <2>2 DEF Track
  <2> QED
    BY <2>1, <2>3
<1> HIDE DEF ts2
<1>6. \A u : TracksOn(ts2, u) = TracksOn(ts, u)
  BY <1>1 DEF TracksOn
<1>7. \A t \in DOMAIN ts : StartOf(bs, ts2, t) = StartOf(bs, ts, t)
  BY <1>1 DEF StartOf
<1>8. \A t \in TracksOn(ts, s) : Rank(bs, ts2, t) = Rank(bs, ts, t)
  <2>1. \A t \in TracksOn(ts, s) : t \in DOMAIN ts
    BY DEF TracksOn
  <2> QED
    BY <1>6, <1>7, <2>1, RankKept
<1>9. Numbered(bs, ts2, s)
  BY <1>2, <1>6, <1>8 DEF Numbered
<1>10. ASSUME NEW u, u # s, Numbered(bs, ts, u)
       PROVE  Numbered(bs, ts2, u)
  <2>1. \A t \in TracksOn(ts, u) : t \in DOMAIN ts /\ ts[t].side # s
    BY <1>10 DEF TracksOn
  <2> QED
    BY <1>3, <1>6, <1>7, <1>10, <2>1, NumberedKept
<1>11. ASSUME Numbered(bs, ts, s)
       PROVE  ts2 = ts
  <2>1. ASSUME NEW t \in DOMAIN ts
        PROVE  ts2[t] = ts[t]
    <3>1. CASE ts[t].side = s
      <4>1. t \in TracksOn(ts, s)
        BY <3>1 DEF TracksOn
      <4>2. ts2[t].number = ts[t].number
        BY <1>2, <1>11, <4>1 DEF Numbered
      <4> QED
        BY <1>5, <4>2
    <3> QED
      BY <1>3, <3>1
  <2> QED
    BY <1>4, <2>1
<1>12. ts2 = ts => Numbered(bs, ts, s)
  BY <1>9
<1> QED
  BY <1>9, <1>10, <1>11, <1>12 DEF ts2

(***************************************************************************)
(* check_topology() compares neighbours, and on tracks that run forward    *)
(* that is enough: what starts later starts no earlier than the next.      *)
(***************************************************************************)
LEMMA NeighboursSuffice ==
  ASSUME NEW bs, NEW ts, RowsOK(bs, ts), ~ EmptyTrack(bs, ts), NEW s
  PROVE  Overlapping(bs, ts, s) <=> ~ Disjoint(bs, ts, s)
<1> DEFINE S == TracksOn(ts, s)
           from(t) == StartOf(bs, ts, t)
           to(t) == EndOf(bs, ts, t)
           L == Listing(bs, ts, s)
<1>1. S \subseteq DOMAIN ts /\ IsFiniteSet(S) /\ Orders(TrackOrder(bs, ts), S)
  BY SideIsFinite, TracksOrder DEF TracksOn
<1>2. \A t \in S : from(t) \in Nat /\ to(t) \in Nat /\ from(t) < to(t)
  BY <1>1, RowsTyped DEF EmptyTrack
<1>3. /\ L \in Seq(S)
      /\ \A x \in S : \E i \in 1 .. Len(L) : L[i] = x
      /\ \A i, j \in 1 .. Len(L) : i < j => <<L[i], L[j]>> \in TrackOrder(bs, ts)
      /\ \A i, j \in 1 .. Len(L) : L[i] = L[j] => i = j
  BY <1>1, Listed DEF Listing
<1>4. Len(L) \in Nat /\ \A i \in 1 .. Len(L) : L[i] \in S
  BY <1>3, ElementOfSeq
<1>5. \A i, j \in 1 .. Len(L) : i < j => from(L[i]) <= from(L[j])
  <2> TAKE i, j \in 1 .. Len(L)
  <2>1. i < j => <<L[i], L[j]>> \in TrackOrder(bs, ts)
    BY <1>3
  <2>2. <<L[i], L[j]>> \in TrackOrder(bs, ts) => from(L[i]) <= from(L[j])
    <3>1. from(L[i]) \in Nat /\ from(L[j]) \in Nat
      BY <1>2, <1>4
    <3> QED
      BY <3>1 DEF TrackOrder
  <2> QED
    BY <2>1, <2>2
<1>6. Overlapping(bs, ts, s) <=> \E i \in 1 .. (Len(L) - 1) : from(L[i + 1]) < to(L[i])
  BY DEF Overlapping
<1>7. Disjoint(bs, ts, s) <=> \A t, u \in S : t # u => to(t) <= from(u) \/ to(u) <= from(t)
  BY DEF Disjoint
<1> HIDE DEF S, L, from, to
<1>8. ASSUME NEW i \in 1 .. (Len(L) - 1), from(L[i + 1]) < to(L[i])
      PROVE  ~ Disjoint(bs, ts, s)
  <2>1. i \in 1 .. Len(L) /\ i + 1 \in 1 .. Len(L) /\ i < i + 1
    BY <1>4
  <2>2. L[i] \in S /\ L[i + 1] \in S /\ L[i] # L[i + 1] /\ from(L[i]) <= from(L[i + 1])
    BY <1>3, <1>4, <1>5, <2>1
  <2>3. ~ (to(L[i]) <= from(L[i + 1])) /\ ~ (to(L[i + 1]) <= from(L[i]))
    BY <1>2, <1>8, <2>2
  <2> QED
    BY <1>7, <2>2, <2>3
<1>9. ASSUME \A i \in 1 .. (Len(L) - 1) : ~ (from(L[i + 1]) < to(L[i]))
      PROVE  Disjoint(bs, ts, s)
  <2>1. ASSUME NEW i \in 1 .. Len(L), NEW j \in 1 .. Len(L), i < j
        PROVE  to(L[i]) <= from(L[j])
    <3>1. i \in 1 .. (Len(L) - 1) /\ i + 1 \in 1 .. Len(L)
      BY <1>4, <2>1
    <3>2. from(L[i + 1]) <= from(L[j])
      <4>1. i + 1 = j \/ i + 1 < j
        BY <2>1
      <4>2. from(L[j]) \in Nat
        BY <1>2, <1>4
      <4> QED
        BY <1>5, <3>1, <4>1, <4>2
    <3>3. from(L[i + 1]) \in Nat /\ from(L[j]) \in Nat /\ to(L[i]) \in Nat
      BY <1>2, <1>4, <3>1
    <3> QED
      BY <1>9, <3>1, <3>2, <3>3
  <2>2. ASSUME NEW t \in S, NEW u \in S, t # u
        PROVE  to(t) <= from(u) \/ to(u) <= from(t)
    <3>1. PICK i \in 1 .. Len(L) : L[i] = t
      BY <1>3
    <3>2. PICK j \in 1 .. Len(L) : L[j] = u
      BY <1>3
    <3>3. i < j \/ j < i
      BY <2>2, <3>1, <3>2
    <3> QED
      BY <2>1, <3>1, <3>2, <3>3
  <2> QED
    BY <1>7, <2>2
<1> QED
  BY <1>6, <1>8, <1>9

(***************************************************************************)
(* Between verbs the tracks are numbered because a side whose order a      *)
(* statement to come may change has a renumbering to come behind it.       *)
(***************************************************************************)
Renumbers(st, s) == st.do = "renumber" /\ st.side = s

Upsets(ts, st, s) ==
  \/ st.do = "insert" /\ st.side = s
  \/ st.do = "delete" /\ st.track \in DOMAIN ts /\ ts[st.track].side = s
  \/ st.do = "adoptTrack" /\ st.track \in DOMAIN ts /\ s \in {st.side, ts[st.track].side}

Caught(ts, list) ==
  \A i \in 1 .. Len(list) : \A s \in Sides :
     Upsets(ts, list[i], s) => \E j \in i + 1 .. Len(list) : Renumbers(list[j], s)

\* A deletion is the first statement; only the rehoming of its boundaries goes before
\* that of a track, and only renumberings follow it.
Spaced(list) ==
  \A i, j \in 1 .. Len(list) : i < j =>
     /\ list[j].do # "delete"
     /\ list[j].do = "adoptTrack" => list[i].do = "rehome"
     /\ list[i].do = "adoptTrack" => list[j].do = "renumber"

NumberInv ==
  /\ \A s \in Sides \ unsettled :
        \/ Numbered(boundaries, tracks, s)
        \/ \E i \in 1 .. Len(todo) : Renumbers(todo[i], s)
  /\ Caught(tracks, todo)
  /\ Spaced(todo)

LEMMA SpacedRest ==
  ASSUME NEW list \in Seq(Statements), list # <<>>, Spaced(list)
  PROVE  Spaced(Tail(list))
<1> DEFINE rest == Tail(list)
<1>1. /\ Len(list) \in Nat /\ Len(rest) = Len(list) - 1
      /\ \A i \in 1 .. Len(rest) : rest[i] = list[i + 1] /\ i + 1 \in 1 .. Len(list)
  BY TailOf
<1> HIDE DEF rest
<1>2. ASSUME NEW i \in 1 .. Len(rest), NEW j \in 1 .. Len(rest), i < j
      PROVE  /\ rest[j].do # "delete"
             /\ rest[j].do = "adoptTrack" => rest[i].do = "rehome"
             /\ rest[i].do = "adoptTrack" => rest[j].do = "renumber"
  <2>1. /\ rest[i] = list[i + 1] /\ i + 1 \in 1 .. Len(list)
        /\ rest[j] = list[j + 1] /\ j + 1 \in 1 .. Len(list) /\ i + 1 < j + 1
    BY <1>1, <1>2
  <2> QED
    BY <2>1 DEF Spaced
<1> QED
  BY <1>2 DEF rest, Spaced

(***************************************************************************)
(* The sides of the tracks there are change only with a track rehomed.     *)
(***************************************************************************)
LEMMA CaughtRest ==
  ASSUME NEW list \in Seq(Statements), list # <<>>, NEW ts, Caught(ts, list), Spaced(list), NEW ts2,
         list[1].do \notin {"adoptTrack", "rehome"} =>
            \A i \in 2 .. Len(list) : list[i].do \in {"insert", "renumber"} \/
                                      ~ (\E s \in Sides : Upsets(ts2, list[i], s)),
         list[1].do = "rehome" => ts2 = ts
  PROVE  Caught(ts2, Tail(list))
<1> DEFINE rest == Tail(list)
<1>1. /\ Len(list) \in Nat /\ Len(list) > 0 /\ Len(rest) = Len(list) - 1
      /\ \A i \in 1 .. Len(rest) : rest[i] = list[i + 1] /\ i + 1 \in 1 .. Len(list)
  BY TailOf
<1> HIDE DEF rest
<1>2. ASSUME NEW i \in 1 .. Len(rest), NEW s \in Sides, Upsets(ts2, rest[i], s)
      PROVE  \E j \in i + 1 .. Len(rest) : Renumbers(rest[j], s)
  <2>1. /\ rest[i] = list[i + 1] /\ i + 1 \in 2 .. Len(list) /\ i + 1 \in 1 .. Len(list)
        /\ 1 \in 1 .. Len(list) /\ 1 < i + 1
    BY <1>1
  <2>2. rest[i].do \in {"insert", "delete", "adoptTrack"}
    BY <1>2 DEF Upsets
  <2>3. rest[i].do # "delete" /\ (rest[i].do = "adoptTrack" => list[1].do = "rehome")
    BY <2>1 DEF Spaced
  <2>4. Upsets(ts, list[i + 1], s)
    <3>1. CASE rest[i].do = "insert"
      BY <1>2, <2>1, <3>1 DEF Upsets
    <3>2. CASE rest[i].do = "adoptTrack"
      BY <1>2, <2>1, <2>3, <3>2
    <3> QED
      BY <2>2, <2>3, <3>1, <3>2
  <2>5. PICK k \in (i + 1) + 1 .. Len(list) : Renumbers(list[k], s)
    BY <2>1, <2>4 DEF Caught
  <2>6. k - 1 \in i + 1 .. Len(rest) /\ k - 1 \in 1 .. Len(rest) /\ (k - 1) + 1 = k
    BY <1>1, <2>1
  <2>7. rest[k - 1] = list[k]
    BY <1>1, <2>6
  <2> QED
    BY <2>5, <2>6, <2>7
<1>3. Caught(ts2, rest)
  BY <1>2 DEF Caught
<1> QED
  BY <1>3 DEF rest

LEMMA NumbersGoOn ==
  ASSUME EditInv, NumberInv, todo # <<>>, todo' = Tail(todo),
         todo[1].do = "rehome" => tracks' = tracks,
         \A s \in Sides \ unsettled' :
            \/ Numbered(boundaries', tracks', s)
            \/ /\ s \notin unsettled /\ ~ Renumbers(todo[1], s)
               /\ \/ Upsets(tracks, todo[1], s)
                  \/ Numbered(boundaries, tracks, s) => Numbered(boundaries', tracks', s)
  PROVE  NumberInv'
<1>1. todo \in Seq(Statements)
  BY DEF EditInv
<1> DEFINE rest == Tail(todo)
<1>2. /\ Len(todo) \in Nat /\ Len(todo) > 0 /\ Len(rest) = Len(todo) - 1
      /\ \A i \in 1 .. Len(rest) : rest[i] = todo[i + 1] /\ i + 1 \in 1 .. Len(todo)
  BY <1>1, TailOf
<1>3. Spaced(rest)
  BY <1>1, SpacedRest DEF NumberInv
<1>4. Caught(tracks', rest)
  <2>1. Caught(tracks, todo) /\ Spaced(todo)
    BY DEF NumberInv
  <2>2. ASSUME todo[1].do \notin {"adoptTrack", "rehome"}, NEW i \in 2 .. Len(todo)
        PROVE  \/ todo[i].do \in {"insert", "renumber"}
               \/ ~ (\E s \in Sides : Upsets(tracks', todo[i], s))
    <3>1. i \in 1 .. Len(todo) /\ 1 \in 1 .. Len(todo) /\ 1 < i
      BY <1>2
    <3>2. todo[i].do \notin {"delete", "adoptTrack"}
      BY <2>1, <2>2, <3>1 DEF Spaced
    <3> QED
      BY <3>2 DEF Upsets
  <2> QED
    BY <1>1, <2>1, <2>2, CaughtRest
<1> HIDE DEF rest
<1>5. ASSUME NEW s \in Sides \ unsettled'
      PROVE  Numbered(boundaries', tracks', s) \/ \E i \in 1 .. Len(rest) : Renumbers(rest[i], s)
  <2>1. ASSUME NEW k \in 2 .. Len(todo), Renumbers(todo[k], s)
        PROVE  \E i \in 1 .. Len(rest) : Renumbers(rest[i], s)
    <3>1. k - 1 \in 1 .. Len(rest) /\ (k - 1) + 1 = k
      BY <1>2
    <3>2. rest[k - 1] = todo[k]
      BY <1>2, <3>1
    <3> QED
      BY <2>1, <3>1, <3>2
  <2>2. CASE s \notin unsettled /\ ~ Renumbers(todo[1], s)
    <3>1. CASE Upsets(tracks, todo[1], s)
      <4>1. 1 \in 1 .. Len(todo)
        BY <1>2
      <4>2. PICK k \in 1 + 1 .. Len(todo) : Renumbers(todo[k], s)
        BY <3>1, <4>1 DEF NumberInv, Caught
      <4> QED
        BY <2>1, <4>2
    <3>2. CASE Numbered(boundaries, tracks, s)
      BY <3>1, <3>2
    <3>3. CASE \E i \in 1 .. Len(todo) : Renumbers(todo[i], s)
      <4>1. PICK k \in 1 .. Len(todo) : Renumbers(todo[k], s)
        BY <3>3
      <4>2. k \in 2 .. Len(todo)
        BY <1>2, <2>2, <4>1
      <4> QED
        BY <2>1, <4>1, <4>2
    <3> QED
      BY <2>2, <3>2, <3>3 DEF NumberInv
  <2> QED
    BY <2>2
<1>6. todo' = rest
  BY DEF rest
<1> QED
  BY <1>3, <1>4, <1>5, <1>6 DEF NumberInv

----------------------------------------------------------------------------
(* What each statement does to where the tracks lie.                       *)

(***************************************************************************)
(* The same tracks, each from where to where it was.                       *)
(***************************************************************************)
SameSpans(bs, ts, bs2, ts2) ==
  /\ DOMAIN ts2 = DOMAIN ts
  /\ \A t \in DOMAIN ts : /\ ts2[t].side = ts[t].side
                          /\ StartOf(bs2, ts2, t) = StartOf(bs, ts, t)
                          /\ EndOf(bs2, ts2, t) = EndOf(bs, ts, t)

LEMMA AtsKept ==
  ASSUME NEW bs, NEW ts, RowsOK(bs, ts), NEW bs2,
         \A t \in DOMAIN ts : /\ bs2[ts[t].start].at = bs[ts[t].start].at
                              /\ bs2[ts[t].end].at = bs[ts[t].end].at
  PROVE  SameSpans(bs, ts, bs2, ts)
BY DEF SameSpans, StartOf, EndOf

LEMMA PutDoes ==
  ASSUME EditInv, PutBoundary
  PROVE  /\ Next1.id \in DOMAIN boundaries' /\ SamePlace(boundaries'[Next1.id], Next1.row)
         /\ \A b \in DOMAIN boundaries :
               b \in DOMAIN boundaries' /\ SamePlace(boundaries'[b], boundaries[b])
         /\ SameSpans(boundaries, tracks, boundaries', tracks)
<1> DEFINE row == Next1.row
           id  == Next1.id
<1>1. /\ Next1 = todo[1] /\ todo[1].do = "put" /\ todo[1] \in Statements
      /\ Len(todo) \in Nat /\ Len(todo) > 0
      /\ RowsOK(boundaries, tracks) /\ Ready(boundaries, todo)
  BY UnderWay DEF PutBoundary
<1>2. PutReady(boundaries, Next1)
  <2>1. 1 \in 1 .. Len(todo)
    BY <1>1
  <2> QED
    BY <1>1, <2>1 DEF Ready, PutsReady
<1>3. /\ id \in DOMAIN boundaries' /\ SamePlace(boundaries'[id], row)
      /\ \A b \in DOMAIN boundaries :
            b \in DOMAIN boundaries' /\ SamePlace(boundaries'[b], boundaries[b])
  <2>1. CASE id \notin DOMAIN boundaries
    <3>1. boundaries' = With(boundaries, id, row)
      BY <2>1 DEF PutBoundary
    <3> QED
      BY <2>1, <3>1 DEF With, SamePlace
  <2>2. CASE id \in DOMAIN boundaries
    <3> DEFINE old == boundaries[id]
               prov == IF old.locked THEN old.prov ELSE row.prov
               locked == old.locked \/ row.locked
    <3>1. boundaries' = [boundaries EXCEPT ![id] = [old EXCEPT !.prov = prov, !.locked = locked]]
      BY <2>2 DEF PutBoundary
    <3>2. old \in Boundary
      BY <1>1, <2>2, RowsTyped
    <3> HIDE DEF prov, locked
    <3>3. SamePlace([old EXCEPT !.prov = prov, !.locked = locked], old)
      BY <3>2, BoundaryFields DEF SamePlace
    <3>4. SamePlace(old, row)
      BY <1>2, <2>2 DEF PutReady
    <3>5. \A b \in DOMAIN boundaries :
             b \in DOMAIN boundaries' /\ SamePlace(boundaries'[b], boundaries[b])
      BY <3>1, <3>3 DEF SamePlace
    <3>6. id \in DOMAIN boundaries' /\ SamePlace(boundaries'[id], row)
      BY <2>2, <3>4, <3>5 DEF SamePlace
    <3> QED
      BY <3>5, <3>6
  <2> QED
    BY <2>1, <2>2
<1>4. \A t \in DOMAIN tracks : tracks[t].start \in DOMAIN boundaries /\ tracks[t].end \in DOMAIN boundaries
  BY <1>1, RowsTyped
<1>5. SameSpans(boundaries, tracks, boundaries', tracks)
  BY <1>1, <1>3, <1>4, AtsKept DEF SamePlace
<1> QED
  BY <1>3, <1>5

LEMMA DropDoes ==
  ASSUME EditInv, DropBoundary
  PROVE  /\ tracks' = tracks
         /\ \A t \in DOMAIN tracks : \A b \in {tracks[t].start, tracks[t].end} :
               b \in DOMAIN boundaries' /\ boundaries'[b] = boundaries[b]
         /\ SameSpans(boundaries, tracks, boundaries', tracks)
<1>1. tracks' = tracks /\ RowsOK(boundaries, tracks)
  BY DEF DropBoundary, EditInv, TypeOK
<1>2. \A t \in DOMAIN tracks : {tracks[t].start, tracks[t].end} \subseteq DOMAIN boundaries
  BY <1>1 DEF RowsOK
<1>3. \A t \in DOMAIN tracks : \A b \in {tracks[t].start, tracks[t].end} :
         b \in DOMAIN boundaries' /\ boundaries'[b] = boundaries[b]
  <2>1. CASE Bounding(tracks, Next1.id) = {} /\ ~ boundaries[Next1.id].locked
    <3>1. boundaries' = Without(boundaries, Next1.id)
      BY <2>1 DEF DropBoundary
    <3>2. \A t \in DOMAIN tracks : Next1.id \notin {tracks[t].start, tracks[t].end}
      BY <2>1 DEF Bounding
    <3> QED
      BY <1>2, <3>1, <3>2 DEF Without, Restrict
  <2>2. CASE ~ (Bounding(tracks, Next1.id) = {} /\ ~ boundaries[Next1.id].locked)
    <3>1. boundaries' = boundaries
      BY <2>2 DEF DropBoundary
    <3> QED
      BY <1>2, <3>1
  <2> QED
    BY <2>1, <2>2
<1>4. SameSpans(boundaries, tracks, boundaries', tracks)
  BY <1>1, <1>3, AtsKept
<1> QED
  BY <1>1, <1>3, <1>4

LEMMA ClaimDoes ==
  ASSUME EditInv, ClaimBoundary
  PROVE  tracks' = tracks /\ SameSpans(boundaries, tracks, boundaries', tracks)
<1>1. tracks' = tracks /\ RowsOK(boundaries, tracks)
  BY DEF ClaimBoundary, EditInv, TypeOK
<1>2. \A b \in DOMAIN boundaries : boundaries'[b].at = boundaries[b].at
  <2>1. \A b \in DOMAIN boundaries :
           [boundaries[b] EXCEPT !.prov = "user", !.locked = TRUE].at = boundaries[b].at
    BY <1>1, RowsTyped, BoundaryFields
  <2> DEFINE new == [boundaries[Next1.id] EXCEPT !.prov = "user", !.locked = TRUE]
  <2>2. boundaries' = [boundaries EXCEPT ![Next1.id] = new]
    BY DEF ClaimBoundary
  <2>3. Next1.id \in DOMAIN boundaries => new.at = boundaries[Next1.id].at
    BY <2>1
  <2> HIDE DEF new
  <2> QED
    BY <2>2, <2>3
<1>3. \A t \in DOMAIN tracks : tracks[t].start \in DOMAIN boundaries /\ tracks[t].end \in DOMAIN boundaries
  BY <1>1, RowsTyped
<1> QED
  BY <1>1, <1>2, <1>3, AtsKept

LEMMA RehomeDoes ==
  ASSUME EditInv, RehomeBoundaries
  PROVE  tracks' = tracks /\ SameSpans(boundaries, tracks, boundaries', tracks)
<1>1. tracks' = tracks /\ RowsOK(boundaries, tracks)
  BY DEF RehomeBoundaries, EditInv, TypeOK
<1>2. \A b \in DOMAIN boundaries : boundaries'[b].at = boundaries[b].at
  <2>1. \A b \in DOMAIN boundaries :
           [boundaries[b] EXCEPT !.side = Next1.side].at = boundaries[b].at
    BY <1>1, RowsTyped, BoundaryFields
  <2>2. \A b \in DOMAIN boundaries :
           \/ boundaries'[b] = boundaries[b]
           \/ boundaries'[b] = [boundaries[b] EXCEPT !.side = Next1.side]
    BY DEF RehomeBoundaries
  <2> QED
    BY <2>1, <2>2
<1>3. \A t \in DOMAIN tracks : tracks[t].start \in DOMAIN boundaries /\ tracks[t].end \in DOMAIN boundaries
  BY <1>1, RowsTyped
<1> QED
  BY <1>1, <1>2, <1>3, AtsKept

LEMMA RenumberDoes ==
  ASSUME EditInv, RenumberTracks
  PROVE  /\ boundaries' = boundaries /\ DOMAIN tracks' = DOMAIN tracks
         /\ \A t \in DOMAIN tracks : /\ tracks'[t].side = tracks[t].side
                                     /\ tracks'[t].start = tracks[t].start
                                     /\ tracks'[t].end = tracks[t].end
         /\ SameSpans(boundaries, tracks, boundaries', tracks')
<1>1. /\ boundaries' = boundaries /\ RowsOK(boundaries, tracks)
      /\ tracks' = Renumbered(boundaries, tracks, Next1.side)
  BY DEF RenumberTracks, EditInv, TypeOK
<1>2. /\ DOMAIN tracks' = DOMAIN tracks
      /\ \A t \in DOMAIN tracks : /\ tracks'[t].side = tracks[t].side
                                  /\ tracks'[t].start = tracks[t].start
                                  /\ tracks'[t].end = tracks[t].end
  BY <1>1, RowsRenumbered
<1> QED
  BY <1>1, <1>2 DEF SameSpans, StartOf, EndOf

LEMMA InsertDoes ==
  ASSUME EditInv, InsertTrack
  PROVE  /\ boundaries' = boundaries
         /\ Next1.start \in DOMAIN boundaries /\ Next1.end \in DOMAIN boundaries
         /\ \E new : /\ new \notin DOMAIN tracks
                     /\ DOMAIN tracks' = DOMAIN tracks \cup {new}
                     /\ tracks'[new].side = Next1.side
                     /\ tracks'[new].start = Next1.start /\ tracks'[new].end = Next1.end
                     /\ \A t \in DOMAIN tracks : tracks'[t] = tracks[t]
<1> DEFINE free == TrackIds \ DOMAIN tracks
           row == [side |-> Next1.side, number |-> NextNumber(tracks, Next1.side),
                   start |-> Next1.start, end |-> Next1.end]
           new == Min(free)
<1>1. boundaries' = boundaries /\ free # {} /\ tracks' = With(tracks, new, row)
  BY DEF InsertTrack
<1>2. free \subseteq Nat
  BY TrackAssumption
<1>3. new \in free
  <2> HIDE DEF free
  <2> QED
    BY <1>1, <1>2, MinIsLeast
<1>4. new \notin DOMAIN tracks
  BY <1>3
<1>5. /\ row.side = Next1.side /\ row.start = Next1.start /\ row.end = Next1.end
  OBVIOUS
<1> HIDE DEF new, row, free
<1>6. /\ new \notin DOMAIN tracks
      /\ DOMAIN tracks' = DOMAIN tracks \cup {new}
      /\ tracks'[new].side = Next1.side
      /\ tracks'[new].start = Next1.start /\ tracks'[new].end = Next1.end
      /\ \A t \in DOMAIN tracks : tracks'[t] = tracks[t]
  BY <1>1, <1>4, <1>5 DEF With
<1>7. Next1.start \in DOMAIN boundaries /\ Next1.end \in DOMAIN boundaries
  <2>1. /\ Next1 = todo[1] /\ todo[1].do = "insert" /\ Len(todo) \in Nat /\ Len(todo) > 0
        /\ Ready(boundaries, todo)
    BY UnderWay DEF InsertTrack
  <2>2. 1 \in 1 .. Len(todo) /\ 1 .. 1 - 1 = {}
    BY <2>1
  <2> QED
    BY <2>1, <2>2 DEF Ready, EndsAwaited, Awaits, Edged
<1> QED
  BY <1>1, <1>6, <1>7

LEMMA SetEndDoes ==
  ASSUME EditInv, SetEndBoundary
  PROVE  /\ boundaries' = boundaries /\ DOMAIN tracks' = DOMAIN tracks
         /\ Next1.end \in DOMAIN boundaries
         /\ \A t \in DOMAIN tracks : /\ tracks'[t].side = tracks[t].side
                                     /\ tracks'[t].start = tracks[t].start
                                     /\ tracks'[t].number = tracks[t].number
                                     /\ tracks'[t].end = IF t = Next1.track THEN Next1.end
                                                                            ELSE tracks[t].end
<1>1. boundaries' = boundaries /\ RowsOK(boundaries, tracks)
  BY DEF SetEndBoundary, EditInv, TypeOK
<1>2. /\ Next1 = todo[1] /\ todo[1].do = "setEnd" /\ Len(todo) \in Nat /\ Len(todo) > 0
      /\ Ready(boundaries, todo)
  BY UnderWay DEF SetEndBoundary
<1>3. Next1.end \in DOMAIN boundaries
  <2>1. 1 \in 1 .. Len(todo) /\ 1 .. 1 - 1 = {}
    BY <1>2
  <2> QED
    BY <1>2, <2>1 DEF Ready, EndsAwaited, Awaits, Edged
<1>4. \A t \in DOMAIN tracks :
         LET m == [tracks[t] EXCEPT !.end = Next1.end]
         IN  /\ m.side = tracks[t].side /\ m.start = tracks[t].start
             /\ m.number = tracks[t].number /\ m.end = Next1.end
  BY <1>1, RowsTyped DEF Track
<1>5. CASE Next1.track \in DOMAIN tracks
  <2>1. tracks' = [tracks EXCEPT ![Next1.track].end = Next1.end]
    BY <1>5 DEF SetEndBoundary
  <2> QED
    BY <1>1, <1>3, <1>4, <2>1
<1>6. CASE Next1.track \notin DOMAIN tracks
  <2>1. tracks' = tracks
    BY <1>6 DEF SetEndBoundary
  <2> QED
    BY <1>1, <1>3, <1>6, <2>1
<1> QED
  BY <1>5, <1>6

LEMMA DeleteDoes ==
  ASSUME EditInv, DeleteTrack
  PROVE  /\ boundaries' = boundaries /\ DOMAIN tracks' = DOMAIN tracks \ {Next1.track}
         /\ \A t \in DOMAIN tracks' : tracks'[t] = tracks[t]
BY DEF DeleteTrack, Without, Restrict

LEMMA RehomeTrackDoes ==
  ASSUME EditInv, RehomeTrack
  PROVE  /\ boundaries' = boundaries /\ DOMAIN tracks' = DOMAIN tracks
         /\ \A t \in DOMAIN tracks : t # Next1.track => tracks'[t] = tracks[t]
         /\ \A t \in DOMAIN tracks : /\ tracks'[t].start = tracks[t].start
                                     /\ tracks'[t].end = tracks[t].end
                                     /\ t = Next1.track => tracks'[t].side = Next1.side
<1>1. boundaries' = boundaries /\ RowsOK(boundaries, tracks)
  BY DEF RehomeTrack, EditInv, TypeOK
<1> DEFINE moved(t) == [tracks[t] EXCEPT !.side = Next1.side,
                                         !.number = NextNumber(tracks, Next1.side)]
<1>2. tracks' = [tracks EXCEPT ![Next1.track] = moved(Next1.track)]
  BY DEF RehomeTrack
<1>3. \A t \in DOMAIN tracks : /\ moved(t).start = tracks[t].start
                               /\ moved(t).end = tracks[t].end /\ moved(t).side = Next1.side
  BY <1>1, RowsTyped DEF Track
<1> HIDE DEF moved
<1> QED
  BY <1>1, <1>2, <1>3

----------------------------------------------------------------------------
(* The numbers, statement by statement.                                    *)

LEMMA StartsKeepNumbers ==
  ASSUME NEW bs, NEW ts, NEW bs2, NEW ts2, DOMAIN ts2 = DOMAIN ts, NEW s,
         \A t \in DOMAIN ts : ts2[t].side = ts[t].side,
         \A t \in TracksOn(ts, s) : /\ StartOf(bs2, ts2, t) = StartOf(bs, ts, t)
                                    /\ ts2[t].number = ts[t].number,
         Numbered(bs, ts, s)
  PROVE  Numbered(bs2, ts2, s)
<1>1. TracksOn(ts2, s) = TracksOn(ts, s)
  BY DEF TracksOn
<1> QED
  BY <1>1, NumberedKept

(***************************************************************************)
(* A statement that leaves where the tracks start and their numbers.       *)
(***************************************************************************)
LEMMA StartsGoOn ==
  ASSUME EditInv, NumberInv, NEW do, Is(do), do # "renumber", Proceed(Tail(todo)),
         do = "rehome" => tracks' = tracks, unsettled' = unsettled,
         DOMAIN tracks' = DOMAIN tracks,
         \A t \in DOMAIN tracks : /\ tracks'[t].side = tracks[t].side
                                  /\ tracks'[t].number = tracks[t].number
                                  /\ StartOf(boundaries', tracks', t) = StartOf(boundaries, tracks, t)
  PROVE  NumberInv'
<1>1. /\ todo # <<>> /\ todo' = Tail(todo) /\ todo[1].do = do
  BY UnderWay DEF Proceed
<1>2. ASSUME NEW s \in Sides \ unsettled', Numbered(boundaries, tracks, s)
      PROVE  Numbered(boundaries', tracks', s)
  <2>1. \A t \in TracksOn(tracks, s) : t \in DOMAIN tracks
    BY DEF TracksOn
  <2> QED
    BY <1>2, <2>1, StartsKeepNumbers
<1>3. \A s \in Sides : ~ Renumbers(todo[1], s)
  BY <1>1 DEF Renumbers
<1> QED
  BY <1>1, <1>2, <1>3, NumbersGoOn

LEMMA NumbersOfMoves ==
  ASSUME EditInv, NumberInv,
         PutBoundary \/ SetEndBoundary \/ DropBoundary \/ ClaimBoundary \/ RehomeBoundaries
  PROVE  NumberInv'
<1>1. CASE PutBoundary
  <2>1. Is("put") /\ Proceed(Tail(todo)) /\ tracks' = tracks /\ unsettled' = unsettled
    BY <1>1 DEF PutBoundary
  <2>2. SameSpans(boundaries, tracks, boundaries', tracks)
    BY <1>1, PutDoes
  <2> QED
    BY <2>1, <2>2, StartsGoOn DEF SameSpans
<1>2. CASE SetEndBoundary
  <2>1. Is("setEnd") /\ Proceed(Tail(todo)) /\ unsettled' = unsettled
    BY <1>2 DEF SetEndBoundary
  <2>2. /\ boundaries' = boundaries /\ DOMAIN tracks' = DOMAIN tracks
        /\ \A t \in DOMAIN tracks : /\ tracks'[t].side = tracks[t].side
                                    /\ tracks'[t].start = tracks[t].start
                                    /\ tracks'[t].number = tracks[t].number
    BY <1>2, SetEndDoes
  <2> QED
    BY <2>1, <2>2, StartsGoOn DEF StartOf
<1>3. CASE DropBoundary
  <2>1. Is("drop") /\ Proceed(Tail(todo)) /\ tracks' = tracks /\ unsettled' = unsettled
    BY <1>3 DEF DropBoundary
  <2>2. SameSpans(boundaries, tracks, boundaries', tracks)
    BY <1>3, DropDoes
  <2> QED
    BY <2>1, <2>2, StartsGoOn DEF SameSpans
<1>4. CASE ClaimBoundary
  <2>1. Is("claim") /\ Proceed(Tail(todo)) /\ tracks' = tracks /\ unsettled' = unsettled
    BY <1>4 DEF ClaimBoundary
  <2>2. SameSpans(boundaries, tracks, boundaries', tracks)
    BY <1>4, ClaimDoes
  <2> QED
    BY <2>1, <2>2, StartsGoOn DEF SameSpans
<1>5. CASE RehomeBoundaries
  <2>1. Is("rehome") /\ Proceed(Tail(todo)) /\ tracks' = tracks /\ unsettled' = unsettled
    BY <1>5 DEF RehomeBoundaries
  <2>2. SameSpans(boundaries, tracks, boundaries', tracks)
    BY <1>5, RehomeDoes
  <2> QED
    BY <2>1, <2>2, StartsGoOn DEF SameSpans
<1> QED
  BY <1>1, <1>2, <1>3, <1>4, <1>5

LEMMA MovedStarts ==
  ASSUME RowsOK(boundaries, tracks), NEW b, NEW to, NEW s, s \notin Bounded(b),
         NEW bs2, bs2 = Moved(b, to), Numbered(boundaries, tracks, s)
  PROVE  Numbered(bs2, tracks, s)
<1>1. \A t \in TracksOn(tracks, s) : t \in DOMAIN tracks /\ tracks[t].start # b
  BY DEF TracksOn, Bounded, Bounding
<1>2. \A t \in DOMAIN tracks : tracks[t].start \in DOMAIN boundaries
  BY RowsTyped
<1>3. \A c \in DOMAIN boundaries : c # b => bs2[c] = boundaries[c]
  BY DEF Moved
<1>4. \A t \in TracksOn(tracks, s) : StartOf(bs2, tracks, t) = StartOf(boundaries, tracks, t)
  BY <1>1, <1>2, <1>3 DEF StartOf
<1> QED
  BY <1>4, StartsKeepNumbers

LEMMA NumbersOfPlace ==
  ASSUME EditInv, NumberInv, PlaceBoundary
  PROVE  NumberInv'
<1>1. /\ Is("place") /\ todo' = Tail(todo) /\ tracks' = tracks
      /\ boundaries' = Moved(Next1.id, Next1.at)
      /\ unsettled' = unsettled \cup Bounded(Next1.id) /\ RowsOK(boundaries, tracks)
  BY DEF PlaceBoundary, Proceed, EditInv, TypeOK
<1>2. todo # <<>> /\ todo[1].do = "place"
  BY <1>1, UnderWay
<1>3. ASSUME NEW s \in Sides \ unsettled', Numbered(boundaries, tracks, s)
      PROVE  Numbered(boundaries', tracks', s)
  BY <1>1, <1>3, MovedStarts
<1>4. \A s \in Sides : ~ Renumbers(todo[1], s)
  BY <1>2 DEF Renumbers
<1> QED
  BY <1>1, <1>2, <1>3, <1>4, NumbersGoOn

LEMMA NumbersOfTracks ==
  ASSUME EditInv, NumberInv, InsertTrack \/ DeleteTrack \/ RehomeTrack
  PROVE  NumberInv'
<1>1. /\ todo # <<>> /\ todo' = Tail(todo) /\ Next1 = todo[1] /\ unsettled' = unsettled
      /\ todo[1].do \in {"insert", "delete", "adoptTrack"} /\ boundaries' = boundaries
  BY UnderWay DEF InsertTrack, DeleteTrack, RehomeTrack, Proceed
<1>2. ASSUME NEW s \in Sides, ~ Upsets(tracks, todo[1], s)
      PROVE  /\ TracksOn(tracks', s) = TracksOn(tracks, s)
             /\ \A t \in TracksOn(tracks, s) : tracks'[t] = tracks[t]
  <2>1. CASE InsertTrack
    <3>1. todo[1].do = "insert"
      BY <2>1, UnderWay DEF InsertTrack
    <3>2. todo[1].side # s
      BY <1>2, <3>1 DEF Upsets
    <3>3. PICK new : /\ new \notin DOMAIN tracks
                     /\ DOMAIN tracks' = DOMAIN tracks \cup {new}
                     /\ tracks'[new].side = todo[1].side
                     /\ \A t \in DOMAIN tracks : tracks'[t] = tracks[t]
      BY <1>1, <2>1, InsertDoes
    <3> QED
      BY <3>2, <3>3 DEF TracksOn
  <2>2. CASE DeleteTrack
    <3>1. todo[1].do = "delete"
      BY <2>2, UnderWay DEF DeleteTrack
    <3>2. ~ (todo[1].track \in DOMAIN tracks /\ tracks[todo[1].track].side = s)
      BY <1>2, <3>1 DEF Upsets
    <3>3. /\ DOMAIN tracks' = DOMAIN tracks \ {todo[1].track}
          /\ \A t \in DOMAIN tracks' : tracks'[t] = tracks[t]
      BY <1>1, <2>2, DeleteDoes
    <3> QED
      BY <3>2, <3>3 DEF TracksOn
  <2>3. CASE RehomeTrack
    <3>1. todo[1].do = "adoptTrack"
      BY <2>3, UnderWay DEF RehomeTrack
    <3>2. ~ (todo[1].track \in DOMAIN tracks /\ s \in {todo[1].side, tracks[todo[1].track].side})
      BY <1>2, <3>1 DEF Upsets
    <3>3. /\ DOMAIN tracks' = DOMAIN tracks
          /\ \A t \in DOMAIN tracks : t # todo[1].track => tracks'[t] = tracks[t]
          /\ \A t \in DOMAIN tracks : t = todo[1].track => tracks'[t].side = todo[1].side
      <4>1. /\ DOMAIN tracks' = DOMAIN tracks
            /\ \A t \in DOMAIN tracks : t # Next1.track => tracks'[t] = tracks[t]
            /\ \A t \in DOMAIN tracks : t = Next1.track => tracks'[t].side = Next1.side
        BY <2>3, RehomeTrackDoes
      <4> QED
        BY <1>1, <4>1
    <3> QED
      BY <3>2, <3>3 DEF TracksOn
  <2> QED
    BY <2>1, <2>2, <2>3
<1>3. ASSUME NEW s \in Sides, ~ Upsets(tracks, todo[1], s), Numbered(boundaries, tracks, s)
      PROVE  Numbered(boundaries', tracks', s)
  <2>1. \A t \in TracksOn(tracks, s) :
           StartOf(boundaries', tracks', t) = StartOf(boundaries, tracks, t)
    BY <1>1, <1>2, <1>3 DEF StartOf
  <2> QED
    BY <1>2, <1>3, <2>1, NumberedKept
<1>4. \A s \in Sides : ~ Renumbers(todo[1], s)
  BY <1>1 DEF Renumbers
<1> QED
  BY <1>1, <1>3, <1>4, NumbersGoOn

LEMMA NumbersOfRenumber ==
  ASSUME EditInv, NumberInv, RenumberTracks
  PROVE  NumberInv'
<1>1. /\ todo # <<>> /\ todo' = Tail(todo) /\ Next1 = todo[1] /\ todo[1].do = "renumber"
      /\ unsettled' = unsettled \ {todo[1].side} /\ boundaries' = boundaries
      /\ tracks' = Renumbered(boundaries, tracks, todo[1].side) /\ RowsOK(boundaries, tracks)
  BY UnderWay DEF RenumberTracks, Proceed
<1>2. Numbered(boundaries', tracks', todo[1].side)
  BY <1>1, RenumberedIs
<1>3. ASSUME NEW s \in Sides \ unsettled', s # todo[1].side
      PROVE  /\ s \notin unsettled /\ ~ Renumbers(todo[1], s)
             /\ Numbered(boundaries, tracks, s) => Numbered(boundaries', tracks', s)
  BY <1>1, <1>3, RenumberedIs DEF Renumbers
<1> QED
  BY <1>1, <1>2, <1>3, NumbersGoOn

LEMMA PairsCaught ==
  ASSUME RowsOK(boundaries, tracks), NEW s \in Sides
  PROVE  LET list == PairStatements(s) IN Caught(tracks, list) /\ Spaced(list)
<1> DEFINE list == PairStatements(s)
           n == Len(Opening(s))
           a(k) == Free(s)[Opening(s)[(k + 1) \div 2]]
           b(k) == Free(s)[Opening(s)[(k + 1) \div 2] + 1]
<1>1. /\ Len(list) = 2 * n
      /\ \A k \in 1 .. Len(list) : list[k] = IF k % 2 = 1 THEN Insert(s, a(k), b(k)) ELSE Renumber(s)
  BY PairShape
<1>2. n \in Nat
  BY OpeningListed
<1> HIDE DEF list, n, a, b
<1>3. ASSUME NEW k \in 1 .. Len(list)
      PROVE  \/ k % 2 = 1 /\ list[k].do = "insert" /\ list[k].side = s
             \/ Renumbers(list[k], s)
  <2>1. CASE k % 2 = 1
    <3>1. list[k] = Insert(s, a(k), b(k))
      BY <1>1, <2>1
    <3> QED
      BY <2>1, <3>1 DEF Insert
  <2>2. CASE k % 2 # 1
    <3>1. list[k] = Renumber(s)
      BY <1>1, <2>2
    <3> QED
      BY <3>1 DEF Renumber, Renumbers
  <2> QED
    BY <2>1, <2>2
<1>4. ASSUME NEW k \in 1 .. Len(list), k % 2 = 1
      PROVE  k + 1 \in k + 1 .. Len(list) /\ k + 1 \in 1 .. Len(list) /\ (k + 1) % 2 # 1
  BY <1>1, <1>2, <1>4
<1>5. ASSUME NEW k \in 1 .. Len(list), NEW u \in Sides, Upsets(tracks, list[k], u)
      PROVE  \E j \in k + 1 .. Len(list) : Renumbers(list[j], u)
  <2>1. k % 2 = 1 /\ u = s
    BY <1>3, <1>5 DEF Upsets, Renumbers
  <2>2. k + 1 \in k + 1 .. Len(list) /\ Renumbers(list[k + 1], s)
    BY <1>3, <1>4, <2>1
  <2> QED
    BY <2>1, <2>2
<1>6. Caught(tracks, list)
  BY <1>5 DEF Caught
<1>7. Spaced(list)
  BY <1>3 DEF Spaced, Renumbers
<1> QED
  BY <1>6, <1>7 DEF list

LEMMA NumbersOfPair ==
  ASSUME EditInv, NumberInv, PairFree
  PROVE  NumberInv'
<1> DEFINE list == PairStatements(Next1.side)
<1>1. /\ todo' = list /\ boundaries' = boundaries /\ tracks' = tracks
      /\ unsettled' = unsettled /\ RowsOK(boundaries, tracks) /\ Next1.side \in Sides
  BY OnlyThePairing DEF PairFree, Proceed, EditInv, TypeOK
<1>2. Caught(tracks, list) /\ Spaced(list)
  BY <1>1, PairsCaught
<1>3. \A s \in Sides : \A i \in 1 .. Len(todo) : ~ Renumbers(todo[i], s)
  <2>1. /\ todo \in Seq(Statements) /\ todo # <<>> /\ todo[1].do = "pair"
    BY UnderWay DEF PairFree
  <2>2. Len(Tail(todo)) = 0
    BY OnlyThePairing, EmptySeq
  <2>3. \A i \in 1 .. Len(todo) : i = 1
    <3> DEFINE n == Len(todo)
               k == Len(Tail(todo))
    <3>1. n \in Nat /\ k = n - 1 /\ k = 0
      BY <2>1, <2>2, TailOf
    <3> HIDE DEF n, k
    <3>2. \A i \in 1 .. n : i = 1
      BY <3>1
    <3> QED
      BY <3>2 DEF n
  <2> QED
    BY <2>1, <2>3 DEF Renumbers
<1> HIDE DEF list
<1>4. \A s \in Sides \ unsettled' : Numbered(boundaries', tracks', s)
  BY <1>1, <1>3 DEF NumberInv
<1> QED
  BY <1>1, <1>2, <1>4 DEF NumberInv

LEMMA NumbersOfStatement ==
  ASSUME EditInv, NumberInv, Statement
  PROVE  NumberInv'
BY NumbersOfMoves, NumbersOfPlace, NumbersOfTracks, NumbersOfRenumber, NumbersOfPair DEF Statement

----------------------------------------------------------------------------
(* The numbers, verb by verb.                                              *)

LEMMA AllNumbered ==
  ASSUME NumberInv, todo = <<>>
  PROVE  \A s \in Sides \ unsettled : Numbered(boundaries, tracks, s)
<1>1. 1 .. Len(todo) = {}
  BY EmptySeq
<1> QED
  BY <1>1 DEF NumberInv

LEMMA NothingCaught ==
  ASSUME NEW ts
  PROVE  Caught(ts, <<>>) /\ Spaced(<<>>)
<1>1. 1 .. Len(<<>>) = {}
  BY EmptySeq
<1> QED
  BY <1>1 DEF Caught, Spaced

LEMMA NumbersOfBegin ==
  ASSUME NumberInv, todo = <<>>, NEW name, NEW list, Begin(name, list),
         Caught(tracks, list), Spaced(list)
  PROVE  NumberInv'
BY AllNumbered DEF Begin, NumberInv

LEMMA NothingUpset ==
  ASSUME NEW list, NEW ts,
         \A i \in 1 .. Len(list) : list[i].do \notin {"insert", "delete", "adoptTrack"}
  PROVE  Caught(ts, list) /\ Spaced(list)
BY DEF Caught, Spaced, Upsets

(***************************************************************************)
(* The last statement renumbers the side of the one that upsets it.        *)
(***************************************************************************)
\* The statements change the order of one side and end by renumbering it.
ForOneSide(ts, list, s) ==
  /\ Len(list) \in Nat /\ Renumbers(list[Len(list)], s)
  /\ \A i \in 1 .. Len(list) :
        /\ list[i].do # "adoptTrack"
        /\ list[i].do = "delete" => i = 1
        /\ list[i].do = "insert" => list[i].side = s
        /\ list[i].do = "delete" /\ list[i].track \in DOMAIN ts => ts[list[i].track].side = s

LEMMA CaughtLast ==
  ASSUME NEW list, NEW ts, NEW s, ForOneSide(ts, list, s)
  PROVE  Caught(ts, list) /\ Spaced(list)
<1>1. ASSUME NEW i \in 1 .. Len(list), NEW u, Upsets(ts, list[i], u)
      PROVE  \E j \in i + 1 .. Len(list) : Renumbers(list[j], u)
  <2>1. u = s /\ list[i].do \in {"insert", "delete"}
    BY <1>1 DEF Upsets, ForOneSide
  <2>2. i # Len(list)
    BY <2>1 DEF Renumbers, ForOneSide
  <2>3. Len(list) \in i + 1 .. Len(list)
    BY <2>2 DEF ForOneSide
  <2> QED
    BY <2>1, <2>3 DEF ForOneSide
<1>2. Caught(ts, list)
  BY <1>1 DEF Caught
<1>3. Spaced(list)
  BY DEF Spaced, ForOneSide
<1> QED
  BY <1>2, <1>3

LEMMA NumbersOfAdd ==
  ASSUME EditInv, NumberInv, NEW s \in Sides, NEW start \in Frames, NEW end \in Frames,
         AddTrack(s, start, end)
  PROVE  NumberInv'
<1> DEFINE a == Put(ByUser(s, start, "start"), 1)
           b == Put(ByUser(s, end, "end"), 2)
           c == Insert(s, a.id, b.id)
           d == Renumber(s)
           list == <<a, b, c, d>>
<1>1. todo = <<>> /\ Begin("add", list)
  BY DEF AddTrack, Idle
<1>2. a.do = "put" /\ b.do = "put"
  BY DEF Put
<1> HIDE DEF a, b
<1>3. c.do = "insert" /\ c.side = s /\ d.do = "renumber" /\ Renumbers(d, s)
  BY DEF Insert, Renumber, Renumbers
<1> HIDE DEF c, d
<1>4. Len(list) = 4 /\ list[1] = a /\ list[2] = b /\ list[3] = c /\ list[4] = d
  OBVIOUS
<1> HIDE DEF list
<1>5. \A i \in 1 .. Len(list) : i = 1 \/ i = 2 \/ i = 3 \/ i = 4
  BY <1>4
<1>6. Caught(tracks, list) /\ Spaced(list)
  <2>1. /\ \A i \in 1 .. Len(list) : /\ list[i].do \notin {"adoptTrack", "delete"}
                                     /\ list[i].do = "insert" => list[i].side = s
    BY <1>2, <1>3, <1>4, <1>5
  <2>2. Len(list) \in Nat /\ Renumbers(list[Len(list)], s)
    BY <1>3, <1>4
  <2>3. ForOneSide(tracks, list, s)
    BY <2>1, <2>2 DEF ForOneSide
  <2> QED
    BY <2>3, CaughtLast
<1> QED
  BY <1>1, <1>6, NumbersOfBegin

LEMMA NumbersOfSplit ==
  ASSUME EditInv, NumberInv, NEW t \in DOMAIN tracks, NEW at \in Frames, Split(t, at)
  PROVE  NumberInv'
<1> DEFINE s == tracks[t].side
           a == Put(ByUser(s, at, "end"), 1)
           b == Put(ByUser(s, at, "start"), 2)
           c == SetEnd(t, a.id)
           d == Insert(s, b.id, tracks[t].end)
           e == Renumber(s)
           list == <<a, b, c, d, e>>
<1>1. todo = <<>> /\ Begin("split", list)
  BY DEF Split, Idle
<1> HIDE DEF s
<1>2. a.do = "put" /\ b.do = "put"
  BY DEF Put
<1> HIDE DEF a, b
<1>3. /\ c.do = "setEnd" /\ d.do = "insert" /\ d.side = s
      /\ e.do = "renumber" /\ Renumbers(e, s)
  BY DEF SetEnd, Insert, Renumber, Renumbers
<1> HIDE DEF c, d, e
<1>4. Len(list) = 5 /\ list[1] = a /\ list[2] = b /\ list[3] = c /\ list[4] = d /\ list[5] = e
  OBVIOUS
<1> HIDE DEF list
<1>5. \A i \in 1 .. Len(list) : i = 1 \/ i = 2 \/ i = 3 \/ i = 4 \/ i = 5
  BY <1>4
<1>6. Caught(tracks, list) /\ Spaced(list)
  <2>1. /\ \A i \in 1 .. Len(list) : /\ list[i].do \notin {"adoptTrack", "delete"}
                                     /\ list[i].do = "insert" => list[i].side = s
    BY <1>2, <1>3, <1>4, <1>5
  <2>2. Len(list) \in Nat /\ Renumbers(list[Len(list)], s)
    BY <1>3, <1>4
  <2>3. ForOneSide(tracks, list, s)
    BY <2>1, <2>2 DEF ForOneSide
  <2> QED
    BY <2>3, CaughtLast
<1> QED
  BY <1>1, <1>6, NumbersOfBegin

LEMMA NumbersOfMerge ==
  ASSUME EditInv, NumberInv, NEW left \in DOMAIN tracks, NEW right \in DOMAIN tracks,
         Merge(left, right)
  PROVE  NumberInv'
<1> DEFINE a == Delete(right)
           b == SetEnd(left, tracks[right].end)
           c == DropIfFree(tracks[left].end)
           d == DropIfFree(tracks[right].start)
           e == Renumber(tracks[left].side)
           list == <<a, b, c, d, e>>
<1>1. todo = <<>> /\ Begin("merge", list) /\ tracks[left].side = tracks[right].side
  BY DEF Merge, Idle, Adjacent
<1>2. /\ a.do = "delete" /\ a.track = right /\ b.do = "setEnd"
      /\ c.do = "drop" /\ d.do = "drop"
      /\ e.do = "renumber" /\ Renumbers(e, tracks[right].side)
  BY <1>1 DEF Delete, SetEnd, DropIfFree, Renumber, Renumbers
<1> HIDE DEF a, b, c, d, e
<1>3. Len(list) = 5 /\ list[1] = a /\ list[2] = b /\ list[3] = c /\ list[4] = d /\ list[5] = e
  OBVIOUS
<1> HIDE DEF list
<1>4. \A i \in 1 .. Len(list) : i = 1 \/ i = 2 \/ i = 3 \/ i = 4 \/ i = 5
  BY <1>3
<1>5. Caught(tracks, list) /\ Spaced(list)
  <2>1. \A i \in 1 .. Len(list) : /\ list[i].do \notin {"adoptTrack", "insert"}
                                  /\ list[i].do = "delete" => i = 1 /\ list[i].track = right
    BY <1>2, <1>3, <1>4
  <2>2. Len(list) \in Nat /\ Renumbers(list[Len(list)], tracks[right].side)
    BY <1>2, <1>3
  <2>3. ForOneSide(tracks, list, tracks[right].side)
    BY <2>1, <2>2 DEF ForOneSide
  <2> QED
    BY <2>3, CaughtLast
<1> QED
  BY <1>1, <1>5, NumbersOfBegin

LEMMA NumbersOfRemove ==
  ASSUME EditInv, NumberInv, NEW t \in DOMAIN tracks, RemoveTrack(t)
  PROVE  NumberInv'
<1> DEFINE a == Delete(t)
           b == DropIfFree(tracks[t].start)
           c == DropIfFree(tracks[t].end)
           d == Renumber(tracks[t].side)
           list == <<a, b, c, d>>
<1>1. todo = <<>> /\ Begin("remove", list)
  BY DEF RemoveTrack, Idle
<1>2. /\ a.do = "delete" /\ a.track = t /\ b.do = "drop" /\ c.do = "drop"
      /\ d.do = "renumber" /\ Renumbers(d, tracks[t].side)
  BY DEF Delete, DropIfFree, Renumber, Renumbers
<1> HIDE DEF a, b, c, d
<1>3. Len(list) = 4 /\ list[1] = a /\ list[2] = b /\ list[3] = c /\ list[4] = d
  OBVIOUS
<1> HIDE DEF list
<1>4. \A i \in 1 .. Len(list) : i = 1 \/ i = 2 \/ i = 3 \/ i = 4
  BY <1>3
<1>5. Caught(tracks, list) /\ Spaced(list)
  <2>1. \A i \in 1 .. Len(list) : /\ list[i].do \notin {"adoptTrack", "insert"}
                                  /\ list[i].do = "delete" => i = 1 /\ list[i].track = t
    BY <1>2, <1>3, <1>4
  <2>2. Len(list) \in Nat /\ Renumbers(list[Len(list)], tracks[t].side)
    BY <1>2, <1>3
  <2>3. ForOneSide(tracks, list, tracks[t].side)
    BY <2>1, <2>2 DEF ForOneSide
  <2> QED
    BY <2>3, CaughtLast
<1> QED
  BY <1>1, <1>5, NumbersOfBegin

LEMMA NumbersOfReassign ==
  ASSUME EditInv, NumberInv, NEW t \in DOMAIN tracks, NEW to \in Sides, MoveToSide(t, to)
  PROVE  NumberInv'
<1> DEFINE from == tracks[t].side
           a == [do |-> "rehome", ids |-> {tracks[t].start, tracks[t].end}, side |-> to]
           b == [do |-> "adoptTrack", track |-> t, side |-> to]
           c == Renumber(from)
           d == Renumber(to)
           list == <<a, b, c, d>>
<1>1. todo = <<>> /\ Begin("reassign", list)
  BY DEF MoveToSide, Idle
<1>2. /\ a.do = "rehome" /\ b.do = "adoptTrack" /\ b.track = t /\ b.side = to
      /\ c.do = "renumber" /\ Renumbers(c, from) /\ d.do = "renumber" /\ Renumbers(d, to)
  BY DEF Renumber, Renumbers
<1> HIDE DEF a, b, c, d
<1>3. Len(list) = 4 /\ list[1] = a /\ list[2] = b /\ list[3] = c /\ list[4] = d
  OBVIOUS
<1> HIDE DEF list
<1>4. \A i \in 1 .. Len(list) : i = 1 \/ i = 2 \/ i = 3 \/ i = 4
  BY <1>3
<1>5. ASSUME NEW i \in 1 .. Len(list), NEW s \in Sides, Upsets(tracks, list[i], s)
      PROVE  \E j \in i + 1 .. Len(list) : Renumbers(list[j], s)
  <2>1. i = 2 /\ s \in {from, to}
    BY <1>2, <1>3, <1>4, <1>5 DEF Upsets
  <2>2. 3 \in i + 1 .. Len(list) /\ 4 \in i + 1 .. Len(list)
    BY <1>3, <2>1
  <2> QED
    BY <1>2, <1>3, <2>1, <2>2
<1>6. Caught(tracks, list)
  BY <1>5 DEF Caught
<1>7. Spaced(list)
  BY <1>2, <1>3, <1>4 DEF Spaced
<1> QED
  BY <1>1, <1>6, <1>7, NumbersOfBegin

LEMMA NumbersOfForce ==
  ASSUME EditInv, NumberInv, NEW b \in DOMAIN boundaries, NEW to \in Frames, MoveForced(b, to)
  PROVE  NumberInv'
<1> DEFINE a == [do |-> "place", id |-> b, at |-> to]
           c == [do |-> "claim", id |-> b]
           list == <<a, c>>
<1>1. todo = <<>> /\ Begin("force", list)
  BY DEF MoveForced, Idle
<1>2. \A i \in 1 .. Len(list) : list[i].do \in {"place", "claim"}
  OBVIOUS
<1> HIDE DEF list
<1>3. Caught(tracks, list) /\ Spaced(list)
  BY <1>2, NothingUpset
<1> QED
  BY <1>1, <1>3, NumbersOfBegin

LEMMA NumbersOfAdopt ==
  ASSUME EditInv, NumberInv, NEW s \in Sides, NEW pass \in Passes, NEW d \in Detectors,
         Adopt(s, pass, d)
  PROVE  NumberInv'
<1>1. \A i \in 1 .. Len(todo') : todo'[i].do \in {"put", "pair"}
  BY AdoptBegins
<1>2. todo = <<>> /\ Begin("adopt", todo')
  BY DEF Adopt, Idle, Begin
<1>3. Caught(tracks, todo') /\ Spaced(todo')
  BY <1>1, NothingUpset
<1> QED
  BY <1>2, <1>3, NumbersOfBegin

(***************************************************************************)
(* The verbs of one statement, and one cut short.                          *)
(***************************************************************************)
LEMMA NumbersAtOnce ==
  ASSUME NumberInv, todo' = <<>>,
         \A s \in Sides \ unsettled' :
            \/ Numbered(boundaries', tracks', s)
            \/ /\ s \notin unsettled
               /\ Numbered(boundaries, tracks, s) => Numbered(boundaries', tracks', s)
               /\ todo # <<>> => \A i \in 1 .. Len(todo) : ~ Renumbers(todo[i], s)
  PROVE  NumberInv'
<1>1. \A s \in Sides \ unsettled' : Numbered(boundaries', tracks', s)
  <2>1. \A s \in Sides \ unsettled :
           todo = <<>> => Numbered(boundaries, tracks, s)
    BY AllNumbered
  <2> QED
    BY <2>1 DEF NumberInv
<1> QED
  BY <1>1, NothingCaught DEF NumberInv

LEMMA NumbersOfOnes ==
  ASSUME EditInv, NumberInv,
         \/ \E b \in DOMAIN boundaries : \/ \E to \in Frames : MoveBoundary(b, to)
                                         \/ \E l \in BOOLEAN : SetLock(b, l)
                                         \/ DeleteBoundary(b)
         \/ \E s \in Sides : RenumberSide(s) \/ \E c \in Captures \cup {NoCapture} : Attach(s, c)
  PROVE  NumberInv'
<1>1. RowsOK(boundaries, tracks)
  BY DEF EditInv, TypeOK
<1>2. \A t \in DOMAIN tracks : tracks[t].start \in DOMAIN boundaries
  BY <1>1, RowsTyped
<1>3. CASE \E b \in DOMAIN boundaries : \E to \in Frames : MoveBoundary(b, to)
  <2>1. PICK b \in DOMAIN boundaries, to \in Frames : MoveBoundary(b, to)
    BY <1>3
  <2>2. /\ todo = <<>> /\ todo' = <<>> /\ tracks' = tracks
        /\ boundaries' = Moved(b, to) /\ unsettled' = unsettled \cup Bounded(b)
    BY <2>1 DEF MoveBoundary, Idle, AtOnce
  <2>3. ASSUME NEW s \in Sides \ unsettled', Numbered(boundaries, tracks, s)
        PROVE  Numbered(boundaries', tracks', s)
    BY <1>1, <2>2, <2>3, MovedStarts
  <2> QED
    BY <2>2, <2>3, NumbersAtOnce
<1>4. ASSUME todo = <<>>, todo' = <<>>, tracks' = tracks, unsettled' = unsettled,
             \A t \in DOMAIN tracks : boundaries'[tracks[t].start].at = boundaries[tracks[t].start].at
      PROVE  NumberInv'
  <2>1. \A t \in DOMAIN tracks : StartOf(boundaries', tracks', t) = StartOf(boundaries, tracks, t)
    BY <1>4 DEF StartOf
  <2>2. ASSUME NEW s \in Sides, Numbered(boundaries, tracks, s)
        PROVE  Numbered(boundaries', tracks', s)
    <3>1. \A t \in TracksOn(tracks, s) : t \in DOMAIN tracks
      BY DEF TracksOn
    <3> QED
      BY <1>4, <2>1, <2>2, <3>1, StartsKeepNumbers
  <2> QED
    BY <1>4, <2>2, NumbersAtOnce
<1>5. CASE \E b \in DOMAIN boundaries : \E l \in BOOLEAN : SetLock(b, l)
  <2>1. PICK b \in DOMAIN boundaries, l \in BOOLEAN : SetLock(b, l)
    BY <1>5
  <2> DEFINE row == [boundaries[b] EXCEPT !.locked = l]
  <2>2. /\ todo = <<>> /\ todo' = <<>> /\ tracks' = tracks /\ unsettled' = unsettled
        /\ boundaries' = [boundaries EXCEPT ![b] = row]
    BY <2>1 DEF SetLock, Idle, AtOnce
  <2>3. row.at = boundaries[b].at
    BY <1>1, RowsTyped, BoundaryFields
  <2> HIDE DEF row
  <2>4. \A c \in DOMAIN boundaries : boundaries'[c].at = boundaries[c].at
    BY <2>2, <2>3
  <2> QED
    BY <1>2, <1>4, <2>2, <2>4
<1>6. CASE \E b \in DOMAIN boundaries : DeleteBoundary(b)
  <2>1. PICK b \in DOMAIN boundaries : DeleteBoundary(b)
    BY <1>6
  <2>2. /\ todo = <<>> /\ todo' = <<>> /\ tracks' = tracks /\ unsettled' = unsettled
        /\ boundaries' = Without(boundaries, b) /\ Bounding(tracks, b) = {}
    BY <2>1 DEF DeleteBoundary, Idle, AtOnce
  <2>3. \A t \in DOMAIN tracks : tracks[t].start # b
    BY <2>2 DEF Bounding
  <2>4. \A t \in DOMAIN tracks : boundaries'[tracks[t].start] = boundaries[tracks[t].start]
    BY <1>2, <2>2, <2>3 DEF Without, Restrict
  <2> QED
    BY <1>4, <2>2, <2>4
<1>7. CASE \E s \in Sides : RenumberSide(s)
  <2>1. PICK s \in Sides : RenumberSide(s)
    BY <1>7
  <2>2. /\ todo = <<>> /\ todo' = <<>> /\ boundaries' = boundaries /\ unsettled' = unsettled \ {s}
        /\ tracks' = Renumbered(boundaries, tracks, s)
    BY <2>1 DEF RenumberSide, Idle, AtOnce
  <2>3. Numbered(boundaries', tracks', s)
    BY <1>1, <2>2, RenumberedIs
  <2>4. \A u : u # s /\ Numbered(boundaries, tracks, u) => Numbered(boundaries', tracks', u)
    BY <1>1, <2>2, RenumberedIs
  <2> QED
    BY <2>2, <2>3, <2>4, NumbersAtOnce
<1>8. CASE \E s \in Sides : \E c \in Captures \cup {NoCapture} : Attach(s, c)
  <2>1. /\ todo = <<>> /\ todo' = <<>> /\ tracks' = tracks /\ unsettled' = unsettled
        /\ boundaries' = boundaries
    BY <1>8 DEF Attach, Idle, AtOnce
  <2> QED
    BY <1>4, <2>1
<1> QED
  BY <1>3, <1>5, <1>6, <1>7, <1>8

LEMMA NumbersOfCut ==
  ASSUME EditInv, NumberInv, CutShort
  PROVE  NumberInv'
<1>1. /\ todo # <<>> /\ todo' = <<>> /\ tracks' = tracks /\ boundaries' = boundaries
      /\ unsettled \subseteq unsettled'
      /\ \A i \in DOMAIN todo : todo[i].do = "renumber" => todo[i].side \in unsettled'
  BY DEF CutShort
<1>2. DOMAIN todo = 1 .. Len(todo)
  BY LenProperties DEF EditInv
<1>3. \A s \in Sides \ unsettled' : \A i \in 1 .. Len(todo) : ~ Renumbers(todo[i], s)
  BY <1>1, <1>2 DEF Renumbers
<1> QED
  BY <1>1, <1>3, NumbersAtOnce

LEMMA NumbersNext ==
  ASSUME EditInv, NumberInv, [Next]_vars
  PROVE  NumberInv'
<1>1. CASE Statement
  BY <1>1, NumbersOfStatement
<1>2. CASE CutShort
  BY <1>2, NumbersOfCut
<1>3. CASE Over \/ UNCHANGED vars
  BY <1>3 DEF Over, vars, NumberInv, Numbered, Caught, Spaced
<1>4. CASE Verb
  <2>1. CASE \E s \in Sides, a, z \in Frames : AddTrack(s, a, z)
    BY <2>1, NumbersOfAdd
  <2>2. CASE \E t \in DOMAIN tracks : \E at \in Frames : Split(t, at)
    BY <2>2, NumbersOfSplit
  <2>3. CASE \E t \in DOMAIN tracks : \E u \in DOMAIN tracks : Merge(t, u)
    BY <2>3, NumbersOfMerge
  <2>4. CASE \E t \in DOMAIN tracks : RemoveTrack(t)
    BY <2>4, NumbersOfRemove
  <2>5. CASE \E t \in DOMAIN tracks : \E s \in Sides : MoveToSide(t, s)
    BY <2>5, NumbersOfReassign
  <2>6. CASE \E b \in DOMAIN boundaries : \E to \in Frames : MoveForced(b, to)
    BY <2>6, NumbersOfForce
  <2>7. CASE \E s \in Sides : \E pass \in Passes, d \in Detectors : Adopt(s, pass, d)
    BY <2>7, NumbersOfAdopt
  <2>8. CASE \/ \E b \in DOMAIN boundaries : \/ \E to \in Frames : MoveBoundary(b, to)
                                             \/ \E l \in BOOLEAN : SetLock(b, l)
                                             \/ DeleteBoundary(b)
             \/ \E s \in Sides : RenumberSide(s) \/ \E c \in Captures \cup {NoCapture} : Attach(s, c)
    BY <2>8, NumbersOfOnes
  <2> QED
    BY <1>4, <2>1, <2>2, <2>3, <2>4, <2>5, <2>6, <2>7, <2>8 DEF Verb
<1> QED
  BY <1>1, <1>2, <1>3, <1>4 DEF Next

LEMMA NumbersInit ==
  ASSUME Init
  PROVE  NumberInv
<1>1. todo = <<>> /\ RowsOK(boundaries, tracks)
  BY StartsAssumption DEF Init
<1>2. \A s \in Sides \ unsettled : Renumbered(boundaries, tracks, s) = tracks
  BY DEF Init
<1>3. \A s \in Sides \ unsettled : Numbered(boundaries, tracks, s)
  BY <1>1, <1>2, RenumberedIs
<1> QED
  BY <1>1, <1>3, NothingCaught DEF NumberInv

LEMMA NumbersHold == Spec => [](EditInv /\ NumberInv)
<1>1. Init => NumberInv
  BY NumbersInit
<1>2. EditInv /\ NumberInv /\ [Next]_vars => NumberInv'
  BY NumbersNext
<1> QED
  BY <1>1, <1>2, EditsHold, PTL DEF Spec

LEMMA RestNumbered ==
  ASSUME EditInv, NumberInv
  PROVE  RestIsNumbered
<1>1. RowsOK(boundaries, tracks)
  BY DEF EditInv, TypeOK
<1> QED
  BY <1>1, AllNumbered, RenumberedIs DEF RestIsNumbered

LEMMA OverlapFound ==
  ASSUME EditInv
  PROVE  OverlapIsFound
BY NeighboursSuffice DEF OverlapIsFound, Forward, EditInv, TypeOK

----------------------------------------------------------------------------
(* What the tracks cover, and how they lie, statement by statement.        *)

(***************************************************************************)
(* The frames from x to z of a capture.                                    *)
(***************************************************************************)
Stretch(c, x, z) == {<<c, f>> : f \in {g \in Frames : x <= g /\ g < z}}

TrackHeard(cap, bs, ts, t) == Stretch(cap[ts[t].side], StartOf(bs, ts, t), EndOf(bs, ts, t))

HeardOf(cap, bs, ts) == UNION {TrackHeard(cap, bs, ts, t) : t \in DOMAIN ts}

ShapelyOf(bs, ts) == ~ EmptyTrack(bs, ts) /\ \A s \in Sides : Disjoint(bs, ts, s)

LEMMA HeardIs ==
  /\ Heard = HeardOf(capture, boundaries, tracks)
  /\ Heard' = HeardOf(capture', boundaries', tracks')
BY DEF Heard, HeardOf, TrackHeard, Stretch, Inside

LEMMA ShapelyIs ==
  /\ Forward <=> ~ EmptyTrack(boundaries, tracks)
  /\ Forward' <=> ~ EmptyTrack(boundaries', tracks')
  /\ Shapely <=> ShapelyOf(boundaries, tracks)
  /\ Shapely' <=> ShapelyOf(boundaries', tracks')
BY DEF Forward, Shapely, ShapelyOf

LEMMA SpansSay ==
  ASSUME NEW cap, NEW bs, NEW ts, NEW bs2, NEW ts2, SameSpans(bs, ts, bs2, ts2)
  PROVE  /\ HeardOf(cap, bs2, ts2) = HeardOf(cap, bs, ts)
         /\ EmptyTrack(bs2, ts2) <=> EmptyTrack(bs, ts)
         /\ ShapelyOf(bs2, ts2) <=> ShapelyOf(bs, ts)
<1>1. /\ DOMAIN ts2 = DOMAIN ts
      /\ \A t \in DOMAIN ts : /\ ts2[t].side = ts[t].side
                              /\ StartOf(bs2, ts2, t) = StartOf(bs, ts, t)
                              /\ EndOf(bs2, ts2, t) = EndOf(bs, ts, t)
  BY DEF SameSpans
<1>2. HeardOf(cap, bs2, ts2) = HeardOf(cap, bs, ts)
  <2>1. \A t \in DOMAIN ts : TrackHeard(cap, bs2, ts2, t) = TrackHeard(cap, bs, ts, t)
    BY <1>1 DEF TrackHeard
  <2> QED
    BY <1>1, <2>1 DEF HeardOf
<1>3. EmptyTrack(bs2, ts2) <=> EmptyTrack(bs, ts)
  BY <1>1 DEF EmptyTrack
<1>4. \A s : Disjoint(bs2, ts2, s) <=> Disjoint(bs, ts, s)
  <2>1. \A s : TracksOn(ts2, s) = TracksOn(ts, s) /\ TracksOn(ts, s) \subseteq DOMAIN ts
    BY <1>1 DEF TracksOn
  <2> QED
    BY <1>1, <2>1 DEF Disjoint
<1> QED
  BY <1>2, <1>3, <1>4 DEF ShapelyOf

(***************************************************************************)
(* A track more: its frames are heard with the others, and the tracks lie  *)
(* as well as they did if it runs forward and meets none.                  *)
(***************************************************************************)
LEMMA InsertSays ==
  ASSUME EditInv, InsertTrack,
         NEW s, s = Next1.side, NEW x, x = boundaries[Next1.start].at,
         NEW z, z = boundaries[Next1.end].at
  PROVE  /\ Heard' = Heard \cup Stretch(capture[s], x, z)
         /\ Forward /\ x < z => Forward'
         /\ (/\ Shapely /\ x < z
             /\ \A u \in TracksOn(tracks, s) : \/ EndOf(boundaries, tracks, u) <= x
                                               \/ z <= StartOf(boundaries, tracks, u)) => Shapely'
<1>1. /\ boundaries' = boundaries /\ capture' = capture /\ RowsOK(boundaries, tracks)
      /\ RowsOK(boundaries, tracks')
      /\ Next1.start \in DOMAIN boundaries /\ Next1.end \in DOMAIN boundaries
  BY InsertDoes, InsertKeeps DEF InsertTrack, Proceed, EditInv, TypeOK
<1>2. PICK new : /\ new \notin DOMAIN tracks
                 /\ DOMAIN tracks' = DOMAIN tracks \cup {new}
                 /\ tracks'[new].side = s
                 /\ tracks'[new].start = Next1.start /\ tracks'[new].end = Next1.end
                 /\ \A t \in DOMAIN tracks : tracks'[t] = tracks[t]
  BY InsertDoes
<1>3. StartOf(boundaries, tracks', new) = x /\ EndOf(boundaries, tracks', new) = z
  BY <1>2 DEF StartOf, EndOf
<1>4. \A t \in DOMAIN tracks : /\ StartOf(boundaries, tracks', t) = StartOf(boundaries, tracks, t)
                               /\ EndOf(boundaries, tracks', t) = EndOf(boundaries, tracks, t)
                               /\ TrackHeard(capture, boundaries, tracks', t)
                                    = TrackHeard(capture, boundaries, tracks, t)
  BY <1>2 DEF StartOf, EndOf, TrackHeard
<1>5. TrackHeard(capture, boundaries, tracks', new) = Stretch(capture[s], x, z)
  BY <1>2, <1>3 DEF TrackHeard
<1>6. Heard' = Heard \cup Stretch(capture[s], x, z)
  <2>1. HeardOf(capture, boundaries, tracks')
          = HeardOf(capture, boundaries, tracks) \cup Stretch(capture[s], x, z)
    BY <1>2, <1>4, <1>5 DEF HeardOf
  <2> QED
    BY <1>1, <2>1, HeardIs
<1>7. x \in Nat /\ z \in Nat
  BY <1>1, RowsTyped
<1>8. ASSUME Forward, x < z
      PROVE  ~ EmptyTrack(boundaries, tracks')
  <2>1. \A t \in DOMAIN tracks : ~ (EndOf(boundaries, tracks, t) <= StartOf(boundaries, tracks, t))
    BY <1>8 DEF Forward, EmptyTrack
  <2> QED
    BY <1>2, <1>3, <1>4, <1>7, <1>8, <2>1 DEF EmptyTrack
<1>9. ASSUME Shapely, x < z,
             \A u \in TracksOn(tracks, s) : \/ EndOf(boundaries, tracks, u) <= x
                                            \/ z <= StartOf(boundaries, tracks, u)
      PROVE  ShapelyOf(boundaries, tracks')
  <2>1. Forward /\ \A r \in Sides : Disjoint(boundaries, tracks, r)
    BY <1>9 DEF Shapely
  <2>2. ASSUME NEW r \in Sides, NEW t \in TracksOn(tracks', r), NEW u \in TracksOn(tracks', r),
               t # u
        PROVE  \/ EndOf(boundaries, tracks', t) <= StartOf(boundaries, tracks', u)
               \/ EndOf(boundaries, tracks', u) <= StartOf(boundaries, tracks', t)
    <3>1. \A v \in TracksOn(tracks', r) : (v = new /\ r = s) \/ v \in TracksOn(tracks, r)
      BY <1>2 DEF TracksOn
    <3>2. \A v \in TracksOn(tracks, r) : v \in DOMAIN tracks
      BY DEF TracksOn
    <3>3. CASE t = new
      <4>1. r = s /\ u \in TracksOn(tracks, s)
        BY <1>2, <2>2, <3>1, <3>2, <3>3
      <4> QED
        BY <1>3, <1>4, <1>9, <3>2, <3>3, <4>1
    <3>4. CASE u = new
      <4>1. r = s /\ t \in TracksOn(tracks, s)
        BY <1>2, <2>2, <3>1, <3>2, <3>4
      <4> QED
        BY <1>3, <1>4, <1>9, <3>2, <3>4, <4>1
    <3>5. CASE t # new /\ u # new
      <4>1. t \in TracksOn(tracks, r) /\ u \in TracksOn(tracks, r)
        BY <3>1, <3>5
      <4>2. \/ EndOf(boundaries, tracks, t) <= StartOf(boundaries, tracks, u)
            \/ EndOf(boundaries, tracks, u) <= StartOf(boundaries, tracks, t)
        BY <2>1, <2>2, <4>1 DEF Disjoint
      <4> QED
        BY <1>4, <3>2, <4>1, <4>2
    <3> QED
      BY <3>3, <3>4, <3>5
  <2>3. \A r \in Sides : Disjoint(boundaries, tracks', r)
    BY <2>2 DEF Disjoint
  <2> QED
    BY <1>8, <1>9, <2>1, <2>3 DEF ShapelyOf
<1> QED
  BY <1>1, <1>6, <1>8, <1>9, ShapelyIs

(***************************************************************************)
(* A track less.                                                           *)
(***************************************************************************)
LEMMA DeleteSays ==
  ASSUME EditInv, DeleteTrack
  PROVE  /\ Heard' \subseteq Heard
         /\ Heard \subseteq Heard' \cup TrackHeard(capture, boundaries, tracks, Next1.track)
         /\ Forward => Forward'
         /\ Shapely => Shapely'
<1>1. boundaries' = boundaries /\ capture' = capture
  BY DEF DeleteTrack, Proceed
<1>2. /\ DOMAIN tracks' = DOMAIN tracks \ {Next1.track}
      /\ \A t \in DOMAIN tracks' : tracks'[t] = tracks[t]
  BY DeleteDoes
<1>3. \A t \in DOMAIN tracks' : /\ StartOf(boundaries, tracks', t) = StartOf(boundaries, tracks, t)
                                /\ EndOf(boundaries, tracks', t) = EndOf(boundaries, tracks, t)
                                /\ TrackHeard(capture, boundaries, tracks', t)
                                     = TrackHeard(capture, boundaries, tracks, t)
  BY <1>2 DEF StartOf, EndOf, TrackHeard
<1>4. /\ HeardOf(capture, boundaries, tracks') \subseteq HeardOf(capture, boundaries, tracks)
      /\ HeardOf(capture, boundaries, tracks) \subseteq
           HeardOf(capture, boundaries, tracks')
             \cup TrackHeard(capture, boundaries, tracks, Next1.track)
  BY <1>2, <1>3 DEF HeardOf
<1>5. ~ EmptyTrack(boundaries, tracks) => ~ EmptyTrack(boundaries, tracks')
  BY <1>2, <1>3 DEF EmptyTrack
<1>6. \A s : TracksOn(tracks', s) \subseteq TracksOn(tracks, s) /\ TracksOn(tracks', s) \subseteq DOMAIN tracks'
  BY <1>2 DEF TracksOn
<1>7. \A s : Disjoint(boundaries, tracks, s) => Disjoint(boundaries, tracks', s)
  BY <1>3, <1>6 DEF Disjoint
<1>8. ShapelyOf(boundaries, tracks) => ShapelyOf(boundaries, tracks')
  BY <1>5, <1>7 DEF ShapelyOf
<1> QED
  BY <1>1, <1>4, <1>5, <1>8, HeardIs, ShapelyIs

(***************************************************************************)
(* A track with another end: it is heard up to there, the others as they   *)
(* were, and the tracks lie as well as they did if it still runs forward   *)
(* and meets none.                                                         *)
(***************************************************************************)
LEMMA SetEndSays ==
  ASSUME EditInv, SetEndBoundary, NEW t, t = Next1.track, t \in DOMAIN tracks,
         NEW s, s = tracks[t].side, NEW x, x = StartOf(boundaries, tracks, t),
         NEW z, z = boundaries[Next1.end].at
  PROVE  /\ \E others : /\ Heard = others \cup TrackHeard(capture, boundaries, tracks, t)
                        /\ Heard' = others \cup Stretch(capture[s], x, z)
         /\ Forward /\ x < z => Forward'
         /\ (/\ Shapely /\ x < z
             /\ \A u \in TracksOn(tracks, s) \ {t} : \/ EndOf(boundaries, tracks, u) <= x
                                                     \/ z <= StartOf(boundaries, tracks, u)) => Shapely'
<1>1. /\ boundaries' = boundaries /\ capture' = capture /\ RowsOK(boundaries, tracks)
      /\ DOMAIN tracks' = DOMAIN tracks /\ Next1.end \in DOMAIN boundaries
      /\ \A u \in DOMAIN tracks : /\ tracks'[u].side = tracks[u].side
                                  /\ tracks'[u].start = tracks[u].start
                                  /\ tracks'[u].end = IF u = t THEN Next1.end ELSE tracks[u].end
  BY SetEndDoes DEF SetEndBoundary, Proceed, EditInv, TypeOK
<1>2. \A u \in DOMAIN tracks : StartOf(boundaries, tracks', u) = StartOf(boundaries, tracks, u)
  BY <1>1 DEF StartOf
<1>3. \A u \in DOMAIN tracks \ {t} : EndOf(boundaries, tracks', u) = EndOf(boundaries, tracks, u)
  BY <1>1 DEF EndOf
<1>4. EndOf(boundaries, tracks', t) = z
  BY <1>1 DEF EndOf
<1>5. x \in Nat /\ z \in Nat
  BY <1>1, RowsTyped
<1>6. \E others : /\ Heard = others \cup TrackHeard(capture, boundaries, tracks, t)
                  /\ Heard' = others \cup Stretch(capture[s], x, z)
  <2> DEFINE others == UNION {TrackHeard(capture, boundaries, tracks, u) : u \in DOMAIN tracks \ {t}}
  <2>1. \A u \in DOMAIN tracks \ {t} : TrackHeard(capture, boundaries, tracks', u)
                                         = TrackHeard(capture, boundaries, tracks, u)
    BY <1>1, <1>2, <1>3 DEF TrackHeard
  <2>2. TrackHeard(capture, boundaries, tracks', t) = Stretch(capture[s], x, z)
    BY <1>1, <1>2, <1>4 DEF TrackHeard
  <2>3. Heard = others \cup TrackHeard(capture, boundaries, tracks, t)
    BY HeardIs DEF HeardOf
  <2>4. HeardOf(capture, boundaries, tracks') = others \cup Stretch(capture[s], x, z)
    BY <1>1, <2>1, <2>2 DEF HeardOf
  <2>5. Heard' = others \cup Stretch(capture[s], x, z)
    BY <1>1, <2>4, HeardIs
  <2> QED
    BY <2>3, <2>5
<1>7. ASSUME Forward, x < z
      PROVE  ~ EmptyTrack(boundaries, tracks')
  <2>1. \A u \in DOMAIN tracks : ~ (EndOf(boundaries, tracks, u) <= StartOf(boundaries, tracks, u))
    BY <1>7 DEF Forward, EmptyTrack
  <2> QED
    BY <1>1, <1>2, <1>3, <1>4, <1>5, <1>7, <2>1 DEF EmptyTrack
<1>8. ASSUME Shapely, x < z,
             \A u \in TracksOn(tracks, s) \ {t} : \/ EndOf(boundaries, tracks, u) <= x
                                                  \/ z <= StartOf(boundaries, tracks, u)
      PROVE  ShapelyOf(boundaries, tracks')
  <2>1. Forward /\ \A r \in Sides : Disjoint(boundaries, tracks, r)
    BY <1>8 DEF Shapely
  <2>2. ASSUME NEW r \in Sides, NEW v \in TracksOn(tracks', r), NEW u \in TracksOn(tracks', r),
               v # u
        PROVE  \/ EndOf(boundaries, tracks', v) <= StartOf(boundaries, tracks', u)
               \/ EndOf(boundaries, tracks', u) <= StartOf(boundaries, tracks', v)
    <3>1. TracksOn(tracks', r) = TracksOn(tracks, r) /\ TracksOn(tracks, r) \subseteq DOMAIN tracks
      BY <1>1 DEF TracksOn
    <3>2. \/ EndOf(boundaries, tracks, v) <= StartOf(boundaries, tracks, u)
          \/ EndOf(boundaries, tracks, u) <= StartOf(boundaries, tracks, v)
      BY <2>1, <2>2, <3>1 DEF Disjoint
    <3>3. v = t \/ u = t => r = s
      BY <3>1 DEF TracksOn
    <3>4. CASE v = t
      BY <1>2, <1>3, <1>4, <1>8, <2>2, <3>1, <3>3, <3>4
    <3>5. CASE u = t
      BY <1>2, <1>3, <1>4, <1>8, <2>2, <3>1, <3>3, <3>5
    <3>6. CASE v # t /\ u # t
      BY <1>2, <1>3, <3>1, <3>2, <3>6
    <3> QED
      BY <3>4, <3>5, <3>6
  <2>3. \A r \in Sides : Disjoint(boundaries, tracks', r)
    BY <2>2 DEF Disjoint
  <2> QED
    BY <1>7, <1>8, <2>1, <2>3 DEF ShapelyOf
<1> QED
  BY <1>1, <1>6, <1>7, <1>8, ShapelyIs

(***************************************************************************)
(* A track taken to a side of the same capture is heard as it was.         *)
(***************************************************************************)
LEMMA RehomeTrackSays ==
  ASSUME EditInv, RehomeTrack
  PROVE  /\ Forward => Forward'
         /\ (Next1.track \in DOMAIN tracks =>
               capture[tracks[Next1.track].side] = capture[Next1.side]) => Heard' = Heard
<1>1. boundaries' = boundaries /\ capture' = capture
  BY DEF RehomeTrack, Proceed
<1>2. /\ DOMAIN tracks' = DOMAIN tracks
      /\ \A t \in DOMAIN tracks : /\ t # Next1.track => tracks'[t] = tracks[t]
                                  /\ tracks'[t].start = tracks[t].start
                                  /\ tracks'[t].end = tracks[t].end
                                  /\ t = Next1.track => tracks'[t].side = Next1.side
  BY RehomeTrackDoes
<1>3. \A t \in DOMAIN tracks : /\ StartOf(boundaries, tracks', t) = StartOf(boundaries, tracks, t)
                               /\ EndOf(boundaries, tracks', t) = EndOf(boundaries, tracks, t)
  BY <1>2 DEF StartOf, EndOf
<1>4. ~ EmptyTrack(boundaries, tracks) => ~ EmptyTrack(boundaries, tracks')
  BY <1>2, <1>3 DEF EmptyTrack
<1>5. ASSUME Next1.track \in DOMAIN tracks => capture[tracks[Next1.track].side] = capture[Next1.side]
      PROVE  HeardOf(capture, boundaries, tracks') = HeardOf(capture, boundaries, tracks)
  <2>1. \A t \in DOMAIN tracks : capture[tracks'[t].side] = capture[tracks[t].side]
    BY <1>2, <1>5
  <2>2. \A t \in DOMAIN tracks : TrackHeard(capture, boundaries, tracks', t)
                                   = TrackHeard(capture, boundaries, tracks, t)
    BY <1>3, <2>1 DEF TrackHeard
  <2> QED
    BY <1>2, <2>2 DEF HeardOf
<1> QED
  BY <1>1, <1>4, <1>5, HeardIs, ShapelyIs

(***************************************************************************)
(* A statement that leaves the tracks where they are.                      *)
(***************************************************************************)
LEMMA StandingSays ==
  ASSUME EditInv, PutBoundary \/ DropBoundary \/ RenumberTracks \/ ClaimBoundary \/ RehomeBoundaries
  PROVE  /\ Heard' = Heard
         /\ Forward' <=> Forward
         /\ Shapely' <=> Shapely
<1>1. SameSpans(boundaries, tracks, boundaries', tracks')
  <2>1. CASE PutBoundary
    BY <2>1, PutDoes DEF PutBoundary
  <2>2. CASE DropBoundary
    BY <2>2, DropDoes
  <2>3. CASE RenumberTracks
    BY <2>3, RenumberDoes
  <2>4. CASE ClaimBoundary
    BY <2>4, ClaimDoes
  <2>5. CASE RehomeBoundaries
    BY <2>5, RehomeDoes
  <2> QED
    BY <2>1, <2>2, <2>3, <2>4, <2>5
<1>2. capture' = capture
  BY DEF PutBoundary, DropBoundary, RenumberTracks, ClaimBoundary, RehomeBoundaries, Proceed
<1>3. HeardOf(capture', boundaries', tracks') = HeardOf(capture, boundaries, tracks)
  BY <1>1, <1>2, SpansSay
<1>4. /\ EmptyTrack(boundaries', tracks') <=> EmptyTrack(boundaries, tracks)
      /\ ShapelyOf(boundaries', tracks') <=> ShapelyOf(boundaries, tracks)
  BY <1>1, SpansSay
<1> QED
  BY <1>3, <1>4, HeardIs, ShapelyIs

----------------------------------------------------------------------------
(* What is known half way through a verb.                                  *)

(***************************************************************************)
(* A boundary is there, or a statement to come puts it there.              *)
(***************************************************************************)
Lies(bs, list, b, s, x) ==
  \/ b \in DOMAIN bs /\ bs[b].side = s /\ bs[b].at = x
  \/ \E j \in 1 .. Len(list) : /\ list[j].do = "put" /\ list[j].id = b
                               /\ list[j].row.side = s /\ list[j].row.at = x

LEMMA LiesThere ==
  ASSUME EditInv, NEW b, NEW s, NEW x, Lies(boundaries, todo, b, s, x),
         b \in DOMAIN boundaries
  PROVE  boundaries[b].side = s /\ boundaries[b].at = x
<1>1. \A j \in 1 .. Len(todo) : todo[j].do = "put" => PutReady(boundaries, todo[j])
  BY DEF EditInv, Ready, PutsReady
<1> QED
  BY <1>1 DEF Lies, PutReady, SamePlace

LEMMA LiesRest ==
  ASSUME EditInv, PutBoundary, NEW b, NEW s, NEW x, Lies(boundaries, todo, b, s, x)
  PROVE  Lies(boundaries', Tail(todo), b, s, x)
<1>1. /\ todo \in Seq(Statements) /\ todo # <<>> /\ Next1 = todo[1]
  BY UnderWay DEF PutBoundary
<1>2. /\ todo[1].id \in DOMAIN boundaries' /\ SamePlace(boundaries'[todo[1].id], todo[1].row)
      /\ \A c \in DOMAIN boundaries :
            c \in DOMAIN boundaries' /\ SamePlace(boundaries'[c], boundaries[c])
  BY <1>1, PutDoes
<1>3. /\ Len(todo) \in Nat /\ Len(Tail(todo)) = Len(todo) - 1
      /\ \A i \in 1 .. Len(Tail(todo)) : Tail(todo)[i] = todo[i + 1]
  BY <1>1, TailOf
<1>4. CASE b \in DOMAIN boundaries /\ boundaries[b].side = s /\ boundaries[b].at = x
  BY <1>2, <1>4 DEF Lies, SamePlace
<1>5. CASE \E j \in 1 .. Len(todo) : /\ todo[j].do = "put" /\ todo[j].id = b
                                     /\ todo[j].row.side = s /\ todo[j].row.at = x
  <2>1. PICK j \in 1 .. Len(todo) : /\ todo[j].do = "put" /\ todo[j].id = b
                                    /\ todo[j].row.side = s /\ todo[j].row.at = x
    BY <1>5
  <2>2. CASE j = 1
    BY <1>2, <2>1, <2>2 DEF Lies, SamePlace
  <2>3. CASE j # 1
    <3>1. j - 1 \in 1 .. Len(Tail(todo)) /\ (j - 1) + 1 = j
      BY <1>3, <2>3
    <3>2. Tail(todo)[j - 1] = todo[j]
      BY <1>3, <3>1
    <3> QED
      BY <2>1, <3>1, <3>2 DEF Lies
  <2> QED
    BY <2>2, <2>3
<1> QED
  BY <1>4, <1>5 DEF Lies

LEMMA StatementIs ==
  ASSUME EditInv, Statement
  PROVE  /\ todo \in Seq(Statements) /\ todo # <<>> /\ Next1 = todo[1]
         /\ Len(todo) \in Nat /\ Len(todo) > 0 /\ 1 \in 1 .. Len(todo)
         /\ todo[1].do = "put" => PutBoundary
         /\ todo[1].do = "insert" => InsertTrack
         /\ todo[1].do = "setEnd" => SetEndBoundary
         /\ todo[1].do = "delete" => DeleteTrack
         /\ todo[1].do = "drop" => DropBoundary
         /\ todo[1].do = "renumber" => RenumberTracks
         /\ todo[1].do = "rehome" => RehomeBoundaries
         /\ todo[1].do = "adoptTrack" => RehomeTrack
         /\ todo[1].do = "pair" => PairFree
<1>1. PICK do : Is(do)
  BY DEF Statement, PutBoundary, InsertTrack, SetEndBoundary, DeleteTrack, DropBoundary,
         RenumberTracks, PlaceBoundary, ClaimBoundary, RehomeBoundaries, RehomeTrack, PairFree
<1>2. /\ todo \in Seq(Statements) /\ todo # <<>> /\ Next1 = todo[1]
      /\ Len(todo) \in Nat /\ Len(todo) > 0
  BY <1>1, UnderWay
<1>3. 1 \in 1 .. Len(todo)
  BY <1>2
<1> QED
  BY <1>2, <1>3
     DEF Statement, PutBoundary, InsertTrack, SetEndBoundary, DeleteTrack, DropBoundary,
         RenumberTracks, PlaceBoundary, ClaimBoundary, RehomeBoundaries, RehomeTrack, PairFree, Is

(***************************************************************************)
(* A verb goes on to the statement behind.                                 *)
(***************************************************************************)
LEMMA GoesOn ==
  ASSUME EditInv, Statement, todo' # <<>>
  PROVE  /\ verb' = verb /\ before' = before /\ capture' = capture
         /\ todo[1].do # "pair" =>
               /\ todo' = Tail(todo) /\ Len(todo') = Len(todo) - 1
               /\ \A i \in 1 .. Len(todo') :
                     todo'[i] = todo[i + 1] /\ i + 1 \in 1 .. Len(todo)
<1>1. \/ Proceed(Tail(todo))
      \/ Proceed(PairStatements(Next1.side)) /\ Is("pair")
  BY DEF Statement, PutBoundary, InsertTrack, SetEndBoundary, DeleteTrack, DropBoundary,
         RenumberTracks, PlaceBoundary, ClaimBoundary, RehomeBoundaries, RehomeTrack, PairFree
<1>2. \A rest : Proceed(rest) => todo' = rest /\ capture' = capture
                                 /\ (rest # <<>> => verb' = verb /\ before' = before)
  BY DEF Proceed
<1>3. Is("pair") => todo[1].do = "pair"
  BY UnderWay
<1>4. /\ Len(Tail(todo)) = Len(todo) - 1
      /\ \A i \in 1 .. Len(Tail(todo)) : Tail(todo)[i] = todo[i + 1] /\ i + 1 \in 1 .. Len(todo)
  BY StatementIs, TailOf
<1> QED
  BY <1>1, <1>2, <1>3, <1>4

(***************************************************************************)
(* The verb has kept the shape there was.                                  *)
(***************************************************************************)
KeptForward == before.forward => Forward
KeptShape   == KeptForward /\ (before.shapely => Shapely)

(***************************************************************************)
(* An addition: the track to be inserted runs forward.                     *)
(***************************************************************************)
AddInv ==
  /\ \A i \in 1 .. Len(todo) : todo[i].do \in {"put", "insert", "renumber"}
  /\ KeptForward
  /\ \A i \in 1 .. Len(todo) : todo[i].do = "insert" =>
        \E s \in Sides, x, z \in Frames : /\ x < z
                                          /\ Lies(boundaries, todo, todo[i].start, s, x)
                                          /\ Lies(boundaries, todo, todo[i].end, s, z)

LEMMA AddGoesOn ==
  ASSUME EditInv, Statement, todo' # <<>>, AddInv
  PROVE  AddInv'
<1>1. /\ 1 \in 1 .. Len(todo) /\ Len(todo) \in Nat /\ todo \in Seq(Statements) /\ todo # <<>>
      /\ Next1 = todo[1]
      /\ todo[1].do = "put" => PutBoundary
      /\ todo[1].do = "insert" => InsertTrack
      /\ todo[1].do = "renumber" => RenumberTracks
  BY StatementIs
<1>2. todo[1].do \in {"put", "insert", "renumber"}
  BY <1>1 DEF AddInv
<1>3. /\ before' = before /\ todo' = Tail(todo)
      /\ \A i \in 1 .. Len(todo') : todo'[i] = todo[i + 1] /\ i + 1 \in 1 .. Len(todo)
  BY <1>2, GoesOn
<1>4. \A i \in 1 .. Len(todo') : todo'[i].do \in {"put", "insert", "renumber"}
  BY <1>3 DEF AddInv
<1>5. KeptForward'
  <2>1. CASE InsertTrack
    <3>1. todo[1].do = "insert"
      BY <2>1, UnderWay DEF InsertTrack
    <3>2. PICK s \in Sides, x \in Frames, z \in Frames :
             /\ x < z
             /\ Lies(boundaries, todo, todo[1].start, s, x)
             /\ Lies(boundaries, todo, todo[1].end, s, z)
      BY <1>1, <3>1 DEF AddInv
    <3>3. todo[1].start \in DOMAIN boundaries /\ todo[1].end \in DOMAIN boundaries
      BY <1>1, <2>1, InsertDoes
    <3>4. boundaries[todo[1].start].at = x /\ boundaries[todo[1].end].at = z
      BY <3>2, <3>3, LiesThere
    <3>5. Forward => Forward'
      BY <1>1, <2>1, <3>2, <3>4, InsertSays
    <3> QED
      BY <1>3, <3>5 DEF AddInv, KeptForward
  <2>2. CASE PutBoundary \/ RenumberTracks
    <3>1. Forward' <=> Forward
      BY <2>2, StandingSays
    <3> QED
      BY <1>3, <3>1 DEF AddInv, KeptForward
  <2> QED
    BY <1>1, <1>2, <2>1, <2>2
<1>6. ASSUME NEW b, NEW s, NEW x, Lies(boundaries, todo, b, s, x)
      PROVE  Lies(boundaries', todo', b, s, x)
  <2>1. CASE todo[1].do = "put"
    BY <1>1, <1>3, <1>6, <2>1, LiesRest
  <2>2. CASE todo[1].do # "put"
    <3>1. boundaries' = boundaries
      BY <1>1, <1>2, <2>2 DEF InsertTrack, RenumberTracks
    <3>2. CASE b \in DOMAIN boundaries /\ boundaries[b].side = s /\ boundaries[b].at = x
      BY <3>1, <3>2 DEF Lies
    <3>3. CASE \E j \in 1 .. Len(todo) : /\ todo[j].do = "put" /\ todo[j].id = b
                                         /\ todo[j].row.side = s /\ todo[j].row.at = x
      <4>1. PICK j \in 1 .. Len(todo) : /\ todo[j].do = "put" /\ todo[j].id = b
                                        /\ todo[j].row.side = s /\ todo[j].row.at = x
        BY <3>3
      <4>2. Len(todo') = Len(todo) - 1
        BY <1>1, <1>3, TailOf
      <4>3. j - 1 \in 1 .. Len(todo') /\ (j - 1) + 1 = j
        BY <1>1, <2>2, <4>1, <4>2
      <4>4. todo'[j - 1] = todo[j]
        BY <1>3, <4>3
      <4> QED
        BY <4>1, <4>3, <4>4 DEF Lies
    <3> QED
      BY <1>6, <3>2, <3>3 DEF Lies
  <2> QED
    BY <2>1, <2>2
<1>7. ASSUME NEW i \in 1 .. Len(todo'), todo'[i].do = "insert"
      PROVE  \E s \in Sides, x, z \in Frames : /\ x < z
                                               /\ Lies(boundaries', todo', todo'[i].start, s, x)
                                               /\ Lies(boundaries', todo', todo'[i].end, s, z)
  <2>1. todo'[i] = todo[i + 1] /\ i + 1 \in 1 .. Len(todo)
    BY <1>3
  <2>2. PICK s \in Sides, x \in Frames, z \in Frames :
           /\ x < z
           /\ Lies(boundaries, todo, todo[i + 1].start, s, x)
           /\ Lies(boundaries, todo, todo[i + 1].end, s, z)
    BY <1>7, <2>1 DEF AddInv
  <2>3. /\ Lies(boundaries', todo', todo[i + 1].start, s, x)
        /\ Lies(boundaries', todo', todo[i + 1].end, s, z)
    BY <1>6, <2>2
  <2> QED
    BY <2>1, <2>2, <2>3
<1> QED
  BY <1>4, <1>5, <1>7 DEF AddInv

(***************************************************************************)
(* A split: before the track is cut, after it is and before the second     *)
(* half is there, and after that.                                          *)
(***************************************************************************)
Uncut ==
  LET n == Len(todo)
      t == todo[n - 2].track
      s == todo[n - 1].side
  IN  /\ n >= 3 /\ \A i \in 1 .. n - 3 : todo[i].do = "put"
      /\ todo[n - 2].do = "setEnd" /\ todo[n - 1].do = "insert" /\ todo[n].do = "renumber"
      /\ before.heard = Heard /\ KeptShape
      /\ t \in DOMAIN tracks /\ tracks[t].side = s /\ tracks[t].end = todo[n - 1].end
      /\ \E at \in Frames :
            /\ StartOf(boundaries, tracks, t) < at /\ at < EndOf(boundaries, tracks, t)
            /\ Lies(boundaries, todo, todo[n - 2].end, s, at)
            /\ Lies(boundaries, todo, todo[n - 1].start, s, at)

Halved ==
  LET s == todo[1].side
      x == boundaries[todo[1].start].at
      z == boundaries[todo[1].end].at
  IN  /\ Len(todo) = 2 /\ todo[1].do = "insert" /\ todo[2].do = "renumber"
      /\ boundaries[todo[1].start].side = s /\ x < z
      /\ before.heard = Heard \cup Stretch(capture[s], x, z) /\ KeptShape
      /\ before.shapely => \A u \in TracksOn(tracks, s) : \/ EndOf(boundaries, tracks, u) <= x
                                                          \/ z <= StartOf(boundaries, tracks, u)
      /\ \A u \in DOMAIN tracks : tracks[u].end # todo[1].end

AsItWas ==
  /\ \A i \in 1 .. Len(todo) : todo[i].do = "renumber"
  /\ before.heard = Heard /\ KeptShape

SplitInv == Uncut \/ Halved \/ AsItWas

LEMMA StillUncut ==
  ASSUME EditInv, Statement, todo' # <<>>, Uncut, Len(todo) # 3
  PROVE  Uncut'
<1> DEFINE n == Len(todo)
           t == todo[n - 2].track
           s == todo[n - 1].side
<1>1. /\ 1 \in 1 .. n /\ n \in Nat /\ Next1 = todo[1]
      /\ todo[1].do = "put" => PutBoundary
  BY StatementIs
<1>2. /\ n >= 3 /\ \A i \in 1 .. n - 3 : todo[i].do = "put"
      /\ todo[n - 2].do = "setEnd" /\ todo[n - 1].do = "insert" /\ todo[n].do = "renumber"
      /\ before.heard = Heard /\ KeptShape
      /\ t \in DOMAIN tracks /\ tracks[t].side = s /\ tracks[t].end = todo[n - 1].end
  BY DEF Uncut
<1>3. PICK at \in Frames :
         /\ StartOf(boundaries, tracks, t) < at /\ at < EndOf(boundaries, tracks, t)
         /\ Lies(boundaries, todo, todo[n - 2].end, s, at)
         /\ Lies(boundaries, todo, todo[n - 1].start, s, at)
  BY DEF Uncut
<1>4. 1 \in 1 .. n - 3 /\ todo[1].do = "put"
  <2>1. n # 3
    OBVIOUS
  <2> HIDE DEF n, t, s
  <2>2. 1 \in 1 .. n - 3
    BY <1>1, <1>2, <2>1
  <2> QED
    BY <1>2, <2>2
<1>5. PutBoundary /\ tracks' = tracks
  BY <1>1, <1>4 DEF PutBoundary
<1>6. /\ before' = before /\ todo' = Tail(todo) /\ Len(todo') = n - 1
      /\ \A i \in 1 .. Len(todo') : todo'[i] = todo[i + 1] /\ i + 1 \in 1 .. n
  BY <1>4, GoesOn
<1>7. SameSpans(boundaries, tracks, boundaries', tracks)
  BY <1>5, PutDoes
<1>8. /\ StartOf(boundaries', tracks', t) = StartOf(boundaries, tracks, t)
      /\ EndOf(boundaries', tracks', t) = EndOf(boundaries, tracks, t)
  BY <1>2, <1>5, <1>7 DEF SameSpans
<1>9. /\ Lies(boundaries', todo', todo[n - 2].end, s, at)
      /\ Lies(boundaries', todo', todo[n - 1].start, s, at)
  BY <1>3, <1>5, <1>6, LiesRest
<1>10. Heard' = Heard /\ (KeptShape => KeptShape')
  BY <1>5, <1>6, StandingSays DEF KeptShape, KeptForward
<1> DEFINE m == Len(todo')
<1>11. m >= 3 /\ todo'[m - 2] = todo[n - 2] /\ todo'[m - 1] = todo[n - 1] /\ todo'[m] = todo[n]
  <2>1. m = n - 1 /\ m >= 3 /\ m \in Nat
    BY <1>1, <1>2, <1>4, <1>6
  <2>2. /\ m - 2 \in 1 .. m /\ m - 1 \in 1 .. m /\ m \in 1 .. m
        /\ (m - 2) + 1 = n - 2 /\ (m - 1) + 1 = n - 1 /\ m + 1 = n
    BY <1>1, <2>1
  <2> HIDE DEF m, n
  <2> QED
    BY <1>6, <2>1, <2>2 DEF m
<1>12. \A i \in 1 .. m - 3 : todo'[i].do = "put"
  <2>1. \A i \in 1 .. m - 3 : i \in 1 .. m /\ i + 1 \in 1 .. n - 3
    BY <1>1, <1>6
  <2> QED
    BY <1>2, <1>6, <2>1
<1> HIDE DEF n, m
<1>13. /\ todo'[m - 2].do = "setEnd" /\ todo'[m - 1].do = "insert" /\ todo'[m].do = "renumber"
       /\ before'.heard = Heard' /\ KeptShape'
  BY <1>2, <1>6, <1>10, <1>11
<1>14. /\ t \in DOMAIN tracks' /\ tracks'[t].side = s /\ tracks'[t].end = todo[n - 1].end
       /\ StartOf(boundaries', tracks', t) < at /\ at < EndOf(boundaries', tracks', t)
  BY <1>2, <1>3, <1>5, <1>8
<1> QED
  BY <1>3, <1>9, <1>11, <1>12, <1>13, <1>14 DEF Uncut, m

LEMMA CutInTwo ==
  ASSUME EditInv, Statement, todo' # <<>>, Uncut, Len(todo) = 3
  PROVE  Halved'
<1> DEFINE t == todo[1].track
           s == todo[2].side
           c == todo[1].end
           d == todo[2].start
           e == todo[2].end
           x == StartOf(boundaries, tracks, t)
           z == EndOf(boundaries, tracks, t)
<1>1. /\ Next1 = todo[1]
      /\ todo[1].do = "setEnd" => SetEndBoundary
      /\ RowsOK(boundaries, tracks)
  BY StatementIs DEF EditInv, TypeOK
<1>2. /\ todo[1].do = "setEnd" /\ todo[2].do = "insert" /\ todo[3].do = "renumber"
      /\ before.heard = Heard /\ KeptShape
      /\ t \in DOMAIN tracks /\ tracks[t].side = s /\ tracks[t].end = e
      /\ \E at \in Frames : /\ x < at /\ at < z
                            /\ Lies(boundaries, todo, c, s, at) /\ Lies(boundaries, todo, d, s, at)
  BY DEF Uncut
<1>3. PICK at \in Frames : /\ x < at /\ at < z
                           /\ Lies(boundaries, todo, c, s, at) /\ Lies(boundaries, todo, d, s, at)
  BY <1>2
<1>4. Next1 = todo[1] /\ SetEndBoundary
  BY <1>1, <1>2, StatementIs
<1>5. /\ before' = before /\ capture' = capture /\ Len(todo') = 2
      /\ todo'[1] = todo[2] /\ todo'[2] = todo[3]
  <2>1. /\ Len(todo') = 3 - 1
        /\ \A i \in 1 .. Len(todo') : todo'[i] = todo[i + 1]
    BY <1>2, GoesOn
  <2>2. 1 \in 1 .. Len(todo') /\ 2 \in 1 .. Len(todo')
    BY <2>1
  <2> QED
    BY <1>2, <2>1, <2>2, GoesOn
<1>6. /\ boundaries' = boundaries /\ DOMAIN tracks' = DOMAIN tracks
      /\ c \in DOMAIN boundaries
      /\ \A u \in DOMAIN tracks : /\ tracks'[u].side = tracks[u].side
                                  /\ tracks'[u].start = tracks[u].start
                                  /\ tracks'[u].end = IF u = t THEN c ELSE tracks[u].end
  BY <1>4, SetEndDoes
<1>7. boundaries[c].at = at
  BY <1>3, <1>6, LiesThere
<1>8. d \in DOMAIN boundaries /\ boundaries[d].side = s /\ boundaries[d].at = at
  <2>1. ~ (\E j \in 1 .. Len(todo) : todo[j].do = "put")
    <3>1. \A j \in 1 .. Len(todo) : j = 1 \/ j = 2 \/ j = 3
      OBVIOUS
    <3> QED
      BY <1>2, <3>1
  <2> QED
    BY <1>3, <2>1 DEF Lies
<1>9. boundaries[e].at = z /\ e \in DOMAIN boundaries /\ x \in Nat /\ z \in Nat /\ at \in Nat
  BY <1>1, <1>2, <1>3, RowsTyped, TrackAssumption DEF EndOf, Frames
<1> HIDE DEF x, z, s, c, d, e, t
<1>10. before'.heard = Heard' \cup Stretch(capture[s], at, z)
  <2>1. PICK others : /\ Heard = others \cup TrackHeard(capture, boundaries, tracks, t)
                      /\ Heard' = others \cup Stretch(capture[s], x, at)
    BY <1>2, <1>4, <1>7, SetEndSays DEF s, c, t, x
  <2>2. TrackHeard(capture, boundaries, tracks, t) = Stretch(capture[s], x, z)
    BY <1>2 DEF TrackHeard, x, z
  <2>3. Stretch(capture[s], x, z) = Stretch(capture[s], x, at) \cup Stretch(capture[s], at, z)
    <3>1. \A g \in Frames : x <= g /\ g < z <=> (x <= g /\ g < at) \/ (at <= g /\ g < z)
      BY <1>3, <1>9 DEF Frames
    <3> QED
      BY <3>1 DEF Stretch
  <2> QED
    BY <1>2, <1>5, <2>1, <2>2, <2>3
<1>11. ASSUME before.shapely
       PROVE  \A u \in TracksOn(tracks, s) \ {t} : \/ EndOf(boundaries, tracks, u) <= x
                                                   \/ z <= StartOf(boundaries, tracks, u)
  <2>1. Shapely /\ s \in Sides
    BY <1>1, <1>2, <1>11, RowsTyped DEF KeptShape
  <2>2. t \in TracksOn(tracks, s)
    BY <1>2 DEF TracksOn
  <2> QED
    BY <2>1, <2>2 DEF Shapely, Disjoint, x, z
<1>12. KeptShape'
  <2>1. Forward => Forward'
    BY <1>2, <1>3, <1>4, <1>7, SetEndSays DEF s, c, t, x
  <2>2. before.shapely => Shapely'
    <3>1. ASSUME before.shapely
          PROVE  /\ Shapely
                 /\ \A u \in TracksOn(tracks, s) \ {t} : \/ EndOf(boundaries, tracks, u) <= x
                                                         \/ at <= StartOf(boundaries, tracks, u)
      <4>1. \A u \in TracksOn(tracks, s) : StartOf(boundaries, tracks, u) \in Nat
        BY <1>1, RowsTyped DEF TracksOn
      <4> QED
        BY <1>2, <1>3, <1>9, <1>11, <3>1, <4>1 DEF KeptShape
    <3> QED
      BY <1>2, <1>3, <1>4, <1>7, <3>1, SetEndSays DEF s, c, t, x
  <2> QED
    BY <1>2, <1>5, <2>1, <2>2 DEF KeptShape, KeptForward
<1>13. ASSUME before.shapely, NEW u \in TracksOn(tracks', s)
       PROVE  EndOf(boundaries', tracks', u) <= at \/ z <= StartOf(boundaries', tracks', u)
  <2>1. u \in DOMAIN tracks /\ u \in TracksOn(tracks, s)
    BY <1>6, <1>13 DEF TracksOn
  <2>2. CASE u = t
    <3>1. EndOf(boundaries', tracks', u) = at
      BY <1>6, <1>7, <2>1, <2>2 DEF EndOf
    <3> QED
      BY <1>9, <3>1
  <2>3. CASE u # t
    <3>1. /\ StartOf(boundaries', tracks', u) = StartOf(boundaries, tracks, u)
          /\ EndOf(boundaries', tracks', u) = EndOf(boundaries, tracks, u)
      BY <1>6, <2>1, <2>3 DEF StartOf, EndOf
    <3>2. EndOf(boundaries, tracks, u) \in Nat
      BY <1>1, <2>1, RowsTyped
    <3> QED
      BY <1>3, <1>9, <1>11, <1>13, <2>1, <2>3, <3>1, <3>2
  <2> QED
    BY <2>2, <2>3
<1>14. \A u \in DOMAIN tracks' : tracks'[u].end # e
  <2>1. c # e
    BY <1>3, <1>7, <1>9
  <2>2. \A u \in DOMAIN tracks \ {t} : tracks[u].end # e
    BY <1>1, <1>2 DEF RowsOK
  <2> QED
    BY <1>6, <2>1, <2>2
<1>15. /\ todo'[1].side = s /\ todo'[1].start = d /\ todo'[1].end = e
       /\ boundaries'[d].at = at /\ boundaries'[e].at = z /\ boundaries'[d].side = s
  BY <1>5, <1>6, <1>8, <1>9 DEF s, d, e
<1>16. Len(todo') = 2 /\ todo'[1].do = "insert" /\ todo'[2].do = "renumber"
  BY <1>2, <1>5
<1>17. before'.shapely => \A u \in TracksOn(tracks', s) :
                            EndOf(boundaries', tracks', u) <= at \/ z <= StartOf(boundaries', tracks', u)
  BY <1>5, <1>13
<1> HIDE <1>1, <1>2, <1>6, <1>13
<1> QED
  BY <1>3, <1>5, <1>10, <1>12, <1>14, <1>15, <1>16, <1>17 DEF Halved

LEMMA SplitGoesOn ==
  ASSUME EditInv, Statement, todo' # <<>>, SplitInv
  PROVE  SplitInv'
<1>1. /\ 1 \in 1 .. Len(todo) /\ Len(todo) \in Nat /\ Next1 = todo[1]
      /\ todo[1].do = "insert" => InsertTrack
      /\ todo[1].do = "renumber" => RenumberTracks
  BY StatementIs
<1>2. CASE Uncut
  BY <1>2, StillUncut, CutInTwo DEF SplitInv
<1>3. CASE Halved
  <2> DEFINE s == todo[1].side
             x == boundaries[todo[1].start].at
             z == boundaries[todo[1].end].at
  <2>1. /\ Len(todo) = 2 /\ todo[1].do = "insert" /\ todo[2].do = "renumber" /\ x < z
        /\ before.heard = Heard \cup Stretch(capture[s], x, z) /\ KeptShape
        /\ before.shapely => \A u \in TracksOn(tracks, s) : \/ EndOf(boundaries, tracks, u) <= x
                                                            \/ z <= StartOf(boundaries, tracks, u)
    BY <1>3 DEF Halved
  <2>2. InsertTrack
    BY <1>1, <2>1
  <2>3. /\ before' = before /\ Len(todo') = 2 - 1
        /\ \A i \in 1 .. Len(todo') : todo'[i] = todo[i + 1]
    BY <2>1, GoesOn
  <2>4. /\ Heard' = Heard \cup Stretch(capture[s], x, z)
        /\ Forward /\ x < z => Forward'
        /\ (/\ Shapely /\ x < z
            /\ \A u \in TracksOn(tracks, s) : \/ EndOf(boundaries, tracks, u) <= x
                                              \/ z <= StartOf(boundaries, tracks, u)) => Shapely'
    BY <1>1, <2>2, InsertSays
  <2>5. KeptShape'
    <3> HIDE DEF s, x, z
    <3> QED
      BY <2>1, <2>3, <2>4 DEF KeptShape, KeptForward
  <2>6. \A i \in 1 .. Len(todo') : todo'[i].do = "renumber"
    <3>1. \A i \in 1 .. Len(todo') : i = 1
      BY <2>3
    <3> QED
      BY <2>1, <2>3, <3>1
  <2> QED
    BY <2>1, <2>3, <2>4, <2>5, <2>6 DEF SplitInv, AsItWas
<1>4. CASE AsItWas
  <2>1. todo[1].do = "renumber" /\ RenumberTracks
    BY <1>1, <1>4 DEF AsItWas
  <2>2. /\ before' = before
        /\ \A i \in 1 .. Len(todo') : todo'[i] = todo[i + 1] /\ i + 1 \in 1 .. Len(todo)
    BY <2>1, GoesOn
  <2>3. Heard' = Heard /\ (Forward' <=> Forward) /\ (Shapely' <=> Shapely)
    BY <2>1, StandingSays
  <2>4. \A i \in 1 .. Len(todo') : todo'[i].do = "renumber"
    BY <1>4, <2>2 DEF AsItWas
  <2> QED
    BY <1>4, <2>2, <2>3, <2>4 DEF SplitInv, AsItWas, KeptShape, KeptForward
<1> QED
  BY <1>2, <1>3, <1>4 DEF SplitInv

(***************************************************************************)
(* Neither of the boundaries a split makes bounds a track already: such a  *)
(* track would lie across the one that is split.                           *)
(***************************************************************************)
LEMMA SplitIsWhole ==
  ASSUME EditInv, todo # <<>>, SplitInv, before.shapely, Whole
  PROVE  /\ Is("insert") => Bounding(tracks, Next1.start) \cup Bounding(tracks, Next1.end) = {}
         /\ Is("setEnd") => \A t \in DOMAIN tracks :
                               t # Next1.track => tracks[t].end # Next1.end
<1>1. /\ RowsOK(boundaries, tracks) /\ todo \in Seq(Statements) /\ Next1 = todo[1]
      /\ Len(todo) \in Nat /\ Len(todo) > 0 /\ 1 \in 1 .. Len(todo)
  <2>1. todo \in Seq(Statements) /\ RowsOK(boundaries, tracks)
    BY DEF EditInv, TypeOK
  <2>2. Len(todo) \in Nat /\ Len(todo) > 0 /\ Head(todo) = todo[1]
    BY <2>1, TailOf
  <2> QED
    BY <2>1, <2>2 DEF Next1
<1>2. \A u \in DOMAIN tracks :
         /\ tracks[u].start \in DOMAIN boundaries /\ tracks[u].end \in DOMAIN boundaries
         /\ boundaries[tracks[u].start].edge = "start" /\ boundaries[tracks[u].end].edge = "end"
         /\ boundaries[tracks[u].start].side = tracks[u].side
         /\ boundaries[tracks[u].end].side = tracks[u].side
         /\ StartOf(boundaries, tracks, u) \in Nat /\ EndOf(boundaries, tracks, u) \in Nat
  <2>1. ASSUME NEW u \in DOMAIN tracks
        PROVE  /\ boundaries[tracks[u].start].side = tracks[u].side
               /\ boundaries[tracks[u].end].side = tracks[u].side
    BY DEF Whole
  <2>2. \A u \in DOMAIN tracks : /\ boundaries[tracks[u].start].edge = "start"
                                 /\ boundaries[tracks[u].end].edge = "end"
    BY <1>1 DEF RowsOK
  <2>3. \A u \in DOMAIN tracks :
           /\ tracks[u].start \in DOMAIN boundaries /\ tracks[u].end \in DOMAIN boundaries
           /\ StartOf(boundaries, tracks, u) \in Nat /\ EndOf(boundaries, tracks, u) \in Nat
    BY <1>1, RowsTyped
  <2> QED
    BY <2>1, <2>2, <2>3
<1>3. ASSUME Is("insert")
      PROVE  Bounding(tracks, Next1.start) \cup Bounding(tracks, Next1.end) = {}
  <2> DEFINE s == todo[1].side
             d == todo[1].start
             e == todo[1].end
             x == boundaries[d].at
             z == boundaries[e].at
  <2>1. todo[1].do = "insert"
    BY <1>1, <1>3 DEF Is
  <2>2. Halved
    <3>1. ~ Uncut
      <4>1. ASSUME Uncut
            PROVE  FALSE
        <5>1. /\ Len(todo) >= 3 /\ \A i \in 1 .. Len(todo) - 3 : todo[i].do = "put"
              /\ todo[Len(todo) - 2].do = "setEnd"
          BY <4>1 DEF Uncut
        <5>2. CASE Len(todo) = 3
          BY <2>1, <5>1, <5>2
        <5>3. CASE Len(todo) # 3
          <6>1. 1 \in 1 .. Len(todo) - 3
            <7> DEFINE n == Len(todo)
            <7>1. n \in Nat /\ n >= 3 /\ n # 3
              BY <1>1, <5>1, <5>3
            <7> HIDE DEF n
            <7>2. 1 \in 1 .. n - 3
              BY <7>1
            <7> QED
              BY <7>2 DEF n
          <6> QED
            BY <2>1, <5>1, <6>1
        <5> QED
          BY <5>2, <5>3
      <4> QED
        BY <4>1
    <3>2. ~ AsItWas
      BY <1>1, <2>1 DEF AsItWas
    <3> QED
      BY <3>1, <3>2 DEF SplitInv
  <2>3. /\ boundaries[d].side = s /\ x < z /\ Shapely
        /\ \A u \in TracksOn(tracks, s) : \/ EndOf(boundaries, tracks, u) <= x
                                          \/ z <= StartOf(boundaries, tracks, u)
        /\ \A u \in DOMAIN tracks : tracks[u].end # e
    BY <2>2 DEF Halved, KeptShape
  <2>4. boundaries[d].edge = "start" /\ boundaries[e].edge = "end"
    <3>1. 1 .. 1 - 1 = {}
      OBVIOUS
    <3> QED
      BY <1>1, <2>1, <3>1 DEF EditInv, Ready, EndsAwaited, Awaits, Edged
  <2>5. ASSUME NEW u \in DOMAIN tracks
        PROVE  d \notin {tracks[u].start, tracks[u].end} /\ e \notin {tracks[u].start, tracks[u].end}
    <3>1. d # tracks[u].end /\ e # tracks[u].start
      BY <1>2, <2>4
    <3>2. ASSUME d = tracks[u].start
          PROVE  FALSE
      <4>1. u \in TracksOn(tracks, s) /\ StartOf(boundaries, tracks, u) = x
        BY <1>2, <2>3, <3>2 DEF TracksOn, StartOf
      <4>2. ~ (EndOf(boundaries, tracks, u) <= StartOf(boundaries, tracks, u))
        BY <2>3 DEF Shapely, Forward, EmptyTrack
      <4> HIDE DEF x, z, s, d, e
      <4>3. z <= x
        BY <2>3, <4>1, <4>2
      <4>4. z \in Nat /\ x \in Nat
        <5>1. d \in DOMAIN boundaries /\ e \in DOMAIN boundaries
          <6>1. 1 .. 1 - 1 = {}
            OBVIOUS
          <6> QED
            BY <1>1, <2>1, <6>1 DEF EditInv, Ready, EndsAwaited, Awaits, Edged, d, e
        <5> QED
          BY <1>1, <5>1, RowsTyped DEF x, z
      <4> QED
        BY <2>3, <4>3, <4>4
    <3> QED
      BY <2>3, <3>1, <3>2
  <2> QED
    BY <1>1, <2>5 DEF Bounding
<1>4. ASSUME Is("setEnd"), NEW u \in DOMAIN tracks, u # Next1.track, tracks[u].end = Next1.end
      PROVE  FALSE
  <2> DEFINE t == todo[1].track
             s == todo[2].side
             c == todo[1].end
             x == StartOf(boundaries, tracks, t)
             z == EndOf(boundaries, tracks, t)
  <2>1. todo[1].do = "setEnd"
    BY <1>1, <1>4 DEF Is
  <2>2. Uncut /\ Len(todo) = 3
    <3>1. Uncut
      BY <1>1, <2>1 DEF SplitInv, Halved, AsItWas
    <3>2. ASSUME Len(todo) # 3
          PROVE  FALSE
      <4>1. 1 \in 1 .. Len(todo) - 3 /\ \A i \in 1 .. Len(todo) - 3 : todo[i].do = "put"
        <5> DEFINE n == Len(todo)
        <5>1. n \in Nat /\ n >= 3 /\ n # 3 /\ \A i \in 1 .. n - 3 : todo[i].do = "put"
          BY <1>1, <3>1, <3>2 DEF Uncut
        <5> HIDE DEF n
        <5>2. 1 \in 1 .. n - 3
          BY <5>1
        <5> QED
          BY <5>1, <5>2 DEF n
      <4> QED
        BY <2>1, <4>1
    <3> QED
      BY <3>1, <3>2
  <2>3. t \in DOMAIN tracks /\ tracks[t].side = s /\ Shapely
    BY <2>2 DEF Uncut, KeptShape
  <2>4. PICK at \in Frames : x < at /\ at < z /\ Lies(boundaries, todo, c, s, at)
    BY <2>2 DEF Uncut
  <2>5. c \in DOMAIN boundaries
    BY <1>1, <1>2, <1>4
  <2>6. boundaries[c].side = s /\ boundaries[c].at = at
    BY <2>4, <2>5, LiesThere
  <2>7. /\ u \in TracksOn(tracks, s) /\ t \in TracksOn(tracks, s) /\ u # t
        /\ EndOf(boundaries, tracks, u) = at
    BY <1>1, <1>2, <1>4, <2>3, <2>6 DEF TracksOn, EndOf
  <2>8. ~ (EndOf(boundaries, tracks, u) <= StartOf(boundaries, tracks, u))
    BY <2>3 DEF Shapely, Forward, EmptyTrack
  <2>9. EndOf(boundaries, tracks, u) <= x \/ z <= StartOf(boundaries, tracks, u)
    <3>1. s \in Sides
      BY <1>1, <2>3, RowsTyped
    <3> QED
      BY <2>3, <2>7, <3>1 DEF Shapely, Disjoint
  <2>10. x \in Nat /\ z \in Nat /\ at \in Nat /\ StartOf(boundaries, tracks, u) \in Nat
    BY <1>2, <1>4, <2>3, <2>4, TrackAssumption DEF Frames
  <2> HIDE DEF x, z, s, c, t
  <2> QED
    BY <2>4, <2>7, <2>8, <2>9, <2>10
<1> QED
  BY <1>3, <1>4

(***************************************************************************)
(* A merge: before the right track is deleted, after it is and before the  *)
(* left one reaches to its end, and after that.                            *)
(***************************************************************************)
Cleaning == {"drop", "renumber"}

ToDelete ==
  LET right == todo[1].track
      left  == todo[2].track
  IN  /\ Len(todo) >= 2 /\ todo[1].do = "delete" /\ todo[2].do = "setEnd"
      /\ \A i \in 3 .. Len(todo) : todo[i].do \in Cleaning
      /\ before.heard = Heard /\ KeptShape
      /\ left \in DOMAIN tracks /\ right \in DOMAIN tracks
      /\ tracks[right].end = todo[2].end /\ Adjacent(left, right)

ToExtend ==
  LET left == todo[1].track
      s    == tracks[left].side
      x    == StartOf(boundaries, tracks, left)
      z    == boundaries[todo[1].end].at
  IN  /\ todo[1].do = "setEnd" /\ \A i \in 2 .. Len(todo) : todo[i].do \in Cleaning
      /\ KeptShape
      /\ before.forward => /\ left \in DOMAIN tracks
                           /\ x < z /\ EndOf(boundaries, tracks, left) <= z
                           /\ before.heard \subseteq Heard \cup Stretch(capture[s], x, z)
      /\ before.shapely => \A u \in TracksOn(tracks, s) \ {left} :
                              \/ EndOf(boundaries, tracks, u) <= x
                              \/ z <= StartOf(boundaries, tracks, u)
      /\ \A u \in DOMAIN tracks : tracks[u].end # todo[1].end

Joined ==
  /\ \A i \in 1 .. Len(todo) : todo[i].do \in Cleaning
  /\ KeptShape
  /\ before.forward => before.heard \subseteq Heard

MergeInv == ToDelete \/ ToExtend \/ Joined

LEMMA RightDeleted ==
  ASSUME EditInv, Statement, todo' # <<>>, ToDelete, before.shapely => before.forward
  PROVE  ToExtend'
<1> DEFINE right == todo[1].track
           left == todo[2].track
           e == todo[2].end
           s == tracks[left].side
           x == StartOf(boundaries, tracks, left)
           z == boundaries[e].at
<1>1. /\ Len(todo) \in Nat /\ Next1 = todo[1]
      /\ todo[1].do = "delete" => DeleteTrack
      /\ RowsOK(boundaries, tracks)
  BY StatementIs DEF EditInv, TypeOK
<1>2. /\ Len(todo) >= 2 /\ todo[1].do = "delete" /\ todo[2].do = "setEnd"
      /\ \A i \in 3 .. Len(todo) : todo[i].do \in Cleaning
      /\ before.heard = Heard /\ KeptShape
      /\ left \in DOMAIN tracks /\ right \in DOMAIN tracks
      /\ tracks[right].end = e /\ Adjacent(left, right)
  BY DEF ToDelete
<1>3. Next1 = todo[1] /\ DeleteTrack
  BY <1>1, <1>2
<1>4. /\ before' = before /\ capture' = capture
      /\ \A i \in 1 .. Len(todo') : todo'[i] = todo[i + 1] /\ i + 1 \in 1 .. Len(todo)
      /\ Len(todo') = Len(todo) - 1
  BY <1>2, GoesOn
<1>5. todo'[1] = todo[2] /\ \A i \in 2 .. Len(todo') : todo'[i].do \in Cleaning
  <2>1. 1 \in 1 .. Len(todo') /\ 1 + 1 = 2
    BY <1>1, <1>2, <1>4
  <2>2. \A i \in 2 .. Len(todo') : i \in 1 .. Len(todo') /\ i + 1 \in 3 .. Len(todo)
    BY <1>1, <1>4
  <2>3. todo'[1] = todo[2]
    BY <1>4, <2>1
  <2> QED
    BY <1>2, <1>4, <2>2, <2>3
<1>6. /\ boundaries' = boundaries /\ DOMAIN tracks' = DOMAIN tracks \ {right}
      /\ \A t \in DOMAIN tracks' : tracks'[t] = tracks[t]
  BY <1>3, DeleteDoes
<1>7. /\ Heard \subseteq Heard' \cup TrackHeard(capture, boundaries, tracks, right)
      /\ Forward => Forward'
      /\ Shapely => Shapely'
  BY <1>3, DeleteSays
<1>8. \A t \in DOMAIN tracks' : /\ StartOf(boundaries', tracks', t) = StartOf(boundaries, tracks, t)
                                /\ EndOf(boundaries', tracks', t) = EndOf(boundaries, tracks, t)
  BY <1>6 DEF StartOf, EndOf
<1>9. \A u \in DOMAIN tracks : /\ StartOf(boundaries, tracks, u) \in Nat
                               /\ EndOf(boundaries, tracks, u) \in Nat
  BY <1>1, RowsTyped
<1>10. /\ tracks[right].side = s /\ EndOf(boundaries, tracks, right) = z
       /\ EndOf(boundaries, tracks, left) <= StartOf(boundaries, tracks, right)
       /\ ~ SomethingBetween(left, right)
  BY <1>2 DEF Adjacent, EndOf
<1>11. KeptShape'
  BY <1>2, <1>4, <1>7 DEF KeptShape, KeptForward
<1>12. \A u \in DOMAIN tracks' : tracks'[u].end # e
  BY <1>1, <1>2, <1>6 DEF RowsOK
<1>13. todo'[1].track = left /\ todo'[1].end = e /\ todo'[1].do = "setEnd"
  BY <1>2, <1>5
<1> HIDE DEF right, left, e, s, x, z
<1>14. ASSUME before.forward
       PROVE  /\ left # right /\ x < EndOf(boundaries, tracks, left)
              /\ x < z /\ EndOf(boundaries, tracks, left) <= z
              /\ EndOf(boundaries, tracks, left) <= StartOf(boundaries, tracks, right)
              /\ StartOf(boundaries, tracks, right) < z
  <2>1. Forward
    BY <1>2, <1>14 DEF KeptShape, KeptForward
  <2>2. \A u \in DOMAIN tracks : StartOf(boundaries, tracks, u) < EndOf(boundaries, tracks, u)
    BY <1>9, <2>1 DEF Forward, EmptyTrack
  <2>3. /\ x < EndOf(boundaries, tracks, left)
        /\ StartOf(boundaries, tracks, right) < z
    BY <1>2, <1>10, <2>2 DEF x
  <2>4. x \in Nat /\ z \in Nat
    BY <1>2, <1>9, <1>10 DEF x
  <2>5. left # right
    BY <1>2, <1>9, <1>10, <2>2
  <2> QED
    BY <1>2, <1>9, <1>10, <2>3, <2>4, <2>5
<1>15. ASSUME before.forward
       PROVE  /\ left \in DOMAIN tracks'
              /\ tracks'[left].side = s /\ StartOf(boundaries', tracks', left) = x
              /\ EndOf(boundaries', tracks', left) <= z
  BY <1>2, <1>6, <1>8, <1>14, <1>15 DEF s, x
<1>16. ASSUME before.forward
       PROVE  before'.heard \subseteq Heard' \cup Stretch(capture[s], x, z)
  <2>1. TrackHeard(capture, boundaries, tracks, right) \subseteq Stretch(capture[s], x, z)
    <3>1. \A g \in Frames : StartOf(boundaries, tracks, right) <= g => x <= g
      <4>1. x \in Nat /\ StartOf(boundaries, tracks, right) \in Nat
            /\ EndOf(boundaries, tracks, left) \in Nat
        BY <1>2, <1>9 DEF x
      <4> QED
        BY <1>14, <1>16, <4>1 DEF Frames
    <3> QED
      BY <1>10, <3>1 DEF TrackHeard, Stretch
  <2> QED
    BY <1>2, <1>4, <1>7, <2>1
<1>17. ASSUME before.shapely, NEW u \in TracksOn(tracks', s) \ {left}
       PROVE  \/ EndOf(boundaries', tracks', u) <= x
              \/ z <= StartOf(boundaries', tracks', u)
  <2>1. /\ u \in DOMAIN tracks' /\ u \in DOMAIN tracks /\ u # right
        /\ u \in TracksOn(tracks, s) \ {left, right}
    BY <1>6, <1>17 DEF TracksOn
  <2>2. Shapely /\ s \in Sides
    BY <1>1, <1>2, <1>17, RowsTyped DEF KeptShape, s
  <2>3. left \in TracksOn(tracks, s) /\ right \in TracksOn(tracks, s)
    BY <1>2, <1>10 DEF TracksOn, s
  <2>4. /\ \/ EndOf(boundaries, tracks, u) <= x
           \/ EndOf(boundaries, tracks, left) <= StartOf(boundaries, tracks, u)
        /\ \/ EndOf(boundaries, tracks, u) <= StartOf(boundaries, tracks, right)
           \/ z <= StartOf(boundaries, tracks, u)
    BY <1>10, <2>1, <2>2, <2>3 DEF Shapely, Disjoint, x
  <2>5. ~ (/\ EndOf(boundaries, tracks, left) <= StartOf(boundaries, tracks, u)
           /\ EndOf(boundaries, tracks, u) <= StartOf(boundaries, tracks, right))
    BY <1>2, <1>9, <1>10, <2>1 DEF SomethingBetween, s
  <2> QED
    BY <1>8, <2>1, <2>4, <2>5
<1>18. ASSUME before.shapely
       PROVE  \A u \in TracksOn(tracks', tracks'[left].side) \ {left} :
                 \/ EndOf(boundaries', tracks', u) <= StartOf(boundaries', tracks', left)
                 \/ z <= StartOf(boundaries', tracks', u)
  BY <1>15, <1>17, <1>18
<1>19. boundaries'[e].at = z
  BY <1>6 DEF z
<1>20. before'.forward =>
          /\ left \in DOMAIN tracks'
          /\ StartOf(boundaries', tracks', left) < z /\ EndOf(boundaries', tracks', left) <= z
          /\ before'.heard \subseteq
               Heard' \cup Stretch(capture'[tracks'[left].side], StartOf(boundaries', tracks', left), z)
  BY <1>4, <1>14, <1>15, <1>16
<1>21. before'.shapely =>
          \A u \in TracksOn(tracks', tracks'[left].side) \ {left} :
             \/ EndOf(boundaries', tracks', u) <= StartOf(boundaries', tracks', left)
             \/ z <= StartOf(boundaries', tracks', u)
  BY <1>4, <1>18
<1>22. \A i \in 2 .. Len(todo') : todo'[i].do \in Cleaning
  BY <1>5
<1> HIDE <1>1, <1>2, <1>4, <1>5, <1>6, <1>8
<1> QED
  BY <1>11, <1>12, <1>13, <1>19, <1>20, <1>21, <1>22 DEF ToExtend

LEMMA LeftExtended ==
  ASSUME EditInv, Statement, todo' # <<>>, ToExtend, before.shapely => before.forward
  PROVE  Joined'
<1> DEFINE left == todo[1].track
           e == todo[1].end
           s == tracks[left].side
           x == StartOf(boundaries, tracks, left)
           z == boundaries[e].at
<1>1. /\ Len(todo) \in Nat /\ Next1 = todo[1]
      /\ todo[1].do = "setEnd" => SetEndBoundary
      /\ RowsOK(boundaries, tracks)
  BY StatementIs DEF EditInv, TypeOK
<1>2. /\ todo[1].do = "setEnd" /\ \A i \in 2 .. Len(todo) : todo[i].do \in Cleaning
      /\ KeptShape
      /\ before.forward => /\ left \in DOMAIN tracks
                           /\ x < z /\ EndOf(boundaries, tracks, left) <= z
                           /\ before.heard \subseteq Heard \cup Stretch(capture[s], x, z)
      /\ before.shapely => \A u \in TracksOn(tracks, s) \ {left} :
                              \/ EndOf(boundaries, tracks, u) <= x
                              \/ z <= StartOf(boundaries, tracks, u)
  BY DEF ToExtend
<1>3. Next1 = todo[1] /\ SetEndBoundary
  BY <1>1, <1>2
<1>4. /\ before' = before
      /\ \A i \in 1 .. Len(todo') : todo'[i] = todo[i + 1] /\ i + 1 \in 1 .. Len(todo)
  BY <1>2, GoesOn
<1>5. \A i \in 1 .. Len(todo') : todo'[i].do \in Cleaning
  <2>1. \A i \in 1 .. Len(todo') : i + 1 \in 2 .. Len(todo)
    BY <1>1, <1>4
  <2> QED
    BY <1>2, <1>4, <2>1
<1>6. ASSUME before.forward
      PROVE  before.heard \subseteq Heard' /\ Forward'
  <2>0. left \in DOMAIN tracks /\ left = Next1.track /\ e = Next1.end
    BY <1>2, <1>3, <1>6
  <2>1. PICK others : /\ Heard = others \cup TrackHeard(capture, boundaries, tracks, left)
                      /\ Heard' = others \cup Stretch(capture[s], x, z)
    <3> HIDE DEF left, e
    <3> QED
      BY <1>3, <2>0, SetEndSays
  <2>2. TrackHeard(capture, boundaries, tracks, left) \subseteq Stretch(capture[s], x, z)
    <3>1. EndOf(boundaries, tracks, left) \in Nat /\ z \in Nat
      <4>1. e \in DOMAIN boundaries
        BY <1>3, SetEndDoes
      <4> QED
        BY <1>1, <1>2, <1>6, <4>1, RowsTyped
    <3>2. \A g \in Frames : g < EndOf(boundaries, tracks, left) => g < z
      BY <1>2, <1>6, <3>1 DEF Frames
    <3> QED
      BY <3>2 DEF TrackHeard, Stretch
  <2>3. Forward => Forward'
    BY <1>2, <1>3, <1>6, SetEndSays
  <2> HIDE DEF x, z, s, e, left
  <2> QED
    BY <1>2, <1>6, <2>1, <2>2, <2>3 DEF KeptShape, KeptForward
<1>7. ASSUME before.shapely
      PROVE  Shapely'
  <2>1. before.forward /\ Shapely
    BY <1>2, <1>7 DEF KeptShape
  <2> QED
    BY <1>2, <1>3, <1>7, <2>1, SetEndSays
<1> QED
  BY <1>4, <1>5, <1>6, <1>7 DEF Joined, KeptShape, KeptForward

LEMMA MergeGoesOn ==
  ASSUME EditInv, Statement, todo' # <<>>, MergeInv, before.shapely => before.forward
  PROVE  MergeInv'
<1>1. CASE ToDelete \/ ToExtend
  BY <1>1, RightDeleted, LeftExtended DEF MergeInv
<1>2. CASE Joined
  <2>1. /\ todo[1].do \in Cleaning /\ (todo[1].do = "drop" => DropBoundary)
        /\ (todo[1].do = "renumber" => RenumberTracks)
    BY <1>2, StatementIs DEF Joined
  <2>2. DropBoundary \/ RenumberTracks
    BY <2>1 DEF Cleaning
  <2>3. Heard' = Heard /\ (Forward' <=> Forward) /\ (Shapely' <=> Shapely)
    BY <2>2, StandingSays
  <2>4. /\ before' = before
        /\ \A i \in 1 .. Len(todo') : todo'[i] = todo[i + 1] /\ i + 1 \in 1 .. Len(todo)
    BY <2>1, GoesOn DEF Cleaning
  <2>5. \A i \in 1 .. Len(todo') : todo'[i].do \in Cleaning
    BY <1>2, <2>4 DEF Joined
  <2> QED
    BY <1>2, <2>3, <2>4, <2>5 DEF MergeInv, Joined, KeptShape, KeptForward
<1> QED
  BY <1>1, <1>2 DEF MergeInv

(***************************************************************************)
(* The end the left track takes is the right one's, which is gone.         *)
(***************************************************************************)
LEMMA MergeIsWhole ==
  ASSUME todo # <<>>, Next1 = todo[1], Len(todo) \in Nat, Len(todo) > 0, MergeInv
  PROVE  /\ ~ Is("insert")
         /\ Is("setEnd") => \A t \in DOMAIN tracks : tracks[t].end # Next1.end
<1>1. 1 \in 1 .. Len(todo)
  OBVIOUS
<1>2. todo[1].do \in {"delete", "setEnd"} \cup Cleaning
  BY <1>1 DEF MergeInv, ToDelete, ToExtend, Joined
<1>3. todo[1].do = "setEnd" => ToExtend
  BY <1>1 DEF MergeInv, ToDelete, Joined, Cleaning
<1> QED
  BY <1>2, <1>3 DEF Is, Cleaning, ToExtend

(***************************************************************************)
(* A removal.                                                              *)
(***************************************************************************)
RemoveInv ==
  /\ \A i \in 1 .. Len(todo) : todo[i].do \in {"delete", "drop", "renumber"}
  /\ Heard \subseteq before.heard /\ KeptShape

LEMMA RemoveGoesOn ==
  ASSUME EditInv, Statement, todo' # <<>>, RemoveInv
  PROVE  RemoveInv'
<1>1. /\ todo[1].do \in {"delete", "drop", "renumber"}
      /\ DeleteTrack \/ DropBoundary \/ RenumberTracks
  BY StatementIs DEF RemoveInv
<1>2. /\ before' = before
      /\ \A i \in 1 .. Len(todo') : todo'[i] = todo[i + 1] /\ i + 1 \in 1 .. Len(todo)
  BY <1>1, GoesOn
<1>3. Heard' \subseteq Heard /\ (Forward => Forward') /\ (Shapely => Shapely')
  <2>1. CASE DeleteTrack
    BY <2>1, DeleteSays
  <2>2. CASE DropBoundary \/ RenumberTracks
    BY <2>2, StandingSays
  <2> QED
    BY <1>1, <2>1, <2>2
<1>4. \A i \in 1 .. Len(todo') : todo'[i].do \in {"delete", "drop", "renumber"}
  BY <1>2 DEF RemoveInv
<1> QED
  BY <1>2, <1>3, <1>4 DEF RemoveInv, KeptShape, KeptForward

(***************************************************************************)
(* A reassignment: the track goes to a side of the same capture.           *)
(***************************************************************************)
ReassignInv ==
  /\ \A i \in 1 .. Len(todo) : todo[i].do \in {"rehome", "adoptTrack", "renumber"}
  /\ before.heard = Heard /\ KeptForward
  /\ \A i \in 1 .. Len(todo) :
        todo[i].do = "adoptTrack" /\ todo[i].track \in DOMAIN tracks =>
           capture[tracks[todo[i].track].side] = capture[todo[i].side]

LEMMA ReassignGoesOn ==
  ASSUME EditInv, Statement, todo' # <<>>, ReassignInv, Spaced(todo)
  PROVE  ReassignInv'
<1>1. /\ 1 \in 1 .. Len(todo) /\ Len(todo) \in Nat /\ Next1 = todo[1]
      /\ todo[1].do = "rehome" => RehomeBoundaries
      /\ todo[1].do = "adoptTrack" => RehomeTrack
      /\ todo[1].do = "renumber" => RenumberTracks
  BY StatementIs
<1>2. todo[1].do \in {"rehome", "adoptTrack", "renumber"}
  BY <1>1 DEF ReassignInv
<1>3. /\ before' = before /\ capture' = capture
      /\ \A i \in 1 .. Len(todo') : todo'[i] = todo[i + 1] /\ i + 1 \in 1 .. Len(todo)
  BY <1>2, GoesOn
<1>4. Heard' = Heard /\ (Forward => Forward')
  <2>1. CASE RehomeTrack
    <3>1. todo[1].do = "adoptTrack"
      BY <2>1, UnderWay DEF RehomeTrack
    <3> QED
      BY <1>1, <2>1, <3>1, RehomeTrackSays DEF ReassignInv
  <2>2. CASE RehomeBoundaries \/ RenumberTracks
    BY <2>2, StandingSays
  <2> QED
    BY <1>1, <1>2, <2>1, <2>2
<1>5. \A i \in 1 .. Len(todo') : todo'[i].do \in {"rehome", "adoptTrack", "renumber"}
  BY <1>3 DEF ReassignInv
<1>6. ASSUME NEW i \in 1 .. Len(todo'), todo'[i].do = "adoptTrack", todo'[i].track \in DOMAIN tracks'
      PROVE  capture'[tracks'[todo'[i].track].side] = capture'[todo'[i].side]
  <2>1. todo'[i] = todo[i + 1] /\ i + 1 \in 1 .. Len(todo) /\ 1 < i + 1
    BY <1>3
  <2>2. todo[1].do = "rehome"
    BY <1>1, <1>6, <2>1 DEF Spaced
  <2>3. tracks' = tracks
    BY <1>1, <2>2 DEF RehomeBoundaries
  <2> QED
    BY <1>3, <1>6, <2>1, <2>3 DEF ReassignInv
<1> QED
  BY <1>3, <1>4, <1>5, <1>6 DEF ReassignInv, KeptForward

(***************************************************************************)
(* An adoption: what it is about to pair runs forward and bounds no track  *)
(* of the side, and no boundary is paired twice.                           *)
(***************************************************************************)
Spare(bs, ts, st) ==
  /\ {st.start, st.end} \subseteq DOMAIN bs
  /\ bs[st.start].at < bs[st.end].at
  /\ bs[st.start].side = st.side /\ bs[st.end].side = st.side
  /\ \A t \in TracksOn(ts, st.side) : {st.start, st.end} \cap {ts[t].start, ts[t].end} = {}

AllSpare(bs, ts, list) ==
  /\ \A i \in 1 .. Len(list) : list[i].do = "insert" => Spare(bs, ts, list[i])
  /\ \A i, j \in 1 .. Len(list) :
        i < j /\ list[i].do = "insert" /\ list[j].do = "insert" =>
           {list[i].start, list[i].end} \cap {list[j].start, list[j].end} = {}

AdoptInv == KeptForward /\ AllSpare(boundaries, tracks, todo)

LEMMA FreeApart ==
  ASSUME RowsOK(boundaries, tracks), NEW s
  PROVE  /\ Len(Free(s)) \in Nat
         /\ \A i \in 1 .. Len(Free(s)) :
               /\ Free(s)[i] \in DOMAIN boundaries /\ boundaries[Free(s)[i]].side = s
               /\ \A t \in TracksOn(tracks, s) : Free(s)[i] \notin {tracks[t].start, tracks[t].end}
         /\ \A i, j \in 1 .. Len(Free(s)) :
               /\ i < j => <<Free(s)[i], Free(s)[j]>> \in TimelineOrder(boundaries)
               /\ Free(s)[i] = Free(s)[j] => i = j
<1> DEFINE S == {b \in BoundariesOn(s) :
                   \A t \in TracksOn(tracks, s) :
                      /\ b \notin {tracks[t].start, tracks[t].end}
                      /\ ~ Inside(boundaries, tracks, t, boundaries[b].at)}
           list == Free(s)
<1>1. \A b \in S : /\ b \in DOMAIN boundaries /\ boundaries[b].side = s
                   /\ \A t \in TracksOn(tracks, s) : b \notin {tracks[t].start, tracks[t].end}
  BY DEF BoundariesOn
<1>2. list = InOrder(S, TimelineOrder(boundaries))
  BY DEF Free
<1> HIDE DEF S, list
<1>3. IsFiniteSet(S)
  <2>1. S \subseteq BoundaryIds
    BY <1>1 DEF RowsOK
  <2> QED
    BY <2>1, FS_Subset, TrackAssumption
<1>4. Orders(TimelineOrder(boundaries), S)
  BY <1>1, TimelineOrders
<1>5. /\ list \in Seq(S) /\ Len(list) = Cardinality(S)
      /\ \A i, j \in 1 .. Len(list) : i < j => <<list[i], list[j]>> \in TimelineOrder(boundaries)
      /\ \A i, j \in 1 .. Len(list) : list[i] = list[j] => i = j
  BY <1>2, <1>3, <1>4, Listed
<1>6. Len(list) \in Nat
  BY <1>3, <1>5, FS_CardinalityType
<1>7. \A i \in 1 .. Len(list) : list[i] \in S
  BY <1>5, ElementOfSeq
<1> QED
  BY <1>1, <1>5, <1>6, <1>7 DEF list

LEMMA PairsSpare ==
  ASSUME RowsOK(boundaries, tracks), NEW s \in Sides
  PROVE  AllSpare(boundaries, tracks, PairStatements(s))
<1> DEFINE list == PairStatements(s)
           free == Free(s)
           half(k) == (k + 1) \div 2
           at(k) == Opening(s)[half(k)]
<1>1. Len(list) \in Nat
  BY PairShape
<1>2. ASSUME NEW k \in 1 .. Len(list)
      PROVE  /\ half(k) \in 1 .. Len(Opening(s))
             /\ at(k) \in Opens(free) /\ at(k) \in 1 .. Len(free) /\ at(k) + 1 \in 1 .. Len(free)
             /\ list[k] = IF k % 2 = 1 THEN Insert(s, free[at(k)], free[at(k) + 1]) ELSE Renumber(s)
  BY PairShape
<1>3. /\ Len(free) \in Nat
      /\ \A i \in 1 .. Len(free) :
            /\ free[i] \in DOMAIN boundaries /\ boundaries[free[i]].side = s
            /\ boundaries[free[i]].at \in Nat
            /\ \A t \in TracksOn(tracks, s) : free[i] \notin {tracks[t].start, tracks[t].end}
      /\ \A i, j \in 1 .. Len(free) :
            /\ i < j => <<free[i], free[j]>> \in TimelineOrder(boundaries)
            /\ free[i] = free[j] => i = j
  BY FreeApart, RowsTyped
<1>4. \A i \in Opens(free) : /\ boundaries[free[i]].edge = "start"
                             /\ boundaries[free[i + 1]].edge = "end"
  BY DEF Opens
<1>5. ASSUME NEW k \in 1 .. Len(list), NEW m \in 1 .. Len(list), k < m, k % 2 = 1, m % 2 = 1
      PROVE  at(k) < at(m)
  <2>1. half(k) < half(m)
    BY <1>1, <1>5
  <2> QED
    BY <1>2, <2>1, OpeningListed
<1> HIDE DEF list, free, at, half
<1>6. ASSUME NEW k \in 1 .. Len(list), list[k].do = "insert"
      PROVE  /\ k % 2 = 1 /\ list[k].side = s
             /\ list[k].start = free[at(k)] /\ list[k].end = free[at(k) + 1]
  <2>1. list[k] = IF k % 2 = 1 THEN Insert(s, free[at(k)], free[at(k) + 1]) ELSE Renumber(s)
    BY <1>2
  <2>2. CASE k % 2 = 1
    <3>1. list[k] = Insert(s, free[at(k)], free[at(k) + 1])
      BY <2>1, <2>2
    <3> QED
      BY <2>2, <3>1 DEF Insert
  <2>3. CASE k % 2 # 1
    <3>1. list[k] = Renumber(s)
      BY <2>1, <2>3
    <3> QED
      BY <1>6, <3>1 DEF Renumber
  <2> QED
    BY <2>2, <2>3
<1>7. ASSUME NEW k \in 1 .. Len(list), list[k].do = "insert"
      PROVE  Spare(boundaries, tracks, list[k])
  <2>1. /\ list[k].side = s
        /\ list[k].start = free[at(k)] /\ list[k].end = free[at(k) + 1]
        /\ at(k) \in 1 .. Len(free) /\ at(k) + 1 \in 1 .. Len(free) /\ at(k) < at(k) + 1
    BY <1>2, <1>6, <1>7
  <2>2. /\ boundaries[free[at(k)]].edge = "start" /\ boundaries[free[at(k) + 1]].edge = "end"
        /\ <<free[at(k)], free[at(k) + 1]>> \in TimelineOrder(boundaries)
    BY <1>2, <1>3, <1>4, <2>1
  <2>3. boundaries[free[at(k)]].at < boundaries[free[at(k) + 1]].at
    BY <2>2 DEF TimelineOrder
  <2> QED
    BY <1>3, <2>1, <2>3 DEF Spare
<1>8. ASSUME NEW k \in 1 .. Len(list), NEW m \in 1 .. Len(list), k < m,
             list[k].do = "insert", list[m].do = "insert"
      PROVE  {list[k].start, list[k].end} \cap {list[m].start, list[m].end} = {}
  <2>1. /\ list[k].start = free[at(k)] /\ list[k].end = free[at(k) + 1]
        /\ list[m].start = free[at(m)] /\ list[m].end = free[at(m) + 1]
        /\ at(k) < at(m)
    BY <1>5, <1>6, <1>8
  <2>2. /\ at(k) \in 1 .. Len(free) /\ at(k) + 1 \in 1 .. Len(free)
        /\ at(m) \in 1 .. Len(free) /\ at(m) + 1 \in 1 .. Len(free)
        /\ boundaries[free[at(k) + 1]].edge = "end" /\ boundaries[free[at(m)]].edge = "start"
    BY <1>2, <1>4
  <2>3. at(k) # at(m) /\ at(k) # at(m) + 1 /\ at(k) + 1 # at(m) + 1
    BY <2>1, <2>2
  <2>4. free[at(k) + 1] # free[at(m)]
    BY <2>2
  <2> QED
    BY <1>3, <2>1, <2>2, <2>3, <2>4
<1>9. AllSpare(boundaries, tracks, list)
  BY <1>7, <1>8 DEF AllSpare
<1> QED
  BY <1>9 DEF list

LEMMA SpareRest ==
  ASSUME NEW list \in Seq(Statements), list # <<>>, NEW bs, NEW ts, NEW bs2, NEW ts2,
         AllSpare(bs, ts, list),
         \A i \in 2 .. Len(list) : list[i].do = "insert" => Spare(bs2, ts2, list[i])
  PROVE  AllSpare(bs2, ts2, Tail(list))
<1> DEFINE rest == Tail(list)
<1>1. /\ Len(list) \in Nat /\ Len(rest) = Len(list) - 1
      /\ \A i \in 1 .. Len(rest) : rest[i] = list[i + 1] /\ i + 1 \in 1 .. Len(list)
  BY TailOf
<1> HIDE DEF rest
<1>2. \A i \in 1 .. Len(rest) : i + 1 \in 2 .. Len(list)
  BY <1>1
<1>3. \A i \in 1 .. Len(rest) : rest[i].do = "insert" => Spare(bs2, ts2, rest[i])
  BY <1>1, <1>2
<1>4. ASSUME NEW i \in 1 .. Len(rest), NEW j \in 1 .. Len(rest), i < j,
             rest[i].do = "insert", rest[j].do = "insert"
      PROVE  {rest[i].start, rest[i].end} \cap {rest[j].start, rest[j].end} = {}
  <2>1. /\ rest[i] = list[i + 1] /\ rest[j] = list[j + 1] /\ i + 1 < j + 1
        /\ i + 1 \in 1 .. Len(list) /\ j + 1 \in 1 .. Len(list)
    BY <1>1, <1>4
  <2>2. {list[i + 1].start, list[i + 1].end} \cap {list[j + 1].start, list[j + 1].end} = {}
    BY <1>4, <2>1 DEF AllSpare
  <2> QED
    BY <2>1, <2>2
<1>5. AllSpare(bs2, ts2, rest)
  BY <1>3, <1>4 DEF AllSpare
<1> QED
  BY <1>5 DEF rest

LEMMA AdoptGoesOn ==
  ASSUME EditInv, Statement, todo' # <<>>, AdoptInv, PairingInv, verb = "adopt"
  PROVE  AdoptInv'
<1>1. /\ 1 \in 1 .. Len(todo) /\ Len(todo) \in Nat /\ todo \in Seq(Statements) /\ todo # <<>>
      /\ Next1 = todo[1] /\ RowsOK(boundaries, tracks)
      /\ todo[1].do = "put" => PutBoundary
      /\ todo[1].do = "insert" => InsertTrack
      /\ todo[1].do = "renumber" => RenumberTracks
      /\ todo[1].do = "pair" => PairFree
  BY StatementIs DEF EditInv, TypeOK
<1>2. todo[1].do \in AdoptionKinds /\ AllClear(boundaries, tracks, todo)
  BY <1>1 DEF PairingInv
<1>3. before' = before /\ (todo[1].do # "pair" => todo' = Tail(todo))
  BY GoesOn
<1>4. \A i \in 2 .. Len(todo) : i \in 1 .. Len(todo) /\ 1 < i
  BY <1>1
<1>5. AllSpare(boundaries, tracks, todo)
  BY DEF AdoptInv
<1>6. CASE PutBoundary
  <2>1. todo[1].do = "put"
    BY <1>6, UnderWay DEF PutBoundary
  <2>2. \A i \in 1 .. Len(todo) : todo[i].do # "insert"
    BY <1>1, <1>2, <2>1 DEF AllClear
  <2>3. AllSpare(boundaries', tracks', todo')
    BY <1>1, <1>3, <1>4, <1>5, <2>1, <2>2, SpareRest
  <2> QED
    BY <1>3, <1>6, <2>3, StandingSays DEF AdoptInv, KeptForward
<1>7. CASE InsertTrack
  <2>1. todo[1].do = "insert" /\ Next1 = todo[1]
    BY <1>7, UnderWay DEF InsertTrack
  <2>2. Spare(boundaries, tracks, todo[1])
    BY <1>1, <1>5, <2>1 DEF AllSpare
  <2>3. Forward => Forward'
    BY <1>7, <2>1, <2>2, InsertSays DEF Spare
  <2>4. boundaries' = boundaries
    BY <1>7, InsertDoes
  <2>5. PICK new : /\ new \notin DOMAIN tracks
                   /\ DOMAIN tracks' = DOMAIN tracks \cup {new}
                   /\ tracks'[new].start = todo[1].start /\ tracks'[new].end = todo[1].end
                   /\ \A t \in DOMAIN tracks : tracks'[t] = tracks[t]
    BY <1>7, <2>1, InsertDoes
  <2>6. ASSUME NEW i \in 2 .. Len(todo), todo[i].do = "insert"
        PROVE  Spare(boundaries, tracks', todo[i])
    <3>1. Spare(boundaries, tracks, todo[i])
      BY <1>4, <1>5, <2>6 DEF AllSpare
    <3>2. {todo[1].start, todo[1].end} \cap {todo[i].start, todo[i].end} = {}
      BY <1>1, <1>4, <1>5, <2>1, <2>6 DEF AllSpare
    <3>3. ASSUME NEW t \in TracksOn(tracks', todo[i].side)
          PROVE  {todo[i].start, todo[i].end} \cap {tracks'[t].start, tracks'[t].end} = {}
      <4>1. CASE t = new
        BY <2>5, <3>2, <4>1
      <4>2. CASE t # new
        <5>1. tracks'[t] = tracks[t] /\ t \in TracksOn(tracks, todo[i].side)
          BY <2>5, <4>2 DEF TracksOn
        <5> QED
          BY <3>1, <5>1 DEF Spare
      <4> QED
        BY <4>1, <4>2
    <3> QED
      BY <3>1, <3>3 DEF Spare
  <2>7. AllSpare(boundaries', tracks', todo')
    BY <1>1, <1>3, <1>5, <2>1, <2>4, <2>6, SpareRest
  <2> QED
    BY <1>3, <2>3, <2>7 DEF AdoptInv, KeptForward
<1>8. CASE RenumberTracks
  <2>1. todo[1].do = "renumber"
    BY <1>8, UnderWay DEF RenumberTracks
  <2>2. /\ boundaries' = boundaries /\ DOMAIN tracks' = DOMAIN tracks
        /\ \A t \in DOMAIN tracks : /\ tracks'[t].side = tracks[t].side
                                    /\ tracks'[t].start = tracks[t].start
                                    /\ tracks'[t].end = tracks[t].end
    BY <1>8, RenumberDoes
  <2>3. ASSUME NEW i \in 2 .. Len(todo), todo[i].do = "insert"
        PROVE  Spare(boundaries, tracks', todo[i])
    <3>1. Spare(boundaries, tracks, todo[i])
      BY <1>4, <1>5, <2>3 DEF AllSpare
    <3>2. \A t \in TracksOn(tracks', todo[i].side) : t \in TracksOn(tracks, todo[i].side) /\ t \in DOMAIN tracks
      BY <2>2 DEF TracksOn
    <3> QED
      BY <2>2, <3>1, <3>2 DEF Spare
  <2>4. AllSpare(boundaries', tracks', todo')
    BY <1>1, <1>3, <1>5, <2>1, <2>2, <2>3, SpareRest
  <2> QED
    BY <1>3, <1>8, <2>4, StandingSays DEF AdoptInv, KeptForward
<1>9. CASE PairFree
  <2>1. /\ Next1.side \in Sides /\ todo' = PairStatements(Next1.side)
        /\ boundaries' = boundaries /\ tracks' = tracks
    BY <1>9, OnlyThePairing DEF PairFree, Proceed
  <2>2. AllSpare(boundaries', tracks', todo')
    BY <1>1, <2>1, PairsSpare
  <2>3. Forward' <=> Forward
    BY <2>1, ShapelyIs
  <2> QED
    BY <1>3, <2>2, <2>3 DEF AdoptInv, KeptForward
<1> QED
  BY <1>1, <1>2, <1>6, <1>7, <1>8, <1>9 DEF AdoptionKinds

LEMMA AdoptIsWhole ==
  ASSUME EditInv, todo # <<>>, Next1 = todo[1], Len(todo) \in Nat, Len(todo) > 0,
         AdoptInv, PairingInv, verb = "adopt", Whole
  PROVE  /\ Is("insert") => Bounding(tracks, Next1.start) \cup Bounding(tracks, Next1.end) = {}
         /\ ~ Is("setEnd")
<1>1. 1 \in 1 .. Len(todo) /\ todo[1].do \in AdoptionKinds
  BY DEF PairingInv
<1>2. ASSUME Is("insert"), NEW u \in DOMAIN tracks, NEW b \in {Next1.start, Next1.end}
      PROVE  b \notin {tracks[u].start, tracks[u].end}
  <2>1. Spare(boundaries, tracks, todo[1])
    BY <1>1, <1>2 DEF Is, AdoptInv, AllSpare
  <2>2. b \in {tracks[u].start, tracks[u].end} => boundaries[b].side = tracks[u].side
    BY DEF Whole
  <2>3. boundaries[b].side = todo[1].side
    BY <1>2, <2>1 DEF Spare
  <2>4. u \in TracksOn(tracks, todo[1].side) => b \notin {tracks[u].start, tracks[u].end}
    BY <1>2, <2>1 DEF Spare
  <2> QED
    BY <2>2, <2>3, <2>4 DEF TracksOn
<1>3. Is("insert") => Bounding(tracks, Next1.start) = {} /\ Bounding(tracks, Next1.end) = {}
  BY <1>2 DEF Bounding
<1> QED
  BY <1>1, <1>3 DEF Is, AdoptionKinds

----------------------------------------------------------------------------
(* Every verb under way.                                                   *)

WayInv ==
  todo # <<>> =>
     /\ before.shapely => before.forward
     /\ verb \in {"add", "split", "merge", "remove", "reassign", "force", "adopt"}
     /\ verb = "add" => AddInv
     /\ verb = "split" => SplitInv
     /\ verb = "merge" => MergeInv
     /\ verb = "remove" => RemoveInv
     /\ verb = "reassign" => ReassignInv
     /\ verb = "adopt" => AdoptInv

LEMMA WayGoesOn ==
  ASSUME EditInv, PairingInv, NumberInv, WayInv, Statement
  PROVE  WayInv'
<1>1. CASE todo' = <<>>
  BY <1>1 DEF WayInv
<1>2. CASE todo' # <<>>
  <2>1. todo # <<>> /\ verb' = verb /\ before' = before /\ Spaced(todo)
    BY <1>2, GoesOn, StatementIs DEF NumberInv
  <2>2. CASE verb = "add"
    BY <1>2, <2>1, <2>2, AddGoesOn DEF WayInv
  <2>3. CASE verb = "split"
    BY <1>2, <2>1, <2>3, SplitGoesOn DEF WayInv
  <2>4. CASE verb = "merge"
    BY <1>2, <2>1, <2>4, MergeGoesOn DEF WayInv
  <2>5. CASE verb = "remove"
    BY <1>2, <2>1, <2>5, RemoveGoesOn DEF WayInv
  <2>6. CASE verb = "reassign"
    BY <1>2, <2>1, <2>6, ReassignGoesOn DEF WayInv
  <2>7. CASE verb = "force"
    BY <1>2, <2>1, <2>7 DEF WayInv
  <2>8. CASE verb = "adopt"
    BY <1>2, <2>1, <2>8, AdoptGoesOn DEF WayInv
  <2> QED
    BY <2>1, <2>2, <2>3, <2>4, <2>5, <2>6, <2>7, <2>8 DEF WayInv
<1> QED
  BY <1>1, <1>2

(***************************************************************************)
(* As a verb begins nothing has changed yet.                               *)
(***************************************************************************)
LEMMA BeginSays ==
  ASSUME NEW name, NEW list, Begin(name, list)
  PROVE  /\ verb' = name /\ todo' = list
         /\ boundaries' = boundaries /\ tracks' = tracks /\ capture' = capture
         /\ before'.heard = Heard' /\ KeptShape' /\ (before'.shapely => before'.forward)
<1>1. /\ verb' = name /\ todo' = list /\ before' = Now
      /\ boundaries' = boundaries /\ tracks' = tracks /\ capture' = capture
  BY DEF Begin
<1>2. Heard' = Heard /\ (Forward' <=> Forward) /\ (Shapely' <=> Shapely)
  BY <1>1, HeardIs, ShapelyIs
<1>3. Now.heard = Heard /\ (Now.forward <=> Forward) /\ (Now.shapely <=> Shapely)
  BY DEF Now
<1>4. Shapely => Forward
  BY DEF Shapely
<1>5. before'.heard = Heard' /\ (before'.forward <=> Forward') /\ (before'.shapely <=> Shapely')
  BY <1>1, <1>2, <1>3
<1> QED
  BY <1>1, <1>2, <1>4, <1>5 DEF KeptShape, KeptForward

LEMMA WayOfAdd ==
  ASSUME EditInv, NEW s \in Sides, NEW start \in Frames, NEW end \in Frames,
         AddTrack(s, start, end)
  PROVE  WayInv'
<1> DEFINE a == Put(ByUser(s, start, "start"), 1)
           b == Put(ByUser(s, end, "end"), 2)
           c == Insert(s, a.id, b.id)
           d == Renumber(s)
           list == <<a, b, c, d>>
<1>1. Begin("add", list) /\ start < end
  BY DEF AddTrack
<1>2. /\ a.do = "put" /\ a.row.side = s /\ a.row.at = start
      /\ b.do = "put" /\ b.row.side = s /\ b.row.at = end
  BY DEF Put, ByUser
<1> HIDE DEF a, b
<1>3. c.do = "insert" /\ c.start = a.id /\ c.end = b.id /\ d.do = "renumber"
  BY DEF Insert, Renumber
<1> HIDE DEF c, d
<1>4. Len(list) = 4 /\ list[1] = a /\ list[2] = b /\ list[3] = c /\ list[4] = d
  OBVIOUS
<1> HIDE DEF list
<1>5. \A i \in 1 .. Len(list) : i = 1 \/ i = 2 \/ i = 3 \/ i = 4
  BY <1>4
<1>6. Lies(boundaries, list, c.start, s, start) /\ Lies(boundaries, list, c.end, s, end)
  <2>1. 1 \in 1 .. Len(list) /\ 2 \in 1 .. Len(list)
    BY <1>4
  <2> QED
    BY <1>2, <1>3, <1>4, <2>1 DEF Lies
<1>7. /\ verb' = "add" /\ todo' = list /\ boundaries' = boundaries
      /\ KeptShape' /\ (before'.shapely => before'.forward)
  BY <1>1, BeginSays
<1>8. /\ \A i \in 1 .. Len(list) : list[i].do \in {"put", "insert", "renumber"}
      /\ \A i \in 1 .. Len(list) : list[i].do = "insert" => list[i] = c
  BY <1>2, <1>3, <1>4, <1>5
<1>9. AddInv'
  BY <1>1, <1>6, <1>7, <1>8 DEF AddInv, KeptShape
<1> QED
  BY <1>7, <1>9 DEF WayInv

LEMMA WayOfSplit ==
  ASSUME EditInv, NEW t \in DOMAIN tracks, NEW at \in Frames, Split(t, at)
  PROVE  WayInv'
<1> DEFINE s == tracks[t].side
           a == Put(ByUser(s, at, "end"), 1)
           b == Put(ByUser(s, at, "start"), 2)
           c == SetEnd(t, a.id)
           d == Insert(s, b.id, tracks[t].end)
           e == Renumber(s)
           list == <<a, b, c, d, e>>
<1>1. /\ Begin("split", list)
      /\ StartOf(boundaries, tracks, t) < at /\ at < EndOf(boundaries, tracks, t)
  BY DEF Split
<1>2. /\ a.do = "put" /\ a.row.side = s /\ a.row.at = at
      /\ b.do = "put" /\ b.row.side = s /\ b.row.at = at
  BY DEF Put, ByUser
<1> HIDE DEF a, b
<1>3. /\ c.do = "setEnd" /\ c.track = t /\ c.end = a.id
      /\ d.do = "insert" /\ d.side = s /\ d.start = b.id /\ d.end = tracks[t].end
      /\ e.do = "renumber"
  BY DEF SetEnd, Insert, Renumber
<1> HIDE DEF c, d, e
<1>4. Len(list) = 5 /\ list[1] = a /\ list[2] = b /\ list[3] = c /\ list[4] = d /\ list[5] = e
  OBVIOUS
<1> HIDE DEF list
<1>5. Lies(boundaries, list, c.end, s, at) /\ Lies(boundaries, list, d.start, s, at)
  <2>1. 1 \in 1 .. Len(list) /\ 2 \in 1 .. Len(list)
    BY <1>4
  <2> QED
    BY <1>2, <1>3, <1>4, <2>1 DEF Lies
<1>6. /\ verb' = "split" /\ todo' = list /\ boundaries' = boundaries /\ tracks' = tracks
      /\ before'.heard = Heard' /\ KeptShape' /\ (before'.shapely => before'.forward)
  BY <1>1, BeginSays
<1>7. \A i \in 1 .. Len(list) - 3 : list[i].do = "put"
  <2>1. \A i \in 1 .. Len(list) - 3 : i = 1 \/ i = 2
    BY <1>4
  <2> QED
    BY <1>2, <1>4, <2>1
<1>8. /\ Len(list) >= 3 /\ list[Len(list) - 2] = c /\ list[Len(list) - 1] = d
      /\ list[Len(list)] = e
  BY <1>4
<1> HIDE DEF s
<1>9. tracks[t].side = s
  BY DEF s
<1>10. Uncut'
  BY <1>1, <1>3, <1>5, <1>6, <1>7, <1>8, <1>9 DEF Uncut
<1> QED
  BY <1>6, <1>10 DEF WayInv, SplitInv

LEMMA WayOfMerge ==
  ASSUME EditInv, NEW left \in DOMAIN tracks, NEW right \in DOMAIN tracks, Merge(left, right)
  PROVE  WayInv'
<1> DEFINE a == Delete(right)
           b == SetEnd(left, tracks[right].end)
           c == DropIfFree(tracks[left].end)
           d == DropIfFree(tracks[right].start)
           e == Renumber(tracks[left].side)
           list == <<a, b, c, d, e>>
<1>1. Begin("merge", list) /\ Adjacent(left, right)
  BY DEF Merge
<1>2. /\ a.do = "delete" /\ a.track = right
      /\ b.do = "setEnd" /\ b.track = left /\ b.end = tracks[right].end
      /\ c.do = "drop" /\ d.do = "drop" /\ e.do = "renumber"
  BY DEF Delete, SetEnd, DropIfFree, Renumber
<1> HIDE DEF a, b, c, d, e
<1>3. Len(list) = 5 /\ list[1] = a /\ list[2] = b /\ list[3] = c /\ list[4] = d /\ list[5] = e
  OBVIOUS
<1> HIDE DEF list
<1>4. \A i \in 3 .. Len(list) : list[i].do \in Cleaning
  <2>1. \A i \in 3 .. Len(list) : i = 3 \/ i = 4 \/ i = 5
    BY <1>3
  <2> QED
    BY <1>2, <1>3, <2>1 DEF Cleaning
<1>5. /\ verb' = "merge" /\ todo' = list /\ boundaries' = boundaries /\ tracks' = tracks
      /\ before'.heard = Heard' /\ KeptShape' /\ (before'.shapely => before'.forward)
  BY <1>1, BeginSays
<1>6. Adjacent(left, right)'
  BY <1>1, <1>5 DEF Adjacent, SomethingBetween
<1>7. ToDelete'
  <2>1. Len(list) >= 2
    BY <1>3
  <2> QED
    BY <1>2, <1>3, <1>4, <1>5, <1>6, <2>1 DEF ToDelete
<1> QED
  BY <1>5, <1>7 DEF WayInv, MergeInv

LEMMA WayOfRemove ==
  ASSUME EditInv, NEW t \in DOMAIN tracks, RemoveTrack(t)
  PROVE  WayInv'
<1> DEFINE a == Delete(t)
           b == DropIfFree(tracks[t].start)
           c == DropIfFree(tracks[t].end)
           d == Renumber(tracks[t].side)
           list == <<a, b, c, d>>
<1>1. Begin("remove", list)
  BY DEF RemoveTrack
<1>2. a.do = "delete" /\ b.do = "drop" /\ c.do = "drop" /\ d.do = "renumber"
  BY DEF Delete, DropIfFree, Renumber
<1> HIDE DEF a, b, c, d
<1>3. \A i \in 1 .. Len(list) : list[i].do \in {"delete", "drop", "renumber"}
  <2>1. Len(list) = 4 /\ list[1] = a /\ list[2] = b /\ list[3] = c /\ list[4] = d
    OBVIOUS
  <2>2. \A i \in 1 .. Len(list) : i = 1 \/ i = 2 \/ i = 3 \/ i = 4
    BY <2>1
  <2> HIDE DEF list
  <2> QED
    BY <1>2, <2>1, <2>2
<1> HIDE DEF list
<1>4. /\ verb' = "remove" /\ todo' = list
      /\ before'.heard = Heard' /\ KeptShape' /\ (before'.shapely => before'.forward)
  BY <1>1, BeginSays
<1>5. RemoveInv'
  BY <1>3, <1>4 DEF RemoveInv
<1> QED
  BY <1>4, <1>5 DEF WayInv

LEMMA WayOfReassign ==
  ASSUME EditInv, NEW t \in DOMAIN tracks, NEW to \in Sides, MoveToSide(t, to)
  PROVE  WayInv'
<1> DEFINE from == tracks[t].side
           a == [do |-> "rehome", ids |-> {tracks[t].start, tracks[t].end}, side |-> to]
           b == [do |-> "adoptTrack", track |-> t, side |-> to]
           c == Renumber(from)
           d == Renumber(to)
           list == <<a, b, c, d>>
<1>1. Begin("reassign", list) /\ capture[from] = capture[to]
  BY DEF MoveToSide
<1>2. /\ a.do = "rehome" /\ b.do = "adoptTrack" /\ b.track = t /\ b.side = to
      /\ c.do = "renumber" /\ d.do = "renumber"
  BY DEF Renumber
<1> HIDE DEF a, b, c, d
<1>3. /\ \A i \in 1 .. Len(list) : list[i].do \in {"rehome", "adoptTrack", "renumber"}
      /\ \A i \in 1 .. Len(list) : list[i].do = "adoptTrack" => list[i] = b
  <2>1. Len(list) = 4 /\ list[1] = a /\ list[2] = b /\ list[3] = c /\ list[4] = d
    OBVIOUS
  <2>2. \A i \in 1 .. Len(list) : i = 1 \/ i = 2 \/ i = 3 \/ i = 4
    BY <2>1
  <2> HIDE DEF list
  <2> QED
    BY <1>2, <2>1, <2>2
<1> HIDE DEF list
<1>4. /\ verb' = "reassign" /\ todo' = list /\ tracks' = tracks /\ capture' = capture
      /\ before'.heard = Heard' /\ KeptShape' /\ (before'.shapely => before'.forward)
  BY <1>1, BeginSays
<1>5. ReassignInv'
  BY <1>1, <1>2, <1>3, <1>4 DEF ReassignInv, KeptShape
<1> QED
  BY <1>4, <1>5 DEF WayInv

LEMMA WayOfAdopt ==
  ASSUME EditInv, NEW s \in Sides, NEW pass \in Passes, NEW d \in Detectors, Adopt(s, pass, d)
  PROVE  WayInv'
<1>1. \A i \in 1 .. Len(todo') : todo'[i].do \in {"put", "pair"}
  BY AdoptBegins
<1>2. Begin("adopt", todo')
  BY DEF Adopt, Begin
<1>3. verb' = "adopt" /\ KeptShape' /\ (before'.shapely => before'.forward)
  BY <1>2, BeginSays
<1>4. AllSpare(boundaries', tracks', todo')
  BY <1>1 DEF AllSpare
<1>5. AdoptInv'
  BY <1>3, <1>4 DEF AdoptInv, KeptShape
<1> QED
  BY <1>3, <1>5 DEF WayInv

LEMMA WayNext ==
  ASSUME EditInv, PairingInv, NumberInv, WayInv, [Next]_vars
  PROVE  WayInv'
<1>1. CASE Statement
  BY <1>1, WayGoesOn
<1>2. CASE CutShort
  BY <1>2 DEF CutShort, WayInv
<1>3. CASE Over \/ UNCHANGED vars
  <2>1. /\ boundaries' = boundaries /\ tracks' = tracks /\ capture' = capture /\ todo' = todo
        /\ verb' = verb /\ before' = before
    BY <1>3 DEF Over, vars
  <2>2. Heard' = Heard /\ (Forward' <=> Forward) /\ (Shapely' <=> Shapely)
    BY <2>1, HeardIs, ShapelyIs
  <2> QED
    BY <2>1, <2>2 DEF WayInv, AddInv, SplitInv, Uncut, Halved, AsItWas, MergeInv, ToDelete,
                      ToExtend, Joined, RemoveInv, ReassignInv, AdoptInv, AllSpare, KeptShape,
                      KeptForward, Adjacent, SomethingBetween
<1>4. CASE Verb
  <2>1. CASE \E s \in Sides, a, z \in Frames : AddTrack(s, a, z)
    BY <2>1, WayOfAdd
  <2>2. CASE \E t \in DOMAIN tracks : \E at \in Frames : Split(t, at)
    BY <2>2, WayOfSplit
  <2>3. CASE \E t \in DOMAIN tracks : \E u \in DOMAIN tracks : Merge(t, u)
    BY <2>3, WayOfMerge
  <2>4. CASE \E t \in DOMAIN tracks : RemoveTrack(t)
    BY <2>4, WayOfRemove
  <2>5. CASE \E t \in DOMAIN tracks : \E s \in Sides : MoveToSide(t, s)
    BY <2>5, WayOfReassign
  <2>6. CASE \E b \in DOMAIN boundaries : \E to \in Frames : MoveForced(b, to)
    <3>1. PICK list : Begin("force", list)
      BY <2>6 DEF MoveForced
    <3>2. verb' = "force" /\ (before'.shapely => before'.forward)
      BY <3>1, BeginSays
    <3> QED
      BY <3>2 DEF WayInv
  <2>7. CASE \E s \in Sides : \E pass \in Passes, d \in Detectors : Adopt(s, pass, d)
    BY <2>7, WayOfAdopt
  <2>8. CASE \/ \E b \in DOMAIN boundaries : \/ \E to \in Frames : MoveBoundary(b, to)
                                             \/ \E l \in BOOLEAN : SetLock(b, l)
                                             \/ DeleteBoundary(b)
             \/ \E s \in Sides : RenumberSide(s) \/ \E c \in Captures \cup {NoCapture} : Attach(s, c)
    <3>1. todo' = <<>>
      BY <2>8 DEF MoveBoundary, SetLock, DeleteBoundary, RenumberSide, Attach, AtOnce, Idle
    <3> QED
      BY <3>1 DEF WayInv
  <2> QED
    BY <1>4, <2>1, <2>2, <2>3, <2>4, <2>5, <2>6, <2>7, <2>8 DEF Verb
<1> QED
  BY <1>1, <1>2, <1>3, <1>4 DEF Next

LEMMA EditsGoTheirWay == Spec => [](EditInv /\ PairingInv /\ NumberInv /\ WayInv)
<1>1. Init => WayInv
  BY DEF Init, WayInv
<1>2. EditInv /\ PairingInv /\ NumberInv /\ WayInv /\ [Next]_vars => WayInv'
  BY WayNext
<1> QED
  BY <1>1, <1>2, PairingHolds, NumbersHold, PTL DEF Spec

LEMMA AudioKept ==
  ASSUME EditInv, WayInv, todo # <<>>, before.forward,
         \A i \in DOMAIN todo : todo[i].do = "renumber"
  PROVE  /\ verb \in {"split", "reassign"} => Heard = before.heard
         /\ verb = "merge" => before.heard \subseteq Heard
         /\ verb = "remove" => Heard \subseteq before.heard
<1>1. Len(todo) \in Nat /\ Len(todo) > 0 /\ DOMAIN todo = 1 .. Len(todo)
  BY TailOf, LenProperties DEF EditInv
<1>2. \A i \in 1 .. Len(todo) : todo[i].do = "renumber"
  BY <1>1
<1>3. 1 \in 1 .. Len(todo) /\ todo[1].do = "renumber"
  BY <1>1, <1>2
<1>4. verb = "split" => AsItWas
  <2>1. ~ Halved
    BY <1>3 DEF Halved
  <2>2. ~ Uncut
    <3>1. Len(todo) >= 3 => Len(todo) - 2 \in 1 .. Len(todo)
      BY <1>1
    <3> QED
      BY <1>2, <3>1 DEF Uncut
  <2> QED
    BY <2>1, <2>2 DEF WayInv, SplitInv
<1>5. verb = "merge" => Joined
  BY <1>3 DEF WayInv, MergeInv, ToDelete, ToExtend
<1> QED
  BY <1>4, <1>5 DEF WayInv, AsItWas, Joined, ReassignInv, RemoveInv

LEMMA ShapeKept ==
  ASSUME WayInv
  PROVE  EditKeepsShape
BY DEF WayInv, EditKeepsShape, AddInv, SplitInv, Uncut, Halved, AsItWas, MergeInv, ToDelete,
       ToExtend, Joined, RemoveInv, ReassignInv, AdoptInv, KeptShape, KeptForward

LEMMA NoneHalf ==
  ASSUME EditInv, PairingInv, WayInv
  PROVE  NoHalfEdit
<1> SUFFICES ASSUME todo # <<>>, before.shapely, Whole, verb \in {"split", "merge", "adopt"}
             PROVE  /\ Is("insert") => Bounding(tracks, Next1.start) \cup Bounding(tracks, Next1.end)
                                         = {}
                    /\ Is("setEnd") => \A t \in DOMAIN tracks :
                                          t # Next1.track => tracks[t].end # Next1.end
  BY DEF NoHalfEdit
<1>1. Len(todo) \in Nat /\ Len(todo) > 0 /\ Next1 = todo[1]
  BY TailOf DEF EditInv, Next1
<1> QED
  BY <1>1, SplitIsWhole, MergeIsWhole, AdoptIsWhole DEF WayInv

(***************************************************************************)
(* What an edit leaves is the side it should be, whatever the rows were    *)
(* when it began and at whatever statement it is cut short (track.rs): no  *)
(* audio is lost or doubled by a split, a merge, a removal or a            *)
(* reassignment; none of them leaves an overlap or a track that runs       *)
(* backwards where there was none; none stops half way on a UNIQUE         *)
(* constraint; at rest the tracks are numbered in timeline order; and      *)
(* comparing neighbours finds every overlap (validate.rs).                 *)
(***************************************************************************)
THEOREM EditsKeepTracks == Spec => []EditKeepsTracks
<1>1. EditInv /\ PairingInv /\ NumberInv /\ WayInv => EditKeepsTracks
  BY AudioKept, ShapeKept, NoneHalf, RestNumbered, OverlapFound
     DEF EditKeepsTracks, EditKeepsAudio
<1> QED
  BY <1>1, EditsGoTheirWay, PTL

=============================================================================
