------------------------------ MODULE Topology ------------------------------
(***************************************************************************)
(* The rows behind a release's tracks (project/src/schema.rs, version 2)   *)
(* and what is read from them: a track holds no frames of its own, it is   *)
(* the two boundaries it names.  check_topology() of validate.rs is here   *)
(* too, beside the plain statement of what it looks for.                   *)
(*                                                                         *)
(* `bs` and `ts` are the two tables, functions from row ids.  Titles,      *)
(* evidence and timestamps are not modelled.                               *)
(***************************************************************************)
EXTENDS Integers, FiniteSets, Sequences, FiniteSetsExt

\* The members of S in the order `before`, a set of pairs without ties.  (Behind an
\* empty sequence, so that TLC evaluates it once and not at each application.)
InOrder(S, before) ==
    <<>> \o [i \in 1..Cardinality(S) |->
        CHOOSE x \in S : Cardinality({y \in S : <<y, x>> \in before}) = i - 1]

StartOf(bs, ts, t) == bs[ts[t].start].at
EndOf(bs, ts, t)   == bs[ts[t].end].at

TracksOn(ts, s) == {t \in DOMAIN ts : ts[t].side = s}

Inside(bs, ts, t, frame) == StartOf(bs, ts, t) <= frame /\ frame < EndOf(bs, ts, t)

\* bounded_track(): UNIQUE keeps a boundary to one track, but it is asked of both
\* columns.
Bounding(ts, b) == {t \in DOMAIN ts : b \in {ts[t].start, ts[t].end}}

\* The row of a side at a frame and an edge, if there is one: at most one by UNIQUE.
RowAt(bs, s, at, edge) ==
    {b \in DOMAIN bs : bs[b].side = s /\ bs[b].at = at /\ bs[b].edge = edge}

\* tracks_of(): in timeline order.
TrackOrder(bs, ts) ==
    {p \in (DOMAIN ts) \X (DOMAIN ts) :
        LET a == StartOf(bs, ts, p[1])
            b == StartOf(bs, ts, p[2])
        IN  a < b \/ (a = b /\ p[1] < p[2])}

Listing(bs, ts, s) == InOrder(TracksOn(ts, s), TrackOrder(bs, ts))

\* boundaries_of(): in timeline order, an end before a start at the same frame.
TimelineOrder(bs) ==
    {p \in (DOMAIN bs) \X (DOMAIN bs) :
        LET a == bs[p[1]]
            b == bs[p[2]]
        IN  a.at < b.at \/ (a.at = b.at /\ a.edge = "end" /\ b.edge = "start")}

NextNumber(ts, s) == Max({ts[t].number : t \in TracksOn(ts, s)} \cup {0}) + 1

\* renumber_side(): one transaction, 1..n in timeline order.
Renumbered(bs, ts, s) ==
    [t \in DOMAIN ts |->
        IF ts[t].side = s
        THEN [ts[t] EXCEPT !.number = CHOOSE i \in 1..Cardinality(TracksOn(ts, s)) :
                                          Listing(bs, ts, s)[i] = t]
        ELSE ts[t]]

-----------------------------------------------------------------------------
\* check_topology(): two of its four questions; the numbers and sides without a
\* capture are plain counts.

EmptyTrack(bs, ts) == \E t \in DOMAIN ts : EndOf(bs, ts, t) <= StartOf(bs, ts, t)

\* Mutant: tracks that meet are said to overlap.
OverlappingMeet(bs, ts, s) ==
    LET list == Listing(bs, ts, s)
    IN  \E i \in 1..(Len(list) - 1) :
            StartOf(bs, ts, list[i + 1]) <= EndOf(bs, ts, list[i])

\* It compares each track with the one before it.
Overlapping(bs, ts, s) ==
    LET list == Listing(bs, ts, s)
    IN  \E i \in 1..(Len(list) - 1) :
            StartOf(bs, ts, list[i + 1]) < EndOf(bs, ts, list[i])

\* What the second of these looks for, over all pairs.
Disjoint(bs, ts, s) ==
    \A t, u \in TracksOn(ts, s) :
        t # u => EndOf(bs, ts, t) <= StartOf(bs, ts, u)
                 \/ EndOf(bs, ts, u) <= StartOf(bs, ts, t)
=============================================================================
