----------------------------- MODULE TrackEdits -----------------------------
(***************************************************************************)
(* The edit model: project/src/track.rs and side.rs with the adoption of a *)
(* detection pass (core/src/adopt.rs), as the verbs of `vcw tracks` and    *)
(* the public functions under them call it.                                *)
(*                                                                         *)
(* Nothing here is one transaction: a verb reads, checks, and then writes  *)
(* one statement after another, each committed as it is made.  `todo` has  *)
(* the statements of the verb under way that are still to come.  A kill,   *)
(* or a statement that fails, drops them (CutShort) and keeps what is      *)
(* written.                                                                *)
(***************************************************************************)
EXTENDS Resolver, Topology

CONSTANTS
    Sides,
    Captures,     \* the captures of the project, all of one rate and length
    NoCapture,
    MaxFrame,     \* bound: positions are 0..MaxFrame
    BoundaryIds,  \* bound: rows of track_boundaries at any time
    TrackIds,     \* bound: rows of tracks at any time
    MaxEdits,     \* bound: verbs in a behaviour
    Passes,       \* what the detectors may report: sets of [at, edge, sources]
    MinTrack,     \* Policy::min_track_frames
    Starts        \* the rows a behaviour may start with, as earlier verbs left them

ASSUME TrackAssumption ==
    /\ BoundaryIds \subseteq Nat /\ TrackIds \subseteq Nat
    /\ IsFiniteSet(BoundaryIds) /\ IsFiniteSet(TrackIds)
    /\ MaxFrame \in Nat /\ MaxEdits \in Nat /\ MinTrack \in Nat
    /\ NoCapture \notin Captures

VARIABLES
    boundaries,   \* track_boundaries
    tracks,       \* tracks
    capture,      \* sides.capture_id
    todo,         \* the statements to come
    verb,         \* the verb under way
    edits,        \* how many verbs there have been
    before,       \* history: what the tracks were like when the verb began
    unsettled     \* history: sides out of order at the start, or with a boundary moved
                  \* or a verb cut short, and not renumbered since

rows == <<boundaries, tracks>>
vars == <<boundaries, tracks, capture, todo, verb, edits, before, unsettled>>

Frames == 0..MaxFrame

Boundary == [side : Sides, at : Frames, edge : Edges, prov : Provenances,
             locked : BOOLEAN]
Track == [side : Sides, number : Nat \ {0}, start : BoundaryIds, end : BoundaryIds]

\* UNIQUE (side_id, at_frame, edge)
SamePlace(a, b) == a.side = b.side /\ a.at = b.at /\ a.edge = b.edge

Unique(bs) == \A b, c \in DOMAIN bs : SamePlace(bs[b], bs[c]) => b = c

\* Every track names two boundaries that exist, of the right edges, and no boundary
\* bounds two tracks, and no boundary is there twice.
RowsOK(bs, ts) ==
    /\ bs \in [DOMAIN bs -> Boundary] /\ DOMAIN bs \subseteq BoundaryIds
    /\ ts \in [DOMAIN ts -> Track] /\ DOMAIN ts \subseteq TrackIds
    /\ Unique(bs)
    /\ \A t \in DOMAIN ts :
          /\ {ts[t].start, ts[t].end} \subseteq DOMAIN bs
          /\ bs[ts[t].start].edge = "start"
          /\ bs[ts[t].end].edge = "end"
          /\ \A u \in DOMAIN ts \ {t} :
                ts[t].start # ts[u].start /\ ts[t].end # ts[u].end

ASSUME StartsAssumption == \A start \in Starts : RowsOK(start.boundaries, start.tracks)

\* A detector reports frames of the side, and what it is.
ASSUME PassesAssumption ==
    \A pass \in Passes : \A d \in pass :
        d.at \in Frames /\ d.edge \in Edges /\ d.sources \subseteq Detectors

\* No verb under way.
Nothing == [heard |-> {}, forward |-> FALSE, shapely |-> FALSE]

Init ==
    /\ \E start \in Starts : /\ boundaries = start.boundaries
                             /\ tracks = start.tracks
    /\ unsettled = {s \in Sides : Renumbered(boundaries, tracks, s) # tracks}
    /\ \E c \in Captures : capture = [s \in Sides |-> c]
    /\ todo = <<>> /\ verb = "none" /\ edits = 0
    /\ before = Nothing

-----------------------------------------------------------------------------
(***************************************************************************)
(* Reading and writing rows.                                               *)
(***************************************************************************)

With(f, k, v) == [x \in DOMAIN f \cup {k} |-> IF x = k THEN v ELSE f[x]]
Without(f, k) == Restrict(f, DOMAIN f \ {k})

\* Row ids not in use, in order: an AUTOINCREMENT key is never used again, which
\* nothing here can see.
Ascending(S) == {p \in S \X S : p[1] < p[2]}

Fresh == LET unused == BoundaryIds \ DOMAIN boundaries
         IN  InOrder(unused, Ascending(unused))

Heard ==
    UNION {{<<capture[tracks[t].side], f>> :
              f \in {g \in Frames : Inside(boundaries, tracks, t, g)}} :
                                                               t \in DOMAIN tracks}

Forward == ~EmptyTrack(boundaries, tracks)

Shapely == Forward /\ \A s \in Sides : Disjoint(boundaries, tracks, s)

Now == [heard |-> Heard, forward |-> Forward, shapely |-> Shapely]

ByUser(s, at, edge) ==
    [side |-> s, at |-> at, edge |-> edge, prov |-> "user", locked |-> TRUE]

\* A statement that puts a row, under the id it already has or else the n-th fresh
\* one.
Put(row, n) ==
    LET there == RowAt(boundaries, row.side, row.at, row.edge)
    IN  [do |-> "put", row |-> row,
         id |-> IF there # {} THEN CHOOSE b \in there : TRUE ELSE Fresh[n]]

Insert(s, start, end) == [do |-> "insert", side |-> s, start |-> start, end |-> end]
SetEnd(t, end)        == [do |-> "setEnd", track |-> t, end |-> end]
Delete(t)             == [do |-> "delete", track |-> t]
DropIfFree(b)         == [do |-> "drop", id |-> b]
Renumber(s)           == [do |-> "renumber", side |-> s]

-----------------------------------------------------------------------------
(***************************************************************************)
(* The verbs: what each checks before its first statement.                 *)
(***************************************************************************)

\* No verb is under way and another may begin.
Idle == todo = <<>> /\ edits < MaxEdits

Begin(name, statements) ==
    /\ verb' = name /\ todo' = statements
    /\ edits' = edits + 1 /\ before' = Now
    /\ UNCHANGED <<boundaries, tracks, capture, unsettled>>

\* A verb of one statement: nothing can fall into it.
AtOnce(name) ==
    /\ verb' = name /\ edits' = edits + 1
    /\ UNCHANGED <<todo, before>>

Room(n) == Len(Fresh) >= n

\* The command line turns seconds into frames of the side's capture.
HasRate(s) == capture[s] # NoCapture

AddTrack(s, start, end) ==
    /\ Idle /\ HasRate(s) /\ start < end /\ Room(2)
    /\ LET first == Put(ByUser(s, start, "start"), 1)
           last  == Put(ByUser(s, end, "end"), 2)
       IN  Begin("add", <<first, last, Insert(s, first.id, last.id), Renumber(s)>>)

Split(t, at) ==
    LET s == tracks[t].side
        cut == Put(ByUser(s, at, "end"), 1)
        second == Put(ByUser(s, at, "start"), 2)
    IN  /\ Idle /\ HasRate(s) /\ Room(2)
        /\ StartOf(boundaries, tracks, t) < at /\ at < EndOf(boundaries, tracks, t)
        /\ Begin("split", <<cut, second, SetEnd(t, cut.id),
                            Insert(s, second.id, tracks[t].end), Renumber(s)>>)

SomethingBetween(left, right) ==
    \E t \in TracksOn(tracks, tracks[left].side) \ {left, right} :
        /\ StartOf(boundaries, tracks, t) >= EndOf(boundaries, tracks, left)
        /\ EndOf(boundaries, tracks, t) <= StartOf(boundaries, tracks, right)

\* Mutant: any two tracks in the right order are adjacent.
AdjacentFar(left, right) ==
    /\ tracks[left].side = tracks[right].side
    /\ EndOf(boundaries, tracks, left) <= StartOf(boundaries, tracks, right)

Adjacent(left, right) ==
    /\ tracks[left].side = tracks[right].side
    /\ EndOf(boundaries, tracks, left) <= StartOf(boundaries, tracks, right)
    /\ ~SomethingBetween(left, right)

\* Mutant: the left track keeps its end.
MergeShort(left, right) ==
    /\ Idle /\ Adjacent(left, right)
    /\ Begin("merge", <<Delete(right), DropIfFree(tracks[right].start),
                        Renumber(tracks[left].side)>>)

\* Mutant: the left track is extended before the right one is deleted.
MergeEarly(left, right) ==
    /\ Idle /\ Adjacent(left, right)
    /\ Begin("merge", <<SetEnd(left, tracks[right].end), Delete(right),
                        Renumber(tracks[left].side)>>)

Merge(left, right) ==
    /\ Idle /\ Adjacent(left, right)
    /\ Begin("merge", <<Delete(right), SetEnd(left, tracks[right].end),
                        DropIfFree(tracks[left].end), DropIfFree(tracks[right].start),
                        Renumber(tracks[left].side)>>)

\* Mutant: what is left keeps its numbers.
RemoveUnnumbered(t) ==
    /\ Idle
    /\ Begin("remove", <<Delete(t), DropIfFree(tracks[t].start),
                         DropIfFree(tracks[t].end)>>)

RemoveTrack(t) ==
    /\ Idle
    /\ Begin("remove", <<Delete(t), DropIfFree(tracks[t].start),
                         DropIfFree(tracks[t].end), Renumber(tracks[t].side)>>)

MoveToSide(t, to) ==
    LET from == tracks[t].side
    IN  /\ Idle /\ to # from /\ capture[from] # NoCapture /\ capture[from] = capture[to]
        /\ Begin("reassign",
                 <<[do |-> "rehome", ids |-> {tracks[t].start, tracks[t].end}, side |-> to],
                   [do |-> "adoptTrack", track |-> t, side |-> to],
                   Renumber(from), Renumber(to)>>)

\* The sides whose order a move of b may change.
Bounded(b) == {tracks[t].side : t \in Bounding(tracks, b)}

Moved(b, to) == [boundaries EXCEPT ![b].at = to]

CanMove(b, to) ==
    /\ HasRate(boundaries[b].side) /\ to # boundaries[b].at

\* move_boundary(), the one analysis may use
MoveBoundary(b, to) ==
    /\ Idle /\ CanMove(b, to) /\ ~boundaries[b].locked
    /\ Unique(Moved(b, to))
    /\ AtOnce("move")
    /\ boundaries' = Moved(b, to)
    /\ unsettled' = unsettled \cup Bounded(b)
    /\ UNCHANGED <<tracks, capture>>

MoveForced(b, to) ==
    /\ Idle /\ CanMove(b, to)
    /\ Begin("force", <<[do |-> "place", id |-> b, at |-> to],
                        [do |-> "claim", id |-> b]>>)

SetLock(b, locked) ==
    /\ Idle /\ locked # boundaries[b].locked
    /\ AtOnce("lock")
    /\ boundaries' = [boundaries EXCEPT ![b].locked = locked]
    /\ UNCHANGED <<tracks, capture, unsettled>>

DeleteBoundary(b) ==
    /\ Idle /\ ~boundaries[b].locked /\ Bounding(tracks, b) = {}
    /\ AtOnce("delete")
    /\ boundaries' = Without(boundaries, b)
    /\ UNCHANGED <<tracks, capture, unsettled>>

RenumberSide(s) ==
    /\ Idle
    /\ AtOnce("renumber")
    /\ tracks' = Renumbered(boundaries, tracks, s)
    /\ unsettled' = unsettled \ {s}
    /\ UNCHANGED <<boundaries, capture>>

\* attach() and detach(): the tracks stay as they are.
Attach(s, c) ==
    /\ Idle /\ capture[s] # c
    /\ AtOnce("attach")
    /\ capture' = [capture EXCEPT ![s] = c]
    /\ UNCHANGED <<boundaries, tracks, unsettled>>

-----------------------------------------------------------------------------
(***************************************************************************)
(* Adoption: the rows of the side and the report of the detectors go       *)
(* through the resolver; what the policy accepts is put in timeline order, *)
(* then free boundaries are paired.                                        *)
(***************************************************************************)

BoundariesOn(s) == {b \in DOMAIN boundaries : boundaries[b].side = s}

RowsOn(s) == {boundaries[b] : b \in BoundariesOn(s)}

\* adopt::observations() and what a pass reports
Observed(s, pass) ==
    {[at |-> r.at, edge |-> r.edge, prov |-> r.prov] : r \in RowsOn(s)}
    \cup UNION {{[at |-> d.at, edge |-> d.edge, prov |-> p] : p \in d.sources} :
                                                                      d \in pass}

Decisions(s, pass, sure) ==
    Adopted(Resolve(Observed(s, pass), sure), {r \in RowsOn(s) : r.locked})

\* as_new(), with Provenance::User forcing the lock
AsNew(s, d) ==
    [side |-> s, at |-> d.at, edge |-> d.edge, prov |-> d.prov,
     locked |-> d.locked \/ d.prov = "user"]

DecisionOrder(D) ==
    {p \in D \X D :
        \/ p[1].at < p[2].at
        \/ p[1].at = p[2].at /\ p[1].edge = "start" /\ p[2].edge = "end"}

Adopt(s, pass, sure) ==
    LET found   == Decisions(s, pass, sure)
        ordered == InOrder(found, DecisionOrder(found))
        \* how many of the first i have no row yet
        New(i) == Cardinality({j \in 1..i :
                     RowAt(boundaries, s, ordered[j].at, ordered[j].edge) = {}})
    IN  /\ Idle /\ HasRate(s) /\ Room(New(Len(ordered)))
        /\ Begin("adopt", [i \in 1..Len(ordered) |-> Put(AsNew(s, ordered[i]), New(i))]
                          \o <<[do |-> "pair", side |-> s]>>)

\* Mutant: only what bounds a track is left out.
FreeInside(s) ==
    InOrder({b \in BoundariesOn(s) : Bounding(tracks, b) = {}}, TimelineOrder(boundaries))

\* The boundaries pair() goes through: none that bounds a track or lies in one.
Free(s) ==
    InOrder({b \in BoundariesOn(s) :
               \A t \in TracksOn(tracks, s) :
                  /\ b \notin {tracks[t].start, tracks[t].end}
                  /\ ~Inside(boundaries, tracks, t, boundaries[b].at)},
            TimelineOrder(boundaries))

\* A start is held until an end comes, a later start replaces it: what is paired is
\* a start with an end right behind it.
Opens(free) ==
    {i \in 1..(Len(free) - 1) :
        /\ boundaries[free[i]].edge = "start"
        /\ boundaries[free[i + 1]].edge = "end"
        /\ boundaries[free[i + 1]].at - boundaries[free[i]].at >= MinTrack}

\* pair(): a track and a renumbering for each, in timeline order.
PairStatements(s) ==
    LET free  == Free(s)
        opens == InOrder(Opens(free), Ascending(Opens(free)))
    IN  [k \in 1..(2 * Len(opens)) |->
            LET i == opens[(k + 1) \div 2]
            IN  IF k % 2 = 1 THEN Insert(s, free[i], free[i + 1]) ELSE Renumber(s)]

-----------------------------------------------------------------------------
(***************************************************************************)
(* The statements.  One that breaks a UNIQUE constraint is not enabled: it *)
(* fails, which is CutShort.                                               *)
(***************************************************************************)

Next1 == Head(todo)

\* The statement under way is done and `rest` is what follows.
Proceed(rest) ==
    /\ todo' = rest
    /\ verb' = IF rest = <<>> THEN "none" ELSE verb
    /\ before' = IF rest = <<>> THEN Nothing ELSE before
    /\ UNCHANGED <<capture, edits>>

Is(do) == todo # <<>> /\ Next1.do = do

\* Mutant: the last to find a boundary gets the credit.
PutBoundarySteals ==
    /\ Is("put")
    /\ boundaries' = With(boundaries, Next1.id, [Next1.row EXCEPT !.locked =
          @ \/ (Next1.id \in DOMAIN boundaries /\ boundaries[Next1.id].locked)])
    /\ Proceed(Tail(todo)) /\ UNCHANGED <<tracks, unsettled>>

\* add_boundary_to(): a locked row keeps its provenance, none is unlocked.
PutBoundary ==
    /\ Is("put")
    /\ LET row == Next1.row
           id  == Next1.id
       IN  boundaries' =
             IF id \notin DOMAIN boundaries THEN With(boundaries, id, row)
             ELSE [boundaries EXCEPT
                     ![id].prov = IF boundaries[id].locked THEN @ ELSE row.prov,
                     ![id].locked = @ \/ row.locked]
    /\ Proceed(Tail(todo)) /\ UNCHANGED <<tracks, unsettled>>

InsertTrack ==
    /\ Is("insert")
    /\ Bounding(tracks, Next1.start) = {} /\ Bounding(tracks, Next1.end) = {}
    /\ TrackIds \ DOMAIN tracks # {}
    /\ tracks' = With(tracks, Min(TrackIds \ DOMAIN tracks),
                      [side |-> Next1.side, number |-> NextNumber(tracks, Next1.side),
                       start |-> Next1.start, end |-> Next1.end])
    /\ Proceed(Tail(todo)) /\ UNCHANGED <<boundaries, unsettled>>

\* An UPDATE of a row that is gone changes nothing.
SetEndBoundary ==
    /\ Is("setEnd")
    /\ LET t == Next1.track
       IN  IF t \in DOMAIN tracks
           THEN /\ \A u \in DOMAIN tracks \ {t} : tracks[u].end # Next1.end
                /\ tracks' = [tracks EXCEPT ![t].end = Next1.end]
           ELSE UNCHANGED tracks
    /\ Proceed(Tail(todo)) /\ UNCHANGED <<boundaries, unsettled>>

DeleteTrack ==
    /\ Is("delete")
    /\ tracks' = Without(tracks, Next1.track)
    /\ Proceed(Tail(todo)) /\ UNCHANGED <<boundaries, unsettled>>

DropBoundary ==
    /\ Is("drop")
    /\ LET b == Next1.id
       IN  IF Bounding(tracks, b) = {} /\ ~boundaries[b].locked
           THEN boundaries' = Without(boundaries, b)
           ELSE UNCHANGED boundaries
    /\ Proceed(Tail(todo)) /\ UNCHANGED <<tracks, unsettled>>

RenumberTracks ==
    /\ Is("renumber")
    /\ tracks' = Renumbered(boundaries, tracks, Next1.side)
    /\ unsettled' = unsettled \ {Next1.side}
    /\ Proceed(Tail(todo)) /\ UNCHANGED boundaries

\* move_boundary_forced(): the position, then the claim.
PlaceBoundary ==
    /\ Is("place")
    /\ Unique(Moved(Next1.id, Next1.at))
    /\ boundaries' = Moved(Next1.id, Next1.at)
    /\ unsettled' = unsettled \cup Bounded(Next1.id)
    /\ Proceed(Tail(todo)) /\ UNCHANGED tracks

ClaimBoundary ==
    /\ Is("claim")
    /\ boundaries' = [boundaries EXCEPT ![Next1.id].prov = "user",
                                        ![Next1.id].locked = TRUE]
    /\ Proceed(Tail(todo)) /\ UNCHANGED <<tracks, unsettled>>

\* move_to_side(): both boundaries in one statement, then the track.
RehomeBoundaries ==
    /\ Is("rehome")
    /\ boundaries' = [b \in DOMAIN boundaries |->
                         IF b \in Next1.ids THEN [boundaries[b] EXCEPT !.side = Next1.side]
                                            ELSE boundaries[b]]
    /\ Unique(boundaries')
    /\ Proceed(Tail(todo)) /\ UNCHANGED <<tracks, unsettled>>

RehomeTrack ==
    /\ Is("adoptTrack")
    /\ tracks' = [tracks EXCEPT ![Next1.track].side = Next1.side,
                                ![Next1.track].number = NextNumber(tracks, Next1.side)]
    /\ Proceed(Tail(todo)) /\ UNCHANGED <<boundaries, unsettled>>

PairFree ==
    /\ Is("pair")
    /\ Proceed(PairStatements(Next1.side))
    /\ UNCHANGED <<boundaries, tracks, unsettled>>

Statement ==
    \/ PutBoundary \/ InsertTrack \/ SetEndBoundary \/ DeleteTrack \/ DropBoundary
    \/ RenumberTracks \/ PlaceBoundary \/ ClaimBoundary \/ RehomeBoundaries
    \/ RehomeTrack \/ PairFree

\* A kill, or a statement that fails.
CutShort ==
    /\ todo # <<>>
    /\ unsettled' = unsettled \cup {todo[i].side : i \in {j \in DOMAIN todo :
                                                     todo[j].do = "renumber"}}
    /\ todo' = <<>> /\ verb' = "none" /\ before' = Nothing
    /\ UNCHANGED <<boundaries, tracks, capture, edits>>

\* Everything the bound allows is done.
Over == todo = <<>> /\ edits = MaxEdits /\ UNCHANGED vars

Verb ==
    \/ \E s \in Sides, a, z \in Frames : AddTrack(s, a, z)
    \/ \E t \in DOMAIN tracks : \/ \E at \in Frames : Split(t, at)
                                \/ \E u \in DOMAIN tracks : Merge(t, u)
                                \/ RemoveTrack(t)
                                \/ \E s \in Sides : MoveToSide(t, s)
    \/ \E b \in DOMAIN boundaries : \/ \E to \in Frames : MoveBoundary(b, to)
                                                          \/ MoveForced(b, to)
                                    \/ \E l \in BOOLEAN : SetLock(b, l)
                                    \/ DeleteBoundary(b)
    \/ \E s \in Sides : \/ RenumberSide(s)
                        \/ \E c \in Captures \cup {NoCapture} : Attach(s, c)
                        \/ \E pass \in Passes, d \in Detectors : Adopt(s, pass, d)

Next == Verb \/ Statement \/ CutShort \/ Over

Spec == Init /\ [][Next]_vars

-----------------------------------------------------------------------------
(***************************************************************************)
(* Properties.                                                             *)
(***************************************************************************)

TypeOK ==
    /\ RowsOK(boundaries, tracks)
    /\ capture \in [Sides -> Captures \cup {NoCapture}]
    /\ edits \in 0..MaxEdits /\ unsettled \subseteq Sides

\* The verb a step belongs to.
Doing == IF todo = <<>> THEN verb' ELSE verb

\* "User-confirmed/locked boundaries shall not be moved by automatic analysis": a
\* locked boundary keeps its place, its attribution and its lock through every
\* statement of every verb; only a forced move moves it, only set_lock unlocks it,
\* only a reassignment takes it to another side.
LockedStays ==
    [][\A b \in DOMAIN boundaries :
          boundaries[b].locked =>
             /\ b \in DOMAIN boundaries'
             /\ boundaries'[b].edge = boundaries[b].edge
             /\ Doing = "lock" \/ boundaries'[b].locked
             /\ Doing = "reassign" \/ boundaries'[b].side = boundaries[b].side
             /\ Doing = "force" \/ /\ boundaries'[b].at = boundaries[b].at
                                   /\ boundaries'[b].prov = boundaries[b].prov]_vars

\* "Contiguous after any edit, which is what renumbering maintains": between verbs
\* the tracks of a side are numbered 1..n in timeline order, unless a boundary moved
\* or a verb was cut short there.
RestIsNumbered ==
    todo = <<>> => \A s \in Sides \ unsettled :
                       Renumbered(boundaries, tracks, s) = tracks

\* Each track's boundaries are on its side.
Whole ==
    \A t \in DOMAIN tracks :
        {boundaries[tracks[t].start].side, boundaries[tracks[t].end].side}
            = {tracks[t].side}

\* An edit gives and takes no audio: when only the renumbering of a split or a
\* reassignment is left, the tracks cover what they covered before it, after a merge
\* also what lay between the two, after a removal nothing else.
EditKeepsAudio ==
    (todo # <<>> /\ before.forward /\ \A i \in DOMAIN todo : todo[i].do = "renumber") =>
        /\ verb \in {"split", "reassign"} => Heard = before.heard
        /\ verb = "merge" => before.heard \subseteq Heard
        /\ verb = "remove" => Heard \subseteq before.heard

\* At no statement of a split, a merge or a removal do tracks overlap or run backwards
\* that did not when it began, so a kill there leaves none; an addition, an adoption
\* and a reassignment make none that runs backwards.
EditKeepsShape ==
    todo # <<>> =>
        /\ verb \in {"split", "merge", "remove"} => (before.shapely => Shapely)
        /\ verb # "force" => (before.forward => Forward)

\* On tracks that were disjoint and are whole, a split, a merge or an adoption does not
\* stop half way on a UNIQUE constraint of the schema.
NoHalfEdit ==
    (todo # <<>> /\ before.shapely /\ Whole /\ verb \in {"split", "merge", "adopt"}) =>
        /\ Is("insert") => Bounding(tracks, Next1.start) \cup Bounding(tracks, Next1.end)
                               = {}
        /\ Is("setEnd") => \A t \in DOMAIN tracks :
                              t # Next1.track => tracks[t].end # Next1.end

\* check_topology() compares neighbours; on tracks that run forward that finds an
\* overlap whenever there is one.
OverlapIsFound ==
    Forward => \A s \in Sides : Overlapping(boundaries, tracks, s)
                                   <=> ~Disjoint(boundaries, tracks, s)

\* What an edit leaves is the side it should be: no audio is lost or doubled, nothing
\* overlaps, no verb stops half way, numbers run in order, and what is wrong all the
\* same check_topology() finds.
EditKeepsTracks ==
    EditKeepsAudio /\ EditKeepsShape /\ NoHalfEdit /\ RestIsNumbered /\ OverlapIsFound

\* Adoption starts and ends no track inside one that is there, so what a merge joined
\* is not split again, and makes none that is too short.
AdoptionKeepsOut ==
    (Is("insert") /\ verb = "adopt") =>
        LET start == boundaries[Next1.start].at
            end   == boundaries[Next1.end].at
        IN  /\ end - start >= MinTrack
            /\ \A t \in TracksOn(tracks, Next1.side) :
                  /\ ~Inside(boundaries, tracks, t, start)
                  /\ ~Inside(boundaries, tracks, t, end)
=============================================================================
