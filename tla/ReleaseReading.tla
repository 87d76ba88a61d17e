--------------------------- MODULE ReleaseReading ---------------------------
(***************************************************************************)
(* How a provider's answer becomes a release: positions.rs, discogs.rs,    *)
(* musicbrainz.rs and release.rs of crates/metadata/src.                   *)
(*                                                                         *)
(* A row of a tracklist is what the readers tell apart: whether it is a    *)
(* heading, its title, Blank or a number, what its position says and how   *)
(* long it is.  A position says a letter and a number (A1, b-2), a run of one   *)
(* letter (AA), a bare number, or nothing that can be read.                *)
(***************************************************************************)
EXTENDS Vinyl, FiniteSets
LOCAL INSTANCE FiniteSetsExt

Blank == 0

Unread == [how |-> "unreadable", position |-> Position(NoSide, 0)]
Exact(side, number) == [how |-> "exact", position |-> Position(side, number)]
Bare == [how |-> "numeric", position |-> Position(NoSide, 0)]

----------------------------------------------------------------------------
(* positions.rs                                                            *)

FirstSideOf(medium) == OnDisc(IF medium = 0 THEN 1 ELSE medium, "first")

\* Mutant: the medium's own first letter is offset again.
SideForShifted(letter, medium) ==
  LET first == FirstSideOf(medium)
  IN  IF first = NoSide THEN NoSide
      ELSE IF letter > first THEN letter ELSE FromIndex(first + letter)

(***************************************************************************)
(* side_for: a letter at or past the medium's first side is taken as it    *)
(* is written, an earlier one counts from the medium's first side.         *)
(***************************************************************************)
SideFor(letter, medium) ==
  LET first == FirstSideOf(medium)
  IN  IF first = NoSide THEN NoSide
      ELSE IF letter >= first THEN letter ELSE FromIndex(first + letter)

(* read: a run of n letters is number n; zero is no number.                *)
ReadPosition(written, medium) ==
  CASE written.kind = "number" /\ written.number > 0 -> Bare
    [] written.kind \in {"lettered", "run"} /\ written.number > 0 ->
         LET side == SideFor(written.letter, medium)
         IN  IF side = NoSide THEN Unread ELSE Exact(side, written.number)
    [] OTHER -> Unread

(***************************************************************************)
(* split_numeric: the first half of a numbered tracklist on the medium's   *)
(* first side, an odd track with it; nothing past the last side.           *)
(***************************************************************************)
SplitNumeric(count, medium) ==
  LET first  == FirstSideOf(medium)
      second == IF first = NoSide THEN NoSide ELSE NextSide(first)
      half   == (count + 1) \div 2
  IN  IF second = NoSide THEN <<>>
      ELSE <<>> \o [i \in 1 .. count |->
             IF i <= half THEN Position(first, i) ELSE Position(second, i - half)]

----------------------------------------------------------------------------
(* The tail tracks_of of both providers shares.                            *)

None == Position(NoSide, 0)

Entry(row, medium) ==
  [title    |-> row.title,
   resolved |-> ReadPosition(row.written, medium).position,
   numeric  |-> ReadPosition(row.written, medium).how = "numeric",
   seconds  |-> row.seconds]

(***************************************************************************)
(* Only a tracklist numbered throughout is split; zip stops at the shorter *)
(* of the two, so where split_numeric gives nothing nothing is resolved.   *)
(***************************************************************************)
Inferred(entries, medium) ==
  LET split == SplitNumeric(Len(entries), medium)
  IN  IF entries # <<>> /\ (\A i \in DOMAIN entries : entries[i].numeric)
      THEN [i \in DOMAIN entries |->
              IF i \in DOMAIN split THEN [entries[i] EXCEPT !.resolved = split[i]]
              ELSE entries[i]]
      ELSE entries

Members(seq) == {seq[i] : i \in DOMAIN seq}

(* Those of a sequence that are wanted: SelectSeq, as a recursive function. *)
Those(seq, wanted) ==
  LET upto[n \in 0 .. Len(seq)] ==
        IF n = 0 THEN <<>>
        ELSE IF seq[n] \in wanted THEN Append(upto[n - 1], seq[n]) ELSE upto[n - 1]
  IN  upto[Len(seq)]

(* A stable sort by a key, smallest first, as slice::sort_by_key.          *)
StableBy(seq, Key(_)) ==
  LET before(j, i) == Key(seq[j]) < Key(seq[i]) \/ (Key(seq[j]) = Key(seq[i]) /\ j < i)
      place(i) == Cardinality({j \in DOMAIN seq : before(j, i)}) + 1
  IN  [k \in DOMAIN seq |-> seq[CHOOSE i \in DOMAIN seq : place(i) = k]]

----------------------------------------------------------------------------
(* discogs.rs                                                              *)

(* tracks_of: headings and rows without a title are passed over.           *)
DiscogsTracks(rows) ==
  LET kept == Those(rows, {row \in Members(rows) : ~row.heading /\ row.title # Blank})
  IN  Inferred([i \in DOMAIN kept |-> Entry(kept[i], 1)], 1)

DiscOf(entry) == IF entry.resolved = None THEN 1 ELSE Disc(entry.resolved.side)

On(entries, disc) == Those(entries, {e \in Members(entries) : DiscOf(e) = disc})

Larger(a, b) == IF a >= b THEN a ELSE b

\* Mutant: the tracklist may not name more discs than the format does.
DiscogsMediaClaimed(quantity, rows) ==
  LET entries == DiscogsTracks(rows)
      discs   == Larger(quantity, 1)
      media   == [d \in 1 .. discs |-> [position |-> d, tracks |-> On(entries, d)]]
  IN  Those(media, {m \in Members(media) : m.tracks # <<>>})

(***************************************************************************)
(* media_of: the tracks go to the disc their side is on, an unresolved one *)
(* to the first; discs the format did not claim are added, and discs that  *)
(* nothing is on are dropped.                                              *)
(***************************************************************************)
DiscogsMedia(quantity, rows) ==
  LET entries == DiscogsTracks(rows)
      named   == {DiscOf(entries[i]) : i \in DOMAIN entries}
      discs   == CHOOSE d \in named \cup {quantity, 1} :
                   \A e \in named \cup {quantity, 1} : d >= e
      media   == [d \in 1 .. discs |-> [position |-> d, tracks |-> On(entries, d)]]
  IN  Those(media, {m \in Members(media) : m.tracks # <<>>})

(* artwork_of: what has no address goes, the primary images come first.    *)
DiscogsArtwork(images) ==
  LET addressed == SelectSeq(images, LAMBDA i : i.url # "")
  IN  StableBy(addressed, LAMBDA i : IF i.primary THEN 0 ELSE 1)

----------------------------------------------------------------------------
(* musicbrainz.rs                                                          *)

(***************************************************************************)
(* media_of, tracks_of: a medium says its own place (0 when it does not,   *)
(* and then its order is used), and its rows are read at that place; every *)
(* row is kept, without a title too.                                       *)
(***************************************************************************)
MusicBrainzTracks(rows, medium) ==
  Inferred([i \in DOMAIN rows |-> Entry(rows[i], medium)], medium)

MusicBrainzMedia(media) ==
  [i \in DOMAIN media |->
     LET place == IF media[i].place = 0 THEN i ELSE media[i].place
     IN  [position |-> place, tracks |-> MusicBrainzTracks(media[i].rows, place)]]

(* genre_names: the most voted first, equals in the order they came.       *)
GenreNames(genres) ==
  StableBy(SelectSeq(genres, LAMBDA g : g.name # ""), LAMBDA g : -g.count)

(* artwork_of: front, then back, where the archive says it has them.       *)
MusicBrainzArtwork(held) ==
  SelectSeq(<<[url |-> "front", primary |-> TRUE], [url |-> "back", primary |-> FALSE]>>,
            LAMBDA i : i.url \in held)

(* media_summary: each format once, in the order first seen, with its count. *)
MediaSummary(formats) ==
  LET first(i) == \A j \in 1 .. i - 1 : formats[j] # formats[i]
      shown == SelectSeq([i \in DOMAIN formats |->
                 [format |-> formats[i], fresh |-> first(i),
                  count |-> Cardinality({j \in DOMAIN formats : formats[j] = formats[i]})]],
                 LAMBDA m : m.fresh /\ (m.format # "" \/ m.count > 1))
  IN  [i \in DOMAIN shown |-> [format |-> shown[i].format, count |-> shown[i].count]]

----------------------------------------------------------------------------
(* release.rs                                                              *)

Tracks(media) ==
  LET upto[n \in 0 .. Len(media)] ==
        IF n = 0 THEN <<>> ELSE upto[n - 1] \o media[n].tracks
  IN  upto[Len(media)]

(* side_tracks: a stable sort by number.                                   *)
SideTracks(media, side) ==
  StableBy(SelectSeq(Tracks(media), LAMBDA e : e.resolved.side = side),
           LAMBDA e : e.resolved.number)

Sides(media) ==
  LET tracks == Tracks(media)
  IN  {tracks[i].resolved.side : i \in DOMAIN tracks} \ {NoSide}

(* side_seconds: no total unless every track has a length (-1 is none).    *)
SideSeconds(media, side) ==
  LET on == SideTracks(media, side)
  IN  IF on = <<>> \/ (\E i \in DOMAIN on : on[i].seconds = -1) THEN -1
      ELSE MapThenSumSet(LAMBDA i : on[i].seconds, DOMAIN on)
=============================================================================
