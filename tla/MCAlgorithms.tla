---------------------------- MODULE MCAlgorithms ----------------------------
(***************************************************************************)
(* The pure algorithms over bounded inputs.  A state is one input of one   *)
(* subject, before and after it was evaluated; every property compares     *)
(* what the code computes with a definition of what it is for, written     *)
(* without the algorithm.                                                  *)
(***************************************************************************)
EXTENDS ReleaseReading

G == INSTANCE GenreTable
P == INSTANCE ProviderSearch
C == INSTANCE CoverArt
D == INSTANCE TrackDetector
M == INSTANCE MusicPath
B == INSTANCE BlockReader
W == INSTANCE WaveformDrawing
A == INSTANCE AudioPath WITH StandardRates <- 1 .. 3, Preferred <- 2

VARIABLES subject, input, output

vars == <<subject, input, output>>

----------------------------------------------------------------------------
(* Tracklists.                                                             *)

Written == {[kind |-> "lettered", letter |-> l, number |-> 1] : l \in 0 .. 3}
           \cup {[kind |-> "run", letter |-> 0, number |-> 2],
                 [kind |-> "number", letter |-> 0, number |-> 7],
                 [kind |-> "unreadable", letter |-> 0, number |-> 0]}

Row(heading, title, w) == [heading |-> heading, title |-> title, written |-> w, seconds |-> 1]

BareNumber == [kind |-> "number", letter |-> 0, number |-> 7]

RowsAt(i) == {Row(FALSE, i, w) : w \in Written}
             \cup {Row(TRUE, i, BareNumber), Row(FALSE, Blank, BareNumber)}

Tracklists == UNION {{t \in [1 .. n -> UNION {RowsAt(i) : i \in 1 .. n}] :
                        \A i \in 1 .. n : t[i].title \in {Blank, i}} : n \in 0 .. 3}

TracklistInputs == [quantity : 0 .. 2, rows : Tracklists]

(* A numbered side of a disc, as each provider may letter it.              *)
LetteringInputs ==
  [medium : 1 .. 14, face : Faces, straight : BOOLEAN]

----------------------------------------------------------------------------
(* Genre tables: two words, each in two spellings.                         *)

Names  == [word : {"jazz", "funk"}, spelt : {1, 2}]
Asked  == Names \cup [word : {"jazz", "folk"}, spelt : {3}]
Plain(w) == [word |-> w, spelt |-> 1]
GenreRow == {[key |-> n, targets |-> t] :
               n \in Names, t \in {<<>>, <<Plain("jazz")>>, <<Plain("soul"), Plain("funk")>>}}

GenreInputs ==
  [table : UNION {[1 .. n -> GenreRow] : n \in 0 .. 2}, names : {<<a, b>> : a \in Asked, b \in Asked}]

----------------------------------------------------------------------------
(* Searches, as the command line can ask them.                             *)

SearchInputs ==
  [query   : [criteria : {{}, {"artist"}, {"barcode"}, {"barcode", "year"}},
              vinyl : BOOLEAN, limit : {1, 2}],
   which   : {"both", "musicbrainz", "discogs"},
   world   : [offline : BOOLEAN, token : BOOLEAN],
   answers : [{"musicbrainz", "discogs"} -> {P!Down, P!Broken, 0, 3}]]

----------------------------------------------------------------------------
(* JPEG files of up to three segments.                                     *)

Segments == {[marker |-> m, length |-> 9, size |-> s, whole |-> w] :
               m \in {"SOF0", "SOF2", "DHT"}, s \in {<<3, 4>>, <<0, 4>>}, w \in BOOLEAN}
            \cup {[marker |-> m, length |-> n, size |-> <<0, 0>>, whole |-> TRUE] :
               m \in {"APP", "RST", "fill", "junk"}, n \in {1, 9}}

Jpegs == UNION {[1 .. n -> Segments] : n \in 0 .. 3}

----------------------------------------------------------------------------
(* Sides, as a detector follows them: the level of every window of two     *)
(* frames, the last of which may be a frame short.  As with the defaults,  *)
(* a track is a whole number of windows and the lag longer than one; the   *)
(* last settings pad by more than the shortest silence.                    *)

Config(gap, silence, sound, pad) ==
  [enter |-> 2, leave |-> 1, gap_fill |-> gap, min_silence |-> silence, min_sound |-> sound,
   pre |-> pad, post |-> pad, adaptive |-> FALSE, smoothing |-> 1, flatness |-> 1,
   min_transient |-> 3]

FrameBytes == 2

(* Pieces of so many bytes, and what is left over.                         *)
Cut(bytes, piece) ==
  [k \in 1 .. (bytes + piece - 1) \div piece |-> W!Earlier(piece, bytes - (k - 1) * piece)]

HeardSides ==
  {[trace |-> [levels |-> l, flat |-> l, total |-> 2 * Len(l) - less, window |-> 2], cfg |-> c] :
     l \in UNION {[1 .. n -> 0 .. 2] : n \in 4 .. 7}, less \in {0, 1},
     c \in {Config(1, 6, 4, 1), Config(1, 2, 8, 0), Config(0, 2, 2, 2)}}

SideInputs ==
  {[trace |-> s.trace, cfg |-> s.cfg, pieces |-> Cut(FrameBytes * s.trace.total, n)] :
     s \in HeardSides, n \in {3, 5}}

----------------------------------------------------------------------------
(* Emissions and transitions of a two-state model.                         *)

Likely == [M!States -> {-3, 0}]

PathInputs ==
  [emissions : UNION {[1 .. n -> Likely] : n \in 1 .. 4},
   log       : {l \in [M!States -> [M!States -> {-2, -1, 0}]] : l["gap"]["gap"] = 0},
   bias      : {0, 1}]

----------------------------------------------------------------------------
(* Captures to play: three blocks a channel, of two channels, written one  *)
(* behind the other; up to one row lost, moved, cut or short of samples.   *)
(* A sample is told by its channel and its frame.                          *)

BlockRow(c, q, at, n, held) ==
  [channel |-> c, sequence |-> q, start |-> at, frames |-> n,
   samples |-> [k \in 1 .. held |-> <<c, at + k - 1>>]]

RowsOfBlock(q, at, n) == {BlockRow(c, q, at, n, n) : c \in 0 .. 1}

Whole == RowsOfBlock(0, 0, 3) \cup RowsOfBlock(1, 3, 2) \cup RowsOfBlock(2, 5, 3)

Damaged(row) ==
  {{}, {BlockRow(row.channel, row.sequence, row.start, row.frames, row.frames - 1)},
   {BlockRow(row.channel, row.sequence, row.start, row.frames - 1, row.frames - 1)},
   {BlockRow(row.channel, row.sequence, row.start + 1, row.frames, row.frames)},
   {BlockRow(row.channel, row.sequence, W!Later(row.start - 1, 0), row.frames, row.frames)}}

Projects == {Whole} \cup UNION {{(Whole \ {row}) \cup d : d \in Damaged(row)} : row \in Whole}

(* A span and where playback is sent in it, in fills of so many frames.    *)
PlayInputs ==
  [project : {[rows |-> r, channels |-> 2, frames |-> 8] : r \in Projects},
   span    : {[start |-> 0, end |-> 8], [start |-> 2, end |-> 99], [start |-> 4, end |-> 6]},
   seeks   : {<<0>>, <<4, 3>>, <<7, 1>>, <<9, 2>>},
   room    : {1, 2, 5}]

(* Every seek, and then fills until there is no more.                      *)
FilledOn(i, last) ==
  LET more == B!Fill(i.project, last.reader, i.room)
  IN  IF last.ended # "no" THEN last ELSE [more EXCEPT !.given = last.given \o @]

PlayedFrom(i, reader) ==
  LET fill[n \in 0 .. i.project.frames] ==
        IF n = 0 THEN B!Fill(i.project, reader, i.room) ELSE FilledOn(i, fill[n - 1])
  IN  fill[i.project.frames]

(* One fill after each seek but the last, so that a block is in hand.      *)
SentOn(i, reader, n) == B!Fill(i.project, B!Seek(reader, i.seeks[n]), 1).reader

Played(i) ==
  LET last == Len(i.seeks)
      reader[n \in 0 .. last - 1] ==
        IF n = 0 THEN B!Open(i.project, i.span) ELSE SentOn(i, reader[n - 1], n)
      sent == B!Seek(reader[last - 1], i.seeks[last])
  IN  [from |-> sent.cursor, fill |-> PlayedFrom(i, sent)]

----------------------------------------------------------------------------
(* Drawings: a side that is silent but for one frame, in blocks of four.   *)

Loud(n, at, way) == [k \in 1 .. n |-> IF k - 1 = at THEN way ELSE 0]

Drawn(samples, stored) ==
  [b \in 1 .. (Len(samples) + 3) \div 4 |->
     [start   |-> 4 * (b - 1),
      samples |-> SubSeq(samples, 4 * (b - 1) + 1, W!Earlier(4 * b, Len(samples))),
      stored  |-> stored]]

DrawInputs ==
  [frames  : {8, 11}, at : 0 .. 10, way : {-1, 1}, stored : BOOLEAN,
   levels  : {[block |-> 4, summary64k |-> 3, summary256 |-> 2],
              [block |-> 0, summary64k |-> 3, summary256 |-> 2]},
   request : [start : {0, 1, 3}, end : {8, 11, 15}, pixels : 0 .. 6]]

----------------------------------------------------------------------------
(* Captures: two devices that share a name, an id or a part of one, and    *)
(* what the system reports of the stream.                                  *)

Ranges == {[format |-> "S24", channels |-> 2, low |-> 1, high |-> 2],
           [format |-> "S16", channels |-> 2, low |-> 1, high |-> 3],
           [format |-> "F32", channels |-> 4, low |-> 3, high |-> 3],
           [format |-> "other", channels |-> 2, low |-> 1, high |-> 3]}

Device(key, id, host, prefix, virtual, configs) ==
  [key |-> key, id |-> id, name |-> "deck", within |-> {"de"}, host |-> host, prefix |-> prefix,
   transport |-> A!Classify(host, prefix, virtual), configs |-> configs]

Deck(prefix, virtual, configs) == Device("k1", "i1", "alsa", prefix, virtual, configs)
Twins == {{}, {Device("k2", "i1", "jack", "hw", FALSE, Ranges)},
          {Device("k2", "i2", "alsa", "hw", FALSE, Ranges)}}

Reports == [rate : {{}, {2}, {3}}, channels : {{}, {2}, {4}}, format : {{}, {"S24"}, {"S16"}}]

CaptureInputs ==
  [devices : {{Deck(prefix, virtual, configs)} \cup twin :
                prefix \in {"hw", "plughw"}, virtual \in BOOLEAN,
                configs \in {Ranges, {c \in Ranges : c.format = "F32"}}, twin \in Twins},
   query   : {"k1", "i1", "deck", "de"},
   request : [rate : {{}, {3}}, channels : {{}, {4}}, format : {{}, {"S24"}},
              mode : {"exclusive", "shared"}],
   os      : [closed : {FALSE}, report : Reports]
             \cup [closed : {TRUE}, report : {[rate |-> {}, channels |-> {}, format |-> {}]}],
   clean   : BOOLEAN]

(* Playing: every material on a device of two ranges.                      *)
Samples(format) ==
  [bits : {b \in {8, 16, 24, 32} : b <= A!Bits(format)},
   loud : IF format = "Float32" THEN BOOLEAN ELSE {FALSE}]

OutputRanges == {{[format |-> f, channels |-> n, low |-> 1, high |-> 2],
                  [format |-> g, channels |-> k, low |-> 2, high |-> 3]} :
                   f \in A!Formats, g \in A!Formats, n \in {1, 2}, k \in {2, 4}}

OutputInputs ==
  [configs : OutputRanges, rate : {1, 2},
   side    : UNION {{[format |-> s, frame |-> f] : f \in UNION {[1 .. n -> Samples(s)] : n \in 1 .. 2}} :
                      s \in A!StorageFormats}]

Material(i) == [rate |-> i.rate, format |-> i.side.format, channels |-> Len(i.side.frame)]

PlayedOn(i) ==
  {[conversion |-> A!ConversionOf(Material(i), p),
    heard      |-> A!Apply(A!ConversionOf(Material(i), p), i.side.frame)] :
     p \in A!ChooseToPlay(i.configs, Material(i), {})}

----------------------------------------------------------------------------
Inputs(s) ==
  CASE s = "tracklist" -> TracklistInputs
    [] s = "lettering" -> LetteringInputs
    [] s = "genres"    -> GenreInputs
    [] s = "search"    -> SearchInputs
    [] s = "jpeg"      -> Jpegs
    [] s = "side"      -> SideInputs
    [] s = "path"      -> PathInputs
    [] s = "play"      -> PlayInputs
    [] s = "drawing"   -> DrawInputs
    [] s = "capture"   -> CaptureInputs
    [] s = "output"    -> OutputInputs

Subjects == {"tracklist", "lettering", "genres", "search", "jpeg", "side", "path", "play", "drawing",
             "capture", "output"}

Evaluated(s, i) ==
  CASE s = "tracklist" -> DiscogsMedia(i.quantity, i.rows)
    [] s = "lettering" -> SideFor(IF i.straight THEN OnDisc(i.medium, i.face)
                                  ELSE OnDisc(1, i.face), i.medium)
    [] s = "genres"    -> G!NormaliseAll(i.table, i.names)
    [] s = "search"    -> P!RunSearch(i.query, i.which, i.world, i.answers)
    [] s = "jpeg"      -> C!JpegDimensions(i)
    [] s = "side"      -> [live  |-> D!Announced(i.trace, i.cfg, i.pieces, FrameBytes),
                           level |-> D!ScanLevel(D!Refined(i.trace, FrameBytes), i.cfg),
                           other |-> D!ScanSpectrum(D!Refined(i.trace, FrameBytes), i.cfg)]
    [] s = "path"      -> M!Viterbi(i.emissions, i.log, i.bias)
    [] s = "play"      -> Played(i)
    [] s = "drawing"   -> W!Read(i.levels, Drawn(Loud(i.frames, i.at, i.way), i.stored), i.request)
    [] s = "capture"   -> A!Captures(i.devices, i.query, i.request, i.os, i.clean)
    [] s = "output"    -> PlayedOn(i)

Init == subject \in Subjects /\ input \in {<<i>> : i \in Inputs(subject)} /\ output = <<>>

Evaluate ==
  /\ output = <<>>
  /\ output' = <<Evaluated(subject, input[1])>>
  /\ UNCHANGED <<subject, input>>

Spec == Init /\ [][Evaluate]_vars

Done(s) == subject = s /\ output # <<>>

----------------------------------------------------------------------------
(***************************************************************************)
(* Reading a release loses no track, doubles none and leaves the order of  *)
(* each disc alone; a track is on the disc its side belongs to and discs   *)
(* are numbered by their place on the record.  Whichever way a provider    *)
(* letters the sides of a later disc, straight through the release or from *)
(* A on every disc, the letter lands on that disc and that face, or on     *)
(* nothing past side Z.  discogs.rs:435-550, positions.rs:129-148.         *)
(***************************************************************************)
TracklistIsKept ==
  /\ Done("tracklist") =>
       LET media == output[1]
           rows  == input[1].rows
           kept  == {i \in DOMAIN rows : ~rows[i].heading /\ rows[i].title # Blank}
           on(m) == media[m].tracks
           all   == Tracks(media)
       IN  /\ {all[i].title : i \in DOMAIN all} = kept
           /\ Len(all) = Cardinality(kept)
           /\ \A m \in DOMAIN media :
                /\ \A i \in 2 .. Len(on(m)) : on(m)[i - 1].title < on(m)[i].title
                /\ \A i \in DOMAIN on(m) :
                     on(m)[i].resolved # None => Disc(on(m)[i].resolved.side) = media[m].position
  /\ Done("lettering") =>
       LET i == input[1]
       IN  IF i.medium <= MaxSides \div SidesPerDisc
           THEN Disc(output[1]) = i.medium /\ Face(output[1]) = i.face
           ELSE output[1] = NoSide

Foremost(places) == CHOOSE x \in places : \A y \in places : x <= y
Hindmost(places) == CHOOSE x \in places : \A y \in places : x >= y

(***************************************************************************)
(* What genres come to: nothing twice under any spelling; each is what the *)
(* last row of a spelling the table has says of it, the first spelling     *)
(* standing for one it does not have, or the name itself.  genres.rs:125.  *)
(***************************************************************************)
GenresAreSettled ==
  Done("genres") =>
    LET out   == output[1]
        table == input[1].table
        listed == {i \in DOMAIN table : table[i].targets # <<>>}
        means(n) ==
          LET same == {i \in listed : table[i].key = n}
              like == {i \in listed : table[i].key.word = n.word}
              first == table[Foremost(like)].key
              rows  == IF same # {} THEN same ELSE {i \in like : table[i].key = first}
          IN  IF like = {} THEN {n.word}
              ELSE {table[Hindmost(rows)].targets[k].word :
                      k \in DOMAIN table[Hindmost(rows)].targets}
    IN  /\ \A i, j \in DOMAIN out : out[i].word = out[j].word => i = j
        /\ {out[i].word : i \in DOMAIN out} = means(input[1].names[1]) \cup means(input[1].names[2])

(***************************************************************************)
(* What the providers' answers come to: nothing of a tracklist or of a     *)
(* list of genres is lost, doubled or moved to where it does not belong.   *)
(***************************************************************************)
ReleaseIsRead == TracklistIsKept /\ GenresAreSettled

(***************************************************************************)
(* No search asks a provider for everything it has: every request sent     *)
(* names something to look for besides the format, a provider that needs a *)
(* token is not asked without one, and a reply is never longer than asked. *)
(* musicbrainz.rs:294-318, discogs.rs:304-331, cli/metadata.rs:240.        *)
(***************************************************************************)
RequestsAreConstrained ==
  Done("search") =>
    \A k \in DOMAIN output[1].replies :
      LET reply == output[1].replies[k]
      IN  /\ reply.sent # P!NoRequest => reply.sent.terms # {}
          /\ reply.sent.provider = "discogs" => input[1].world.token
          /\ reply.found <= input[1].query.limit

(***************************************************************************)
(* The size stored with a cover is that of the first frame header in an    *)
(* unbroken chain of segments, never bytes of a table that looks like one. *)
(* project/release.rs:407-449.                                             *)
(***************************************************************************)
CoverSizeIsItsFrames ==
  (Done("jpeg") /\ output[1] # <<0, 0>>) =>
      \E i \in DOMAIN input[1] :
        /\ input[1][i].marker \in {"SOF0", "SOF2"} /\ input[1][i].whole
        /\ output[1] = input[1][i].size
        /\ \A j \in 1 .. i - 1 : input[1][j].marker \notin {"SOF0", "SOF2", "junk"}

(***************************************************************************)
(* The tracks of a side are in order, do not overlap, hold something and   *)
(* lie inside it, and no frame is lost however its bytes were cut.  What   *)
(* was announced during the capture is a boundary of theirs, however the   *)
(* side went on and whatever its short last window held: no merge, short   *)
(* burst or padding of a neighbour moves it any more.  Where the padding on both sides is longer than the shortest  *)
(* silence it can, and that is not claimed.                                *)
(* features.rs:355-465, silence.rs:186-221, regions.rs:324-386,            *)
(* detection.rs:268-300.                                                   *)
(***************************************************************************)
TracksAreSettled ==
  Done("side") =>
    LET cfg   == input[1].cfg
        final == D!BoundariesOf(output[1].level)
        told  == output[1].live.told
    IN  /\ output[1].live.windows.frames = input[1].trace.total
        /\ D!Flush(output[1].live.windows).full = Len(input[1].trace.levels)
        /\ \A tracks \in {output[1].level, output[1].other} :
             \A i \in DOMAIN tracks :
               /\ tracks[i].start < tracks[i].end /\ tracks[i].end <= input[1].trace.total
               /\ i > 1 => tracks[i - 1].end <= tracks[i].start
        /\ cfg.pre + cfg.post <= cfg.min_silence =>
             \A k \in DOMAIN told : told[k] \in {final[j] : j \in DOMAIN final}

(***************************************************************************)
(* No path of states is likelier than the one that is decoded.             *)
(* hmm.rs:315-359.                                                         *)
(***************************************************************************)
Likelihood(i, path) ==
  LET along[t \in 1 .. Len(i.emissions)] ==
        IF t = 1 THEN M!FirstScore(i.emissions, i.bias)[path[1]]
        ELSE along[t - 1] + i.log[path[t - 1]][path[t]] + i.emissions[t][path[t]]
  IN  along[Len(i.emissions)]

ViterbiIsBest ==
  Done("path") =>
    \A path \in [1 .. Len(input[1].emissions) -> M!States] :
      Likelihood(input[1], path) <= Likelihood(input[1], output[1])

(***************************************************************************)
(* Playback hands out every frame from where it was sent to the end of the *)
(* span, each once, in order and with the sample of every channel, or      *)
(* stops with a refusal at the first frame no whole block holds: what is   *)
(* missing is never skipped and never invented.  pcm.rs:203-437.           *)
(***************************************************************************)
SpanIsExact ==
  Done("play") =>
    LET rows == input[1].project.rows
        from == output[1].from
        given == output[1].fill.given
        end  == B!ClampTo(input[1].span, input[1].project.frames).end
        (* The block that ought to hold a frame: the last that starts by it. *)
        whole(f) ==
          \E r \in rows :
            /\ r.channel = 0 /\ r.start <= f /\ f < r.start + r.frames
            /\ \A q \in rows : (q.channel = 0 /\ q.start <= f) => q.start <= r.start
            /\ \A c \in 0 .. 1 : \E q \in rows :
                 /\ q.sequence = r.sequence /\ q.channel = c /\ q.start = r.start
                 /\ q.frames = r.frames /\ Len(q.samples) = q.frames
    IN  /\ \A k \in DOMAIN given : given[k] = [c \in 0 .. 1 |-> <<c, from + k - 1>>]
        /\ output[1].fill.ended # "short"
        /\ IF output[1].fill.ended = "refused" THEN ~whole(from + Len(given))
           ELSE from + Len(given) = end

(***************************************************************************)
(* A click is seen: it is in the extremes of the column its frame falls in *)
(* or of the next one, and no column shows one from further away than the  *)
(* stride it was read at.  signal/waveform.rs:345-424.                     *)
(***************************************************************************)
ClickIsDrawn ==
  (Done("drawing") /\ input[1].request.pixels > 0) =>
    LET i == input[1]
        columns == output[1].columns
        level   == W!Choose(i.levels, i.request)
        reach   == W!Stride(i.levels, IF i.stored \/ level = "samples" THEN level ELSE "block")
        shown(c) == (IF i.way = 1 THEN columns[c].max ELSE columns[c].min) = i.way
        within(c, f) == W!FrameOf(i.request, c) - f < (IF reach = 0 THEN 4 ELSE reach)
                        /\ f - W!FrameOf(i.request, c + 1) < (IF reach = 0 THEN 4 ELSE reach)
    IN  /\ (i.at < i.frames /\ i.at \in i.request.start .. i.request.end - 1) =>
             LET c == W!ColumnOf(i.request, i.at)
             IN  \E d \in {c, c + 1} \cap DOMAIN columns : shown(d)
        /\ \A c \in DOMAIN columns : shown(c) => (i.at < i.frames /\ within(c, i.at))

(***************************************************************************)
(* What is said of the audio is so.  A capture called bit-perfect came     *)
(* from the one device that was named, by a direct path nobody shares, in  *)
(* everything that was asked for, the system itself reported its rate,     *)
(* channels and format, and nothing was lost on the way.  Playback that    *)
(* names no loss loses nothing: every channel is heard as it was stored.   *)
(* A float side that is also spread over more channels is left out: it is  *)
(* clipped and nobody says so.                                             *)
(* capture.rs:395-450, verify.rs:290-344, convert.rs:83-225.               *)
(***************************************************************************)
ClaimsAreEarned ==
  /\ Done("capture") =>
       \A c \in output[1] :
         c.verdict = "confirmed" =>
           LET i == input[1]
               said == i.os.report
           IN  /\ {d \in i.devices : i.query \in {d.key, d.id, d.name} \cup d.within} = {c.device}
                  \/ i.query = c.device.key
               /\ c.device.host = "alsa" /\ c.device.transport = "direct"
               /\ i.request.mode = "exclusive" /\ i.clean
               /\ \A field \in A!Checked :
                    said[field] = {c.negotiated[field]} /\ i.request[field] \subseteq said[field]
  /\ Done("output") =>
       \A p \in output[1] :
         LET c == p.conversion
             frame == input[1].side.frame
         IN  (A!Losses(c) = {} /\ (c.from = "Float32" => c.from_channels = c.to_channels)) =>
               \A n \in 1 .. Len(frame) :
                 /\ n \in DOMAIN p.heard /\ p.heard[n] = frame[n]
                 /\ Len(frame) = 1 => \A k \in DOMAIN p.heard : p.heard[k] = frame[1]
=============================================================================
