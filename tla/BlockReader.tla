---------------------------- MODULE BlockReader ----------------------------
(***************************************************************************)
(* pcm::Reader of src/crates/project/src/pcm.rs: a capture's audio, frame  *)
(* by frame, from anywhere in it.  A project is the rows of its blocks,    *)
(* each [channel, sequence, start, frames, samples] with samples one value *)
(* per frame, and what the capture's row says: [channels, frames].  The    *)
(* reader is [span, cursor, loaded].  A sample's width is one.             *)
(***************************************************************************)
EXTENDS Integers, Sequences

(* At most one block: none, or the one in hand.                            *)
NoBlock == <<>>

At(n, lo, hi) == IF n < lo THEN lo ELSE IF n > hi THEN hi ELSE n

NotNegative(n) == IF n < 0 THEN 0 ELSE n

Smaller(a, b) == IF a < b THEN a ELSE b

(* Span::clamp_to.                                                         *)
ClampTo(span, frames) ==
  LET start == IF span.start > frames THEN frames ELSE span.start
      end   == IF span.end > frames THEN frames ELSE span.end
  IN  [start |-> start, end |-> IF end < start THEN start ELSE end]

Open(project, span) ==
  LET clamped == ClampTo(span, project.frames)
  IN  [span |-> clamped, cursor |-> clamped.start, loaded |-> NoBlock]

Holds(loaded, frame) ==
  \E i \in DOMAIN loaded :
    loaded[i].start <= frame /\ frame < loaded[i].start + loaded[i].frames

IsFinished(reader) == reader.cursor >= reader.span.end

Seek(reader, frame) ==
  LET cursor == At(frame, reader.span.start, reader.span.end)
  IN  [reader EXCEPT !.cursor = cursor,
                     !.loaded = IF Holds(@, cursor) THEN @ ELSE NoBlock]

----------------------------------------------------------------------------
(* Channel 0 says which block holds a frame: the last that starts by it.   *)

\* Mutant: the last block that starts by the frame, whatever its length.
LocateAny(project, frame) ==
  LET before == {r \in project.rows : r.channel = 0 /\ r.start <= frame}
  IN  {r.sequence : r \in {r \in before : \A q \in before : q.start <= r.start}}

Locate(project, frame) ==
  LET before == {r \in project.rows : r.channel = 0 /\ r.start <= frame}
      last   == {r \in before : \A q \in before : q.start <= r.start}
  IN  {NotNegative(r.sequence) :
         r \in {r \in last : frame < NotNegative(r.start) + NotNegative(r.frames)}}

(* Every channel of a block, and all of them of one shape.                 *)
RowsOf(project, sequence) == {r \in project.rows : r.sequence = sequence}

RowOf(project, sequence, channel) ==
  CHOOSE r \in RowsOf(project, sequence) : r.channel = channel

Loadable(project, sequence) ==
  LET has(c) == \E r \in RowsOf(project, sequence) : r.channel = c
      row(c) == RowOf(project, sequence, c)
  IN  has(0) => \A c \in 0 .. project.channels - 1 :
        /\ has(c)
        /\ Len(row(c).samples) >= NotNegative(row(c).frames)
        /\ NotNegative(row(c).start) = NotNegative(row(0).start)
        /\ NotNegative(row(c).frames) = NotNegative(row(0).frames)

(* Nothing comes of a block that has no row on channel 0.                  *)
Load(project, sequence) ==
  IF ~\E r \in RowsOf(project, sequence) : r.channel = 0 THEN NoBlock
  ELSE <<[sequence |-> sequence,
          start    |-> NotNegative(RowOf(project, sequence, 0).start),
          frames   |-> NotNegative(RowOf(project, sequence, 0).frames),
          channels |-> [c \in 0 .. project.channels - 1 |-> RowOf(project, sequence, c).samples]]>>

(* The block after the one in hand, when the cursor has left it behind.    *)
Wanted(project, reader) ==
  LET behind == {b \in {reader.loaded[i] : i \in DOMAIN reader.loaded} :
                   reader.cursor >= b.start + b.frames}
  IN  IF behind = {} THEN Locate(project, reader.cursor)
      ELSE {b.sequence + 1 : b \in behind}

----------------------------------------------------------------------------
(* One frame: the sample of every channel, in channel order.               *)
FrameAt(block, frame) ==
  [c \in DOMAIN block.channels |-> block.channels[c][frame - block.start + 1]]

(* One turn of the loop, from the block that holds the cursor.             *)
Copy(reader, block, room) ==
  LET n == Smaller(Smaller(block.start + block.frames, reader.span.end) - reader.cursor, room)
      cursor == reader.cursor + n
  IN  [given  |-> [k \in 1 .. n |-> FrameAt(block, reader.cursor + k - 1)],
       reader |-> [reader EXCEPT
                     !.cursor = cursor,
                     !.loaded = IF cursor >= block.start + block.frames THEN NoBlock ELSE <<block>>]]

(***************************************************************************)
(* Fill: at most room frames, fewer at the end of the span; an error gives *)
(* up what was already copied, and the cursor stays behind it.             *)
(***************************************************************************)
Turn(project, last, room) ==
  LET reader == last.reader
      wanted == Wanted(project, reader)
      next   == CHOOSE s \in wanted : TRUE
      loaded == IF Holds(reader.loaded, reader.cursor) THEN reader.loaded ELSE Load(project, next)
      copy   == Copy(reader, loaded[1], room - Len(last.given))
  IN  IF last.ended # "no" \/ Len(last.given) = room \/ IsFinished(reader) THEN last
      ELSE IF ~Holds(reader.loaded, reader.cursor) /\ (wanted = {} \/ ~Loadable(project, next))
      THEN [last EXCEPT !.ended = "refused"]
      ELSE IF loaded = NoBlock THEN [last EXCEPT !.ended = "short", !.reader.loaded = NoBlock]
      ELSE [reader |-> copy.reader, given |-> last.given \o copy.given, ended |-> "no"]

Fill(project, reader0, room) ==
  LET turn[n \in 0 .. room] ==
        IF n = 0 THEN [reader |-> reader0, given |-> <<>>, ended |-> "no"]
        ELSE Turn(project, turn[n - 1], room)
  IN  turn[room]
=============================================================================
