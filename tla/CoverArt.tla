------------------------------ MODULE CoverArt ------------------------------
(***************************************************************************)
(* Cover art: artwork.rs of crates/metadata, and the header parser of      *)
(* crates/project/src/release.rs with what `vcw release artwork` accepts.  *)
(*                                                                         *)
(* A file is its size class, the magic it starts with, the size a PNG      *)
(* header says and the segments of a JPEG;                                 *)
(* a JPEG segment is a marker and the bytes from this marker to the next.  *)
(***************************************************************************)
EXTENDS Integers, Sequences, FiniteSets

Magics == {"jpeg", "png", "gif", "webp", "other"}

(***************************************************************************)
(* Artwork::accept: neither too small nor too large, and an image.         *)
(***************************************************************************)
Accepted(file) == file.size = "fits" /\ file.magic # "other"

(* mime_of(): what the CLI stores; a GIF is not among them.                *)
MimeKnown(file) == file.magic \in {"jpeg", "png", "webp"}

(* fetch_front(): the first primary image, or else the first; 0 is none.   *)
FrontOf(references) ==
  LET primary == {i \in DOMAIN references : references[i].primary}
      among   == IF primary # {} THEN primary ELSE DOMAIN references
  IN  IF among = {} THEN 0 ELSE CHOOSE i \in among : \A j \in among : i <= j

(* fetch(): the address is checked before anything is asked for.           *)
FetchFront(references, answer) ==
  LET front == FrontOf(references)
  IN  IF front = 0 THEN "none"
      ELSE IF references[front].url = "" THEN "no url"
      ELSE IF answer.failed THEN "failed"
      ELSE IF Accepted(answer.file) THEN "stored" ELSE "not artwork"

----------------------------------------------------------------------------
(* dimensions(): a PNG says at a fixed place, a JPEG in a frame header.    *)

Frames     == {"SOF0", "SOF2"}   \* the markers C0..CF but C4, C8 and CC
Standalone == {"TEM", "RST", "SOI", "EOI"}
NoSize     == <<0, 0>>

\* Mutant: every marker of the C0..CF range is taken for a frame.
IsFrameOrTable(marker) == marker \in Frames \cup {"DHT"}

IsFrame(marker) == marker \in Frames

Sized(size) == IF size[1] > 0 /\ size[2] > 0 THEN size ELSE NoSize

(***************************************************************************)
(* jpeg_dimensions(): fill bytes and standalone markers are stepped over,  *)
(* a segment by its length; a frame header that is cut short, a length     *)
(* below two and a break in the chain end the search.                      *)
(***************************************************************************)
Ends(segment) ==
  \/ segment.marker = "junk"
  \/ IsFrame(segment.marker)
  \/ segment.marker \notin Standalone \cup {"fill"} /\ segment.length < 2

JpegDimensions(segments) ==
  LET stops == {i \in DOMAIN segments : Ends(segments[i])}
      first == CHOOSE i \in stops : \A j \in stops : i <= j
  IN  IF stops = {} THEN NoSize
      ELSE IF IsFrame(segments[first].marker) /\ segments[first].whole
      THEN Sized(segments[first].size) ELSE NoSize

Dimensions(file) ==
  CASE file.magic = "png"  -> Sized(file.header)
    [] file.magic = "jpeg" -> JpegDimensions(file.segments)
    [] OTHER               -> NoSize
=============================================================================
