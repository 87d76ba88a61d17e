--------------------------- MODULE TrackDetector ---------------------------
(***************************************************************************)
(* The detectors of src/crates/signal: a trace of windows goes in, the     *)
(* tracks of the side and their boundaries come out.  The three detectors  *)
(* differ in which windows are music; what follows is one pipeline.        *)
(* Live is the pass that runs during a capture and announces a boundary    *)
(* once nothing can move it.                                               *)
(*                                                                         *)
(* Levels and flatnesses are small numbers on a scale of their own, and    *)
(* every length is in frames.  A trace is [levels, flat, total, window],   *)
(* where total counts the part-window in hand; cfg is the Config with its  *)
(* durations already multiplied by the rate.  The threshold is given: an   *)
(* adaptive one settles nothing (Settled), and confidence and evidence     *)
(* decide nothing here.                                                    *)
(***************************************************************************)
EXTENDS Integers, Sequences

LOCAL INSTANCE FiniteSetsExt
LOCAL S == INSTANCE SequencesExt

Least(a, b)   == IF a < b THEN a ELSE b
Greatest(a, b) == IF a > b THEN a ELSE b

(* Saturating subtraction on u64.                                          *)
Less(a, b) == Greatest(a - b, 0)

----------------------------------------------------------------------------
(***************************************************************************)
(* Windows.  Pieces of any length are pushed; a part of a frame, and a     *)
(* part of a window, wait for the next piece.  part counts the units of an *)
(* unfinished frame, pending the frames of an unfinished window, frames    *)
(* all that were accepted and full the windows emitted.                    *)
(***************************************************************************)
NoWindows == [part |-> 0, pending |-> 0, frames |-> 0, full |-> 0]

Accept(w, n, window) ==
  [w EXCEPT !.pending = (w.pending + n) % window,
            !.frames  = w.frames + n,
            !.full    = w.full + (w.pending + n) \div window]

Push(w, units, unit, window) ==
  IF w.part = 0
  THEN [Accept(w, units \div unit, window) EXCEPT !.part = units % unit]
  ELSE LET taken == Least(unit - w.part, units)
           rest  == units - taken
       IN  IF w.part + taken < unit
           THEN [w EXCEPT !.part = w.part + taken]
           ELSE [Accept(Accept(w, 1, window), rest \div unit, window)
                   EXCEPT !.part = rest % unit]

(* At the end of a capture the frames in hand become a short last window.  *)
Flush(w) == IF w.pending = 0 THEN w ELSE [w EXCEPT !.pending = 0, !.full = @ + 1]

FrameAt(trace, w) == Least((w - 1) * trace.window, trace.total)

----------------------------------------------------------------------------
(* Which windows are music.                                                *)

(* Level with hysteresis: music begins at enter and ends below leave.      *)
ByLevel(trace, cfg) ==
  LET music[w \in 0 .. Len(trace.levels)] ==
        IF w = 0 THEN FALSE
        ELSE IF music[w - 1] THEN trace.levels[w] >= cfg.leave
        ELSE trace.levels[w] >= cfg.enter
  IN  music

(* The rolling mean is a fraction here: its sum and what it divides by.    *)
Around(trace, w, radius) ==
  Greatest(w - radius, 1) .. Least(w + radius, Len(trace.flat))

TooFlat(trace, cfg, w) ==
  LET near == Around(trace, w, cfg.smoothing)
  IN  MapThenSumSet(LAMBDA v : trace.flat[v], near)
        > cfg.flatness * Cardinality(near)

(* Level or flatness: either one is enough for a gap, and both levels of   *)
(* the hysteresis are the lower one.                                       *)
BySpectrum(trace, cfg) ==
  [w \in 0 .. Len(trace.levels) |->
     w # 0 /\ trace.levels[w] >= cfg.leave /\ ~TooFlat(trace, cfg, w)]

(* A decoded path of states.                                               *)
ByPath(states) == [w \in 0 .. Len(states) |-> w # 0 /\ states[w] = "music"]

(***************************************************************************)
(* The spans of windows that were music; one that is still open at the end *)
(* of the trace closes with the last frame of the capture.                 *)
(***************************************************************************)
Spans(trace, music) ==
  LET last      == Len(trace.levels)
      starts    == {w \in 1 .. last : music[w] /\ ~music[w - 1]}
      stops(w)  == {v \in w + 1 .. last : ~music[v]}
      end(w)    == IF stops(w) = {} THEN trace.total ELSE FrameAt(trace, Min(stops(w)))
      in_order  == S!SetToSortSeq(starts, <)
  IN  [i \in DOMAIN in_order |->
         [start |-> FrameAt(trace, in_order[i]), end |-> end(in_order[i])]]

----------------------------------------------------------------------------
(* From spans to tracks.                                                   *)

Frames(region) == Less(region.end, region.start)

MergeGaps(regions, limit) ==
  S!FoldLeft(LAMBDA merged, r :
    IF merged # <<>> /\ Less(r.start, S!Last(merged).end) < limit
    THEN [merged EXCEPT ![Len(merged)].end = Greatest(@, r.end)]
    ELSE Append(merged, r), <<>>, regions)

Padded(region, trace, cfg) ==
  [start |-> Less(region.start, cfg.pre), end |-> Least(region.end + cfg.post, trace.total)]

(* Half of each, rounded down before they are added.                       *)
Midpoint(a, b) == a \div 2 + b \div 2

\* Mutant: the track behind an overlap keeps its own start.
SplitOneSided(tracks) ==
  [i \in DOMAIN tracks |->
     [start |-> tracks[i].start,
      end   |-> IF i < Len(tracks) /\ tracks[i + 1].start < tracks[i].end
                THEN Midpoint(tracks[i].end, tracks[i + 1].start) ELSE tracks[i].end]]

SplitOverlaps(tracks) ==
  [i \in DOMAIN tracks |->
     [start |-> IF i > 1 /\ tracks[i].start < tracks[i - 1].end
                THEN Midpoint(tracks[i - 1].end, tracks[i].start) ELSE tracks[i].start,
      end   |-> IF i < Len(tracks) /\ tracks[i + 1].start < tracks[i].end
                THEN Midpoint(tracks[i].end, tracks[i + 1].start) ELSE tracks[i].end]]

ShapeTracks(raw, trace, cfg) ==
  LET merged == MergeGaps(MergeGaps(raw, cfg.gap_fill), cfg.min_silence)
      sound  == SelectSeq(merged, LAMBDA r : Frames(r) >= cfg.min_sound)
  IN  SplitOverlaps([i \in DOMAIN sound |-> Padded(sound[i], trace, cfg)])

----------------------------------------------------------------------------
(* The detectors.                                                          *)

ScanLevel(trace, cfg) == ShapeTracks(Spans(trace, ByLevel(trace, cfg)), trace, cfg)

(* Bursts shorter than min_transient go before any gap is bridged.         *)
ScanSpectrum(trace, cfg) ==
  ShapeTracks(SelectSeq(Spans(trace, BySpectrum(trace, cfg)),
                        LAMBDA r : Frames(r) >= cfg.min_transient), trace, cfg)

ScanPath(trace, states, cfg) == ShapeTracks(Spans(trace, ByPath(states)), trace, cfg)

(* Two boundaries a track, in the order of the tracks.                     *)
BoundariesOf(tracks) ==
  S!FlattenSeq([i \in DOMAIN tracks |-> <<[at |-> tracks[i].start, edge |-> "start"],
                                         [at |-> tracks[i].end, edge |-> "end"]>>])

----------------------------------------------------------------------------
(***************************************************************************)
(* Live: everything pushed so far is scanned again, and a boundary that    *)
(* can no longer move is announced, once.                                  *)
(***************************************************************************)
\* Mutant: the lag forgets that a span within min_silence merges backwards.
SettledSoon(trace, cfg) == Less(trace.total, cfg.gap_fill + cfg.pre + cfg.post)

Settled(trace, cfg) ==
  IF cfg.adaptive THEN 0
  ELSE Less(trace.total, cfg.min_silence + cfg.gap_fill + cfg.pre + cfg.post)

Fresh(announced, trace, cfg) ==
  LET settled == Settled(trace, cfg)
  IN  S!FoldLeft(LAMBDA news, b :
        IF b.at <= settled /\ \A k \in DOMAIN news : news[k].at # b.at
        THEN Append(news, b) ELSE news,
        announced, BoundariesOf(ScanLevel(trace, cfg)))

(* What the extractor has made of a side so far.                           *)
Seen(trace, windows) ==
  [trace EXCEPT !.total = windows.frames, !.levels = SubSeq(@, 1, windows.full)]

(* The announcements of a side whose bytes arrive piece by piece, asked    *)
(* for after every piece.  Live never flushes.                             *)
Announced(trace, cfg, pieces, unit) ==
  S!FoldLeft(LAMBDA heard, n :
    LET windows == Push(heard.windows, n, unit, trace.window)
    IN  [windows |-> windows, told |-> Fresh(heard.told, Seen(trace, windows), cfg)],
    [windows |-> NoWindows, told |-> <<>>], pieces)

----------------------------------------------------------------------------
(***************************************************************************)
(* The pass after the capture, over all of it.  A short last window is as  *)
(* loud as its frames are and never noise: its flatness is 0.              *)
(***************************************************************************)
Refined(trace, unit) ==
  LET whole == Push(NoWindows, unit * trace.total, unit, trace.window)
      all   == Flush(whole)
  IN  IF all = whole THEN Seen(trace, all)
      ELSE [Seen(trace, all) EXCEPT !.flat[all.full] = 0]
=============================================================================
