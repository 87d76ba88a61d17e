-------------------------- MODULE WaveformDrawing --------------------------
(***************************************************************************)
(* Drawing a waveform: src/crates/signal/src/waveform.rs, which chooses a  *)
(* resolution and folds what is read into columns, under                   *)
(* src/crates/project/src/waveform.rs, which reads the rows.               *)
(*                                                                         *)
(* A block is [start, samples, stored]: its audio on one channel and       *)
(* whether its pyramid was stored.  A request is [start, end, pixels].     *)
(* levels gives the strides.  A column keeps its extremes and how many     *)
(* frames it stands for; the rms is left out, it is as right as its        *)
(* weights, which are these frames.  Frames per pixel is a fraction here   *)
(* and a double in the code.                                               *)
(***************************************************************************)
EXTENDS Integers, Sequences

Later(a, b)   == IF a > b THEN a ELSE b
Earlier(a, b) == IF a < b THEN a ELSE b

----------------------------------------------------------------------------
(* Summaries.                                                              *)

NoSummary == [min |-> 0, max |-> 0]

Summarised(samples) ==
  LET heard == {samples[k] : k \in DOMAIN samples}
  IN  IF samples = <<>> THEN NoSummary
      ELSE [min |-> CHOOSE x \in heard : \A y \in heard : x <= y,
            max |-> CHOOSE x \in heard : \A y \in heard : x >= y]

(* One triplet per stride, the last over the samples it has.               *)
Pyramid(samples, stride) ==
  [g \in 1 .. (Len(samples) + stride - 1) \div stride |->
     Summarised(SubSeq(samples, (g - 1) * stride + 1, Earlier(g * stride, Len(samples))))]

----------------------------------------------------------------------------
(* Requests and levels.                                                    *)

Wide(request) == Later(request.end - request.start, 0)

(* The coarsest stride that still puts a triplet in every pixel; the whole *)
(* block first, since it needs no blob.                                    *)
Choose(levels, request) ==
  LET fits(stride) == stride > 0 /\ stride * request.pixels <= Wide(request)
  IN  IF fits(levels.block) THEN "block"
      ELSE IF fits(levels.summary64k) THEN "summary64k"
      ELSE IF fits(levels.summary256) THEN "summary256" ELSE "samples"

Stride(levels, level) == IF level = "samples" THEN 1 ELSE levels[level]

----------------------------------------------------------------------------
(* The painter.  Which column a frame is in and where a column starts are  *)
(* both rounded down.                                                      *)

EmptyColumn == [min |-> 0, max |-> 0, frames |-> 0]

Painter(request) ==
  [request |-> request, covered |-> 0,
   columns |-> [c \in 0 .. request.pixels - 1 |-> EmptyColumn]]

ColumnOf(request, frame) == ((frame - request.start) * request.pixels) \div Wide(request)

FrameOf(request, column) == request.start + (column * Wide(request)) \div request.pixels

AddTo(column, summary, frames) ==
  IF frames = 0 THEN column
  ELSE IF column.frames = 0
  THEN [min |-> summary.min, max |-> summary.max, frames |-> frames]
  ELSE [min |-> Earlier(column.min, summary.min), max |-> Later(column.max, summary.max),
        frames |-> column.frames + frames]

(* The part of the run [lo, hi) that add() gives to a column: all of it    *)
(* when both ends are in it, and otherwise what lies between where this    *)
(* column and the next one start.                                          *)
\* Mutant: the column a run ends in gets none of it.
ShareShort(request, column, lo, hi) ==
  LET first == ColumnOf(request, lo)
      last  == ColumnOf(request, hi - 1)
      from  == Later(FrameOf(request, column), lo)
      to    == IF column + 1 < request.pixels
               THEN Earlier(FrameOf(request, column + 1), hi) ELSE hi
  IN  IF first = last THEN (IF column = first THEN hi - lo ELSE 0)
      ELSE IF column \in first .. last - 1 THEN Later(to - from, 0) ELSE 0

Share(request, column, lo, hi) ==
  LET first == ColumnOf(request, lo)
      last  == ColumnOf(request, hi - 1)
      from  == Later(FrameOf(request, column), lo)
      to    == IF column + 1 < request.pixels
               THEN Earlier(FrameOf(request, column + 1), hi) ELSE hi
  IN  IF first = last THEN (IF column = first THEN hi - lo ELSE 0)
      ELSE IF column \in first .. last THEN Later(to - from, 0) ELSE 0

Add(painter, start, frames, summary) ==
  LET request == painter.request
      lo == Later(start, request.start)
      hi == Earlier(start + frames, request.end)
  IN  IF lo >= hi THEN painter
      ELSE [painter EXCEPT
              !.covered = @ + (hi - lo),
              !.columns = [c \in DOMAIN @ |-> AddTo(@[c], summary, Share(request, c, lo, hi))]]

(* A run of runs, each [at, frames, summary].                              *)
AddAll(painter, runs) ==
  LET after[n \in 0 .. Len(runs)] ==
        IF n = 0 THEN painter
        ELSE Add(after[n - 1], runs[n].at, runs[n].frames, runs[n].summary)
  IN  after[Len(runs)]

----------------------------------------------------------------------------
(* Reading.                                                                *)

Asked(request, block) ==
  block.start < request.end /\ block.start + Len(block.samples) > request.start

RunsOf(levels, level, block) ==
  LET whole  == <<[at |-> block.start, frames |-> Len(block.samples),
                   summary |-> Summarised(block.samples)]>>
      stride == Stride(levels, level)
      pieces == Pyramid(block.samples, stride)
  IN  IF level = "block" \/ (level \in {"summary256", "summary64k"} /\ ~block.stored)
      THEN whole
      ELSE [i \in DOMAIN pieces |->
              [at      |-> block.start + (i - 1) * stride,
               frames  |-> Earlier(stride, Len(block.samples) - (i - 1) * stride),
               summary |-> pieces[i]]]

(* Rows in the order of their start; a span or a width of nothing reads    *)
(* none of them.                                                           *)
ReadAt(levels, blocks, request, level) ==
  LET after[n \in 0 .. Len(blocks)] ==
        IF n = 0 THEN Painter(request)
        ELSE IF Asked(request, blocks[n])
        THEN AddAll(after[n - 1], RunsOf(levels, level, blocks[n])) ELSE after[n - 1]
  IN  IF request.pixels = 0 \/ Wide(request) = 0 THEN Painter(request) ELSE after[Len(blocks)]

Read(levels, blocks, request) == ReadAt(levels, blocks, request, Choose(levels, request))
=============================================================================
