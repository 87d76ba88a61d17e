---------------------------- MODULE CaptureWriter ----------------------------
(***************************************************************************)
(* The capture pipeline from the audio callback to the project:            *)
(*   - Sink::on_data (crates/audio/src/capture.rs) pushes each callback     *)
(*     into the SPSC ring of crates/audio/src/buffers.rs, whole or not at   *)
(*     all;                                                                *)
(*   - the writer thread (crates/project/src/persistence.rs) drains the    *)
(*     ring, cuts the stream into blocks and commits them in batches;      *)
(*   - the owner of the Handle pauses, resumes, reports and stops it.      *)
(*                                                                         *)
(* Frames are numbered by the converter in the order it produced them; a   *)
(* block carries the frames themselves.  Every channel of a block is       *)
(* written in one transaction, so one row stands for all of them.  A       *)
(* transaction happens or fails as a whole.                                *)
(*                                                                         *)
(* This module has the device and the writer; the modules that extend it   *)
(* add the owner: CaptureAnyOwner one that may do anything, CaptureCli and *)
(* CaptureEngine the two the product has.                                  *)
(***************************************************************************)
EXTENDS Naturals, Sequences

CONSTANTS
  BlockFrames,     \* frames in one block
  BatchBlocks,     \* blocks in one transaction
  RingFrames,      \* frames the ring holds
  CallbackFrames,  \* frames the device delivers at once
  StartPaused,     \* Config::start_paused
  MaxCallbacks,    \* bound: callbacks in one behaviour
  MaxFailures      \* bound: transactions that fail in one behaviour

ASSUME CaptureAssumption ==
  /\ BlockFrames \in Nat \ {0}
  /\ BatchBlocks \in Nat
  /\ RingFrames \in Nat
  /\ CallbackFrames \in Nat \ {0}
  /\ StartPaused \in BOOLEAN
  /\ MaxCallbacks \in Nat
  /\ MaxFailures \in Nat

VARIABLES
  \* the device and its callback
  produced,   \* frames the converter has produced
  sink,       \* "idle", "refused" (a push failed, not counted yet) or "gone"
  lost,       \* Counters::dropped_frames
  ring,       \* frames waiting in the ring
  \* the Handle, shared with the owner
  stop, pause, result,
  \* the writer thread
  wpc, paused, wasPaused, pending, batch, sequence, startFrame, frames, noted,
  holding,    \* Progress::paused
  \* the project
  blocks, row,
  failures    \* transactions that have failed

deviceVars  == <<produced, sink, lost>>
handleVars  == <<stop, pause, result>>
threadVars  == <<paused, wasPaused, holding>>
writerVars  == <<pending, batch, sequence, startFrame, frames, noted>>
projectVars == <<blocks, row, failures>>
captureVars == <<deviceVars, ring, handleVars, wpc, threadVars, writerVars,
                 projectVars>>

Endings == {"finalised", "interrupted"}

(* The row as Session::begin inserts it, before a frame is drained.        *)
Begun == [state |-> "recording", frames |-> 0, lost |-> 0, finished |-> FALSE]

PipelineInit ==
  /\ produced = 0 /\ sink = "idle" /\ lost = 0 /\ ring = <<>>
  /\ stop = FALSE /\ pause = StartPaused
  /\ result = [state |-> "finalised", lost |-> 0]
  /\ wpc = "load" /\ paused = StartPaused /\ wasPaused = StartPaused
  /\ pending = <<>> /\ batch = <<>> /\ sequence = 0 /\ startFrame = 0
  /\ frames = 0 /\ noted = 0 /\ holding = StartPaused
  /\ blocks = <<>>
  /\ failures = 0

CaptureInit == PipelineInit /\ row = Begun

----------------------------------------------------------------------------
(* The audio callback: Sink::on_data and RingWriter::push.                  *)

Delivered == [i \in 1 .. CallbackFrames |-> produced + i - 1]

\* Mutant: what fits of a callback is pushed.
PushTorn ==
  /\ sink = "idle"
  /\ produced < MaxCallbacks * CallbackFrames
  /\ produced' = produced + CallbackFrames
  /\ LET free == RingFrames - Len(ring) IN
       ring' = ring \o SubSeq(Delivered, 1, IF free < CallbackFrames THEN free ELSE CallbackFrames)
  /\ sink' = IF Len(ring) + CallbackFrames <= RingFrames THEN sink ELSE "refused"
  /\ UNCHANGED <<lost, handleVars, wpc, threadVars, writerVars, projectVars>>

CallbackPush ==
  /\ sink = "idle"
  /\ produced < MaxCallbacks * CallbackFrames
  /\ produced' = produced + CallbackFrames
  /\ IF Len(ring) + CallbackFrames <= RingFrames
       THEN ring' = ring \o Delivered /\ UNCHANGED sink
       ELSE sink' = "refused" /\ UNCHANGED ring
  /\ UNCHANGED <<lost, handleVars, wpc, threadVars, writerVars, projectVars>>

CallbackCount ==
  /\ sink = "refused"
  /\ lost' = lost + CallbackFrames
  /\ sink' = "idle"
  /\ UNCHANGED <<produced, ring, handleVars, wpc, threadVars, writerVars,
                 projectVars>>

Device == CallbackPush \/ CallbackCount

(***************************************************************************)
(* Dropping the stream waits for a callback that is running, then drops    *)
(* the ring's writing end.                                                 *)
(***************************************************************************)
CloseStream ==
  /\ sink = "idle"
  /\ sink' = "gone"
  /\ UNCHANGED <<produced, lost, ring, handleVars, wpc, threadVars, writerVars,
                 projectVars>>

----------------------------------------------------------------------------
(* The Handle.                                                             *)

SetResult(state, counters) ==
  /\ result' = [state |-> state, lost |-> counters]
  /\ UNCHANGED <<deviceVars, ring, stop, pause, wpc, threadVars, writerVars,
                 projectVars>>

Note(counters) ==
  /\ result' = [result EXCEPT !.lost = counters]
  /\ UNCHANGED <<deviceVars, ring, stop, pause, wpc, threadVars, writerVars,
                 projectVars>>

SetPause(on) ==
  /\ pause' = on
  /\ UNCHANGED <<deviceVars, ring, stop, result, wpc, threadVars, writerVars,
                 projectVars>>

SetStop ==
  /\ stop' = TRUE
  /\ UNCHANGED <<deviceVars, ring, pause, result, wpc, threadVars, writerVars,
                 projectVars>>

----------------------------------------------------------------------------
(* The Writer: prepare, commit and the session row.                        *)

Taken(n) == SubSeq(pending, 1, n)
Left(n)  == SubSeq(pending, n + 1, Len(pending))

\* Mutant: the next block starts after what is pending, not after this block.
PrepareFar(n) ==
  /\ batch' = Append(batch, [sequence |-> sequence, start |-> startFrame,
                             audio |-> Taken(n)])
  /\ pending' = Left(n)
  /\ sequence' = sequence + 1
  /\ startFrame' = startFrame + Len(pending)

(***************************************************************************)
(* prepare(): the first n pending frames become the next block.            *)
(***************************************************************************)
Prepare(n) ==
  /\ batch' = Append(batch, [sequence |-> sequence, start |-> startFrame,
                             audio |-> Taken(n)])
  /\ pending' = Left(n)
  /\ sequence' = sequence + 1
  /\ startFrame' = startFrame + n

\* Mutant: the batch is kept after it was written.
CommitKeepingBatch(these, after) ==
  /\ blocks' = blocks \o these
  /\ row' = [row EXCEPT !.frames = after]
  /\ frames' = after
  /\ UNCHANGED <<batch, failures>>

(***************************************************************************)
(* commit(): every block of the batch and the frame count, in one          *)
(* transaction.  A failed one leaves the project and the batch alone.      *)
(***************************************************************************)
Commit(these, after) ==
  /\ blocks' = blocks \o these
  /\ row' = [row EXCEPT !.frames = after]
  /\ batch' = <<>>
  /\ frames' = after
  /\ UNCHANGED failures

TransactionFails ==
  /\ failures < MaxFailures
  /\ failures' = failures + 1
  /\ UNCHANGED <<blocks, row>>

(***************************************************************************)
(* flush(): what is pending becomes a short block, and the batch is        *)
(* committed if there is one.                                              *)
(***************************************************************************)
ShortBlock == IF pending = <<>> THEN <<>>
              ELSE <<[sequence |-> sequence, start |-> startFrame,
                      audio |-> pending]>>

FlushBy(next) ==
  LET whole == batch \o ShortBlock
      after == startFrame + Len(pending) IN
    /\ pending' = <<>>
    /\ sequence' = sequence + Len(ShortBlock)
    /\ startFrame' = after
    /\ IF whole = <<>>
         THEN UNCHANGED <<batch, frames, projectVars>> /\ wpc' = next
         ELSE \/ Commit(whole, after) /\ wpc' = next
              \/ /\ TransactionFails
                 /\ batch' = whole
                 /\ UNCHANGED frames
                 /\ wpc' = IF wpc \in {"failed", "finish"} THEN "dead" ELSE "failed"
    /\ UNCHANGED <<noted, threadVars, deviceVars, ring, handleVars>>

----------------------------------------------------------------------------
(* The writer thread's loop.                                               *)

\* Mutant: a pause does not flush.
LoadPauseUnflushed ==
  /\ wpc = "load"
  /\ paused' = pause
  /\ wpc' = IF pause = wasPaused THEN "read" ELSE "settle"
  /\ UNCHANGED <<wasPaused, holding>>
  /\ UNCHANGED <<deviceVars, ring, handleVars, writerVars, projectVars>>

LoadPause ==
  /\ wpc = "load"
  /\ paused' = pause
  /\ wpc' = IF pause = wasPaused THEN "read" ELSE IF pause THEN "pause" ELSE "settle"
  /\ UNCHANGED <<wasPaused, holding>>
  /\ UNCHANGED <<deviceVars, ring, handleVars, writerVars, projectVars>>

FlushForPause == wpc = "pause" /\ FlushBy("settle")

Settle ==
  /\ wpc = "settle"
  /\ wasPaused' = paused
  /\ holding' = paused
  /\ wpc' = "read"
  /\ UNCHANGED paused
  /\ UNCHANGED <<deviceVars, ring, handleVars, writerVars, projectVars>>

(***************************************************************************)
(* The counter timer, which may fire on any turn of the loop.  A counter   *)
(* that cannot be written is kept for the end of the session.              *)
(***************************************************************************)
PersistDiagnostics ==
  /\ wpc = "read"
  /\ noted' = result.lost
  /\ \/ row' = [row EXCEPT !.lost = result.lost] /\ UNCHANGED <<blocks, failures>>
     \/ TransactionFails
  /\ UNCHANGED <<wpc, pending, batch, sequence, startFrame, frames>>
  /\ UNCHANGED <<deviceVars, ring, handleVars, threadVars>>

Read ==
  /\ wpc = "read"
  /\ LET n == IF Len(ring) <= BlockFrames THEN Len(ring) ELSE BlockFrames IN
       /\ ring' = SubSeq(ring, n + 1, Len(ring))
       /\ pending' = IF paused THEN pending ELSE pending \o SubSeq(ring, 1, n)
       /\ wpc' = IF n = 0 THEN "empty" ELSE IF paused THEN "load" ELSE "push"
  /\ UNCHANGED <<batch, sequence, startFrame, frames, noted>>
  /\ UNCHANGED <<deviceVars, handleVars, threadVars, projectVars>>

(***************************************************************************)
(* push(): a full block is prepared, a full batch is committed.  A read is *)
(* at most one block long, so at most one block is completed.              *)
(***************************************************************************)
PushShort ==
  /\ wpc = "push"
  /\ Len(pending) < BlockFrames
  /\ wpc' = "load"
  /\ UNCHANGED <<deviceVars, ring, handleVars, threadVars, writerVars,
                 projectVars>>

\* Mutant: one block too many before a commit.
PushBlockLate ==
  /\ wpc = "push"
  /\ Len(pending) >= BlockFrames
  /\ Prepare(BlockFrames)
  /\ wpc' = IF Len(batch) + 1 > BatchBlocks THEN "commit" ELSE "push"
  /\ UNCHANGED <<frames, noted>>
  /\ UNCHANGED <<deviceVars, ring, handleVars, threadVars, projectVars>>

PushBlock ==
  /\ wpc = "push"
  /\ Len(pending) >= BlockFrames
  /\ Prepare(BlockFrames)
  /\ wpc' = IF Len(batch) + 1 >= BatchBlocks THEN "commit" ELSE "push"
  /\ UNCHANGED <<frames, noted>>
  /\ UNCHANGED <<deviceVars, ring, handleVars, threadVars, projectVars>>

CommitBatch ==
  /\ wpc = "commit"
  /\ \/ Commit(batch, startFrame) /\ wpc' = "push"
     \/ TransactionFails /\ wpc' = "failed" /\ UNCHANGED <<batch, frames>>
  /\ UNCHANGED <<pending, sequence, startFrame, noted>>
  /\ UNCHANGED <<deviceVars, ring, handleVars, threadVars>>

\* Mutant: only a producer that has gone ends the loop.
FoundEmptyDeaf ==
  /\ wpc = "empty"
  /\ wpc' = IF sink = "gone" THEN "orphan" ELSE "load"
  /\ UNCHANGED <<deviceVars, ring, handleVars, threadVars, writerVars,
                 projectVars>>

(***************************************************************************)
(* Nothing to read: stop if asked to; if only the producer has gone,       *)
(* commit what is held and wait to be told how the capture ended.          *)
(***************************************************************************)
FoundEmpty ==
  /\ wpc = "empty"
  /\ wpc' = IF stop THEN "result" ELSE IF sink = "gone" THEN "orphan" ELSE "load"
  /\ UNCHANGED <<deviceVars, ring, handleVars, threadVars, writerVars,
                 projectVars>>

FlushOrphan == wpc = "orphan" /\ FlushBy("await")

Await ==
  /\ wpc = "await" /\ stop
  /\ wpc' = "result"
  /\ UNCHANGED <<deviceVars, ring, handleVars, threadVars, writerVars,
                 projectVars>>

\* Mutant: the last flush is left out.
TakeResultOnly ==
  /\ wpc = "result"
  /\ noted' = result.lost
  /\ wpc' = "close"
  /\ UNCHANGED <<pending, batch, sequence, startFrame, frames>>
  /\ UNCHANGED <<deviceVars, ring, handleVars, threadVars, projectVars>>

(***************************************************************************)
(* finish(): one last flush, then the session row is closed.  After a      *)
(* failed commit the state is interrupted and the counters are the last    *)
(* the timer took.                                                         *)
(***************************************************************************)
TakeResult ==
  /\ wpc = "result"
  /\ noted' = result.lost
  /\ wpc' = "finish"
  /\ UNCHANGED <<pending, batch, sequence, startFrame, frames>>
  /\ UNCHANGED <<deviceVars, ring, handleVars, threadVars, projectVars>>

FlushAtEnd ==
  \/ wpc = "finish" /\ FlushBy("close")
  \/ wpc = "failed" /\ FlushBy("close-interrupted")

CloseSession(state, next) ==
  /\ \/ /\ row' = [row EXCEPT !.frames = frames, !.state = state,
                              !.lost = noted, !.finished = TRUE]
        /\ wpc' = next
        /\ UNCHANGED <<blocks, failures>>
     \/ TransactionFails /\ wpc' = "dead"
  /\ UNCHANGED <<deviceVars, ring, handleVars, threadVars, writerVars>>

CloseAsTold ==
  /\ wpc = "close"
  /\ CloseSession(result.state, "done")

CloseInterrupted ==
  /\ wpc = "close-interrupted"
  /\ CloseSession("interrupted", "dead")

Writer == LoadPause \/ FlushForPause \/ Settle \/ PersistDiagnostics \/ Read
          \/ PushShort \/ PushBlock \/ CommitBatch \/ FoundEmpty
          \/ FlushOrphan \/ Await \/ TakeResult \/ FlushAtEnd \/ CloseAsTold
          \/ CloseInterrupted

(***************************************************************************)
(* The thread's own steps, without the timer that may fire between them.   *)
(***************************************************************************)
Loop == Writer /\ ~PersistDiagnostics

Ended == wpc \in {"done", "dead"}

----------------------------------------------------------------------------
Frame == Nat
Block == [sequence : Nat, start : Nat, audio : Seq(Frame)]

WriterPlaces ==
  {"load", "pause", "settle", "read", "push", "commit", "empty", "orphan",
   "await", "result", "finish", "failed", "close", "close-interrupted",
   "done", "dead"}

Row == [state : {"recording", "recovered", "absent"} \cup Endings, frames : Nat,
        lost : Nat, finished : BOOLEAN]

TypeOK ==
  /\ produced \in Nat /\ sink \in {"idle", "refused", "gone"} /\ lost \in Nat
  /\ ring \in Seq(Frame)
  /\ stop \in BOOLEAN /\ pause \in BOOLEAN
  /\ result \in [state : Endings, lost : Nat]
  /\ wpc \in WriterPlaces
  /\ paused \in BOOLEAN /\ wasPaused \in BOOLEAN /\ holding \in BOOLEAN
  /\ pending \in Seq(Frame) /\ batch \in Seq(Block)
  /\ sequence \in Nat /\ startFrame \in Nat /\ frames \in Nat /\ noted \in Nat
  /\ blocks \in Seq(Block)
  /\ row \in Row
  /\ failures \in Nat

(***************************************************************************)
(* persistence.rs: "Blocks tile each channel's timeline with no gaps", and *)
(* recovery depends on it.  Numbered from zero, each block starts where    *)
(* the one before it stops, whatever was retried, paused or cut short; the *)
(* blocks waiting to be committed carry on from the committed ones.        *)
(***************************************************************************)
EndAt(list, i) == IF i = 0 THEN 0 ELSE list[i].start + Len(list[i].audio)

EndOf(list) == EndAt(list, Len(list))

Tiled(list) ==
  \A i \in 1 .. Len(list) :
    /\ list[i].sequence = i - 1
    /\ list[i].audio # <<>>
    /\ list[i].start = EndAt(list, i - 1)

BlocksTile == Tiled(blocks)

(***************************************************************************)
(* persistence.rs on the frame count: "Written together, the count can     *)
(* never run ahead of the data".  Nor can it fall behind.                  *)
(***************************************************************************)
RowCountsBlocks == row.frames = EndOf(blocks)

(***************************************************************************)
(* Handle::pause: the writer commits what it is holding, the pause being   *)
(* "the one interval where nothing else is protecting it".  While          *)
(* is_paused() reports the pause, everything taken is committed.           *)
(***************************************************************************)
PauseRisksNothing ==
  holding /\ wpc \notin {"failed", "dead"} => pending = <<>> /\ batch = <<>>

(***************************************************************************)
(* ... and nothing more is written until it reports the pause over.        *)
(***************************************************************************)
HoldingWritesNothing ==
  [][holding => blocks' = blocks]_captureVars

(***************************************************************************)
(* Config::batch_blocks: the worst-case loss the writer controls is        *)
(* block_millis * batch_blocks.  Between two turns of its loop it holds    *)
(* less than that uncommitted.                                             *)
(***************************************************************************)
Uncommitted == startFrame + Len(pending) - frames

LossWithinGranularity ==
  wpc \in {"load", "read", "empty"} =>
    Uncommitted < BlockFrames * (IF BatchBlocks = 0 THEN 1 ELSE BatchBlocks)

(***************************************************************************)
(* A closed session is complete: its row counts every frame the writer     *)
(* took, a failed and retried transaction included.                        *)
(***************************************************************************)
ClosedHoldsAll ==
  row.finished => /\ pending = <<>> /\ batch = <<>>
                  /\ row.frames = startFrame

(***************************************************************************)
(* A closed session is immutable: no block, counter or state is written    *)
(* after finished_at.                                                      *)
(***************************************************************************)
ClosedIsFinal ==
  [][row.finished => blocks' = blocks /\ row' = row]_captureVars

(***************************************************************************)
(* Handle::stop "waits for" the writer: it always ends.                    *)
(***************************************************************************)
StopEnds == stop ~> Ended

----------------------------------------------------------------------------
(***************************************************************************)
(* Why the blocks tile and the row counts them.  The blocks committed and  *)
(* the blocks waiting are one timeline; sequence and startFrame are where  *)
(* it goes on, frames and the row are how far it is committed.  It is      *)
(* inductive: a failed transaction keeps the waiting part, and nothing     *)
(* else writes any of the five.                                            *)
(***************************************************************************)
Timeline == blocks \o batch

(* The audio of a list of blocks, laid end to end.                         *)
AudioOf(list) ==
  LET laid[i \in 0 .. Len(list)] == IF i = 0 THEN <<>> ELSE laid[i - 1] \o list[i].audio
  IN  laid[Len(list)]

(***************************************************************************)
(* Every frame the capture holds, from the first committed block to the    *)
(* last one waiting in the ring.                                           *)
(***************************************************************************)
Held == AudioOf(Timeline) \o pending \o ring

TimelineInv ==
  /\ Tiled(Timeline)
  /\ sequence = Len(Timeline)
  /\ startFrame = EndOf(Timeline)
  /\ frames = EndOf(blocks)
  /\ row.frames = frames

(***************************************************************************)
(* Why a closed session is complete and final, and why a pause that is     *)
(* reported has left nothing to lose.  What the thread is about to do says *)
(* what it still holds.                                                    *)
(***************************************************************************)
NothingHeld == pending = <<>> /\ batch = <<>>

ThreadInv ==
  /\ holding = wasPaused
  /\ wpc = "pause" => paused /\ ~wasPaused
  /\ wpc \in {"push", "commit", "failed"} => ~wasPaused
  /\ wpc \in {"read", "push", "commit", "empty"} => paused = wasPaused
  /\ wpc = "settle" /\ paused => NothingHeld
  /\ wpc \in {"close", "close-interrupted"} => NothingHeld
  /\ wasPaused /\ wpc \notin {"failed", "dead"} => NothingHeld
  /\ row.finished => NothingHeld /\ Ended

(***************************************************************************)
(* Why the writer risks less than a batch.  While it is looping, what is   *)
(* not committed is whole blocks, fewer than a batch but when it is about  *)
(* to commit one, and behind them less than a block.                       *)
(***************************************************************************)
Looping == wpc \in {"load", "pause", "settle", "read", "push", "commit", "empty"}

BatchRoom == IF BatchBlocks = 0 THEN 1 ELSE BatchBlocks

LossInv ==
  /\ frames <= startFrame
  /\ Looping => startFrame = frames + BlockFrames * Len(batch)
  /\ Looping /\ wpc # "commit" => Len(batch) < BatchRoom
  /\ Looping /\ wpc \notin {"push", "commit"} => Len(pending) < BlockFrames

=============================================================================
