------------------------------ MODULE Playback ------------------------------
(***************************************************************************)
(* The live playback transport: crates/audio/src/playback.rs (the shared   *)
(* Cursor and the audio callback Source::on_data) and                      *)
(* crates/core/src/playback.rs (the Player and its feeder thread).         *)
(*                                                                         *)
(* Three threads share six atomics and the chunk queue:                    *)
(*   - the transport thread plays, pauses, seeks, ticks and stops;         *)
(*   - the feeder thread reads the project and fills chunks;               *)
(*   - the audio callback copies chunks out to the device.                 *)
(* One action is one atomic access together with the thread-local work     *)
(* around it, so every interleaving the three threads can produce is       *)
(* explored.  Samples are not modelled, only which frames they are.        *)
(***************************************************************************)
EXTENDS Integers, ChunkQueue

CONSTANTS
  ChunkFrames,    \* frames one chunk holds
  BufferFrames,   \* frames the device asks for in one callback
  SpanStart,      \* first frame of the audition
  SpanEnd,        \* one past its last frame
  Holes,          \* frames of the span no stored block holds
  SkipFrames,     \* the step of SKIP FORWARD and SKIP BACK
  MaxSeeks        \* bound: seeks made in one behaviour

ASSUME PlaybackAssumption ==
  /\ ChunkFrames \in Nat \ {0}
  /\ BufferFrames \in Nat \ {0}
  /\ SpanStart \in Nat
  /\ SpanEnd \in Nat
  /\ SpanStart < SpanEnd
  /\ Holes \subseteq SpanStart .. SpanEnd - 1
  /\ SkipFrames \in Nat \ {0}
  /\ MaxSeeks \in Nat

VARIABLES
  \* the Cursor
  frame, epoch, delivered, playing, drained, ended,
  \* the transport thread
  tpc, landing, announced, stop,
  \* the feeder thread
  fpc, fepoch, position, filled,
  \* the audio callback
  cpc, cepoch, current, written, pass,
  \* history: where each epoch's seek aimed, the last piece the device got
  aimed, heard

cursorVars    == <<frame, epoch, delivered, playing, drained, ended>>
transportVars == <<tpc, landing, announced, stop>>
feederVars    == <<fpc, fepoch, position, filled>>
callbackVars  == <<cpc, cepoch, current, written, pass>>
historyVars   == <<aimed, heard>>
vars == <<queueVars, cursorVars, transportVars, feederVars, callbackVars,
          historyVars>>

NotDrained == -1     \* the sentinel stored in `drained`
NoChunk == [epoch |-> -1, start |-> 0, len |-> 0]

Lesser(a, b) == IF a <= b THEN a ELSE b
Clamp(f, lo, hi) == IF f < lo THEN lo ELSE IF f > hi THEN hi ELSE f

Init ==
  /\ QueueInit
  /\ frame = SpanStart /\ epoch = 0 /\ delivered = 0
  /\ playing = FALSE /\ drained = NotDrained /\ ended = FALSE
  /\ tpc = "idle" /\ landing = SpanStart /\ announced = FALSE /\ stop = FALSE
  /\ fpc = "start" /\ fepoch = 0 /\ position = SpanStart /\ filled = NoChunk
  /\ cpc = "idle" /\ cepoch = 0 /\ current = NoChunk /\ written = 0
  /\ pass = "none"
  /\ aimed = [e \in 0 .. MaxSeeks |-> SpanStart]
  /\ heard = [epoch |-> -1, from |-> SpanStart, to |-> SpanStart]

----------------------------------------------------------------------------
(* The transport thread: Player::play, pause, seek, skip_*, tick, stop.    *)

SetPlaying(on) ==
  /\ tpc = "idle"
  /\ playing # on
  /\ playing' = on
  /\ UNCHANGED <<frame, epoch, delivered, drained, ended>>
  /\ UNCHANGED <<queueVars, transportVars, feederVars, callbackVars,
                 historyVars>>

Play  == SetPlaying(TRUE)
Pause == SetPlaying(FALSE)

(***************************************************************************)
(* Player::seek clamps, then Cursor::seek makes four stores in this order. *)
(***************************************************************************)
BeginSeek(target) ==
  /\ tpc = "idle"
  /\ epoch < MaxSeeks
  /\ landing' = Clamp(target, SpanStart, SpanEnd - 1)
  /\ tpc' = "frame"
  /\ UNCHANGED <<announced, stop>>
  /\ UNCHANGED <<queueVars, cursorVars, feederVars, callbackVars, historyVars>>

Seek        == \E target \in SpanStart .. SpanEnd : BeginSeek(target)
SkipForward == BeginSeek(frame + SkipFrames)
SkipBack    == BeginSeek(frame - SkipFrames)

SeekStoreFrame ==
  /\ tpc = "frame"
  /\ frame' = landing
  /\ tpc' = "drained"
  /\ UNCHANGED <<epoch, delivered, playing, drained, ended>>
  /\ UNCHANGED <<landing, announced, stop>>
  /\ UNCHANGED <<queueVars, feederVars, callbackVars, historyVars>>

SeekClearDrained ==
  /\ tpc = "drained"
  /\ drained' = NotDrained
  /\ tpc' = "ended"
  /\ UNCHANGED <<frame, epoch, delivered, playing, ended>>
  /\ UNCHANGED <<landing, announced, stop>>
  /\ UNCHANGED <<queueVars, feederVars, callbackVars, historyVars>>

SeekClearEnded ==
  /\ tpc = "ended"
  /\ ended' = FALSE
  /\ tpc' = "epoch"
  /\ UNCHANGED <<frame, epoch, delivered, playing, drained>>
  /\ UNCHANGED <<landing, announced, stop>>
  /\ UNCHANGED <<queueVars, feederVars, callbackVars, historyVars>>

SeekBumpEpoch ==
  /\ tpc = "epoch"
  /\ epoch' = epoch + 1
  /\ aimed' = [aimed EXCEPT ![epoch + 1] = landing]
  /\ tpc' = "idle"
  /\ UNCHANGED <<frame, delivered, playing, drained, ended>>
  /\ UNCHANGED <<landing, announced, stop>>
  /\ UNCHANGED <<queueVars, feederVars, callbackVars, heard>>

(***************************************************************************)
(* tick(): the first end it sees stops the transport.                      *)
(***************************************************************************)
Tick ==
  /\ tpc = "idle"
  /\ ended /\ ~announced
  /\ announced' = TRUE
  /\ playing' = FALSE
  /\ UNCHANGED <<frame, epoch, delivered, drained, ended>>
  /\ UNCHANGED <<tpc, landing, stop>>
  /\ UNCHANGED <<queueVars, feederVars, callbackVars, historyVars>>

(***************************************************************************)
(* stop(): ask the feeder to finish, join it, then close the stream.       *)
(***************************************************************************)
Stop ==
  /\ tpc = "idle"
  /\ stop' = TRUE
  /\ tpc' = "joining"
  /\ UNCHANGED <<landing, announced>>
  /\ UNCHANGED <<queueVars, cursorVars, feederVars, callbackVars, historyVars>>

FeederGone == fpc \in {"done", "failed", "unopened"}

JoinFeeder ==
  /\ tpc = "joining"
  /\ FeederGone
  /\ tpc' = "closed"
  /\ playing' = FALSE
  /\ UNCHANGED <<frame, epoch, delivered, drained, ended>>
  /\ UNCHANGED <<landing, announced, stop>>
  /\ UNCHANGED <<queueVars, feederVars, callbackVars, historyVars>>

Operator == Play \/ Pause \/ Seek \/ SkipForward \/ SkipBack \/ Stop

Transport == SeekStoreFrame \/ SeekClearDrained \/ SeekClearEnded
             \/ SeekBumpEpoch \/ Tick \/ JoinFeeder

----------------------------------------------------------------------------
(* The feeder thread: feeding() and step() of crates/core/src/playback.rs.  *)

(***************************************************************************)
(* The thread opens the project, reads the epoch and then the frame.  A    *)
(* project that cannot be opened ends it before it has marked anything.    *)
(***************************************************************************)
FeederCannotOpen ==
  /\ fpc = "start"
  /\ fpc' = "unopened"
  /\ UNCHANGED <<fepoch, position, filled>>
  /\ UNCHANGED <<queueVars, cursorVars, transportVars, callbackVars,
                 historyVars>>

FeederStart ==
  /\ fpc = "start"
  /\ fepoch' = epoch
  /\ fpc' = "open"
  /\ UNCHANGED <<position, filled>>
  /\ UNCHANGED <<queueVars, cursorVars, transportVars, callbackVars,
                 historyVars>>

FeederOpen ==
  /\ fpc = "open"
  /\ position' = Clamp(frame, SpanStart, SpanEnd)
  /\ fpc' = "look"
  /\ UNCHANGED <<fepoch, filled>>
  /\ UNCHANGED <<queueVars, cursorVars, transportVars, callbackVars,
                 historyVars>>

\* Mutant: the stop flag is not looked at.
FeederLookDeaf ==
  /\ fpc = "look"
  /\ fepoch' = epoch
  /\ fpc' = IF epoch # fepoch THEN "seek" ELSE "take"
  /\ UNCHANGED <<position, filled>>
  /\ UNCHANGED <<queueVars, cursorVars, transportVars, callbackVars, historyVars>>

\* Mutant: a seek is followed without adopting its epoch.
FeederLookOldEpoch ==
  /\ fpc = "look"
  /\ fpc' = IF stop THEN "done" ELSE IF epoch # fepoch THEN "seek" ELSE "take"
  /\ UNCHANGED <<fepoch, position, filled>>
  /\ UNCHANGED <<queueVars, cursorVars, transportVars, callbackVars, historyVars>>

(***************************************************************************)
(* The head of the loop.  A changed epoch is a seek: the frame to read     *)
(* from is a second load.                                                  *)
(***************************************************************************)
FeederLook ==
  /\ fpc = "look"
  /\ fepoch' = IF stop THEN fepoch ELSE epoch
  /\ fpc' = IF stop THEN "done" ELSE IF epoch # fepoch THEN "seek" ELSE "take"
  /\ UNCHANGED <<position, filled>>
  /\ UNCHANGED <<queueVars, cursorVars, transportVars, callbackVars,
                 historyVars>>

FeederSeek ==
  /\ fpc = "seek"
  /\ position' = Clamp(frame, SpanStart, SpanEnd)
  /\ ReleaseReserve
  /\ fpc' = "take"
  /\ UNCHANGED <<fepoch, filled>>
  /\ UNCHANGED <<cursorVars, transportVars, callbackVars, historyVars>>

(***************************************************************************)
(* step() up to the send: take a buffer and read into it.  The queue may   *)
(* be full, the span read out, or a hole in the timeline in the way.       *)
(***************************************************************************)
ReadTo == Lesser(position + ChunkFrames, SpanEnd)

\* Mutant: only the first frame of a read is looked up.
FillingFirst == {position}

Filling == position .. ReadTo - 1

FeederFull ==
  /\ fpc = "take" /\ ~CanTake
  /\ CollectOnly
  /\ fpc' = "look"
  /\ UNCHANGED <<fepoch, position, filled>>
  /\ UNCHANGED <<cursorVars, transportVars, callbackVars, historyVars>>

FeederFill ==
  /\ fpc = "take" /\ position < SpanEnd /\ Filling \cap Holes = {}
  /\ TakeChunk
  /\ filled' = [epoch |-> fepoch, start |-> position, len |-> ReadTo - position]
  /\ position' = ReadTo
  /\ fpc' = "send"
  /\ UNCHANGED fepoch
  /\ UNCHANGED <<cursorVars, transportVars, callbackVars, historyVars>>

FeederReadOut ==
  /\ fpc = "take" /\ CanTake /\ position >= SpanEnd
  /\ CollectOnly
  /\ fpc' = "drained"
  /\ UNCHANGED <<fepoch, position, filled>>
  /\ UNCHANGED <<cursorVars, transportVars, callbackVars, historyVars>>

FeederRefuse ==
  /\ fpc = "take" /\ CanTake /\ position < SpanEnd /\ Filling \cap Holes # {}
  /\ CollectOnly
  /\ fpc' = "refused"
  /\ UNCHANGED <<fepoch, position, filled>>
  /\ UNCHANGED <<cursorVars, transportVars, callbackVars, historyVars>>

FeederSend ==
  /\ fpc = "send"
  /\ SendChunk(filled)
  /\ filled' = NoChunk
  /\ fpc' = "look"
  /\ UNCHANGED <<fepoch, position>>
  /\ UNCHANGED <<cursorVars, transportVars, callbackVars, historyVars>>

\* Mutant: the drained mark carries no epoch.
FeederMarkDrainedZero ==
  /\ fpc \in {"drained", "refused"}
  /\ drained' = 0
  /\ fpc' = IF fpc = "drained" THEN "look" ELSE "failed"
  /\ UNCHANGED <<frame, epoch, delivered, playing, ended>>
  /\ UNCHANGED <<fepoch, position, filled>>
  /\ UNCHANGED <<queueVars, transportVars, callbackVars, historyVars>>

(***************************************************************************)
(* mark_drained(), after the last chunk and after a refusal; a refusal     *)
(* also ends the thread.                                                   *)
(***************************************************************************)
FeederMarkDrained ==
  /\ fpc \in {"drained", "refused"}
  /\ drained' = fepoch
  /\ fpc' = IF fpc = "drained" THEN "look" ELSE "failed"
  /\ UNCHANGED <<frame, epoch, delivered, playing, ended>>
  /\ UNCHANGED <<fepoch, position, filled>>
  /\ UNCHANGED <<queueVars, transportVars, callbackVars, historyVars>>

Feeder == FeederCannotOpen \/ FeederStart \/ FeederOpen \/ FeederLook
          \/ FeederSeek \/ FeederFull \/ FeederFill \/ FeederReadOut \/ FeederRefuse \/ FeederSend
          \/ FeederMarkDrained

----------------------------------------------------------------------------
(* The audio callback: Source::on_data, drop_stale and take_chunk.          *)

(***************************************************************************)
(* One epoch load serves the whole pass.  `current` is what is left of the *)
(* chunk in hand.                                                          *)
(***************************************************************************)
CallbackBegin ==
  /\ cpc = "idle" /\ tpc # "closed"
  /\ cepoch' = epoch
  /\ IF current # NoChunk /\ current.epoch # epoch
       THEN Recycle /\ current' = NoChunk
       ELSE UNCHANGED <<queueVars, current>>
  /\ written' = 0
  /\ cpc' = "gate"
  /\ pass' = "none"
  /\ UNCHANGED <<cursorVars, transportVars, feederVars, historyVars>>

CallbackGate ==
  /\ cpc = "gate"
  /\ cpc' = IF playing THEN "loop" ELSE "idle"
  /\ pass' = IF playing THEN pass ELSE "silence"
  /\ UNCHANGED <<cepoch, current, written>>
  /\ UNCHANGED <<queueVars, cursorVars, transportVars, feederVars, historyVars>>

CallbackTake ==
  /\ cpc = "loop" /\ current = NoChunk /\ full # <<>>
  /\ IF Head(full).epoch # cepoch
       THEN DiscardChunk /\ UNCHANGED current
       ELSE NextChunk /\ current' = Head(full)
  /\ UNCHANGED <<cpc, cepoch, written, pass>>
  /\ UNCHANGED <<cursorVars, transportVars, feederVars, historyVars>>

CallbackDry ==
  /\ cpc = "loop" /\ current = NoChunk /\ full = <<>>
  /\ cpc' = "dry"
  /\ UNCHANGED <<cepoch, current, written, pass>>
  /\ UNCHANGED <<queueVars, cursorVars, transportVars, feederVars, historyVars>>

(***************************************************************************)
(* Nothing to play: the end if the feeder said so, starvation otherwise.   *)
(***************************************************************************)
CallbackJudge ==
  /\ cpc = "dry"
  /\ cpc' = IF drained = cepoch THEN "end" ELSE "idle"
  /\ pass' = IF drained = cepoch THEN pass ELSE "underrun"
  /\ UNCHANGED <<cepoch, current, written>>
  /\ UNCHANGED <<queueVars, cursorVars, transportVars, feederVars, historyVars>>

CallbackEnd ==
  /\ cpc = "end"
  /\ ended' = TRUE
  /\ cpc' = "idle"
  /\ pass' = "ended"
  /\ UNCHANGED <<frame, epoch, delivered, playing, drained>>
  /\ UNCHANGED <<cepoch, current, written>>
  /\ UNCHANGED <<queueVars, transportVars, feederVars, historyVars>>

\* Mutant: what is left of a chunk starts where the whole chunk did.
CallbackCopyInPlace ==
  /\ cpc = "loop" /\ current # NoChunk
  /\ LET n  == Lesser(current.len, BufferFrames - written)
         to == current.start + n IN
       /\ frame' = to
       /\ heard' = [epoch |-> current.epoch, from |-> current.start, to |-> to]
       /\ written' = written + n
       /\ IF n = current.len
            THEN Recycle /\ current' = NoChunk
            ELSE /\ current' = [current EXCEPT !.len = @ - n]
                 /\ UNCHANGED queueVars
       /\ cpc' = IF written + n = BufferFrames THEN "idle" ELSE "loop"
       /\ pass' = IF written + n = BufferFrames THEN "played" ELSE pass
  /\ delivered' = cepoch
  /\ UNCHANGED <<epoch, playing, drained, ended, cepoch, aimed>>
  /\ UNCHANGED <<transportVars, feederVars>>

(***************************************************************************)
(* Copy what fits, store the playhead and the delivered epoch, recycle the *)
(* chunk when it is used up.                                               *)
(***************************************************************************)
CallbackCopy ==
  /\ cpc = "loop" /\ current # NoChunk
  /\ LET n  == Lesser(current.len, BufferFrames - written)
         to == current.start + n IN
       /\ frame' = to
       /\ heard' = [epoch |-> current.epoch, from |-> current.start, to |-> to]
       /\ written' = written + n
       /\ IF n = current.len
            THEN Recycle /\ current' = NoChunk
            ELSE /\ current' = [current EXCEPT !.start = to, !.len = @ - n]
                 /\ UNCHANGED queueVars
       /\ cpc' = IF written + n = BufferFrames THEN "idle" ELSE "loop"
       /\ pass' = IF written + n = BufferFrames THEN "played" ELSE pass
  /\ delivered' = cepoch
  /\ UNCHANGED <<epoch, playing, drained, ended, cepoch, aimed>>
  /\ UNCHANGED <<transportVars, feederVars>>

Callback == CallbackBegin \/ CallbackGate \/ CallbackTake \/ CallbackDry
            \/ CallbackJudge \/ CallbackEnd \/ CallbackCopy

----------------------------------------------------------------------------
(***************************************************************************)
(* A stopped player is gone: the stream is closed and its feeder joined.   *)
(***************************************************************************)
Closed == tpc = "closed" /\ cpc = "idle" /\ UNCHANGED vars

Next == Operator \/ Transport \/ Feeder \/ Callback \/ Closed

Spec == Init /\ [][Next]_vars

(***************************************************************************)
(* The transport finishes the call it is in and is ticked, the feeder      *)
(* thread is scheduled, and the device keeps calling back.  The operator   *)
(* need never press anything.                                              *)
(***************************************************************************)
FairSpec == Spec /\ WF_vars(Transport) /\ WF_vars(Feeder) /\ WF_vars(Callback)

----------------------------------------------------------------------------
Chunk == [epoch : 0 .. MaxSeeks, start : SpanStart .. SpanEnd - 1,
          len : 1 .. ChunkFrames]

TypeOK ==
  /\ full \in Seq(Chunk) /\ spent \in 0 .. Depth /\ spare \in 0 .. Depth
  /\ released \in BOOLEAN
  /\ frame \in SpanStart .. SpanEnd /\ epoch \in 0 .. MaxSeeks
  /\ delivered \in 0 .. MaxSeeks /\ playing \in BOOLEAN /\ ended \in BOOLEAN
  /\ drained \in 0 .. MaxSeeks \cup {NotDrained}
  /\ tpc \in {"idle", "frame", "drained", "ended", "epoch", "joining", "closed"}
  /\ landing \in SpanStart .. SpanEnd - 1
  /\ announced \in BOOLEAN /\ stop \in BOOLEAN
  /\ fpc \in {"start", "open", "look", "seek", "take", "send", "drained",
              "refused", "failed", "unopened", "done"}
  /\ fepoch \in 0 .. MaxSeeks /\ position \in SpanStart .. SpanEnd
  /\ filled \in Chunk \cup {NoChunk}
  /\ cpc \in {"idle", "gate", "loop", "dry", "end"}
  /\ cepoch \in 0 .. MaxSeeks /\ current \in Chunk \cup {NoChunk}
  /\ written \in 0 .. BufferFrames
  /\ pass \in {"none", "silence", "played", "underrun", "ended"}
  /\ aimed \in [0 .. MaxSeeks -> SpanStart .. SpanEnd - 1]
  /\ heard \in [epoch : -1 .. MaxSeeks, from : SpanStart .. SpanEnd,
                to : SpanStart .. SpanEnd]

(***************************************************************************)
(* chunks.rs: "Chunks are never created, never dropped and never resized". *)
(* Every buffer is in exactly one place, so the pool never shrinks, a send *)
(* always finds a slot (step() calls its failure unreachable) and a        *)
(* recycle never drops the buffer it returns.                              *)
(***************************************************************************)
InHand(chunk) == IF chunk = NoChunk THEN 0 ELSE 1

PoolConserved ==
  Len(full) + spent + spare + InHand(filled) + InHand(current) = Depth

(***************************************************************************)
(* What the device is given never goes back to an epoch a seek has ended,  *)
(* and inside one epoch every piece starts at the frame the last one       *)
(* stopped at, across callbacks, pauses and chunk boundaries.              *)
(***************************************************************************)
EpochContiguous ==
  [][CallbackCopy =>
       \/ heard'.epoch = heard.epoch /\ heard'.from = heard.to
       \/ heard'.epoch > heard.epoch]_vars

(***************************************************************************)
(* feeding() refuses a hole in the timeline: what the device is given is   *)
(* always audio the project holds.                                         *)
(***************************************************************************)
HoleIsNeverHeard == (heard.from .. heard.to - 1) \cap Holes = {}

(***************************************************************************)
(* A seek that is not overtaken by another is joined while the transport   *)
(* plays and the feeder lives: the device is given audio of the new epoch, *)
(* or a callback of the new epoch is told that there is none.  An end that *)
(* a callback of the old epoch stores is no answer to the seek.            *)
(*                                                                         *)
(* Two races are inside what is excused.  That late end, stored after the  *)
(* seek has cleared it (audio/playback.rs:458-459), makes the next tick    *)
(* stop the transport, and a transport that does not play joins nothing;   *)
(* and a playhead stored late (474) can send the feeder to the end of the  *)
(* span, so that the new epoch has no audio.  Either loses a seek that was *)
(* left alone.  A feeder is gone after a refusal.                          *)
(***************************************************************************)
FoundNothing(e) == pass = "ended" /\ cepoch = e

SeekJoins ==
  \A e \in 1 .. MaxSeeks :
    epoch = e ~> \/ delivered = e \/ FoundNothing(e) \/ epoch > e
                 \/ ~playing \/ stop \/ FeederGone

(***************************************************************************)
(* stop() joins the feeder, which always sees the flag.                    *)
(***************************************************************************)
StopCloses == stop ~> tpc = "closed"

=============================================================================
