--------------------------- MODULE PlaybackRender ---------------------------
(***************************************************************************)
(* render() of crates/core/src/playback.rs: the queue, the feeder step and *)
(* the callback of Playback, driven in turns by one thread.  Cues are      *)
(* applied, the queue is topped up until it is full or the span is read    *)
(* out, then one callback runs.                                            *)
(*                                                                         *)
(* render() never calls hold_back(), and asks for a period of one chunk at *)
(* a time (playback.rs:1056, 1076).                                        *)
(***************************************************************************)
EXTENDS Playback

ASSUME RenderAssumption == HeldBack = 0 /\ BufferFrames = ChunkFrames

VARIABLES
  turn,    \* whose turn it is
  gaps     \* history: underruns counted in each epoch, up to two

renderVars == <<turn, gaps>>

RenderInit ==
  /\ Init
  /\ turn = "cues"
  /\ gaps = [e \in 0 .. MaxSeeks |-> 0]

(***************************************************************************)
(* A render is playing from the start; Play and Pause cues do nothing.     *)
(***************************************************************************)
RenderStart ==
  /\ turn = "cues" /\ ~playing
  /\ Play
  /\ UNCHANGED renderVars

(***************************************************************************)
(* Cues: Verb::Seek, SkipForward and SkipBack.                             *)
(***************************************************************************)
RenderCue ==
  /\ turn = "cues" /\ playing
  /\ \/ Seek \/ SkipForward \/ SkipBack
     \/ SeekStoreFrame \/ SeekClearDrained \/ SeekClearEnded \/ SeekBumpEpoch
  /\ UNCHANGED renderVars

(***************************************************************************)
(* Verb::Stop returns what has been rendered so far.                       *)
(***************************************************************************)
RenderStop ==
  /\ turn = "cues" /\ playing /\ tpc = "idle"
  /\ turn' = "stopped"
  /\ UNCHANGED <<vars, gaps>>

RenderFeed ==
  /\ turn = "cues" /\ playing /\ tpc = "idle"
  /\ turn' = "feed"
  /\ UNCHANGED <<vars, gaps>>

(***************************************************************************)
(* The inner loop ends on Progress::Full, Progress::Drained or an error.   *)
(***************************************************************************)
RenderStep ==
  /\ turn = "feed"
  /\ Feeder
  /\ turn' = IF FeederFull \/ FeederMarkDrained THEN "play" ELSE "feed"
  /\ UNCHANGED gaps

RenderPlay ==
  /\ turn = "play"
  /\ ~FeederGone
  /\ Callback
  /\ turn' = IF cpc' # "idle" THEN "play" ELSE IF ended' THEN "over" ELSE "cues"
  /\ gaps' = IF CallbackJudge /\ pass' = "underrun"
               THEN [gaps EXCEPT ![cepoch] = Lesser(@ + 1, 2)] ELSE gaps

(***************************************************************************)
(* The render has returned, with the audio or with the error.              *)
(***************************************************************************)
RenderOver ==
  /\ turn \in {"over", "stopped"} \/ FeederGone
  /\ UNCHANGED <<vars, renderVars>>

RenderNext == RenderStart \/ RenderCue \/ RenderStop \/ RenderFeed
              \/ RenderStep \/ RenderPlay \/ RenderOver

RenderSpec == RenderInit /\ [][RenderNext]_<<vars, renderVars>>

FairRender == RenderSpec /\ WF_<<vars, renderVars>>(RenderNext)

----------------------------------------------------------------------------
(***************************************************************************)
(* render(): "the only thing that can starve is a seek, which costs        *)
(* exactly one period".  No epoch sees a second underrun, and the epoch    *)
(* the render starts in sees none.                                         *)
(***************************************************************************)
StarvesOncePerSeek ==
  /\ gaps[0] = 0
  /\ \A e \in 1 .. MaxSeeks : gaps[e] <= 1

(***************************************************************************)
(* STATUS.md on a seek: nothing repeated, nothing missing.  The first      *)
(* piece heard of an epoch starts where its seek aimed.                    *)
(***************************************************************************)
JoinIsExact ==
  [][heard'.epoch > heard.epoch => heard'.from = aimed[heard'.epoch]]_vars

(***************************************************************************)
(* A finished render has played the end of the span, in the epoch of its   *)
(* last seek: the drained flag is never early.                             *)
(***************************************************************************)
PlayedOut == turn = "over" => heard.epoch = epoch /\ heard.to = SpanEnd

(***************************************************************************)
(* A render ends: every cue fires once, so it plays out, is stopped or     *)
(* refuses; and what it has given until then is exact.                     *)
(***************************************************************************)
RenderEnds ==
  /\ JoinIsExact
  /\ []PlayedOut
  /\ <>(turn \in {"over", "stopped"} \/ FeederGone)

=============================================================================
