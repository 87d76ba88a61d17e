---------------------------- MODULE EngineEvents ----------------------------
(***************************************************************************)
(* The engine thread with everything that hangs on it: the command loop of *)
(* crates/core/src/engine.rs, the meter and the detector workers           *)
(* (metering.rs, detection.rs) on the lossy taps of the writer's source    *)
(* (buffers.rs), and the bus they all publish on (events.rs).              *)
(*                                                                         *)
(* The bus hands every event to every subscriber, in the order published,  *)
(* under one lock: what a subscriber makes of the stream is therefore a    *)
(* function of that order, and `heard` is kept as that function.           *)
(*                                                                         *)
(* CaptureEngine has one capture, from armed to rest; here it is joined by *)
(* a second Recorder, the one an Arm opens before the transport is asked   *)
(* whether it may be armed.                                                *)
(***************************************************************************)
EXTENDS CaptureEngine, FiniteSets

CONSTANTS
  TapFrames,    \* frames the detector's tap holds
  MaxDetected   \* bound: boundaries told in one behaviour

ASSUME LiveAssumption == TapFrames \in Nat \ {0} /\ MaxDetected \in Nat

VARIABLES
  turn,      \* the engine thread: "wait" for a command, "tell" a position, ...
  told,      \* last_position, NotReported when it is to be told anew
  asked,     \* whether a shutdown was asked for
  meter,     \* the meter worker
  detector,  \* the detector worker
  stray,     \* the Recorder of an Arm that did not apply
  heard      \* what a subscriber has made of the stream

busVars  == <<turn, told, asked, meter, detector, stray, heard>>
liveVars == <<vars, busVars>>

(***************************************************************************)
(* A worker runs until its flag falls.  Of the meter all that matters is   *)
(* whether there is audio, in its tap or fed, it has not told the level    *)
(* of; the detector has its tap and, in `saw`, the frames it has analysed. *)
(***************************************************************************)
MeterAtWork == [pc |-> "head", running |-> TRUE, news |-> FALSE]
DetectorAtWork == [pc |-> "head", running |-> TRUE, tap |-> <<>>, saw |-> <<>>]

Unheard == [phase |-> "armed", position |-> 0, finished |-> 0, closed |-> FALSE,
            lateWorker |-> FALSE, afterClosed |-> FALSE, detected |-> {}]

LiveInit ==
  /\ Init
  /\ turn = "wait" /\ told = NotReported /\ asked = FALSE
  /\ meter = MeterAtWork /\ detector = DetectorAtWork
  /\ stray = FALSE
  /\ heard = Unheard

----------------------------------------------------------------------------
(* Bus::publish, as a subscriber sees it.                                  *)

Hear(h) == [h EXCEPT !.afterClosed = heard.closed]

HearPhase(p)     == heard' = Hear([heard EXCEPT !.phase = p])
HearPosition(n)  == heard' = Hear([heard EXCEPT !.position = n])
HearFinished     == heard' = Hear([heard EXCEPT !.phase = "stopped", !.finished = @ + 1])
HearClosed       == heard' = Hear([heard EXCEPT !.closed = TRUE])
HearWorker       == heard' = Hear([heard EXCEPT !.lateWorker = heard.finished > 0])
HearDetected(at, was) ==
  heard' = Hear([heard EXCEPT !.lateWorker = heard.finished > 0,
                              !.detected = @ \cup {[at |-> at, was |-> was]}])

----------------------------------------------------------------------------
(***************************************************************************)
(* The taps.  Tee::read offers what the writer has read, paused or not, to *)
(* each tap, whole; a tap that cannot take it drops it and counts the loss. *)
(***************************************************************************)
TeeRead == SubSeq(ring, 1, Len(ring) - Len(ring'))

Offered(tap, audio) == IF Len(tap) + Len(audio) <= TapFrames THEN tap \o audio ELSE tap

OfferToTaps ==
  IF wpc = "read" /\ ring' # ring
  THEN /\ meter' = [meter EXCEPT !.news = (meter.pc # "gone")]
       /\ detector' = IF detector.pc = "gone" THEN detector
                      ELSE [detector EXCEPT !.tap = Offered(@, TeeRead)]
  ELSE UNCHANGED <<meter, detector>>

(* The Tee belongs to the writer's thread and goes with it.                *)
Abandoned == Ended

----------------------------------------------------------------------------
(* The meter: metering.rs, run().                                          *)

(***************************************************************************)
(* One turn of the loop: the flag, everything waiting, and a snapshot when *)
(* one is due, never without audio to take it of.                          *)
(***************************************************************************)
MeterTurn ==
  /\ meter.pc = "head" /\ meter.running
  /\ LET next == IF Abandoned THEN "last" ELSE "head"
     IN  \/ meter.news /\ HearWorker
            /\ meter' = [meter EXCEPT !.pc = next, !.news = FALSE]
         \/ meter' = [meter EXCEPT !.pc = next] /\ UNCHANGED heard
  /\ UNCHANGED <<vars, turn, told, asked, detector, stray>>

MeterToldToStop ==
  /\ meter.pc = "head" /\ ~meter.running
  /\ meter' = [meter EXCEPT !.pc = "last"]
  /\ UNCHANGED <<vars, turn, told, asked, detector, stray, heard>>

MeterLast ==
  /\ meter.pc = "last"
  /\ IF meter.news THEN HearWorker ELSE UNCHANGED heard
  /\ meter' = [meter EXCEPT !.pc = "gone", !.news = FALSE]
  /\ UNCHANGED <<vars, turn, told, asked, detector, stray>>

Meter == MeterTurn \/ MeterToldToStop \/ MeterLast

----------------------------------------------------------------------------
(* The detector: detection.rs, run().                                      *)

(* As the meter's: the flag once, then everything waiting.                 *)
DetectorDrain ==
  /\ detector.pc = "head"
  /\ detector' = [detector EXCEPT !.pc = IF detector.running THEN "tell" ELSE "tell-last",
                                  !.saw = @ \o detector.tap, !.tap = <<>>]
  /\ UNCHANGED <<vars, turn, told, asked, meter, stray, heard>>

(***************************************************************************)
(* A boundary the analysis has settled on, anywhere in what was analysed,  *)
(* told once.  Its frame is where it is in the audio the worker was given. *)
(***************************************************************************)
DetectorTell ==
  /\ detector.pc \in {"tell", "tell-last"}
  /\ Cardinality(heard.detected) < MaxDetected
  /\ \E i \in DOMAIN detector.saw :
       /\ \A d \in heard.detected : d.at < i - 1
       /\ HearDetected(i - 1, detector.saw[i])
  /\ UNCHANGED <<vars, turn, told, asked, meter, detector, stray>>

DetectorGoOn ==
  /\ detector.pc \in {"tell", "tell-last"}
  /\ detector' =
       IF detector.pc = "tell-last" \/ (Abandoned /\ detector.tap = <<>>)
       THEN [detector EXCEPT !.pc = "gone", !.tap = <<>>, !.saw = <<>>]
       ELSE [detector EXCEPT !.pc = "head"]
  /\ UNCHANGED <<vars, turn, told, asked, meter, stray, heard>>

Detector == DetectorDrain \/ DetectorTell \/ DetectorGoOn

----------------------------------------------------------------------------
(* The engine thread: run(), dispatch(), report().                         *)

Waiting == turn = "wait" /\ ~asked

(* A transition that moved: the position is told anew.                     *)
Moved == turn' = "tell" /\ told' = NotReported /\ UNCHANGED <<asked, stray>>

LiveMove ==
  /\ Waiting
  /\ Record \/ Pause \/ Resume
  /\ HearPhase(phase')
  /\ Moved
  /\ UNCHANGED <<meter, detector>>

LiveDisarm ==
  /\ Waiting
  /\ BeginDisarm
  /\ HearPhase("idle")
  /\ turn' = "halt"
  /\ UNCHANGED <<told, asked, meter, detector, stray>>

LiveStop ==
  /\ Waiting
  /\ BeginStop
  /\ turn' = "halt"
  /\ UNCHANGED <<told, asked, meter, detector, stray, heard>>

LiveReset ==
  /\ Waiting
  /\ phase = "stopped" /\ call = "over"
  /\ phase' = "idle"
  /\ HearPhase("idle")
  /\ Moved
  /\ UNCHANGED <<call, ending, reported, captureVars, meter, detector>>

Poll ==
  /\ Waiting
  /\ HearPhase(phase)
  /\ turn' = "tell"
  /\ UNCHANGED <<vars, told, asked, meter, detector, stray>>

\* Mutant: the position of what is prepared, not of what is committed.
TellPositionAhead ==
  /\ turn = "tell" \/ (turn = "wait" /\ ~asked)
  /\ IF phase = "recording" /\ startFrame # told
     THEN HearPosition(startFrame) /\ told' = startFrame
     ELSE turn = "tell" /\ UNCHANGED <<heard, told>>
  /\ turn' = "wait"
  /\ UNCHANGED <<vars, asked, meter, detector, stray>>

(***************************************************************************)
(* The foot of the loop, after a command or a tick without one.            *)
(***************************************************************************)
TellPosition ==
  /\ turn = "tell" \/ (turn = "wait" /\ ~asked)
  /\ IF phase = "recording" /\ frames # told
     THEN HearPosition(frames) /\ told' = frames
     ELSE turn = "tell" /\ UNCHANGED <<heard, told>>
  /\ turn' = "wait"
  /\ UNCHANGED <<vars, asked, meter, detector, stray>>

(***************************************************************************)
(* Recorder::halt: the workers are told and joined, the meter first, and   *)
(* only then the writer.                                                   *)
(***************************************************************************)
StopMeter ==
  /\ call = "result" /\ meter.running
  /\ meter' = [meter EXCEPT !.running = FALSE]
  /\ UNCHANGED <<vars, turn, told, asked, detector, stray, heard>>

StopDetector ==
  /\ call = "result" /\ meter.pc = "gone" /\ detector.running
  /\ detector' = [detector EXCEPT !.running = FALSE]
  /\ UNCHANGED <<vars, turn, told, asked, meter, stray, heard>>

\* Mutant: the detector is told to stop and not waited for.
WorkersGoneLax == meter.pc = "gone" /\ ~detector.running

WorkersGone == meter.pc = "gone" /\ detector.pc = "gone"

HaltWriter ==
  /\ \/ WorkersGone /\ HaltSetResult
     \/ HaltStop \/ HaltJoin \/ RemoveRow \/ RecordVerification
  /\ UNCHANGED busVars

\* Mutant: the finish of a side is told, the phase is not.
TellTheFinishOnly ==
  IF phase = "stopped" THEN heard' = Hear([heard EXCEPT !.finished = @ + 1])
  ELSE UNCHANGED heard

(***************************************************************************)
(* report() and finished().  A stop that went through is a phase and a     *)
(* finish; one that did not is a refusal, which a subscriber takes at its  *)
(* word; a disarm has been told of already, and by finalise() never is.    *)
(***************************************************************************)
TellTheStop == IF phase = "stopped" THEN HearFinished ELSE UNCHANGED heard

LiveRelease ==
  /\ Release
  /\ TellTheStop
  /\ turn' = "tell" /\ told' = NotReported
  /\ UNCHANGED <<asked, meter, detector, stray>>

(***************************************************************************)
(* Shutdown, or the last sender gone: finalise() stops what is recording   *)
(* and abandons what is armed.                                             *)
(***************************************************************************)
Shutdown ==
  /\ Waiting
  /\ asked' = TRUE
  /\ \/ (BeginStop \/ BeginDisarm) /\ turn' = "halt"
     \/ call = "over" /\ UNCHANGED <<vars, turn>>
  /\ UNCHANGED <<told, meter, detector, stray, heard>>

\* Mutant: the last event is published before the machine is brought to rest.
SayFarewellFirst ==
  /\ asked /\ ~heard.closed
  /\ HearClosed
  /\ UNCHANGED <<vars, turn, told, asked, meter, detector, stray>>

(* The machine is dropped, and then Farewell publishes the last event.     *)
SayFarewell ==
  /\ asked /\ call = "over" /\ ~heard.closed
  /\ HearClosed
  /\ turn' = "over"
  /\ UNCHANGED <<vars, told, asked, meter, detector, stray>>

----------------------------------------------------------------------------
(***************************************************************************)
(* Arm where it does not apply.  The Recorder is opened and announced, and *)
(* apply() drops it with the step: its writer is stopped and joined, and   *)
(* closes a row of no frames; its workers are told, not joined, and may    *)
(* still have a level to tell.                                             *)
(***************************************************************************)
ArmAgain ==
  /\ Waiting
  /\ phase # "idle" /\ ~stray
  /\ stray' = TRUE
  /\ turn' = "tell"
  /\ UNCHANGED <<vars, told, asked, meter, detector, heard>>

StrayTells ==
  /\ stray
  /\ heard' = Hear(heard)
  /\ UNCHANGED <<vars, turn, told, asked, meter, detector, stray>>

----------------------------------------------------------------------------
EngineThread ==
  \/ TellPosition \/ StopMeter \/ StopDetector \/ HaltWriter \/ LiveRelease
  \/ SayFarewell

Commands == LiveMove \/ LiveDisarm \/ LiveStop \/ LiveReset \/ Poll \/ Shutdown \/ ArmAgain

LiveDevice == Device /\ UNCHANGED <<engineVars, busVars>>

LiveWriter ==
  /\ Writer
  /\ OfferToTaps
  /\ UNCHANGED <<engineVars, turn, told, asked, stray, heard>>

LiveNext ==
  \/ LiveDevice \/ LiveWriter
  \/ Meter \/ Detector \/ StrayTells
  \/ EngineThread \/ Commands

LiveSpec == LiveInit /\ [][LiveNext]_liveVars

(***************************************************************************)
(* The threads run on, as in CaptureEngine; the workers are threads too.   *)
(* No command need be given.  A detector has finitely much to tell.        *)
(***************************************************************************)
FairLiveSpec ==
  /\ LiveSpec
  /\ WF_liveVars(LiveWriter /\ ~PersistDiagnostics)
  /\ SF_liveVars(LiveWriter /\ PersistDiagnostics)
  /\ WF_liveVars(LiveDevice /\ CallbackCount)
  /\ WF_liveVars(Meter)
  /\ WF_liveVars(Detector)
  /\ WF_liveVars(EngineThread)

----------------------------------------------------------------------------
(***************************************************************************)
(* What a subscriber believes of the transport is so whenever the engine   *)
(* waits for a command, but for one case: a stop that failed leaves the    *)
(* transport idle, and the refusal names the phase it was in.  A position  *)
(* it was told is of audio the project holds, whatever becomes of the      *)
(* transaction under way.                                                  *)
(* engine.rs:569-579, 671-718, state.rs:885-905, events.rs:107-115.        *)
(***************************************************************************)
StreamTellsTheTransport ==
  /\ turn = "wait" /\ ~asked =>
       \/ heard.phase = phase
       \/ phase = "idle" /\ wpc = "dead"
       \/ phase = "idle" /\ failures > 0
  /\ heard.position <= row.frames

(***************************************************************************)
(* A side is told finished once, when it is, and nothing of its meter or   *)
(* its detector comes after; the last event is "Always the last event",    *)
(* unless an Arm was turned down, whose workers nobody waits for.          *)
(* engine.rs:331-344, 651-669, 803-808; events.rs:257-262.                 *)
(***************************************************************************)
StreamEndsOnce ==
  /\ heard.finished <= 1
  /\ heard.finished = 1 => row.finished /\ row.frames >= heard.position
  /\ ~heard.lateWorker
  /\ heard.afterClosed => stray

(***************************************************************************)
(* ... "and always sent": a shutdown ends in the last event, from whatever *)
(* phase and with whatever transaction failing.  events.rs:257-262.        *)
(***************************************************************************)
ShutdownCloses == asked ~> heard.closed

(***************************************************************************)
(* BoundaryObservation::at is "the frame the boundary sits at, in the      *)
(* capture's own timeline": the boundary told at a frame the project holds *)
(* is in the audio stored there.                                           *)
(***************************************************************************)
DetectedIsWhereItWas ==
  \A d \in heard.detected : d.at < EndOf(blocks) =>
    \E i \in DOMAIN blocks :
      /\ blocks[i].start <= d.at /\ d.at < blocks[i].start + Len(blocks[i].audio)
      /\ blocks[i].audio[d.at - blocks[i].start + 1] = d.was
=============================================================================
