----------------------------- MODULE EngineProofs -----------------------------
(***************************************************************************)
(* Proofs about a capture under the engine thread, about what it tells its *)
(* subscribers, and that with kills and recovery it implements Archive:    *)
(* for every size of block, batch, ring, callback and tap, any number of   *)
(* channels and of failed transactions.                                    *)
(***************************************************************************)
EXTENDS EngineEvents, CaptureRecovery, CaptureProofs, FiniteSetTheorems

USE DEF captureVars, deviceVars, handleVars, threadVars, writerVars, projectVars,
        engineVars, vars, busVars, liveVars

----------------------------------------------------------------------------
(***************************************************************************)
(* The types of what the engine adds to the pipeline.                      *)
(***************************************************************************)
Phases == {"armed", "recording", "paused", "stopped", "idle"}

Halting == {"result", "stop", "join", "verify", "remove", "release"}

EngineTypes ==
  /\ phase \in Phases /\ call \in {"none", "over"} \cup Halting
  /\ ending \in Endings /\ reported \in Nat \cup {NotReported}

(***************************************************************************)
(* Nothing has been written for a deck that was never recording.           *)
(***************************************************************************)
Untouched ==
  /\ pause /\ paused /\ wasPaused
  /\ pending = <<>> /\ batch = <<>> /\ blocks = <<>>
  /\ startFrame = 0 /\ frames = 0

(***************************************************************************)
(* Where the command under way stands, and what the writer has done by     *)
(* then.                                                                   *)
(***************************************************************************)
CommandInv ==
  /\ phase = "armed" => call = "none"
  /\ call = "none" => phase \in {"armed", "recording", "paused"}
  /\ call \in {"result", "stop", "join"} => phase \in {"recording", "paused", "idle"}
  /\ call = "verify" => phase \in {"recording", "paused"}
  /\ call = "remove" => phase = "idle"
  /\ call \in {"release", "over"} => phase \in {"stopped", "idle"}
  /\ stop <=> call \in {"join", "verify", "remove", "release", "over"}
  /\ call \notin {"none", "result"} => result.state = ending
  /\ call \in {"verify", "remove", "release", "over"} => Ended
  /\ call \in {"verify", "remove"} => wpc = "done"

WriterInv ==
  /\ wpc \in {"result", "finish", "close", "done"} => stop
  /\ wpc = "done" => row.finished /\ row.state \in {result.state, "absent"}
  /\ wpc \in {"failed", "close-interrupted", "dead"} => failures > 0

RowInv ==
  /\ row.state = "absent" =>
       phase = "idle" /\ call \in {"release", "over"} /\ blocks = <<>> /\ row.frames = 0
  /\ reported # NotReported => call \in {"release", "over"}
  /\ StoppedAgreesWithRow
  /\ phase = "stopped" => wpc = "done" /\ reported # NotReported
  /\ phase = "idle" /\ reported = NotReported /\ failures = 0 =>
       call \in {"result", "stop", "join", "remove"} \/ row.state = "absent"
  /\ phase = "armed" \/ (phase = "idle" /\ call \in {"result", "stop", "join", "remove"}) =>
       Untouched

EngineInv ==
  /\ TypeOK /\ TimelineInv /\ ThreadInv /\ LossInv
  /\ EngineTypes /\ CommandInv /\ WriterInv /\ RowInv

----------------------------------------------------------------------------
(***************************************************************************)
(* The types of the workers and of what a subscriber has heard.            *)
(***************************************************************************)
HeardTypes ==
  heard \in [phase : Phases, position : Nat, finished : Nat, closed : BOOLEAN,
             lateWorker : BOOLEAN, afterClosed : BOOLEAN,
             detected : SUBSET [at : Nat, was : Frame]]

BusTypes ==
  /\ turn \in {"wait", "tell", "halt", "over"}
  /\ told \in Nat \cup {NotReported} /\ asked \in BOOLEAN /\ stray \in BOOLEAN
  /\ meter \in [pc : {"head", "last", "gone"}, running : BOOLEAN, news : BOOLEAN]
  /\ detector \in [pc : {"head", "tell", "tell-last", "gone"}, running : BOOLEAN,
                   tap : Seq(Frame), saw : Seq(Frame)]
  /\ HeardTypes

(***************************************************************************)
(* What has been told, against what is so.                                 *)
(***************************************************************************)
HeardInv ==
  /\ turn = "halt" <=> call \in Halting
  /\ \/ asked
     \/ heard.phase = phase
     \/ phase = "idle" /\ failures > 0
     \/ phase = "stopped" /\ call = "release"
  /\ heard.position <= frames
  /\ heard.finished <= 1
  /\ heard.finished = 1 => call = "over" /\ row.finished
  /\ call \notin {"none", "result"} => WorkersGone
  /\ ~heard.lateWorker
  /\ heard.closed => turn = "over" /\ call = "over"
  /\ turn = "over" => asked
  /\ heard.afterClosed => stray

LiveInv == EngineInv /\ BusTypes /\ HeardInv

----------------------------------------------------------------------------
(* What a step of the whole engine does to the capture.                    *)

Reset ==
  /\ phase = "stopped" /\ call = "over"
  /\ phase' = "idle"
  /\ UNCHANGED <<call, ending, reported, captureVars>>

EngineStep ==
  \/ (Device \/ Writer) /\ UNCHANGED engineVars
  \/ Command \/ Halt \/ Reset
  \/ UNCHANGED vars

LEMMA LiveIsEngine ==
  ASSUME [LiveNext]_liveVars
  PROVE  EngineStep
<1>1. CASE LiveDevice \/ LiveWriter
  BY <1>1 DEF LiveDevice, LiveWriter, EngineStep
<1>2. CASE Meter \/ Detector \/ StrayTells \/ UNCHANGED liveVars
  BY <1>2 DEF Meter, MeterTurn, MeterToldToStop, MeterLast, Detector, DetectorDrain,
     DetectorTell, DetectorGoOn, StrayTells, EngineStep
<1>3. CASE TellPosition \/ StopMeter \/ StopDetector \/ SayFarewell \/ Poll \/ ArmAgain
  BY <1>3 DEF TellPosition, StopMeter, StopDetector, SayFarewell, Poll, ArmAgain, EngineStep
<1>4. CASE HaltWriter \/ LiveRelease
  BY <1>4 DEF HaltWriter, LiveRelease, Halt, EngineStep
<1>5. CASE LiveMove \/ LiveDisarm \/ LiveStop \/ LiveReset \/ Shutdown
  BY <1>5 DEF LiveMove, LiveDisarm, LiveStop, LiveReset, Shutdown, Command, Reset, EngineStep
<1> QED
  BY <1>1, <1>2, <1>3, <1>4, <1>5 DEF LiveNext, EngineThread, Commands

LEMMA PipelineKept ==
  ASSUME EngineInv, EngineStep
  PROVE  TypeOK' /\ TimelineInv' /\ ThreadInv' /\ LossInv'
<1> USE DEF EngineInv
<1>1. CASE Device \/ Writer
  BY <1>1, DeviceType, DeviceAside, WriterType, TimelineStep, ThreadStep, ThreadAside, LossStep
<1>2. ASSUME UNCHANGED captureVars
      PROVE  TypeOK' /\ TimelineInv' /\ ThreadInv' /\ LossInv'
  BY <1>2, RowNoted DEF TypeOK
<1>3. ASSUME NEW state \in Endings, NEW counters \in Nat, NEW on \in BOOLEAN,
             SetResult(state, counters) \/ SetPause(on) \/ SetStop \/ CloseStream
      PROVE  TypeOK' /\ TimelineInv' /\ ThreadInv' /\ LossInv'
  BY <1>3, HandleType, HandleAside, TimelineStep, ThreadAside, LossStep
<1>4. CASE Command
  <2>1. CASE Record \/ Pause \/ Resume
    <3>1. SetPause(TRUE) \/ SetPause(FALSE)
      BY <2>1 DEF Record, Pause, Resume, Move
    <3> QED
      BY <1>3, <3>1 DEF Endings
  <2>2. CASE BeginStop \/ BeginDisarm
    BY <1>2, <2>2 DEF BeginStop, BeginDisarm
  <2> QED
    BY <1>4, <2>1, <2>2 DEF Command
<1>5. CASE HaltSetResult \/ HaltStop \/ Release
  <2>1. ending \in Endings /\ lost \in Nat
    BY DEF TypeOK, EngineTypes
  <2> QED
    BY <1>3, <1>5, <2>1 DEF HaltSetResult, HaltStop, Release
<1>6. CASE HaltJoin \/ Reset \/ UNCHANGED vars
  BY <1>2, <1>6 DEF HaltJoin, Reset
<1>7. CASE RemoveRow
  <2>1. /\ row' \in Row /\ failures' \in Nat /\ row'.frames = row.frames
        /\ row'.finished = row.finished /\ blocks' = blocks
    BY <1>7 DEF RemoveRow, TransactionFails, TypeOK, Row
  <2> QED
    BY <1>7, <2>1, RowNoted DEF RemoveRow
<1>8. CASE RecordVerification
  <2>1. row' = row /\ failures' \in Nat /\ blocks' = blocks
    BY <1>8 DEF RecordVerification, TransactionFails, TypeOK
  <2> QED
    BY <1>8, <2>1, RowNoted DEF RecordVerification, TypeOK
<1> QED
  BY <1>1, <1>2, <1>4, <1>5, <1>6, <1>7, <1>8 DEF EngineStep, Halt

LEMMA EngineTypesKept ==
  ASSUME EngineInv, EngineStep
  PROVE  EngineTypes'
<1> USE DEF EngineInv, EngineTypes, Phases, Halting
<1>1. CASE UNCHANGED engineVars
  BY <1>1
<1>2. CASE Command \/ Reset
  BY <1>2 DEF Command, Record, Pause, Resume, Move, BeginStop, BeginDisarm, Reset, Endings
<1>3. CASE Halt
  BY <1>3 DEF Halt, HaltSetResult, HaltStop, HaltJoin, RemoveRow, RecordVerification,
     Release, TypeOK
<1> QED
  BY <1>1, <1>2, <1>3 DEF EngineStep

LEMMA CommandKept ==
  ASSUME EngineInv, EngineStep
  PROVE  CommandInv'
<1> USE DEF EngineInv, CommandInv
<1>1. CASE (Device \/ Writer) /\ UNCHANGED engineVars
  <2>1. UNCHANGED handleVars /\ (Ended => wpc' = wpc)
    BY <1>1, DeviceAside, WriterMoves DEF Aside
  <2> QED
    BY <1>1, <2>1 DEF Ended
<1>2. CASE Command
  BY <1>2 DEF Command, Record, Pause, Resume, Move, SetPause, BeginStop, BeginDisarm
<1>3. CASE Reset \/ UNCHANGED vars
  BY <1>3 DEF Reset, Ended
<1>4. CASE HaltSetResult \/ HaltStop \/ Release
  BY <1>4 DEF HaltSetResult, SetResult, HaltStop, SetStop, Release, CloseStream, Ended, TypeOK
<1>5. CASE HaltJoin
  BY <1>5 DEF HaltJoin, Ended
<1>6. CASE RemoveRow \/ RecordVerification
  BY <1>6 DEF RemoveRow, RecordVerification, Ended
<1> QED
  BY <1>1, <1>2, <1>3, <1>4, <1>5, <1>6 DEF EngineStep, Halt

LEMMA WriterKept ==
  ASSUME EngineInv, EngineStep
  PROVE  WriterInv'
<1> USE DEF EngineInv, WriterInv
<1>1. CASE Writer
  BY <1>1, WriterMoves, WriterCloses DEF TypeOK
<1>2. CASE Device \/ UNCHANGED captureVars
  BY <1>2, DeviceAside DEF Aside
<1>3. CASE Record \/ Pause \/ Resume \/ HaltStop \/ Release
  BY <1>3 DEF Record, Pause, Resume, Move, SetPause, HaltStop, SetStop, Release, CloseStream
<1>4. CASE HaltSetResult
  <2>1. ~stop
    BY <1>4 DEF HaltSetResult, CommandInv
  <2> QED
    BY <1>4, <2>1 DEF HaltSetResult, SetResult
<1>5. CASE BeginStop \/ BeginDisarm \/ HaltJoin \/ Reset
  BY <1>2, <1>5 DEF BeginStop, BeginDisarm, HaltJoin, Reset
<1>6. CASE RemoveRow \/ RecordVerification
  BY <1>6 DEF RemoveRow, RecordVerification, TransactionFails, TypeOK, Row
<1> QED
  BY <1>1, <1>2, <1>3, <1>4, <1>5, <1>6 DEF EngineStep, Halt, Command

(***************************************************************************)
(* A writer that has never been let go of writes nothing, whatever it is   *)
(* told and however it ends.                                               *)
(***************************************************************************)
LEMMA UntouchedKept ==
  ASSUME TypeOK, ThreadInv, Untouched, Writer
  PROVE  Untouched'
<1> USE DEF Untouched
<1>1. wpc \notin {"pause", "push", "commit", "failed"}
  BY DEF ThreadInv
<1>2. ShortBlock = <<>> /\ batch \o ShortBlock = <<>>
  BY DEF ShortBlock
<1>3. Len(pending) = 0 /\ startFrame + Len(pending) = 0
  OBVIOUS
<1>4. ASSUME NEW next, FlushBy(next)
      PROVE  Untouched'
  BY <1>2, <1>3, <1>4 DEF FlushBy
<1>5. CASE FlushForPause \/ FlushOrphan \/ FlushAtEnd
  BY <1>1, <1>4, <1>5 DEF FlushForPause, FlushOrphan, FlushAtEnd
<1>6. CASE PushShort \/ PushBlock \/ CommitBatch
  BY <1>1, <1>6 DEF PushShort, PushBlock, CommitBatch
<1>7. CASE LoadPause \/ Settle \/ Read \/ FoundEmpty \/ Await \/ TakeResult
  BY <1>7 DEF LoadPause, Settle, Read, FoundEmpty, Await, TakeResult
<1>8. CASE PersistDiagnostics \/ CloseAsTold \/ CloseInterrupted
  BY <1>8 DEF PersistDiagnostics, CloseAsTold, CloseInterrupted, CloseSession, TransactionFails
<1> QED
  BY <1>5, <1>6, <1>7, <1>8 DEF Writer

LEMMA RowKept ==
  ASSUME EngineInv, EngineStep
  PROVE  RowInv'
<1> USE DEF EngineInv, RowInv, NotReported
<1>1. CASE Writer /\ UNCHANGED engineVars
  <2>1. ~Ended /\ failures' >= failures /\ failures \in Nat /\ failures' \in Nat
    BY <1>1, WriterMoves DEF TypeOK
  <2>2. call \in {"none", "result", "stop", "join"} /\ phase # "stopped"
    BY <2>1 DEF CommandInv, EngineTypes, Halting, Ended
  <2>3. row.state # "absent" /\ row'.state # "absent"
    BY <1>1, <2>2, WriterCloses DEF Endings
  <2>4. failures' = 0 => failures = 0
    BY <2>1
  <2>5. Untouched => Untouched'
    BY <1>1, UntouchedKept
  <2> QED
    BY <1>1, <2>2, <2>3, <2>4, <2>5 DEF StoppedAgreesWithRow
<1>2. ASSUME UNCHANGED <<wpc, threadVars, writerVars, blocks, pause, phase, ending, reported>>,
             row' = row, failures' = failures,
             call' = call \/ (call = "result" /\ call' = "stop")
               \/ (call = "stop" /\ call' = "join") \/ (call = "release" /\ call' = "over")
      PROVE  RowInv'
  BY <1>2 DEF StoppedAgreesWithRow, Untouched, EndOf, EndAt
<1>3. CASE Device /\ UNCHANGED engineVars
  BY <1>2, <1>3, DeviceAside DEF Aside
<1>4. CASE HaltSetResult \/ HaltStop \/ Release \/ UNCHANGED vars
  BY <1>2, <1>4 DEF HaltSetResult, SetResult, HaltStop, SetStop, Release, CloseStream
<1>5. CASE Command
  <2>1. call = "none" /\ row.state # "absent" /\ phase # "stopped" /\ reported = NotReported
    BY <1>5 DEF Command, Record, Pause, Resume, Move, BeginStop, BeginDisarm, CommandInv
  <2>2. UNCHANGED <<wpc, threadVars, writerVars, blocks, row, failures, reported>>
    BY <1>5 DEF Command, Record, Pause, Resume, Move, SetPause, BeginStop, BeginDisarm
  <2>3. phase' \in {"recording", "paused"}
        \/ (phase' = "idle" /\ call' = "result" /\ phase = "armed" /\ pause' = pause)
    BY <1>5 DEF Command, Record, Pause, Resume, Move, BeginStop, BeginDisarm
  <2> QED
    BY <2>1, <2>2, <2>3 DEF StoppedAgreesWithRow, Untouched
<1>6. CASE HaltJoin
  <2>1. wpc = "dead" => failures > 0
    BY DEF WriterInv
  <2>2. phase = "idle" /\ call = "join" => Untouched
    OBVIOUS
  <2>3. call = "join" /\ phase # "stopped" /\ reported = NotReported /\ row.state # "absent"
    BY <1>6 DEF HaltJoin, CommandInv
  <2> QED
    BY <1>6, <2>1, <2>2, <2>3 DEF HaltJoin, StoppedAgreesWithRow, Untouched, Ended, CommandInv
<1>7. CASE RemoveRow
  <2>1. call = "remove" /\ phase = "idle" /\ reported = NotReported /\ Untouched
    BY <1>7 DEF RemoveRow, CommandInv
  <2>2. row.frames = 0 /\ row \in Row /\ failures \in Nat
    BY <2>1 DEF TimelineInv, Untouched, TypeOK
  <2> QED
    BY <1>7, <2>1, <2>2 DEF RemoveRow, TransactionFails, StoppedAgreesWithRow, Untouched, Row
<1>8. CASE RecordVerification
  <2>1. call = "verify" /\ wpc = "done" /\ result.state = ending /\ phase \in {"recording", "paused"}
    BY <1>8 DEF RecordVerification, CommandInv
  <2>2. row.finished /\ row.state = ending
    BY <2>1 DEF WriterInv
  <2>3. row.frames = frames /\ EndOf(blocks) = frames /\ frames \in Nat /\ failures \in Nat
    BY DEF TimelineInv, TypeOK
  <2>4. ending \in Endings /\ "absent" \notin Endings /\ frames # -1
    BY <2>3 DEF EngineTypes, Endings
  <2>5. blocks' = blocks /\ row' = row /\ wpc' = wpc /\ ending' = ending
    BY <1>8 DEF RecordVerification, TransactionFails
  <2>6. EndOf(blocks') = frames
    BY <2>3, <2>5
  <2>7. CASE phase' = "stopped" /\ reported' = frames
    BY <1>8, <2>1, <2>2, <2>3, <2>4, <2>5, <2>6, <2>7 DEF RecordVerification, StoppedAgreesWithRow
  <2>8. CASE phase' = "idle" /\ failures' = failures + 1
    BY <1>8, <2>1, <2>2, <2>3, <2>4, <2>5, <2>8 DEF RecordVerification, StoppedAgreesWithRow
  <2> QED
    BY <1>8, <2>7, <2>8 DEF RecordVerification, TransactionFails
<1>9. CASE Reset
  BY <1>9 DEF Reset, StoppedAgreesWithRow
<1> QED
  BY <1>1, <1>3, <1>4, <1>5, <1>6, <1>7, <1>8, <1>9 DEF EngineStep, Halt

----------------------------------------------------------------------------
(***************************************************************************)
(* An armed deck has written nothing.                                      *)
(***************************************************************************)
LEMMA EngineStarts ==
  ASSUME Init
  PROVE  EngineInv
<1>1. TypeOK /\ TimelineInv /\ ThreadInv /\ LossInv
  <2>1. PipelineInit /\ row = Begun
    BY DEF Init, CaptureInit
  <2>2. row \in Row /\ row.frames = 0 /\ row.finished = FALSE
    BY <2>1 DEF Begun, Row
  <2> QED
    BY <2>1, <2>2, PipelineStarts, LossStarts
<1>2. EngineTypes /\ CommandInv /\ WriterInv
  BY DEF Init, CaptureInit, PipelineInit, EngineTypes, CommandInv, WriterInv, Phases,
     Halting, Endings, NotReported
<1>3. RowInv
  BY EngineAssumption DEF Init, CaptureInit, PipelineInit, Begun, RowInv, StoppedAgreesWithRow,
     Untouched, NotReported
<1> QED
  BY <1>1, <1>2, <1>3 DEF EngineInv

(***************************************************************************)
(* EngineInv holds of every capture under the engine thread.               *)
(***************************************************************************)
THEOREM EngineHolds ==
  LiveSpec => []EngineInv
<1>1. LiveInit => EngineInv
  BY EngineStarts DEF LiveInit
<1>2. EngineInv /\ [LiveNext]_liveVars => EngineInv'
  BY LiveIsEngine, PipelineKept, EngineTypesKept, CommandKept, WriterKept, RowKept DEF EngineInv
<1> QED
  BY <1>1, <1>2, PTL DEF LiveSpec

(***************************************************************************)
(* OnlyAnEmptyRowGoes: a row that is gone had no blocks, and an arm that   *)
(* was abandoned leaves one only if a transaction failed (engine.rs,       *)
(* Recorder::abandon).                                                     *)
(***************************************************************************)
THEOREM AbandonIsClean ==
  LiveSpec => []OnlyAnEmptyRowGoes
<1>1. EngineInv => OnlyAnEmptyRowGoes
  BY DEF EngineInv, RowInv, OnlyAnEmptyRowGoes
<1> QED
  BY <1>1, EngineHolds, PTL

(***************************************************************************)
(* StoppedAgreesWithRow: what is reported of a stopped capture is what its *)
(* closed row counts, and all of it is in the blocks (engine.rs,           *)
(* Deck::frames).                                                          *)
(***************************************************************************)
THEOREM ReportIsTheRow ==
  LiveSpec => []StoppedAgreesWithRow
<1>1. EngineInv => StoppedAgreesWithRow
  BY DEF EngineInv, RowInv
<1> QED
  BY <1>1, EngineHolds, PTL

----------------------------------------------------------------------------
(* The bus and the workers.                                                *)

LEMMA TeeType ==
  ASSUME TypeOK, Writer, wpc = "read", ring' # ring
  PROVE  TeeRead \in Seq(Frame)
<1> DEFINE n == IF Len(ring) <= BlockFrames THEN Len(ring) ELSE BlockFrames
<1>1. Read
  BY DEF Writer, LoadPause, FlushForPause, Settle, PersistDiagnostics, PushShort, PushBlock,
     CommitBatch, FoundEmpty, FlushOrphan, Await, TakeResult, FlushAtEnd, CloseAsTold,
     CloseInterrupted
<1>2. n \in 0 .. Len(ring) /\ Len(ring) \in Nat
  BY CaptureAssumption, LenProperties DEF TypeOK
<1>3. ring' = SubSeq(ring, n + 1, Len(ring))
  BY <1>1 DEF Read
<1> HIDE DEF n
<1>4. Len(ring') = Len(ring) - n /\ SubSeq(ring, 1, n) \in Seq(Frame)
  BY <1>2, <1>3, CutType DEF TypeOK
<1>5. Len(ring) - Len(ring') = n
  BY <1>2, <1>4
<1> QED
  BY <1>4, <1>5 DEF TeeRead

LEMMA WorkersType ==
  ASSUME TypeOK, BusTypes, LiveWriter
  PROVE  BusTypes'
<1>1. CASE wpc = "read" /\ ring' # ring
  <2>1. TeeRead \in Seq(Frame)
    BY <1>1, TeeType DEF LiveWriter
  <2>2. detector.tap \in Seq(Frame) => Offered(detector.tap, TeeRead) \in Seq(Frame)
    BY <2>1, ConcatProperties DEF Offered
  <2>3. /\ meter' = [meter EXCEPT !.news = (meter.pc # "gone")]
        /\ detector' = IF detector.pc = "gone" THEN detector
                       ELSE [detector EXCEPT !.tap = Offered(@, TeeRead)]
    BY <1>1 DEF LiveWriter, OfferToTaps
  <2>4. meter' \in [pc : {"head", "last", "gone"}, running : BOOLEAN, news : BOOLEAN]
    BY <2>3 DEF BusTypes
  <2>5. detector' \in [pc : {"head", "tell", "tell-last", "gone"}, running : BOOLEAN,
                       tap : Seq(Frame), saw : Seq(Frame)]
    BY <2>2, <2>3 DEF BusTypes
  <2> QED
    BY <2>4, <2>5 DEF BusTypes, HeardTypes, LiveWriter
<1>2. CASE ~(wpc = "read" /\ ring' # ring)
  BY <1>2 DEF LiveWriter, OfferToTaps, BusTypes, HeardTypes
<1> QED
  BY <1>1, <1>2

(***************************************************************************)
(* What becomes of a subscriber's picture, by the step.                    *)
(***************************************************************************)
LEMMA HearingType ==
  ASSUME HeardTypes,
         \/ \E p \in Phases : HearPhase(p)
         \/ \E n \in Nat : HearPosition(n)
         \/ HearFinished \/ HearClosed \/ HearWorker \/ heard' = Hear(heard)
         \/ \E at \in Nat, was \in Frame : HearDetected(at, was)
         \/ UNCHANGED heard
  PROVE  HeardTypes'
<1> USE DEF HeardTypes, Hear
<1>1. CASE \E p \in Phases : HearPhase(p)
  BY <1>1 DEF HearPhase
<1>2. CASE \E n \in Nat : HearPosition(n)
  BY <1>2 DEF HearPosition
<1>3. CASE HearFinished
  <2>1. heard.finished + 1 \in Nat /\ "stopped" \in Phases
    BY DEF Phases
  <2> HIDE DEF Phases
  <2> QED
    BY <1>3, <2>1 DEF HearFinished
<1>4. CASE HearClosed \/ heard' = Hear(heard) \/ UNCHANGED heard
  BY <1>4 DEF HearClosed
<1>5. CASE HearWorker
  <2>1. (heard.finished > 0) \in BOOLEAN
    OBVIOUS
  <2> QED
    BY <1>5, <2>1 DEF HearWorker
<1>6. CASE \E at \in Nat, was \in Frame : HearDetected(at, was)
  <2>1. PICK at \in Nat, was \in Frame : HearDetected(at, was)
    BY <1>6
  <2>2. heard.detected \cup {[at |-> at, was |-> was]} \in SUBSET [at : Nat, was : Frame]
    OBVIOUS
  <2>3. (heard.finished > 0) \in BOOLEAN
    OBVIOUS
  <2> QED
    BY <2>1, <2>2, <2>3 DEF HearDetected
<1> QED
  BY <1>1, <1>2, <1>3, <1>4, <1>5, <1>6

LEMMA BusTypesKept ==
  ASSUME EngineInv, BusTypes, [LiveNext]_liveVars
  PROVE  BusTypes'
<1>0. TypeOK /\ EngineTypes
  BY DEF EngineInv
<1>1. CASE LiveDevice \/ UNCHANGED liveVars
  BY <1>1 DEF LiveDevice, BusTypes, HeardTypes
<1>2. CASE LiveWriter
  BY <1>0, <1>2, WorkersType
<1>3. ASSUME HeardTypes'
      PROVE  /\ Meter => BusTypes'
             /\ DetectorTell \/ StrayTells \/ TellPosition \/ LiveRelease \/ SayFarewell => BusTypes'
             /\ LiveMove \/ LiveDisarm \/ LiveReset \/ Poll => BusTypes'
  <2>1. ASSUME Meter
        PROVE  BusTypes'
    <3>1. CASE MeterTurn
      BY <1>3, <3>1 DEF MeterTurn, BusTypes
    <3>2. CASE MeterToldToStop \/ MeterLast
      BY <1>3, <3>2 DEF MeterToldToStop, MeterLast, BusTypes
    <3> QED
      BY <2>1, <3>1, <3>2 DEF Meter
  <2>2. ASSUME DetectorTell \/ StrayTells \/ SayFarewell
        PROVE  BusTypes'
    BY <1>3, <2>2 DEF DetectorTell, StrayTells, SayFarewell, BusTypes
  <2>3. ASSUME TellPosition \/ LiveRelease
        PROVE  BusTypes'
    BY <1>0, <1>3, <2>3 DEF TellPosition, LiveRelease, BusTypes, TypeOK
  <2>4. ASSUME LiveMove \/ LiveDisarm \/ LiveReset \/ Poll
        PROVE  BusTypes'
    BY <1>3, <2>4 DEF LiveMove, LiveDisarm, LiveReset, Poll, Moved, BusTypes
  <2> QED
    BY <2>1, <2>2, <2>3, <2>4
<1>4. CASE Meter
  <2>1. HearWorker \/ UNCHANGED heard
    BY <1>4 DEF Meter, MeterTurn, MeterToldToStop, MeterLast
  <2> QED
    BY <1>3, <1>4, <2>1, HearingType DEF BusTypes
<1>5. CASE Detector
  <2>1. CASE DetectorDrain
    <3>1. detector.saw \o detector.tap \in Seq(Frame) /\ <<>> \in Seq(Frame)
      BY ConcatProperties, EmptySeq DEF BusTypes
    <3>2. detector' \in [pc : {"head", "tell", "tell-last", "gone"}, running : BOOLEAN,
                         tap : Seq(Frame), saw : Seq(Frame)]
      BY <2>1, <3>1 DEF DetectorDrain, BusTypes
    <3> QED
      BY <2>1, <3>2 DEF DetectorDrain, BusTypes, HeardTypes
  <2>2. CASE DetectorTell
    <3>1. PICK i \in DOMAIN detector.saw : HearDetected(i - 1, detector.saw[i])
      BY <2>2 DEF DetectorTell
    <3>2. i - 1 \in Nat /\ detector.saw[i] \in Frame
      BY ElementOfSeq DEF BusTypes
    <3> QED
      BY <1>3, <2>2, <3>1, <3>2, HearingType DEF BusTypes
  <2>3. CASE DetectorGoOn
    <3>1. <<>> \in Seq(Frame)
      OBVIOUS
    <3>2. detector' \in [pc : {"head", "tell", "tell-last", "gone"}, running : BOOLEAN,
                         tap : Seq(Frame), saw : Seq(Frame)]
      BY <2>3, <3>1 DEF DetectorGoOn, BusTypes
    <3> QED
      BY <2>3, <3>2 DEF DetectorGoOn, BusTypes, HeardTypes
  <2> QED
    BY <1>5, <2>1, <2>2, <2>3 DEF Detector
<1>6. CASE StrayTells \/ SayFarewell
  <2>1. HearClosed \/ heard' = Hear(heard)
    BY <1>6 DEF StrayTells, SayFarewell
  <2> QED
    BY <1>3, <1>6, <2>1, HearingType DEF BusTypes
<1>7. CASE TellPosition \/ LiveRelease
  <2>1. (\E n \in Nat : HearPosition(n)) \/ HearFinished \/ UNCHANGED heard
    BY <1>0, <1>7 DEF TellPosition, LiveRelease, TellTheStop, TypeOK
  <2> QED
    BY <1>3, <1>7, <2>1, HearingType DEF BusTypes
<1>8. CASE LiveMove \/ LiveDisarm \/ LiveReset \/ Poll
  <2>1. phase' \in Phases
    BY <1>0, <1>8, LiveIsEngine, EngineTypesKept DEF EngineTypes, LiveNext, Commands
  <2>2. \E p \in Phases : HearPhase(p)
    BY <1>0, <1>8, <2>1 DEF LiveMove, LiveDisarm, LiveReset, Poll, EngineTypes, Phases
  <2> QED
    BY <1>3, <1>8, <2>2, HearingType DEF BusTypes
<1>9. CASE StopMeter \/ StopDetector
  BY <1>9 DEF StopMeter, StopDetector, BusTypes, HeardTypes
<1>10. CASE HaltWriter \/ LiveStop \/ Shutdown \/ ArmAgain
  BY <1>10 DEF HaltWriter, LiveStop, Shutdown, ArmAgain, BusTypes, HeardTypes
<1> QED
  BY <1>1, <1>2, <1>4, <1>5, <1>6, <1>7, <1>8, <1>9, <1>10 DEF LiveNext, EngineThread, Commands

(***************************************************************************)
(* A step that publishes nothing and moves neither the transport nor the   *)
(* command, apart from the frames and failures a writer adds.              *)
(***************************************************************************)
LEMMA QuietStep ==
  ASSUME EngineInv, BusTypes, HeardInv,
         UNCHANGED <<phase, call, asked, stray, heard>>,
         frames' >= frames, frames' \in Nat, failures' >= failures, failures' \in Nat,
         call = "over" => row' = row,
         turn = turn' \/ (turn = "wait" /\ turn' = "tell"),
         WorkersGone => WorkersGone'
  PROVE  HeardInv'
<1>1. frames \in Nat /\ failures \in Nat /\ heard.position \in Nat
  BY DEF EngineInv, TypeOK, BusTypes, HeardTypes
<1>2. heard.position <= frames'
  BY <1>1 DEF HeardInv
<1>3. failures > 0 => failures' > 0
  BY <1>1
<1> QED
  BY <1>2, <1>3 DEF HeardInv, Halting

(***************************************************************************)
(* A worker that publishes is one that nobody has waited for yet.          *)
(***************************************************************************)
LEMMA WorkerHeard ==
  ASSUME EngineInv, BusTypes, HeardInv, ~WorkersGone
  PROVE  call \in {"none", "result"} /\ heard.finished = 0 /\ ~heard.closed
BY DEF HeardInv, BusTypes, HeardTypes

LEMMA WorkerPublishes ==
  ASSUME EngineInv, BusTypes, HeardInv, ~WorkersGone,
         UNCHANGED <<vars, turn, asked, stray>>,
         HearWorker \/ (\E at, was : HearDetected(at, was)) \/ UNCHANGED heard
  PROVE  HeardInv'
<1>1. call \in {"none", "result"} /\ heard.finished = 0 /\ ~heard.closed /\ ~heard.lateWorker
  BY WorkerHeard DEF HeardInv
<1>2. (heard.finished > 0) = FALSE /\ heard.closed = FALSE
  BY <1>1 DEF BusTypes, HeardTypes
<1>3. CASE UNCHANGED heard
  BY <1>1, <1>3 DEF HeardInv, WorkersGone
<1>4. CASE HearWorker \/ \E at, was : HearDetected(at, was)
  <2>1. /\ heard'.phase = heard.phase /\ heard'.position = heard.position
        /\ heard'.finished = heard.finished /\ heard'.closed = heard.closed
        /\ heard'.lateWorker = FALSE /\ heard'.afterClosed = FALSE
    BY <1>2, <1>4 DEF HearWorker, HearDetected, Hear, BusTypes, HeardTypes
  <2> QED
    BY <1>1, <2>1 DEF HeardInv
<1> QED
  BY <1>3, <1>4

LEMMA HeardKept ==
  ASSUME EngineInv, BusTypes, HeardInv, [LiveNext]_liveVars
  PROVE  HeardInv'
<1>1. TypeOK /\ EngineTypes /\ TypeOK' /\ EngineTypes' /\ BusTypes'
  BY LiveIsEngine, PipelineKept, EngineTypesKept, BusTypesKept DEF EngineInv
<1>2. /\ frames \in Nat /\ failures \in Nat /\ heard.position \in Nat
      /\ frames' \in Nat /\ failures' \in Nat /\ heard.finished \in Nat
  BY <1>1 DEF TypeOK, BusTypes, HeardTypes
<1>3. turn \in {"wait", "tell"} => ~heard.closed /\ call \notin Halting
  BY DEF HeardInv
<1>4. CASE LiveDevice \/ UNCHANGED liveVars
  BY <1>2, <1>4, QuietStep DEF LiveDevice, Device, CallbackPush, CallbackCount, WorkersGone
<1>5. CASE LiveWriter
  <2>1. frames' >= frames /\ ~Ended /\ failures' >= failures
    BY <1>1, <1>5, FramesGrow, WriterMoves DEF LiveWriter, EngineInv
  <2>2. call # "over"
    BY <2>1 DEF EngineInv, CommandInv
  <2>3. WorkersGone => WorkersGone'
    BY <1>5 DEF LiveWriter, OfferToTaps, WorkersGone, BusTypes
  <2> QED
    BY <1>2, <1>5, <2>1, <2>2, <2>3, QuietStep DEF LiveWriter
<1>6. CASE Meter
  <2>1. ~WorkersGone /\ UNCHANGED <<vars, turn, asked, stray>>
    BY <1>6 DEF Meter, MeterTurn, MeterToldToStop, MeterLast, WorkersGone
  <2>2. HearWorker \/ UNCHANGED heard
    BY <1>6 DEF Meter, MeterTurn, MeterToldToStop, MeterLast
  <2> QED
    BY <1>2, <2>1, <2>2, WorkerPublishes
<1>7. CASE Detector
  <2>1. ~WorkersGone /\ UNCHANGED <<vars, turn, asked, stray>>
    BY <1>7 DEF Detector, DetectorDrain, DetectorTell, DetectorGoOn, WorkersGone
  <2>2. (\E at, was : HearDetected(at, was)) \/ UNCHANGED heard
    BY <1>7 DEF Detector, DetectorDrain, DetectorTell, DetectorGoOn
  <2> QED
    BY <1>2, <2>1, <2>2, WorkerPublishes
<1>8. CASE StrayTells
  BY <1>8 DEF StrayTells, HeardInv, Hear, BusTypes, HeardTypes, WorkersGone
<1>9. CASE SayFarewell
  BY <1>9 DEF SayFarewell, HearClosed, HeardInv, Hear, BusTypes, HeardTypes, WorkersGone, Halting
<1>10. CASE TellPosition
  <2>1. ~heard.closed /\ call \notin Halting /\ turn' = "wait" /\ UNCHANGED <<vars, asked, meter, detector, stray>>
    BY <1>3, <1>10 DEF TellPosition
  <2>2. HearPosition(frames) \/ UNCHANGED heard
    BY <1>10 DEF TellPosition
  <2>3. CASE HearPosition(frames)
    <3>1. /\ heard'.phase = heard.phase /\ heard'.position = frames
          /\ heard'.finished = heard.finished /\ heard'.closed = heard.closed
          /\ heard'.lateWorker = heard.lateWorker /\ heard'.afterClosed = heard.closed
      BY <2>3 DEF HearPosition, Hear, BusTypes, HeardTypes
    <3> QED
      BY <1>2, <2>1, <3>1 DEF HeardInv, WorkersGone
  <2> QED
    BY <2>1, <2>2, <2>3 DEF HeardInv, WorkersGone
<1>11. CASE StopMeter \/ StopDetector \/ ArmAgain
  <2>1. WorkersGone => WorkersGone'
    BY <1>11 DEF StopMeter, StopDetector, ArmAgain, WorkersGone, BusTypes
  <2>2. CASE StopMeter \/ StopDetector
    BY <1>2, <2>1, <2>2, QuietStep DEF StopMeter, StopDetector
  <2>3. CASE ArmAgain
    BY <1>2, <2>3 DEF ArmAgain, Waiting, HeardInv, WorkersGone, Halting
  <2> QED
    BY <1>11, <2>2, <2>3
<1>12. CASE HaltWriter
  <2>0. UNCHANGED busVars /\ call \in Halting /\ (HaltSetResult => WorkersGone)
    BY <1>12 DEF HaltWriter, HaltSetResult, HaltStop, HaltJoin, RemoveRow, RecordVerification, Halting
  <2>1. CASE HaltSetResult \/ HaltStop
    <3>1. /\ UNCHANGED <<phase, frames, row, failures>> /\ WorkersGone
          /\ call \in {"result", "stop"} /\ call' \in {"stop", "join"}
      BY <2>0, <2>1 DEF HaltSetResult, HaltStop, SetResult, SetStop, HeardInv
    <3> QED
      BY <2>0, <3>1 DEF HeardInv, Halting, WorkersGone
  <2>2. CASE HaltJoin
    <3>1. wpc = "dead" => failures > 0
      BY DEF EngineInv, WriterInv
    <3> QED
      BY <1>12, <2>2, <3>1 DEF HaltWriter, HaltJoin, HeardInv, Halting, WorkersGone
  <2>3. CASE RemoveRow
    BY <1>2, <1>12, <2>3 DEF HaltWriter, RemoveRow, TransactionFails, HeardInv, Halting, WorkersGone
  <2>4. CASE RecordVerification
    BY <1>2, <1>12, <2>4 DEF HaltWriter, RecordVerification, TransactionFails, HeardInv, Halting,
       WorkersGone
  <2> QED
    BY <1>12, <2>1, <2>2, <2>3, <2>4 DEF HaltWriter
<1>13. CASE LiveRelease
  <2>1. /\ call = "release" /\ call' = "over" /\ turn = "halt" /\ turn' = "tell" /\ ~heard.closed
        /\ UNCHANGED <<phase, failures, frames, row, asked, meter, detector, stray>>
    BY <1>13 DEF LiveRelease, Release, CloseStream, HeardInv, Halting
  <2>2. heard.finished = 0
    BY <1>2, <2>1 DEF HeardInv
  <2>3. CASE phase = "stopped"
    <3>1. row.finished
      BY <2>3 DEF EngineInv, RowInv, StoppedAgreesWithRow
    <3>2. HearFinished
      BY <1>13, <2>3 DEF LiveRelease, TellTheStop
    <3> QED
      BY <1>2, <2>1, <2>2, <2>3, <3>1, <3>2 DEF HearFinished, Hear, HeardInv, BusTypes,
         HeardTypes, Halting, WorkersGone
  <2>4. CASE phase # "stopped"
    <3>1. UNCHANGED heard
      BY <1>13, <2>4 DEF LiveRelease, TellTheStop
    <3> QED
      BY <2>1, <2>2, <2>4, <3>1 DEF HeardInv, Halting, WorkersGone
  <2> QED
    BY <2>3, <2>4
<1>14. CASE LiveMove \/ LiveDisarm \/ LiveReset \/ Poll
  <2>1. ~heard.closed /\ call \notin Halting /\ turn = "wait" /\ HearPhase(phase')
    BY <1>3, <1>14 DEF LiveMove, LiveDisarm, BeginDisarm, LiveReset, Poll, Waiting
  <2>2. UNCHANGED <<frames, failures, row, asked, meter, detector, stray>>
    BY <1>14 DEF LiveMove, Record, Pause, Resume, Move, SetPause, Moved, LiveDisarm, BeginDisarm,
       LiveReset, Poll
  <2>3. \/ turn' = "tell" /\ call' = call
        \/ turn' = "halt" /\ call' = "result" /\ call = "none"
    BY <1>14 DEF LiveMove, Record, Pause, Resume, Move, Moved, LiveDisarm, BeginDisarm,
       LiveReset, Poll
  <2> QED
    BY <1>2, <2>1, <2>2, <2>3 DEF HearPhase, Hear, HeardInv, BusTypes, HeardTypes, Halting,
       WorkersGone
<1>15. CASE LiveStop \/ Shutdown
  <2>1. turn = "wait" /\ UNCHANGED <<captureVars, meter, detector, stray, heard>>
    BY <1>15 DEF LiveStop, Shutdown, BeginStop, BeginDisarm, Waiting
  <2>2. \/ turn' = "halt" /\ call' = "result" /\ call = "none"
        \/ UNCHANGED <<turn, call>>
    BY <1>15 DEF LiveStop, Shutdown, BeginStop, BeginDisarm
  <2>3. asked' \/ UNCHANGED <<phase, asked>>
    BY <1>15 DEF LiveStop, Shutdown, BeginStop
  <2> QED
    BY <2>1, <2>2, <2>3 DEF HeardInv, Halting, WorkersGone
<1> QED
  BY <1>4, <1>5, <1>6, <1>7, <1>8, <1>9, <1>10, <1>11, <1>12, <1>13, <1>14, <1>15
  DEF LiveNext, EngineThread, Commands

LEMMA BusStarts ==
  ASSUME LiveInit
  PROVE  BusTypes /\ HeardInv
<1>1. /\ turn = "wait" /\ told = NotReported /\ asked = FALSE /\ stray = FALSE
      /\ meter = MeterAtWork /\ detector = DetectorAtWork /\ heard = Unheard
      /\ phase = "armed" /\ call = "none" /\ frames = 0
  BY DEF LiveInit, Init, CaptureInit, PipelineInit
<1>2. HeardTypes
  BY <1>1 DEF HeardTypes, Unheard, Phases
<1>3. detector \in [pc : {"head", "tell", "tell-last", "gone"}, running : BOOLEAN,
                    tap : Seq(Frame), saw : Seq(Frame)]
  <2>1. <<>> \in Seq(Frame)
    OBVIOUS
  <2> QED
    BY <1>1, <2>1 DEF DetectorAtWork
<1>4. BusTypes
  BY <1>1, <1>2, <1>3 DEF BusTypes, MeterAtWork
<1>5. HeardInv
  BY <1>1 DEF HeardInv, Unheard, Halting
<1> QED
  BY <1>4, <1>5

THEOREM LiveHolds ==
  LiveSpec => []LiveInv
<1>1. LiveInit => LiveInv
  BY EngineStarts, BusStarts DEF LiveInit, LiveInv
<1>2. LiveInv /\ [LiveNext]_liveVars => LiveInv'
  <2> SUFFICES ASSUME LiveInv, [LiveNext]_liveVars
               PROVE  LiveInv'
    OBVIOUS
  <2>1. EngineInv'
    BY LiveIsEngine, PipelineKept, EngineTypesKept, CommandKept, WriterKept, RowKept
    DEF LiveInv, EngineInv
  <2> QED
    BY <2>1, BusTypesKept, HeardKept DEF LiveInv
<1> QED
  BY <1>1, <1>2, PTL DEF LiveSpec

(***************************************************************************)
(* StreamTellsTheTransport: what a subscriber believes of the transport is *)
(* so whenever the engine waits for a command, unless a stop failed; and a *)
(* position it was told is of audio the project holds (engine.rs, run()    *)
(* and dispatch()).                                                        *)
(***************************************************************************)
THEOREM StreamIsTrue ==
  LiveSpec => []StreamTellsTheTransport
<1>1. LiveInv => StreamTellsTheTransport
  BY DEF LiveInv, EngineInv, TimelineInv, HeardInv, Halting, StreamTellsTheTransport
<1> QED
  BY <1>1, LiveHolds, PTL

(***************************************************************************)
(* StreamEndsOnce: a side is told finished once, with its row closed and   *)
(* counting what was told, none of its workers is heard after that, and    *)
(* only a deck that was turned down is heard after the last event          *)
(* (engine.rs, Recorder::halt and Farewell).                               *)
(***************************************************************************)
THEOREM StreamIsFinite ==
  LiveSpec => []StreamEndsOnce
<1>1. LiveInv => StreamEndsOnce
  <2> SUFFICES ASSUME LiveInv
               PROVE  StreamEndsOnce
    OBVIOUS
  <2>1. row.frames = frames /\ frames \in Nat /\ heard.position \in Nat
    BY DEF LiveInv, EngineInv, TimelineInv, TypeOK, BusTypes, HeardTypes
  <2> QED
    BY <2>1 DEF LiveInv, HeardInv, StreamEndsOnce
<1> QED
  BY <1>1, LiveHolds, PTL

----------------------------------------------------------------------------
(***************************************************************************)
(* A capture under the engine, killed wherever it may be, and the recovery *)
(* of what it leaves implement Archive.                                    *)
(***************************************************************************)
USE DEF recoveryVars, allVars

(* The audio of a list of blocks is as long as its blocks say, and that of *)
(* a longer list goes on from it.                                          *)

LEMMA AudioLength ==
  ASSUME NEW list \in Seq(Block), Tiled(list)
  PROVE  Len(AudioOf(list)) = EndOf(list)
<1> DEFINE n == Len(list)
<1>1. n \in Nat /\ \A i \in 1 .. n : list[i] \in Block
  BY LenProperties, ElementOfSeq
<1> HIDE DEF n
<1>2. PICK f : Lays(f, list, n) /\ AudioOf(list) = f[n]
  BY <1>1, AudioLaid DEF n
<1> DEFINE Laid(m) == f[m] \in Seq(Frame) /\ Len(f[m]) = EndAt(list, m)
           S == {m \in Nat : m <= n => Laid(m)}
<1>3. 0 \in S
  <2>1. f[0] = <<>> /\ <<>> \in Seq(Frame) /\ Len(<<>>) = 0
    BY <1>1, <1>2 DEF Lays, LayFrom
  <2>2. Laid(0)
    BY <2>1 DEF EndAt
  <2> QED
    BY <2>2
<1>4. ASSUME NEW m \in Nat, m + 1 <= n, Laid(m)
      PROVE  Laid(m + 1)
  <2> DEFINE b == list[m + 1]
  <2>1. m + 1 \in 1 .. n /\ m + 1 \in 0 .. n /\ m + 1 # 0 /\ (m + 1) - 1 = m
    BY <1>1, <1>4
  <2>2. b.audio \in Seq(Frame) /\ b.start \in Nat /\ b.start = EndAt(list, m)
    <3>1. b \in Block
      BY <1>1, <2>1
    <3>2. b.start = EndAt(list, m)
      BY <2>1 DEF Tiled, n
    <3> QED
      BY <3>1, <3>2 DEF Block
  <2>3. f[m + 1] = f[m] \o b.audio
    BY <1>2, <2>1 DEF Lays, LayFrom
  <2>4. f[m] \o b.audio \in Seq(Frame) /\ Len(f[m] \o b.audio) = Len(f[m]) + Len(b.audio)
    BY <1>4, <2>2, ConcatProperties
  <2>5. EndAt(list, m + 1) = b.start + Len(b.audio)
    BY <2>1 DEF EndAt
  <2> HIDE DEF b
  <2> QED
    BY <1>4, <2>2, <2>3, <2>4, <2>5
<1>5. \A m \in Nat : m \in S => m + 1 \in S
  BY <1>1, <1>4
<1> HIDE DEF S, Laid
<1>6. n \in S
  BY <1>1, <1>3, <1>5, SetInduction
<1> QED
  BY <1>1, <1>2, <1>6 DEF S, Laid, EndOf, n

Joined(whole, one, more) == whole = one \o more

LEMMA LaysBoth ==
  ASSUME NEW one, NEW more, NEW both, NEW f, NEW h, NEW g,
         NEW n \in Nat, NEW k \in Nat, NEW t \in Nat, n <= t, k <= t - n, t - n <= k,
         Lays(f, one, n), Lays(h, more, k), Lays(g, both, t), f[n] \in Seq(Frame),
         \A i \in 1 .. n : one[i] = both[i],
         \A i \in 1 .. k : more[i] = both[n + i] /\ more[i] \in Block
  PROVE  Joined(g[t], f[n], h[k])
<1>1. f[n] = g[n]
  <2>1. \A i \in 0 .. n : f[i] = g[i]
    BY LaysAgree
  <2> QED
    BY <2>1
<1> DEFINE Laid(m) == h[m] \in Seq(Frame) /\ Joined(g[n + m], f[n], h[m])
           S == {m \in Nat : m <= k => Laid(m)}
<1>2. 0 \in S
  <2>1. h[0] = <<>> /\ <<>> \in Seq(Frame)
    BY DEF Lays, LayFrom
  <2>2. f[n] \o <<>> = f[n] /\ n + 0 = n
    BY ConcatEmptySeq
  <2>3. Laid(0)
    BY <1>1, <2>1, <2>2 DEF Joined
  <2> QED
    BY <2>3
<1>3. ASSUME NEW m \in Nat, m + 1 <= k, Laid(m)
      PROVE  Laid(m + 1)
  <2> DEFINE audio == more[m + 1].audio
             laid == f[n]
  <2>1. /\ m + 1 \in 1 .. k /\ m + 1 \in 0 .. k /\ m + 1 # 0 /\ (m + 1) - 1 = m
        /\ n + (m + 1) \in 0 .. t /\ n + (m + 1) # 0 /\ (n + (m + 1)) - 1 = n + m
    BY <1>3
  <2>2. audio \in Seq(Frame) /\ both[n + (m + 1)].audio = audio
    <3>1. more[m + 1] \in Block /\ both[n + (m + 1)] = more[m + 1]
      BY <2>1
    <3> QED
      BY <3>1 DEF Block
  <2>3. h[m + 1] = h[m] \o audio
    BY <2>1 DEF Lays, LayFrom
  <2>4. g[n + (m + 1)] = g[n + m] \o audio
    <3>1. g[n + (m + 1)] = LayFrom(g, both, n + (m + 1))
      BY <2>1 DEF Lays
    <3> QED
      BY <2>1, <2>2, <3>1 DEF LayFrom
  <2> HIDE DEF audio, laid
  <2>5. h[m] \o audio \in Seq(Frame)
    BY <1>3, <2>2, ConcatProperties
  <2>6. (laid \o h[m]) \o audio = laid \o (h[m] \o audio)
    <3>1. laid \in Seq(Frame) /\ h[m] \in Seq(Frame)
      BY <1>3 DEF laid
    <3>2. \A a \in Seq(Frame) : (laid \o h[m]) \o a = laid \o (h[m] \o a)
      BY <3>1, FramesAssociate, Zenon
    <3> QED
      BY <2>2, <3>2, Zenon
  <2>7. g[n + (m + 1)] = laid \o h[m + 1]
    <3>1. g[n + m] = laid \o h[m]
      BY <1>3, Zenon DEF laid, Joined
    <3> QED
      BY <2>3, <2>4, <2>6, <3>1, Zenon
  <2>8. h[m + 1] \in Seq(Frame)
    BY <2>3, <2>5, Zenon
  <2> QED
    BY <2>7, <2>8, Zenon DEF laid, Joined
<1>4. \A m \in Nat : m \in S => m + 1 \in S
  <2> HIDE DEF Laid
  <2> QED
    BY <1>3
<1> HIDE DEF S
<1>5. k \in S
  BY <1>2, <1>4, SetInduction
<1>6. Joined(g[n + k], f[n], h[k])
  BY <1>5 DEF S
<1>7. t = n + k
  OBVIOUS
<1> QED
  BY <1>6, <1>7, Zenon

LEMMA AudioOfBoth ==
  ASSUME NEW one \in Seq(Block), NEW more \in Seq(Block)
  PROVE  AudioOf(one \o more) = AudioOf(one) \o AudioOf(more)
<1> DEFINE n == Len(one)
           k == Len(more)
           both == one \o more
<1>1. /\ n \in Nat /\ k \in Nat /\ Len(both) = n + k
      /\ \A i \in 1 .. n : one[i] = both[i]
      /\ \A i \in 1 .. k : more[i] = both[n + i] /\ more[i] \in Block
  <2>1. /\ n \in Nat /\ k \in Nat /\ Len(both) = n + k
        /\ \A i \in 1 .. n + k : both[i] = IF i <= n THEN one[i] ELSE more[i - n]
        /\ \A i \in 1 .. k : more[i] \in Block
    BY LenProperties, ElementOfSeq, ConcatProperties
  <2> HIDE DEF n, k, both
  <2>2. \A i \in 1 .. n : i \in 1 .. n + k /\ i <= n
    BY <2>1
  <2>3. \A i \in 1 .. k : n + i \in 1 .. n + k /\ ~(n + i <= n) /\ (n + i) - n = i
    BY <2>1
  <2> QED
    BY <2>1, <2>2, <2>3
<1> HIDE DEF n, k, both
<1> DEFINE t == n + k
<1>2. t \in Nat /\ Len(both) = t /\ n <= t /\ k <= t - n /\ t - n <= k
  BY <1>1
<1> HIDE DEF t
<1>3. PICK f : Lays(f, one, n) /\ AudioOf(one) = f[n]
  BY <1>1, AudioLaid DEF n
<1>4. PICK h : Lays(h, more, k) /\ AudioOf(more) = h[k]
  BY <1>1, AudioLaid DEF k
<1>5. PICK g : Lays(g, both, t) /\ AudioOf(both) = g[t]
  BY <1>2, AudioLaid
<1>6. f[n] \in Seq(Frame)
  BY <1>3, AudioIsFrames
<1>7. Joined(g[t], f[n], h[k])
  <2>1. /\ \A i \in 1 .. n : one[i] = both[i]
        /\ \A i \in 1 .. k : more[i] = both[n + i] /\ more[i] \in Block
    BY <1>1
  <2>2. n \in Nat /\ k \in Nat
    BY <1>1
  <2>3. Lays(f, one, n) /\ Lays(h, more, k) /\ Lays(g, both, t)
    BY <1>3, <1>4, <1>5
  <2> QED
    BY <1>2, <1>6, <2>1, <2>2, <2>3, LaysBoth
<1> QED
  BY <1>3, <1>4, <1>5, <1>7, Zenon DEF Joined, both


----------------------------------------------------------------------------
(***************************************************************************)
(* What the capture holds is in the order it was produced.  A pause takes  *)
(* frames out of the ring and out of what is held; the rest stays in       *)
(* order.                                                                  *)
(***************************************************************************)
Ascending(audio) == \A i, j \in 1 .. Len(audio) : i < j => audio[i] < audio[j]

OlderThan(audio, next) == \A i \in 1 .. Len(audio) : audio[i] < next

OrderInv == Ascending(Held) /\ OlderThan(Held, produced)

LEMMA Joins ==
  ASSUME NEW a \in Seq(Frame), NEW b \in Seq(Frame)
  PROVE  /\ a \o b \in Seq(Frame) /\ Len(a \o b) = Len(a) + Len(b)
         /\ Len(a) \in Nat /\ Len(b) \in Nat
         /\ \A i \in 1 .. Len(a) : (a \o b)[i] = a[i]
         /\ \A i \in 1 .. Len(b) : (a \o b)[Len(a) + i] = b[i]
<1> DEFINE n == Len(a)
           k == Len(b)
           c == a \o b
<1>1. /\ n \in Nat /\ k \in Nat /\ c \in Seq(Frame) /\ Len(c) = n + k
      /\ \A i \in 1 .. n + k : c[i] = IF i <= n THEN a[i] ELSE b[i - n]
  BY LenProperties, ConcatProperties
<1> HIDE DEF n, k, c
<1>2. \A i \in 1 .. n : i \in 1 .. n + k /\ i <= n
  BY <1>1
<1>3. \A i \in 1 .. k : n + i \in 1 .. n + k /\ ~(n + i <= n) /\ (n + i) - n = i
  BY <1>1
<1>4. /\ \A i \in 1 .. n : c[i] = a[i]
      /\ \A i \in 1 .. k : c[n + i] = b[i]
  BY <1>1, <1>2, <1>3
<1> QED
  BY <1>1, <1>4 DEF n, k, c

LEMMA AscendingStart ==
  ASSUME NEW a \in Seq(Frame), NEW b \in Seq(Frame), Ascending(a \o b)
  PROVE  Ascending(a)
<1> DEFINE c == a \o b
<1>1. /\ Len(c) = Len(a) + Len(b) /\ Len(a) \in Nat /\ Len(b) \in Nat
      /\ \A i \in 1 .. Len(a) : c[i] = a[i]
  BY Joins
<1>2. Ascending(c)
  OBVIOUS
<1> HIDE DEF c
<1>3. \A i \in 1 .. Len(a) : i \in 1 .. Len(c)
  BY <1>1
<1> QED
  BY <1>1, <1>2, <1>3 DEF Ascending

LEMMA AscendingMore ==
  ASSUME NEW next \in Nat, NEW a \in Seq(Frame), NEW b \in Seq(Frame),
         Ascending(a), OlderThan(a, next),
         \A i \in 1 .. Len(b) : b[i] = (next + i) - 1
  PROVE  Ascending(a \o b) /\ OlderThan(a \o b, next + Len(b))
<1> DEFINE n == Len(a)
           k == Len(b)
           c == a \o b
<1>1. /\ n \in Nat /\ k \in Nat /\ Len(c) = n + k
      /\ \A i \in 1 .. n : c[i] = a[i]
      /\ \A i \in 1 .. k : c[n + i] = b[i]
  BY Joins
<1> HIDE DEF n, k, c
<1>2. \A i \in 1 .. n : c[i] \in Nat /\ c[i] < next
  <2>1. \A i \in 1 .. n : a[i] \in Frame
    BY ElementOfSeq DEF n
  <2> QED
    BY <1>1, <2>1 DEF OlderThan, n, Frame
<1>3. \A i \in 1 .. n + k : i > n => c[i] = (next + (i - n)) - 1
  <2>1. ASSUME NEW i \in 1 .. n + k, i > n
        PROVE  i - n \in 1 .. k /\ n + (i - n) = i
    BY <1>1, <2>1
  <2> QED
    BY <1>1, <2>1 DEF k
<1>4. ASSUME NEW i \in 1 .. n + k, NEW j \in 1 .. n + k, i < j
      PROVE  c[i] < c[j]
  <2>1. CASE j <= n
    <3>1. i \in 1 .. n /\ j \in 1 .. n
      BY <1>1, <1>4, <2>1
    <3> QED
      BY <1>1, <1>4, <3>1 DEF Ascending, n
  <2>2. CASE i <= n /\ j > n
    <3>1. i \in 1 .. n
      BY <1>1, <2>2
    <3> QED
      BY <1>1, <1>2, <1>3, <2>2, <3>1
  <2>3. CASE i > n
    BY <1>1, <1>3, <1>4, <2>3
  <2> QED
    BY <1>1, <2>1, <2>2, <2>3
<1>5. ASSUME NEW i \in 1 .. n + k
      PROVE  c[i] < next + k
  <2>1. CASE i <= n
    <3>1. i \in 1 .. n
      BY <1>1, <2>1
    <3> QED
      BY <1>1, <1>2, <3>1
  <2>2. CASE i > n
    BY <1>1, <1>3, <2>2
  <2> QED
    BY <1>1, <2>1, <2>2
<1> QED
  BY <1>1, <1>4, <1>5 DEF Ascending, OlderThan, k, c

LEMMA AscendingWithout ==
  ASSUME NEW next \in Nat, NEW a \in Seq(Frame), NEW x \in Seq(Frame), NEW y \in Seq(Frame),
         Ascending(a \o (x \o y)), OlderThan(a \o (x \o y), next)
  PROVE  Ascending(a \o y) /\ OlderThan(a \o y, next)
<1> DEFINE n == Len(a)
           k == Len(x)
           m == Len(y)
           s == a \o (x \o y)
           t == a \o y
<1>1. /\ n \in Nat /\ k \in Nat /\ m \in Nat /\ Len(s) = n + (k + m) /\ Len(t) = n + m
      /\ \A i \in 1 .. n : s[i] = a[i] /\ t[i] = a[i]
      /\ \A i \in 1 .. k + m : s[n + i] = (x \o y)[i]
      /\ \A i \in 1 .. m : t[n + i] = y[i] /\ (x \o y)[k + i] = y[i]
  BY Joins
<1>2. Ascending(s) /\ OlderThan(s, next)
  OBVIOUS
<1> DEFINE At(i) == IF i <= n THEN i ELSE k + i
<1> HIDE DEF n, k, m, s, t
<1>3. ASSUME NEW i \in 1 .. n + m
      PROVE  At(i) \in 1 .. n + (k + m) /\ t[i] = s[At(i)]
  <2>1. CASE i <= n
    <3>1. i \in 1 .. n /\ i \in 1 .. n + (k + m)
      BY <1>1, <2>1
    <3> QED
      BY <1>1, <2>1, <3>1
  <2>2. CASE i > n
    <3>1. /\ i - n \in 1 .. m /\ n + (i - n) = i /\ ~(i <= n)
          /\ k + (i - n) \in 1 .. k + m /\ n + (k + (i - n)) = k + i
          /\ k + i \in 1 .. n + (k + m)
      BY <1>1, <2>2
    <3>2. t[i] = y[i - n] /\ (x \o y)[k + (i - n)] = y[i - n]
          /\ s[k + i] = (x \o y)[k + (i - n)]
      BY <1>1, <3>1
    <3> QED
      BY <3>1, <3>2
  <2> QED
    BY <1>1, <2>1, <2>2
<1>4. \A i, j \in 1 .. n + m : i < j => At(i) < At(j)
  BY <1>1
<1> HIDE DEF At
<1>5. /\ \A i, j \in 1 .. n + (k + m) : i < j => s[i] < s[j]
      /\ \A i \in 1 .. n + (k + m) : s[i] < next
  BY <1>1, <1>2 DEF Ascending, OlderThan
<1>6. ASSUME NEW i \in 1 .. n + m, NEW j \in 1 .. n + m, i < j
      PROVE  t[i] < t[j]
  BY <1>3, <1>4, <1>5, <1>6
<1>7. \A i \in 1 .. n + m : t[i] < next
  BY <1>3, <1>5
<1> QED
  BY <1>1, <1>6, <1>7 DEF Ascending, OlderThan, t

LEMMA OrderKept ==
  ASSUME TypeOK, OrderInv, EngineStep
  PROVE  OrderInv'
<1> DEFINE laid == AudioOf(Timeline) \o pending
<1>1. /\ laid \in Seq(Frame) /\ ring \in Seq(Frame) /\ produced \in Nat
      /\ Held \in Seq(Frame) /\ Held = laid \o ring
  BY HeldInTimeline, ConcatProperties DEF TypeOK, Held
<1>2. ASSUME UNCHANGED <<blocks, batch, pending, ring, produced>>
      PROVE  OrderInv'
  BY <1>2 DEF OrderInv, Held, Timeline
<1>3. CASE Writer
  <2>1. produced' = produced
    BY <1>3 DEF Writer, LoadPause, FlushForPause, Settle, PersistDiagnostics, Read, PushShort,
       PushBlock, CommitBatch, FoundEmpty, FlushOrphan, Await, TakeResult, FlushAtEnd,
       CloseAsTold, CloseInterrupted, CloseSession, FlushBy
  <2>2. CASE Held' = Held
    BY <2>1, <2>2 DEF OrderInv
  <2>3. ASSUME Timeline' = Timeline, pending' = pending,
               NEW n \in 0 .. Len(ring), ring' = SubSeq(ring, n + 1, Len(ring))
        PROVE  OrderInv'
    <3> DEFINE x == SubSeq(ring, 1, n)
               y == SubSeq(ring, n + 1, Len(ring))
    <3>1. x \in Seq(Frame) /\ y \in Seq(Frame) /\ x \o y = ring
      BY <1>1, CutType, CutWhole
    <3>2. Held' = laid \o y
      BY <2>3 DEF Held
    <3> HIDE DEF laid, x, y
    <3>3. Held = laid \o (x \o y)
      BY <1>1, <3>1, Zenon
    <3>4. Ascending(laid \o (x \o y)) /\ OlderThan(laid \o (x \o y), produced)
      BY <3>3, Zenon DEF OrderInv
    <3>5. Ascending(laid \o y) /\ OlderThan(laid \o y, produced)
      BY <1>1, <3>1, <3>4, AscendingWithout
    <3> QED
      BY <2>1, <3>2, <3>5, Zenon DEF OrderInv
  <2> QED
    BY <1>3, <2>2, <2>3, HeldStep
<1>4. CASE CallbackPush
  <2>1. produced' = produced + CallbackFrames /\ UNCHANGED <<pending, Timeline>>
    BY <1>4 DEF CallbackPush, Timeline
  <2>2. /\ Delivered \in Seq(Frame) /\ Len(Delivered) = CallbackFrames
        /\ CallbackFrames \in Nat
        /\ \A i \in 1 .. CallbackFrames : Delivered[i] = (produced + i) - 1
    <3>1. CallbackFrames \in Nat /\ Delivered \in Seq(Frame)
      BY <1>1, CaptureAssumption, DeliveredType
    <3>2. Len(Delivered) = CallbackFrames
      BY <3>1, LenProperties DEF Delivered
    <3>3. \A i \in 1 .. CallbackFrames : Delivered[i] = (produced + i) - 1
      BY <1>1, <3>1 DEF Delivered
    <3> QED
      BY <3>1, <3>2, <3>3
  <2>3. CASE ring' = ring \o Delivered
    <3>1. Held' = Held \o Delivered
      <4> HIDE DEF laid
      <4>1. (laid \o ring) \o Delivered = laid \o (ring \o Delivered)
        BY <1>1, <2>2, FramesAssociate
      <4>2. Held' = laid \o (ring \o Delivered)
        BY <2>1, <2>3 DEF Held, laid
      <4> QED
        BY <1>1, <4>1, <4>2, Zenon
    <3>2. /\ Ascending(Held \o Delivered)
          /\ OlderThan(Held \o Delivered, produced + Len(Delivered))
      <4>1. \A i \in 1 .. Len(Delivered) : Delivered[i] = (produced + i) - 1
        BY <2>2
      <4>2. Delivered \in Seq(Frame) /\ Ascending(Held) /\ OlderThan(Held, produced)
        BY <2>2 DEF OrderInv
      <4> QED
        BY <1>1, <4>1, <4>2, AscendingMore
    <3> QED
      BY <2>1, <2>2, <3>1, <3>2 DEF OrderInv
  <2>4. CASE ring' = ring
    <3>1. Held' = Held
      BY <2>1, <2>4 DEF Held
    <3>2. \A i \in 1 .. Len(Held) : Held[i] \in Nat /\ Held[i] < produced
      BY <1>1, ElementOfSeq DEF OrderInv, OlderThan, Frame
    <3>3. OlderThan(Held, produced')
      <4> DEFINE next == produced'
      <4>1. next \in Nat /\ next >= produced
        BY <1>1, <2>1, <2>2
      <4> HIDE DEF next
      <4>2. \A i \in 1 .. Len(Held) : Held[i] < next
        BY <1>1, <3>2, <4>1
      <4> QED
        BY <4>2 DEF OlderThan, next
    <3> QED
      BY <3>1, <3>3 DEF OrderInv
  <2> QED
    BY <1>4, <2>3, <2>4 DEF CallbackPush
<1>5. CASE CallbackCount
  BY <1>2, <1>5 DEF CallbackCount
<1>6. CASE Command \/ Reset \/ UNCHANGED vars
  BY <1>2, <1>6 DEF Command, Record, Pause, Resume, Move, SetPause, BeginStop, BeginDisarm, Reset
<1>7. CASE Halt
  BY <1>2, <1>7 DEF Halt, HaltSetResult, SetResult, HaltStop, SetStop, HaltJoin, RemoveRow,
     RecordVerification, Release, CloseStream, TransactionFails
<1> QED
  BY <1>3, <1>4, <1>5, <1>6, <1>7 DEF EngineStep, Device

----------------------------------------------------------------------------
(* What the project holds only grows, and in order.                        *)

LEMMA ExtendsByMore ==
  ASSUME NEW a \in Seq(Frame), NEW b \in Seq(Frame), Len(b) > 0
  PROVE  A!Extends(a \o b, a)
<1> DEFINE c == a \o b
           s == SubSeq(c, 1, Len(a))
<1>1. /\ c \in Seq(Frame) /\ Len(c) = Len(a) + Len(b) /\ Len(a) \in Nat /\ Len(b) \in Nat
      /\ \A i \in 1 .. Len(a) : c[i] = a[i]
  BY Joins
<1> HIDE DEF c
<1>2. \A i \in 1 .. Len(a) : c[i] \in Frame
  <2>1. \A i \in 1 .. Len(a) : i \in 1 .. Len(c)
    BY <1>1
  <2> QED
    BY <1>1, <2>1, ElementOfSeq
<1>3. Len(a) \in 0 .. Len(c)
  BY <1>1
<1>4. s \in Seq(Frame) /\ Len(s) = Len(a) /\ \A i \in 1 .. Len(a) : s[i] = c[i]
  BY <1>1, <1>3, CutType
<1> HIDE DEF s
<1>5. s = a
  BY <1>1, <1>4, SeqEqual
<1> QED
  BY <1>1, <1>5 DEF A!Extends, c, s

LEMMA AscendingIsOrdered ==
  ASSUME NEW a \in Seq(Frame), Ascending(a)
  PROVE  A!Ordered(a)
<1>1. Len(a) \in Nat
  BY LenProperties
<1>2. \A i \in 1 .. Len(a) - 1 : i \in 1 .. Len(a) /\ i + 1 \in 1 .. Len(a) /\ i < i + 1
  BY <1>1
<1> QED
  BY <1>2 DEF Ascending, A!Ordered

LEMMA BlocksGrow ==
  ASSUME TypeOK, Writer
  PROVE  \/ blocks' = blocks
         \/ /\ \E more \in Seq(Block) : blocks' = blocks \o more
            /\ row'.state = row.state /\ row'.finished = row.finished
<1> DEFINE whole == batch \o ShortBlock
<1>1. row \in Row /\ batch \in Seq(Block) /\ whole \in Seq(Block)
  BY ShortBlockType, ConcatProperties DEF TypeOK
<1>2. ASSUME NEW these \in Seq(Block), NEW after, Commit(these, after)
      PROVE  /\ \E more \in Seq(Block) : blocks' = blocks \o more
             /\ row'.state = row.state /\ row'.finished = row.finished
  BY <1>1, <1>2 DEF Commit, Row
<1> HIDE DEF whole
<1>3. ASSUME NEW next, FlushBy(next)
      PROVE  blocks' = blocks \/ Commit(whole, startFrame + Len(pending))
  BY <1>3 DEF FlushBy, TransactionFails, whole
<1>4. CASE FlushForPause \/ FlushOrphan \/ FlushAtEnd
  BY <1>1, <1>2, <1>3, <1>4 DEF FlushForPause, FlushOrphan, FlushAtEnd
<1>5. CASE CommitBatch
  BY <1>1, <1>2, <1>5 DEF CommitBatch, TransactionFails
<1>6. CASE CloseAsTold \/ CloseInterrupted \/ PersistDiagnostics
  BY <1>6 DEF CloseAsTold, CloseInterrupted, CloseSession, PersistDiagnostics, TransactionFails
<1>7. CASE LoadPause \/ Settle \/ Read \/ PushShort \/ PushBlock \/ FoundEmpty \/ Await \/ TakeResult
  BY <1>7 DEF LoadPause, Settle, Read, PushShort, PushBlock, FoundEmpty, Await, TakeResult
<1> QED
  BY <1>4, <1>5, <1>6, <1>7 DEF Writer

LEMMA MoreIsHeard ==
  ASSUME NEW one \in Seq(Block), NEW more \in Seq(Block), Tiled(one \o more), more # <<>>
  PROVE  AudioOf(more) \in Seq(Frame) /\ Len(AudioOf(more)) > 0
<1>1. PICK s \in Seq(Block), b \in Block : more = Append(s, b)
  BY SequenceEmptyOrAppend
<1>2. AudioOf(s) \in Seq(Frame) /\ AudioOf(more) = AudioOf(s) \o b.audio
  BY <1>1, AudioIsFrames, AudioOfOneMore
<1>3. b.audio \in Seq(Frame) /\ b.audio # <<>>
  <2> DEFINE both == one \o more
  <2>1. /\ Len(one) \in Nat /\ Len(more) \in Nat /\ Len(s) \in Nat /\ Len(more) = Len(s) + 1
        /\ more[Len(s) + 1] = b /\ Len(both) = Len(one) + Len(more)
        /\ \A i \in 1 .. Len(one) + Len(more) :
              both[i] = IF i <= Len(one) THEN one[i] ELSE more[i - Len(one)]
    BY <1>1, AppendProperties, ConcatProperties, LenProperties
  <2> HIDE DEF both
  <2>2. PICK i \in 1 .. Len(one) + Len(more) : ~(i <= Len(one)) /\ i - Len(one) = Len(s) + 1
    <3>1. /\ Len(one) + (Len(s) + 1) \in 1 .. Len(one) + Len(more)
          /\ ~(Len(one) + (Len(s) + 1) <= Len(one))
          /\ (Len(one) + (Len(s) + 1)) - Len(one) = Len(s) + 1
      BY <2>1
    <3> QED
      BY <3>1
  <2>3. both[i] = b /\ i \in 1 .. Len(both)
    BY <2>1, <2>2
  <2>4. Tiled(both)
    BY DEF both
  <2> QED
    BY <2>3, <2>4 DEF Tiled, Block
<1>4. Len(b.audio) > 0
  BY <1>3, EmptySeq
<1>5. AudioOf(more) \in Seq(Frame) /\ Len(AudioOf(more)) = Len(AudioOf(s)) + Len(b.audio)
      /\ Len(AudioOf(s)) \in Nat /\ Len(b.audio) \in Nat
  BY <1>2, <1>3, ConcatProperties, LenProperties
<1> QED
  BY <1>4, <1>5


(***************************************************************************)
(* What holds of the project of a capture in progress.                     *)
(***************************************************************************)
Unclosed == ~row.finished => row.state \in {"recording", "absent"}

Stored == AudioOf(blocks)

LEMMA StoredLength ==
  ASSUME TypeOK, TimelineInv
  PROVE  Tiled(blocks) /\ Stored \in Seq(Frame) /\ Len(Stored) = row.frames
<1>1. blocks \in Seq(Block) /\ batch \in Seq(Block) /\ Tiled(blocks \o batch)
  BY DEF TypeOK, TimelineInv, Timeline
<1>2. Tiled(blocks)
  BY <1>1, TiledPrefix
<1> QED
  BY <1>1, <1>2, AudioLength, AudioIsFrames DEF Stored, TimelineInv

(***************************************************************************)
(* A commit, whichever way it comes about, is more audio after the last,   *)
(* all of it later, and the count with it.                                 *)
(***************************************************************************)
LEMMA CommitIsAddAudio ==
  ASSUME EngineInv, OrderInv, Unclosed, EngineInv', OrderInv', Writer, blocks' # blocks
  PROVE  A!AddAudio /\ Unclosed'
<1>1. /\ TypeOK /\ TimelineInv /\ ThreadInv /\ RowInv /\ CommandInv
      /\ TypeOK' /\ TimelineInv'
  BY DEF EngineInv
<1>2. row.state = "recording" /\ ~row.finished
  <2>1. ~Ended
    BY <1>1, WriterMoves
  <2>2. ~row.finished /\ call \notin {"release", "over"}
    BY <1>1, <2>1 DEF ThreadInv, CommandInv
  <2> QED
    BY <1>1, <2>2 DEF Unclosed, RowInv
<1>3. PICK more \in Seq(Block) : blocks' = blocks \o more
  BY <1>1, BlocksGrow
<1>4. row'.state = row.state /\ row'.finished = row.finished
  BY <1>1, BlocksGrow
<1>5. /\ Stored \in Seq(Frame) /\ AudioOf(more) \in Seq(Frame) /\ Len(AudioOf(more)) > 0
      /\ Stored' = Stored \o AudioOf(more) /\ Stored' \in Seq(Frame)
      /\ Len(Stored') = row'.frames
  <2>1. blocks \in Seq(Block) /\ more # <<>>
    BY <1>1, <1>3, ConcatEmptySeq DEF TypeOK
  <2>2. Tiled(blocks') /\ Stored' \in Seq(Frame) /\ Len(Stored') = row'.frames
    <3>1. blocks' \in Seq(Block) /\ batch' \in Seq(Block) /\ Tiled(blocks' \o batch')
      BY <1>1 DEF TypeOK, TimelineInv, Timeline
    <3>2. Tiled(blocks')
      BY <3>1, TiledPrefix
    <3>3. row'.frames = EndOf(blocks')
      BY <1>1 DEF TimelineInv
    <3> QED
      BY <3>1, <3>2, <3>3, AudioLength, AudioIsFrames DEF Stored
  <2> QED
    BY <1>1, <1>3, <2>1, <2>2, StoredLength, AudioOfBoth, MoreIsHeard DEF Stored
<1>6. A!Extends(Stored', Stored)
  BY <1>5, ExtendsByMore
<1>7. Ascending(Stored')
  <2> DEFINE laid == AudioOf(Timeline')
  <2>1. Stored' = laid
    BY <1>1, HeldStep DEF Stored
  <2>2. laid \in Seq(Frame) /\ pending' \in Seq(Frame) /\ ring' \in Seq(Frame)
    BY <1>1, <1>5, <2>1 DEF TypeOK
  <2>3. Ascending((laid \o pending') \o ring')
    BY DEF OrderInv, Held
  <2> HIDE DEF laid
  <2>4. laid \o pending' \in Seq(Frame)
    BY <2>2, ConcatProperties
  <2>5. Ascending(laid \o pending')
    BY <2>2, <2>3, <2>4, AscendingStart
  <2> QED
    BY <2>1, <2>2, <2>5, AscendingStart
<1> QED
  BY <1>2, <1>4, <1>5, <1>6, <1>7, AscendingIsOrdered DEF A!AddAudio, Stored, Unclosed


ArchiveStep == A!Next \/ UNCHANGED <<Stored, row.frames, row.state>>

LEMMA CaptureStep ==
  ASSUME EngineInv, OrderInv, Unclosed, EngineInv', OrderInv', EngineStep
  PROVE  ArchiveStep /\ Unclosed'
<1>1. /\ TypeOK /\ TimelineInv /\ ThreadInv /\ RowInv /\ CommandInv
      /\ TypeOK' /\ TimelineInv'
  BY DEF EngineInv
<1>2. row \in Row /\ row' \in Row
  BY <1>1 DEF TypeOK
<1>3. ASSUME blocks' = blocks, row' = row
      PROVE  ArchiveStep /\ Unclosed'
  BY <1>3 DEF ArchiveStep, Unclosed, Stored
<1>4. CASE Writer
  <2>1. CASE blocks' # blocks
    BY <1>4, <2>1, CommitIsAddAudio DEF ArchiveStep, A!Next
  <2>2. CASE blocks' = blocks
    <3>1. Stored' = Stored /\ row'.frames = row.frames
      BY <1>1, <2>2 DEF Stored, TimelineInv
    <3>2. ~row.finished /\ row.state = "recording"
      <4>1. ~Ended
        BY <1>1, <1>4, WriterMoves
      <4>2. ~row.finished /\ call \notin {"release", "over"}
        BY <1>1, <4>1 DEF ThreadInv, CommandInv
      <4> QED
        BY <1>1, <4>2 DEF Unclosed, RowInv
    <3>3. CASE row'.state = row.state
      BY <3>1, <3>2, <3>3 DEF ArchiveStep, Unclosed
    <3>4. CASE row'.state # row.state
      <4>1. row'.state \in Endings /\ row'.finished
        <5>1. row.finished \in BOOLEAN /\ row'.finished \in BOOLEAN
          BY <1>2 DEF Row
        <5> QED
          BY <1>1, <1>4, <3>2, <3>4, <5>1, WriterCloses
      <4>2. row'.frames = Len(Stored)
        BY <1>1, <3>1, StoredLength
      <4>3. A!Close
        BY <3>1, <3>2, <4>1, <4>2 DEF A!Close, Endings, Stored
      <4> QED
        BY <4>1, <4>3 DEF ArchiveStep, A!Next, Unclosed
    <3> QED
      BY <3>3, <3>4
  <2> QED
    BY <2>1, <2>2
<1>5. CASE Device
  BY <1>3, <1>5, DeviceAside DEF Aside
<1>6. CASE Command \/ Reset \/ UNCHANGED vars
  BY <1>3, <1>6 DEF Command, Record, Pause, Resume, Move, SetPause, BeginStop, BeginDisarm, Reset
<1>7. CASE RemoveRow
  <2>1. CASE TransactionFails
    BY <1>3, <2>1 DEF TransactionFails
  <2>2. CASE row' = [row EXCEPT !.state = "absent"] /\ UNCHANGED blocks
    <3>1. call = "remove" /\ phase = "idle"
      BY <1>1, <1>7 DEF RemoveRow, CommandInv
    <3>2. blocks = <<>> /\ row.state # "absent"
      BY <1>1, <3>1 DEF RowInv, Untouched
    <3>3. row'.state = "absent" /\ row'.frames = row.frames
      BY <1>2, <2>2 DEF Row
    <3>4. A!Withdraw
      BY <2>2, <3>2, <3>3, AudioOfNone DEF A!Withdraw, Stored
    <3> QED
      BY <3>3, <3>4 DEF ArchiveStep, A!Next, Unclosed
  <2> QED
    BY <1>7, <2>1, <2>2 DEF RemoveRow
<1>8. CASE HaltSetResult \/ HaltStop \/ HaltJoin \/ RecordVerification \/ Release
  BY <1>3, <1>8 DEF HaltSetResult, SetResult, HaltStop, SetStop, HaltJoin, RecordVerification,
     Release, CloseStream, TransactionFails
<1> QED
  BY <1>4, <1>5, <1>6, <1>7, <1>8 DEF EngineStep, Halt


----------------------------------------------------------------------------
(***************************************************************************)
(* Recovery's walk over the blocks of a capture ends where they end.       *)
(***************************************************************************)
RowOf(c, i) == [channel |-> c, sequence |-> blocks[i].sequence, start |-> blocks[i].start,
                frames |-> Len(blocks[i].audio)]

RowsUpTo(c, k) == {RowOf(c, i) : i \in 1 .. k}

LEMMA RowsAreCounted ==
  ASSUME Tiled(blocks), Len(blocks) \in Nat, NEW c, NEW k \in 0 .. Len(blocks)
  PROVE  Cardinality(RowsUpTo(c, k)) = k
<1> DEFINE f == [i \in 1 .. k |-> RowOf(c, i)]
<1>1. \A i \in 1 .. k : RowOf(c, i).sequence = i - 1
  BY DEF RowOf, Tiled
<1>2. \A i, j \in 1 .. k : RowOf(c, i) = RowOf(c, j) => i = j
  <2>1. ASSUME NEW i \in 1 .. k, NEW j \in 1 .. k, RowOf(c, i) = RowOf(c, j)
        PROVE  i = j
    <3>1. i - 1 = j - 1
      BY <1>1, <2>1
    <3> QED
      BY <3>1
  <2> QED
    BY <2>1
<1>3. f \in Bijection(1 .. k, RowsUpTo(c, k))
  <2>1. f \in [1 .. k -> RowsUpTo(c, k)]
    BY DEF RowsUpTo
  <2>2. \A i, j \in 1 .. k : f[i] = f[j] => i = j
    BY <1>2
  <2>3. \A r \in RowsUpTo(c, k) : \E i \in 1 .. k : f[i] = r
    BY DEF RowsUpTo
  <2> HIDE DEF f
  <2> QED
    BY <2>1, <2>2, <2>3 DEF Bijection, Injection, Surjection, IsInjective
<1> QED
  BY <1>3, FS_CountingElements DEF ExistsBijection

LEMMA RowsInOrder ==
  ASSUME Tiled(blocks), Len(blocks) \in Nat, NEW c \in 0 .. Channels - 1
  PROVE  BySequence(OnChannel(BlockRows, c)) = [i \in 1 .. Len(blocks) |-> RowOf(c, i)]
<1> DEFINE n == Len(blocks)
           rows == RowsUpTo(c, n)
<1>1. OnChannel(BlockRows, c) = rows
  BY DEF OnChannel, BlockRows, RowsUpTo, RowOf
<1>2. Cardinality(rows) = n
  BY RowsAreCounted
<1>3. \A i \in 1 .. n : RowOf(c, i) \in rows /\ RowOf(c, i).sequence = i - 1
  BY DEF RowsUpTo, RowOf, Tiled
<1>4. ASSUME NEW j \in 1 .. n
      PROVE  Cardinality(Before(rows, RowOf(c, j))) = j - 1
  <2>1. \A i \in 1 .. n : i - 1 < j - 1 <=> i \in 1 .. j - 1
    OBVIOUS
  <2>2. Before(rows, RowOf(c, j)) = {RowOf(c, i) : i \in {k \in 1 .. n : k - 1 < j - 1}}
    BY <1>3 DEF Before, RowsUpTo
  <2>3. {k \in 1 .. n : k - 1 < j - 1} = 1 .. j - 1
    BY <2>1
  <2>4. Before(rows, RowOf(c, j)) = RowsUpTo(c, j - 1)
    BY <2>2, <2>3 DEF RowsUpTo
  <2> QED
    BY <2>4, RowsAreCounted
<1>5. ASSUME NEW i \in 1 .. n
      PROVE  (CHOOSE r \in rows : Cardinality(Before(rows, r)) = i - 1) = RowOf(c, i)
  <2>1. \A r \in rows : Cardinality(Before(rows, r)) = i - 1 => r = RowOf(c, i)
    <3>1. \A j \in 1 .. n : j - 1 = i - 1 => j = i
      OBVIOUS
    <3> QED
      BY <1>4, <3>1 DEF RowsUpTo
  <2>2. RowOf(c, i) \in rows /\ Cardinality(Before(rows, RowOf(c, i))) = i - 1
    BY <1>3, <1>4
  <2> HIDE DEF rows
  <2> QED
    BY <2>1, <2>2
<1> HIDE DEF rows
<1> QED
  BY <1>1, <1>2, <1>5 DEF BySequence

WalkFrom(w, list, i) ==
  IF i = 0 THEN [frame |-> 0, sequence |-> 0, broken |-> FALSE, stranded |-> {}]
  ELSE Visit(w[i - 1], list[i])

Walks(w, list) == w = [i \in 0 .. Len(list) |-> WalkFrom(w, list, i)]

WalkedTo(i) == [frame |-> EndAt(blocks, i), sequence |-> i, broken |-> FALSE, stranded |-> {}]

WalkTypes == [frame : Nat, sequence : Nat, broken : BOOLEAN, stranded : SUBSET BlockRows]

LEMMA WalkedType ==
  \A f, n \in Nat :
     [frame |-> f, sequence |-> n, broken |-> FALSE, stranded |-> {}] \in WalkTypes
  BY DEF WalkTypes

LEMMA SameWalk ==
  ASSUME NEW x \in WalkTypes, NEW y \in WalkTypes, x.frame = y.frame, x.sequence = y.sequence,
         x.broken = y.broken, x.stranded = y.stranded
  PROVE  x = y
  BY DEF WalkTypes

LEMMA WalkGoesOn ==
  ASSUME blocks \in Seq(Block), Tiled(blocks), NEW c, NEW i \in 1 .. Len(blocks)
  PROVE  Visit(WalkedTo(i - 1), RowOf(c, i)) = WalkedTo(i)
<1> DEFINE b == blocks[i]
<1>1. /\ b \in Block /\ b.sequence = i - 1 /\ b.audio # <<>> /\ b.start = EndAt(blocks, i - 1)
      /\ Len(blocks) \in Nat
  BY ElementOfSeq, LenProperties DEF Tiled
<1>2. b.audio \in Seq(Frame) /\ b.start \in Nat
  BY <1>1 DEF Block
<1>3. Len(b.audio) \in Nat \ {0}
  BY <1>1, <1>2, EmptySeq
<1>4. EndAt(blocks, i) = b.start + Len(b.audio)
  BY DEF EndAt
<1> DEFINE k == Len(b.audio)
<1>5. RowOf(c, i) = [channel |-> c, sequence |-> i - 1, start |-> b.start, frames |-> k]
  BY <1>1 DEF RowOf
<1>6. WalkedTo(i - 1) = [frame |-> b.start, sequence |-> i - 1, broken |-> FALSE, stranded |-> {}]
  BY <1>1 DEF WalkedTo
<1>7. WalkedTo(i) = [frame |-> b.start + k, sequence |-> i, broken |-> FALSE, stranded |-> {}]
  BY <1>4 DEF WalkedTo
<1> HIDE DEF b, k
<1>8. ~(b.start < 0) /\ k > 0 /\ (i - 1) + 1 = i
  BY <1>2, <1>3 DEF k
<1> DEFINE from == WalkedTo(i - 1)
           r == RowOf(c, i)
<1>9. CarriesOn(from, r)
  BY <1>5, <1>6, <1>8 DEF CarriesOn, NotNegative
<1>10. from \in WalkTypes /\ WalkedTo(i) \in WalkTypes
  <2>1. b.start \in Nat /\ b.start + k \in Nat
    BY <1>2, <1>3 DEF k
  <2>2. i \in Nat /\ i - 1 \in Nat
    BY <1>1
  <2> QED
    BY <1>6, <1>7, <2>1, <2>2, WalkedType, Zenon
<1>11. Visit(from, r) = [from EXCEPT !.frame = from.frame + r.frames,
                                     !.sequence = from.sequence + 1]
  BY <1>9 DEF Visit
<1>12. /\ from.frame = b.start /\ from.sequence = i - 1 /\ from.broken = FALSE
       /\ from.stranded = {} /\ r.frames = k
  BY <1>5, <1>6
<1>13. b.start + k \in Nat /\ i \in Nat
  BY <1>2, <1>3 DEF k
<1> HIDE DEF from, r
<1> DEFINE to == [from EXCEPT !.frame = b.start + k, !.sequence = i]
<1>14. Visit(from, r) = to
  BY <1>8, <1>11, <1>12
<1>15. /\ to \in WalkTypes /\ to.frame = b.start + k /\ to.sequence = i
       /\ to.broken = FALSE /\ to.stranded = {}
  BY <1>10, <1>12, <1>13 DEF WalkTypes
<1> HIDE DEF to
<1>16. to = WalkedTo(i)
  <2>1. /\ WalkedTo(i).frame = b.start + k /\ WalkedTo(i).sequence = i
        /\ WalkedTo(i).broken = FALSE /\ WalkedTo(i).stranded = {}
    BY <1>7
  <2> QED
    BY <1>10, <1>15, <2>1, SameWalk
<1> QED
  BY <1>14, <1>16, Zenon DEF from, r

LEMMA WalkEnds ==
  ASSUME blocks \in Seq(Block), Tiled(blocks), NEW c \in 0 .. Channels - 1
  PROVE  Walk(BlockRows, c) = WalkedTo(Len(blocks))
<1> DEFINE n == Len(blocks)
           list == [i \in 1 .. n |-> RowOf(c, i)]
           g == [i \in 0 .. n |-> WalkedTo(i)]
           w == CHOOSE f : Walks(f, list)
<1>1. n \in Nat /\ Len(list) = n /\ \A i \in 1 .. n : list[i] = RowOf(c, i)
  BY LenProperties
<1>2. Walk(BlockRows, c) = WalkOver(list)
  BY <1>1, RowsInOrder DEF Walk
<1>3. WalkOver(list) = w[Len(list)]
  BY DEF WalkOver, Walks, WalkFrom
<1>4. WalkedTo(0) = [frame |-> 0, sequence |-> 0, broken |-> FALSE, stranded |-> {}]
  BY DEF WalkedTo, EndAt
<1>5. \A i \in 1 .. n : Visit(WalkedTo(i - 1), RowOf(c, i)) = WalkedTo(i)
  BY WalkGoesOn
<1> HIDE DEF list, n
<1>6. Walks(g, list)
  <2>1. ASSUME NEW i \in 0 .. n
        PROVE  WalkFrom(g, list, i) = WalkedTo(i)
    <3>1. CASE i = 0
      BY <1>4, <3>1 DEF WalkFrom
    <3>2. CASE i # 0
      <4>1. i \in 1 .. n /\ i - 1 \in 0 .. n
        BY <1>1, <3>2
      <4>2. g[i - 1] = WalkedTo(i - 1)
        BY <4>1
      <4> QED
        BY <1>1, <1>5, <3>2, <4>1, <4>2 DEF WalkFrom
    <3> QED
      BY <3>1, <3>2
  <2>2. [i \in 0 .. n |-> WalkFrom(g, list, i)] = [i \in 0 .. n |-> WalkedTo(i)]
    BY <2>1
  <2> QED
    BY <1>1, <2>2 DEF Walks
<1>7. Walks(w, list)
  BY <1>6
<1> HIDE DEF g, w
<1> DEFINE S == {m \in Nat : m <= n => w[m] = WalkedTo(m)}
<1>8. 0 \in S
  <2>1. w[0] = WalkFrom(w, list, 0)
    BY <1>1, <1>7 DEF Walks
  <2> QED
    BY <1>4, <2>1 DEF WalkFrom
<1>9. ASSUME NEW m \in Nat, m + 1 <= n, w[m] = WalkedTo(m)
      PROVE  w[m + 1] = WalkedTo(m + 1)
  <2>1. m + 1 \in 0 .. n /\ m + 1 \in 1 .. n /\ m + 1 # 0 /\ (m + 1) - 1 = m
    BY <1>1, <1>9
  <2>2. w[m + 1] = WalkFrom(w, list, m + 1)
    BY <1>1, <1>7, <2>1 DEF Walks
  <2>3. w[m + 1] = Visit(WalkedTo(m), RowOf(c, m + 1))
    BY <1>1, <1>9, <2>1, <2>2 DEF WalkFrom
  <2>4. Visit(WalkedTo((m + 1) - 1), RowOf(c, m + 1)) = WalkedTo(m + 1)
    BY <1>5, <2>1
  <2> QED
    BY <2>1, <2>3, <2>4
<1>10. \A m \in Nat : m \in S => m + 1 \in S
  BY <1>1, <1>9
<1> HIDE DEF S
<1>11. n \in S
  BY <1>1, <1>8, <1>10, SetInduction
<1> QED
  BY <1>1, <1>2, <1>3, <1>11 DEF S, n

LEMMA UsableIsAll ==
  ASSUME blocks \in Seq(Block), Tiled(blocks)
  PROVE  Usable(BlockRows, Channels) = EndOf(blocks)
<1> DEFINE e == EndOf(blocks)
<1>1. Channels \in Nat /\ Channels # 0
  BY ChannelsAssumption
<1>2. \A c \in 0 .. Channels - 1 : Walk(BlockRows, c).frame = e
  BY WalkEnds DEF WalkedTo, EndOf
<1>3. {Walk(BlockRows, c).frame : c \in 0 .. Channels - 1} = {e}
  <2>1. 0 \in 0 .. Channels - 1
    BY <1>1
  <2> QED
    BY <1>2, <2>1
<1>4. e \in Nat
  <2>1. AudioOf(blocks) \in Seq(Frame) /\ Len(AudioOf(blocks)) = e
    BY AudioLength, AudioIsFrames
  <2> QED
    BY <2>1, LenProperties
<1> HIDE DEF e
<1>5. Min({e}) = e
  BY <1>4 DEF Min
<1> QED
  BY <1>1, <1>3, <1>5 DEF Usable, e


----------------------------------------------------------------------------
(***************************************************************************)
(* What the project says of itself, with no regard for the process that    *)
(* wrote it.  This is all a kill leaves, and all that the verb needs.      *)
(***************************************************************************)
Durable ==
  /\ blocks \in Seq(Block) /\ Tiled(blocks)
  /\ row \in Row /\ row.frames = EndOf(blocks)
  /\ row.state = "absent" => blocks = <<>>
  /\ Unclosed

(***************************************************************************)
(* A capture in progress is as the engine has it.  One that is over or     *)
(* killed is what is in the project, and what the verb has found there is  *)
(* still so.                                                               *)
(***************************************************************************)
RecoveryInv ==
  /\ alive /\ call # "over" => EngineInv /\ OrderInv /\ assessment = NoAssessment
  /\ alive /\ call = "over" => Ended
  /\ Durable
  /\ assessment # NoAssessment => Unfinished /\ assessment.usable = EndOf(blocks)

LEMMA CaptureIsDurable ==
  ASSUME EngineInv, Unclosed
  PROVE  Durable
<1>1. TypeOK /\ TimelineInv /\ RowInv
  BY DEF EngineInv
<1> QED
  BY <1>1, StoredLength DEF Durable, TypeOK, TimelineInv, RowInv

LEMMA RecoveryStarts ==
  ASSUME RecoveryInit
  PROVE  RecoveryInv /\ A!Init
<1>1. Init /\ assessment = NoAssessment /\ row = Begun /\ call = "none"
      /\ blocks = <<>> /\ batch = <<>> /\ pending = <<>> /\ ring = <<>>
  BY DEF RecoveryInit, Init, CaptureInit, PipelineInit
<1>2. EngineInv
  BY <1>1, EngineStarts
<1>3. Unclosed
  BY <1>1 DEF Unclosed, Begun
<1>4. Held = <<>>
  <2>1. Timeline = <<>>
    BY <1>1 DEF Timeline
  <2>2. AudioOf(Timeline) = <<>>
    BY <2>1, AudioOfNone
  <2> QED
    BY <1>1, <2>2 DEF Held
<1>5. OrderInv
  BY <1>4 DEF OrderInv, Ascending, OlderThan
<1>6. A!Init
  BY <1>1, AudioOfNone DEF A!Init, Begun
<1> QED
  BY <1>1, <1>2, <1>3, <1>5, <1>6, CaptureIsDurable DEF RecoveryInv

(***************************************************************************)
(* A capture that is over does nothing more.                               *)
(***************************************************************************)
LEMMA OverIsOver ==
  ASSUME call = "over", Ended, Next
  PROVE  UNCHANGED <<blocks, row, wpc, call>>
<1>1. ~Writer
  BY DEF Ended, Writer, LoadPause, FlushForPause, Settle, PersistDiagnostics, Read, PushShort,
     PushBlock, CommitBatch, FoundEmpty, FlushOrphan, Await, TakeResult, FlushAtEnd,
     CloseAsTold, CloseInterrupted
<1>2. ~Command /\ ~Halt
  BY DEF Command, Record, Pause, Resume, Move, BeginStop, BeginDisarm, Halt, HaltSetResult,
     HaltStop, HaltJoin, RemoveRow, RecordVerification, Release
<1>3. CASE Device /\ UNCHANGED engineVars
  BY <1>3, DeviceAside DEF Aside
<1>4. CASE Over
  BY <1>4 DEF Over
<1> QED
  BY <1>1, <1>2, <1>3, <1>4 DEF Next

LEMMA RecoveryStep ==
  ASSUME RecoveryInv, [RecoveryNext]_allVars
  PROVE  RecoveryInv' /\ ArchiveStep
<1>1. Durable /\ row \in Row
  BY DEF RecoveryInv, Durable
<1>2. ASSUME blocks' = blocks, row' = row
      PROVE  Durable' /\ ArchiveStep
  BY <1>1, <1>2 DEF Durable, Unclosed, ArchiveStep, Stored
<1>3. CASE Capturing /\ call # "over"
  <2>1. EngineInv /\ OrderInv /\ Unclosed /\ TypeOK /\ assessment = NoAssessment
    BY <1>3 DEF RecoveryInv, Durable, Capturing, EngineInv
  <2>2. EngineStep
    BY <1>3 DEF Capturing, Next, Over, EngineStep
  <2>3. EngineInv'
    BY <2>1, <2>2, PipelineKept, EngineTypesKept, CommandKept, WriterKept, RowKept DEF EngineInv
  <2>4. OrderInv'
    BY <2>1, <2>2, OrderKept
  <2>5. ArchiveStep /\ Unclosed'
    BY <2>1, <2>2, <2>3, <2>4, CaptureStep
  <2>6. Durable'
    <3>1. (TypeOK /\ TimelineInv /\ RowInv)'
      BY <2>3 DEF EngineInv
    <3>2. /\ blocks' \in Seq(Block) /\ batch' \in Seq(Block) /\ row' \in Row
          /\ Tiled(blocks' \o batch') /\ row'.frames = EndOf(blocks')
          /\ (row'.state = "absent" => blocks' = <<>>)
      BY <3>1 DEF TypeOK, TimelineInv, RowInv, Timeline
    <3>3. Tiled(blocks')
      BY <3>2, TiledPrefix
    <3> QED
      BY <2>5, <3>2, <3>3 DEF Durable
  <2>7. call' = "over" => Ended'
    BY <2>3 DEF EngineInv, CommandInv
  <2>8. assessment' = NoAssessment
    BY <1>3, <2>1 DEF Capturing
  <2> QED
    BY <2>3, <2>4, <2>5, <2>6, <2>7, <2>8 DEF RecoveryInv
<1>4. CASE Capturing /\ call = "over"
  <2>1. UNCHANGED <<blocks, row, wpc, call, recoveryVars>> /\ alive
    BY <1>4, OverIsOver DEF Capturing, RecoveryInv
  <2> QED
    BY <1>2, <1>4, <2>1 DEF RecoveryInv, Ended, Unfinished
<1>5. CASE Kill
  <2>1. UNCHANGED <<blocks, row, assessment>> /\ ~alive'
    BY <1>5 DEF Kill
  <2> QED
    BY <1>2, <2>1 DEF RecoveryInv, Unfinished
<1>6. CASE Unattended /\ Survey
  <2>1. UNCHANGED <<blocks, row, wpc, call, alive>> /\ Unfinished
        /\ assessment'.usable = EndOf(blocks)
    BY <1>1, <1>6, UsableIsAll DEF Survey, Durable
  <2> QED
    BY <1>2, <1>6, <2>1 DEF RecoveryInv, Ended, Unfinished, Unattended
<1>7. CASE Unattended /\ Recover
  <2>1. /\ UNCHANGED <<blocks, wpc, call, alive>> /\ assessment' = NoAssessment
        /\ Unfinished /\ assessment.usable = EndOf(blocks)
    BY <1>7 DEF Recover, TransactionFails, RecoveryInv
  <2>2. CASE row' = row
    BY <1>2, <1>7, <2>1, <2>2 DEF RecoveryInv, Ended, Unattended
  <2>3. CASE row' = [row EXCEPT !.frames = assessment.usable, !.state = "recovered",
                                !.finished = TRUE]
    <3>1. /\ Stored \in Seq(Frame) /\ Len(Stored) = EndOf(blocks) /\ EndOf(blocks) \in Nat
          /\ Stored' = Stored
      BY <1>1, <2>1, AudioLength, AudioIsFrames, LenProperties DEF Durable, Stored
    <3>2. /\ row'.frames = EndOf(blocks) /\ row'.state = "recovered" /\ row'.finished = TRUE
          /\ row' \in Row
      BY <1>1, <2>1, <2>3, <3>1 DEF Row
    <3>3. A!Close
      BY <1>1, <2>1, <3>1, <3>2 DEF A!Close, Durable, Unclosed, Unfinished, Stored
    <3>4. Durable'
      BY <1>1, <2>1, <3>2 DEF Durable, Unclosed
    <3> QED
      BY <1>7, <2>1, <3>3, <3>4 DEF RecoveryInv, Ended, Unattended, ArchiveStep, A!Next
  <2> QED
    BY <1>7, <2>2, <2>3 DEF Recover, TransactionFails
<1>8. CASE Rest \/ UNCHANGED allVars
  <2>1. UNCHANGED allVars
    BY <1>8 DEF Rest
  <2>2. EngineInv /\ OrderInv => EngineInv' /\ OrderInv'
    <3>1. EngineStep
      BY <2>1 DEF EngineStep
    <3> QED
      BY <3>1, OrderKept, PipelineKept, EngineTypesKept, CommandKept, WriterKept, RowKept
      DEF EngineInv
  <2> QED
    BY <1>2, <2>1, <2>2 DEF RecoveryInv, Ended, Unfinished
<1> QED
  BY <1>3, <1>4, <1>5, <1>6, <1>7, <1>8 DEF RecoveryNext, Verb

(***************************************************************************)
(* ImplementsArchive: whatever the engine does with a capture, wherever it *)
(* is killed and however often recovery is tried, the project is an        *)
(* append-only recording whose declared length is right at every instant,  *)
(* closed once and not touched again, or withdrawn if nothing was recorded *)
(* (persistence.rs, commit() and Session::finish; recovery.rs, recover()). *)
(***************************************************************************)
THEOREM CaptureIsArchive ==
  RecoverySpec => ImplementsArchive
<1>1. RecoveryInit => RecoveryInv /\ A!Init
  BY RecoveryStarts
<1>2. RecoveryInv /\ [RecoveryNext]_allVars => RecoveryInv' /\ [A!Next]_(A!archiveVars)
  BY RecoveryStep DEF ArchiveStep, Stored, A!archiveVars
<1> QED
  BY <1>1, <1>2, PTL DEF RecoverySpec, ImplementsArchive, A!Spec

=============================================================================
