------------------------------ MODULE CaptureCli ------------------------------
(***************************************************************************)
(* A capture under `vcw capture --project` (crates/cli/src/capture.rs).    *)
(* The device runs first; then the project is opened or created and the    *)
(* session begun, and only then does anyone read the ring.  The verb       *)
(* records for a while, releases the device, stops the writer, and opens   *)
(* the project once more to note what the system said of the stream.       *)
(* Other processes may use the same file all the while; where it is taken  *)
(* away, blocks and row are those of the one the writer wrote.             *)
(*                                                                         *)
(* Capture::stop takes the final counters and then drops the stream; the   *)
(* state of the capture is decided from those counters.                    *)
(***************************************************************************)
EXTENDS CaptureWriter, ProjectFile

CONSTANT Cli   \* the process that captures

(* The verb takes Config's default, start_paused: false.                   *)
ASSUME CliAssumption == ~StartPaused /\ Cli \in Openers

VARIABLES
  step,    \* the next thing the verb does
  final    \* the counters Capture::stop returned

cliVars == <<step, final>>
vars == <<captureVars, cliVars, fileVars>>

Init ==
  /\ PipelineInit /\ row = [Begun EXCEPT !.state = "absent"]
  /\ FileInit
  /\ step = "open" /\ final = 0

----------------------------------------------------------------------------
(* Opening, with the device already delivering.                            *)

OpenProject ==
  /\ step = "open"
  /\ OpenOrCreate(Cli)
  /\ step' = "begin"
  /\ UNCHANGED <<final, captureVars>>

(***************************************************************************)
(* Session::begin inserts the row, and the writer takes the project.       *)
(***************************************************************************)
BeginSession ==
  /\ step = "begin" /\ place[Cli] = "writer"
  /\ row' = Begun
  /\ step' = "recording"
  /\ UNCHANGED <<final, deviceVars, ring, handleVars, wpc, threadVars, writerVars, blocks,
                 failures, fileVars>>

----------------------------------------------------------------------------
SnapshotCounters ==
  /\ step = "recording"
  /\ final' = lost
  /\ step' = "drop"
  /\ UNCHANGED <<captureVars, fileVars>>

DropStream ==
  /\ step = "drop"
  /\ CloseStream
  /\ step' = "result"
  /\ UNCHANGED <<final, fileVars>>

\* Mutant: every capture is called finalised.
GiveResultBlindly ==
  /\ step = "result"
  /\ SetResult("finalised", final)
  /\ step' = "stop"
  /\ UNCHANGED <<final, fileVars>>

GiveResult ==
  /\ step = "result"
  /\ SetResult(IF final = 0 THEN "finalised" ELSE "interrupted", final)
  /\ step' = "stop"
  /\ UNCHANGED <<final, fileVars>>

StopWriter ==
  /\ step = "stop"
  /\ SetStop
  /\ step' = "join"
  /\ UNCHANGED <<final, fileVars>>

(* The writer closes the project it was given.  Its error ends the verb.   *)
JoinWriter ==
  /\ step = "join" /\ Ended
  /\ Leave(Cli)
  /\ step' = IF wpc = "dead" THEN "over" ELSE "reopen"
  /\ UNCHANGED <<final, captureVars>>

(***************************************************************************)
(* The verification is written to columns nothing here reads.  Nobody      *)
(* looks whether the project is still there.                               *)
(***************************************************************************)
Reopen ==
  /\ step = "reopen"
  /\ OpenAgain(Cli)
  /\ step' = "verify"
  /\ UNCHANGED <<final, captureVars>>

RecordVerification ==
  /\ step = "verify" /\ place[Cli] = "writer"
  /\ Leave(Cli)
  /\ step' = "over"
  /\ UNCHANGED <<final, captureVars>>

(* A refusal ends the verb, and what it holds of the device is dropped.    *)
Refused ==
  /\ step \in {"begin", "verify"} /\ place[Cli] = "refused"
  /\ Leave(Cli)
  /\ IF sink = "gone" THEN UNCHANGED captureVars ELSE CloseStream
  /\ step' = "over"
  /\ UNCHANGED final

Verb == OpenProject \/ BeginSession \/ SnapshotCounters \/ DropStream \/ GiveResult
        \/ StopWriter \/ JoinWriter \/ Reopen \/ RecordVerification \/ Refused

----------------------------------------------------------------------------
(***************************************************************************)
(* The statements of opening the project, for the verb and for the others. *)
(***************************************************************************)
OpeningOf(o) ==
  /\ \/ o = Cli /\ step \in {"begin", "verify"} /\ Attempt(o)
     \/ o # Cli /\ (Ask(o) \/ Attempt(o) \/ Leave(o))
  /\ UNCHANGED <<captureVars, cliVars>>

Thread == row.state # "absent" /\ Writer

Over == step = "over" /\ UNCHANGED vars

Next == \/ (Device \/ Thread) /\ UNCHANGED <<cliVars, fileVars>>
        \/ Verb
        \/ \E o \in Openers : OpeningOf(o)
        \/ TakeAway /\ UNCHANGED <<captureVars, cliVars>>
        \/ Over

Spec == Init /\ [][Next]_vars

----------------------------------------------------------------------------
(***************************************************************************)
(* capture.rs: a callback that does not fit "is dropped and counted";      *)
(* buffers.rs: "a dropped callback is a counted, visible gap; a torn frame *)
(* is corruption that looks like audio".  Through overruns, failed         *)
(* transactions, the time the project takes to open and the end of the     *)
(* capture, every frame the converter produced is held or counted as lost, *)
(* what is held is in the order it was produced, and the only gaps are     *)
(* whole callbacks.                                                        *)
(***************************************************************************)
FramesAccounted ==
  /\ Len(Held) + lost + (IF sink = "refused" THEN CallbackFrames ELSE 0) = produced
  /\ \A i \in 1 .. Len(Held) - 1 :
       \/ Held[i + 1] = Held[i] + 1
       \/ /\ Held[i + 1] > Held[i]
          /\ Held[i + 1] % CallbackFrames = 0
          /\ (Held[i] + 1) % CallbackFrames = 0

(***************************************************************************)
(* A capture that says it is finalised had no loss in the counters its row *)
(* carries, and a capture whose transactions all succeed says how it       *)
(* ended, whether or not the verification could be noted behind it.        *)
(***************************************************************************)
RowIsHonest ==
  /\ row.finished /\ row.state = "finalised" => row.lost = 0
  /\ step = "over" /\ failures = 0 /\ row.state # "absent" =>
       row.finished /\ (row.state = "finalised" <=> final = 0)

=============================================================================
