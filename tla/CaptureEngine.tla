---------------------------- MODULE CaptureEngine ----------------------------
(***************************************************************************)
(* A capture under the engine thread: the transport phases of              *)
(* crates/core/src/state.rs driving the Recorder deck of                   *)
(* crates/core/src/engine.rs, which owns the device and the writer's       *)
(* Handle.  The writer starts paused: RECORD only clears a flag, and the   *)
(* device keeps delivering until the Recorder is dropped, after the writer *)
(* has been stopped and joined.                                            *)
(*                                                                         *)
(* `call` is where the engine thread is inside a command; the phase is     *)
(* that of the machine, which a command under way has not changed yet.     *)
(***************************************************************************)
EXTENDS CaptureWriter, Integers

(* Recorder::open: an armed deck must not write what it hears.             *)
ASSUME EngineAssumption == StartPaused

VARIABLES
  phase,     \* Machine::phase
  call,      \* "none", or the next thing the command under way does
  ending,    \* the state the command is stopping the capture in
  reported   \* frames of the capture-finished event, NotReported before it

engineVars == <<phase, call, ending, reported>>
vars == <<captureVars, engineVars>>

NotReported == -1

Init ==
  /\ CaptureInit
  /\ phase = "armed" /\ call = "none" /\ ending = "finalised"
  /\ reported = NotReported

----------------------------------------------------------------------------
(* Record, Pause and Resume set a flag and move at once.                    *)

Move(from, to, on) ==
  /\ call = "none" /\ phase = from
  /\ phase' = to
  /\ SetPause(on)
  /\ UNCHANGED <<call, ending, reported>>

Record == Move("armed", "recording", FALSE)
Pause  == Move("recording", "paused", TRUE)
Resume == Move("paused", "recording", FALSE)

(***************************************************************************)
(* Stop, and the Shutdown that stops a capture in progress: ending() looks *)
(* at the counters first.  Disarm abandons the deck as finalised.          *)
(***************************************************************************)
BeginStop ==
  /\ call = "none" /\ phase \in {"recording", "paused"}
  /\ ending' = IF lost = 0 THEN "finalised" ELSE "interrupted"
  /\ call' = "result"
  /\ UNCHANGED <<phase, reported, captureVars>>

BeginDisarm ==
  /\ call = "none" /\ phase = "armed"
  /\ phase' = "idle"
  /\ ending' = "finalised"
  /\ call' = "result"
  /\ UNCHANGED <<reported, captureVars>>

Command == Record \/ Pause \/ Resume \/ BeginStop \/ BeginDisarm

(***************************************************************************)
(* halt(): the meters and the detector are joined, the counters are read   *)
(* again, the writer is told to stop and joined.                           *)
(***************************************************************************)
HaltSetResult ==
  /\ call = "result"
  /\ SetResult(ending, lost)
  /\ call' = "stop"
  /\ UNCHANGED <<phase, ending, reported>>

HaltStop ==
  /\ call = "stop"
  /\ SetStop
  /\ call' = "join"
  /\ UNCHANGED <<phase, ending, reported>>

\* Mutant: the writer is not waited for.
HaltJoinEarly ==
  /\ call = "join"
  /\ call' = IF phase # "idle" THEN "verify" ELSE IF frames = 0 THEN "remove" ELSE "release"
  /\ UNCHANGED <<phase, ending, reported, captureVars>>

\* Mutant: the row of an abandoned arm stays.
HaltJoinKeepingRow ==
  /\ call = "join" /\ Ended
  /\ call' = IF wpc # "dead" /\ phase # "idle" THEN "verify" ELSE "release"
  /\ phase' = IF wpc = "dead" THEN "idle" ELSE phase
  /\ UNCHANGED <<ending, reported, captureVars>>

(***************************************************************************)
(* A writer that failed makes the stop a refusal that leaves the machine   *)
(* idle; an abandoned capture with no frames has its row removed.          *)
(***************************************************************************)
HaltJoin ==
  /\ call = "join" /\ Ended
  /\ IF wpc = "dead"
       THEN phase' = "idle" /\ call' = "release"
       ELSE /\ call' = IF phase # "idle" THEN "verify"
                       ELSE IF frames = 0 THEN "remove" ELSE "release"
            /\ UNCHANGED phase
  /\ UNCHANGED <<ending, reported, captureVars>>

RemoveRow ==
  /\ call = "remove"
  /\ \/ row' = [row EXCEPT !.state = "absent"] /\ UNCHANGED <<blocks, failures>>
     \/ TransactionFails
  /\ call' = "release"
  /\ UNCHANGED <<phase, ending, reported>>
  /\ UNCHANGED <<deviceVars, ring, handleVars, wpc, threadVars, writerVars>>

(***************************************************************************)
(* finish() writes the verification into the closed row; if that fails the *)
(* stop is refused although the capture is in the project.                 *)
(***************************************************************************)
RecordVerification ==
  /\ call = "verify"
  /\ \/ phase' = "stopped" /\ reported' = frames /\ UNCHANGED projectVars
     \/ TransactionFails /\ phase' = "idle" /\ UNCHANGED reported
  /\ call' = "release"
  /\ UNCHANGED ending
  /\ UNCHANGED <<deviceVars, ring, handleVars, wpc, threadVars, writerVars>>

(***************************************************************************)
(* The Recorder is dropped, and the device with it.                        *)
(***************************************************************************)
Release ==
  /\ call = "release"
  /\ CloseStream
  /\ call' = "over"
  /\ UNCHANGED <<phase, ending, reported>>

Halt == HaltSetResult \/ HaltStop \/ HaltJoin \/ RemoveRow
        \/ RecordVerification \/ Release

Over == call = "over" /\ UNCHANGED vars

Next == \/ (Device \/ Writer) /\ UNCHANGED engineVars
        \/ Command
        \/ Halt
        \/ Over

Spec == Init /\ [][Next]_vars

(***************************************************************************)
(* The writer thread's loop and the engine's command run on; the counter   *)
(* timer fires again and again; a callback that has started finishes.  No  *)
(* command need ever be given and no transaction need ever succeed.        *)
(***************************************************************************)
FairSpec ==
  /\ Spec
  /\ WF_vars(Loop /\ UNCHANGED engineVars)
  /\ SF_vars(PersistDiagnostics /\ UNCHANGED engineVars)
  /\ WF_vars(CallbackCount /\ UNCHANGED engineVars)
  /\ WF_vars(Halt)

----------------------------------------------------------------------------
(***************************************************************************)
(* Recorder::abandon: the row "goes if nothing was written, and stays if   *)
(* anything was"; its blocks would be orphaned otherwise.  Only a          *)
(* transaction that failed leaves the row of an arm that was abandoned.    *)
(***************************************************************************)
OnlyAnEmptyRowGoes ==
  /\ row.state = "absent" => blocks = <<>> /\ row.frames = 0
  /\ call = "over" /\ phase = "idle" /\ reported = NotReported /\ failures = 0 =>
       row.state = "absent"

(***************************************************************************)
(* Deck::frames: Stopped::position must not "disagree with the row in the  *)
(* project".  What is reported of a stopped capture is what its closed row *)
(* says, and all of it is in the blocks.                                   *)
(***************************************************************************)
StoppedAgreesWithRow ==
  phase = "stopped" => /\ row.finished /\ row.state = ending
                       /\ row.frames = reported
                       /\ EndOf(blocks) = reported

=============================================================================
