------------------------------- MODULE Archive -------------------------------
(***************************************************************************)
(* What a project promises about one capture, whatever happens to the      *)
(* process that makes it: an append-only recording whose declared length   *)
(* is right at every instant, closed exactly once and never touched again, *)
(* or withdrawn if nothing was ever recorded.                              *)
(*                                                                         *)
(* The promise is REQUIREMENTS.md 13 to 15 as the code keeps it: blocks    *)
(* are immutable (decision D4), captures.frames moves inside the block     *)
(* transaction, finished_at is written once, by Session::finish or by      *)
(* recovery::recover.  Capture and recovery together are shown to          *)
(* implement it by CaptureRecovery.                                        *)
(***************************************************************************)
EXTENDS Naturals, Sequences

VARIABLES
  stored,     \* the audio, frame by frame, in the order it was produced
  declared,   \* how many frames the project says it holds
  status      \* "recording", how it was closed, or "absent"

archiveVars == <<stored, declared, status>>

Init ==
  /\ stored = <<>>
  /\ declared = 0
  /\ status = "recording"

(***************************************************************************)
(* More audio, all of it later than what is there.                         *)
(***************************************************************************)
Extends(longer, shorter) ==
  /\ Len(longer) > Len(shorter)
  /\ SubSeq(longer, 1, Len(shorter)) = shorter

Ordered(audio) == \A i \in 1 .. Len(audio) - 1 : audio[i] < audio[i + 1]

AddAudio ==
  /\ status = "recording"
  /\ Extends(stored', stored)
  /\ Ordered(stored')
  /\ declared' = Len(stored')
  /\ UNCHANGED status

Close ==
  /\ status = "recording"
  /\ status' \in {"finalised", "interrupted", "recovered"}
  /\ declared' = Len(stored)
  /\ UNCHANGED stored

Withdraw ==
  /\ stored = <<>>
  /\ status # "absent"
  /\ status' = "absent"
  /\ UNCHANGED <<stored, declared>>

Next == AddAudio \/ Close \/ Withdraw

Spec == Init /\ [][Next]_archiveVars

=============================================================================
