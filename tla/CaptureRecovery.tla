--------------------------- MODULE CaptureRecovery ---------------------------
(***************************************************************************)
(* A capture under the engine that can be killed between any two steps,    *)
(* and `vcw recover` (crates/project/src/recovery.rs) run on the project   *)
(* it leaves: survey() assesses a capture with no finished_at, recover()   *)
(* writes what it found in one transaction.                                *)
(*                                                                         *)
(* A kill takes the memory of the process; a committed transaction stays   *)
(* (synchronous=FULL).  The verb is run on a project nobody is writing,    *)
(* which nothing enforces.                                                 *)
(***************************************************************************)
EXTENDS CaptureEngine, RecoveryWalk

CONSTANT Channels   \* channels of the capture

ASSUME ChannelsAssumption == Channels \in Nat \ {0}

VARIABLES
  alive,      \* whether the capturing process is running
  assessment  \* what survey() found, NoAssessment when none is in hand

recoveryVars == <<alive, assessment>>
allVars == <<vars, recoveryVars>>

NoAssessment == [usable |-> 0 - 1, surplus |-> {}]

RecoveryInit == Init /\ alive = TRUE /\ assessment = NoAssessment

Kill ==
  /\ alive
  /\ alive' = FALSE
  /\ UNCHANGED <<vars, assessment>>

(***************************************************************************)
(* The rows of capture_blocks: every block on every channel.               *)
(***************************************************************************)
BlockRows ==
  {[channel |-> c, sequence |-> blocks[i].sequence, start |-> blocks[i].start,
    frames |-> Len(blocks[i].audio)] :
     c \in 0 .. Channels - 1, i \in 1 .. Len(blocks)}

\* Mutant: a capture with no frames is not offered.
UnfinishedWithAudio == ~row.finished /\ row.state # "absent" /\ row.frames > 0

Unfinished == ~row.finished /\ row.state # "absent"

Survey ==
  /\ Unfinished
  /\ assessment = NoAssessment
  /\ assessment' = [usable  |-> Usable(BlockRows, Channels),
                    surplus |-> Surplus(BlockRows, Channels)]
  /\ UNCHANGED <<vars, alive>>

(***************************************************************************)
(* recover() under Plan::Commit, refused when anything is stranded.        *)
(***************************************************************************)
Recover ==
  /\ assessment # NoAssessment
  /\ assessment.surplus = {}
  /\ \/ /\ row' = [row EXCEPT !.frames = assessment.usable,
                              !.state = "recovered", !.finished = TRUE]
        /\ UNCHANGED <<blocks, failures>>
     \/ TransactionFails
  /\ assessment' = NoAssessment
  /\ UNCHANGED <<alive, engineVars>>
  /\ UNCHANGED <<deviceVars, ring, handleVars, wpc, threadVars, writerVars>>

Capturing == alive /\ Next /\ UNCHANGED recoveryVars

Verb == Survey \/ Recover

Unattended == ~alive \/ call = "over"

Rest == ~alive /\ ~Unfinished /\ assessment = NoAssessment /\ UNCHANGED allVars

RecoveryNext == Capturing \/ Kill \/ (Unattended /\ Verb) \/ Rest

RecoverySpec == RecoveryInit /\ [][RecoveryNext]_allVars

(***************************************************************************)
(* The verb is run to its end on a project that needs it.                  *)
(***************************************************************************)
FairRecovery == RecoverySpec /\ WF_allVars(Unattended /\ Verb)

----------------------------------------------------------------------------
(***************************************************************************)
(* The capture and its recovery implement Archive.  recovery.rs says of a  *)
(* kill that it "lands between transactions and leaves a consistent,       *)
(* merely unfinished, capture": what recovery then declares is all of it.  *)
(***************************************************************************)
A == INSTANCE Archive WITH
       stored <- AudioOf(blocks),
       declared <- row.frames,
       status <- row.state

ImplementsArchive == A!Spec

(***************************************************************************)
(* A killed capture can always be settled: run to its end, the verb closes *)
(* the row or nothing was left to close.                                   *)
(***************************************************************************)
KilledIsSettled == ~alive ~> row.finished \/ row.state = "absent"

=============================================================================
