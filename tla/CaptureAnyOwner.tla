---------------------------- MODULE CaptureAnyOwner ----------------------------
(***************************************************************************)
(* The capture pipeline under the most general owner: one that uses the    *)
(* Handle in any order until it stops the writer, passes on counters as    *)
(* old as it likes and may release the device at any moment.  What holds   *)
(* here holds of every program built on the Handle.                        *)
(***************************************************************************)
EXTENDS CaptureWriter

AnyOwner ==
  \/ /\ ~stop
     /\ \/ \E state \in Endings, counters \in 0 .. lost : SetResult(state, counters)
        \/ \E counters \in 0 .. lost : Note(counters)
        \/ \E on \in BOOLEAN : SetPause(on)
        \/ SetStop
  \/ CloseStream

(***************************************************************************)
(* Everything has run out: the writer has ended, the device is closed.     *)
(***************************************************************************)
RunOut == Ended /\ stop /\ sink = "gone" /\ UNCHANGED captureVars

OwnerNext == Device \/ Writer \/ AnyOwner \/ RunOut

OwnerSpec == CaptureInit /\ [][OwnerNext]_captureVars

(***************************************************************************)
(* The writer thread is scheduled; neither the owner nor the device need   *)
(* ever do anything.                                                       *)
(***************************************************************************)
FairOwnerSpec == OwnerSpec /\ WF_captureVars(Loop)

=============================================================================
