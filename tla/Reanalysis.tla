----------------------------- MODULE Reanalysis -----------------------------
(***************************************************************************)
(* TrackEdits with an operator who only presses the analyse button: the    *)
(* same capture, the same configuration, hence the same report and the     *)
(* same most confident detector every time.                                *)
(***************************************************************************)
EXTENDS TrackEdits

CONSTANT Surest   \* the most confident detector

Analyse == \E s \in Sides, pass \in Passes : Adopt(s, pass, Surest)

ReanalysisNext == Analyse \/ Statement \/ Over

ReanalysisSpec == Init /\ [][ReanalysisNext]_vars

\* "running_the_same_analysis_twice_changes_nothing": once a pass has been adopted,
\* adopting it again adds no track and moves none.
TwiceChangesNothing == [][edits > 1 => UNCHANGED tracks]_vars

-----------------------------------------------------------------------------
(***************************************************************************)
(* Three tracks, of which one detector alone saw the end of the first and  *)
(* the start of the third: the policy turns these two down.                *)
(***************************************************************************)

Both == Detectors

Seen(at, edge, by) == [at |-> at, edge |-> edge, sources |-> by]

WornPressing ==
    {{Seen(0, "start", Both), Seen(1, "end", {Surest}),
      Seen(2, "start", Both), Seen(3, "end", Both),
      Seen(4, "start", {Surest}), Seen(5, "end", Both)}}

Unedited == {[boundaries |-> <<>>, tracks |-> <<>>]}
=============================================================================
