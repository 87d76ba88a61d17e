------------------------------ MODULE MCTracks ------------------------------
(***************************************************************************)
(* TrackEdits on two sides of one take: what two passes of the detectors   *)
(* may report, and three sides to begin with.                              *)
(***************************************************************************)
EXTENDS TrackEdits

Both == {"silence", "hmm"}

Seen(at, edge, by) == [at |-> at, edge |-> edge, sources |-> by]

\* Two tracks that meet, one boundary of which only one detector saw; and a start
\* that lies between the two starts of the first with an end that is late.
MCPasses ==
    {{Seen(0, "start", Both), Seen(2, "end", Both), Seen(2, "start", Both),
      Seen(4, "end", {"hmm"})},
     {Seen(1, "start", Both), Seen(3, "start", Both), Seen(4, "end", Both)}}

Row(s, at, edge, prov, locked) ==
    [side |-> s, at |-> at, edge |-> edge, prov |-> prov, locked |-> locked]

TrackRow(s, n, start, end) == [side |-> s, number |-> n, start |-> start, end |-> end]

MCStarts ==
    { [boundaries |-> <<>>, tracks |-> <<>>],
      \* two tracks from detection that meet, the second ended by the operator
      [boundaries |-> <<Row("A", 0, "start", "hmm", FALSE), Row("A", 2, "end", "hmm", FALSE),
                        Row("A", 2, "start", "hmm", FALSE), Row("A", 4, "end", "user", TRUE)>>,
       tracks |-> <<TrackRow("A", 1, 1, 2), TrackRow("A", 2, 3, 4)>>],
      \* a merge that left its locked boundary inside the track
      [boundaries |-> <<Row("A", 0, "start", "user", TRUE), Row("A", 3, "end", "hmm", FALSE),
                        Row("A", 2, "start", "user", TRUE)>>,
       tracks |-> <<TrackRow("A", 1, 1, 2)>>] }
=============================================================================
