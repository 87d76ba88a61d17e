----------------------------- MODULE RecoveryWalk -----------------------------
(***************************************************************************)
(* How recovery measures a capture from its blocks: walk() and             *)
(* assess_record() of crates/project/src/recovery.rs.                      *)
(*                                                                         *)
(* The input is the set of the capture's rows in capture_blocks, any set   *)
(* the table's UNIQUE (capture_id, channel, sequence) allows: records      *)
(* with channel, sequence, start and frames.                               *)
(***************************************************************************)
EXTENDS Integers, Sequences, FiniteSetsExt

NotNegative(n) == IF n < 0 THEN 0 ELSE n

\* Mutant: a hole does not stop the count.
CarriesOnRegardless(walked, r) == r.frames > 0

(***************************************************************************)
(* One channel, in sequence order.  The first row that does not carry on   *)
(* exactly where the last one stopped breaks the timeline; it and every    *)
(* row after it are stranded.                                              *)
(***************************************************************************)
CarriesOn(walked, r) ==
  /\ ~walked.broken
  /\ r.sequence = walked.sequence
  /\ NotNegative(r.start) = walked.frame
  /\ r.frames > 0

Visit(walked, r) ==
  IF CarriesOn(walked, r)
    THEN [walked EXCEPT !.frame = @ + r.frames, !.sequence = @ + 1]
    ELSE [walked EXCEPT !.broken = TRUE, !.stranded = @ \cup {r}]

(* The rows of a channel, ORDER BY sequence.                               *)
OnChannel(rows, channel) == {r \in rows : r.channel = channel}

Before(rows, r) == {q \in rows : q.sequence < r.sequence}

BySequence(rows) ==
  [i \in 1 .. Cardinality(rows) |-> CHOOSE r \in rows : Cardinality(Before(rows, r)) = i - 1]

WalkOver(list) ==
  LET walked[i \in 0 .. Len(list)] ==
        IF i = 0 THEN [frame |-> 0, sequence |-> 0, broken |-> FALSE, stranded |-> {}]
        ELSE Visit(walked[i - 1], list[i])
  IN  walked[Len(list)]

Walk(rows, channel) == WalkOver(BySequence(OnChannel(rows, channel)))

(***************************************************************************)
(* The capture is as long as the declared channel that agrees least far,   *)
(* a channel with no rows being zero long.  Surplus is what the walk       *)
(* stranded and what starts at or after that end, on any channel.          *)
(***************************************************************************)
Usable(rows, channels) ==
  IF channels = 0 THEN 0
  ELSE Min({Walk(rows, c).frame : c \in 0 .. channels - 1})

Stranded(rows) == UNION {Walk(rows, c).stranded : c \in {r.channel : r \in rows}}

\* Mutant: only what the walk stranded.
SurplusStranded(rows, channels) == Stranded(rows)

\* Mutant: off by one at the agreed end.
SurplusEarly(rows, channels) ==
  Stranded(rows)
    \cup {r \in rows : NotNegative(r.start) + 1 >= Usable(rows, channels)}

Surplus(rows, channels) ==
  Stranded(rows)
    \cup {r \in rows : NotNegative(r.start) >= Usable(rows, channels)}

=============================================================================
