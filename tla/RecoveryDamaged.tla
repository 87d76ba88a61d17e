---------------------------- MODULE RecoveryDamaged ----------------------------
(***************************************************************************)
(* Recovery of a capture "edited by something else" (recovery.rs): blocks  *)
(* are lost, start_frame moved or frame_count changed, the damage          *)
(* tests/validation.rs and the tests of recovery.rs do with SQL, before    *)
(* recover() runs under Plan::Commit or Plan::Repair.  What it leaves is   *)
(* judged by check_timeline() and check_coverage() of validate.rs.         *)
(***************************************************************************)
EXTENDS RecoveryWalk

CONSTANTS
  Channels,     \* channels of the capture
  Blocks,       \* bound: blocks per channel
  BlockFrames,  \* frames in a full block
  Damages,      \* kinds of damage considered
  MaxDamage     \* bound: rows damaged

ASSUME DamagedAssumption ==
  /\ Channels \in Nat \ {0}
  /\ Blocks \in Nat
  /\ BlockFrames \in Nat \ {0}
  /\ Damages \subseteq {"lost", "moved", "miscounted"}
  /\ MaxDamage \in Nat

VARIABLES
  rows,      \* the capture's rows of capture_blocks
  declared,  \* captures.frames
  finished,  \* finished_at is set
  damage     \* rows damaged so far

vars == <<rows, declared, finished, damage>>

(***************************************************************************)
(* What a writer leaves: blocks of any length up to a full one (a pause    *)
(* cuts one short), the same on every channel.                             *)
(***************************************************************************)
Start(lengths, i) == MapThenSumSet(LAMBDA j : lengths[j], 1 .. i - 1)

WrittenRows(lengths) ==
  {[channel |-> c, sequence |-> i - 1, start |-> Start(lengths, i),
    frames |-> lengths[i]] : c \in 0 .. Channels - 1, i \in DOMAIN lengths}

Init ==
  \E n \in 0 .. Blocks : \E lengths \in [1 .. n -> 1 .. BlockFrames] :
    /\ rows = WrittenRows(lengths)
    /\ declared = Start(lengths, n + 1)
    /\ finished = FALSE
    /\ damage = 0

Replace(r, by) ==
  /\ ~finished
  /\ damage < MaxDamage
  /\ rows' = (rows \ {r}) \cup by
  /\ damage' = damage + 1
  /\ UNCHANGED <<declared, finished>>

Damage ==
  \E r \in rows :
    \/ "lost" \in Damages       /\ Replace(r, {})
    \/ "moved" \in Damages      /\ Replace(r, {[r EXCEPT !.start = @ + 1]})
    \/ "miscounted" \in Damages /\ Replace(r, {[r EXCEPT !.frames = @ - 1]})

CloseRecovered(left) ==
  /\ ~finished
  /\ rows' = left
  /\ declared' = Usable(rows, Channels)
  /\ finished' = TRUE
  /\ UNCHANGED damage

RecoverCommit == Surplus(rows, Channels) = {} /\ CloseRecovered(rows)

RecoverRepair == CloseRecovered(rows \ Surplus(rows, Channels))

Rest == finished /\ UNCHANGED vars

Next == Damage \/ RecoverCommit \/ RecoverRepair \/ Rest

Spec == Init /\ [][Next]_vars

----------------------------------------------------------------------------
(* validate(): the checks of the timeline and of the coverage.              *)

Earlier(r) == {q \in rows : q.channel = r.channel /\ q.sequence < r.sequence}

Expected(r) ==
  IF Earlier(r) = {} THEN 0
  ELSE LET before == CHOOSE q \in Earlier(r) :
                       \A p \in Earlier(r) : p.sequence <= q.sequence
       IN before.start + NotNegative(before.frames)

TimelineFindings ==
  {f \in {"timeline-gap", "empty-block"} :
     \E r \in rows : \/ f = "timeline-gap" /\ r.start # Expected(r)
                     \/ f = "empty-block" /\ r.frames <= 0}

Found == {r.channel : r \in rows}

FramesIn(set) == MapThenSumSet(LAMBDA r : r.frames, set)

FramesOn(c) == FramesIn({r \in rows : r.channel = c})

CoverageFindings ==
  LET held == {FramesOn(c) : c \in Found} IN
    IF rows = {} THEN {}
    ELSE {f \in {"missing-channel", "ragged-channels", "frame-count-mismatch"} :
            \/ f = "missing-channel" /\ Cardinality(Found) # Channels
            \/ f = "ragged-channels" /\ Cardinality(held) # 1
            \/ f = "frame-count-mismatch" /\ declared # Min(held)}

Findings == TimelineFindings \cup CoverageFindings

----------------------------------------------------------------------------
(* How far channel c reaches, without a walk: the end of the longest run   *)
(* of rows numbered from 0 each of which starts where the one before ends. *)

Chain(c, k) == {r \in rows : r.channel = c /\ r.sequence < k}

IsRun(c, k) ==
  /\ Cardinality(Chain(c, k)) = k
  /\ \A r \in Chain(c, k) :
       /\ r.frames > 0
       /\ r.start = FramesIn(Chain(c, r.sequence))

Reach(c) ==
  Max({FramesIn(Chain(c, k)) : k \in {j \in 0 .. Blocks : IsRun(c, j)}})

(***************************************************************************)
(* recovery.rs, walk(): counting past a hole "is the one answer that must  *)
(* never be given".  The length recovery writes is the longest that every  *)
(* channel holds without a break.                                          *)
(***************************************************************************)
WalkMeasures == Usable(rows, Channels) = Min({Reach(c) : c \in 0 .. Channels - 1})

(***************************************************************************)
(* validate.rs: "recovery's whole method is to believe the blocks over the *)
(* row".  Whatever was lost, moved or miscounted, a capture recovery has   *)
(* closed validates: every channel tiled, equally long, as long as the row *)
(* says.  The one exception is a block left across the agreed end, which   *)
(* assess_record() rules out ("a block cannot straddle the boundary") but  *)
(* a frame_count made shorter on one channel produces.                     *)
(***************************************************************************)
Straddling ==
  {r \in rows : r.start < declared /\ r.start + r.frames > declared}

RecoveredValidates == finished /\ Straddling = {} => Findings = {}

(***************************************************************************)
(* Repair removes only what lies past the agreed end: every frame before   *)
(* it is still there, on every channel, when the capture is closed.        *)
(***************************************************************************)
Covers(r, c, f) == r.channel = c /\ r.start <= f /\ f < r.start + r.frames

AgreedAudioKept ==
  [][finished' =>
       \A c \in 0 .. Channels - 1, f \in 0 .. Usable(rows, Channels) - 1 :
         \E r \in rows' : Covers(r, c, f)]_vars

=============================================================================
