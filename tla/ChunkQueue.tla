----------------------------- MODULE ChunkQueue -----------------------------
(***************************************************************************)
(* The playback queue of crates/audio/src/chunks.rs.                       *)
(*                                                                         *)
(* A fixed pool of Depth buffers is allocated once and circulates: the     *)
(* feeder fills an empty buffer and sends it through one SPSC ring, the    *)
(* audio callback plays it and returns it through a second SPSC ring.      *)
(*                                                                         *)
(* A filled chunk is a record: the epoch it was filled in, its first frame *)
(* and its length in frames.  An empty buffer has no content, so the spent *)
(* ring and the feeder's spare stack are counts.                           *)
(***************************************************************************)
EXTENDS Naturals, Sequences

CONSTANTS
  Depth,     \* buffers allocated by queue(), never fewer than two
  HeldBack   \* the reserve hold_back() is asked for, 0 when it is not called

ASSUME QueueAssumption ==
  /\ Depth \in Nat \ {0, 1}
  /\ HeldBack \in Nat

VARIABLES
  full,      \* ring feeder -> callback: filled chunks, oldest first
  spent,     \* ring callback -> feeder: how many used buffers wait there
  spare,     \* empty buffers in the feeder's hands
  released   \* whether the reserve may be spent

queueVars == <<full, spent, spare, released>>

(***************************************************************************)
(* hold_back(): at least two buffers always stay spendable.                *)
(***************************************************************************)
Reserve == IF HeldBack <= Depth - 2 THEN HeldBack ELSE Depth - 2

QueueInit ==
  /\ full = <<>>
  /\ spent = 0
  /\ spare = Depth
  /\ released = FALSE

----------------------------------------------------------------------------
(* The feeder's end.                                                       *)

(***************************************************************************)
(* take() first collects every spent buffer, then yields one unless only   *)
(* the reserve is left and it has not been released.  A pool larger than   *)
(* the reserve cancels a release.                                          *)
(***************************************************************************)
Pool == spare + spent

CanTake == Pool > Reserve \/ (released /\ Pool > 0)

Lapse == released' = (released /\ Pool <= Reserve)

TakeChunk ==
  /\ CanTake
  /\ spare' = Pool - 1
  /\ spent' = 0
  /\ Lapse
  /\ UNCHANGED full

(***************************************************************************)
(* A take() that found nothing, and a take() whose buffer goes straight    *)
(* back with give_back(): the spent buffers are collected all the same.    *)
(***************************************************************************)
CollectOnly ==
  /\ spare' = Pool
  /\ spent' = 0
  /\ Lapse
  /\ UNCHANGED full

ReleaseReserve ==
  /\ released' = TRUE
  /\ UNCHANGED <<full, spent, spare>>

SendChunk(chunk) ==
  /\ full' = Append(full, chunk)
  /\ UNCHANGED <<spent, spare, released>>

----------------------------------------------------------------------------
(* The callback's end.                                                     *)

(***************************************************************************)
(* next_chunk() with the chunk kept, and next_chunk() with the chunk       *)
(* recycled at once.                                                       *)
(***************************************************************************)
NextChunk ==
  /\ full' = Tail(full)
  /\ UNCHANGED <<spent, spare, released>>

\* Mutant: a stale chunk is dropped with its buffer.
DiscardAndDrop ==
  /\ full' = Tail(full)
  /\ UNCHANGED <<spent, spare, released>>

DiscardChunk ==
  /\ full' = Tail(full)
  /\ spent' = spent + 1
  /\ UNCHANGED <<spare, released>>

Recycle ==
  /\ spent' = spent + 1
  /\ UNCHANGED <<full, spare, released>>

=============================================================================
