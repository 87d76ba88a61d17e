---------------------------- MODULE PlaybackProofs ----------------------------
(***************************************************************************)
(* Proofs about the live playback transport, for any pool and reserve, any *)
(* chunk and buffer size, any audition with any holes in it and any number *)
(* of seeks: what the three threads share is never torn, lost or reordered.*)
(***************************************************************************)
EXTENDS PlaybackRender, SequenceTheorems, TLAPS

USE DEF queueVars, cursorVars, transportVars, feederVars, callbackVars, historyVars

----------------------------------------------------------------------------
(* The inductive invariant, in four parts.                                 *)

(***************************************************************************)
(* What each thread has in hand at each point of its loop.                 *)
(***************************************************************************)
HandsInv ==
  /\ filled # NoChunk <=> fpc = "send"
  /\ fpc = "send" => filled.epoch = fepoch /\ filled.start + filled.len = position
  /\ tpc \in {"frame", "drained", "ended", "epoch"} => epoch < MaxSeeks
  /\ cpc \in {"gate", "loop"} => written < BufferFrames

(***************************************************************************)
(* Every chunk on its way, and what the device got last, is inside the     *)
(* audition and clear of its holes.                                        *)
(***************************************************************************)
Solid(chunk) ==
  chunk # NoChunk => /\ chunk.start + chunk.len <= SpanEnd
                     /\ (chunk.start .. chunk.start + chunk.len - 1) \cap Holes = {}

SolidInv ==
  /\ \A i \in 1 .. Len(full) : Solid(full[i])
  /\ Solid(filled) /\ Solid(current)
  /\ HoleIsNeverHeard

(***************************************************************************)
(* Epochs only travel downstream: a thread behind a seek may hold an older *)
(* epoch, never a newer one than the thread it got it from.                *)
(***************************************************************************)
EpochInv ==
  /\ fepoch <= epoch /\ cepoch <= epoch
  /\ heard.epoch <= cepoch /\ heard.epoch <= fepoch
  /\ current # NoChunk => current.epoch = cepoch /\ current.epoch <= fepoch
  /\ \A i \in 1 .. Len(full) : full[i].epoch <= fepoch
  /\ fpc = "seek" => /\ heard.epoch < fepoch
                     /\ current # NoChunk => current.epoch < fepoch
                     /\ \A i \in 1 .. Len(full) : full[i].epoch < fepoch
  /\ fpc \in {"start", "open"} =>
       full = <<>> /\ current = NoChunk /\ heard.epoch = -1

(***************************************************************************)
(* The line the callback is served from: the queue, the chunk the feeder   *)
(* is about to send, and the place the feeder reads on from, which is a    *)
(* chunk of no length yet.  A feeder that has adopted a seek and not       *)
(* loaded its frame has no such place.                                     *)
(***************************************************************************)
Waiting == Len(full) + InHand(filled)

LineLen == Waiting + IF fpc \in {"start", "open", "seek"} THEN 0 ELSE 1

Piece(i) == IF i <= Len(full) THEN full[i]
            ELSE IF i <= Waiting THEN filled
            ELSE [epoch |-> fepoch, start |-> position, len |-> 0]

Line == [i \in 1 .. LineLen |-> Piece(i)]

(***************************************************************************)
(* Along the line epochs never go back, and inside one epoch every piece   *)
(* starts where the one before it stops.                                   *)
(***************************************************************************)
Tidy(l, n) ==
  /\ \A i, j \in 1 .. n : i < j => l[i].epoch <= l[j].epoch
  /\ \A i \in 1 .. n - 1 :
       l[i].epoch = l[i + 1].epoch => l[i + 1].start = l[i].start + l[i].len

(***************************************************************************)
(* The first piece of epoch e in the line starts at a given frame.  For    *)
(* the epoch the callback plays that is where what it has in hand stops,   *)
(* or else where what it gave the device last did.                         *)
(***************************************************************************)
GoesOn(l, n, e, at) ==
  \A i \in 1 .. n :
    l[i].epoch = e /\ (i = 1 \/ l[i - 1].epoch # e) => l[i].start = at

LineInv ==
  /\ Tidy(Line, LineLen)
  /\ current # NoChunk =>
       /\ GoesOn(Line, LineLen, cepoch, current.start + current.len)
       /\ heard.epoch = cepoch => heard.to = current.start
  /\ current = NoChunk /\ heard.epoch = cepoch =>
       GoesOn(Line, LineLen, cepoch, heard.to)

IInv == TypeOK /\ HandsInv /\ PoolConserved /\ SolidInv /\ EpochInv /\ LineInv

----------------------------------------------------------------------------
(* Facts the steps share.                                                  *)

LEMMA NoChunkIsNone == NoChunk \notin Chunk
  BY DEF NoChunk, Chunk

LEMMA ClampType ==
  ASSUME NEW f \in Int, NEW lo \in Int, NEW hi \in Int, lo <= hi
  PROVE  Clamp(f, lo, hi) \in lo .. hi
  BY DEF Clamp

(***************************************************************************)
(* The queue's two ends move one chunk each.                               *)
(***************************************************************************)
LEMMA AppendsOne ==
  ASSUME full \in Seq(Chunk), NEW c \in Chunk
  PROVE  /\ Append(full, c) \in Seq(Chunk)
         /\ Len(Append(full, c)) = Len(full) + 1
         /\ \A i \in 1 .. Len(full) : Append(full, c)[i] = full[i]
         /\ Append(full, c)[Len(full) + 1] = c
  BY AppendProperties, LenProperties

LEMMA TakesOne ==
  ASSUME full \in Seq(Chunk), full # <<>>
  PROVE  /\ Head(full) \in Chunk /\ Head(full) = full[1] /\ Len(full) > 0
         /\ Tail(full) \in Seq(Chunk) /\ Len(Tail(full)) = Len(full) - 1
         /\ \A i \in 1 .. Len(full) - 1 : Tail(full)[i] = full[i + 1]
  BY HeadTailProperties, LenProperties, EmptySeq

----------------------------------------------------------------------------
(* Types.                                                                  *)

LEMMA StartsTyped == Init => TypeOK
<1> SUFFICES ASSUME Init
             PROVE  TypeOK
  OBVIOUS
<1>1. full \in Seq(Chunk)
  BY DEF Init, QueueInit
<1>2. aimed \in [0 .. MaxSeeks -> SpanStart .. SpanEnd - 1]
  BY PlaybackAssumption DEF Init
<1>3. spent \in 0 .. Depth /\ spare \in 0 .. Depth /\ released \in BOOLEAN
  <2>1. released \in BOOLEAN
    BY DEF Init, QueueInit
  <2> QED
    BY <2>1, QueueAssumption DEF Init, QueueInit
<1>4. heard \in [epoch : -1 .. MaxSeeks, from : SpanStart .. SpanEnd,
                 to : SpanStart .. SpanEnd]
  BY PlaybackAssumption DEF Init
<1>5. /\ frame \in SpanStart .. SpanEnd /\ position \in SpanStart .. SpanEnd
      /\ landing \in SpanStart .. SpanEnd - 1 /\ written \in 0 .. BufferFrames
      /\ epoch \in 0 .. MaxSeeks /\ delivered \in 0 .. MaxSeeks
      /\ fepoch \in 0 .. MaxSeeks /\ cepoch \in 0 .. MaxSeeks
  BY PlaybackAssumption DEF Init
<1> QED
  BY <1>1, <1>2, <1>3, <1>4, <1>5 DEF Init, TypeOK

(***************************************************************************)
(* The transport thread's own steps and the operator's.                    *)
(***************************************************************************)
LEMMA TransportTypes ==
  ASSUME TypeOK, HandsInv, Operator \/ Transport
  PROVE  TypeOK'
<1>1. ASSUME NEW on \in BOOLEAN, SetPlaying(on)
      PROVE  TypeOK'
  BY <1>1 DEF SetPlaying, TypeOK
<1>2. ASSUME NEW target \in Int, BeginSeek(target)
      PROVE  TypeOK'
  <2>1. landing' \in SpanStart .. SpanEnd - 1
    BY <1>2, ClampType, PlaybackAssumption DEF BeginSeek
  <2> QED
    BY <1>2, <2>1 DEF BeginSeek, TypeOK
<1>3. CASE Play \/ Pause
  BY <1>1, <1>3 DEF Play, Pause
<1>4. CASE Seek
  BY <1>2, <1>4, PlaybackAssumption DEF Seek
<1>5. CASE SkipForward \/ SkipBack
  <2>1. frame + SkipFrames \in Int /\ frame - SkipFrames \in Int
    BY PlaybackAssumption DEF TypeOK
  <2> QED
    BY <1>2, <1>5, <2>1 DEF SkipForward, SkipBack
<1>6. CASE SeekStoreFrame
  <2>1. frame' \in SpanStart .. SpanEnd
    BY <1>6, PlaybackAssumption DEF SeekStoreFrame, TypeOK
  <2> QED
    BY <1>6, <2>1 DEF SeekStoreFrame, TypeOK
<1>7. CASE SeekClearDrained
  BY <1>7 DEF SeekClearDrained, TypeOK
<1>8. CASE SeekClearEnded
  <2>1. ended' \in BOOLEAN
    BY <1>8 DEF SeekClearEnded
  <2> QED
    BY <1>8, <2>1 DEF SeekClearEnded, TypeOK
<1>9. CASE SeekBumpEpoch
  <2>1. epoch + 1 \in 0 .. MaxSeeks
    BY <1>9, PlaybackAssumption DEF SeekBumpEpoch, HandsInv, TypeOK
  <2> QED
    BY <1>9, <2>1 DEF SeekBumpEpoch, TypeOK
<1>10. CASE Tick
  <2>1. playing' \in BOOLEAN /\ announced' \in BOOLEAN
    BY <1>10 DEF Tick
  <2> QED
    BY <1>10, <2>1 DEF Tick, TypeOK
<1>11. CASE Stop
  BY <1>11 DEF Stop, TypeOK
<1>12. CASE JoinFeeder
  <2>1. playing' \in BOOLEAN
    BY <1>12 DEF JoinFeeder
  <2> QED
    BY <1>12, <2>1 DEF JoinFeeder, TypeOK
<1> QED
  BY <1>3, <1>4, <1>5, <1>6, <1>7, <1>8, <1>9, <1>10, <1>11, <1>12
     DEF Operator, Transport

(***************************************************************************)
(* The pool: what is conserved bounds what each place can hold.            *)
(***************************************************************************)
LEMMA PoolBounds ==
  ASSUME TypeOK, PoolConserved
  PROVE  /\ Pool \in 0 .. Depth /\ Reserve \in Nat /\ Len(full) \in Nat
         /\ CanTake => Pool > 0
         /\ filled # NoChunk \/ current # NoChunk => Pool < Depth
<1>1. Len(full) \in Nat
  BY LenProperties DEF TypeOK
<1>2. InHand(filled) \in {0, 1} /\ InHand(current) \in {0, 1}
  BY DEF InHand
<1>3. Reserve \in Nat
  BY QueueAssumption DEF Reserve
<1> QED
  BY <1>1, <1>2, <1>3, QueueAssumption DEF TypeOK, PoolConserved, Pool, CanTake, InHand

(***************************************************************************)
(* The feeder's steps.                                                     *)
(***************************************************************************)
LEMMA FillsOne ==
  ASSUME TypeOK, position < SpanEnd
  PROVE  /\ ReadTo \in SpanStart .. SpanEnd
         /\ [epoch |-> fepoch, start |-> position, len |-> ReadTo - position] \in Chunk
<1>1. ReadTo \in SpanStart .. SpanEnd /\ ReadTo - position \in 1 .. ChunkFrames
  BY PlaybackAssumption DEF TypeOK, ReadTo, Lesser
<1>2. position \in SpanStart .. SpanEnd - 1 /\ fepoch \in 0 .. MaxSeeks
  BY PlaybackAssumption DEF TypeOK
<1> QED
  BY <1>1, <1>2 DEF Chunk

LEMMA FeederTypes ==
  ASSUME TypeOK, HandsInv, PoolConserved, Feeder
  PROVE  TypeOK'
<1>1. Pool \in 0 .. Depth /\ CanTake => Pool - 1 \in 0 .. Depth
  BY PoolBounds, QueueAssumption
<1>2. 0 \in 0 .. Depth /\ Pool \in 0 .. Depth
  BY PoolBounds, QueueAssumption
<1>3. CASE FeederCannotOpen
  BY <1>3 DEF FeederCannotOpen, TypeOK
<1>4. CASE FeederStart
  BY <1>4 DEF FeederStart, TypeOK
<1>5. CASE FeederOpen
  <2>1. position' \in SpanStart .. SpanEnd
    BY <1>5, ClampType, PlaybackAssumption DEF FeederOpen, TypeOK
  <2> QED
    BY <1>5, <2>1 DEF FeederOpen, TypeOK
<1>6. CASE FeederLook
  <2>1. fepoch' \in 0 .. MaxSeeks /\ fpc' \in {"done", "seek", "take"}
    BY <1>6 DEF FeederLook, TypeOK
  <2> QED
    BY <1>6, <2>1 DEF FeederLook, TypeOK
<1>7. CASE FeederSeek
  <2>1. position' \in SpanStart .. SpanEnd
    BY <1>7, ClampType, PlaybackAssumption DEF FeederSeek, TypeOK
  <2>2. released' \in BOOLEAN
    BY <1>7 DEF FeederSeek, ReleaseReserve
  <2> QED
    BY <1>7, <2>1, <2>2 DEF FeederSeek, ReleaseReserve, TypeOK
<1>8. ASSUME CollectOnly
      PROVE  /\ spare' \in 0 .. Depth /\ spent' \in 0 .. Depth /\ released' \in BOOLEAN
             /\ full' = full
  BY <1>2, <1>8 DEF CollectOnly, Lapse
<1>9. CASE FeederFull
  BY <1>8, <1>9 DEF FeederFull, TypeOK
<1>10. CASE FeederFill
  <2>1. /\ spare' \in 0 .. Depth /\ spent' \in 0 .. Depth /\ released' \in BOOLEAN
        /\ full' = full
    BY <1>1, <1>2, <1>10 DEF FeederFill, TakeChunk, Lapse
  <2>2. position' \in SpanStart .. SpanEnd /\ filled' \in Chunk
    BY <1>10, FillsOne DEF FeederFill
  <2> QED
    BY <1>10, <2>1, <2>2 DEF FeederFill, TypeOK
<1>11. CASE FeederReadOut
  BY <1>8, <1>11 DEF FeederReadOut, TypeOK
<1>12. CASE FeederRefuse
  BY <1>8, <1>12 DEF FeederRefuse, TypeOK
<1>13. CASE FeederSend
  <2>1. full' \in Seq(Chunk)
    BY <1>13, AppendsOne DEF FeederSend, SendChunk, HandsInv, TypeOK
  <2> QED
    BY <1>13, <2>1 DEF FeederSend, SendChunk, TypeOK
<1>14. CASE FeederMarkDrained
  <2>1. drained' \in 0 .. MaxSeeks /\ fpc' \in {"look", "failed"}
    BY <1>14 DEF FeederMarkDrained, TypeOK
  <2> QED
    BY <1>14, <2>1 DEF FeederMarkDrained, TypeOK
<1> QED
  BY <1>3, <1>4, <1>5, <1>6, <1>7, <1>9, <1>10, <1>11, <1>12, <1>13, <1>14 DEF Feeder

(***************************************************************************)
(* What a copy makes of the chunk in hand and of the device's buffer.      *)
(***************************************************************************)
LEMMA CopiesSome ==
  ASSUME TypeOK, HandsInv, SolidInv, CallbackCopy
  PROVE  \E n \in 1 .. BufferFrames :
           /\ n <= current.len
           /\ heard' = [epoch |-> current.epoch, from |-> current.start,
                        to |-> current.start + n]
           /\ frame' = current.start + n
           /\ written' = written + n /\ written + n <= BufferFrames
           /\ cpc' = IF written + n = BufferFrames THEN "idle" ELSE "loop"
           /\ \/ n = current.len /\ Recycle /\ current' = NoChunk
              \/ /\ n < current.len /\ UNCHANGED queueVars
                 /\ current' = [current EXCEPT !.start = current.start + n,
                                               !.len = current.len - n]
<1> DEFINE n == Lesser(current.len, BufferFrames - written)
<1>1. current \in Chunk /\ written \in 0 .. BufferFrames - 1
  BY PlaybackAssumption DEF CallbackCopy, TypeOK, HandsInv
<1>2. current.len \in Nat \ {0}
  BY <1>1, PlaybackAssumption DEF Chunk
<1>3. n \in 1 .. BufferFrames /\ n <= current.len /\ written + n <= BufferFrames
  BY <1>1, <1>2, PlaybackAssumption DEF Lesser
<1>4. n = current.len \/ n < current.len
  BY <1>2, <1>3
<1> QED
  BY <1>3, <1>4 DEF CallbackCopy

LEMMA CallbackTypes ==
  ASSUME TypeOK, HandsInv, PoolConserved, SolidInv, EpochInv, Callback
  PROVE  TypeOK'
<1>1. current # NoChunk \/ full # <<>> => spent + 1 \in 0 .. Depth
  <2>1. full # <<>> => Len(full) > 0
    BY TakesOne DEF TypeOK
  <2>2. current # NoChunk => InHand(current) = 1
    BY DEF InHand
  <2>3. InHand(filled) \in {0, 1} /\ InHand(current) \in {0, 1} /\ Len(full) \in Nat
    BY LenProperties DEF InHand, TypeOK
  <2> QED
    BY <2>1, <2>2, <2>3, QueueAssumption DEF TypeOK, PoolConserved
<1>2. CASE CallbackBegin
  <2>1. /\ spent' \in 0 .. Depth /\ UNCHANGED <<full, spare, released>>
        /\ current' \in Chunk \cup {NoChunk}
    BY <1>1, <1>2 DEF CallbackBegin, Recycle, TypeOK
  <2>2. written' \in 0 .. BufferFrames
    BY <1>2, PlaybackAssumption DEF CallbackBegin
  <2> QED
    BY <1>2, <2>1, <2>2 DEF CallbackBegin, TypeOK
<1>3. CASE CallbackGate
  <2>1. cpc' \in {"loop", "idle"} /\ (pass' = pass \/ pass' = "silence")
    BY <1>3 DEF CallbackGate
  <2> QED
    BY <1>3, <2>1 DEF CallbackGate, TypeOK
<1>4. CASE CallbackTake
  <2>1. Head(full) \in Chunk /\ Tail(full) \in Seq(Chunk)
    BY <1>4, TakesOne DEF CallbackTake, TypeOK
  <2>2. /\ full' \in Seq(Chunk) /\ spent' \in 0 .. Depth /\ UNCHANGED <<spare, released>>
        /\ current' \in Chunk \cup {NoChunk}
    BY <1>1, <1>4, <2>1 DEF CallbackTake, DiscardChunk, NextChunk, TypeOK
  <2> QED
    BY <1>4, <2>2 DEF CallbackTake, TypeOK
<1>5. CASE CallbackDry
  BY <1>5 DEF CallbackDry, TypeOK
<1>6. CASE CallbackJudge
  <2>1. cpc' \in {"end", "idle"} /\ (pass' = pass \/ pass' = "underrun")
    BY <1>6 DEF CallbackJudge
  <2> QED
    BY <1>6, <2>1 DEF CallbackJudge, TypeOK
<1>7. CASE CallbackEnd
  <2>1. ended' \in BOOLEAN
    BY <1>7 DEF CallbackEnd
  <2> QED
    BY <1>7, <2>1 DEF CallbackEnd, TypeOK
<1>8. CASE CallbackCopy
  <2>1. current \in Chunk /\ current # NoChunk /\ current.start + current.len <= SpanEnd
    BY <1>8 DEF CallbackCopy, TypeOK, SolidInv, Solid
  <2>2. PICK n \in 1 .. BufferFrames :
           /\ n <= current.len
           /\ heard' = [epoch |-> current.epoch, from |-> current.start,
                        to |-> current.start + n]
           /\ frame' = current.start + n
           /\ written' = written + n /\ written + n <= BufferFrames
           /\ cpc' = IF written + n = BufferFrames THEN "idle" ELSE "loop"
           /\ \/ n = current.len /\ Recycle /\ current' = NoChunk
              \/ /\ n < current.len /\ UNCHANGED queueVars
                 /\ current' = [current EXCEPT !.start = current.start + n,
                                               !.len = current.len - n]
    BY <1>8, CopiesSome
  <2>3. /\ current.epoch \in 0 .. MaxSeeks /\ current.start \in SpanStart .. SpanEnd - 1
        /\ current.len \in 1 .. ChunkFrames
    BY <2>1 DEF Chunk
  <2>4. /\ current.start + n \in SpanStart .. SpanEnd
        /\ n < current.len => /\ current.start + n \in SpanStart .. SpanEnd - 1
                              /\ current.len - n \in 1 .. ChunkFrames
    BY <2>1, <2>2, <2>3, PlaybackAssumption
  <2>5. heard' \in [epoch : -1 .. MaxSeeks, from : SpanStart .. SpanEnd,
                    to : SpanStart .. SpanEnd]
    <3>1. current.epoch \in -1 .. MaxSeeks /\ current.start \in SpanStart .. SpanEnd
      BY <2>3, PlaybackAssumption
    <3> QED
      BY <2>2, <2>4, <3>1
  <2>6. current' \in Chunk \cup {NoChunk}
    <3>1. CASE current' = NoChunk
      BY <3>1
    <3>2. CASE n < current.len /\ current' = [current EXCEPT !.start = current.start + n,
                                                             !.len = current.len - n]
      BY <2>1, <2>3, <2>4, <3>2 DEF Chunk
    <3> QED
      BY <2>2, <3>1, <3>2
  <2>7. spent' \in 0 .. Depth /\ UNCHANGED <<full, spare, released>>
    BY <1>1, <2>1, <2>2 DEF Recycle, TypeOK
  <2>8. written' \in 0 .. BufferFrames /\ frame' \in SpanStart .. SpanEnd
    <3>1. frame' = current.start + n
      BY <2>2
    <3>2. written \in Nat /\ written' = written + n /\ written + n <= BufferFrames
      BY <2>2, PlaybackAssumption DEF TypeOK
    <3> QED
      BY <2>4, <3>1, <3>2, PlaybackAssumption
  <2>9. /\ cpc' \in {"idle", "loop"} /\ delivered' = cepoch
        /\ UNCHANGED <<epoch, playing, drained, ended, cepoch, aimed, transportVars, feederVars>>
    BY <1>8 DEF CallbackCopy
  <2>10. pass' \in {"none", "silence", "played", "underrun", "ended"}
    BY <1>8 DEF CallbackCopy, TypeOK
  <2>11. delivered' \in 0 .. MaxSeeks /\ full' \in Seq(Chunk) /\ spare' \in 0 .. Depth
    BY <2>7, <2>9 DEF TypeOK
  <2> QED
    BY <2>5, <2>6, <2>7, <2>8, <2>9, <2>10, <2>11, SMTT(60) DEF TypeOK
<1> QED
  BY <1>2, <1>3, <1>4, <1>5, <1>6, <1>7, <1>8 DEF Callback

LEMMA TypeKept ==
  ASSUME IInv, [Next]_vars
  PROVE  TypeOK'
<1> USE DEF IInv
<1>1. CASE Operator \/ Transport
  BY <1>1, TransportTypes
<1>2. CASE Feeder
  BY <1>2, FeederTypes
<1>3. CASE Callback
  BY <1>3, CallbackTypes
<1>4. CASE UNCHANGED vars
  BY <1>4 DEF vars, TypeOK
<1> QED
  BY <1>1, <1>2, <1>3, <1>4 DEF Next, Closed

----------------------------------------------------------------------------
(* The other parts, which the transport thread hardly touches.             *)

(***************************************************************************)
(* What the transport and the operator write: never what is on its way.    *)
(***************************************************************************)
LEMMA TransportAside ==
  ASSUME Operator \/ Transport
  PROVE  UNCHANGED <<queueVars, feederVars, callbackVars, heard>>
  BY DEF Operator, Transport, Play, Pause, SetPlaying, Seek, SkipForward, SkipBack,
     BeginSeek, Stop, SeekStoreFrame, SeekClearDrained, SeekClearEnded,
     SeekBumpEpoch, Tick, JoinFeeder

LEMMA FeederAside ==
  ASSUME Feeder
  PROVE  UNCHANGED <<frame, epoch, tpc, callbackVars, heard>>
  BY DEF Feeder, FeederCannotOpen, FeederStart, FeederOpen, FeederLook, FeederSeek,
     FeederFull, FeederFill, FeederReadOut, FeederRefuse, FeederSend,
     FeederMarkDrained

LEMMA CallbackAside ==
  ASSUME Callback
  PROVE  UNCHANGED <<epoch, tpc, feederVars>>
  BY DEF Callback, CallbackBegin, CallbackGate, CallbackTake, CallbackDry,
     CallbackJudge, CallbackEnd, CallbackCopy

LEMMA HandsKept ==
  ASSUME IInv, [Next]_vars
  PROVE  HandsInv'
<1> USE DEF IInv, HandsInv
<1>1. CASE Operator \/ Transport
  <2>1. tpc' \in {"frame", "drained", "ended", "epoch"} => epoch' < MaxSeeks
    BY <1>1 DEF Operator, Transport, Play, Pause, SetPlaying, Seek, SkipForward,
       SkipBack, BeginSeek, Stop, SeekStoreFrame, SeekClearDrained, SeekClearEnded,
       SeekBumpEpoch, Tick, JoinFeeder
  <2> QED
    BY <1>1, <2>1, TransportAside
<1>2. CASE Feeder
  <2>1. UNCHANGED <<epoch, tpc, cpc, written>>
    BY <1>2, FeederAside
  <2>2. CASE FeederFill
    <3>1. filled' \in Chunk /\ fpc' = "send" /\ fepoch' = fepoch
      BY <2>2, FillsOne DEF FeederFill
    <3>2. /\ filled'.epoch = fepoch /\ filled'.start = position
          /\ filled'.len = ReadTo - position /\ position' = ReadTo
      BY <2>2 DEF FeederFill
    <3>3. position + (ReadTo - position) = ReadTo
      <4>1. ReadTo \in SpanStart .. SpanEnd
        BY <2>2, FillsOne DEF FeederFill
      <4>2. position \in SpanStart .. SpanEnd
        BY DEF TypeOK
      <4> QED
        BY <4>1, <4>2, PlaybackAssumption
    <3> QED
      BY <2>1, <3>1, <3>2, <3>3, NoChunkIsNone
  <2>3. CASE FeederSend
    BY <2>1, <2>3 DEF FeederSend
  <2>4. CASE Feeder /\ ~FeederFill /\ ~FeederSend
    <3>1. filled' = filled /\ fpc # "send" /\ fpc' # "send"
      BY <2>4 DEF Feeder, FeederCannotOpen, FeederStart, FeederOpen, FeederLook,
         FeederSeek, FeederFull, FeederReadOut, FeederRefuse, FeederMarkDrained
    <3> QED
      BY <2>1, <3>1
  <2> QED
    BY <1>2, <2>2, <2>3, <2>4
<1>3. CASE Callback
  <2>1. cpc' \in {"gate", "loop"} => written' < BufferFrames
    <3>1. CASE CallbackBegin
      BY <3>1, PlaybackAssumption DEF CallbackBegin
    <3>2. CASE CallbackGate \/ CallbackDry \/ CallbackJudge \/ CallbackEnd \/ CallbackTake
      BY <3>2 DEF CallbackGate, CallbackDry, CallbackJudge, CallbackEnd, CallbackTake
    <3>3. CASE CallbackCopy
      <4>1. PICK n \in 1 .. BufferFrames :
              /\ written' = written + n /\ written + n <= BufferFrames
              /\ cpc' = IF written + n = BufferFrames THEN "idle" ELSE "loop"
        BY <3>3, CopiesSome
      <4>2. written + n \in Nat /\ BufferFrames \in Nat
        BY <4>1, PlaybackAssumption DEF TypeOK
      <4> QED
        BY <4>1, <4>2
    <3> QED
      BY <1>3, <3>1, <3>2, <3>3 DEF Callback
  <2> QED
    BY <1>3, <2>1, CallbackAside
<1>4. CASE UNCHANGED vars
  BY <1>4 DEF vars
<1> QED
  BY <1>1, <1>2, <1>3, <1>4 DEF Next, Closed

(***************************************************************************)
(* Every buffer stays in exactly one place.                                *)
(***************************************************************************)
LEMMA PoolKept ==
  ASSUME IInv, [Next]_vars
  PROVE  PoolConserved'
<1> USE DEF IInv, PoolConserved, InHand
<1>1. /\ spent \in Nat /\ spare \in Nat /\ Depth \in Nat /\ Len(full) \in Nat
      /\ full \in Seq(Chunk)
  BY QueueAssumption, LenProperties DEF TypeOK
<1>2. CASE Operator \/ Transport
  BY <1>2, TransportAside
<1>3. CASE Feeder
  <2>1. CASE FeederFill
    <3>1. filled = NoChunk /\ filled' # NoChunk /\ full' = full
      BY <2>1, FillsOne, NoChunkIsNone DEF FeederFill, TakeChunk, HandsInv
    <3>2. spare' = (spare + spent) - 1 /\ spent' = 0 /\ current' = current
      BY <2>1 DEF FeederFill, TakeChunk, Pool
    <3> QED
      BY <1>1, <3>1, <3>2
  <2>2. CASE FeederSend
    <3>1. filled # NoChunk /\ filled \in Chunk
      BY <2>2 DEF FeederSend, HandsInv, TypeOK
    <3>2. Len(full') = Len(full) + 1 /\ filled' = NoChunk
      BY <2>2, <3>1, AppendsOne DEF FeederSend, SendChunk, TypeOK
    <3>3. UNCHANGED <<spent, spare, current>>
      BY <2>2 DEF FeederSend, SendChunk
    <3> QED
      BY <1>1, <3>1, <3>2, <3>3
  <2>3. CASE Feeder /\ ~FeederFill /\ ~FeederSend
    <3>1. UNCHANGED <<full, filled, current>>
      BY <2>3 DEF Feeder, FeederCannotOpen, FeederStart, FeederOpen, FeederLook,
         FeederSeek, FeederFull, FeederReadOut, FeederRefuse, FeederMarkDrained,
         CollectOnly, ReleaseReserve
    <3>2. \/ UNCHANGED <<spare, spent>>
          \/ spare' = spare + spent /\ spent' = 0
      BY <2>3 DEF Feeder, FeederCannotOpen, FeederStart, FeederOpen, FeederLook,
         FeederSeek, FeederFull, FeederReadOut, FeederRefuse, FeederMarkDrained,
         CollectOnly, ReleaseReserve, Pool
    <3> QED
      BY <1>1, <3>1, <3>2
  <2> QED
    BY <1>3, <2>1, <2>2, <2>3
<1>4. CASE Callback
  <2>1. filled' = filled
    BY <1>4, CallbackAside
  <2>2. CASE CallbackBegin
    BY <1>1, <2>1, <2>2 DEF CallbackBegin, Recycle
  <2>3. CASE CallbackTake
    <3>1. Len(full') = Len(full) - 1 /\ spare' = spare /\ Head(full) # NoChunk
      BY <2>3, TakesOne, NoChunkIsNone DEF CallbackTake, DiscardChunk, NextChunk, TypeOK
    <3>2. \/ current' = current /\ spent' = spent + 1
          \/ current' = Head(full) /\ spent' = spent
      BY <2>3 DEF CallbackTake, DiscardChunk, NextChunk
    <3> QED
      BY <1>1, <2>1, <2>3, <3>1, <3>2 DEF CallbackTake
  <2>4. CASE CallbackCopy
    <3>1. current \in Chunk /\ current # NoChunk
      BY <2>4 DEF CallbackCopy, TypeOK
    <3>2. PICK n \in 1 .. BufferFrames :
            \/ n = current.len /\ Recycle /\ current' = NoChunk
            \/ /\ n < current.len /\ UNCHANGED queueVars
               /\ current' = [current EXCEPT !.start = current.start + n,
                                             !.len = current.len - n]
      BY <2>4, CopiesSome
    <3>3. CASE n = current.len /\ Recycle /\ current' = NoChunk
      BY <1>1, <2>1, <3>1, <3>3 DEF Recycle
    <3>4. CASE /\ n < current.len /\ UNCHANGED queueVars
               /\ current' = [current EXCEPT !.start = current.start + n,
                                             !.len = current.len - n]
      <4>1. current'.epoch = current.epoch /\ current.epoch \in 0 .. MaxSeeks
        BY <3>1, <3>4 DEF Chunk
      <4>2. current' # NoChunk
        BY <4>1, PlaybackAssumption DEF NoChunk
      <4> QED
        BY <2>1, <3>1, <3>4, <4>2
    <3> QED
      BY <3>2, <3>3, <3>4
  <2>5. CASE CallbackGate \/ CallbackDry \/ CallbackJudge \/ CallbackEnd
    BY <2>1, <2>5 DEF CallbackGate, CallbackDry, CallbackJudge, CallbackEnd
  <2> QED
    BY <1>4, <2>2, <2>3, <2>4, <2>5 DEF Callback
<1>5. CASE UNCHANGED vars
  BY <1>5 DEF vars
<1> QED
  BY <1>2, <1>3, <1>4, <1>5 DEF Next, Closed

(***************************************************************************)
(* No hole is ever on its way to the device.                               *)
(***************************************************************************)
LEMMA SolidKept ==
  ASSUME IInv, [Next]_vars
  PROVE  SolidInv'
<1> USE DEF IInv, SolidInv, HoleIsNeverHeard
<1>1. full \in Seq(Chunk) /\ Len(full) \in Nat
  BY LenProperties DEF TypeOK
<1>2. CASE Operator \/ Transport
  BY <1>2, TransportAside DEF Solid
<1>3. CASE Feeder
  <2>1. UNCHANGED <<current, heard>>
    BY <1>3, FeederAside
  <2>2. Solid(current)' /\ HoleIsNeverHeard'
    BY <2>1 DEF Solid
  <2>3. CASE FeederFill
    <3>1. /\ filled'.start = position /\ filled'.len = ReadTo - position
          /\ Filling \cap Holes = {} /\ full' = full
      BY <2>3 DEF FeederFill, TakeChunk
    <3>2. position \in Int /\ ReadTo \in SpanStart .. SpanEnd
      BY <2>3, FillsOne, PlaybackAssumption DEF FeederFill, TypeOK
    <3>3. position + (ReadTo - position) = ReadTo /\ ReadTo <= SpanEnd
      BY <3>2, PlaybackAssumption
    <3>4. Solid(filled)'
      <4>1. filled'.start + filled'.len = ReadTo
        BY <3>1, <3>3
      <4>2. filled'.start .. filled'.start + filled'.len - 1 = Filling
        BY <3>1, <3>2, <4>1 DEF Filling
      <4> QED
        BY <3>1, <3>3, <4>1, <4>2 DEF Solid
    <3> QED
      BY <2>2, <3>1, <3>4 DEF Solid
  <2>4. CASE FeederSend
    <3>1. filled \in Chunk /\ full' = Append(full, filled) /\ filled' = NoChunk
      BY <2>4 DEF FeederSend, SendChunk, HandsInv, TypeOK
    <3>2. \A i \in 1 .. Len(full') : full'[i] = filled \/ (i \in 1 .. Len(full) /\ full'[i] = full[i])
      BY <1>1, <3>1, AppendsOne
    <3>3. \A i \in 1 .. Len(full') : Solid(full'[i])
      BY <3>2
    <3> QED
      BY <2>2, <3>1, <3>3 DEF Solid
  <2>5. CASE Feeder /\ ~FeederFill /\ ~FeederSend
    <3>1. UNCHANGED <<full, filled>>
      BY <2>5 DEF Feeder, FeederCannotOpen, FeederStart, FeederOpen, FeederLook,
         FeederSeek, FeederFull, FeederReadOut, FeederRefuse, FeederMarkDrained,
         CollectOnly, ReleaseReserve
    <3> QED
      BY <2>2, <3>1 DEF Solid
  <2> QED
    BY <1>3, <2>3, <2>4, <2>5
<1>4. CASE Callback
  <2>1. filled' = filled
    BY <1>4, CallbackAside
  <2>2. Solid(filled)'
    BY <2>1 DEF Solid
  <2>3. CASE CallbackTake
    <3>1. full' = Tail(full) /\ heard' = heard /\ (current' = current \/ current' = full[1])
          /\ 1 \in 1 .. Len(full)
      BY <1>1, <2>3, TakesOne DEF CallbackTake, DiscardChunk, NextChunk
    <3>2. \A i \in 1 .. Len(full') : i + 1 \in 1 .. Len(full) /\ full'[i] = full[i + 1]
      BY <1>1, <2>3, <3>1, TakesOne DEF CallbackTake
    <3>3. \A i \in 1 .. Len(full') : Solid(full'[i])
      BY <3>2
    <3>4. Solid(current')
      BY <3>1
    <3> QED
      BY <2>2, <3>1, <3>3, <3>4 DEF Solid
  <2>4. CASE CallbackCopy
    <3>1. current \in Chunk /\ current # NoChunk
      BY <2>4 DEF CallbackCopy, TypeOK
    <3>2. PICK n \in 1 .. BufferFrames :
            /\ n <= current.len
            /\ heard' = [epoch |-> current.epoch, from |-> current.start,
                         to |-> current.start + n]
            /\ \/ n = current.len /\ Recycle /\ current' = NoChunk
               \/ /\ n < current.len /\ UNCHANGED queueVars
                  /\ current' = [current EXCEPT !.start = current.start + n,
                                                !.len = current.len - n]
      BY <2>4, CopiesSome
    <3>3. /\ current.start \in Int /\ current.len \in Int /\ n \in 1 .. current.len
          /\ current.start + current.len <= SpanEnd
          /\ (current.start .. current.start + current.len - 1) \cap Holes = {}
      BY <3>1, <3>2, PlaybackAssumption DEF Chunk, Solid
    <3>4. HoleIsNeverHeard'
      <4>1. heard'.from = current.start /\ heard'.to = current.start + n
        BY <3>2
      <4> QED
        BY <3>3, <4>1
    <3>5. full' = full
      BY <3>2 DEF Recycle
    <3>6. Solid(current)'
      <4>1. CASE current' = NoChunk
        BY <4>1 DEF Solid
      <4>2. CASE /\ n < current.len
                 /\ current' = [current EXCEPT !.start = current.start + n,
                                               !.len = current.len - n]
        <5>1. current'.start = current.start + n /\ current'.len = current.len - n
          BY <3>1, <4>2 DEF Chunk
        <5> QED
          BY <3>3, <5>1 DEF Solid
      <4> QED
        BY <3>2, <4>1, <4>2
    <3> QED
      BY <2>2, <3>4, <3>5, <3>6 DEF Solid
  <2>5. CASE CallbackBegin
    BY <2>2, <2>5 DEF CallbackBegin, Recycle, Solid
  <2>6. CASE CallbackGate \/ CallbackDry \/ CallbackJudge \/ CallbackEnd
    BY <2>2, <2>6 DEF CallbackGate, CallbackDry, CallbackJudge, CallbackEnd, Solid
  <2> QED
    BY <1>4, <2>3, <2>4, <2>5, <2>6 DEF Callback
<1>5. CASE UNCHANGED vars
  BY <1>5 DEF vars, Solid
<1> QED
  BY <1>2, <1>3, <1>4, <1>5 DEF Next, Closed

(***************************************************************************)
(* Epochs only travel downstream.                                          *)
(***************************************************************************)
LEMMA EpochKept ==
  ASSUME IInv, [Next]_vars
  PROVE  EpochInv'
<1> USE DEF IInv, EpochInv
<1>1. /\ full \in Seq(Chunk) /\ Len(full) \in Nat /\ epoch \in Nat /\ fepoch \in Nat
      /\ cepoch \in Nat /\ heard.epoch \in Int
      /\ \A i \in 1 .. Len(full) : full[i].epoch \in Nat
      /\ current # NoChunk => current.epoch \in Nat
  <2>1. \A c \in Chunk : c.epoch \in Nat
    BY PlaybackAssumption DEF Chunk
  <2>2. \A i \in 1 .. Len(full) : full[i] \in Chunk
    BY ElementOfSeq DEF TypeOK
  <2>3. heard.epoch \in -1 .. MaxSeeks
    BY DEF TypeOK
  <2> QED
    BY <2>1, <2>2, <2>3, LenProperties, PlaybackAssumption DEF TypeOK
<1>2. CASE Operator \/ Transport
  <2>1. epoch' = epoch \/ epoch' = epoch + 1
    BY <1>2 DEF Operator, Transport, Play, Pause, SetPlaying, Seek, SkipForward,
       SkipBack, BeginSeek, Stop, SeekStoreFrame, SeekClearDrained, SeekClearEnded,
       SeekBumpEpoch, Tick, JoinFeeder
  <2>2. UNCHANGED <<full, fpc, fepoch, cepoch, current, heard>>
    BY <1>2, TransportAside
  <2> QED
    BY <1>1, <2>1, <2>2
<1>3. CASE Feeder
  <2>1. UNCHANGED <<epoch, cepoch, current, heard>>
    BY <1>3, FeederAside
  <2>2. CASE FeederStart
    <3>1. fepoch' = epoch /\ fpc' = "open" /\ UNCHANGED full /\ fpc = "start"
      BY <2>2 DEF FeederStart
    <3>2. full' = <<>> /\ Len(full') = 0 /\ current = NoChunk /\ heard.epoch = -1
      BY <1>1, <3>1
    <3> QED
      BY <1>1, <2>1, <3>1, <3>2
  <2>3. CASE FeederLook
    <3>1. UNCHANGED full /\ fpc = "look" /\ fpc' \in {"done", "seek", "take"}
      BY <2>3 DEF FeederLook
    <3>2. \/ fepoch' = fepoch /\ fpc' # "seek"
          \/ fepoch' = epoch /\ epoch > fepoch
      BY <1>1, <2>3 DEF FeederLook
    <3> QED
      BY <1>1, <2>1, <3>1, <3>2
  <2>4. CASE FeederSend
    <3>1. filled \in Chunk /\ filled.epoch = fepoch /\ full' = Append(full, filled)
          /\ fepoch' = fepoch /\ fpc' = "look"
      BY <2>4 DEF FeederSend, SendChunk, HandsInv, TypeOK
    <3>2. \A i \in 1 .. Len(full') : full'[i] = filled \/ (i \in 1 .. Len(full) /\ full'[i] = full[i])
      BY <1>1, <3>1, AppendsOne
    <3>3. \A i \in 1 .. Len(full') : full'[i].epoch <= fepoch
      BY <1>1, <3>1, <3>2
    <3> QED
      BY <1>1, <2>1, <3>1, <3>3
  <2>5. CASE FeederCannotOpen \/ FeederOpen \/ FeederSeek \/ FeederFull \/ FeederFill
             \/ FeederReadOut \/ FeederRefuse \/ FeederMarkDrained
    <3>1. UNCHANGED <<full, fepoch>> /\ fpc' \notin {"start", "open", "seek"}
      BY <2>5 DEF FeederCannotOpen, FeederOpen, FeederSeek, FeederFull, FeederFill,
         FeederReadOut, FeederRefuse, FeederMarkDrained, CollectOnly, ReleaseReserve,
         TakeChunk
    <3> QED
      BY <1>1, <2>1, <3>1
  <2> QED
    BY <1>3, <2>2, <2>3, <2>4, <2>5 DEF Feeder
<1>4. CASE Callback
  <2>1. UNCHANGED <<epoch, fpc, fepoch>>
    BY <1>4, CallbackAside
  <2>2. CASE CallbackBegin
    BY <1>1, <2>1, <2>2 DEF CallbackBegin, Recycle
  <2>3. CASE CallbackTake
    <3>1. /\ full' = Tail(full) /\ UNCHANGED <<heard, cepoch>> /\ full # <<>>
          /\ Head(full) = full[1] /\ 1 \in 1 .. Len(full)
          /\ \/ current' = current
             \/ current' = full[1] /\ full[1].epoch = cepoch
      BY <1>1, <2>3, TakesOne DEF CallbackTake, DiscardChunk, NextChunk
    <3>2. \A i \in 1 .. Len(full') : i + 1 \in 1 .. Len(full) /\ full'[i] = full[i + 1]
      BY <1>1, <3>1, TakesOne
    <3> QED
      BY <1>1, <2>1, <3>1, <3>2
  <2>4. CASE CallbackCopy
    <3>1. current \in Chunk /\ current # NoChunk
      BY <2>4 DEF CallbackCopy, TypeOK
    <3>2. PICK n \in 1 .. BufferFrames :
            /\ heard' = [epoch |-> current.epoch, from |-> current.start,
                         to |-> current.start + n]
            /\ \/ n = current.len /\ Recycle /\ current' = NoChunk
               \/ /\ n < current.len /\ UNCHANGED queueVars
                  /\ current' = [current EXCEPT !.start = current.start + n,
                                                !.len = current.len - n]
      BY <2>4, CopiesSome
    <3>3. heard'.epoch = current.epoch /\ full' = full /\ cepoch' = cepoch
      BY <2>4, <3>2 DEF Recycle, CallbackCopy
    <3>4. current' # NoChunk => current'.epoch = current.epoch
      BY <3>1, <3>2 DEF Chunk
    <3> QED
      BY <1>1, <2>1, <3>1, <3>3, <3>4
  <2>5. CASE CallbackGate \/ CallbackDry \/ CallbackJudge \/ CallbackEnd
    BY <2>1, <2>5 DEF CallbackGate, CallbackDry, CallbackJudge, CallbackEnd
  <2> QED
    BY <1>4, <2>2, <2>3, <2>4, <2>5 DEF Callback
<1>5. CASE UNCHANGED vars
  BY <1>5 DEF vars
<1> QED
  BY <1>2, <1>3, <1>4, <1>5 DEF Next, Closed

----------------------------------------------------------------------------
(* The line.                                                               *)

LEMMA ShorterLine ==
  ASSUME NEW l, NEW m, NEW n \in Nat, NEW k \in 0 .. n, Tidy(l, n),
         \A i \in 1 .. k : m[i] = l[i]
  PROVE  /\ Tidy(m, k)
         /\ \A e, at : GoesOn(l, n, e, at) => GoesOn(m, k, e, at)
<1>1. Tidy(m, k)
  BY DEF Tidy
<1>2. ASSUME NEW e, NEW at, GoesOn(l, n, e, at)
      PROVE  GoesOn(m, k, e, at)
  <2>1. \A i \in 1 .. k : i \in 1 .. n /\ (i # 1 => i - 1 \in 1 .. k)
    OBVIOUS
  <2> QED
    BY <1>2, <2>1 DEF GoesOn
<1> QED
  BY <1>1, <1>2

(***************************************************************************)
(* The callback takes the head of the line.                                *)
(***************************************************************************)
LEMMA HeadTaken ==
  ASSUME NEW l, NEW m, NEW n \in Nat \ {0}, NEW e \in Nat, Tidy(l, n),
         \A i \in 1 .. n : l[i].epoch \in Nat,
         \A i \in 1 .. n - 1 : m[i] = l[i + 1]
  PROVE  /\ Tidy(m, n - 1)
         /\ l[1].epoch = e => GoesOn(m, n - 1, e, l[1].start + l[1].len)
         /\ l[1].epoch # e =>
              \A at : GoesOn(l, n, e, at) => GoesOn(m, n - 1, e, at)
<1>1. Tidy(m, n - 1)
  <2>1. \A i \in 1 .. n - 1 : i + 1 \in 1 .. n
    OBVIOUS
  <2>2. \A i \in 1 .. n - 2 : i + 1 \in 1 .. n - 1 /\ i \in 1 .. n - 1
    OBVIOUS
  <2>3. \A i, j \in 1 .. n - 1 : i < j => m[i].epoch <= m[j].epoch
    BY <2>1 DEF Tidy
  <2>4. \A i \in 1 .. (n - 1) - 1 :
          m[i].epoch = m[i + 1].epoch => m[i + 1].start = m[i].start + m[i].len
    BY <2>2 DEF Tidy
  <2> QED
    BY <2>3, <2>4 DEF Tidy
<1>2. ASSUME l[1].epoch = e
      PROVE  GoesOn(m, n - 1, e, l[1].start + l[1].len)
  <2> SUFFICES ASSUME NEW i \in 1 .. n - 1, m[i].epoch = e,
                      i = 1 \/ m[i - 1].epoch # e
               PROVE  m[i].start = l[1].start + l[1].len
    BY DEF GoesOn
  <2>1. CASE i = 1
    <3>1. m[1] = l[2] /\ 1 \in 1 .. n - 1
      BY <2>1
    <3> QED
      BY <1>2, <2>1, <3>1 DEF Tidy
  <2>2. CASE i # 1
    <3>1. i \in 1 .. n /\ i - 1 \in 1 .. n - 1 /\ m[i - 1] = l[i] /\ i + 1 \in 1 .. n
      BY <2>2
    <3>2. l[1].epoch <= l[i].epoch /\ l[i].epoch <= l[i + 1].epoch
      BY <2>2, <3>1 DEF Tidy
    <3> QED
      BY <1>2, <2>2, <3>1, <3>2
  <2> QED
    BY <2>1, <2>2
<1>3. ASSUME l[1].epoch # e, NEW at, GoesOn(l, n, e, at)
      PROVE  GoesOn(m, n - 1, e, at)
  <2>1. \A i \in 1 .. n - 1 : /\ i + 1 \in 1 .. n /\ m[i] = l[i + 1]
                              /\ (i + 1) - 1 = i /\ i + 1 # 1
                              /\ i # 1 => i - 1 \in 1 .. n - 1 /\ m[i - 1] = l[i]
    OBVIOUS
  <2> QED
    BY <1>3, <2>1 DEF GoesOn
<1> QED
  BY <1>1, <1>2, <1>3

(***************************************************************************)
(* The feeder fills a chunk at its place and moves on to the end of it.    *)
(***************************************************************************)
LEMMA PlaceFilled ==
  ASSUME NEW l, NEW m, NEW n \in Nat \ {0}, Tidy(l, n),
         \A i \in 1 .. n : l[i].epoch \in Nat,
         \A i \in 1 .. n - 1 : m[i] = l[i],
         m[n].epoch = l[n].epoch, m[n].start = l[n].start,
         m[n + 1].epoch = l[n].epoch, m[n + 1].start = m[n].start + m[n].len
  PROVE  /\ Tidy(m, n + 1)
         /\ \A e, at : GoesOn(l, n, e, at) => GoesOn(m, n + 1, e, at)
<1>1. \A i \in 1 .. n : m[i].epoch = l[i].epoch /\ m[i].start = l[i].start
  OBVIOUS
<1>2. \A i \in 1 .. n + 1 : m[i].epoch = IF i = n + 1 THEN l[n].epoch ELSE l[i].epoch
  BY <1>1
<1>3. Tidy(m, n + 1)
  <2>1. \A i, j \in 1 .. n + 1 : i < j => m[i].epoch <= m[j].epoch
    BY <1>2 DEF Tidy
  <2>2. \A i \in 1 .. (n + 1) - 1 :
          m[i].epoch = m[i + 1].epoch => m[i + 1].start = m[i].start + m[i].len
    <3> SUFFICES ASSUME NEW i \in 1 .. n, m[i].epoch = m[i + 1].epoch
                 PROVE  m[i + 1].start = m[i].start + m[i].len
      OBVIOUS
    <3>1. CASE i = n
      BY <3>1
    <3>2. CASE i # n
      <4>1. i \in 1 .. n - 1 /\ i + 1 \in 1 .. n
        BY <3>2
      <4> QED
        BY <1>1, <4>1 DEF Tidy
    <3> QED
      BY <3>1, <3>2
  <2> QED
    BY <2>1, <2>2 DEF Tidy
<1>4. ASSUME NEW e, NEW at, GoesOn(l, n, e, at)
      PROVE  GoesOn(m, n + 1, e, at)
  <2> SUFFICES ASSUME NEW i \in 1 .. n + 1, m[i].epoch = e,
                      i = 1 \/ m[i - 1].epoch # e
               PROVE  m[i].start = at
    BY DEF GoesOn
  <2>1. i # n + 1
    BY <1>1
  <2>2. i \in 1 .. n /\ (i # 1 => i - 1 \in 1 .. n)
    BY <2>1
  <2> QED
    BY <1>1, <1>4, <2>2 DEF GoesOn
<1> QED
  BY <1>3, <1>4

(***************************************************************************)
(* The feeder takes up its place in an epoch nothing in the line is of.    *)
(***************************************************************************)
LEMMA PlaceTaken ==
  ASSUME NEW l, NEW m, NEW n \in Nat, Tidy(l, n),
         \A i \in 1 .. n : l[i].epoch \in Nat /\ l[i].epoch < m[n + 1].epoch,
         \A i \in 1 .. n : m[i] = l[i],
         m[n + 1].epoch \in Nat
  PROVE  /\ Tidy(m, n + 1)
         /\ \A e, at : GoesOn(l, n, e, at) /\ e # m[n + 1].epoch => GoesOn(m, n + 1, e, at)
<1>1. Tidy(m, n + 1)
  BY DEF Tidy
<1>2. ASSUME NEW e, NEW at, GoesOn(l, n, e, at), e # m[n + 1].epoch
      PROVE  GoesOn(m, n + 1, e, at)
  <2> SUFFICES ASSUME NEW i \in 1 .. n + 1, m[i].epoch = e,
                      i = 1 \/ m[i - 1].epoch # e
               PROVE  m[i].start = at
    BY DEF GoesOn
  <2>1. i \in 1 .. n /\ (i # 1 => i - 1 \in 1 .. n)
    BY <1>2
  <2> QED
    BY <1>2, <2>1 DEF GoesOn
<1> QED
  BY <1>1, <1>2

(***************************************************************************)
(* The pieces of the line are of known epochs and places.                  *)
(***************************************************************************)
LEMMA LinePieces ==
  ASSUME IInv
  PROVE  /\ Len(full) \in Nat /\ Waiting \in Nat /\ LineLen \in Nat
         /\ filled = NoChunk => Waiting = Len(full)
         /\ filled # NoChunk => Waiting = Len(full) + 1
         /\ \A i \in 1 .. LineLen :
              /\ Line[i] = Piece(i) /\ Line[i].epoch \in Nat
              /\ Line[i].start \in Int /\ Line[i].len \in Int
<1>1. Len(full) \in Nat /\ full \in Seq(Chunk)
  BY LenProperties DEF IInv, TypeOK
<1>2. /\ Waiting \in Nat /\ LineLen \in Nat
      /\ filled = NoChunk => Waiting = Len(full)
      /\ filled # NoChunk => Waiting = Len(full) + 1
  <2>1. /\ filled = NoChunk => Waiting = Len(full)
        /\ filled # NoChunk => Waiting = Len(full) + 1
    BY <1>1 DEF Waiting, InHand
  <2>2. Waiting \in Nat
    BY <1>1, <2>1
  <2>3. LineLen = Waiting \/ LineLen = Waiting + 1
    BY <2>2 DEF LineLen
  <2> QED
    BY <2>1, <2>2, <2>3
<1>3. \A c \in Chunk : c.epoch \in Nat /\ c.start \in Int /\ c.len \in Int
  BY PlaybackAssumption DEF Chunk
<1>4. fepoch \in Nat /\ position \in Int
  BY PlaybackAssumption DEF IInv, TypeOK
<1>5. ASSUME NEW i \in 1 .. LineLen
      PROVE  Piece(i).epoch \in Nat /\ Piece(i).start \in Int /\ Piece(i).len \in Int
  <2>1. CASE i <= Len(full)
    <3>1. full[i] \in Chunk
      BY <1>1, <2>1, ElementOfSeq
    <3> QED
      BY <1>3, <2>1, <3>1 DEF Piece
  <2>2. CASE i > Len(full) /\ i <= Waiting
    <3>1. filled \in Chunk
      BY <1>1, <1>2, <2>2 DEF IInv, TypeOK
    <3> QED
      BY <1>1, <1>3, <2>2, <3>1 DEF Piece
  <2>3. CASE i > Len(full) /\ i > Waiting
    BY <1>1, <1>2, <1>4, <2>3 DEF Piece
  <2> QED
    BY <1>1, <1>2, <2>1, <2>2, <2>3
<1> QED
  BY <1>1, <1>2, <1>5 DEF Line

(***************************************************************************)
(* A step that leaves the callback alone and only cuts the line's end off, *)
(* or nothing.                                                             *)
(***************************************************************************)
LEMMA LineCut ==
  ASSUME LineInv, LineLen \in Nat, LineLen' \in 0 .. LineLen,
         \A i \in 1 .. LineLen' : Piece(i)' = Piece(i),
         UNCHANGED <<cepoch, current, heard>>
  PROVE  LineInv'
<1>1. \A i \in 1 .. LineLen' : (Line')[i] = Line[i]
  BY DEF Line
<1>2. /\ Tidy(Line', LineLen')
      /\ \A e, at : GoesOn(Line, LineLen, e, at) => GoesOn(Line', LineLen', e, at)
  BY <1>1, ShorterLine DEF LineInv
<1> QED
  BY <1>2 DEF LineInv

LEMMA LineUnmoved ==
  ASSUME IInv, UNCHANGED <<full, filled, fepoch, position>>,
         fpc \in {"start", "open", "seek"} <=> fpc' \in {"start", "open", "seek"}
  PROVE  /\ LineLen' = LineLen
         /\ \A i \in 1 .. LineLen' : Piece(i)' = Piece(i)
         /\ Line' = Line
<1>1. Waiting' = Waiting
  BY DEF Waiting, InHand
<1>2. LineLen' = LineLen
  BY <1>1 DEF LineLen
<1>3. \A i \in 1 .. LineLen : Piece(i)' = Piece(i)
  BY <1>1 DEF Piece
<1> QED
  BY <1>2, <1>3 DEF Line

(***************************************************************************)
(* The feeder's steps on the line: it goes on as it did, but for the epoch *)
(* the feeder takes up its place in.                                       *)
(***************************************************************************)
Starting == fpc \in {"start", "open", "seek"}

LEMMA FedLine ==
  ASSUME IInv, Feeder
  PROVE  /\ Tidy(Line', LineLen')
         /\ \A e, at : GoesOn(Line, LineLen, e, at) /\ ~(Starting /\ e = fepoch')
                        => GoesOn(Line', LineLen', e, at)
         /\ FeederOpen \/ FeederSeek => GoesOn(Line', LineLen', fepoch', position')
<1> USE DEF IInv
<1> DEFINE Goal == /\ Tidy(Line', LineLen')
                   /\ \A e, at : GoesOn(Line, LineLen, e, at) /\ ~(Starting /\ e = fepoch')
                                  => GoesOn(Line', LineLen', e, at)
                   /\ FeederOpen \/ FeederSeek => GoesOn(Line', LineLen', fepoch', position')
<1>1. Tidy(Line, LineLen)
  BY DEF LineInv
<1>2. /\ Len(full) \in Nat /\ Waiting \in Nat /\ LineLen \in Nat
      /\ filled = NoChunk => Waiting = Len(full)
      /\ filled # NoChunk => Waiting = Len(full) + 1
      /\ \A i \in 1 .. LineLen : Line[i] = Piece(i) /\ Line[i].epoch \in Nat
      /\ full \in Seq(Chunk)
  BY LinePieces DEF TypeOK
<1>a. ASSUME LineLen' \in 0 .. LineLen, \A i \in 1 .. LineLen' : Piece(i)' = Piece(i),
             ~FeederOpen, ~FeederSeek
      PROVE  Goal
  <2>1. \A i \in 1 .. LineLen' : (Line')[i] = Line[i]
    BY <1>2, <1>a DEF Line
  <2> QED
    BY <1>1, <1>2, <1>a, <2>1, ShorterLine
<1>3. CASE FeederFull \/ FeederReadOut \/ FeederRefuse \/ FeederMarkDrained
  <2>1. /\ UNCHANGED <<full, filled, fepoch, position>>
        /\ fpc \notin {"start", "open", "seek"} /\ fpc' \notin {"start", "open", "seek"}
    BY <1>3 DEF FeederFull, FeederReadOut, FeederRefuse, FeederMarkDrained, CollectOnly
  <2>2. ~FeederOpen /\ ~FeederSeek
    BY <2>1 DEF FeederOpen, FeederSeek
  <2> QED
    BY <1>2, <1>a, <2>1, <2>2, LineUnmoved
<1>4. CASE FeederStart \/ FeederLook
  <2>1. UNCHANGED <<full, filled, position>>
    BY <1>4 DEF FeederStart, FeederLook
  <2>2. Waiting' = Waiting
    BY <2>1 DEF Waiting, InHand
  <2>5. ~FeederOpen /\ ~FeederSeek
    BY <1>4 DEF FeederStart, FeederLook, FeederOpen, FeederSeek
  <2>3. CASE fpc' \in {"open", "seek"}
    <3>1. LineLen' = Waiting
      BY <1>2, <2>2, <2>3 DEF LineLen
    <3>2. LineLen' \in 0 .. LineLen
      BY <1>2, <3>1 DEF LineLen
    <3>3. \A i \in 1 .. LineLen' : Piece(i)' = Piece(i)
      BY <1>2, <2>1, <2>2, <3>1 DEF Piece
    <3> QED
      BY <1>a, <2>5, <3>2, <3>3
  <2>4. CASE fpc' \notin {"open", "seek"}
    <3>1. FeederLook /\ fepoch' = fepoch /\ fpc = "look" /\ fpc' \in {"done", "take"}
      BY <1>4, <2>4 DEF FeederStart, FeederLook
    <3> QED
      BY <1>2, <1>a, <2>1, <2>5, <3>1, LineUnmoved
  <2> QED
    BY <2>3, <2>4
<1>5. CASE FeederCannotOpen \/ FeederOpen
  <2>1. /\ filled = NoChunk /\ filled' = NoChunk /\ full = <<>> /\ full' = <<>>
        /\ fpc \in {"start", "open"} /\ fepoch' = fepoch /\ ~FeederSeek
        /\ fpc' \notin {"start", "open", "seek"}
    BY <1>5 DEF FeederCannotOpen, FeederOpen, FeederSeek, HandsInv, EpochInv
  <2>2. Len(full') = 0 /\ Waiting' = 0 /\ LineLen' = 1
    BY <2>1 DEF Waiting, LineLen, InHand
  <2>3. Tidy(Line', LineLen')
    BY <2>2 DEF Tidy
  <2>4. (Line')[1].epoch = fepoch /\ (Line')[1].start = position'
    BY <2>1, <2>2 DEF Line, Piece
  <2> QED
    BY <2>1, <2>2, <2>3, <2>4 DEF GoesOn, Starting
<1>6. CASE FeederSeek
  <2>1. /\ UNCHANGED <<full, filled, fepoch>> /\ fpc = "seek" /\ fpc' = "take"
        /\ filled = NoChunk
    BY <1>6 DEF FeederSeek, ReleaseReserve, HandsInv
  <2>2. Waiting' = Waiting /\ Waiting = Len(full) /\ LineLen = Waiting /\ LineLen' = Waiting + 1
    BY <1>2, <2>1 DEF Waiting, LineLen, InHand
  <2>3. \A i \in 1 .. LineLen : (Line')[i] = Line[i] /\ Line[i] = full[i]
    BY <1>2, <2>1, <2>2 DEF Line, Piece
  <2>4. /\ (Line')[LineLen + 1].epoch = fepoch /\ fepoch \in Nat
        /\ (Line')[LineLen + 1].start = position'
    BY <1>2, <2>1, <2>2, PlaybackAssumption DEF Line, Piece, TypeOK
  <2>5. \A i \in 1 .. LineLen : Line[i].epoch < fepoch
    BY <2>1, <2>2, <2>3 DEF EpochInv
  <2>6. /\ Tidy(Line', LineLen + 1)
        /\ \A e, at : GoesOn(Line, LineLen, e, at) /\ e # fepoch
                        => GoesOn(Line', LineLen + 1, e, at)
    BY <1>1, <1>2, <2>3, <2>4, <2>5, PlaceTaken
  <2>7. GoesOn(Line', LineLen + 1, fepoch, position')
    <3>1. \A i \in 1 .. LineLen : (Line')[i].epoch # fepoch
      BY <1>2, <2>3, <2>4, <2>5
    <3>2. \A i \in 1 .. LineLen + 1 : i = LineLen + 1 \/ i \in 1 .. LineLen
      BY <1>2
    <3> QED
      BY <2>4, <3>1, <3>2 DEF GoesOn
  <2> QED
    BY <2>1, <2>2, <2>6, <2>7 DEF Starting
<1>7. CASE FeederFill
  <2>1. /\ full' = full /\ fepoch' = fepoch /\ fpc = "take" /\ fpc' = "send"
        /\ filled = NoChunk /\ filled' # NoChunk
        /\ filled'.epoch = fepoch /\ filled'.start = position
        /\ filled'.len = ReadTo - position /\ position' = ReadTo
    BY <1>7, FillsOne, NoChunkIsNone DEF FeederFill, TakeChunk, HandsInv
  <2>2. position + (ReadTo - position) = ReadTo
    <3>1. ReadTo \in SpanStart .. SpanEnd /\ position \in SpanStart .. SpanEnd
      BY <1>7, FillsOne DEF FeederFill, TypeOK
    <3> QED
      BY <3>1, PlaybackAssumption
  <2>3. /\ Waiting = Len(full) /\ Waiting' = Waiting + 1
        /\ LineLen = Waiting + 1 /\ LineLen' = LineLen + 1
    BY <1>2, <2>1 DEF Waiting, LineLen, InHand
  <2>4. \A i \in 1 .. LineLen - 1 : (Line')[i] = Line[i]
    BY <1>2, <2>1, <2>3 DEF Line, Piece
  <2>5. (Line')[LineLen] = filled'
    BY <1>2, <2>1, <2>3 DEF Line, Piece
  <2>6. Line[LineLen].epoch = fepoch /\ Line[LineLen].start = position
    BY <1>2, <2>1, <2>3 DEF Line, Piece
  <2>7. (Line')[LineLen + 1].epoch = fepoch /\ (Line')[LineLen + 1].start = ReadTo
    BY <1>2, <2>1, <2>3 DEF Line, Piece
  <2>8. /\ Tidy(Line', LineLen')
        /\ \A e, at : GoesOn(Line, LineLen, e, at) => GoesOn(Line', LineLen', e, at)
    <3>1. LineLen \in Nat \ {0} /\ \A i \in 1 .. LineLen : Line[i].epoch \in Nat
      BY <1>2, <2>3
    <3>2. /\ (Line')[LineLen].epoch = Line[LineLen].epoch
          /\ (Line')[LineLen].start = Line[LineLen].start
          /\ (Line')[LineLen + 1].epoch = Line[LineLen].epoch
          /\ (Line')[LineLen + 1].start = (Line')[LineLen].start + (Line')[LineLen].len
      BY <2>1, <2>2, <2>5, <2>6, <2>7
    <3> QED
      BY <1>1, <2>3, <2>4, <3>1, <3>2, PlaceFilled
  <2>9. ~FeederOpen /\ ~FeederSeek
    BY <2>1 DEF FeederOpen, FeederSeek
  <2> QED
    BY <2>8, <2>9
<1>8. CASE FeederSend
  <2>1. /\ filled \in Chunk /\ filled # NoChunk /\ full' = Append(full, filled)
        /\ filled' = NoChunk /\ UNCHANGED <<fepoch, position>>
        /\ fpc = "send" /\ fpc' = "look"
    BY <1>8 DEF FeederSend, SendChunk, HandsInv, TypeOK
  <2>2. /\ Len(full') = Len(full) + 1 /\ full'[Len(full) + 1] = filled
        /\ \A i \in 1 .. Len(full) : full'[i] = full[i]
    BY <1>2, <2>1, AppendsOne
  <2>3. Waiting = Len(full) + 1 /\ Waiting' = Waiting /\ LineLen' = LineLen
    BY <1>2, <2>1, <2>2 DEF Waiting, LineLen, InHand
  <2>4. \A i \in 1 .. LineLen : Piece(i)' = Piece(i)
    BY <1>2, <2>1, <2>2, <2>3 DEF Piece
  <2>5. ~FeederOpen /\ ~FeederSeek
    BY <2>1 DEF FeederOpen, FeederSeek
  <2> QED
    BY <1>2, <1>a, <2>3, <2>4, <2>5
<1> QED
  BY <1>3, <1>4, <1>5, <1>6, <1>7, <1>8 DEF Feeder

LEMMA LineFed ==
  ASSUME IInv, Feeder
  PROVE  LineInv'
<1>1. UNCHANGED <<cepoch, current, heard>>
  BY FeederAside
<1>2. /\ cepoch \in Nat /\ fepoch \in Nat /\ heard.epoch \in Int
      /\ Starting /\ fepoch' # fepoch => fpc = "start"
  BY PlaybackAssumption DEF IInv, TypeOK, Feeder, FeederCannotOpen, FeederStart, FeederOpen,
     FeederLook, FeederSeek, FeederFull, FeederFill, FeederReadOut, FeederRefuse, FeederSend,
     FeederMarkDrained, Starting
<1>3. ASSUME Starting, current # NoChunk \/ heard.epoch = cepoch
      PROVE  cepoch # fepoch'
  BY <1>2, <1>3 DEF IInv, EpochInv, Starting
<1>4. \A at : /\ GoesOn(Line, LineLen, cepoch, at)
              /\ current # NoChunk \/ heard.epoch = cepoch
              => GoesOn(Line', LineLen', cepoch, at)
  BY <1>3, FedLine
<1> QED
  BY <1>1, <1>4, FedLine DEF IInv, LineInv

(***************************************************************************)
(* A take: the chunk is the head of the line, the rest goes on from it.    *)
(***************************************************************************)
LEMMA LineTaken ==
  ASSUME IInv, CallbackTake
  PROVE  /\ full' = Tail(full) /\ UNCHANGED <<heard, cepoch>> /\ current = NoChunk
         /\ full # <<>> /\ LineLen \in Nat \ {0} /\ Line[1] = full[1]
         /\ \/ current' = NoChunk /\ full[1].epoch # cepoch
            \/ current' = full[1] /\ full[1].epoch = cepoch
         /\ Tidy(Line', LineLen')
         /\ Line[1].epoch = cepoch
              => GoesOn(Line', LineLen', cepoch, Line[1].start + Line[1].len)
         /\ Line[1].epoch # cepoch
              => \A at : GoesOn(Line, LineLen, cepoch, at) => GoesOn(Line', LineLen', cepoch, at)
<1> USE DEF IInv
<1>a. UNCHANGED <<fpc, fepoch, position, filled>>
  BY CallbackAside DEF Callback
<1>b. /\ Len(full) \in Nat /\ Waiting \in Nat /\ LineLen \in Nat
      /\ filled = NoChunk => Waiting = Len(full)
      /\ filled # NoChunk => Waiting = Len(full) + 1
      /\ \A i \in 1 .. LineLen : Line[i] = Piece(i) /\ Line[i].epoch \in Nat
      /\ full \in Seq(Chunk)
  BY LinePieces DEF TypeOK
<1>c. cepoch \in Nat
  BY PlaybackAssumption DEF TypeOK
<1>1. /\ full' = Tail(full) /\ UNCHANGED <<heard, cepoch>> /\ current = NoChunk
      /\ full # <<>> /\ Head(full) = full[1] /\ Len(full) > 0
      /\ Len(full') = Len(full) - 1
      /\ \A i \in 1 .. Len(full) - 1 : full'[i] = full[i + 1]
      /\ \/ current' = NoChunk /\ full[1].epoch # cepoch
         \/ current' = full[1] /\ full[1].epoch = cepoch
  BY <1>b, TakesOne DEF CallbackTake, DiscardChunk, NextChunk
<1>2. Waiting' = Waiting - 1 /\ Waiting \in Nat \ {0}
  <2>1. InHand(filled)' = InHand(filled) /\ InHand(filled) \in {0, 1}
    BY <1>a DEF InHand
  <2> QED
    BY <1>b, <1>1, <2>1 DEF Waiting
<1>3. LineLen \in Nat \ {0} /\ LineLen' = LineLen - 1
  <2>1. \/ LineLen = Waiting /\ LineLen' = Waiting'
        \/ LineLen = Waiting + 1 /\ LineLen' = Waiting' + 1
    BY <1>a, <1>2 DEF LineLen
  <2> QED
    BY <1>2, <2>1
<1> DEFINE queued == Len(full)
<1>9. queued \in Nat /\ queued > 0 /\ Len(full') = queued - 1
  BY <1>b, <1>1
<1>4. \A i \in 1 .. LineLen - 1 : (Line')[i] = Line[i + 1]
  <2> SUFFICES ASSUME NEW i \in 1 .. LineLen - 1
               PROVE  Piece(i)' = Piece(i + 1)
    BY <1>b, <1>3 DEF Line
  <2>1. i \in 1 .. LineLen /\ i \in Int /\ i >= 1
    BY <1>3
  <2>2. CASE i + 1 <= Len(full)
    <3>1. i \in 1 .. queued - 1 /\ i <= Len(full')
      <4> HIDE DEF queued
      <4>1. i + 1 <= queued
        BY <2>2 DEF queued
      <4> QED
        BY <1>9, <2>1, <4>1
    <3>2. Piece(i)' = full'[i] /\ Piece(i + 1) = full[i + 1]
      BY <2>2, <3>1 DEF Piece
    <3> QED
      BY <1>1, <3>1, <3>2
  <2>3. CASE i + 1 > Len(full)
    <3>1. ~(i <= Len(full')) /\ ~(i + 1 <= Len(full))
      BY <1>9, <2>1, <2>3
    <3>2. i <= Waiting' <=> i + 1 <= Waiting
      BY <1>b, <1>2, <2>1
    <3> QED
      BY <1>a, <3>1, <3>2 DEF Piece
  <2> QED
    BY <1>b, <2>1, <2>2, <2>3
<1>5. Line[1] = full[1]
  <2>1. 1 \in 1 .. LineLen /\ 1 <= Len(full)
    BY <1>3, <1>9
  <2>2. Line[1] = Piece(1)
    BY <1>b, <2>1
  <2> QED
    BY <2>1, <2>2 DEF Piece
<1>6. /\ Tidy(Line', LineLen')
      /\ Line[1].epoch = cepoch
           => GoesOn(Line', LineLen', cepoch, Line[1].start + Line[1].len)
      /\ Line[1].epoch # cepoch
           => \A at : GoesOn(Line, LineLen, cepoch, at) => GoesOn(Line', LineLen', cepoch, at)
  <2>1. Tidy(Line, LineLen)
    BY DEF LineInv
  <2> QED
    BY <1>b, <1>c, <1>3, <1>4, <2>1, HeadTaken
<1> QED
  BY <1>1, <1>3, <1>5, <1>6

(***************************************************************************)
(* The callback's steps on the line.                                       *)
(***************************************************************************)
LEMMA LinePlayed ==
  ASSUME IInv, Callback
  PROVE  LineInv'
<1> USE DEF IInv
<1>1. UNCHANGED <<fpc, fepoch, position, filled>>
  BY CallbackAside
<1>2. /\ Len(full) \in Nat /\ Waiting \in Nat /\ LineLen \in Nat
      /\ filled = NoChunk => Waiting = Len(full)
      /\ filled # NoChunk => Waiting = Len(full) + 1
      /\ \A i \in 1 .. LineLen : Line[i] = Piece(i) /\ Line[i].epoch \in Nat
      /\ full \in Seq(Chunk)
  BY LinePieces DEF TypeOK
<1>3. ASSUME full' = full
      PROVE  LineLen' = LineLen /\ Line' = Line
  BY <1>1, <1>3, LineUnmoved
<1>4. heard.epoch \in Int /\ cepoch \in Nat /\ epoch \in Nat
  BY PlaybackAssumption DEF TypeOK
<1>5. CASE CallbackGate \/ CallbackDry \/ CallbackJudge \/ CallbackEnd
  <2>1. UNCHANGED <<full, cepoch, current, heard>>
    BY <1>5 DEF CallbackGate, CallbackDry, CallbackJudge, CallbackEnd
  <2> QED
    BY <1>3, <2>1 DEF LineInv
<1>6. CASE CallbackBegin
  <2>1. UNCHANGED <<full, heard>> /\ cepoch' = epoch
    BY <1>6 DEF CallbackBegin, Recycle
  <2>2. CASE cepoch = epoch
    <3>1. current' = current
      BY <1>6, <2>2 DEF CallbackBegin, EpochInv
    <3> QED
      BY <1>3, <2>1, <2>2, <3>1 DEF LineInv
  <2>3. CASE cepoch # epoch
    <3>1. heard.epoch < epoch
      BY <1>4, <2>3 DEF EpochInv
    <3>2. current' = NoChunk
      BY <1>6, <2>3 DEF CallbackBegin, EpochInv
    <3> QED
      BY <1>3, <1>4, <2>1, <3>1, <3>2 DEF LineInv
  <2> QED
    BY <2>2, <2>3
<1>7. CASE CallbackTake
  <2>1. full # <<>> /\ full \in Seq(Chunk)
    BY <1>7, LineTaken, <1>2
  <2>2. CASE current' = NoChunk /\ full[1].epoch # cepoch
    BY <1>7, <2>2, LineTaken DEF LineInv
  <2>3. CASE current' = full[1] /\ full[1].epoch = cepoch
    <3>1. current' # NoChunk
      BY <2>1, <2>3, TakesOne, NoChunkIsNone
    <3>2. heard.epoch = cepoch => heard.to = full[1].start
      <4>1. 1 \in 1 .. LineLen
        BY <1>7, LineTaken
      <4> QED
        BY <1>7, <2>3, <4>1, LineTaken DEF LineInv, GoesOn
    <3> QED
      BY <1>7, <2>3, <3>1, <3>2, LineTaken DEF LineInv
  <2> QED
    BY <1>7, <2>2, <2>3, LineTaken
<1>8. CASE CallbackCopy
  <2>1. current \in Chunk /\ current # NoChunk /\ current.epoch = cepoch /\ cepoch' = cepoch
    BY <1>8 DEF CallbackCopy, TypeOK, EpochInv
  <2>2. PICK n \in 1 .. BufferFrames :
          /\ heard' = [epoch |-> current.epoch, from |-> current.start,
                       to |-> current.start + n]
          /\ \/ n = current.len /\ Recycle /\ current' = NoChunk
             \/ /\ n < current.len /\ UNCHANGED queueVars
                /\ current' = [current EXCEPT !.start = current.start + n,
                                              !.len = current.len - n]
    BY <1>8, CopiesSome
  <2>3. /\ heard'.epoch = cepoch /\ heard'.to = current.start + n /\ full' = full
        /\ current.start \in Int /\ current.len \in Int /\ n \in Int
    BY <2>1, <2>2, PlaybackAssumption DEF Recycle, Chunk
  <2>4. GoesOn(Line', LineLen', cepoch, current.start + current.len) /\ Tidy(Line', LineLen')
    BY <1>3, <2>1, <2>3 DEF LineInv
  <2>5. CASE n = current.len /\ current' = NoChunk
    BY <2>1, <2>3, <2>4, <2>5 DEF LineInv
  <2>6. CASE current' = [current EXCEPT !.start = current.start + n,
                                        !.len = current.len - n]
    <3>1. current'.start = current.start + n /\ current'.len = current.len - n
      BY <2>1, <2>6 DEF Chunk
    <3>2. current'.start + current'.len = current.start + current.len
      BY <2>3, <3>1
    <3>3. current' # NoChunk
      <4>1. current'.epoch = cepoch
        BY <2>1, <2>6 DEF Chunk
      <4> QED
        BY <1>4, <4>1 DEF NoChunk
    <3> QED
      BY <2>1, <2>3, <2>4, <3>1, <3>2, <3>3 DEF LineInv
  <2> QED
    BY <2>2, <2>5, <2>6
<1> QED
  BY <1>5, <1>6, <1>7, <1>8 DEF Callback

LEMMA LineKept ==
  ASSUME IInv, [Next]_vars
  PROVE  LineInv'
<1>1. CASE Operator \/ Transport \/ UNCHANGED vars
  <2>1. UNCHANGED <<full, filled, fepoch, position, fpc, cepoch, current, heard>>
    BY <1>1, TransportAside DEF vars
  <2> QED
    BY <2>1, LineUnmoved DEF IInv, LineInv
<1>2. CASE Feeder
  BY <1>2, LineFed
<1>3. CASE Callback
  BY <1>3, LinePlayed
<1> QED
  BY <1>1, <1>2, <1>3 DEF Next, Closed

----------------------------------------------------------------------------
(* The theorems.                                                           *)

LEMMA Starts ==
  ASSUME Init
  PROVE  IInv
<1> USE DEF Init, QueueInit
<1>1. TypeOK
  BY StartsTyped
<1>2. /\ full = <<>> /\ Len(full) = 0 /\ filled = NoChunk /\ current = NoChunk
      /\ fpc = "start" /\ heard.epoch = -1 /\ heard.from = SpanStart /\ heard.to = SpanStart
      /\ cepoch = 0 /\ fepoch = 0 /\ epoch = 0 /\ tpc = "idle" /\ cpc = "idle"
  OBVIOUS
<1>3. HandsInv
  BY <1>2 DEF HandsInv
<1>4. PoolConserved
  BY <1>2, QueueAssumption DEF PoolConserved, InHand
<1>5. SolidInv
  BY <1>2, PlaybackAssumption DEF SolidInv, Solid, HoleIsNeverHeard
<1>6. EpochInv
  BY <1>2 DEF EpochInv
<1>7. LineInv
  <2>1. LineLen = 0
    BY <1>2 DEF LineLen, Waiting, InHand
  <2> QED
    BY <1>2, <2>1 DEF LineInv, Tidy
<1> QED
  BY <1>1, <1>3, <1>4, <1>5, <1>6, <1>7 DEF IInv

LEMMA InvKept ==
  ASSUME IInv, [Next]_vars
  PROVE  IInv'
  BY TypeKept, HandsKept, PoolKept, SolidKept, EpochKept, LineKept DEF IInv

THEOREM PlaybackInvariant == Spec => []IInv
<1> QED
  BY Starts, InvKept, PTL DEF Spec

(***************************************************************************)
(* The transport's types: Player, feeder, callback and queue.              *)
(***************************************************************************)
THEOREM PlaybackTypes == Spec => []TypeOK
<1>1. IInv => TypeOK
  BY DEF IInv
<1> QED
  BY <1>1, PlaybackInvariant, PTL

(***************************************************************************)
(* chunks.rs: no buffer is ever created, dropped or held twice, whatever   *)
(* the pool, the reserve and the order in which the threads run.           *)
(***************************************************************************)
THEOREM PoolStaysWhole == Spec => []PoolConserved
<1>1. IInv => PoolConserved
  BY DEF IInv
<1> QED
  BY <1>1, PlaybackInvariant, PTL

(***************************************************************************)
(* chunks.rs: the slot of the full ring a send needs and the slot of the   *)
(* spent ring a recycle needs are always free, so send() fails only when   *)
(* the callback has gone and recycle() never drops a buffer.               *)
(***************************************************************************)
RoomToMove ==
  /\ filled # NoChunk => Len(full) < Depth
  /\ current # NoChunk \/ full # <<>> => spent < Depth

THEOREM RingsHaveRoom == Spec => []RoomToMove
<1>1. IInv => RoomToMove
  <2> SUFFICES ASSUME IInv
               PROVE  RoomToMove
    OBVIOUS
  <2>1. Len(full) \in Nat /\ (full # <<>> => Len(full) > 0)
    BY LinePieces, TakesOne DEF IInv, TypeOK
  <2>2. spent \in Nat /\ spare \in Nat /\ Depth \in Nat
    BY QueueAssumption DEF IInv, TypeOK
  <2> QED
    BY <2>1, <2>2 DEF IInv, PoolConserved, InHand, RoomToMove
<1> QED
  BY <1>1, PlaybackInvariant, PTL

(***************************************************************************)
(* feeding() refuses a hole: no frame the project does not hold reaches    *)
(* the device, in any interleaving with seeks.                             *)
(***************************************************************************)
THEOREM HolesStaySilent == Spec => []HoleIsNeverHeard
<1>1. IInv => HoleIsNeverHeard
  BY DEF IInv, SolidInv
<1> QED
  BY <1>1, PlaybackInvariant, PTL

(***************************************************************************)
(* on_data(): what the device is given never goes back to an epoch a seek  *)
(* has ended, and within an epoch never skips or repeats a frame.          *)
(***************************************************************************)
THEOREM EpochsJoin == Spec => EpochContiguous
<1>1. ASSUME IInv, CallbackCopy
      PROVE  \/ heard'.epoch = heard.epoch /\ heard'.from = heard.to
             \/ heard'.epoch > heard.epoch
  <2>1. current # NoChunk /\ current.epoch = cepoch /\ heard.epoch <= cepoch
    BY <1>1 DEF CallbackCopy, IInv, EpochInv
  <2>2. heard'.epoch = current.epoch /\ heard'.from = current.start
    <3>1. PICK n \in 1 .. BufferFrames :
            heard' = [epoch |-> current.epoch, from |-> current.start,
                      to |-> current.start + n]
      BY <1>1, CopiesSome DEF IInv
    <3> QED
      BY <3>1
  <2>3. heard.epoch = cepoch => heard.to = current.start
    BY <1>1, <2>1 DEF IInv, LineInv
  <2>4. heard.epoch \in Int /\ cepoch \in Int
    BY <1>1, PlaybackAssumption DEF IInv, TypeOK
  <2> QED
    BY <2>1, <2>2, <2>3, <2>4
<1>2. IInv => [CallbackCopy =>
                 \/ heard'.epoch = heard.epoch /\ heard'.from = heard.to
                 \/ heard'.epoch > heard.epoch]_vars
  BY <1>1
<1> QED
  BY <1>2, PlaybackInvariant, PTL DEF EpochContiguous


----------------------------------------------------------------------------
(* A render: the same queue, feeder step and callback, driven in turns.    *)

(***************************************************************************)
(* A chunk is as long as chunks are, or stops where the audition does.     *)
(***************************************************************************)
Whole(chunk) == chunk.len = ChunkFrames \/ chunk.start + chunk.len = SpanEnd

WholeInv ==
  /\ \A i \in 1 .. Len(full) : Whole(full[i])
  /\ filled # NoChunk => Whole(filled)

(***************************************************************************)
(* Whose turn it is says where the feeder and the callback stand.          *)
(***************************************************************************)
TurnInv ==
  /\ turn \in {"cues", "feed", "play", "over", "stopped"}
  /\ turn # "play" => cpc = "idle"
  /\ turn # "cues" => tpc = "idle"
  /\ turn = "cues" => fpc \in {"start", "look"}
  /\ turn = "feed" /\ fpc \in {"seek", "take", "send", "drained", "refused"} => fepoch = epoch
  /\ turn = "play" => fpc \in {"look", "failed"} /\ fepoch = epoch

(***************************************************************************)
(* The queue holds nothing a seek has overtaken, a whole chunk is next.    *)
(***************************************************************************)
Fresh ==
  /\ current # NoChunk => current.epoch = epoch
  /\ \A i \in 1 .. Len(full) : full[i].epoch = epoch

Ready ==
  \/ current # NoChunk /\ current.len = ChunkFrames
  \/ current = NoChunk /\ full # <<>> /\ full[1].len = ChunkFrames

(***************************************************************************)
(* A period is one chunk, so a chunk is taken at the start of a period and *)
(* used up in it; one that is shorter has nothing behind it.               *)
(***************************************************************************)
PeriodInv ==
  /\ cpc = "idle" => current = NoChunk
  /\ cpc # "idle" => cepoch = epoch
  /\ cpc = "gate" => current = NoChunk /\ written = 0
  /\ current # NoChunk => cpc = "loop" /\ written = 0 /\ Fresh /\ Whole(current)
  /\ cpc = "loop" /\ written > 0 => full = <<>>
  /\ cpc = "dry" => full = <<>> /\ current = NoChunk
  /\ cpc = "end" => full = <<>> /\ current = NoChunk /\ drained = epoch
  /\ cpc \in {"gate", "loop", "dry"} => pass = "none"

(***************************************************************************)
(* An epoch that has starved once, and the first one, is settled: nothing  *)
(* in the queue is older, and until the feeder has read the span out a     *)
(* callback finds a whole chunk.                                           *)
(***************************************************************************)
Settled == epoch = 0 \/ gaps[epoch] > 0

GapInv ==
  /\ gaps \in [0 .. MaxSeeks -> 0 .. 1]
  /\ gaps[0] = 0
  /\ \A e \in 0 .. MaxSeeks : e > epoch => gaps[e] = 0
  /\ Settled => Fresh
  /\ Settled /\ turn = "play" /\ drained # epoch =>
       /\ Ready
       /\ cpc \in {"idle", "gate", "loop"}
       /\ cpc = "loop" => written = 0

RenderInv == IInv /\ WholeInv /\ TurnInv /\ PeriodInv /\ GapInv


(***************************************************************************)
(* A render makes the steps of the live path, and only those.              *)
(***************************************************************************)
LEMMA RenderMoves ==
  ASSUME RenderNext
  PROVE  [Next]_vars
  BY DEF RenderNext, RenderStart, RenderCue, RenderStop, RenderFeed, RenderStep, RenderPlay,
     RenderOver, Next, Operator, Transport

LEMMA QueueFacts ==
  ASSUME IInv
  PROVE  /\ Len(full) \in Nat /\ full \in Seq(Chunk)
         /\ \A i \in 1 .. Len(full) : full[i] \in Chunk /\ full[i].epoch <= fepoch
         /\ \A i, j \in 1 .. Len(full) : i < j => full[i].epoch <= full[j].epoch
         /\ \A i \in 1 .. Len(full) - 1 :
              full[i].epoch = full[i + 1].epoch =>
                full[i + 1].start = full[i].start + full[i].len
         /\ full # <<>> => Len(full) > 0
<1>1. Len(full) \in Nat /\ full \in Seq(Chunk) /\ (full # <<>> => Len(full) > 0)
  BY LinePieces, TakesOne DEF IInv, TypeOK
<1>2. \A i \in 1 .. Len(full) : full[i] \in Chunk /\ full[i].epoch <= fepoch
  BY <1>1, ElementOfSeq DEF IInv, EpochInv
<1>3. \A i \in 1 .. Len(full) : i \in 1 .. LineLen /\ Line[i] = full[i]
  <2>1. Waiting \in Nat /\ LineLen \in Nat /\ Len(full) <= Waiting /\ Waiting <= LineLen
    BY LinePieces DEF LineLen
  <2>2. \A i \in 1 .. LineLen : Line[i] = Piece(i)
    BY LinePieces
  <2> QED
    BY <1>1, <2>1, <2>2 DEF Piece
<1>4. Tidy(Line, LineLen)
  BY DEF IInv, LineInv
<1>5. \A i, j \in 1 .. Len(full) : i < j => full[i].epoch <= full[j].epoch
  BY <1>3, <1>4 DEF Tidy
<1>6. ASSUME NEW i \in 1 .. Len(full) - 1, full[i].epoch = full[i + 1].epoch
      PROVE  full[i + 1].start = full[i].start + full[i].len
  <2>1. i \in 1 .. Len(full) /\ i + 1 \in 1 .. Len(full)
    BY <1>1
  <2>2. i \in 1 .. LineLen /\ i + 1 \in 1 .. LineLen
        /\ Line[i] = full[i] /\ Line[i + 1] = full[i + 1]
    BY <1>3, <2>1
  <2>3. i \in 1 .. LineLen - 1
    BY <2>2, LinePieces
  <2> QED
    BY <1>4, <1>6, <2>2, <2>3 DEF Tidy
<1> QED
  BY <1>1, <1>2, <1>5, <1>6

LEMMA WholeKept ==
  ASSUME IInv, WholeInv, [Next]_vars
  PROVE  WholeInv'
<1>0. Len(full) \in Nat /\ full \in Seq(Chunk)
  BY QueueFacts
<1>1. ASSUME UNCHANGED <<full, filled>>
      PROVE  WholeInv'
  BY <1>1 DEF WholeInv, Whole
<1>2. CASE Operator \/ Transport
  BY <1>1, <1>2, TransportAside
<1>3. CASE Feeder
  <2>1. CASE FeederFill
    <3>1. full' = full /\ filled' = [epoch |-> fepoch, start |-> position, len |-> ReadTo - position]
      BY <2>1 DEF FeederFill, TakeChunk
    <3>2. filled'.len = ReadTo - position /\ filled'.start = position
      BY <3>1
    <3>3. ReadTo = position + ChunkFrames \/ ReadTo = SpanEnd
      BY DEF ReadTo, Lesser
    <3>4. Whole(filled')
      BY <3>2, <3>3, PlaybackAssumption DEF Whole, IInv, TypeOK
    <3> QED
      BY <3>1, <3>4 DEF WholeInv
  <2>2. CASE FeederSend
    <3>1. full' = Append(full, filled) /\ filled' = NoChunk /\ filled \in Chunk
      BY <2>2 DEF FeederSend, SendChunk, IInv, TypeOK, HandsInv
    <3>2. Whole(filled)
      BY <3>1, NoChunkIsNone DEF WholeInv
    <3>3. \A i \in 1 .. Len(full') : full'[i] = IF i = Len(full) + 1 THEN filled ELSE full[i]
      BY <1>0, <3>1, AppendsOne
    <3>4. Len(full') = Len(full) + 1
      BY <1>0, <3>1, AppendsOne
    <3>5. \A i \in 1 .. Len(full') : i = Len(full) + 1 \/ i \in 1 .. Len(full)
      BY <1>0, <3>4
    <3>6. \A i \in 1 .. Len(full') : Whole(full'[i])
      BY <3>2, <3>3, <3>5 DEF WholeInv
    <3> QED
      BY <3>1, <3>6 DEF WholeInv
  <2>3. CASE Feeder /\ ~FeederFill /\ ~FeederSend
    <3>1. UNCHANGED <<full, filled>>
      BY <2>3 DEF Feeder, FeederCannotOpen, FeederStart, FeederOpen, FeederLook, FeederSeek,
         FeederFull, FeederReadOut, FeederRefuse, FeederMarkDrained, CollectOnly, ReleaseReserve
    <3> QED
      BY <1>1, <3>1
  <2> QED
    BY <1>3, <2>1, <2>2, <2>3
<1>4. CASE Callback
  <2>1. filled' = filled
    BY <1>4, CallbackAside
  <2>2. CASE full' = full
    BY <1>1, <2>1, <2>2
  <2>3. CASE full # <<>> /\ full' = Tail(full)
    <3>1. /\ Len(full') = Len(full) - 1
          /\ \A i \in 1 .. Len(full) - 1 : full'[i] = full[i + 1]
      BY <1>0, <2>3, TakesOne
    <3>2. \A i \in 1 .. Len(full') : i + 1 \in 1 .. Len(full) /\ full'[i] = full[i + 1]
      BY <1>0, <3>1
    <3> QED
      BY <2>1, <3>2 DEF WholeInv, Whole
  <2>4. full' = full \/ (full # <<>> /\ full' = Tail(full))
    BY <1>4 DEF Callback, CallbackBegin, CallbackGate, CallbackTake, CallbackDry,
       CallbackJudge, CallbackEnd, CallbackCopy, Recycle, DiscardChunk, NextChunk
  <2> QED
    BY <2>2, <2>3, <2>4
<1>5. CASE UNCHANGED vars
  BY <1>1, <1>5 DEF vars
<1> QED
  BY <1>2, <1>3, <1>4, <1>5 DEF Next, Closed

(***************************************************************************)
(* With every buffer in the queue and nothing stale in it, its head is     *)
(* whole: the chunk behind it starts inside the audition.                  *)
(***************************************************************************)
LEMMA FullIsReady ==
  ASSUME IInv, WholeInv, Fresh, current = NoChunk, filled = NoChunk, spare = 0, spent = 0
  PROVE  Ready
<1>1. Len(full) = Depth /\ Depth > 1
  BY QueueFacts, QueueAssumption DEF IInv, PoolConserved, InHand
<1>2. full # <<>> /\ 1 \in 1 .. Len(full) /\ 2 \in 1 .. Len(full) /\ 1 \in 1 .. Len(full) - 1
  BY <1>1, QueueAssumption, QueueFacts, EmptySeq
<1>3. full[1].epoch = full[2].epoch
  BY <1>2 DEF Fresh
<1>4. full[2].start = full[1].start + full[1].len
  <2>1. full[1].epoch = full[1 + 1].epoch => full[1 + 1].start = full[1].start + full[1].len
    BY <1>2, QueueFacts
  <2> QED
    BY <1>3, <2>1
<1>5. full[2].start < SpanEnd
  BY <1>2, QueueFacts, PlaybackAssumption DEF Chunk
<1>6. Whole(full[1])
  BY <1>2 DEF WholeInv
<1> QED
  BY <1>2, <1>4, <1>5, <1>6, PlaybackAssumption DEF Whole, Ready

LEMMA TurnKept ==
  ASSUME TypeOK, TurnInv, RenderNext
  PROVE  TurnInv'
<1> USE DEF TurnInv
<1>1. CASE RenderStart \/ RenderCue
  <2>1. UNCHANGED <<turn, cpc, fpc>> /\ turn = "cues"
    BY <1>1, TransportAside DEF RenderStart, RenderCue, renderVars, Operator, Transport
  <2> QED
    BY <2>1
<1>2. CASE RenderStop \/ RenderFeed
  BY <1>2 DEF RenderStop, RenderFeed, vars
<1>3. CASE RenderStep
  <2>1. UNCHANGED <<epoch, tpc, cpc>> /\ turn = "feed"
    BY <1>3, FeederAside DEF RenderStep
  <2>2. CASE FeederFull \/ FeederMarkDrained
    BY <1>3, <2>1, <2>2 DEF RenderStep, FeederFull, FeederMarkDrained
  <2>3. CASE ~(FeederFull \/ FeederMarkDrained)
    <3>1. turn' = "feed"
      BY <1>3, <2>3 DEF RenderStep
    <3>2. fpc' \in {"seek", "take", "send", "drained", "refused"} => fepoch' = epoch
      BY <1>3, <2>1, <2>3 DEF RenderStep, Feeder, FeederCannotOpen, FeederStart, FeederOpen,
         FeederLook, FeederSeek, FeederFill, FeederReadOut, FeederRefuse, FeederSend
    <3> QED
      BY <2>1, <3>1, <3>2
  <2> QED
    BY <2>2, <2>3
<1>4. CASE RenderPlay
  <2>1. UNCHANGED <<epoch, tpc, fpc, fepoch>> /\ turn = "play" /\ fpc = "look"
    BY <1>4, CallbackAside DEF RenderPlay, FeederGone
  <2>2. turn' = IF cpc' # "idle" THEN "play" ELSE IF ended' THEN "over" ELSE "cues"
    BY <1>4 DEF RenderPlay
  <2> QED
    BY <2>1, <2>2
<1>5. CASE RenderOver
  BY <1>5 DEF RenderOver, vars, renderVars
<1> QED
  BY <1>1, <1>2, <1>3, <1>4, <1>5 DEF RenderNext


(***************************************************************************)
(* A copy in a render: the whole chunk goes out, and behind a short one    *)
(* there is nothing of its epoch.                                          *)
(***************************************************************************)
LEMMA CopyUsesUp ==
  ASSUME IInv, PeriodInv, turn = "play" => fepoch = epoch, turn = "play", CallbackCopy
  PROVE  /\ current' = NoChunk /\ full' = full /\ cpc = "loop"
         /\ cpc' = IF current.len = ChunkFrames THEN "idle" ELSE "loop"
         /\ cpc' = "loop" => full = <<>>
<1>1. /\ cpc = "loop" /\ current # NoChunk /\ current \in Chunk /\ written = 0
      /\ Fresh /\ Whole(current) /\ cepoch = epoch
  BY DEF CallbackCopy, PeriodInv, IInv, TypeOK
<1>2. /\ current.len \in 1 .. ChunkFrames /\ current.start \in Int
  BY <1>1, PlaybackAssumption DEF Chunk
<1> DEFINE n == Lesser(current.len, BufferFrames - written)
<1>3. n = current.len
  BY <1>1, <1>2, RenderAssumption, PlaybackAssumption DEF Lesser
<1>4. /\ current' = NoChunk /\ full' = full
      /\ cpc' = IF written + n = BufferFrames THEN "idle" ELSE "loop"
  BY <1>3 DEF CallbackCopy, Recycle
<1> HIDE DEF n
<1>5. cpc' = IF current.len = ChunkFrames THEN "idle" ELSE "loop"
  BY <1>1, <1>2, <1>3, <1>4, RenderAssumption
<1>6. ASSUME cpc' = "loop", full # <<>>
      PROVE  FALSE
  <2>1. current.start + current.len = SpanEnd
    BY <1>1, <1>5, <1>6 DEF Whole
  <2>2. 1 \in 1 .. Len(full) /\ full[1] \in Chunk /\ full[1].epoch = epoch
    BY <1>1, <1>6, QueueFacts DEF Fresh
  <2>3. 1 \in 1 .. LineLen /\ Line[1] = full[1]
    <3>1. Waiting \in Nat /\ LineLen \in Nat /\ Len(full) <= Waiting /\ Waiting <= LineLen
      BY LinePieces DEF LineLen
    <3>2. 1 \in 1 .. LineLen => Line[1] = Piece(1)
      BY LinePieces
    <3> QED
      BY <2>2, <3>1, <3>2, QueueFacts DEF Piece
  <2>4. GoesOn(Line, LineLen, cepoch, current.start + current.len)
    BY <1>1 DEF IInv, LineInv
  <2>5. full[1].start = SpanEnd
    BY <1>1, <2>1, <2>2, <2>3, <2>4 DEF GoesOn
  <2> QED
    BY <2>2, <2>5, PlaybackAssumption DEF Chunk
<1> QED
  BY <1>1, <1>4, <1>5, <1>6

(***************************************************************************)
(* The callback's turn: one step per action.                               *)
(***************************************************************************)
LEMMA PeriodPlayed ==
  ASSUME IInv, WholeInv, TurnInv, PeriodInv, RenderPlay
  PROVE  PeriodInv'
<1>0. /\ turn = "play" /\ fepoch = epoch /\ Callback /\ UNCHANGED epoch
  BY CallbackAside DEF RenderPlay, TurnInv
<1>1. CASE CallbackBegin
  <2>1. current = NoChunk
    BY <1>1 DEF CallbackBegin, PeriodInv
  <2> QED
    BY <1>0, <1>1, <2>1 DEF CallbackBegin, PeriodInv
<1>2. CASE CallbackGate
  BY <1>0, <1>2, PlaybackAssumption DEF CallbackGate, PeriodInv, cursorVars
<1>3. CASE CallbackTake
  <2>1. /\ cpc = "loop" /\ current = NoChunk /\ full # <<>> /\ cepoch = epoch
        /\ written \in Nat /\ ~(written > 0) /\ pass = "none"
    BY <1>3, PlaybackAssumption DEF CallbackTake, PeriodInv, IInv, TypeOK
  <2>2. UNCHANGED <<cpc, cepoch, written, epoch, pass, drained>> /\ full' = Tail(full)
    BY <1>3 DEF CallbackTake, DiscardChunk, NextChunk
  <2>3. CASE current' = NoChunk
    BY <2>1, <2>2, <2>3 DEF PeriodInv
  <2>4. CASE current' # NoChunk
    <3>1. current' = Head(full) /\ Head(full).epoch = epoch
      BY <1>3, <2>1, <2>4 DEF CallbackTake
    <3>2. /\ Head(full) = full[1] /\ Len(full) > 0 /\ Len(full') = Len(full) - 1
          /\ \A i \in 1 .. Len(full) - 1 : full'[i] = full[i + 1]
      BY <2>1, <2>2, QueueFacts, TakesOne
    <3>3. \A i \in 1 .. Len(full) : full[i].epoch = epoch
      <4> SUFFICES ASSUME NEW i \in 1 .. Len(full)
                   PROVE  full[i].epoch = epoch
        OBVIOUS
      <4>1. 1 \in 1 .. Len(full) /\ Len(full) \in Nat
        BY <3>2, QueueFacts
      <4>2. i = 1 \/ full[1].epoch <= full[i].epoch
        BY <4>1, QueueFacts
      <4>3. full[i] \in Chunk /\ full[i].epoch <= epoch
        BY <1>0, QueueFacts
      <4>4. full[i].epoch \in Int /\ epoch \in Int
        <5>1. \A k \in Chunk : k.epoch \in Int
          BY PlaybackAssumption DEF Chunk
        <5>2. epoch \in Int
          BY PlaybackAssumption DEF IInv, TypeOK
        <5> QED
          BY <4>3, <5>1, <5>2
      <4> QED
        BY <3>1, <3>2, <4>2, <4>3, <4>4
    <3>4. \A i \in 1 .. Len(full') : full'[i].epoch = epoch
      <4>1. \A i \in 1 .. Len(full') : i + 1 \in 1 .. Len(full) /\ full'[i] = full[i + 1]
        BY <3>2, QueueFacts
      <4> QED
        BY <3>3, <4>1
    <3>5. Whole(Head(full))
      BY <3>2, QueueFacts DEF WholeInv
    <3>6. Fresh' /\ Whole(current')
      BY <2>2, <3>1, <3>4, <3>5 DEF Fresh
    <3> QED
      BY <2>1, <2>2, <3>6 DEF PeriodInv, Whole
  <2> QED
    BY <2>3, <2>4
<1>4. CASE CallbackDry
  BY <1>0, <1>4 DEF CallbackDry, PeriodInv, queueVars, cursorVars
<1>5. CASE CallbackJudge
  BY <1>0, <1>5 DEF CallbackJudge, PeriodInv, queueVars, cursorVars
<1>6. CASE CallbackEnd
  BY <1>0, <1>6 DEF CallbackEnd, PeriodInv, queueVars
<1>7. CASE CallbackCopy
  <2>1. /\ cepoch' = cepoch /\ cepoch = epoch
        /\ cpc' = "loop" => pass' = "none"
    BY <1>7 DEF CallbackCopy, PeriodInv
  <2>2. /\ current' = NoChunk /\ full' = full
        /\ cpc' \in {"idle", "loop"} /\ (cpc' = "loop" => full = <<>>)
    BY <1>0, <1>7, CopyUsesUp
  <2> QED
    BY <1>0, <2>1, <2>2 DEF PeriodInv
<1> QED
  BY <1>0, <1>1, <1>2, <1>3, <1>4, <1>5, <1>6, <1>7 DEF Callback

LEMMA GapPlayed ==
  ASSUME IInv, WholeInv, TurnInv, PeriodInv, GapInv, RenderPlay
  PROVE  GapInv'
<1>0. /\ turn = "play" /\ fepoch = epoch /\ Callback /\ UNCHANGED <<epoch, fepoch>>
      /\ turn' = IF cpc' # "idle" THEN "play" ELSE IF ended' THEN "over" ELSE "cues"
      /\ gaps' = IF CallbackJudge /\ pass' = "underrun"
                 THEN [gaps EXCEPT ![cepoch] = Lesser(gaps[cepoch] + 1, 2)] ELSE gaps
  BY CallbackAside DEF RenderPlay, TurnInv
<1>a. /\ epoch \in 0 .. MaxSeeks /\ gaps \in [0 .. MaxSeeks -> 0 .. 1] /\ MaxSeeks \in Nat
      /\ gaps[0] = 0 /\ \A e \in 0 .. MaxSeeks : e > epoch => gaps[e] = 0
  BY PlaybackAssumption DEF GapInv, IInv, TypeOK
<1> DEFINE Served == /\ Ready /\ cpc \in {"idle", "gate", "loop"}
                     /\ cpc = "loop" => written = 0
           Waits == Settled /\ drained # epoch => Served
<1>b. Waits /\ (Settled => Fresh)
  BY <1>0 DEF GapInv
<1>c. ASSUME gaps' = gaps, Settled => Fresh', cpc' = "idle" \/ Waits'
      PROVE  GapInv'
  <2>1. Settled' <=> Settled
    BY <1>0, <1>c DEF Settled
  <2>2. cpc' = "idle" => turn' # "play"
    BY <1>0
  <2> QED
    BY <1>0, <1>a, <1>c, <2>1, <2>2 DEF GapInv
<1> HIDE DEF Waits, Served
<1>1. CASE CallbackBegin
  <2>1. current = NoChunk /\ UNCHANGED <<full, current, drained, epoch>>
        /\ written' = 0 /\ cpc' = "gate" /\ gaps' = gaps
    BY <1>0, <1>1 DEF CallbackBegin, PeriodInv, CallbackJudge
  <2>2. (Fresh' <=> Fresh) /\ (Ready' <=> Ready) /\ (Settled' <=> Settled)
    BY <2>1 DEF Fresh, Ready, Settled
  <2> QED
    BY <1>b, <1>c, <2>1, <2>2 DEF Waits, Served
<1>2. CASE CallbackGate
  <2>1. /\ UNCHANGED <<full, current, drained, epoch, written>> /\ written = 0
        /\ cpc' \in {"idle", "loop"} /\ gaps' = gaps
    BY <1>0, <1>2 DEF CallbackGate, PeriodInv, CallbackJudge
  <2>2. (Fresh' <=> Fresh) /\ (Ready' <=> Ready) /\ (Settled' <=> Settled)
    BY <2>1 DEF Fresh, Ready, Settled
  <2> QED
    BY <1>b, <1>c, <2>1, <2>2 DEF Waits, Served
<1>3. CASE CallbackTake
  <2>1. /\ cpc = "loop" /\ current = NoChunk /\ full # <<>> /\ cepoch = epoch
        /\ UNCHANGED <<cpc, drained, epoch, written, gaps>> /\ full' = Tail(full)
    BY <1>0, <1>3 DEF CallbackTake, PeriodInv, CallbackJudge, DiscardChunk, NextChunk
  <2>2. /\ Head(full) = full[1] /\ Len(full) > 0 /\ Len(full') = Len(full) - 1
        /\ \A i \in 1 .. Len(full) - 1 : full'[i] = full[i + 1]
        /\ Head(full) \in Chunk
    BY <2>1, QueueFacts, TakesOne
  <2>3. ASSUME Settled
        PROVE  Fresh' /\ current' = Head(full)
    <3>1. \A i \in 1 .. Len(full) : full[i].epoch = epoch
      BY <1>b, <2>3 DEF Fresh
    <3>2. 1 \in 1 .. Len(full)
          /\ \A i \in 1 .. Len(full') : i + 1 \in 1 .. Len(full) /\ full'[i] = full[i + 1]
      BY <2>2, QueueFacts
    <3>3. Head(full).epoch = epoch
      BY <2>2, <3>1, <3>2
    <3>4. current' = Head(full)
      BY <1>3, <2>1, <3>3 DEF CallbackTake
    <3>5. \A i \in 1 .. Len(full') : full'[i].epoch = epoch
      BY <3>1, <3>2
    <3> QED
      BY <2>1, <3>3, <3>4, <3>5 DEF Fresh
  <2>4. ASSUME Settled, drained # epoch
        PROVE  Served'
    <3>1. full[1].len = ChunkFrames /\ written = 0
      BY <1>b, <2>1, <2>4 DEF Waits, Served, Ready
    <3>2. current' # NoChunk /\ current'.len = ChunkFrames
      BY <2>2, <2>3, <2>4, <3>1, NoChunkIsNone
    <3> QED
      BY <2>1, <3>1, <3>2 DEF Served, Ready
  <2>5. Settled' <=> Settled
    BY <2>1 DEF Settled
  <2> QED
    BY <1>c, <2>1, <2>3, <2>4, <2>5 DEF Waits
<1>4. CASE CallbackDry
  <2>1. /\ UNCHANGED <<full, current, drained, epoch>>
        /\ current = NoChunk /\ full = <<>> /\ gaps' = gaps
    BY <1>0, <1>4 DEF CallbackDry, CallbackJudge
  <2>2. (Fresh' <=> Fresh) /\ ~Ready /\ (Settled' <=> Settled)
    BY <2>1 DEF Fresh, Ready, Settled
  <2> QED
    BY <1>b, <1>c, <2>1, <2>2 DEF Waits, Served
<1>5. CASE CallbackJudge
  <2>1. /\ UNCHANGED <<full, current, drained, epoch>> /\ cpc = "dry" /\ cepoch = epoch
        /\ current = NoChunk /\ full = <<>>
        /\ IF drained = epoch THEN cpc' = "end" /\ pass' = pass
           ELSE cpc' = "idle" /\ pass' = "underrun"
    BY <1>0, <1>5 DEF CallbackJudge, PeriodInv
  <2>2. Fresh'
    BY <2>1 DEF Fresh
  <2>3. CASE gaps' = gaps
    <3>1. Settled' <=> Settled
      BY <2>1, <2>3 DEF Settled
    <3> QED
      BY <1>c, <2>1, <2>2, <2>3, <3>1 DEF Waits
  <2>4. CASE gaps' # gaps
    <3>1. /\ gaps' = [gaps EXCEPT ![epoch] = Lesser(gaps[epoch] + 1, 2)]
          /\ pass' = "underrun"
      BY <1>0, <2>1, <2>4
    <3>2. CASE drained = epoch
      BY <2>1, <3>1, <3>2 DEF PeriodInv
    <3>3. CASE drained # epoch
      <4>1. ~Settled
        BY <1>b, <2>1, <3>3 DEF Waits, Served
      <4>2. gaps[epoch] = 0 /\ epoch # 0
        BY <1>a, <4>1 DEF Settled
      <4>3. gaps' = [gaps EXCEPT ![epoch] = 1]
        BY <3>1, <4>2 DEF Lesser
      <4>4. /\ gaps' \in [0 .. MaxSeeks -> 0 .. 1] /\ gaps'[0] = 0
            /\ \A e \in 0 .. MaxSeeks : e > epoch => gaps'[e] = 0
        BY <1>a, <4>2, <4>3
      <4>5. turn' # "play"
        BY <1>0, <2>1, <3>3
      <4> QED
        BY <2>1, <2>2, <4>4, <4>5 DEF GapInv
    <3> QED
      BY <3>2, <3>3
  <2> QED
    BY <2>3, <2>4
<1>6. CASE CallbackEnd
  <2>1. UNCHANGED <<full, current, epoch>> /\ cpc' = "idle" /\ gaps' = gaps
    BY <1>0, <1>6 DEF CallbackEnd, CallbackJudge
  <2>2. Fresh' <=> Fresh
    BY <2>1 DEF Fresh
  <2> QED
    BY <1>b, <1>c, <2>1, <2>2
<1>7. CASE CallbackCopy
  <2>1. /\ current' = NoChunk /\ full' = full /\ cpc = "loop" /\ UNCHANGED <<drained, epoch>>
        /\ cpc' = IF current.len = ChunkFrames THEN "idle" ELSE "loop"
        /\ current # NoChunk /\ gaps' = gaps
    BY <1>0, <1>7, CopyUsesUp DEF CallbackCopy, CallbackJudge
  <2>2. Fresh => Fresh'
    BY <2>1 DEF Fresh
  <2>3. Settled /\ drained # epoch => current.len = ChunkFrames
    BY <1>b, <2>1 DEF Waits, Served, Ready
  <2>4. Settled' <=> Settled
    BY <2>1 DEF Settled
  <2>5. cpc' = "idle" \/ Waits'
    BY <2>1, <2>3, <2>4 DEF Waits
  <2> QED
    BY <1>b, <1>c, <2>1, <2>2, <2>5
<1> QED
  BY <1>0, <1>1, <1>2, <1>3, <1>4, <1>5, <1>6, <1>7 DEF Callback


LEMMA RenderStarts ==
  ASSUME RenderInit
  PROVE  RenderInv
<1>1. Init /\ turn = "cues" /\ gaps = [e \in 0 .. MaxSeeks |-> 0]
  BY DEF RenderInit
<1>2. /\ full = <<>> /\ Len(full) = 0 /\ filled = NoChunk /\ current = NoChunk
      /\ fpc = "start" /\ fepoch = 0 /\ epoch = 0 /\ tpc = "idle" /\ cpc = "idle"
  BY <1>1 DEF Init, QueueInit
<1>3. IInv
  BY <1>1, Starts
<1>4. WholeInv /\ TurnInv /\ PeriodInv
  BY <1>1, <1>2 DEF WholeInv, TurnInv, PeriodInv
<1>5. GapInv
  BY <1>1, <1>2, PlaybackAssumption DEF GapInv, Settled, Fresh
<1> QED
  BY <1>3, <1>4, <1>5 DEF RenderInv

(***************************************************************************)
(* Cues: between a period and the next, seeks only move the epoch on.      *)
(***************************************************************************)
LEMMA CuesKeep ==
  ASSUME RenderInv, RenderStart \/ RenderCue \/ RenderStop \/ RenderFeed \/ RenderOver
  PROVE  PeriodInv' /\ GapInv'
<1> USE DEF RenderInv
<1>0. /\ epoch \in Nat /\ gaps \in [0 .. MaxSeeks -> 0 .. 1] /\ MaxSeeks \in Nat
      /\ epoch < MaxSeeks \/ tpc # "epoch"
  BY PlaybackAssumption DEF GapInv, IInv, TypeOK, HandsInv
<1>1. CASE RenderOver
  BY <1>1 DEF RenderOver, vars, renderVars, PeriodInv, GapInv, Settled, Fresh, Ready, Whole
<1>2. CASE RenderStop \/ RenderFeed
  <2>1. UNCHANGED vars /\ gaps' = gaps /\ turn' # "play"
    BY <1>2 DEF RenderStop, RenderFeed
  <2> QED
    BY <2>1 DEF vars, PeriodInv, GapInv, Settled, Fresh, Whole
<1>3. CASE RenderStart \/ RenderCue
  <2>1. UNCHANGED <<queueVars, feederVars, callbackVars, heard, turn, gaps>> /\ turn = "cues"
    BY <1>3, TransportAside DEF RenderStart, RenderCue, renderVars, Operator, Transport
  <2>2. epoch' = epoch \/ (epoch' = epoch + 1 /\ tpc = "epoch")
    BY <1>3 DEF RenderStart, RenderCue, Play, SetPlaying, Seek, SkipForward, SkipBack,
       BeginSeek, SeekStoreFrame, SeekClearDrained, SeekClearEnded, SeekBumpEpoch, cursorVars
  <2>3. cpc = "idle" /\ current = NoChunk
    BY <2>1 DEF TurnInv, PeriodInv
  <2>4. PeriodInv'
    BY <2>1, <2>3 DEF PeriodInv
  <2>5. CASE epoch' = epoch
    BY <2>1, <2>4, <2>5 DEF GapInv, Settled, Fresh
  <2>6. CASE epoch' = epoch + 1 /\ tpc = "epoch"
    <3>1. epoch + 1 \in 0 .. MaxSeeks /\ epoch + 1 > epoch
      BY <1>0, <2>6
    <3>2. gaps[epoch + 1] = 0
      BY <3>1 DEF GapInv
    <3>3. ~Settled'
      BY <1>0, <2>1, <2>6, <3>2 DEF Settled
    <3>4. \A e \in 0 .. MaxSeeks : e > epoch' => gaps'[e] = 0
      BY <1>0, <2>1, <2>6 DEF GapInv
    <3>5. turn' # "play" /\ gaps' = gaps
      BY <2>1
    <3>6. GapInv'
      BY <3>3, <3>4, <3>5 DEF GapInv
    <3> QED
      BY <2>4, <3>6
  <2> QED
    BY <2>2, <2>4, <2>5, <2>6
<1> QED
  BY <1>1, <1>2, <1>3

(***************************************************************************)
(* The feeder's turn ends with every buffer in the queue, or with the span *)
(* read out.                                                               *)
(***************************************************************************)
LEMMA FedKeeps ==
  ASSUME RenderInv, RenderStep
  PROVE  PeriodInv' /\ GapInv'
<1> USE DEF RenderInv
<1>0. /\ turn = "feed" /\ Feeder /\ UNCHANGED <<frame, epoch, tpc, callbackVars, heard, gaps>>
      /\ turn' = IF FeederFull \/ FeederMarkDrained THEN "play" ELSE "feed"
  BY FeederAside DEF RenderStep
<1>1. cpc = "idle" /\ current = NoChunk
  BY <1>0 DEF TurnInv, PeriodInv
<1>2. PeriodInv'
  BY <1>0, <1>1 DEF PeriodInv
<1>3. Settled' <=> Settled
  BY <1>0 DEF Settled
<1>4. Fresh => Fresh'
  <2>1. CASE full' = full
    BY <1>0, <1>1, <2>1 DEF Fresh
  <2>2. CASE FeederSend
    <3>1. full' = Append(full, filled) /\ filled \in Chunk /\ filled.epoch = epoch
      BY <1>0, <2>2 DEF FeederSend, SendChunk, IInv, TypeOK, HandsInv, TurnInv
    <3>2. /\ Len(full') = Len(full) + 1 /\ Len(full) \in Nat
          /\ \A i \in 1 .. Len(full) : full'[i] = full[i]
          /\ full'[Len(full) + 1] = filled
      BY <3>1, AppendsOne, QueueFacts
    <3>3. \A i \in 1 .. Len(full') : i = Len(full) + 1 \/ i \in 1 .. Len(full)
      BY <3>2
    <3> QED
      BY <1>0, <1>1, <3>1, <3>2, <3>3 DEF Fresh
  <2>3. full' = full \/ FeederSend
    BY <1>0 DEF Feeder, FeederCannotOpen, FeederStart, FeederOpen, FeederLook, FeederSeek,
       FeederFull, FeederFill, FeederReadOut, FeederRefuse, FeederMarkDrained, CollectOnly,
       ReleaseReserve, TakeChunk, queueVars
  <2> QED
    BY <2>1, <2>2, <2>3
<1>5. ASSUME Settled, turn' = "play", drained' # epoch
      PROVE  Ready'
  <2>1. FeederFull
    BY <1>0, <1>5 DEF FeederMarkDrained, TurnInv
  <2>2. /\ ~CanTake /\ fpc = "take" /\ full' = full
    BY <2>1 DEF FeederFull, CollectOnly
  <2>3. filled = NoChunk
    BY <2>2 DEF IInv, HandsInv
  <2>4. spare = 0 /\ spent = 0
    <3>1. spare \in Nat /\ spent \in Nat
      BY QueueAssumption DEF IInv, TypeOK
    <3>2. Reserve = 0
      BY QueueAssumption, RenderAssumption DEF Reserve
    <3> QED
      BY <2>2, <3>1, <3>2 DEF CanTake, Pool
  <2>5. Fresh
    BY <1>5 DEF GapInv
  <2>6. Ready
    BY <1>1, <2>3, <2>4, <2>5, FullIsReady
  <2> QED
    BY <1>0, <2>2, <2>6 DEF Ready
<1>6. GapInv'
  BY <1>0, <1>1, <1>3, <1>4, <1>5 DEF GapInv
<1> QED
  BY <1>2, <1>6

LEMMA RenderKept ==
  ASSUME RenderInv, [RenderNext]_<<vars, renderVars>>
  PROVE  RenderInv'
<1> USE DEF RenderInv
<1>1. CASE UNCHANGED <<vars, renderVars>>
  <2>1. IInv' /\ WholeInv'
    BY <1>1, InvKept, WholeKept
  <2>2. TurnInv'
    BY <1>1 DEF TurnInv, vars, renderVars
  <2>3. Fresh' <=> Fresh
    BY <1>1 DEF Fresh, vars
  <2>4. PeriodInv'
    BY <1>1, <2>3 DEF PeriodInv, Whole, vars
  <2>5. (Settled' <=> Settled) /\ (Ready' <=> Ready)
    BY <1>1 DEF Settled, Ready, vars, renderVars
  <2>6. GapInv'
    BY <1>1, <2>3, <2>5 DEF GapInv, vars, renderVars
  <2> QED
    BY <2>1, <2>2, <2>4, <2>6
<1>2. CASE RenderNext
  <2>1. IInv' /\ WholeInv' /\ TurnInv'
    BY <1>2, RenderMoves, InvKept, WholeKept, TurnKept DEF IInv
  <2>2. PeriodInv' /\ GapInv'
    BY <1>2, CuesKeep, FedKeeps, PeriodPlayed, GapPlayed DEF RenderNext
  <2> QED
    BY <2>1, <2>2
<1> QED
  BY <1>1, <1>2

THEOREM RenderInvariant == RenderSpec => []RenderInv
<1> QED
  BY RenderStarts, RenderKept, PTL DEF RenderSpec

(***************************************************************************)
(* render(): "the only thing that can starve is a seek, which costs        *)
(* exactly one period", whatever the queue's depth, the length of a chunk, *)
(* the span and its holes, and wherever and however often the cues seek.   *)
(***************************************************************************)
THEOREM StarvesOnce == RenderSpec => []StarvesOncePerSeek
<1>1. RenderInv => StarvesOncePerSeek
  BY PlaybackAssumption DEF RenderInv, GapInv, StarvesOncePerSeek
<1> QED
  BY <1>1, RenderInvariant, PTL


----------------------------------------------------------------------------
(* What a render gives is exact.                                           *)

(***************************************************************************)
(* Until the first piece of an epoch is heard, the playhead is where its   *)
(* seek aimed, and so is the first piece of it in the line.                *)
(***************************************************************************)
AimInv ==
  /\ tpc \in {"drained", "ended", "epoch"} => frame = landing
  /\ heard.epoch < epoch /\ fpc # "unopened" =>
       /\ tpc = "idle" => frame = aimed[epoch]
       /\ IF current = NoChunk THEN GoesOn(Line, LineLen, epoch, aimed[epoch])
          ELSE current.start = aimed[epoch]

(***************************************************************************)
(* The drained mark of the present epoch says that its span is read out,   *)
(* and a render that is over has played it out.                            *)
(***************************************************************************)
DrainInv ==
  /\ drained <= fepoch
  /\ tpc \in {"ended", "epoch"} => drained # epoch
  /\ drained = epoch /\ fpc # "failed" =>
       position = SpanEnd /\ fepoch = epoch /\ fpc \notin {"start", "open", "seek"}
  /\ fpc = "drained" => position = SpanEnd
  /\ fpc \in {"start", "open"} => drained = NotDrained
  /\ cpc = "end" => heard.epoch = epoch /\ heard.to = SpanEnd
  /\ ended => turn = "over"
  /\ PlayedOut

ExactInv == RenderInv /\ AimInv /\ DrainInv

LEMMA ExactStarts ==
  ASSUME RenderInit
  PROVE  ExactInv
<1>1. RenderInv
  BY RenderStarts
<1>2. /\ Init /\ turn = "cues" /\ full = <<>> /\ Len(full) = 0 /\ filled = NoChunk
      /\ current = NoChunk /\ fpc = "start" /\ fepoch = 0 /\ epoch = 0 /\ tpc = "idle"
      /\ cpc = "idle" /\ frame = SpanStart /\ aimed[epoch] = SpanStart
      /\ drained = NotDrained /\ ended = FALSE
  BY PlaybackAssumption DEF RenderInit, Init, QueueInit
<1>3. LineLen = 0
  BY <1>2 DEF LineLen, Waiting, InHand
<1>4. AimInv
  BY <1>2, <1>3 DEF AimInv, GoesOn
<1>5. DrainInv
  BY <1>2 DEF DrainInv, NotDrained, PlayedOut
<1> QED
  BY <1>1, <1>4, <1>5 DEF ExactInv

(***************************************************************************)
(* Cues: the new epoch's first piece is nowhere yet, so its seek is free   *)
(* to aim it.                                                              *)
(***************************************************************************)
LEMMA CuesAim ==
  ASSUME ExactInv, RenderStart \/ RenderCue \/ RenderStop \/ RenderFeed \/ RenderOver
  PROVE  AimInv'
<1> USE DEF ExactInv, RenderInv
<1>0. /\ epoch \in Nat /\ fepoch \in Nat /\ heard.epoch \in Int /\ heard.epoch <= fepoch
      /\ fepoch <= epoch /\ aimed \in [0 .. MaxSeeks -> SpanStart .. SpanEnd - 1]
      /\ MaxSeeks \in Nat
  BY PlaybackAssumption DEF IInv, TypeOK, EpochInv
<1>1. CASE RenderStop \/ RenderFeed \/ RenderOver
  <2>1. UNCHANGED vars
    BY <1>1 DEF RenderStop, RenderFeed, RenderOver
  <2>2. Line' = Line /\ LineLen' = LineLen
    BY <2>1, LineUnmoved DEF vars
  <2> QED
    BY <2>1, <2>2 DEF AimInv, vars
<1>2. CASE RenderStart \/ RenderCue
  <2>1. UNCHANGED <<queueVars, feederVars, callbackVars, heard>> /\ turn = "cues"
    BY <1>2, TransportAside DEF RenderStart, RenderCue, Operator, Transport
  <2>2. Line' = Line /\ LineLen' = LineLen
    BY <2>1, LineUnmoved
  <2>3. current = NoChunk
    BY <2>1 DEF TurnInv, PeriodInv
  <2>4. CASE SeekBumpEpoch
    <3>1. /\ epoch' = epoch + 1 /\ frame' = frame /\ frame = landing
          /\ aimed' = [aimed EXCEPT ![epoch + 1] = landing] /\ tpc' = "idle"
          /\ epoch + 1 \in 0 .. MaxSeeks
      BY <1>0, <2>4 DEF SeekBumpEpoch, AimInv, IInv, HandsInv
    <3>2. aimed'[epoch'] = landing
      BY <1>0, <3>1
    <3>3. \A i \in 1 .. LineLen : Line[i].epoch # epoch'
      <4>1. \A i \in 1 .. LineLen : Line[i].epoch \in Nat /\ Line[i].epoch <= fepoch
        <5> SUFFICES ASSUME NEW i \in 1 .. LineLen
                     PROVE  Piece(i).epoch \in Nat /\ Piece(i).epoch <= fepoch
          BY LinePieces
        <5>1. Len(full) \in Nat /\ LineLen \in Nat /\ Waiting \in Nat
              /\ (filled = NoChunk => Waiting = Len(full))
              /\ Piece(i).epoch \in Nat
          BY LinePieces
        <5>2. i <= Len(full) => i \in 1 .. Len(full)
          BY <5>1
        <5>3. ~(i <= Len(full)) /\ i <= Waiting => filled.epoch = fepoch
          BY <5>1 DEF IInv, HandsInv
        <5> QED
          BY <1>0, <5>1, <5>2, <5>3 DEF Piece, IInv, EpochInv
      <4> QED
        BY <1>0, <3>1, <4>1
    <3>4. GoesOn(Line', LineLen', epoch', aimed'[epoch'])
      BY <2>2, <3>3 DEF GoesOn
    <3> QED
      BY <2>1, <2>3, <3>1, <3>2, <3>4 DEF AimInv
  <2>5. CASE ~SeekBumpEpoch
    <3>1. /\ UNCHANGED <<epoch, aimed>>
          /\ tpc' = "idle" => tpc = "idle" /\ frame' = frame
          /\ tpc' \in {"drained", "ended", "epoch"} => frame' = landing' 
      BY <1>2, <2>5 DEF RenderStart, RenderCue, Play, SetPlaying, Seek, SkipForward, SkipBack,
         BeginSeek, SeekStoreFrame, SeekClearDrained, SeekClearEnded, AimInv
    <3> QED
      BY <2>1, <2>2, <2>3, <3>1 DEF AimInv
  <2> QED
    BY <2>4, <2>5
<1> QED
  BY <1>1, <1>2

(***************************************************************************)
(* The feeder takes up its place in a new epoch at the playhead, which is  *)
(* where the seek aimed.                                                   *)
(***************************************************************************)
LEMMA FedAims ==
  ASSUME ExactInv, RenderStep
  PROVE  AimInv'
<1> USE DEF ExactInv, RenderInv
<1>1. /\ turn = "feed" /\ Feeder /\ tpc = "idle" /\ current = NoChunk
      /\ UNCHANGED <<frame, epoch, tpc, callbackVars, heard, aimed>>
  BY FeederAside DEF RenderStep, TurnInv, PeriodInv, Feeder, FeederCannotOpen, FeederStart,
     FeederOpen, FeederLook, FeederSeek, FeederFull, FeederFill, FeederReadOut, FeederRefuse,
     FeederSend, FeederMarkDrained
<1> SUFFICES ASSUME heard.epoch < epoch, fpc' # "unopened"
             PROVE  /\ frame' = aimed[epoch]
                    /\ GoesOn(Line', LineLen', epoch, aimed[epoch])
  BY <1>1 DEF AimInv
<1>2. fpc # "unopened"
  BY <1>1 DEF Feeder, FeederCannotOpen, FeederStart, FeederOpen, FeederLook, FeederSeek,
     FeederFull, FeederFill, FeederReadOut, FeederRefuse, FeederSend, FeederMarkDrained
<1>3. frame = aimed[epoch] /\ GoesOn(Line, LineLen, epoch, aimed[epoch])
  BY <1>1, <1>2 DEF AimInv
<1>4. CASE ~(Starting /\ epoch = fepoch')
  BY <1>1, <1>3, <1>4, FedLine
<1>5. CASE Starting /\ epoch = fepoch'
  <2>1. CASE FeederOpen \/ FeederSeek
    <3>1. position' = Clamp(frame, SpanStart, SpanEnd) /\ frame \in SpanStart .. SpanEnd
      BY <2>1 DEF FeederOpen, FeederSeek, IInv, TypeOK
    <3>2. position' = frame
      BY <3>1, PlaybackAssumption DEF Clamp
    <3> QED
      BY <1>1, <1>3, <1>5, <2>1, <3>2, FedLine
  <2>2. CASE FeederStart
    <3>1. full' = <<>> /\ filled' = NoChunk /\ fpc' = "open" /\ Len(full') = 0
      BY <2>2 DEF FeederStart, IInv, EpochInv, HandsInv
    <3>2. LineLen' = 0
      BY <3>1 DEF LineLen, Waiting, InHand
    <3> QED
      BY <1>1, <1>3, <3>2 DEF GoesOn
  <2> QED
    BY <1>1, <1>5, <2>1, <2>2 DEF Starting, Feeder, FeederCannotOpen, FeederLook, FeederFull,
       FeederFill, FeederReadOut, FeederRefuse, FeederSend, FeederMarkDrained
<1> QED
  BY <1>4, <1>5

(***************************************************************************)
(* The callback takes the first piece of the epoch as it is, and copies    *)
(* from its start.                                                         *)
(***************************************************************************)
LEMMA PlayedAims ==
  ASSUME ExactInv, RenderPlay
  PROVE  AimInv'
<1> USE DEF ExactInv, RenderInv
<1>1. /\ turn = "play" /\ Callback /\ tpc = "idle" /\ fpc = "look" /\ fepoch = epoch
      /\ UNCHANGED <<epoch, tpc, feederVars, aimed>>
  BY CallbackAside DEF RenderPlay, TurnInv, FeederGone, Callback, CallbackBegin, CallbackGate,
     CallbackTake, CallbackDry, CallbackJudge, CallbackEnd, CallbackCopy
<1>2. CASE CallbackCopy
  <2>1. heard'.epoch = epoch
    <3>1. current.epoch = cepoch /\ cepoch = epoch
      BY <1>2 DEF CallbackCopy, PeriodInv, IInv, EpochInv
    <3> QED
      BY <1>2, <3>1 DEF CallbackCopy
  <2>2. epoch \in Int
    BY PlaybackAssumption DEF IInv, TypeOK
  <2> QED
    BY <1>1, <2>1, <2>2 DEF AimInv
<1>3. CASE CallbackTake
  <2>1. cepoch = epoch /\ frame' = frame /\ full \in Seq(Chunk)
    BY <1>3 DEF CallbackTake, PeriodInv, IInv, TypeOK
  <2> SUFFICES ASSUME heard.epoch < epoch
               PROVE  IF current' = NoChunk
                        THEN GoesOn(Line', LineLen', epoch, aimed[epoch])
                        ELSE current'.start = aimed[epoch]
    BY <1>1, <1>3, <2>1, LineTaken DEF AimInv
  <2>2. GoesOn(Line, LineLen, epoch, aimed[epoch]) /\ 1 \in 1 .. LineLen
    BY <1>1, <1>3, LineTaken DEF AimInv
  <2>3. CASE full[1].epoch = cepoch
    <3>1. current' = full[1] /\ full[1] \in Chunk
      BY <1>3, <2>1, <2>3, LineTaken, TakesOne
    <3> QED
      BY <1>3, <2>1, <2>2, <2>3, <3>1, LineTaken, NoChunkIsNone DEF GoesOn
  <2>4. CASE full[1].epoch # cepoch
    BY <1>3, <2>1, <2>2, <2>4, LineTaken
  <2> QED
    BY <2>3, <2>4
<1>4. CASE CallbackBegin \/ CallbackGate \/ CallbackDry \/ CallbackJudge \/ CallbackEnd
  <2>1. UNCHANGED <<full, current, heard, frame>>
    BY <1>4 DEF CallbackBegin, CallbackGate, CallbackDry, CallbackJudge, CallbackEnd, PeriodInv
  <2>2. Line' = Line /\ LineLen' = LineLen
    BY <1>1, <2>1, LineUnmoved
  <2> QED
    BY <1>1, <2>1, <2>2 DEF AimInv
<1> QED
  BY <1>1, <1>2, <1>3, <1>4 DEF Callback

(***************************************************************************)
(* The drained mark: the seek takes it back before the epoch is the new    *)
(* one, and only a feeder of the present epoch sets it.                    *)
(***************************************************************************)
LEMMA CuesDrain ==
  ASSUME ExactInv, RenderStart \/ RenderCue \/ RenderStop \/ RenderFeed \/ RenderOver
  PROVE  DrainInv'
<1> USE DEF ExactInv, RenderInv
<1>0. /\ epoch \in Nat /\ fepoch \in Nat /\ drained \in Int /\ NotDrained = -1
      /\ fepoch <= epoch
  BY PlaybackAssumption DEF IInv, TypeOK, EpochInv, NotDrained
<1>1. CASE RenderOver
  BY <1>1 DEF RenderOver, vars, renderVars, DrainInv, PlayedOut
<1>2. CASE RenderStop \/ RenderFeed
  BY <1>2 DEF RenderStop, RenderFeed, vars, DrainInv, PlayedOut
<1>3. CASE RenderStart \/ RenderCue
  <2>1. /\ UNCHANGED <<queueVars, feederVars, callbackVars, heard, turn>> /\ turn = "cues"
        /\ cpc = "idle"
    BY <1>3, TransportAside DEF RenderStart, RenderCue, Operator, Transport, renderVars, TurnInv
  <2>2. CASE SeekBumpEpoch
    BY <1>0, <2>1, <2>2 DEF SeekBumpEpoch, DrainInv, PlayedOut
  <2>3. CASE SeekClearDrained
    BY <1>0, <2>1, <2>3 DEF SeekClearDrained, DrainInv, PlayedOut
  <2>4. CASE ~SeekBumpEpoch /\ ~SeekClearDrained
    <3>1. /\ UNCHANGED <<epoch, drained>>
          /\ tpc' \in {"ended", "epoch"} => tpc \in {"ended", "epoch"}
          /\ ended' = ended \/ ended' = FALSE
      BY <1>3, <2>4 DEF RenderStart, RenderCue, Play, SetPlaying, Seek, SkipForward, SkipBack,
         BeginSeek, SeekStoreFrame, SeekClearEnded
    <3> QED
      BY <2>1, <3>1 DEF DrainInv, PlayedOut
  <2> QED
    BY <2>2, <2>3, <2>4
<1> QED
  BY <1>1, <1>2, <1>3

LEMMA FedDrains ==
  ASSUME ExactInv, RenderStep
  PROVE  DrainInv'
<1> USE DEF ExactInv, RenderInv
<1>0. /\ epoch \in Nat /\ fepoch \in Nat /\ drained \in Int /\ NotDrained = -1
      /\ fepoch <= epoch /\ position \in SpanStart .. SpanEnd
      /\ SpanStart \in Int /\ SpanEnd \in Int
  BY PlaybackAssumption DEF IInv, TypeOK, EpochInv, NotDrained
<1>1. /\ turn = "feed" /\ turn' # "over" /\ Feeder /\ tpc = "idle" /\ cpc = "idle" /\ ~ended
      /\ UNCHANGED <<epoch, tpc, ended, callbackVars, heard>>
  BY FeederAside DEF RenderStep, TurnInv, DrainInv, Feeder, FeederCannotOpen, FeederStart,
     FeederOpen, FeederLook, FeederSeek, FeederFull, FeederFill, FeederReadOut, FeederRefuse,
     FeederSend, FeederMarkDrained
<1>2. CASE FeederMarkDrained
  <2>1. fepoch = epoch /\ drained' = fepoch /\ UNCHANGED <<fepoch, position>>
    BY <1>1, <1>2 DEF FeederMarkDrained, TurnInv
  <2> QED
    BY <1>0, <1>1, <1>2, <2>1 DEF FeederMarkDrained, DrainInv, PlayedOut
<1>3. CASE FeederCannotOpen \/ FeederStart \/ FeederOpen
  BY <1>0, <1>1, <1>3 DEF FeederCannotOpen, FeederStart, FeederOpen, DrainInv, PlayedOut
<1>4. CASE FeederLook \/ FeederSeek
  BY <1>0, <1>1, <1>4 DEF FeederLook, FeederSeek, DrainInv, PlayedOut
<1>5. CASE FeederFull \/ FeederReadOut \/ FeederRefuse \/ FeederSend
  BY <1>0, <1>1, <1>5 DEF FeederFull, FeederReadOut, FeederRefuse, FeederSend, DrainInv, PlayedOut
<1>6. CASE FeederFill
  <2>1. position < SpanEnd /\ drained' = drained /\ fpc = "take" /\ fpc' = "send"
        /\ fepoch' = fepoch
    BY <1>6 DEF FeederFill
  <2>2. drained # epoch
    BY <1>0, <2>1 DEF DrainInv
  <2> QED
    BY <1>0, <1>1, <2>1, <2>2 DEF DrainInv, PlayedOut
<1> QED
  BY <1>1, <1>2, <1>3, <1>4, <1>5, <1>6 DEF Feeder

(***************************************************************************)
(* A callback that finds the queue empty and the mark set finds the        *)
(* feeder's place at the end of the span, and what the device got last     *)
(* stops there.                                                            *)
(***************************************************************************)
LEMMA DryIsOut ==
  ASSUME ExactInv, cpc = "dry", drained = epoch, fpc = "look", fepoch = epoch, tpc = "idle"
  PROVE  heard.epoch = epoch /\ heard.to = SpanEnd
<1> USE DEF ExactInv, RenderInv
<1>1. /\ full = <<>> /\ Len(full) = 0 /\ current = NoChunk /\ cepoch = epoch
      /\ filled = NoChunk /\ position = SpanEnd
  BY DEF PeriodInv, DrainInv, IInv, HandsInv
<1>2. Waiting = 0 /\ LineLen = 1
  BY <1>1 DEF Waiting, InHand, LineLen
<1>3. Line[1].epoch = epoch /\ Line[1].start = SpanEnd
  BY <1>1, <1>2 DEF Line, Piece
<1>4. \A at : GoesOn(Line, LineLen, epoch, at) => at = SpanEnd
  BY <1>2, <1>3 DEF GoesOn
<1>5. /\ heard.epoch \in Int /\ epoch \in 0 .. MaxSeeks /\ heard.epoch <= epoch
      /\ aimed[epoch] \in SpanStart .. SpanEnd - 1 /\ SpanEnd \in Int /\ SpanStart \in Int
      /\ MaxSeeks \in Int
  BY <1>1, PlaybackAssumption DEF IInv, TypeOK, EpochInv
<1>6. aimed[epoch] # SpanEnd
  BY <1>5
<1>7. heard.epoch = epoch
  BY <1>1, <1>4, <1>5, <1>6 DEF AimInv
<1> QED
  BY <1>1, <1>4, <1>7 DEF IInv, LineInv

LEMMA PlayedDrains ==
  ASSUME ExactInv, RenderPlay
  PROVE  DrainInv'
<1> USE DEF ExactInv, RenderInv
<1>1. /\ turn = "play" /\ Callback /\ tpc = "idle" /\ fpc = "look" /\ fepoch = epoch /\ ~ended
      /\ UNCHANGED <<epoch, tpc, drained, feederVars>>
      /\ turn' = IF cpc' # "idle" THEN "play" ELSE IF ended' THEN "over" ELSE "cues"
  BY CallbackAside DEF RenderPlay, TurnInv, FeederGone, DrainInv, Callback, CallbackBegin,
     CallbackGate, CallbackTake, CallbackDry, CallbackJudge, CallbackEnd, CallbackCopy
<1>2. CASE CallbackEnd
  BY <1>1, <1>2 DEF CallbackEnd, DrainInv, PlayedOut
<1>3. CASE CallbackJudge
  <2>1. /\ cpc = "dry" /\ cpc' = IF drained = cepoch THEN "end" ELSE "idle"
        /\ UNCHANGED <<heard, ended>> /\ cepoch = epoch
    BY <1>3 DEF CallbackJudge, PeriodInv
  <2> QED
    BY <1>1, <2>1, DryIsOut DEF DrainInv, PlayedOut
<1>4. CASE CallbackBegin \/ CallbackGate \/ CallbackTake \/ CallbackDry \/ CallbackCopy
  <2>1. cpc' # "end" /\ ended' = ended
    BY <1>4 DEF CallbackBegin, CallbackGate, CallbackTake, CallbackDry, CallbackCopy
  <2> QED
    BY <1>1, <2>1 DEF DrainInv, PlayedOut
<1> QED
  BY <1>1, <1>2, <1>3, <1>4 DEF Callback

LEMMA ExactKept ==
  ASSUME ExactInv, [RenderNext]_<<vars, renderVars>>
  PROVE  ExactInv'
<1>1. RenderInv'
  BY RenderKept DEF ExactInv
<1>2. CASE UNCHANGED <<vars, renderVars>>
  <2>1. Line' = Line /\ LineLen' = LineLen
    BY <1>2, LineUnmoved DEF vars, ExactInv, RenderInv
  <2> QED
    BY <1>1, <1>2, <2>1 DEF ExactInv, AimInv, DrainInv, PlayedOut, vars, renderVars
<1>3. CASE RenderNext
  BY <1>1, <1>3, CuesAim, FedAims, PlayedAims, CuesDrain, FedDrains, PlayedDrains
     DEF RenderNext, ExactInv
<1> QED
  BY <1>2, <1>3

(***************************************************************************)
(* STATUS.md on a seek, "nothing repeated, nothing missing": in a render,  *)
(* the first piece heard after a seek starts where the seek aimed, and a   *)
(* render that ends by itself has played the end of the span in the epoch  *)
(* of its last seek.  These are RenderEnds without its liveness.           *)
(***************************************************************************)
THEOREM RenderIsExact == RenderSpec => JoinIsExact /\ []PlayedOut
<1>1. RenderInit => ExactInv
  BY ExactStarts
<1>2. ExactInv /\ [RenderNext]_<<vars, renderVars>> => ExactInv'
  BY ExactKept
<1>3. ExactInv => PlayedOut
  BY DEF ExactInv, DrainInv
<1>4. ExactInv /\ [RenderNext]_<<vars, renderVars>>
        => [heard'.epoch > heard.epoch => heard'.from = aimed[heard'.epoch]]_vars
  <2> SUFFICES ASSUME ExactInv, [RenderNext]_<<vars, renderVars>>, heard'.epoch > heard.epoch
               PROVE  heard'.from = aimed[heard'.epoch]
    OBVIOUS
  <2> USE DEF ExactInv, RenderInv
  <2>1. heard.epoch \in Int
    BY PlaybackAssumption DEF IInv, TypeOK
  <2>2. heard' # heard
    BY <2>1
  <2>3. RenderPlay /\ CallbackCopy
    BY <2>2, TransportAside, FeederAside DEF RenderNext, RenderStart, RenderCue, RenderStop,
       RenderFeed, RenderStep, RenderPlay, RenderOver, Operator, Transport, vars, renderVars,
       Callback, CallbackBegin, CallbackGate, CallbackTake, CallbackDry, CallbackJudge,
       CallbackEnd
  <2>4. current # NoChunk /\ current.epoch = cepoch /\ cepoch = epoch /\ fpc # "unopened"
    BY <2>3 DEF CallbackCopy, PeriodInv, IInv, EpochInv, RenderPlay, FeederGone
  <2>5. heard'.epoch = epoch /\ heard'.from = current.start
    BY <2>3, <2>4 DEF CallbackCopy
  <2> QED
    BY <2>4, <2>5 DEF AimInv
<1> QED
  BY <1>1, <1>2, <1>3, <1>4, PTL DEF RenderSpec, JoinIsExact

=============================================================================
