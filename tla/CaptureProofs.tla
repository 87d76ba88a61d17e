----------------------------- MODULE CaptureProofs -----------------------------
(***************************************************************************)
(* Proofs about the capture pipeline, for every block, batch, ring and     *)
(* callback size and any number of failed transactions: first lemmas about *)
(* the steps of the device and of the writer, whoever owns the Handle, on  *)
(* which the proofs about the engine and the command line rest; then the   *)
(* pipeline under any owner at all.                                        *)
(***************************************************************************)
EXTENDS CaptureAnyOwner, SequenceTheorems, WellFoundedInduction, TLAPS

USE DEF captureVars, deviceVars, handleVars, threadVars, writerVars, projectVars

----------------------------------------------------------------------------
(* What the helpers of the model return.                                   *)

LEMMA DeliveredType ==
  ASSUME produced \in Nat
  PROVE  Delivered \in Seq(Frame)
<1>1. CallbackFrames \in Nat
  BY CaptureAssumption
<1>2. Delivered \in [1 .. CallbackFrames -> Frame]
  BY <1>1 DEF Delivered, Frame
<1> QED
  BY <1>1, <1>2, SeqDef

LEMMA CutType ==
  ASSUME NEW s \in Seq(Frame), NEW n \in 0 .. Len(s)
  PROVE  /\ SubSeq(s, 1, n) \in Seq(Frame) /\ Len(SubSeq(s, 1, n)) = n
         /\ SubSeq(s, n + 1, Len(s)) \in Seq(Frame)
         /\ Len(SubSeq(s, n + 1, Len(s))) = Len(s) - n
<1>1. Len(s) \in Nat /\ \A i \in 1 .. Len(s) : s[i] \in Frame
  BY LenProperties, ElementOfSeq
<1>2. SubSeq(s, 1, n) \in Seq(Frame) /\ Len(SubSeq(s, 1, n)) = n
  <2>1. \A i \in 1 .. n : s[i] \in Frame
    BY <1>1
  <2> QED
    BY <1>1, <2>1, SubSeqProperties
<1>3. /\ SubSeq(s, n + 1, Len(s)) \in Seq(Frame)
      /\ Len(SubSeq(s, n + 1, Len(s))) = Len(s) - n
  <2>1. \A i \in n + 1 .. Len(s) : s[i] \in Frame
    BY <1>1
  <2> QED
    BY <1>1, <2>1, SubSeqProperties
<1> QED
  BY <1>2, <1>3

LEMMA CutWhole ==
  ASSUME NEW s \in Seq(Frame), NEW n \in 0 .. Len(s)
  PROVE  SubSeq(s, 1, n) \o SubSeq(s, n + 1, Len(s)) = s
<1> DEFINE a == SubSeq(s, 1, n)
           b == SubSeq(s, n + 1, Len(s))
<1>1. Len(s) \in Nat /\ n \in Nat /\ n <= Len(s)
  BY LenProperties
<1>2. a \in Seq(Frame) /\ b \in Seq(Frame) /\ Len(a) = n /\ Len(b) = Len(s) - n
  BY CutType
<1>3. \A i \in 1 .. n : a[i] = s[i]
  BY <1>1, ElementOfSeq, SubSeqProperties
<1>4. \A i \in 1 .. Len(s) - n : b[i] = s[n + i]
  BY <1>1, ElementOfSeq, SubSeqProperties
<1> HIDE DEF a, b
<1>5. /\ a \o b \in Seq(Frame) /\ Len(a \o b) = Len(a) + Len(b)
      /\ \A i \in 1 .. Len(a) + Len(b) :
           (a \o b)[i] = IF i <= Len(a) THEN a[i] ELSE b[i - Len(a)]
  BY <1>2, ConcatProperties
<1>6. Len(a \o b) = Len(s)
  BY <1>1, <1>2, <1>5
<1>7. \A i \in 1 .. Len(s) : (a \o b)[i] = s[i]
  BY <1>1, <1>2, <1>3, <1>4, <1>5
<1>8. a \o b = s
  BY <1>5, <1>6, <1>7, SeqEqual
<1> QED
  BY <1>8 DEF a, b

LEMMA FramesAssociate ==
  \A a, b, c \in Seq(Frame) : (a \o b) \o c = a \o (b \o c)
<1> TAKE a, b, c \in Seq(Frame)
<1> QED
  BY ConcatAssociative

LEMMA ShortBlockType ==
  ASSUME TypeOK
  PROVE  /\ ShortBlock \in Seq(Block)
         /\ Len(ShortBlock) = IF pending = <<>> THEN 0 ELSE 1
<1> DEFINE b == [sequence |-> sequence, start |-> startFrame, audio |-> pending]
<1>1. b \in Block
  BY DEF TypeOK, Block
<1> HIDE DEF b
<1>2. <<b>> \in Seq(Block) /\ Len(<<b>>) = 1
  BY <1>1
<1>3. ShortBlock = IF pending = <<>> THEN <<>> ELSE <<b>>
  BY DEF ShortBlock, b
<1> QED
  BY <1>2, <1>3, EmptySeq

(***************************************************************************)
(* A flush of either kind leaves a well-typed writer and project.          *)
(***************************************************************************)
LEMMA FlushType ==
  ASSUME TypeOK, NEW next, FlushBy(next),
         next \in {"settle", "await", "close", "close-interrupted"}
  PROVE  TypeOK'
<1> DEFINE whole == batch \o ShortBlock
           after == startFrame + Len(pending)
<1>1. whole \in Seq(Block)
  BY ShortBlockType, ConcatProperties DEF TypeOK
<1>2. blocks \o whole \in Seq(Block)
  BY <1>1, ConcatProperties DEF TypeOK
<1>3. after \in Nat
  BY LenProperties DEF TypeOK
<1>4. <<>> \in Seq(Frame) /\ <<>> \in Seq(Block)
  OBVIOUS
<1>5. sequence + Len(ShortBlock) \in Nat
  BY ShortBlockType DEF TypeOK
<1> HIDE DEF whole, after
<1>6. /\ pending' = <<>> /\ sequence' = sequence + Len(ShortBlock)
      /\ startFrame' = after
      /\ UNCHANGED <<noted, threadVars, deviceVars, ring, handleVars>>
  BY DEF FlushBy, after
<1>7. \/ UNCHANGED <<batch, frames, projectVars>> /\ wpc' = next
      \/ Commit(whole, after) /\ wpc' = next
      \/ /\ TransactionFails /\ batch' = whole /\ UNCHANGED frames
         /\ wpc' \in {"dead", "failed"}
  BY DEF FlushBy, whole, after
<1>8. /\ batch' \in Seq(Block) /\ frames' \in Nat /\ wpc' \in WriterPlaces
      /\ blocks' \in Seq(Block) /\ row' \in Row /\ failures' \in Nat
  <2>1. CASE UNCHANGED <<batch, frames, projectVars>> /\ wpc' = next
    BY <2>1 DEF TypeOK, WriterPlaces
  <2>2. CASE Commit(whole, after) /\ wpc' = next
    BY <1>2, <1>3, <1>4, <2>2 DEF TypeOK, Commit, Row, WriterPlaces
  <2>3. CASE /\ TransactionFails /\ batch' = whole /\ UNCHANGED frames
             /\ wpc' \in {"dead", "failed"}
    BY <1>1, <2>3, CaptureAssumption DEF TypeOK, TransactionFails, WriterPlaces
  <2> QED
    BY <1>7, <2>1, <2>2, <2>3
<1> QED
  BY <1>3, <1>4, <1>5, <1>6, <1>8 DEF TypeOK

LEMMA PrepareType ==
  ASSUME TypeOK, wpc = "push", PushBlock
  PROVE  TypeOK'
<1> DEFINE b == [sequence |-> sequence, start |-> startFrame,
                 audio |-> Taken(BlockFrames)]
<1>1. BlockFrames \in 0 .. Len(pending)
  BY CaptureAssumption, LenProperties DEF TypeOK, PushBlock
<1>2. Taken(BlockFrames) \in Seq(Frame) /\ Left(BlockFrames) \in Seq(Frame)
  BY <1>1, CutType DEF TypeOK, Taken, Left
<1>3. b \in Block
  BY <1>2 DEF TypeOK, Block
<1> HIDE DEF b
<1>4. Append(batch, b) \in Seq(Block)
  BY <1>3, AppendProperties DEF TypeOK
<1>5. /\ batch' = Append(batch, b) /\ pending' = Left(BlockFrames)
      /\ sequence' = sequence + 1 /\ startFrame' = startFrame + BlockFrames
      /\ wpc' \in WriterPlaces
      /\ UNCHANGED <<frames, noted, deviceVars, ring, handleVars, threadVars,
                     projectVars>>
  BY DEF PushBlock, Prepare, b, WriterPlaces
<1>6. sequence' \in Nat /\ startFrame' \in Nat
  BY <1>5, CaptureAssumption DEF TypeOK
<1> QED
  BY <1>2, <1>4, <1>5, <1>6 DEF TypeOK

LEMMA ReadType ==
  ASSUME TypeOK, Read
  PROVE  TypeOK'
<1> DEFINE n == IF Len(ring) <= BlockFrames THEN Len(ring) ELSE BlockFrames
<1>1. n \in 0 .. Len(ring)
  BY CaptureAssumption, LenProperties DEF TypeOK
<1> HIDE DEF n
<1>2. SubSeq(ring, 1, n) \in Seq(Frame) /\ SubSeq(ring, n + 1, Len(ring)) \in Seq(Frame)
  BY <1>1, CutType DEF TypeOK
<1>3. pending \o SubSeq(ring, 1, n) \in Seq(Frame)
  BY <1>2, ConcatProperties DEF TypeOK
<1>4. /\ ring' = SubSeq(ring, n + 1, Len(ring))
      /\ pending' = IF paused THEN pending ELSE pending \o SubSeq(ring, 1, n)
      /\ wpc' \in WriterPlaces
      /\ UNCHANGED <<batch, sequence, startFrame, frames, noted, deviceVars,
                     handleVars, threadVars, projectVars>>
  BY DEF Read, n, WriterPlaces
<1> QED
  BY <1>2, <1>3, <1>4 DEF TypeOK

(***************************************************************************)
(* The writer keeps its state well typed: one step per action.             *)
(***************************************************************************)
LEMMA WriterType ==
  ASSUME TypeOK, Writer
  PROVE  TypeOK'
<1> USE DEF WriterPlaces
<1>1. CASE LoadPause
  BY <1>1 DEF LoadPause, TypeOK
<1>2. CASE FlushForPause
  BY <1>2, FlushType DEF FlushForPause
<1>3. CASE Settle
  BY <1>3 DEF Settle, TypeOK
<1>4. CASE PersistDiagnostics
  <2>1. row' \in Row /\ failures' \in Nat /\ noted' \in Nat
    <3>1. result.lost \in Nat /\ noted' = result.lost
      BY <1>4 DEF PersistDiagnostics, TypeOK
    <3>2. CASE row' = [row EXCEPT !.lost = result.lost] /\ UNCHANGED <<blocks, failures>>
      BY <3>1, <3>2 DEF TypeOK, Row
    <3>3. CASE TransactionFails
      BY <3>1, <3>3 DEF TransactionFails, TypeOK
    <3> QED
      BY <1>4, <3>2, <3>3 DEF PersistDiagnostics
  <2>2. UNCHANGED <<wpc, pending, batch, sequence, startFrame, frames, blocks,
                    deviceVars, ring, handleVars, threadVars>>
    BY <1>4 DEF PersistDiagnostics, TransactionFails
  <2> QED
    BY <2>1, <2>2 DEF TypeOK
<1>5. CASE Read
  BY <1>5, ReadType
<1>6. CASE PushShort
  BY <1>6 DEF PushShort, TypeOK
<1>7. CASE PushBlock
  BY <1>7, PrepareType DEF PushBlock
<1>8. CASE CommitBatch
  <2>1. blocks \o batch \in Seq(Block) /\ <<>> \in Seq(Block)
    BY ConcatProperties DEF TypeOK
  <2>2. CASE Commit(batch, startFrame) /\ wpc' = "push"
    <3>1. row' \in Row
      BY <2>2 DEF Commit, TypeOK, Row
    <3> QED
      BY <1>8, <2>1, <2>2, <3>1 DEF CommitBatch, Commit, TypeOK
  <2>3. CASE TransactionFails /\ wpc' = "failed" /\ UNCHANGED <<batch, frames>>
    BY <1>8, <2>3 DEF CommitBatch, TransactionFails, TypeOK
  <2> QED
    BY <1>8, <2>2, <2>3 DEF CommitBatch
<1>9. CASE FoundEmpty
  BY <1>9 DEF FoundEmpty, TypeOK
<1>10. CASE FlushOrphan
  BY <1>10, FlushType DEF FlushOrphan
<1>11. CASE Await
  BY <1>11 DEF Await, TypeOK
<1>12. CASE TakeResult
  <2>1. noted' \in Nat
    BY <1>12 DEF TakeResult, TypeOK
  <2> QED
    BY <1>12, <2>1 DEF TakeResult, TypeOK
<1>13. CASE FlushAtEnd
  BY <1>13, FlushType DEF FlushAtEnd
<1>14. ASSUME NEW state \in Endings, NEW next \in {"done", "dead"},
              CloseSession(state, next)
       PROVE  TypeOK'
  <2>1. row' \in Row /\ failures' \in Nat /\ wpc' \in WriterPlaces
    <3>1. CASE /\ row' = [row EXCEPT !.frames = frames, !.state = state,
                                    !.lost = noted, !.finished = TRUE]
               /\ wpc' = next /\ UNCHANGED <<blocks, failures>>
      BY <1>14, <3>1 DEF TypeOK, Row
    <3>2. CASE TransactionFails /\ wpc' = "dead"
      BY <3>2 DEF TransactionFails, TypeOK
    <3> QED
      BY <1>14, <3>1, <3>2 DEF CloseSession
  <2>2. UNCHANGED <<blocks, deviceVars, ring, handleVars, threadVars, writerVars>>
    BY <1>14 DEF CloseSession, TransactionFails
  <2> QED
    BY <2>1, <2>2 DEF TypeOK
<1>15. CASE CloseAsTold
  <2>1. result.state \in Endings
    BY DEF TypeOK
  <2> QED
    BY <1>14, <1>15, <2>1 DEF CloseAsTold
<1>16. CASE CloseInterrupted
  BY <1>14, <1>16 DEF CloseInterrupted, Endings
<1> QED
  BY <1>1, <1>2, <1>3, <1>4, <1>5, <1>6, <1>7, <1>8, <1>9, <1>10, <1>11, <1>12,
     <1>13, <1>15, <1>16 DEF Writer

----------------------------------------------------------------------------
(* The timeline.                                                           *)

(***************************************************************************)
(* A tiled list stays tiled when the block that carries on is added, and   *)
(* every prefix of a tiled list is tiled.                                  *)
(***************************************************************************)
LEMMA TiledAppend ==
  ASSUME NEW list \in Seq(Block), Tiled(list),
         NEW b \in Block, b.sequence = Len(list), b.start = EndOf(list),
         b.audio # <<>>
  PROVE  /\ Tiled(Append(list, b))
         /\ EndOf(Append(list, b)) = b.start + Len(b.audio)
<1> DEFINE longer == Append(list, b)
<1>1. /\ Len(list) \in Nat /\ Len(longer) = Len(list) + 1
      /\ \A i \in 1 .. Len(list) : longer[i] = list[i]
      /\ longer[Len(list) + 1] = b
  BY AppendProperties, LenProperties
<1> HIDE DEF longer
<1>2. \A i \in 0 .. Len(list) : EndAt(longer, i) = EndAt(list, i)
  BY <1>1 DEF EndAt
<1>3. EndAt(longer, Len(list) + 1) = b.start + Len(b.audio)
  BY <1>1 DEF EndAt
<1>4. ASSUME NEW i \in 1 .. Len(longer)
      PROVE  /\ longer[i].sequence = i - 1 /\ longer[i].audio # <<>>
             /\ longer[i].start = EndAt(longer, i - 1)
  <2>1. CASE i \in 1 .. Len(list)
    BY <1>1, <1>2, <2>1 DEF Tiled
  <2>2. CASE i = Len(list) + 1
    BY <1>1, <1>2, <2>2 DEF EndOf
  <2> QED
    BY <1>1, <1>4, <2>1, <2>2
<1> QED
  BY <1>1, <1>3, <1>4 DEF Tiled, EndOf, longer

LEMMA TiledPrefix ==
  ASSUME NEW first \in Seq(Block), NEW rest \in Seq(Block), Tiled(first \o rest)
  PROVE  Tiled(first)
<1> DEFINE all == first \o rest
<1>1. /\ Len(first) \in Nat /\ Len(rest) \in Nat /\ Len(all) = Len(first) + Len(rest)
      /\ \A i \in 1 .. Len(first) : all[i] = first[i]
  BY ConcatProperties, LenProperties
<1> HIDE DEF all
<1>2. \A i \in 0 .. Len(first) : EndAt(all, i) = EndAt(first, i)
  BY <1>1 DEF EndAt
<1>3. Tiled(all)
  BY DEF all
<1> QED
  BY <1>1, <1>2, <1>3 DEF Tiled

(***************************************************************************)
(* A flush cuts what is pending into the block the timeline is waiting     *)
(* for, and commits all of the timeline or none of it.                     *)
(***************************************************************************)
LEMMA FlushTimeline ==
  ASSUME TypeOK, TimelineInv, NEW next, FlushBy(next)
  PROVE  TimelineInv'
<1> DEFINE whole == batch \o ShortBlock
           after == startFrame + Len(pending)
           all == blocks \o whole
           b == [sequence |-> sequence, start |-> startFrame, audio |-> pending]
<1>1. ShortBlock \in Seq(Block) /\ whole \in Seq(Block) /\ Timeline \in Seq(Block)
  BY ShortBlockType, ConcatProperties DEF TypeOK, Timeline
<1>2. all = Timeline \o ShortBlock
  <2>1. blocks \in Seq(Block) /\ batch \in Seq(Block)
    BY DEF TypeOK
  <2> QED
    BY <1>1, <2>1, ConcatAssociative DEF Timeline
<1>3. /\ Tiled(all) /\ EndOf(all) = after
      /\ Len(all) = sequence + Len(ShortBlock)
  <2>1. CASE pending = <<>>
    <3>1. ShortBlock = <<>> /\ Len(ShortBlock) = 0 /\ after = startFrame
      BY <2>1 DEF ShortBlock, TypeOK
    <3>2. all = Timeline
      BY <1>1, <1>2, <3>1, ConcatEmptySeq
    <3>3. sequence \in Nat
      BY DEF TypeOK
    <3> HIDE DEF all, after
    <3> QED
      BY <3>1, <3>2, <3>3 DEF TimelineInv
  <2>2. CASE pending # <<>>
    <3>1. ShortBlock = <<b>> /\ Len(ShortBlock) = 1
      BY <2>2 DEF ShortBlock
    <3>2. b \in Block
      BY DEF TypeOK, Block
    <3>3. b.sequence = Len(Timeline) /\ b.start = EndOf(Timeline) /\ b.audio # <<>>
      BY <2>2 DEF TimelineInv
    <3>4. b.start + Len(b.audio) = after
      OBVIOUS
    <3> HIDE DEF b, after, all
    <3>5. all = Append(Timeline, b)
      BY <1>1, <1>2, <3>1, <3>2, AppendIsConcat
    <3>6. Tiled(all) /\ EndOf(all) = after
      BY <1>1, <3>2, <3>3, <3>4, <3>5, TiledAppend DEF TimelineInv
    <3>7. Len(all) = Len(Timeline) + 1
      BY <1>1, <3>2, <3>5, AppendProperties
    <3> QED
      BY <3>1, <3>6, <3>7 DEF TimelineInv
  <2> QED
    BY <2>1, <2>2
<1>4. sequence' = Len(all) /\ startFrame' = EndOf(all)
  BY <1>3 DEF FlushBy
<1>5. CASE whole = <<>> /\ UNCHANGED <<batch, frames, projectVars>>
  <2>1. batch = <<>> /\ ShortBlock = <<>>
    BY <1>1, <1>5, ConcatEqualIffEmpty DEF TypeOK
  <2>2. all = Timeline'
    BY <1>5, <2>1 DEF Timeline
  <2> QED
    BY <1>3, <1>4, <1>5, <2>2 DEF TimelineInv
<1>6. CASE Commit(whole, after)
  <2>1. blocks' = all /\ batch' = <<>> /\ frames' = after /\ row'.frames = after
    BY <1>6 DEF Commit, TypeOK, Row
  <2>2. all \in Seq(Block)
    BY <1>1, ConcatProperties DEF TypeOK
  <2>3. Timeline' = all
    BY <2>1, <2>2, ConcatEmptySeq DEF Timeline
  <2> QED
    BY <1>3, <1>4, <2>1, <2>3 DEF TimelineInv
<1>7. CASE TransactionFails /\ batch' = whole /\ UNCHANGED frames
  <2>1. Timeline' = all /\ UNCHANGED <<blocks, row, frames>>
    BY <1>7 DEF TransactionFails, Timeline
  <2> QED
    BY <1>3, <1>4, <2>1 DEF TimelineInv
<1> QED
  BY <1>5, <1>6, <1>7 DEF FlushBy

(***************************************************************************)
(* push(): the full block it cuts is the one the timeline is waiting for.  *)
(***************************************************************************)
LEMMA PrepareTimeline ==
  ASSUME TypeOK, TimelineInv, PushBlock
  PROVE  TimelineInv'
<1> DEFINE b == [sequence |-> sequence, start |-> startFrame,
                 audio |-> Taken(BlockFrames)]
<1>1. BlockFrames \in 0 .. Len(pending) /\ BlockFrames # 0
  BY CaptureAssumption, LenProperties DEF TypeOK, PushBlock
<1>2. Taken(BlockFrames) \in Seq(Frame) /\ Len(Taken(BlockFrames)) = BlockFrames
  BY <1>1, CutType DEF TypeOK, Taken
<1>3. /\ b \in Block /\ b.audio # <<>> /\ b.sequence = Len(Timeline)
      /\ b.start = EndOf(Timeline) /\ b.start + Len(b.audio) = startFrame + BlockFrames
  BY <1>1, <1>2 DEF TypeOK, Block, TimelineInv
<1>4. /\ batch' = Append(batch, b) /\ sequence' = sequence + 1
      /\ startFrame' = startFrame + BlockFrames
      /\ UNCHANGED <<frames, blocks, row>>
  BY DEF PushBlock, Prepare
<1> HIDE DEF b
<1>5. Timeline \in Seq(Block) /\ batch' = batch \o <<b>> /\ <<b>> \in Seq(Block)
  BY <1>3, <1>4, ConcatProperties, AppendIsConcat DEF TypeOK, Timeline
<1>6. Timeline' = Append(Timeline, b)
  <2>1. Timeline' = (blocks \o batch) \o <<b>>
    BY <1>4, <1>5, ConcatAssociative DEF TypeOK, Timeline
  <2> QED
    BY <1>3, <1>5, <2>1, AppendIsConcat DEF Timeline
<1>7. Tiled(Timeline') /\ EndOf(Timeline') = startFrame'
  BY <1>3, <1>4, <1>5, <1>6, TiledAppend DEF TimelineInv
<1>8. Len(Timeline') = sequence'
  BY <1>3, <1>4, <1>5, <1>6, AppendProperties DEF TimelineInv
<1> QED
  BY <1>4, <1>7, <1>8 DEF TimelineInv

LEMMA CommitTimeline ==
  ASSUME TypeOK, TimelineInv, CommitBatch
  PROVE  TimelineInv'
<1>1. CASE Commit(batch, startFrame)
  <2>1. /\ blocks' = Timeline /\ batch' = <<>> /\ frames' = startFrame
        /\ row'.frames = startFrame
    BY <1>1 DEF Commit, Timeline, TypeOK, Row
  <2>2. Timeline \in Seq(Block)
    BY ConcatProperties DEF TypeOK, Timeline
  <2>3. Timeline' = Timeline
    BY <2>1, <2>2, ConcatEmptySeq DEF Timeline
  <2> QED
    BY <2>1, <2>3 DEF CommitBatch, TimelineInv
<1>2. CASE TransactionFails /\ UNCHANGED <<batch, frames>>
  BY <1>2 DEF CommitBatch, TransactionFails, TimelineInv, Timeline
<1> QED
  BY <1>1, <1>2 DEF CommitBatch

----------------------------------------------------------------------------
(* What the thread holds.                                                  *)

(***************************************************************************)
(* A flush that goes on has nothing left; one that fails with something    *)
(* held does so only while the thread is not pausing.                      *)
(***************************************************************************)
LEMMA FlushHolds ==
  ASSUME TypeOK, NEW next, FlushBy(next)
  PROVE  /\ pending' = <<>>
         /\ UNCHANGED <<row.finished, paused, wasPaused, holding>>
         /\ \/ wpc' = next /\ batch' = <<>>
            \/ wpc' \in {"failed", "dead"} /\ ~NothingHeld
         /\ blocks' # blocks => ~NothingHeld
<1> DEFINE whole == batch \o ShortBlock
<1>1. whole = <<>> <=> NothingHeld
  <2>1. batch \in Seq(Block) /\ ShortBlock \in Seq(Block)
    BY ShortBlockType DEF TypeOK
  <2>2. whole = <<>> <=> batch = <<>> /\ ShortBlock = <<>>
    BY <2>1, ConcatEqualIffEmpty
  <2>3. ShortBlock = <<>> <=> pending = <<>>
    BY ShortBlockType, EmptySeq
  <2> QED
    BY <2>2, <2>3 DEF NothingHeld
<1> HIDE DEF whole
<1>2. /\ pending' = <<>> /\ UNCHANGED threadVars
      /\ \/ whole = <<>> /\ UNCHANGED <<batch, projectVars>> /\ wpc' = next
         \/ whole # <<>> /\ Commit(whole, startFrame + Len(pending)) /\ wpc' = next
         \/ whole # <<>> /\ TransactionFails /\ wpc' \in {"failed", "dead"}
  BY DEF FlushBy, whole
<1>3. row'.finished = row.finished
  BY <1>2 DEF Commit, TransactionFails, TypeOK, Row
<1> QED
  BY <1>1, <1>2, <1>3 DEF Commit, TransactionFails, NothingHeld

LEMMA ThreadStep ==
  ASSUME TypeOK, ThreadInv, Writer
  PROVE  ThreadInv'
<1> USE DEF NothingHeld, Ended
<1>1. ~row.finished
  BY DEF ThreadInv, Writer, LoadPause, FlushForPause, Settle, PersistDiagnostics,
     Read, PushShort, PushBlock, CommitBatch, FoundEmpty, FlushOrphan, Await,
     TakeResult, FlushAtEnd, CloseAsTold, CloseInterrupted
<1>2. CASE LoadPause
  BY <1>1, <1>2 DEF LoadPause, ThreadInv, TypeOK
<1>3. CASE FlushForPause
  <2>1. FlushBy("settle") /\ ~wasPaused /\ holding = wasPaused
    BY <1>3 DEF FlushForPause, ThreadInv
  <2>2. /\ row'.finished = row.finished /\ wasPaused' = wasPaused /\ holding' = holding
        /\ wpc' \in {"settle", "failed", "dead"} /\ pending' = <<>>
        /\ wpc' = "settle" => batch' = <<>>
    BY <2>1, FlushHolds
  <2> QED
    BY <1>1, <2>1, <2>2 DEF ThreadInv
<1>4. CASE Settle
  BY <1>1, <1>4 DEF Settle, ThreadInv
<1>5. CASE PersistDiagnostics
  <2>1. row'.finished = row.finished
    BY <1>5 DEF PersistDiagnostics, TransactionFails, TypeOK, Row
  <2>2. UNCHANGED <<pending, batch, wpc, paused, wasPaused, holding>>
    BY <1>5 DEF PersistDiagnostics
  <2> QED
    BY <2>1, <2>2 DEF ThreadInv
<1>6. CASE Read
  <2>1. /\ wpc' \in {"empty", "load", "push"} /\ (wpc' = "push" => ~wasPaused)
        /\ (wasPaused => pending' = pending)
        /\ UNCHANGED <<batch, row, paused, wasPaused, holding>>
    BY <1>6 DEF Read, ThreadInv
  <2> QED
    BY <1>1, <1>6, <2>1 DEF Read, ThreadInv
<1>7. CASE PushShort \/ PushBlock
  <2>1. /\ wpc' \in {"load", "push", "commit"} /\ ~wasPaused
        /\ UNCHANGED <<row, paused, wasPaused, holding>>
    BY <1>7 DEF PushShort, PushBlock, ThreadInv
  <2> QED
    BY <1>1, <1>7, <2>1 DEF PushShort, PushBlock, ThreadInv
<1>8. CASE CommitBatch
  <2>1. row'.finished = row.finished
    BY <1>8 DEF CommitBatch, Commit, TransactionFails, TypeOK, Row
  <2>2. wpc' \in {"push", "failed"} /\ UNCHANGED <<paused, wasPaused, holding>>
    BY <1>8 DEF CommitBatch
  <2> QED
    BY <1>1, <1>8, <2>1, <2>2 DEF CommitBatch, ThreadInv
<1>9. CASE FoundEmpty
  BY <1>1, <1>9 DEF FoundEmpty, ThreadInv
<1>10. CASE FlushOrphan
  BY <1>1, <1>10, FlushHolds DEF FlushOrphan, ThreadInv
<1>11. CASE Await
  BY <1>1, <1>11 DEF Await, ThreadInv
<1>12. CASE TakeResult
  BY <1>1, <1>12 DEF TakeResult, ThreadInv
<1>13. CASE FlushAtEnd
  BY <1>1, <1>13, FlushHolds DEF FlushAtEnd, ThreadInv
<1>14. ASSUME NEW state, NEW next \in {"done", "dead"}, CloseSession(state, next),
              wpc \in {"close", "close-interrupted"}
       PROVE  ThreadInv'
  <2>1. wpc' \in {"done", "dead"} /\ UNCHANGED <<pending, batch, paused, wasPaused, holding>>
    BY <1>14 DEF CloseSession
  <2> QED
    BY <1>14, <2>1 DEF ThreadInv
<1>15. CASE CloseAsTold \/ CloseInterrupted
  BY <1>14, <1>15 DEF CloseAsTold, CloseInterrupted
<1> QED
  BY <1>2, <1>3, <1>4, <1>5, <1>6, <1>7, <1>8, <1>9, <1>10, <1>11, <1>12, <1>13,
     <1>15 DEF Writer

----------------------------------------------------------------------------
(* The device and the owner, who leave the writer and the project alone.   *)

Aside == UNCHANGED <<wpc, threadVars, writerVars, projectVars>>

LEMMA DeviceAside ==
  ASSUME Device
  PROVE  Aside /\ UNCHANGED handleVars
  BY DEF Device, CallbackPush, CallbackCount, Aside

LEMMA HandleAside ==
  ASSUME NEW state, NEW counters, NEW on,
         SetResult(state, counters) \/ Note(counters) \/ SetPause(on) \/ SetStop \/ CloseStream
  PROVE  Aside /\ UNCHANGED <<produced, lost, ring>>
  BY DEF SetResult, Note, SetPause, SetStop, CloseStream, Aside

LEMMA DeviceType ==
  ASSUME TypeOK, Device
  PROVE  TypeOK'
<1>1. CASE CallbackPush
  <2>1. ring \o Delivered \in Seq(Frame)
    BY DeliveredType, ConcatProperties DEF TypeOK
  <2>2. produced' \in Nat
    BY <1>1, CaptureAssumption DEF CallbackPush, TypeOK
  <2> QED
    BY <1>1, <2>1, <2>2 DEF CallbackPush, TypeOK
<1>2. CASE CallbackCount
  BY <1>2, CaptureAssumption DEF CallbackCount, TypeOK
<1> QED
  BY <1>1, <1>2 DEF Device

LEMMA HandleType ==
  ASSUME TypeOK, NEW state \in Endings, NEW counters \in Nat, NEW on \in BOOLEAN,
         SetResult(state, counters) \/ Note(counters) \/ SetPause(on) \/ SetStop \/ CloseStream
  PROVE  TypeOK'
<1>1. CASE SetResult(state, counters)
  BY <1>1 DEF SetResult, TypeOK
<1>2. CASE Note(counters)
  <2>1. result' = [result EXCEPT !.lost = counters]
    BY <1>2 DEF Note
  <2>2. result' \in [state : Endings, lost : Nat]
    BY <2>1 DEF TypeOK
  <2> QED
    BY <1>2, <2>2 DEF Note, TypeOK
<1>3. CASE SetPause(on)
  BY <1>3 DEF SetPause, TypeOK
<1>4. CASE SetStop
  BY <1>4 DEF SetStop, TypeOK
<1>5. CASE CloseStream
  BY <1>5 DEF CloseStream, TypeOK
<1> QED
  BY <1>1, <1>2, <1>3, <1>4, <1>5

LEMMA PipelineStarts ==
  ASSUME PipelineInit, row \in Row, row.frames = 0, ~row.finished
  PROVE  TypeOK /\ TimelineInv /\ ThreadInv /\ Timeline = <<>>
<1> USE DEF PipelineInit
<1>1. TypeOK
  <2>1. result \in [state : Endings, lost : Nat]
    BY DEF Endings
  <2>2. <<>> \in Seq(Frame) /\ <<>> \in Seq(Block)
    OBVIOUS
  <2> QED
    BY <2>1, <2>2, CaptureAssumption DEF TypeOK, WriterPlaces
<1>2. Timeline = <<>> /\ Len(Timeline) = 0
  BY DEF Timeline
<1>3. TimelineInv
  BY <1>2 DEF TimelineInv, Tiled, EndOf, EndAt
<1>4. ThreadInv
  BY DEF ThreadInv, NothingHeld
<1> QED
  BY <1>1, <1>2, <1>3, <1>4

LEMMA TimelineStep ==
  ASSUME TypeOK, TimelineInv, Writer \/ Aside
  PROVE  TimelineInv'
<1>1. CASE FlushForPause \/ FlushOrphan \/ FlushAtEnd
  BY <1>1, FlushTimeline DEF FlushForPause, FlushOrphan, FlushAtEnd
<1>2. CASE PushBlock
  BY <1>2, PrepareTimeline
<1>3. CASE CommitBatch
  BY <1>3, CommitTimeline
<1>4. CASE UNCHANGED <<blocks, batch, sequence, startFrame, frames>>
           /\ row'.frames = row.frames
  BY <1>4 DEF TimelineInv, Timeline
<1>5. CASE PersistDiagnostics
  <2>1. UNCHANGED <<blocks, batch, sequence, startFrame, frames>>
    BY <1>5 DEF PersistDiagnostics, TransactionFails
  <2>2. row'.frames = row.frames
    BY <1>5 DEF PersistDiagnostics, TransactionFails, TypeOK, Row
  <2> QED
    BY <1>4, <2>1, <2>2
<1>6. ASSUME NEW state, NEW next, CloseSession(state, next)
      PROVE  TimelineInv'
  <2>1. UNCHANGED <<blocks, batch, sequence, startFrame, frames>>
    BY <1>6 DEF CloseSession, TransactionFails
  <2>2. row'.frames = row.frames
    BY <1>6 DEF CloseSession, TransactionFails, TypeOK, Row, TimelineInv
  <2> QED
    BY <1>4, <2>1, <2>2
<1>7. CASE CloseAsTold \/ CloseInterrupted
  BY <1>6, <1>7 DEF CloseAsTold, CloseInterrupted
<1>8. CASE LoadPause \/ Settle \/ Read \/ PushShort \/ FoundEmpty \/ Await
           \/ TakeResult \/ Aside
  BY <1>4, <1>8 DEF LoadPause, Settle, Read, PushShort, FoundEmpty, Await,
     TakeResult, Aside
<1> QED
  BY <1>1, <1>2, <1>3, <1>5, <1>7, <1>8 DEF Writer

LEMMA ThreadAside ==
  ASSUME ThreadInv, Aside
  PROVE  ThreadInv'
  BY DEF Aside, ThreadInv, NothingHeld, Ended

----------------------------------------------------------------------------
(* How much is at risk.                                                    *)

LEMMA BatchMoves ==
  ASSUME NEW n \in Nat
  PROVE  /\ BlockFrames * n \in Nat /\ BlockFrames * 0 = 0
         /\ BlockFrames * (n + 1) = (BlockFrames * n) + BlockFrames
  BY CaptureAssumption

LEMMA BatchFits ==
  ASSUME NEW n \in Nat, NEW m \in Nat, n < m
  PROVE  (BlockFrames * n) + BlockFrames <= BlockFrames * m
<1> DEFINE d == m - (n + 1)
<1>1. d \in Nat /\ m = (n + 1) + d
  OBVIOUS
<1> HIDE DEF d
<1>2. BlockFrames * d \in Nat
  BY <1>1, BatchMoves
<1>3. BlockFrames * m = (BlockFrames * (n + 1)) + (BlockFrames * d)
  BY <1>1, CaptureAssumption
<1>4. BlockFrames * (n + 1) = (BlockFrames * n) + BlockFrames
  BY BatchMoves
<1>5. BlockFrames * n \in Nat /\ BlockFrames \in Nat
  BY BatchMoves, CaptureAssumption
<1> HIDE DEF BatchMoves
<1> QED
  BY <1>2, <1>3, <1>4, <1>5

LEMMA LossFlush ==
  ASSUME TypeOK, LossInv, NEW next, FlushBy(next), wpc = "pause" => next = "settle",
         wpc # "pause" => next \notin {"load", "pause", "settle", "read", "push", "commit", "empty"}
  PROVE  LossInv'
<1>1. startFrame \in Nat /\ frames \in Nat /\ Len(pending) \in Nat
  BY LenProperties DEF TypeOK
<1>2. pending' = <<>> /\ startFrame' = startFrame + Len(pending) /\ Len(pending') = 0
  BY DEF FlushBy
<1>3. \/ NothingHeld /\ UNCHANGED <<batch, frames>> /\ wpc' = next
      \/ batch' = <<>> /\ frames' = startFrame' /\ wpc' = next
      \/ UNCHANGED frames /\ wpc' \in {"dead", "failed"}
  <2>1. batch \o ShortBlock = <<>> <=> NothingHeld
    <3>1. batch \in Seq(Block) /\ ShortBlock \in Seq(Block)
      BY ShortBlockType DEF TypeOK
    <3>2. ShortBlock = <<>> <=> pending = <<>>
      BY ShortBlockType, EmptySeq
    <3> QED
      BY <3>1, <3>2, ConcatEqualIffEmpty DEF NothingHeld
  <2> QED
    BY <2>1 DEF FlushBy, Commit
<1>4. BatchRoom \in Nat \ {0}
  BY CaptureAssumption DEF BatchRoom
<1>5. CASE NothingHeld /\ UNCHANGED <<batch, frames>> /\ wpc' = next
  <2>1. startFrame' = startFrame /\ Len(batch') = 0 /\ batch = batch'
    BY <1>1, <1>2, <1>5 DEF NothingHeld
  <2>2. BatchRoom' = BatchRoom
    BY DEF BatchRoom
  <2>3. wpc = "pause" => startFrame = frames
    <3>1. Len(batch) = 0 /\ BlockFrames * 0 = 0
      BY <2>1, BatchMoves
    <3> QED
      BY <1>1, <3>1 DEF LossInv, Looping
  <2> QED
    BY <1>2, <1>4, <1>5, <2>1, <2>2, <2>3, BatchMoves, CaptureAssumption DEF LossInv, Looping
<1>6. CASE batch' = <<>> /\ frames' = startFrame' /\ wpc' = next
  <2>1. Len(batch') = 0 /\ startFrame' \in Nat /\ BlockFrames * 0 = 0
    BY <1>1, <1>2, <1>6, BatchMoves
  <2>2. startFrame' = frames' + BlockFrames * Len(batch')
    BY <1>6, <2>1
  <2> QED
    BY <1>2, <1>4, <1>6, <2>1, <2>2, CaptureAssumption DEF LossInv, Looping, BatchRoom
<1>7. CASE UNCHANGED frames /\ wpc' \in {"dead", "failed"}
  BY <1>1, <1>2, <1>7 DEF LossInv, Looping
<1> QED
  BY <1>3, <1>5, <1>6, <1>7

LEMMA LossStep ==
  ASSUME TypeOK, LossInv, Writer \/ Aside
  PROVE  LossInv'
<1> USE DEF Looping
<1>1. /\ startFrame \in Nat /\ frames \in Nat /\ Len(pending) \in Nat /\ Len(batch) \in Nat
      /\ BatchRoom \in Nat \ {0} /\ BlockFrames \in Nat \ {0}
  BY LenProperties, CaptureAssumption DEF TypeOK, BatchRoom
<1>2. CASE FlushForPause \/ FlushOrphan \/ FlushAtEnd
  BY <1>2, LossFlush DEF FlushForPause, FlushOrphan, FlushAtEnd
<1>3. ASSUME UNCHANGED <<startFrame, frames, batch, pending>>,
             \/ wpc' \notin {"load", "pause", "settle", "read", "push", "commit", "empty"}
             \/ wpc \in {"load", "pause", "settle", "read", "empty"} /\ wpc' # "commit"
             \/ wpc = "push" /\ wpc' = "push"
             \/ wpc = "commit" /\ wpc' = "commit"
      PROVE  LossInv'
  BY <1>3 DEF LossInv, BatchRoom
<1>4. CASE LoadPause \/ Settle \/ PersistDiagnostics \/ FoundEmpty \/ Await \/ TakeResult
  BY <1>3, <1>4 DEF LoadPause, Settle, PersistDiagnostics, FoundEmpty, Await, TakeResult,
     TransactionFails
<1>5. CASE Aside
  BY <1>3, <1>5 DEF Aside, TypeOK, WriterPlaces
<1>6. CASE CloseAsTold \/ CloseInterrupted
  BY <1>3, <1>6 DEF CloseAsTold, CloseInterrupted, CloseSession
<1>7. CASE Read
  <2>1. UNCHANGED <<startFrame, frames, batch>> /\ wpc = "read"
    BY <1>7 DEF Read
  <2>2. \/ wpc' = "push"
        \/ wpc' = "load" /\ pending' = pending
        \/ wpc' = "empty" /\ Len(pending') = Len(pending)
    <3>1. CASE paused
      BY <1>7, <3>1 DEF Read
    <3>2. CASE ~paused /\ wpc' = "empty"
      <4>1. Len(ring) \in Nat
        BY LenProperties DEF TypeOK
      <4>2. pending' = pending \o SubSeq(ring, 1, 0)
        BY <1>1, <1>7, <3>2, <4>1 DEF Read
      <4>3. SubSeq(ring, 1, 0) \in Seq(Frame) /\ Len(SubSeq(ring, 1, 0)) = 0
        BY <4>1, CutType DEF TypeOK
      <4>4. Len(pending \o SubSeq(ring, 1, 0)) = Len(pending) + Len(SubSeq(ring, 1, 0))
        BY <4>3, ConcatProperties DEF TypeOK
      <4> QED
        BY <1>1, <3>2, <4>2, <4>3, <4>4
    <3> QED
      BY <1>7, <3>1, <3>2 DEF Read
  <2> QED
    BY <2>1, <2>2 DEF LossInv, BatchRoom
<1>8. CASE PushShort
  BY <1>8 DEF PushShort, LossInv, BatchRoom
<1>9. CASE PushBlock
  <2>1. /\ wpc = "push" /\ frames' = frames /\ startFrame' = startFrame + BlockFrames
        /\ wpc' = IF Len(batch) + 1 >= BatchBlocks THEN "commit" ELSE "push"
    BY <1>9 DEF PushBlock, Prepare
  <2>2. Len(batch') = Len(batch) + 1
    BY <1>9 DEF PushBlock, Prepare, TypeOK
  <2>3. startFrame = frames + BlockFrames * Len(batch) /\ frames <= startFrame
    BY <2>1 DEF LossInv
  <2>4. startFrame' = frames' + BlockFrames * Len(batch')
    <3>1. /\ BlockFrames * Len(batch) \in Nat
          /\ BlockFrames * (Len(batch) + 1) = (BlockFrames * Len(batch)) + BlockFrames
      BY <1>1, BatchMoves
    <3> QED
      BY <1>1, <2>1, <2>2, <2>3, <3>1
  <2>5. wpc' = "push" => Len(batch') < BatchRoom
    BY <1>1, <2>1, <2>2, CaptureAssumption DEF BatchRoom
  <2>6. frames' <= startFrame'
    BY <1>1, <2>1, <2>3
  <2> QED
    BY <2>1, <2>4, <2>5, <2>6 DEF LossInv, BatchRoom
<1>10. CASE CommitBatch
  <2>1. CASE Commit(batch, startFrame) /\ wpc' = "push"
    <3>1. batch' = <<>> /\ frames' = startFrame /\ startFrame' = startFrame /\ Len(batch') = 0
      BY <1>10, <2>1 DEF CommitBatch, Commit
    <3>2. startFrame' = frames' + BlockFrames * Len(batch')
      BY <1>1, <3>1, BatchMoves
    <3> QED
      BY <1>1, <2>1, <3>1, <3>2 DEF LossInv, BatchRoom
  <2>2. CASE wpc' = "failed" /\ UNCHANGED <<batch, frames>>
    BY <1>10, <2>2 DEF CommitBatch, LossInv
  <2> QED
    BY <1>10, <2>1, <2>2 DEF CommitBatch
<1> QED
  BY <1>2, <1>4, <1>5, <1>6, <1>7, <1>8, <1>9, <1>10 DEF Writer

LEMMA LossStarts ==
  ASSUME PipelineInit
  PROVE  LossInv
<1>1. /\ wpc = "load" /\ frames = 0 /\ startFrame = 0 /\ Len(batch) = 0 /\ Len(pending) = 0
      /\ BlockFrames \in Nat \ {0} /\ BatchRoom \in Nat \ {0} /\ BlockFrames * 0 = 0
  BY CaptureAssumption, BatchMoves DEF PipelineInit, BatchRoom
<1> QED
  BY <1>1 DEF LossInv, Looping

LEMMA LossBound ==
  ASSUME TypeOK, LossInv
  PROVE  LossWithinGranularity
<1> SUFFICES ASSUME wpc \in {"load", "read", "empty"}
             PROVE  Uncommitted < BlockFrames * BatchRoom
  BY DEF LossWithinGranularity, BatchRoom
<1>1. /\ startFrame \in Nat /\ frames \in Nat /\ Len(pending) \in Nat /\ Len(batch) \in Nat
      /\ BatchRoom \in Nat /\ BlockFrames \in Nat
  BY LenProperties, CaptureAssumption DEF TypeOK, BatchRoom
<1>2. /\ startFrame = frames + BlockFrames * Len(batch) /\ Len(batch) < BatchRoom
      /\ Len(pending) < BlockFrames
  BY DEF LossInv, Looping
<1>3. (BlockFrames * Len(batch)) + BlockFrames <= BlockFrames * BatchRoom
  BY <1>1, <1>2, BatchFits
<1>4. BlockFrames * Len(batch) \in Nat /\ BlockFrames * BatchRoom \in Nat
  BY <1>1, BatchMoves
<1> QED
  BY <1>1, <1>2, <1>3, <1>4 DEF Uncommitted

----------------------------------------------------------------------------
(* What an owner may rely on.                                              *)

(***************************************************************************)
(* A writer that has ended is over; the others move only forward through   *)
(* the closing of the session, and only once told to stop.                 *)
(***************************************************************************)
LEMMA WriterMoves ==
  ASSUME TypeOK, Writer
  PROVE  /\ ~Ended /\ UNCHANGED handleVars /\ failures' \in Nat /\ failures' >= failures
         /\ wpc' \in {"result", "finish", "close", "done"} =>
              stop \/ wpc \in {"result", "finish", "close", "done"}
         /\ wpc' \in {"failed", "close-interrupted", "dead"} =>
              failures' > 0 \/ wpc \in {"failed", "close-interrupted", "dead"}
<1>1. ASSUME NEW next, FlushBy(next)
      PROVE  /\ UNCHANGED handleVars /\ (failures' = failures \/ failures' = failures + 1)
             /\ wpc' = next \/ (wpc' \in {"failed", "dead"} /\ failures' = failures + 1)
  BY <1>1 DEF FlushBy, Commit, TransactionFails
<1>2. ASSUME NEW state, NEW next, CloseSession(state, next)
      PROVE  /\ UNCHANGED handleVars /\ (failures' = failures \/ failures' = failures + 1)
             /\ wpc' = next \/ (wpc' = "dead" /\ failures' = failures + 1)
  BY <1>2 DEF CloseSession, TransactionFails
<1>3. failures \in Nat
  BY DEF TypeOK
<1>4. CASE FlushForPause \/ FlushOrphan \/ FlushAtEnd
  BY <1>1, <1>3, <1>4 DEF FlushForPause, FlushOrphan, FlushAtEnd, Ended
<1>5. CASE CloseAsTold \/ CloseInterrupted
  BY <1>2, <1>3, <1>5 DEF CloseAsTold, CloseInterrupted, Ended
<1>6. CASE LoadPause \/ Settle \/ Read \/ PushShort \/ PushBlock \/ FoundEmpty \/ Await \/ TakeResult
  BY <1>3, <1>6 DEF LoadPause, Settle, Read, PushShort, PushBlock, FoundEmpty, Await,
     TakeResult, Ended
<1>7. CASE PersistDiagnostics \/ CommitBatch
  BY <1>3, <1>7 DEF PersistDiagnostics, CommitBatch, Commit, TransactionFails, Ended
<1> QED
  BY <1>4, <1>5, <1>6, <1>7 DEF Writer

(***************************************************************************)
(* The row is closed by the step that ends the writer as it was told, or   *)
(* by the one that ends it after a failure.                                *)
(***************************************************************************)
LEMMA WriterCloses ==
  ASSUME TypeOK, Writer
  PROVE  /\ wpc' = "done" => row'.finished /\ row'.state = result.state
         /\ row'.finished /\ ~row.finished =>
              \/ wpc = "close" /\ row'.state = result.state /\ row'.lost = noted
              \/ wpc = "close-interrupted" /\ row'.state = "interrupted"
         /\ row'.state = row.state \/ row'.state \in Endings
         /\ row'.finished = row.finished => row'.state = row.state \/ row.finished
<1>1. row \in Row
  BY DEF TypeOK
<1>2. ASSUME NEW next, FlushBy(next)
      PROVE  row'.finished = row.finished /\ row'.state = row.state
             /\ wpc' \in {next, "failed", "dead"}
  BY <1>1, <1>2 DEF FlushBy, Commit, TransactionFails, Row
<1>3. ASSUME NEW state, NEW next, CloseSession(state, next)
      PROVE  \/ row' = row /\ wpc' = "dead"
             \/ row'.finished /\ row'.state = state /\ row'.lost = noted /\ wpc' = next
  BY <1>1, <1>3 DEF CloseSession, TransactionFails, Row
<1>4. CASE FlushForPause \/ FlushOrphan \/ FlushAtEnd
  BY <1>2, <1>4 DEF FlushForPause, FlushOrphan, FlushAtEnd
<1>5. CASE CloseAsTold
  BY <1>3, <1>5 DEF CloseAsTold, TypeOK
<1>6. CASE CloseInterrupted
  BY <1>3, <1>6 DEF CloseInterrupted, Endings
<1>7. CASE LoadPause \/ Settle \/ Read \/ PushShort \/ PushBlock \/ FoundEmpty \/ Await \/ TakeResult
  BY <1>7 DEF LoadPause, Settle, Read, PushShort, PushBlock, FoundEmpty, Await, TakeResult
<1>8. CASE PersistDiagnostics \/ CommitBatch
  BY <1>1, <1>8 DEF PersistDiagnostics, CommitBatch, Commit, TransactionFails, Row
<1> QED
  BY <1>4, <1>5, <1>6, <1>7, <1>8 DEF Writer

(***************************************************************************)
(* A change of the row that is not the writer's and leaves its count.      *)
(***************************************************************************)
LEMMA RowNoted ==
  ASSUME TypeOK, TimelineInv, ThreadInv, LossInv,
         UNCHANGED <<deviceVars, ring, handleVars, wpc, threadVars, writerVars, blocks>>,
         row' \in Row, failures' \in Nat,
         row'.frames = row.frames, row'.finished = row.finished
  PROVE  TypeOK' /\ TimelineInv' /\ ThreadInv' /\ LossInv'
<1>1. TypeOK'
  BY DEF TypeOK
<1>2. TimelineInv'
  BY DEF TimelineInv, Timeline
<1>3. ThreadInv'
  BY DEF ThreadInv, NothingHeld, Ended
<1>4. LossInv'
  BY DEF LossInv, Looping, BatchRoom
<1> QED
  BY <1>1, <1>2, <1>3, <1>4

(***************************************************************************)
(* What has been committed stays committed: the count never goes back.     *)
(***************************************************************************)
LEMMA FramesGrow ==
  ASSUME TypeOK, LossInv, Writer
  PROVE  frames' >= frames
<1>1. frames \in Nat /\ startFrame \in Nat /\ Len(pending) \in Nat /\ frames <= startFrame
  BY LenProperties DEF TypeOK, LossInv
<1>2. ASSUME NEW next, FlushBy(next)
      PROVE  frames' = frames \/ frames' = startFrame + Len(pending)
  BY <1>2 DEF FlushBy, Commit
<1>3. CASE FlushForPause \/ FlushOrphan \/ FlushAtEnd
  <2>1. frames' = frames \/ frames' = startFrame + Len(pending)
    BY <1>2, <1>3 DEF FlushForPause, FlushOrphan, FlushAtEnd
  <2> QED
    BY <1>1, <2>1
<1>4. CASE CommitBatch
  <2>1. frames' = frames \/ frames' = startFrame
    BY <1>4 DEF CommitBatch, Commit
  <2> QED
    BY <1>1, <2>1
<1>5. CASE LoadPause \/ Settle \/ Read \/ PushShort \/ PushBlock \/ FoundEmpty \/ Await \/ TakeResult
  <2>1. frames' = frames
    BY <1>5 DEF LoadPause, Settle, Read, PushShort, PushBlock, Prepare, FoundEmpty, Await,
       TakeResult
  <2> QED
    BY <1>1, <2>1
<1>6. CASE PersistDiagnostics \/ CloseAsTold \/ CloseInterrupted
  <2>1. frames' = frames
    BY <1>6 DEF PersistDiagnostics, CloseAsTold, CloseInterrupted, CloseSession
  <2> QED
    BY <1>1, <2>1
<1> QED
  BY <1>3, <1>4, <1>5, <1>6 DEF Writer

(***************************************************************************)
(* The counters the row is closed with are those the writer took when it   *)
(* was told how the capture ended.                                         *)
(***************************************************************************)
LEMMA WriterNotes ==
  ASSUME Writer, wpc \in {"finish", "close"} => noted = result.lost
  PROVE  wpc' \in {"finish", "close"} => noted' = result.lost
<1>1. ASSUME NEW next, FlushBy(next)
      PROVE  noted' = noted /\ wpc' \in {next, "failed", "dead"}
  BY <1>1 DEF FlushBy
<1>2. ASSUME NEW state, NEW next, CloseSession(state, next)
      PROVE  wpc' \in {next, "dead"}
  BY <1>2 DEF CloseSession
<1>3. CASE FlushForPause \/ FlushOrphan \/ FlushAtEnd
  BY <1>1, <1>3 DEF FlushForPause, FlushOrphan, FlushAtEnd
<1>4. CASE CloseAsTold \/ CloseInterrupted
  BY <1>2, <1>4 DEF CloseAsTold, CloseInterrupted
<1>5. CASE LoadPause \/ Settle \/ Read \/ PushShort \/ PushBlock \/ FoundEmpty \/ Await \/ TakeResult
  BY <1>5 DEF LoadPause, Settle, Read, PushShort, PushBlock, FoundEmpty, Await, TakeResult
<1>6. CASE PersistDiagnostics \/ CommitBatch
  BY <1>6 DEF PersistDiagnostics, CommitBatch
<1> QED
  BY <1>3, <1>4, <1>5, <1>6 DEF Writer

----------------------------------------------------------------------------
(* The audio of the blocks.                                                *)

(***************************************************************************)
(* Induction, said of a set: one that has 0 and, with a number, the next,  *)
(* has them all.                                                           *)
(***************************************************************************)
LEMMA SetInduction ==
  ASSUME NEW S, 0 \in S, \A n \in Nat : n \in S => n + 1 \in S
  PROVE  Nat \subseteq S
<1> DEFINE T == Nat \ S
           R == {ss \in Nat \X Nat : ss[1] < ss[2]}
<1>1. IsWellFoundedOn(R, Nat)
  BY NatLessThanWellFounded DEF OpToRel
<1>2. \A a, b \in Nat : a < b => <<a, b>> \in R
  OBVIOUS
<1> HIDE DEF R
<1>3. SUFFICES ASSUME T # {} PROVE FALSE
  OBVIOUS
<1>4. PICK x \in T : \A y \in T : ~ (<<y, x>> \in R)
  BY <1>1, <1>3, WFMin
<1>5. x # 0 /\ x - 1 \in Nat /\ x - 1 < x
  BY <1>4
<1>6. x - 1 \notin T
  BY <1>2, <1>4, <1>5
<1>7. (x - 1) + 1 \in S
  BY <1>5, <1>6
<1> QED
  BY <1>4, <1>5, <1>7

(***************************************************************************)
(* AudioOf is the last value of a function laid out step by step.  There   *)
(* is one for every number of blocks, and it depends on no later block.    *)
(***************************************************************************)
LayFrom(f, list, i) == IF i = 0 THEN <<>> ELSE f[i - 1] \o list[i].audio

Lays(f, list, n) == f = [i \in 0 .. n |-> LayFrom(f, list, i)]

LEMMA LaysOn ==
  ASSUME NEW list, NEW n \in Nat, NEW f, Lays(f, list, n)
  PROVE  \E g : Lays(g, list, n + 1)
<1> DEFINE g == [i \in 0 .. n + 1 |-> IF i = n + 1 THEN f[n] \o list[n + 1].audio ELSE f[i]]
<1>1. ASSUME NEW i \in 0 .. n + 1
      PROVE  g[i] = LayFrom(g, list, i)
  <2>1. CASE i = n + 1
    BY <2>1 DEF LayFrom
  <2>2. CASE i \in 0 .. n
    <3>1. f[i] = LayFrom(f, list, i)
      BY <2>2 DEF Lays
    <3>2. g[i] = f[i] /\ (i # 0 => g[i - 1] = f[i - 1])
      BY <2>2
    <3> QED
      BY <3>1, <3>2 DEF LayFrom
  <2> QED
    BY <2>1, <2>2
<1>2. g = [i \in 0 .. n + 1 |-> g[i]]
  OBVIOUS
<1> HIDE DEF g
<1>3. Lays(g, list, n + 1)
  BY <1>1, <1>2 DEF Lays
<1> QED
  BY <1>3

LEMMA LaysExist ==
  ASSUME NEW list, NEW n \in Nat
  PROVE  \E f : Lays(f, list, n)
<1> DEFINE S == {m \in Nat : \E f : Lays(f, list, m)}
<1>1. 0 \in S
  <2>1. Lays([i \in 0 .. 0 |-> <<>>], list, 0)
    BY DEF Lays, LayFrom
  <2> QED
    BY <2>1
<1>2. \A m \in Nat : m \in S => m + 1 \in S
  BY LaysOn
<1> HIDE DEF S
<1>3. n \in S
  BY <1>1, <1>2, SetInduction
<1> QED
  BY <1>3 DEF S

LEMMA LaysAgree ==
  ASSUME NEW one, NEW other, NEW f, NEW g, NEW n \in Nat, NEW k \in Nat,
         Lays(f, one, n), Lays(g, other, k), n <= k,
         \A i \in 1 .. n : one[i] = other[i]
  PROVE  \A i \in 0 .. n : f[i] = g[i]
<1> DEFINE S == {m \in Nat : m <= n => f[m] = g[m]}
<1>1. 0 \in S
  BY DEF Lays, LayFrom
<1>2. ASSUME NEW m \in Nat, m \in S, m + 1 <= n
      PROVE  f[m + 1] = g[m + 1]
  <2>1. f[m] = g[m] /\ one[m + 1] = other[m + 1]
    BY <1>2
  <2>2. f[m + 1] = LayFrom(f, one, m + 1) /\ g[m + 1] = LayFrom(g, other, m + 1)
    BY <1>2 DEF Lays
  <2>3. m + 1 # 0 /\ (m + 1) - 1 = m
    OBVIOUS
  <2> QED
    BY <2>1, <2>2, <2>3 DEF LayFrom
<1>3. \A m \in Nat : m \in S => m + 1 \in S
  BY <1>2
<1> HIDE DEF S
<1>4. Nat \subseteq S
  BY <1>1, <1>3, SetInduction
<1> QED
  BY <1>4 DEF S

LEMMA AudioLaid ==
  ASSUME NEW list, Len(list) \in Nat
  PROVE  \E f : Lays(f, list, Len(list)) /\ AudioOf(list) = f[Len(list)]
<1> DEFINE laid == CHOOSE f : Lays(f, list, Len(list))
<1>1. AudioOf(list) = laid[Len(list)]
  BY DEF AudioOf, Lays, LayFrom
<1>2. Lays(laid, list, Len(list))
  BY LaysExist
<1> QED
  BY <1>1, <1>2

LEMMA AudioOfNone == AudioOf(<<>>) = <<>>
<1>1. Len(<<>>) = 0
  OBVIOUS
<1>2. PICK f : Lays(f, <<>>, 0) /\ AudioOf(<<>>) = f[0]
  BY <1>1, AudioLaid
<1>3. f[0] = <<>>
  BY <1>2 DEF Lays, LayFrom
<1> QED
  BY <1>2, <1>3

LEMMA AudioOfOneMore ==
  ASSUME NEW list \in Seq(Block), NEW b \in Block
  PROVE  AudioOf(Append(list, b)) = AudioOf(list) \o b.audio
<1> DEFINE n == Len(list)
           more == Append(list, b)
<1>1. n \in Nat /\ Len(more) = n + 1 /\ more[n + 1] = b /\ \A i \in 1 .. n : more[i] = list[i]
  BY AppendProperties, LenProperties
<1> HIDE DEF n, more
<1>2. PICK f : Lays(f, list, n) /\ AudioOf(list) = f[n]
  BY <1>1, AudioLaid DEF n
<1>3. PICK g : Lays(g, more, n + 1) /\ AudioOf(more) = g[n + 1]
  BY <1>1, AudioLaid
<1>4. f[n] = g[n]
  BY <1>1, <1>2, <1>3, LaysAgree
<1>5. g[n + 1] = LayFrom(g, more, n + 1)
  BY <1>1, <1>3 DEF Lays
<1>6. n + 1 # 0 /\ (n + 1) - 1 = n
  BY <1>1
<1>7. AudioOf(more) = g[n] \o b.audio
  BY <1>1, <1>3, <1>5, <1>6 DEF LayFrom
<1> QED
  BY <1>2, <1>4, <1>7 DEF more

LEMMA AudioIsFrames ==
  ASSUME NEW list \in Seq(Block)
  PROVE  AudioOf(list) \in Seq(Frame)
<1> DEFINE n == Len(list)
<1>1. n \in Nat /\ \A i \in 1 .. n : list[i] \in Block
  BY LenProperties, ElementOfSeq
<1> HIDE DEF n
<1>2. PICK f : Lays(f, list, n) /\ AudioOf(list) = f[n]
  BY <1>1, AudioLaid DEF n
<1> DEFINE S == {m \in Nat : m <= n => f[m] \in Seq(Frame)}
<1>3. 0 \in S
  <2>1. f[0] = <<>> /\ <<>> \in Seq(Frame)
    BY <1>1, <1>2 DEF Lays, LayFrom
  <2> QED
    BY <2>1
<1>4. ASSUME NEW m \in Nat, m + 1 <= n, f[m] \in Seq(Frame)
      PROVE  f[m + 1] \in Seq(Frame)
  <2>1. list[m + 1].audio \in Seq(Frame)
    <3>1. m + 1 \in 1 .. n
      BY <1>1, <1>4
    <3>2. list[m + 1] \in Block
      BY <1>1, <3>1
    <3>3. \A b \in Block : b.audio \in Seq(Frame)
      BY DEF Block
    <3> QED
      BY <3>2, <3>3, Zenon
  <2>2. f[m + 1] = LayFrom(f, list, m + 1) /\ m + 1 # 0 /\ (m + 1) - 1 = m
    <3>1. \A i \in 0 .. n : f[i] = LayFrom(f, list, i)
      BY <1>2 DEF Lays
    <3>2. m + 1 \in 0 .. n /\ m + 1 # 0 /\ (m + 1) - 1 = m
      BY <1>1, <1>4
    <3> QED
      BY <3>1, <3>2
  <2>3. f[m + 1] = f[m] \o list[m + 1].audio
    BY <2>2 DEF LayFrom
  <2>4. f[m] \o list[m + 1].audio \in Seq(Frame)
    BY <1>4, <2>1, ConcatProperties
  <2> QED
    BY <2>3, <2>4, Zenon
<1>5. \A m \in Nat : m \in S => m + 1 \in S
  BY <1>1, <1>4
<1> HIDE DEF S
<1>6. n \in S
  BY <1>1, <1>3, <1>5, SetInduction
<1> QED
  BY <1>1, <1>2, <1>6 DEF S

----------------------------------------------------------------------------
(* What the capture holds.                                                 *)

(***************************************************************************)
(* A flush cuts what is pending into a block of its own; what the capture  *)
(* holds is what it was.                                                   *)
(***************************************************************************)
LEMMA HeldInTimeline ==
  ASSUME TypeOK
  PROVE  /\ Timeline \in Seq(Block) /\ AudioOf(Timeline) \in Seq(Frame)
         /\ AudioOf(Timeline \o ShortBlock) = AudioOf(Timeline) \o pending
         /\ Timeline \o ShortBlock = blocks \o (batch \o ShortBlock)
         /\ Held \in Seq(Frame)
<1> DEFINE b == [sequence |-> sequence, start |-> startFrame, audio |-> pending]
<1>1. blocks \in Seq(Block) /\ batch \in Seq(Block) /\ ShortBlock \in Seq(Block)
  BY ShortBlockType DEF TypeOK
<1>2. Timeline \in Seq(Block) /\ Timeline \o ShortBlock = blocks \o (batch \o ShortBlock)
  BY <1>1, ConcatProperties, ConcatAssociative DEF Timeline
<1>3. AudioOf(Timeline) \in Seq(Frame)
  BY <1>2, AudioIsFrames
<1>4. ASSUME pending = <<>>
      PROVE  AudioOf(Timeline \o ShortBlock) = AudioOf(Timeline) \o pending
  <2>1. ShortBlock = <<>>
    BY <1>4 DEF ShortBlock
  <2>2. Timeline \o ShortBlock = Timeline
    BY <1>2, <2>1, ConcatEmptySeq
  <2>3. AudioOf(Timeline) \o pending = AudioOf(Timeline)
    BY <1>3, <1>4, ConcatEmptySeq
  <2> QED
    BY <2>2, <2>3, Zenon
<1>5. ASSUME pending # <<>>
      PROVE  AudioOf(Timeline \o ShortBlock) = AudioOf(Timeline) \o pending
  <2>1. ShortBlock = <<b>> /\ b \in Block /\ b.audio = pending
    BY <1>5 DEF ShortBlock, TypeOK, Block
  <2> HIDE DEF b
  <2>2. Timeline \o ShortBlock = Append(Timeline, b)
    BY <1>2, <2>1, AppendIsConcat
  <2> QED
    BY <1>2, <2>1, <2>2, AudioOfOneMore, Zenon
<1>6. AudioOf(Timeline \o ShortBlock) = AudioOf(Timeline) \o pending
  BY <1>4, <1>5
<1>7. Held \in Seq(Frame)
  BY <1>3, ConcatProperties DEF Held, TypeOK
<1> QED
  BY <1>2, <1>3, <1>6, <1>7

LEMMA FlushKeepsHeld ==
  ASSUME TypeOK, NEW next, FlushBy(next)
  PROVE  /\ Timeline' = Timeline \o ShortBlock
         /\ blocks' = blocks \/ (blocks' = Timeline' /\ batch' = <<>> /\ frames' = startFrame')
         /\ Held' = Held
<1> DEFINE whole == batch \o ShortBlock
<1>1. blocks \in Seq(Block) /\ batch \in Seq(Block) /\ ShortBlock \in Seq(Block)
      /\ whole \in Seq(Block) /\ blocks \o whole \in Seq(Block)
  BY ShortBlockType, ConcatProperties DEF TypeOK
<1>2. Timeline \o ShortBlock = blocks \o whole
  BY HeldInTimeline
<1> DEFINE Carried ==
      /\ Timeline' = Timeline \o ShortBlock
      /\ blocks' = blocks \/ (blocks' = Timeline' /\ batch' = <<>> /\ frames' = startFrame')
<1>3. ASSUME whole = <<>>, UNCHANGED <<batch, blocks>>
      PROVE  Carried
  <2>1. ShortBlock = <<>>
    BY <1>1, <1>3, ConcatEqualIffEmpty
  <2>2. Timeline' = Timeline \o ShortBlock
    BY <1>3, <2>1, HeldInTimeline, ConcatEmptySeq DEF Timeline
  <2> QED
    BY <1>3, <2>2, Zenon
<1>4. ASSUME Commit(whole, startFrame + Len(pending))
      PROVE  Carried
  <2>1. blocks' = blocks \o whole /\ batch' = <<>> /\ frames' = startFrame'
    BY <1>4 DEF Commit, FlushBy
  <2>2. Timeline' = blocks \o whole
    BY <1>1, <2>1, ConcatEmptySeq DEF Timeline
  <2> QED
    BY <1>2, <2>1, <2>2, Zenon
<1>5. ASSUME TransactionFails, batch' = whole
      PROVE  Carried
  BY <1>2, <1>5 DEF TransactionFails, Timeline
<1>6. Carried
  BY <1>3, <1>4, <1>5 DEF FlushBy
<1>7. Held' = Held
  <2>1. pending' = <<>> /\ ring' = ring
    BY DEF FlushBy
  <2>2. AudioOf(Timeline') = AudioOf(Timeline) \o pending
    BY <1>6, HeldInTimeline
  <2>3. AudioOf(Timeline') \o <<>> = AudioOf(Timeline) \o pending
    BY <2>2, HeldInTimeline, ConcatProperties, ConcatEmptySeq DEF TypeOK
  <2> QED
    BY <2>1, <2>3 DEF Held
<1> QED
  BY <1>6, <1>7

(***************************************************************************)
(* A block that is cut from what is pending leaves the rest of it pending. *)
(***************************************************************************)
LEMMA PrepareKeepsHeld ==
  ASSUME TypeOK, PushBlock
  PROVE  /\ UNCHANGED <<blocks, ring>> /\ Held' = Held
         /\ \E b \in Block : /\ batch' = Append(batch, b) /\ Timeline' = Append(Timeline, b)
                             /\ Len(b.audio) = BlockFrames
<1> DEFINE b == [sequence |-> sequence, start |-> startFrame, audio |-> Taken(BlockFrames)]
<1>1. BlockFrames \in 0 .. Len(pending)
  BY CaptureAssumption, LenProperties DEF TypeOK, PushBlock
<1>2. /\ Taken(BlockFrames) \in Seq(Frame) /\ Left(BlockFrames) \in Seq(Frame)
      /\ Len(Taken(BlockFrames)) = BlockFrames
      /\ Taken(BlockFrames) \o Left(BlockFrames) = pending
  BY <1>1, CutType, CutWhole DEF TypeOK, Taken, Left
<1>3. b \in Block /\ b.audio = Taken(BlockFrames)
  BY <1>2 DEF TypeOK, Block
<1>4. batch' = Append(batch, b) /\ pending' = Left(BlockFrames) /\ UNCHANGED <<blocks, ring>>
  BY DEF PushBlock, Prepare
<1> HIDE DEF b
<1>5. Timeline' = Append(Timeline, b)
  <2>1. blocks \in Seq(Block) /\ batch \in Seq(Block) /\ <<b>> \in Seq(Block)
        /\ Timeline \in Seq(Block)
    BY <1>3, HeldInTimeline DEF TypeOK
  <2>2. batch' = batch \o <<b>>
    BY <1>3, <1>4, <2>1, AppendIsConcat
  <2>3. blocks \o (batch \o <<b>>) = (blocks \o batch) \o <<b>>
    BY <2>1, ConcatAssociative
  <2>4. Timeline' = Timeline \o <<b>>
    BY <1>4, <2>2, <2>3, Zenon DEF Timeline
  <2> QED
    BY <1>3, <2>1, <2>4, AppendIsConcat
<1>6. Held' = Held
  <2> DEFINE laid == AudioOf(Timeline)
  <2>1. laid \in Seq(Frame) /\ Timeline \in Seq(Block) /\ pending \in Seq(Frame)
    BY HeldInTimeline DEF TypeOK
  <2>2. AudioOf(Timeline') = laid \o Taken(BlockFrames)
    <3>1. AudioOf(Append(Timeline, b)) = AudioOf(Timeline) \o b.audio
      BY <1>3, <2>1, AudioOfOneMore
    <3> QED
      BY <1>3, <1>5, <3>1, Zenon
  <2> HIDE DEF laid
  <2>3. laid \in Seq(Frame)
    BY <2>1
  <2>4. Taken(BlockFrames) \in Seq(Frame) /\ Left(BlockFrames) \in Seq(Frame)
    BY <1>2
  <2>5. (laid \o Taken(BlockFrames)) \o Left(BlockFrames) = laid \o pending
    <3>1. Taken(BlockFrames) \o Left(BlockFrames) = pending
      BY <1>2
    <3>2. \A taken, left \in Seq(Frame) : (laid \o taken) \o left = laid \o (taken \o left)
      BY <2>3, FramesAssociate, Zenon
    <3>3. (laid \o Taken(BlockFrames)) \o Left(BlockFrames)
          = laid \o (Taken(BlockFrames) \o Left(BlockFrames))
      BY <2>4, <3>2, Zenon
    <3> QED
      BY <3>1, <3>3, Zenon
  <2>6. AudioOf(Timeline') \o pending' = laid \o pending
    BY <1>4, <2>2, <2>5, Zenon
  <2> QED
    BY <1>4, <2>6, Zenon DEF Held, laid
<1> QED
  BY <1>2, <1>3, <1>4, <1>5, <1>6

(***************************************************************************)
(* What is read goes from the ring to what is pending, or, while paused,   *)
(* nowhere.                                                                *)
(***************************************************************************)
LEMMA ReadKeepsHeld ==
  ASSUME TypeOK, Read
  PROVE  /\ UNCHANGED <<blocks, batch>> /\ Timeline' = Timeline
         /\ ~paused => Held' = Held
         /\ paused => /\ pending' = pending
                      /\ \E n \in 0 .. Len(ring) : ring' = SubSeq(ring, n + 1, Len(ring))
<1> DEFINE n == IF Len(ring) <= BlockFrames THEN Len(ring) ELSE BlockFrames
           got == SubSeq(ring, 1, n)
           rest == SubSeq(ring, n + 1, Len(ring))
           laid == AudioOf(Timeline)
<1>1. n \in 0 .. Len(ring)
  BY CaptureAssumption, LenProperties DEF TypeOK
<1>2. /\ ring' = rest /\ UNCHANGED <<blocks, batch>>
      /\ pending' = IF paused THEN pending ELSE pending \o got
  BY DEF Read
<1>3. Timeline' = Timeline
  BY <1>2 DEF Timeline
<1> HIDE DEF n
<1>4. got \in Seq(Frame) /\ rest \in Seq(Frame) /\ got \o rest = ring
  BY <1>1, CutType, CutWhole DEF TypeOK
<1>5. laid \in Seq(Frame) /\ pending \in Seq(Frame)
  BY HeldInTimeline DEF TypeOK
<1> HIDE DEF got, rest, laid
<1>6. ASSUME ~paused
      PROVE  Held' = Held
  <2>1. laid \o (pending \o got) = (laid \o pending) \o got
    BY <1>4, <1>5, FramesAssociate
  <2>2. laid \o pending \in Seq(Frame)
    BY <1>5, ConcatProperties
  <2>3. ((laid \o pending) \o got) \o rest = (laid \o pending) \o (got \o rest)
    BY <1>4, <2>2, FramesAssociate
  <2>4. (laid \o (pending \o got)) \o rest = (laid \o pending) \o ring
    BY <1>4, <2>1, <2>3, Zenon
  <2>5. pending' = pending \o got /\ ring' = rest /\ AudioOf(Timeline') = laid
    BY <1>2, <1>3, <1>6, Zenon DEF laid
  <2> QED
    BY <2>4, <2>5, Zenon DEF Held, laid
<1>7. paused => /\ pending' = pending
                /\ \E m \in 0 .. Len(ring) : ring' = SubSeq(ring, m + 1, Len(ring))
  BY <1>1, <1>2 DEF rest
<1> QED
  BY <1>2, <1>3, <1>6, <1>7

(***************************************************************************)
(* What a step of the writer does to the blocks, and to what is held.      *)
(***************************************************************************)
LEMMA HeldStep ==
  ASSUME TypeOK, Writer
  PROVE  /\ blocks' = blocks \/ (blocks' = Timeline' /\ batch' = <<>> /\ frames' = startFrame')
         /\ \/ Held' = Held
            \/ /\ paused /\ Timeline' = Timeline /\ pending' = pending
               /\ \E n \in 0 .. Len(ring) : ring' = SubSeq(ring, n + 1, Len(ring))
<1>1. CASE FlushForPause \/ FlushOrphan \/ FlushAtEnd
  BY <1>1, FlushKeepsHeld DEF FlushForPause, FlushOrphan, FlushAtEnd
<1>2. CASE PushBlock
  BY <1>2, PrepareKeepsHeld
<1>3. CASE Read
  BY <1>3, ReadKeepsHeld
<1>4. CASE UNCHANGED <<blocks, batch, pending, ring>>
  BY <1>4 DEF Held, Timeline
<1>5. CASE CommitBatch
  <2>1. pending' = pending /\ ring' = ring
    BY <1>5 DEF CommitBatch
  <2>2. CASE Commit(batch, startFrame)
    <3>1. blocks' = Timeline /\ batch' = <<>> /\ frames' = startFrame /\ startFrame' = startFrame
      BY <1>5, <2>2 DEF CommitBatch, Commit, Timeline
    <3>2. Timeline' = Timeline
      BY <3>1, HeldInTimeline, ConcatEmptySeq DEF Timeline
    <3> QED
      BY <2>1, <3>1, <3>2 DEF Held
  <2>3. CASE TransactionFails /\ UNCHANGED batch
    BY <1>4, <2>1, <2>3 DEF TransactionFails
  <2> QED
    BY <1>5, <2>2, <2>3 DEF CommitBatch
<1>6. CASE LoadPause \/ Settle \/ PushShort \/ FoundEmpty \/ Await \/ TakeResult
  BY <1>4, <1>6 DEF LoadPause, Settle, PushShort, FoundEmpty, Await, TakeResult
<1>7. CASE PersistDiagnostics \/ CloseAsTold \/ CloseInterrupted
  BY <1>4, <1>7 DEF PersistDiagnostics, CloseAsTold, CloseInterrupted, CloseSession,
     TransactionFails
<1> QED
  BY <1>1, <1>2, <1>3, <1>5, <1>6, <1>7 DEF Writer

----------------------------------------------------------------------------
(***************************************************************************)
(* The pipeline under any owner of the Handle.                             *)
(***************************************************************************)
LEMMA BegunStarts ==
  ASSUME CaptureInit
  PROVE  TypeOK /\ TimelineInv /\ ThreadInv
<1>1. row \in Row /\ row.frames = 0 /\ ~row.finished
  BY DEF CaptureInit, Begun, Row
<1> QED
  BY <1>1, PipelineStarts DEF CaptureInit

LEMMA StepWritesOrIsAside ==
  ASSUME [OwnerNext]_captureVars
  PROVE  Writer \/ Aside
<1>1. CASE AnyOwner
  BY <1>1, HandleAside DEF AnyOwner
<1>2. CASE UNCHANGED captureVars
  BY <1>2 DEF Aside
<1> QED
  BY <1>1, <1>2, DeviceAside DEF OwnerNext, RunOut

(***************************************************************************)
(* Type correctness: whatever the owner does, the pipeline's state stays   *)
(* inside its types.                                                       *)
(***************************************************************************)
THEOREM TypeCorrect == OwnerSpec => []TypeOK
<1>1. CaptureInit => TypeOK
  BY BegunStarts DEF CaptureInit
<1>2. TypeOK /\ [OwnerNext]_captureVars => TypeOK'
  <2> SUFFICES ASSUME TypeOK, [OwnerNext]_captureVars
               PROVE  TypeOK'
    OBVIOUS
  <2>1. CASE AnyOwner
    <3>1. 0 .. lost \subseteq Nat
      BY DEF TypeOK
    <3> QED
      BY <2>1, <3>1, HandleType DEF AnyOwner, Endings
  <2>2. CASE UNCHANGED captureVars
    BY <2>2 DEF TypeOK
  <2> QED
    BY <2>1, <2>2, DeviceType, WriterType DEF OwnerNext, RunOut
<1> QED
  BY <1>1, <1>2, PTL DEF OwnerSpec

(***************************************************************************)
(* The timeline invariant holds of every behaviour.                        *)
(***************************************************************************)
THEOREM TimelineHolds == OwnerSpec => []TimelineInv
<1>1. CaptureInit => TimelineInv
  BY BegunStarts DEF CaptureInit
<1>2. TypeOK /\ TimelineInv /\ [OwnerNext]_captureVars => TimelineInv'
  BY StepWritesOrIsAside, TimelineStep
<1> QED
  BY <1>1, <1>2, TypeCorrect, PTL DEF OwnerSpec

(***************************************************************************)
(* persistence.rs: the blocks of a capture tile its timeline with no gap,  *)
(* and captures.frames is exactly what they hold, at every instant: before *)
(* and after every commit that succeeds or fails, pause, early release of  *)
(* the device and closing of the session.                                  *)
(***************************************************************************)
THEOREM BlocksAlwaysTile == OwnerSpec => [](BlocksTile /\ RowCountsBlocks)
<1>1. TypeOK /\ TimelineInv => BlocksTile /\ RowCountsBlocks
  BY TiledPrefix DEF TypeOK, TimelineInv, Timeline, BlocksTile, RowCountsBlocks
<1> QED
  BY <1>1, TypeCorrect, TimelineHolds, PTL

----------------------------------------------------------------------------
(* What the thread holds.                                                  *)

THEOREM ThreadHolds == OwnerSpec => []ThreadInv
<1>1. CaptureInit => ThreadInv
  BY BegunStarts DEF CaptureInit
<1>2. TypeOK /\ ThreadInv /\ [OwnerNext]_captureVars => ThreadInv'
  BY StepWritesOrIsAside, ThreadStep, ThreadAside
<1> QED
  BY <1>1, <1>2, TypeCorrect, PTL DEF OwnerSpec

(***************************************************************************)
(* A closed session is complete: its row counts everything the writer      *)
(* took, failed and retried transactions included, and nothing is left in  *)
(* memory.                                                                 *)
(***************************************************************************)
THEOREM ClosedIsComplete == OwnerSpec => []ClosedHoldsAll
<1>1. TypeOK /\ TimelineInv /\ ThreadInv => ClosedHoldsAll
  <2> SUFFICES ASSUME TypeOK, TimelineInv, ThreadInv, row.finished
               PROVE  pending = <<>> /\ batch = <<>> /\ row.frames = startFrame
    BY DEF ClosedHoldsAll
  <2>1. pending = <<>> /\ batch = <<>>
    BY DEF ThreadInv, NothingHeld
  <2>2. Timeline = blocks
    BY <2>1, ConcatEmptySeq DEF TypeOK, Timeline
  <2> QED
    BY <2>1, <2>2 DEF TimelineInv
<1> QED
  BY <1>1, TypeCorrect, TimelineHolds, ThreadHolds, PTL

(***************************************************************************)
(* Handle::pause: while is_paused() reports the pause, everything the      *)
(* writer has taken is in the project.                                     *)
(***************************************************************************)
THEOREM PauseIsSafe == OwnerSpec => []PauseRisksNothing
<1>1. ThreadInv => PauseRisksNothing
  BY DEF ThreadInv, PauseRisksNothing, NothingHeld
<1> QED
  BY <1>1, ThreadHolds, PTL

(***************************************************************************)
(* A closed session is never written again.                                *)
(***************************************************************************)
THEOREM ClosedStaysClosed == OwnerSpec => ClosedIsFinal
<1>1. ThreadInv /\ [OwnerNext]_captureVars =>
        [row.finished => blocks' = blocks /\ row' = row]_captureVars
  <2> SUFFICES ASSUME ThreadInv, OwnerNext, row.finished
               PROVE  blocks' = blocks /\ row' = row
    OBVIOUS
  <2>1. wpc \in {"done", "dead"}
    BY DEF ThreadInv, Ended
  <2>2. ~Writer
    BY <2>1 DEF Writer, LoadPause, FlushForPause, Settle, PersistDiagnostics, Read,
       PushShort, PushBlock, CommitBatch, FoundEmpty, FlushOrphan, Await,
       TakeResult, FlushAtEnd, CloseAsTold, CloseInterrupted
  <2> QED
    BY <2>2 DEF OwnerNext, Device, CallbackPush, CallbackCount, AnyOwner, SetResult,
       Note, SetPause, SetStop, CloseStream, RunOut
<1> QED
  BY <1>1, ThreadHolds, PTL DEF OwnerSpec, ClosedIsFinal

(***************************************************************************)
(* Nothing is committed between the moment is_paused() reports a pause and *)
(* the moment it reports the end of it.                                    *)
(***************************************************************************)
THEOREM HoldingIsQuiet == OwnerSpec => HoldingWritesNothing
<1>1. TypeOK /\ ThreadInv /\ [OwnerNext]_captureVars =>
        [holding => blocks' = blocks]_captureVars
  <2> SUFFICES ASSUME TypeOK, ThreadInv, OwnerNext, holding
               PROVE  blocks' = blocks
    OBVIOUS
  <2>1. wasPaused /\ wpc \notin {"pause", "push", "commit", "failed"}
    BY DEF ThreadInv
  <2>2. CASE FlushForPause \/ FlushOrphan \/ FlushAtEnd
    BY <2>1, <2>2, FlushHolds DEF ThreadInv, FlushForPause, FlushOrphan, FlushAtEnd
  <2>3. CASE LoadPause \/ Settle \/ PersistDiagnostics \/ Read \/ PushShort
             \/ PushBlock \/ CommitBatch \/ FoundEmpty \/ Await \/ TakeResult
             \/ CloseAsTold \/ CloseInterrupted
    BY <2>1, <2>3 DEF LoadPause, Settle, PersistDiagnostics, Read, PushShort,
       PushBlock, CommitBatch, FoundEmpty, Await, TakeResult, CloseAsTold,
       CloseInterrupted, CloseSession, TransactionFails
  <2>4. CASE Device \/ AnyOwner \/ RunOut
    BY <2>4 DEF Device, CallbackPush, CallbackCount, AnyOwner, SetResult,
       Note, SetPause, SetStop, CloseStream, RunOut
  <2> QED
    BY <2>2, <2>3, <2>4 DEF OwnerNext, Writer
<1> QED
  BY <1>1, TypeCorrect, ThreadHolds, PTL DEF OwnerSpec, HoldingWritesNothing

(***************************************************************************)
(* Config::batch_blocks: between two turns of its loop the writer has less *)
(* than block_millis * batch_blocks uncommitted, whatever was paused,      *)
(* whatever failed and whatever a batch of no blocks is taken to mean.     *)
(***************************************************************************)
THEOREM LossIsBounded == OwnerSpec => []LossWithinGranularity
<1>1. CaptureInit => LossInv
  BY LossStarts DEF CaptureInit
<1>2. TypeOK /\ LossInv /\ [OwnerNext]_captureVars => LossInv'
  BY StepWritesOrIsAside, LossStep
<1>3. TypeOK /\ LossInv => LossWithinGranularity
  BY LossBound
<1> QED
  BY <1>1, <1>2, <1>3, TypeCorrect, PTL DEF OwnerSpec

=============================================================================
