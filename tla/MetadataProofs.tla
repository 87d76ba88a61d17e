---------------------------- MODULE MetadataProofs ----------------------------
(***************************************************************************)
(* Proofs about the provider client, for any set of calls, any interval,   *)
(* any retry policy and any collision of cache keys.                       *)
(***************************************************************************)
EXTENDS MetadataClient, TLAPS

USE DEF clientVars, cacheVars, limiterVars

----------------------------------------------------------------------------
(* The limiter.                                                            *)

LEMMA LimiterStarts ==
  ASSUME LimiterInit
  PROVE  LimiterTypeOK /\ SlotsApart
<1> QED
  BY DEF LimiterInit, LimiterTypeOK, SlotsApart, Held, NoSlot

LEMMA ReserveKeeps ==
  ASSUME LimiterTypeOK, SlotsApart, NEW c \in Callers, NEW since \in Nat,
         slot[c] = NoSlot, Reserve(c, since)
  PROVE  LimiterTypeOK' /\ SlotsApart'
<1> DEFINE at == IssueAt(since)
<1>1. at \in Nat /\ at >= nextFree
  BY DEF IssueAt, LimiterTypeOK
<1> HIDE DEF at
<1>2. /\ slot' = [slot EXCEPT ![c] = at]
      /\ nextFree' = at + Interval /\ spent' = spent
  BY DEF Reserve, at
<1>3. LimiterTypeOK'
  BY <1>1, <1>2, LimiterAssumption DEF LimiterTypeOK, NoSlot
<1>4. /\ slot'[c] = at
      /\ \A d \in Held' : d # c => d \in Held /\ slot'[d] = slot[d]
  BY <1>2 DEF LimiterTypeOK, Held
<1>5. \A d \in Held : slot[d] \in Nat
  BY DEF LimiterTypeOK, Held
<1>6. \A d \in Held : slot[d] + Interval <= at
  BY <1>1, <1>5, LimiterAssumption DEF SlotsApart, LimiterTypeOK
<1>7. \A s \in spent : s \in Nat /\ s + Interval <= at
  BY <1>1, LimiterAssumption DEF SlotsApart, LimiterTypeOK
<1>8. \A d, e \in Held' : d # e => Apart(slot'[d], slot'[e])
  BY <1>4, <1>6 DEF SlotsApart, Apart
<1>9. \A d \in Held' : \A s \in spent' : Apart(slot'[d], s)
  BY <1>2, <1>4, <1>7 DEF SlotsApart, Apart
<1>10. \A d \in Held' : slot'[d] + Interval <= nextFree'
  BY <1>1, <1>2, <1>4, <1>5, <1>6, LimiterAssumption
<1>11. \A s \in spent' : s + Interval <= nextFree'
  BY <1>1, <1>2, <1>7, LimiterAssumption
<1>12. \A s, t \in spent' : s # t => Apart(s, t)
  BY <1>2 DEF SlotsApart, Apart
<1> QED
  BY <1>3, <1>8, <1>9, <1>10, <1>11, <1>12 DEF SlotsApart

(***************************************************************************)
(* Handing back is safe because the slot that is handed back is the newest *)
(* one exactly when the next free instant is one interval after it: being  *)
(* one interval apart from it, every other slot is then before it.         *)
(***************************************************************************)
LEMMA ReleaseKeeps ==
  ASSUME LimiterTypeOK, SlotsApart, NEW c \in Held, Release(c)
  PROVE  LimiterTypeOK' /\ SlotsApart'
<1>1. c \in Callers /\ slot[c] \in Nat /\ nextFree \in Nat
  BY DEF LimiterTypeOK, Held
<1>2. /\ slot' = [slot EXCEPT ![c] = NoSlot] /\ spent' = spent
      /\ nextFree' = IF nextFree = slot[c] + Interval THEN slot[c] ELSE nextFree
  BY DEF Release, ReservedUntil
<1>3. LimiterTypeOK'
  BY <1>1, <1>2 DEF LimiterTypeOK, NoSlot
<1>4. \A d \in Held' : d \in Held /\ d # c /\ slot'[d] = slot[d] /\ slot[d] \in Nat
  BY <1>1, <1>2 DEF LimiterTypeOK, Held
<1>5. \A d \in Held' : slot'[d] + Interval <= nextFree'
  <2> SUFFICES ASSUME NEW d \in Held'
               PROVE  slot[d] + Interval <= nextFree'
    BY <1>4
  <2>1. d \in Held /\ d # c /\ slot[d] \in Nat
    BY <1>4
  <2>2. Apart(slot[d], slot[c]) /\ slot[d] + Interval <= nextFree
    BY <2>1 DEF SlotsApart
  <2> QED
    BY <1>1, <1>2, <2>1, <2>2, LimiterAssumption DEF Apart
<1>6. \A s \in spent' : s + Interval <= nextFree'
  <2> SUFFICES ASSUME NEW s \in spent
               PROVE  s + Interval <= nextFree'
    BY <1>2
  <2>1. s \in Nat /\ Apart(slot[c], s) /\ s + Interval <= nextFree
    BY DEF SlotsApart, LimiterTypeOK
  <2> QED
    BY <1>1, <1>2, <2>1, LimiterAssumption DEF Apart
<1>7. /\ \A d, e \in Held' : d # e => Apart(slot'[d], slot'[e])
      /\ \A d \in Held' : \A s \in spent' : Apart(slot'[d], s)
      /\ \A s, t \in spent' : s # t => Apart(s, t)
  BY <1>2, <1>4 DEF SlotsApart, Apart
<1> QED
  BY <1>3, <1>5, <1>6, <1>7 DEF SlotsApart

LEMMA SpendKeeps ==
  ASSUME LimiterTypeOK, SlotsApart, NEW c \in Held, Spend(c)
  PROVE  LimiterTypeOK' /\ SlotsApart'
<1>1. c \in Callers /\ slot[c] \in Nat
  BY DEF LimiterTypeOK, Held
<1>2. /\ slot' = [slot EXCEPT ![c] = NoSlot]
      /\ spent' = spent \cup {slot[c]} /\ nextFree' = nextFree
  BY DEF Spend
<1>3. LimiterTypeOK'
  BY <1>1, <1>2 DEF LimiterTypeOK, NoSlot
<1>4. \A d \in Held' : d \in Held /\ d # c /\ slot'[d] = slot[d]
  BY <1>1, <1>2 DEF LimiterTypeOK, Held
<1>5. \A s \in spent' : s = slot[c] \/ s \in spent
  BY <1>2
<1>6. \A d, e \in Held' : d # e => Apart(slot'[d], slot'[e])
  BY <1>4 DEF SlotsApart, Apart
<1>7. \A d \in Held' : \A s \in spent' : Apart(slot'[d], s)
  BY <1>4, <1>5 DEF SlotsApart, Apart
<1>8. \A s, t \in spent' : s # t => Apart(s, t)
  BY <1>5 DEF SlotsApart, Apart
<1>9. /\ \A d \in Held' : slot'[d] + Interval <= nextFree'
      /\ \A s \in spent' : s + Interval <= nextFree'
  BY <1>2, <1>4, <1>5 DEF SlotsApart
<1> QED
  BY <1>3, <1>6, <1>7, <1>8, <1>9 DEF SlotsApart

LEMMA LimiterRests ==
  ASSUME LimiterTypeOK, SlotsApart, UNCHANGED limiterVars
  PROVE  LimiterTypeOK' /\ SlotsApart'
<1> QED
  BY DEF LimiterTypeOK, SlotsApart, Held, Apart

----------------------------------------------------------------------------
(* Types.                                                                  *)

LEMMA BackoffType ==
  ASSUME NEW n \in Nat
  PROVE  Backoff(n) \in Int
<1>1. CASE n <= 1
  BY <1>1 DEF Backoff
<1>2. CASE n > 1
  <2>1. Smaller(n - 2, 16) \in Nat
    BY <1>2 DEF Smaller
  <2>2. 2 ^ Smaller(n - 2, 16) \in Int
    BY <2>1
  <2> QED
    BY <1>2, <2>2, ClientAssumption DEF Backoff, Smaller
<1> QED
  BY <1>1, <1>2

(***************************************************************************)
(* What Retry::after says, when it says anything: an attempt is left, the  *)
(* failure is one worth repeating, and the wait is long enough.            *)
(***************************************************************************)
LEMMA AfterSays ==
  ASSUME NEW n \in Nat, NEW answer \in Answers,
         After(n, answer.kind, Arrived(answer)) # Stop
  PROVE  /\ n + 1 <= Attempts
         /\ answer.kind \in {"limited", "trouble"}
         /\ Arrived(answer) \in Int /\ Arrived(answer) <= MaxBackoff
         /\ After(n, answer.kind, Arrived(answer)) \in Int
         /\ After(n, answer.kind, Arrived(answer)) = Larger(Arrived(answer), Backoff(n + 1))
<1>1. answer.kind \in Kinds /\ answer.after \in Int
  BY ClientAssumption DEF Answers, NoAfter, Kinds
<1>2. Arrived(answer) \in Int
  BY <1>1 DEF Arrived, NoAfter
<1>3. Backoff(n + 1) \in Int
  BY BackoffType
<1> QED
  BY <1>1, <1>2, <1>3, ClientAssumption DEF After, Kinds, Larger

LEMMA PlaceIsAPath ==
  ASSUME NEW c \in Callers
  PROVE  /\ PlaceOf(c) \in Paths /\ UrlOf[c] \in Urls
         /\ UrlOf[c] \in Keys /\ "none" \in Keys
<1> QED
  BY DEF PlaceOf, Paths, Urls, Keys

LEMMA EntryTypes ==
  ASSUME NEW u \in Keys, NEW t \in Int
  PROVE  Absent \in Entry /\ WholeOf(u, t) \in Entry
<1> QED
  BY DEF Absent, WholeOf, Entry, Keys

LEMMA PlaceType ==
  ASSUME NEW place \in Places
  PROVE  AtPlace(place) \in Call
<1>1. Absent \in Entry
  BY EntryTypes DEF Keys
<1> QED
  BY <1>1 DEF AtPlace, Call, Silence, NoAfter

(***************************************************************************)
(* The steps of a call that only move it on.                               *)
(***************************************************************************)
LEMMA GotoType ==
  ASSUME ClientTypeOK, NEW c \in Callers, NEW place \in Places, Goto(c, place)
  PROVE  call' \in [Callers -> Call] /\ result' = result
<1>1. call \in [Callers -> Call] /\ call[c] \in Call
  BY DEF ClientTypeOK
<1>2. [call[c] EXCEPT !.pc = place] \in Call
  BY <1>1 DEF Call
<1>3. call' = [call EXCEPT ![c] = [call[c] EXCEPT !.pc = place]] /\ result' = result
  BY DEF Goto
<1> QED
  BY <1>1, <1>2, <1>3, Zenon

LEMMA ReturnType ==
  ASSUME ClientTypeOK, NEW c \in Callers, NEW e \in Entry,
         NEW how \in {"cancelled", "hit", "fetched", "failed"}, Return(c, how, e)
  PROVE  /\ call' \in [Callers -> Call]
         /\ result' \in [Callers -> [how : {"none", "cancelled", "hit", "fetched", "failed"},
                                     entry : Entry]]
<1>1. AtPlace("done") \in Call
  BY PlaceType DEF Places
<1> QED
  BY <1>1 DEF ClientTypeOK, Return

LEMMA ClientStarts ==
  ASSUME Init
  PROVE  ClientTypeOK
<1>1. AtPlace("idle") \in Call /\ Absent \in Entry
  BY PlaceType, EntryTypes DEF Places, Keys
<1>2. entry \in [Paths \cup Urls -> Entry]
  <2>1. \A u \in DOMAIN PathOf : WholeOf(u, 0) \in Entry
    BY EntryTypes DEF Keys
  <2>2. ASSUME entry \in EarlierEntries
        PROVE  entry \in [Paths \cup Urls -> Entry]
    BY <1>1, <2>1, <2>2 DEF EarlierEntries
  <2>3. ASSUME entry = [p \in Paths \cup Urls |-> Absent]
        PROVE  entry \in [Paths \cup Urls -> Entry]
    BY <1>1, <2>3
  <2> QED
    BY <2>2, <2>3 DEF Init
<1>3. /\ setup \in Setups /\ now = 0
      /\ call = [c \in Callers |-> AtPlace("idle")]
      /\ cancelled = [c \in Callers |-> "no"]
      /\ result = [c \in Callers |-> Nothing]
      /\ part = [p \in Paths |-> Absent] /\ writing = [c \in Callers |-> "none"]
  BY DEF Init
<1> QED
  BY <1>1, <1>2, <1>3 DEF ClientTypeOK, Nothing

(***************************************************************************)
(* One field of a call at a time.                                          *)
(***************************************************************************)
Seen == [kind : Kinds \cup {"none"}, heard : Int, at : Int]

LEMMA CallFields ==
  ASSUME NEW k \in Call
  PROVE  /\ k.read \in Entry /\ k.attempt \in Nat /\ k.since \in Nat
         /\ k.left \in Int /\ k.wake \in Int /\ k.pc \in Places
<1> QED
  BY DEF Call

LEMMA EntryUpdates ==
  ASSUME NEW e \in Entry, NEW u \in Keys, NEW t \in Int
  PROVE  /\ [e EXCEPT !.key = u, !.first = u, !.at = t] \in Entry
         /\ [e EXCEPT !.second = u, !.at = t] \in Entry
<1>1. \A d \in Entry : /\ [d EXCEPT !.key = u] \in Entry
                       /\ [d EXCEPT !.first = u] \in Entry
                       /\ [d EXCEPT !.second = u] \in Entry
                       /\ [d EXCEPT !.at = t] \in Entry
  BY DEF Entry
<1> QED
  BY <1>1

LEMMA CallUpdates ==
  ASSUME NEW k \in Call
  PROVE  /\ \A p \in Places : [k EXCEPT !.pc = p] \in Call
         /\ \A n \in Nat : [k EXCEPT !.attempt = n] \in Call
         /\ \A t \in Nat : [k EXCEPT !.since = t] \in Call
         /\ \A l \in Int : [k EXCEPT !.left = l] \in Call
         /\ \A w \in Int : [k EXCEPT !.wake = w] \in Call
         /\ \A f \in Seen : [k EXCEPT !.last = f] \in Call
         /\ \A e \in Entry : [k EXCEPT !.read = e] \in Call
<1>1. k \in [pc : Places, attempt : Nat, since : Nat, left : Int, wake : Int,
            last : Seen, read : Entry]
  BY DEF Call, Seen
<1>2. \A p \in Places : [k EXCEPT !.pc = p] \in Call
  BY <1>1 DEF Call, Seen
<1>3. \A n \in Nat : [k EXCEPT !.attempt = n] \in Call
  BY <1>1 DEF Call, Seen
<1>4. \A t \in Nat : [k EXCEPT !.since = t] \in Call
  BY <1>1 DEF Call, Seen
<1>5. \A l \in Int : [k EXCEPT !.left = l] \in Call
  BY <1>1 DEF Call, Seen
<1>6. \A w \in Int : [k EXCEPT !.wake = w] \in Call
  BY <1>1 DEF Call, Seen
<1>7. \A f \in Seen : [k EXCEPT !.last = f] \in Call
  BY <1>1 DEF Call, Seen
<1>8. \A e \in Entry : [k EXCEPT !.read = e] \in Call
  BY <1>1 DEF Call, Seen
<1> QED
  BY <1>2, <1>3, <1>4, <1>5, <1>6, <1>7, <1>8

(***************************************************************************)
(* A call keeps the client's state well typed: one step per action.        *)
(***************************************************************************)
LEMMA StepType ==
  ASSUME ClientTypeOK, LimiterTypeOK, NEW c \in Callers, CallStep(c)
  PROVE  ClientTypeOK'
<1> DEFINE how == {"cancelled", "hit", "fetched", "failed"}
           Results == [how : {"none"} \cup how, entry : Entry]
<1>0. /\ call \in [Callers -> Call] /\ call[c] \in Call
      /\ result \in [Callers -> Results] /\ now \in Nat
      /\ entry \in [Paths \cup Urls -> Entry] /\ part \in [Paths -> Entry]
      /\ writing \in [Callers -> {"none", "part", "entry", "gone"}]
  BY DEF ClientTypeOK
<1>a. /\ PlaceOf(c) \in Paths /\ UrlOf[c] \in Urls /\ UrlOf[c] \in Keys
      /\ "none" \in Keys
  BY PlaceIsAPath
<1>b. Absent \in Entry /\ WholeOf(UrlOf[c], now) \in Entry
  BY <1>0, <1>a, EntryTypes
<1>c. /\ entry[PlaceOf(c)] \in Entry /\ entry[UrlOf[c]] \in Entry
      /\ part[PlaceOf(c)] \in Entry
  BY <1>0, <1>a
<1>d. AtPlace("top") \in Call
  BY PlaceType DEF Places
<1>e. ASSUME NEW r \in Call, call' = [call EXCEPT ![c] = r]
      PROVE  call' \in [Callers -> Call]
  BY <1>0, <1>e
<1>f. ASSUME call' \in [Callers -> Call], result' \in [Callers -> Results],
             UNCHANGED <<setup, now, cancelled, entry, part, writing>>
      PROVE  ClientTypeOK'
  BY <1>f DEF ClientTypeOK
<1>g. ASSUME NEW e \in Entry, NEW h \in how, Return(c, h, e)
      PROVE  call' \in [Callers -> Call] /\ result' \in [Callers -> Results]
  BY <1>g, ReturnType
<1>h. ASSUME NEW place \in Places, Goto(c, place)
      PROVE  call' \in [Callers -> Call] /\ result' \in [Callers -> Results]
  BY <1>0, <1>h, GotoType
<1>1. ASSUME Interrupted(c) PROVE ClientTypeOK'
  <2>1. Return(c, "cancelled", Absent)
    BY <1>1 DEF Interrupted
  <2> QED
    BY <1>1, <1>b, <1>f, <1>g, <2>1 DEF Interrupted, Local
<1>2. ASSUME BeginUncached(c) PROVE ClientTypeOK'
  <2>1. Goto(c, "top") /\ "top" \in Places
    BY <1>2 DEF BeginUncached, Places
  <2> QED
    BY <1>2, <1>f, <1>h, <2>1 DEF BeginUncached, Local
<1>3. ASSUME LookInMemory(c) PROVE ClientTypeOK'
  <2>1. \/ Return(c, "hit", entry[UrlOf[c]])
        \/ Goto(c, "top") /\ "top" \in Places
    BY <1>3 DEF LookInMemory, Places
  <2> QED
    BY <1>3, <1>c, <1>f, <1>g, <1>h, <2>1 DEF LookInMemory, Local
<1>4. ASSUME ReadEntry(c) PROVE ClientTypeOK'
  <2> DEFINE r == [call[c] EXCEPT !.pc = "age", !.read = entry[PlaceOf(c)]]
  <2>1. r \in Call
    <3> DEFINE k == [call[c] EXCEPT !.pc = "age"]
    <3>1. k \in Call
      BY <1>0, CallUpdates DEF Places
    <3> HIDE DEF k
    <3>2. [k EXCEPT !.read = entry[PlaceOf(c)]] \in Call
      BY <1>c, <3>1, CallUpdates
    <3> QED
      BY <3>2 DEF k
  <2>2. call' = [call EXCEPT ![c] = r]
    BY <1>4 DEF ReadEntry
  <2> QED
    BY <1>4, <1>0, <1>e, <1>f, <2>1, <2>2 DEF ReadEntry, Local
<1>5. ASSUME JudgeEntry(c) PROVE ClientTypeOK'
  <2>1. call[c].read \in Entry
    BY <1>0, CallFields
  <2>2. \/ Return(c, "hit", call[c].read)
        \/ call' = [call EXCEPT ![c] = AtPlace("top")] /\ result' = result
    BY <1>5 DEF JudgeEntry
  <2> QED
    BY <1>5, <1>0, <1>d, <1>e, <1>f, <1>g, <2>1, <2>2 DEF JudgeEntry, Local
<1>6. ASSUME ReadClock(c) PROVE ClientTypeOK'
  <2> DEFINE n == call[c].attempt + 1
             r == [call[c] EXCEPT !.pc = "reserve", !.attempt = n, !.since = now]
  <2>1. r \in Call
    <3> DEFINE k == [call[c] EXCEPT !.pc = "reserve"]
               j == [k EXCEPT !.attempt = n]
    <3>0. n \in Nat
      BY <1>0, CallFields
    <3>1. k \in Call
      BY <1>0, CallUpdates DEF Places
    <3> HIDE DEF k, n
    <3>2. j \in Call
      BY <3>0, <3>1, CallUpdates
    <3> HIDE DEF j
    <3>3. [j EXCEPT !.since = now] \in Call
      BY <1>0, <3>2, CallUpdates
    <3> QED
      BY <3>3 DEF j, k
  <2>2. call' = [call EXCEPT ![c] = r]
    BY <1>6 DEF ReadClock
  <2> QED
    BY <1>6, <1>0, <1>e, <1>f, <2>1, <2>2 DEF ReadClock, Local
<1>7. ASSUME TakeSlot(c) PROVE ClientTypeOK'
  <2> DEFINE delay == IssueAt(call[c].since) - call[c].since
             place == IF delay = 0 THEN "send" ELSE "queue"
             r == [call[c] EXCEPT !.pc = place, !.left = delay, !.wake = 0, !.since = 0]
  <2>1. delay \in Int /\ place \in Places
    BY <1>0, CallFields DEF IssueAt, LimiterTypeOK, Places
  <2>2. call' = [call EXCEPT ![c] = r]
    BY <1>7 DEF TakeSlot
  <2> HIDE DEF delay, place
  <2>3. r \in Call
    <3> DEFINE k == [call[c] EXCEPT !.pc = place]
               j == [k EXCEPT !.left = delay]
               i == [j EXCEPT !.wake = 0]
    <3>1. k \in Call
      BY <1>0, <2>1, CallUpdates
    <3> HIDE DEF k
    <3>2. j \in Call
      BY <2>1, <3>1, CallUpdates
    <3> HIDE DEF j
    <3>3. i \in Call
      BY <3>2, CallUpdates
    <3> HIDE DEF i
    <3>4. [i EXCEPT !.since = 0] \in Call
      BY <3>3, CallUpdates
    <3> QED
      BY <3>4 DEF i, j, k
  <2> QED
    BY <1>7, <1>0, <1>e, <1>f, <2>2, <2>3 DEF TakeSlot, Local
<1>8. ASSUME Sleep(c) PROVE ClientTypeOK'
  <2> DEFINE slice == Smaller(call[c].left, Slice)
             rest == call[c].left - slice
             r == [call[c] EXCEPT !.wake = now + slice, !.left = rest]
  <2>1. slice \in Int /\ rest \in Int
    BY <1>0, CallFields, ClientAssumption DEF Smaller
  <2>2. call' = [call EXCEPT ![c] = r]
    BY <1>8 DEF Sleep
  <2> HIDE DEF slice, rest
  <2>3. r \in Call
    <3> DEFINE k == [call[c] EXCEPT !.wake = now + slice]
    <3>1. k \in Call /\ now + slice \in Int
      BY <1>0, <2>1, CallUpdates
    <3> HIDE DEF k
    <3>2. [k EXCEPT !.left = rest] \in Call
      BY <2>1, <3>1, CallUpdates
    <3> QED
      BY <3>2 DEF k
  <2> QED
    BY <1>8, <1>0, <1>e, <1>f, <2>2, <2>3 DEF Sleep, Local
<1>9. ASSUME GiveUp(c) PROVE ClientTypeOK'
  <2>1. Return(c, "cancelled", Absent)
    BY <1>9 DEF GiveUp
  <2> QED
    BY <1>9, <1>b, <1>f, <1>g, <2>1 DEF GiveUp, Local
<1>10. ASSUME Wake(c) PROVE ClientTypeOK'
  <2> DEFINE place == IF call[c].pc = "queue" THEN "send" ELSE "top"
             r == [call[c] EXCEPT !.pc = place, !.wake = 0]
  <2>1. place \in Places
    BY DEF Places
  <2>2. call' = [call EXCEPT ![c] = r]
    BY <1>10 DEF Wake
  <2> HIDE DEF place
  <2>3. r \in Call
    <3> DEFINE k == [call[c] EXCEPT !.pc = place]
    <3>1. k \in Call
      BY <1>0, <2>1, CallUpdates
    <3> HIDE DEF k
    <3>2. [k EXCEPT !.wake = 0] \in Call
      BY <3>1, CallUpdates
    <3> QED
      BY <3>2 DEF k
  <2> QED
    BY <1>10, <1>0, <1>e, <1>f, <2>2, <2>3 DEF Wake, Local
<1>11. ASSUME Send(c) PROVE ClientTypeOK'
  <2> DEFINE r == [call[c] EXCEPT !.pc = "wire", !.last = Silence]
  <2>1. r \in Call
    <3> DEFINE k == [call[c] EXCEPT !.pc = "wire"]
    <3>0. Silence \in Seen
      BY DEF Silence, Seen, NoAfter
    <3>1. k \in Call
      BY <1>0, CallUpdates DEF Places
    <3> HIDE DEF k
    <3>2. [k EXCEPT !.last = Silence] \in Call
      BY <3>0, <3>1, CallUpdates
    <3> QED
      BY <3>2 DEF k
  <2>2. call' = [call EXCEPT ![c] = r]
    BY <1>11 DEF Send
  <2> QED
    BY <1>11, <1>0, <1>e, <1>f, <2>1, <2>2 DEF Send, Local
<1>12. ASSUME NEW answer \in Answers, Succeed(c, answer) PROVE ClientTypeOK'
  <2>1. \/ Return(c, "fetched", Absent)
        \/ Goto(c, "store") /\ "store" \in Places
    BY <1>12 DEF Succeed, Places
  <2> QED
    BY <1>12, <1>b, <1>f, <1>g, <1>h, <2>1 DEF Succeed, Local
<1>13. ASSUME NEW answer \in Answers, Retry(c, answer) PROVE ClientTypeOK'
  <2> DEFINE again == After(call[c].attempt, answer.kind, Arrived(answer))
             seen == [kind |-> answer.kind, heard |-> Arrived(answer), at |-> now]
             r == [call[c] EXCEPT !.pc = "backoff", !.left = again, !.last = seen]
  <2>1. again # Stop /\ call' = [call EXCEPT ![c] = r]
    BY <1>13 DEF Retry
  <2>2. call[c].attempt \in Nat
    BY <1>0, CallFields
  <2>3. again \in Int /\ Arrived(answer) \in Int /\ answer.kind \in Kinds
    BY <2>1, <2>2, AfterSays DEF Kinds
  <2>4. seen \in Seen
    BY <1>0, <2>3 DEF Seen
  <2> HIDE DEF again, seen
  <2>5. r \in Call
    <3> DEFINE k == [call[c] EXCEPT !.pc = "backoff"]
               j == [k EXCEPT !.left = again]
    <3>1. k \in Call
      BY <1>0, CallUpdates DEF Places
    <3> HIDE DEF k
    <3>2. j \in Call
      BY <2>3, <3>1, CallUpdates
    <3> HIDE DEF j
    <3>3. [j EXCEPT !.last = seen] \in Call
      BY <2>4, <3>2, CallUpdates
    <3> QED
      BY <3>3 DEF j, k
  <2> QED
    BY <1>13, <1>0, <1>e, <1>f, <2>1, <2>5 DEF Retry, Local
<1>14. ASSUME NEW answer \in Answers, Fail(c, answer) PROVE ClientTypeOK'
  <2>1. Return(c, "failed", Absent)
    BY <1>14 DEF Fail
  <2> QED
    BY <1>14, <1>b, <1>f, <1>g, <2>1 DEF Fail, Local
<1>15. ASSUME PutMemory(c) PROVE ClientTypeOK'
  <2>1. /\ Return(c, "fetched", Absent)
        /\ entry' = [entry EXCEPT ![UrlOf[c]] = WholeOf(UrlOf[c], now)]
        /\ UNCHANGED <<setup, now, cancelled, part, writing>>
    BY <1>15 DEF PutMemory, Local
  <2>2. entry' \in [Paths \cup Urls -> Entry]
    BY <1>0, <1>b, <2>1
  <2>3. call' \in [Callers -> Call] /\ result' \in [Callers -> Results]
    BY <1>b, <1>g, <2>1
  <2> QED
    BY <2>1, <2>2, <2>3 DEF ClientTypeOK
<1>16. ASSUME OpenPart(c) PROVE ClientTypeOK'
  <2> DEFINE e == [Absent EXCEPT !.at = now]
  <2>1. e \in Entry
    BY <1>0, <1>b DEF Entry
  <2>2. /\ Goto(c, "fill") /\ "fill" \in Places
        /\ part' = [part EXCEPT ![PlaceOf(c)] = e]
        /\ writing' = [writing EXCEPT ![c] = "part"]
        /\ UNCHANGED <<setup, now, cancelled, entry>>
    BY <1>16 DEF OpenPart, Local, Places
  <2> HIDE DEF e
  <2>3. part' \in [Paths -> Entry]
    BY <1>0, <2>1, <2>2
  <2>4. writing' \in [Callers -> {"none", "part", "entry", "gone"}]
    BY <1>0, <2>2
  <2>5. call' \in [Callers -> Call] /\ result' \in [Callers -> Results]
    BY <1>h, <2>2
  <2> QED
    BY <2>2, <2>3, <2>4, <2>5 DEF ClientTypeOK
<1>17. ASSUME FillPart(c) PROVE ClientTypeOK'
  <2> DEFINE p == PlaceOf(c)
             Written(e) == IF At(c, "fill")
                           THEN [e EXCEPT !.key = UrlOf[c], !.first = UrlOf[c], !.at = now]
                           ELSE [e EXCEPT !.second = UrlOf[c], !.at = now]
             place == IF At(c, "fill") THEN "filling" ELSE "rename"
  <2>1. \A e \in Entry : Written(e) \in Entry
    <3>1. ASSUME NEW e \in Entry
          PROVE  /\ [e EXCEPT !.key = UrlOf[c], !.first = UrlOf[c], !.at = now] \in Entry
                 /\ [e EXCEPT !.second = UrlOf[c], !.at = now] \in Entry
      <4>1. now \in Int
        BY <1>0
      <4> QED
        BY <1>a, <3>1, <4>1, EntryUpdates, Zenon
    <3> QED
      BY <3>1
  <2>2. place \in Places
    BY DEF Places
  <2>3. /\ Goto(c, place)
        /\ part'  = IF writing[c] = "part" THEN [part EXCEPT ![p] = Written(part[p])] ELSE part
        /\ entry' = IF writing[c] = "entry" THEN [entry EXCEPT ![p] = Written(entry[p])] ELSE entry
        /\ UNCHANGED <<setup, now, cancelled, writing>>
    BY <1>17 DEF FillPart, Local
  <2> HIDE DEF Written, place
  <2>4. part' \in [Paths -> Entry]
    BY <1>0, <1>a, <1>c, <2>1, <2>3
  <2>5. entry' \in [Paths \cup Urls -> Entry]
    BY <1>0, <1>a, <1>c, <2>1, <2>3
  <2>6. call' \in [Callers -> Call] /\ result' \in [Callers -> Results]
    BY <1>h, <2>2, <2>3
  <2> QED
    BY <2>3, <2>4, <2>5, <2>6 DEF ClientTypeOK
<1>18. ASSUME Rename(c) PROVE ClientTypeOK'
  <2> DEFINE p == PlaceOf(c)
  <2>1. /\ Return(c, "fetched", Absent)
        /\ entry' = IF part[p] # Absent THEN [entry EXCEPT ![p] = part[p]] ELSE entry
        /\ part' = [part EXCEPT ![p] = Absent]
        /\ UNCHANGED <<setup, now, cancelled>>
    BY <1>18 DEF Rename, Local
  <2>2. writing' \in [Callers -> {"none", "part", "entry", "gone"}]
    BY <1>0, <1>18 DEF Rename
  <2>3. part' \in [Paths -> Entry] /\ entry' \in [Paths \cup Urls -> Entry]
    BY <1>0, <1>b, <1>c, <2>1
  <2>4. call' \in [Callers -> Call] /\ result' \in [Callers -> Results]
    BY <1>b, <1>g, <2>1
  <2> QED
    BY <2>1, <2>2, <2>3, <2>4 DEF ClientTypeOK
<1>19. ASSUME StoreFails(c) PROVE ClientTypeOK'
  <2>1. /\ Return(c, "fetched", Absent)
        /\ writing' = [writing EXCEPT ![c] = "none"]
        /\ UNCHANGED <<setup, now, cancelled, entry, part>>
    BY <1>19 DEF StoreFails, Local
  <2>2. call' \in [Callers -> Call] /\ result' \in [Callers -> Results]
    BY <1>b, <1>g, <2>1
  <2> QED
    BY <1>0, <2>1, <2>2 DEF ClientTypeOK
<1> HIDE DEF how, Results
<1> QED
  BY <1>1, <1>2, <1>3, <1>4, <1>5, <1>6, <1>7, <1>8, <1>9, <1>10, <1>11, <1>12, <1>13,
     <1>14, <1>15, <1>16, <1>17, <1>18, <1>19 DEF CallStep

LEMMA TypeKept ==
  ASSUME ClientTypeOK, LimiterTypeOK, [Next]_clientVars
  PROVE  ClientTypeOK'
<1>1. ASSUME NEW c \in Callers, CallStep(c) PROVE ClientTypeOK'
  BY <1>1, StepType
<1>2. ASSUME NEW c \in Callers, CancelCall(c) PROVE ClientTypeOK'
  BY <1>2 DEF ClientTypeOK, CancelCall
<1>3. CASE Tick
  BY <1>3 DEF ClientTypeOK, Tick
<1>4. CASE Purge
  <2>1. Absent \in Entry
    BY EntryTypes DEF Keys
  <2>2. /\ \E gone : Remove(gone)
        /\ entry \in [Paths \cup Urls -> Entry]
        /\ writing \in [Callers -> {"none", "part", "entry", "gone"}]
        /\ UNCHANGED <<setup, now, call, cancelled, result, part>>
    BY <1>4 DEF Purge, ClientTypeOK
  <2>3. /\ entry' \in [Paths \cup Urls -> Entry]
        /\ writing' \in [Callers -> {"none", "part", "entry", "gone"}]
    BY <2>1, <2>2 DEF Remove
  <2> QED
    BY <2>2, <2>3 DEF ClientTypeOK
<1>5. CASE UNCHANGED clientVars
  BY <1>5 DEF ClientTypeOK
<1> QED
  BY <1>1, <1>2, <1>3, <1>4, <1>5 DEF Next

----------------------------------------------------------------------------
(* Where a step takes a call, and what it does to the limiter.             *)

Holding == {"queue", "send"}

(***************************************************************************)
(* A step of a call leaves every other call alone, and uses the limiter in *)
(* one of five ways.                                                       *)
(***************************************************************************)
UsesTheLimiter(c) ==
  \/ /\ UNCHANGED limiterVars
     /\ call[c].pc \notin Holding /\ call'[c].pc \notin Holding
  \/ /\ UNCHANGED limiterVars
     /\ call[c].pc = "queue" /\ call'[c].pc \in Holding
  \/ /\ Reserve(c, call[c].since)
     /\ call[c].pc = "reserve" /\ call'[c].pc \in Holding
  \/ Release(c) /\ call[c].pc = "queue" /\ call'[c].pc = "done"
  \/ Spend(c) /\ call[c].pc = "send" /\ call'[c].pc = "wire"

Paused == Waiting \cup {"done"}

(* A call whose flag is up does not leave the places where it waits.       *)
StaysPaused(c) ==
  IsCancelled(c) /\ call[c].pc \in Paused => call'[c].pc \in Paused

LEMMA StepUses ==
  ASSUME ClientTypeOK, NEW c \in Callers, CallStep(c)
  PROVE  /\ \A d \in Callers \ {c} : call'[d] = call[d]
         /\ UsesTheLimiter(c) /\ StaysPaused(c)
         /\ cancelled' = cancelled /\ now' = now
<1> USE DEF At, Local
<1> DEFINE Others == \A d \in Callers \ {c} : call'[d] = call[d]
           Conclusion == /\ Others /\ UsesTheLimiter(c) /\ StaysPaused(c)
                         /\ cancelled' = cancelled /\ now' = now
<1>0. call \in [Callers -> Call] /\ call[c] \in Call
  BY DEF ClientTypeOK
<1>a. ASSUME NEW r, call' = [call EXCEPT ![c] = r]
      PROVE  Others /\ call'[c] = r
  BY <1>0, <1>a
<1>b. ASSUME NEW place, Goto(c, place)
      PROVE  Others /\ call'[c].pc = place
  BY <1>0, <1>b DEF Goto, Call
<1>c. ASSUME NEW how, NEW e, Return(c, how, e)
      PROVE  Others /\ call'[c].pc = "done"
  BY <1>0, <1>c DEF Return, AtPlace
<1> USE DEF UsesTheLimiter, StaysPaused, Paused, Holding, Waiting
<1>1. ASSUME Interrupted(c) PROVE Conclusion
  BY <1>1, <1>c DEF Interrupted
<1>2. ASSUME BeginUncached(c) PROVE Conclusion
  BY <1>2, <1>b DEF BeginUncached
<1>3. ASSUME LookInMemory(c) PROVE Conclusion
  <2>1. call[c].pc = "idle" /\ UNCHANGED <<limiterVars, cancelled, now>>
    BY <1>3 DEF LookInMemory
  <2>2. Others /\ call'[c].pc \in {"done", "top"}
    BY <1>3, <1>b, <1>c DEF LookInMemory
  <2> QED
    BY <2>1, <2>2
<1>4. ASSUME ReadEntry(c) PROVE Conclusion
  <2>1. Others /\ call'[c].pc = "age"
    BY <1>4, <1>0 DEF ReadEntry, Call
  <2> QED
    BY <1>4, <2>1 DEF ReadEntry
<1>5. ASSUME JudgeEntry(c) PROVE Conclusion
  <2>1. call[c].pc = "age" /\ UNCHANGED <<limiterVars, cancelled, now>>
    BY <1>5 DEF JudgeEntry
  <2>2. AtPlace("top").pc = "top"
    BY DEF AtPlace
  <2>3. Others /\ call'[c].pc \in {"done", "top"}
    BY <1>5, <1>a, <1>c, <2>2 DEF JudgeEntry
  <2> QED
    BY <2>1, <2>3
<1>6. ASSUME ReadClock(c) PROVE Conclusion
  <2>1. Others /\ call'[c].pc = "reserve"
    BY <1>6, <1>0 DEF ReadClock, Call
  <2> QED
    BY <1>6, <2>1 DEF ReadClock
<1>7. ASSUME TakeSlot(c) PROVE Conclusion
  <2>1. Others /\ call'[c].pc \in Holding
    BY <1>7, <1>0 DEF TakeSlot, Call
  <2> QED
    BY <1>7, <2>1 DEF TakeSlot
<1>8. ASSUME Sleep(c) PROVE Conclusion
  <2>1. Others /\ call'[c].pc = call[c].pc
    BY <1>8, <1>0 DEF Sleep, Call
  <2> QED
    BY <1>8, <2>1 DEF Sleep, Napping
<1>9. ASSUME GiveUp(c) PROVE Conclusion
  BY <1>9, <1>c DEF GiveUp, Napping
<1>10. ASSUME Wake(c) PROVE Conclusion
  <2>1. Others /\ call'[c].pc = IF call[c].pc = "queue" THEN "send" ELSE "top"
    BY <1>10, <1>0 DEF Wake, Call
  <2>2. /\ call[c].pc \in {"queue", "backoff"} /\ ~IsCancelled(c)
        /\ UNCHANGED <<limiterVars, cancelled, now>>
    BY <1>10 DEF Wake, Napping, NapBroken
  <2>3. CASE call[c].pc = "queue"
    BY <2>1, <2>2, <2>3
  <2>4. CASE call[c].pc = "backoff"
    BY <2>1, <2>2, <2>4
  <2> QED
    BY <2>2, <2>3, <2>4
<1>11. ASSUME Send(c) PROVE Conclusion
  <2>1. Others /\ call'[c].pc = "wire"
    BY <1>11, <1>0 DEF Send, Call
  <2> QED
    BY <1>11, <2>1 DEF Send
<1>12. ASSUME NEW answer \in Answers, Succeed(c, answer) PROVE Conclusion
  <2>1. Others /\ call'[c].pc \in {"done", "store"}
    BY <1>12, <1>b, <1>c DEF Succeed
  <2> QED
    BY <1>12, <2>1 DEF Succeed
<1>13. ASSUME NEW answer \in Answers, Retry(c, answer) PROVE Conclusion
  <2>1. Others /\ call'[c].pc = "backoff"
    BY <1>13, <1>0 DEF Retry, Call
  <2> QED
    BY <1>13, <2>1 DEF Retry
<1>14. ASSUME NEW answer \in Answers, Fail(c, answer) PROVE Conclusion
  BY <1>14, <1>c DEF Fail
<1>15. ASSUME PutMemory(c) PROVE Conclusion
  BY <1>15, <1>c DEF PutMemory
<1>16. ASSUME OpenPart(c) PROVE Conclusion
  BY <1>16, <1>b DEF OpenPart
<1>17. ASSUME FillPart(c) PROVE Conclusion
  <2>1. Others /\ call'[c].pc \in {"filling", "rename"}
    BY <1>17, <1>b DEF FillPart
  <2> QED
    BY <1>17, <2>1 DEF FillPart
<1>18. ASSUME Rename(c) PROVE Conclusion
  BY <1>18, <1>c DEF Rename
<1>19. ASSUME StoreFails(c) PROVE Conclusion
  BY <1>19, <1>c DEF StoreFails
<1> HIDE DEF Conclusion
<1>20. Conclusion
  BY <1>1, <1>2, <1>3, <1>4, <1>5, <1>6, <1>7, <1>8, <1>9, <1>10, <1>11, <1>12, <1>13,
     <1>14, <1>15, <1>16, <1>17, <1>18, <1>19 DEF CallStep
<1> QED
  BY <1>20 DEF Conclusion

----------------------------------------------------------------------------
(***************************************************************************)
(* The inductive invariant.  A slot is released or spent only by the call  *)
(* that holds it, which is what makes the limiter's own argument apply;    *)
(* what a retry waited for is kept through its nap, its reading of the     *)
(* clock and its queue.                                                    *)
(***************************************************************************)
IInv ==
  /\ ClientTypeOK /\ LimiterTypeOK
  /\ SlotsApart /\ SlotsAreHeld
  /\ InterruptedSendsNothing

LEMMA InvStarts ==
  ASSUME Init
  PROVE  IInv
<1>1. ClientTypeOK
  BY ClientStarts
<1>2. LimiterTypeOK /\ SlotsApart
  BY LimiterStarts DEF Init
<1>3. \A c \in Callers : /\ call[c].pc = "idle" /\ slot[c] = NoSlot
                         /\ cancelled[c] = "no"
  BY DEF Init, LimiterInit, AtPlace
<1>4. SlotsAreHeld
  BY <1>3 DEF SlotsAreHeld, Held
<1>5. InterruptedSendsNothing
  BY <1>3 DEF InterruptedSendsNothing
<1> QED
  BY <1>1, <1>2, <1>4, <1>5 DEF IInv

LEMMA InvKept ==
  ASSUME IInv, [Next]_clientVars
  PROVE  IInv'
<1>a. ClientTypeOK /\ LimiterTypeOK /\ SlotsApart /\ SlotsAreHeld /\ InterruptedSendsNothing
  BY DEF IInv
<1>b. ClientTypeOK'
  BY <1>a, TypeKept
<1>c. Held = {c \in Callers : call[c].pc \in Holding}
  BY <1>a DEF SlotsAreHeld, Held, Holding
<1>1. ASSUME NEW c \in Callers, CallStep(c)
      PROVE  LimiterTypeOK' /\ SlotsApart' /\ SlotsAreHeld' /\ InterruptedSendsNothing'
  <2>1. /\ \A d \in Callers \ {c} : call'[d] = call[d]
        /\ UsesTheLimiter(c) /\ StaysPaused(c) /\ cancelled' = cancelled
    BY <1>1, <1>a, StepUses
  <2>2. LimiterTypeOK' /\ SlotsApart'
    <3>1. CASE UNCHANGED limiterVars
      BY <3>1, <1>a, LimiterRests
    <3>2. CASE Reserve(c, call[c].since) /\ call[c].pc = "reserve"
      <4>1. call[c].since \in Nat
        BY <1>a, CallFields DEF ClientTypeOK
      <4>2. slot[c] = NoSlot
        BY <3>2, <1>c DEF Held, Holding
      <4> QED
        BY <3>2, <4>1, <4>2, <1>a, ReserveKeeps
    <3>3. CASE Release(c) /\ call[c].pc = "queue"
      <4>1. c \in Held
        BY <3>3, <1>c DEF Holding
      <4> QED
        BY <3>3, <4>1, <1>a, ReleaseKeeps
    <3>4. CASE Spend(c) /\ call[c].pc = "send"
      <4>1. c \in Held
        BY <3>4, <1>c DEF Holding
      <4> QED
        BY <3>4, <4>1, <1>a, SpendKeeps
    <3> QED
      BY <2>1, <3>1, <3>2, <3>3, <3>4 DEF UsesTheLimiter
  <2>3. SlotsAreHeld'
    <3>1. slot \in [Callers -> Nat \cup {NoSlot}] /\ slot' \in [Callers -> Nat \cup {NoSlot}]
      BY <1>a, <2>2 DEF LimiterTypeOK
    <3>2. \A d \in Callers \ {c} : slot'[d] = slot[d]
      BY <2>1, <3>1 DEF UsesTheLimiter, Reserve, Release, Spend
    <3>3. \A d \in Callers \ {c} : d \in Held' <=> call'[d].pc \in Holding
      BY <1>c, <2>1, <3>2 DEF Held
    <3>4. c \in Held' <=> call'[c].pc \in Holding
      <4>1. CASE /\ UNCHANGED limiterVars
                 /\ call[c].pc \notin Holding /\ call'[c].pc \notin Holding
        BY <4>1, <1>c DEF Held
      <4>2. CASE /\ UNCHANGED limiterVars
                 /\ call[c].pc = "queue" /\ call'[c].pc \in Holding
        BY <4>2, <1>c DEF Held, Holding
      <4>3. CASE /\ Reserve(c, call[c].since)
                 /\ call[c].pc = "reserve" /\ call'[c].pc \in Holding
        <5>1. IssueAt(call[c].since) \in Nat
          BY <1>a, CallFields DEF IssueAt, LimiterTypeOK, ClientTypeOK
        <5> QED
          BY <4>3, <3>1, <5>1 DEF Reserve, Held, NoSlot
      <4>4. CASE Release(c) /\ call[c].pc = "queue" /\ call'[c].pc = "done"
        BY <4>4, <3>1 DEF Release, Held, Holding
      <4>5. CASE Spend(c) /\ call[c].pc = "send" /\ call'[c].pc = "wire"
        BY <4>5, <3>1 DEF Spend, Held, Holding
      <4> QED
        BY <2>1, <4>1, <4>2, <4>3, <4>4, <4>5 DEF UsesTheLimiter
    <3> QED
      BY <3>3, <3>4 DEF SlotsAreHeld, Holding
  <2>4. InterruptedSendsNothing'
    <3> SUFFICES ASSUME NEW d \in Callers, cancelled[d] = "waiting"
                 PROVE  call'[d].pc \in Paused
      BY <2>1 DEF InterruptedSendsNothing, Paused
    <3>1. call[d].pc \in Paused
      BY <1>a DEF InterruptedSendsNothing, Paused
    <3> QED
      BY <2>1, <3>1 DEF StaysPaused, IsCancelled
  <2> QED
    BY <2>2, <2>3, <2>4
<1>2. ASSUME NEW c \in Callers, CancelCall(c)
      PROVE  LimiterTypeOK' /\ SlotsApart' /\ SlotsAreHeld' /\ InterruptedSendsNothing'
  <2>1. /\ call' = call /\ UNCHANGED limiterVars
        /\ cancelled \in [Callers -> {"no", "waiting", "late"}]
        /\ cancelled' = [cancelled EXCEPT ![c] =
                           IF call[c].pc \in Waiting THEN "waiting" ELSE "late"]
    BY <1>2, <1>a DEF CancelCall, ClientTypeOK
  <2>2. LimiterTypeOK' /\ SlotsApart'
    BY <1>a, <2>1, LimiterRests
  <2>3. SlotsAreHeld'
    BY <1>a, <2>1 DEF SlotsAreHeld, Held
  <2>4. InterruptedSendsNothing'
    BY <1>a, <2>1 DEF InterruptedSendsNothing
  <2> QED
    BY <2>2, <2>3, <2>4
<1>3. ASSUME UNCHANGED <<call, cancelled, limiterVars>>
      PROVE  LimiterTypeOK' /\ SlotsApart' /\ SlotsAreHeld' /\ InterruptedSendsNothing'
  <2>1. LimiterTypeOK' /\ SlotsApart'
    BY <1>3, <1>a, LimiterRests
  <2> QED
    BY <1>3, <1>a, <2>1 DEF SlotsAreHeld, Held, InterruptedSendsNothing
<1>4. Tick \/ Purge \/ UNCHANGED clientVars => UNCHANGED <<call, cancelled, limiterVars>>
  BY DEF Tick, Purge
<1> QED
  BY <1>b, <1>1, <1>2, <1>3, <1>4 DEF Next, IInv

LEMMA SpecInv == Spec => []IInv
<1> QED
  BY InvStarts, InvKept, PTL DEF Spec

(***************************************************************************)
(* The client, its limiter and the retry data stay well typed.             *)
(* client.rs:300-367, policy.rs:219-343.                                   *)
(***************************************************************************)
THEOREM ClientTypes == Spec => [](ClientTypeOK /\ LimiterTypeOK)
<1>1. IInv => ClientTypeOK /\ LimiterTypeOK
  BY DEF IInv
<1> QED
  BY <1>1, SpecInv, PTL

(***************************************************************************)
(* However many calls share the limiter, and whatever they reserve, spend  *)
(* and hand back, no two slots are closer than the interval.               *)
(* policy.rs:219-239, client.rs:350-359.                                   *)
(***************************************************************************)
THEOREM SlotsStayApart == Spec => []SlotsApart
<1>1. IInv => SlotsApart
  BY DEF IInv
<1> QED
  BY <1>1, SpecInv, PTL

(***************************************************************************)
(* A call cancelled while it waits sends nothing any more.                 *)
(* client.rs:300-367.                                                      *)
(***************************************************************************)
THEOREM CancelledCallsAreSilent == Spec => []InterruptedSendsNothing
<1>1. IInv => InterruptedSendsNothing
  BY DEF IInv
<1> QED
  BY <1>1, SpecInv, PTL

----------------------------------------------------------------------------
(* Retries.                                                                *)

LEMMA DueType ==
  ASSUME NEW k \in Call, NEW n \in Nat
  PROVE  DueAt(k, n) \in Int
<1>1. k.last \in [kind : Kinds \cup {"none"}, heard : Int, at : Int]
  BY DEF Call
<1>2. Backoff(n) \in Int
  BY BackoffType
<1> QED
  BY <1>1, <1>2 DEF DueAt, Larger

(* Waiting longer never makes a retry early.                               *)
LEMMA DueStays ==
  ASSUME NEW k \in Call, NEW t \in Nat, NEW u \in Nat, t <= u, RetryIsDue(k, t)
  PROVE  RetryIsDue(k, u)
<1>1. k.attempt \in Nat /\ k.left \in Int
  BY CallFields
<1>2. DueAt(k, k.attempt) \in Int /\ DueAt(k, k.attempt + 1) \in Int
  BY <1>1, DueType
<1> QED
  BY <1>1, <1>2 DEF RetryIsDue

(* The places where nothing is known of a retry.                           *)
LEMMA DueElsewhere ==
  ASSUME NEW k, NEW t,
         k.pc \in {"age", "wire", "store", "fill", "filling", "rename", "done"}
  PROVE  RetryIsDue(k, t)
<1> QED
  BY DEF RetryIsDue

LEMMA StepIsDue ==
  ASSUME ClientTypeOK, ClientTypeOK', LimiterTypeOK, NEW c \in Callers,
         RetryIsDue(call[c], now), CallStep(c)
  PROVE  RetryIsDue(call'[c], now)
<1> USE DEF At
<1> DEFINE k == call[c]
           kk == call'[c]
           n == k.attempt
           elsewhere == {"age", "wire", "store", "fill", "filling", "rename", "done"}
<1>0. /\ call \in [Callers -> Call] /\ k \in Call /\ kk \in Call /\ now \in Nat
  BY DEF ClientTypeOK
<1>1. n \in Nat /\ k.left \in Int /\ k.wake \in Int /\ k.since \in Nat
  BY <1>0, CallFields
<1>2. DueAt(k, n) \in Int /\ DueAt(k, n + 1) \in Int
  BY <1>0, <1>1, DueType
<1>a. ASSUME NEW place \in elsewhere, Goto(c, place)
      PROVE  RetryIsDue(kk, now)
  <2>1. kk.pc = place
    BY <1>0, <1>a DEF Goto, Call
  <2> QED
    BY <2>1, DueElsewhere
<1>b. ASSUME Goto(c, "top"), k.pc = "idle"
      PROVE  RetryIsDue(kk, now)
  <2>1. kk.pc = "top" /\ kk.attempt = n
    BY <1>0, <1>b DEF Goto, Call
  <2>2. n = 0
    BY <1>b DEF RetryIsDue
  <2> QED
    BY <2>1, <2>2 DEF RetryIsDue
<1>c. ASSUME NEW how, NEW e, Return(c, how, e)
      PROVE  RetryIsDue(kk, now)
  <2>1. kk.pc = "done"
    BY <1>0, <1>c DEF Return, AtPlace
  <2> QED
    BY <2>1, DueElsewhere
<1> DEFINE Due == RetryIsDue(kk, now)
<1>3. ASSUME LookInMemory(c) \/ BeginUncached(c) PROVE Due
  BY <1>3, <1>b, <1>c DEF LookInMemory, BeginUncached
<1>4. ASSUME ReadEntry(c) PROVE Due
  <2>1. kk.pc = "age"
    BY <1>4, <1>0 DEF ReadEntry, Call
  <2> QED
    BY <2>1, DueElsewhere
<1>5. ASSUME JudgeEntry(c) PROVE Due
  <2>1. CASE call' = [call EXCEPT ![c] = AtPlace("top")]
    <3>1. kk.pc = "top" /\ kk.attempt = 0
      BY <1>0, <2>1 DEF AtPlace
    <3> QED
      BY <3>1 DEF RetryIsDue
  <2> QED
    BY <1>5, <1>c, <2>1 DEF JudgeEntry
<1>6. ASSUME ReadClock(c) PROVE Due
  <2>1. k.pc = "top" /\ kk.pc = "reserve" /\ kk.attempt = n + 1 /\ kk.last = k.last
    BY <1>6, <1>0 DEF ReadClock, Call
  <2>2. ASSUME n > 0
        PROVE  MayGoOn(k, n + 1) /\ now >= DueAt(k, n + 1)
    BY <2>1, <2>2 DEF RetryIsDue
  <2> QED
    BY <1>1, <2>1, <2>2 DEF RetryIsDue, MayGoOn, DueAt
<1>7. ASSUME TakeSlot(c) PROVE Due
  <2>1. /\ k.pc = "reserve" /\ kk.pc \in {"send", "queue"}
        /\ kk.attempt = n /\ kk.last = k.last
    BY <1>7, <1>0 DEF TakeSlot, Call
  <2> QED
    BY <1>1, <2>1 DEF RetryIsDue, MayGoOn, DueAt
<1>8. ASSUME Sleep(c) PROVE Due
  <2> DEFINE slice == Smaller(k.left, Slice)
  <2>1. slice \in Int
    BY <1>1, ClientAssumption DEF Smaller
  <2>2. /\ kk.pc = k.pc /\ kk.attempt = n /\ kk.last = k.last
        /\ kk.left = k.left - slice /\ kk.wake = now + slice
        /\ k.pc \in {"queue", "backoff"} /\ now >= k.wake
    BY <1>8, <1>0 DEF Sleep, Napping, Call
  <2> HIDE DEF slice
  <2>3. CASE k.pc = "queue"
    BY <1>1, <2>2, <2>3 DEF RetryIsDue, MayGoOn, DueAt
  <2>4. CASE k.pc = "backoff"
    <3>1. MayGoOn(k, n + 1) /\ now + k.left >= DueAt(k, n + 1)
      BY <1>0, <1>1, <1>2, <2>2, <2>4 DEF RetryIsDue
    <3>2. kk.wake + kk.left = now + k.left
      BY <1>0, <1>1, <2>1, <2>2
    <3>3. MayGoOn(kk, n + 1) /\ DueAt(kk, n + 1) = DueAt(k, n + 1)
      BY <2>2, <3>1 DEF MayGoOn, DueAt
    <3> QED
      BY <2>2, <2>4, <3>1, <3>2, <3>3 DEF RetryIsDue
  <2> QED
    BY <2>2, <2>3, <2>4
<1>9. ASSUME Wake(c) PROVE Due
  <2>1. /\ k.pc \in {"queue", "backoff"} /\ now >= k.wake /\ k.left = 0
        /\ kk.pc = IF k.pc = "queue" THEN "send" ELSE "top"
        /\ kk.attempt = n /\ kk.last = k.last
    BY <1>9, <1>0 DEF Wake, Napping, Call
  <2>2. CASE k.pc = "queue"
    BY <1>1, <2>1, <2>2 DEF RetryIsDue, MayGoOn, DueAt
  <2>3. CASE k.pc = "backoff"
    <3>1. MayGoOn(k, n + 1) /\ now >= DueAt(k, n + 1)
      BY <1>0, <1>1, <1>2, <2>1, <2>3 DEF RetryIsDue
    <3> QED
      BY <2>1, <2>3, <3>1 DEF RetryIsDue, MayGoOn, DueAt
  <2> QED
    BY <2>1, <2>2, <2>3
<1>10. ASSUME Send(c) PROVE Due
  <2>1. kk.pc = "wire"
    BY <1>10, <1>0 DEF Send, Call
  <2> QED
    BY <2>1, DueElsewhere
<1>11. ASSUME NEW answer \in Answers, Retry(c, answer) PROVE Due
  <2> DEFINE heard == Arrived(answer)
             again == After(n, answer.kind, heard)
  <2>1. /\ again # Stop /\ kk.pc = "backoff" /\ kk.attempt = n /\ kk.left = again
        /\ kk.last = [kind |-> answer.kind, heard |-> heard, at |-> now]
    BY <1>11, <1>0 DEF Retry, Call
  <2>2. /\ n + 1 <= Attempts /\ answer.kind \in {"limited", "trouble"}
        /\ heard <= MaxBackoff /\ again \in Int
        /\ again = Larger(heard, Backoff(n + 1))
    BY <1>1, <2>1, AfterSays
  <2> HIDE DEF again, heard
  <2>3. MayGoOn(kk, n + 1) /\ DueAt(kk, n + 1) = now + again
    BY <2>1, <2>2 DEF MayGoOn, DueAt
  <2> QED
    BY <1>0, <2>1, <2>2, <2>3 DEF RetryIsDue
<1>12. ASSUME NEW answer \in Answers, Succeed(c, answer) PROVE Due
  BY <1>12, <1>a, <1>c DEF Succeed
<1>13. ASSUME FillPart(c) PROVE Due
  BY <1>13, <1>a DEF FillPart
<1>14. ASSUME OpenPart(c) PROVE Due
  BY <1>14, <1>a DEF OpenPart
<1>15. ASSUME Interrupted(c) \/ GiveUp(c) \/ PutMemory(c) \/ Rename(c) \/ StoreFails(c)
       PROVE  Due
  BY <1>15, <1>c DEF Interrupted, GiveUp, PutMemory, Rename, StoreFails
<1>16. ASSUME NEW answer \in Answers, Fail(c, answer) PROVE Due
  BY <1>16, <1>c DEF Fail
<1> HIDE DEF Due
<1>17. Due
  BY <1>3, <1>4, <1>5, <1>6, <1>7, <1>8, <1>9, <1>10, <1>11, <1>12, <1>13, <1>14, <1>15,
     <1>16 DEF CallStep
<1> QED
  BY <1>17 DEF Due

LEMMA RetriesKept ==
  ASSUME IInv, IInv', RetriesAreDue, [Next]_clientVars
  PROVE  RetriesAreDue'
<1>a. /\ ClientTypeOK /\ ClientTypeOK' /\ LimiterTypeOK
      /\ \A c \in Callers : call[c] \in Call /\ RetryIsDue(call[c], now)
      /\ now \in Nat
  BY DEF IInv, RetriesAreDue, ClientTypeOK
<1>1. ASSUME NEW c \in Callers, CallStep(c) PROVE RetriesAreDue'
  <2>1. (\A d \in Callers \ {c} : call'[d] = call[d]) /\ now' = now
    BY <1>1, <1>a, StepUses
  <2>2. RetryIsDue(call'[c], now)
    BY <1>1, <1>a, StepIsDue
  <2> QED
    BY <1>a, <2>1, <2>2 DEF RetriesAreDue
<1>2. ASSUME now' \in {now, now + 1}, call' = call PROVE RetriesAreDue'
  <2>1. now' \in Nat /\ now <= now'
    BY <1>2, <1>a
  <2>2. \A c \in Callers : RetryIsDue(call[c], now')
    BY <1>a, <2>1, DueStays
  <2> QED
    BY <1>2, <2>2 DEF RetriesAreDue
<1>3. ASSUME NEW c \in Callers, CancelCall(c) PROVE RetriesAreDue'
  BY <1>2, <1>3 DEF CancelCall
<1>4. Tick \/ Purge \/ UNCHANGED clientVars => now' \in {now, now + 1} /\ call' = call
  BY DEF Tick, Purge
<1> QED
  BY <1>1, <1>2, <1>3, <1>4 DEF Next

LEMMA RetriesStart ==
  ASSUME Init
  PROVE  RetriesAreDue
<1>1. \A c \in Callers : call[c].pc = "idle" /\ call[c].attempt = 0
  BY DEF Init, AtPlace
<1> QED
  BY <1>1 DEF RetriesAreDue, RetryIsDue

(* A repeated request that is ready to be sent is due.                     *)
LEMMA ReadyIsDue ==
  ASSUME NEW c \in Callers, RetryIsDue(call[c], now),
         call[c].pc = "send", call[c].attempt > 1
  PROVE  /\ call[c].attempt <= Attempts
         /\ call[c].last.kind \in {"limited", "trouble"}
         /\ call[c].last.heard <= MaxBackoff
         /\ now >= call[c].last.at + Larger(call[c].last.heard, Backoff(call[c].attempt))
<1> QED
  BY DEF RetryIsDue, MayGoOn, DueAt

(***************************************************************************)
(* Whatever the retry policy and the answers, a repeated request waited    *)
(* for its backoff and for what the provider asked, and there are never    *)
(* more than the policy's attempts.  client.rs:308-331, policy.rs:322-343. *)
(***************************************************************************)
THEOREM RetriesWait == Spec => RetriesAreConservative
<1>1. Init => IInv /\ RetriesAreDue
  BY InvStarts, RetriesStart
<1>2. (IInv /\ RetriesAreDue) /\ [Next]_clientVars => (IInv /\ RetriesAreDue)'
  BY InvKept, RetriesKept
<1> DEFINE Patient ==
      \A c \in Callers :
        (call[c].pc = "send" /\ call'[c].pc = "wire" /\ call[c].attempt > 1) =>
          /\ call[c].attempt <= Attempts
          /\ call[c].last.kind \in {"limited", "trouble"}
          /\ call[c].last.heard <= MaxBackoff
          /\ now >= call[c].last.at + Larger(call[c].last.heard, Backoff(call[c].attempt))
<1>3. ASSUME IInv /\ RetriesAreDue, [Next]_clientVars
      PROVE  [Patient]_clientVars
  BY <1>3, ReadyIsDue DEF RetriesAreDue
<1>4. RetriesAreConservative <=> [][Patient]_clientVars
  BY DEF RetriesAreConservative
<1> HIDE DEF Patient
<1> QED
  BY <1>1, <1>2, <1>3, <1>4, PTL DEF Spec

----------------------------------------------------------------------------
(* The cache.                                                              *)

(***************************************************************************)
(* What a step does to the bytes a call holds and to what it returns.      *)
(***************************************************************************)
ReadsOf(c) ==
  /\ \A d \in Callers :
       \/ call'[d].read \in {call[d].read, Absent}
       \/ d = c /\ setup.cache = "disk" /\ call'[d].read = entry[PlaceOf(d)]
  /\ \A d \in Callers :
       \/ result'[d] = result[d] \/ result'[d].how # "hit"
       \/ /\ d = c /\ result'[d].entry.key = UrlOf[c]
          /\ \/ result'[d].entry = call[c].read
             \/ setup.cache = "memory" /\ result'[d].entry = entry[UrlOf[c]]

LEMMA StepReads ==
  ASSUME ClientTypeOK, NEW c \in Callers, CallStep(c)
  PROVE  ReadsOf(c)
<1> DEFINE Results == [how : {"none", "cancelled", "hit", "fetched", "failed"}, entry : Entry]
<1>0. /\ call \in [Callers -> Call] /\ call[c] \in Call
      /\ result \in [Callers -> Results]
  BY DEF ClientTypeOK
<1>a. ASSUME NEW place, Goto(c, place)
      PROVE  ReadsOf(c)
  <2> DEFINE k == [call[c] EXCEPT !.pc = place]
  <2>1. /\ call' = [call EXCEPT ![c] = k] /\ result' = result
        /\ k.read = call[c].read
    BY <1>0, <1>a DEF Goto, Call
  <2> HIDE DEF k
  <2> QED
    BY <1>0, <2>1 DEF ReadsOf
<1>b. ASSUME NEW e, NEW how \in {"cancelled", "fetched", "failed"}, Return(c, how, e)
      PROVE  ReadsOf(c)
  BY <1>0, <1>b DEF Return, AtPlace, ReadsOf
<1>c. ASSUME NEW e, Return(c, "hit", e), Usable(c, e),
             e = call[c].read \/ (setup.cache = "memory" /\ e = entry[UrlOf[c]])
      PROVE  ReadsOf(c)
  BY <1>0, <1>c DEF Return, AtPlace, ReadsOf, Usable
<1>1. ASSUME Interrupted(c) \/ GiveUp(c) \/ PutMemory(c) \/ Rename(c) \/ StoreFails(c)
      PROVE  ReadsOf(c)
  BY <1>1, <1>b DEF Interrupted, GiveUp, PutMemory, Rename, StoreFails
<1>2. ASSUME BeginUncached(c) \/ OpenPart(c)
      PROVE  ReadsOf(c)
  BY <1>2, <1>a DEF BeginUncached, OpenPart
<1>3. ASSUME LookInMemory(c) PROVE ReadsOf(c)
  BY <1>3, <1>a, <1>c DEF LookInMemory
<1>4. ASSUME ReadEntry(c) PROVE ReadsOf(c)
  BY <1>4, <1>0 DEF ReadEntry, ReadsOf, Call
<1>5. ASSUME JudgeEntry(c) PROVE ReadsOf(c)
  <2>1. CASE call' = [call EXCEPT ![c] = AtPlace("top")] /\ result' = result
    <3>1. AtPlace("top").read = Absent
      BY DEF AtPlace
    <3> QED
      BY <1>0, <2>1, <3>1 DEF ReadsOf
  <2>2. CASE Return(c, "hit", call[c].read) /\ Usable(c, call[c].read)
    BY <1>c, <2>2
  <2> QED
    BY <1>5, <2>1, <2>2 DEF JudgeEntry
<1>6. ASSUME ReadClock(c) PROVE ReadsOf(c)
  BY <1>6, <1>0 DEF ReadClock, ReadsOf, Call
<1>7. ASSUME TakeSlot(c) PROVE ReadsOf(c)
  BY <1>7, <1>0 DEF TakeSlot, ReadsOf, Call
<1>8. ASSUME Sleep(c) \/ Wake(c) PROVE ReadsOf(c)
  BY <1>8, <1>0 DEF Sleep, Wake, ReadsOf, Call
<1>9. ASSUME Send(c) PROVE ReadsOf(c)
  BY <1>9, <1>0 DEF Send, ReadsOf, Call
<1>10. ASSUME NEW answer \in Answers, Succeed(c, answer) PROVE ReadsOf(c)
  BY <1>10, <1>a, <1>b DEF Succeed
<1>11. ASSUME NEW answer \in Answers, Retry(c, answer) PROVE ReadsOf(c)
  BY <1>11, <1>0 DEF Retry, ReadsOf, Call
<1>12. ASSUME NEW answer \in Answers, Fail(c, answer) PROVE ReadsOf(c)
  BY <1>12, <1>b DEF Fail
<1>13. ASSUME FillPart(c) PROVE ReadsOf(c)
  BY <1>13, <1>a DEF FillPart
<1> QED
  BY <1>1, <1>2, <1>3, <1>4, <1>5, <1>6, <1>7, <1>8, <1>9, <1>10, <1>11, <1>12, <1>13
     DEF CallStep

(***************************************************************************)
(* The files, and what the writers' handles point at.                      *)
(***************************************************************************)
FilesOf(c) ==
  LET u == UrlOf[c]
      p == PlaceOf(c)
  IN  /\ OwnBytes(part[p], u)
      /\ setup.cache = "disk" => Clean(entry[p], u)
      /\ setup.cache = "memory" =>
           Clean(entry[u], u) /\ writing[c] = "none" /\ part[p] = Absent
      /\ writing[c] = "entry" => OwnBytes(entry[p], u)

LEMMA BytesKeep ==
  ASSUME NEW e \in Entry, NEW u \in Keys, NEW t \in Int, OwnBytes(e, u)
  PROVE  /\ OwnBytes([e EXCEPT !.key = u, !.first = u, !.at = t], u)
         /\ OwnBytes([e EXCEPT !.second = u, !.at = t], u)
BY DEF OwnBytes, Entry

LEMMA EmptyIsOwn ==
  ASSUME NEW u, NEW t
  PROVE  /\ OwnBytes(Absent, u) /\ OwnBytes([Absent EXCEPT !.at = t], u)
         /\ Clean(Absent, u)
BY DEF OwnBytes, Absent, Clean


LEMMA FilesKept ==
  ASSUME KeysApart, ClientTypeOK, \A d \in Callers : FilesOf(d), NEW c \in Callers, CallStep(c)
  PROVE  setup' = setup /\ \A d \in Callers : FilesOf(d)'
<1> DEFINE u == UrlOf[c]
           p == PlaceOf(c)
<1>0. /\ entry \in [Paths \cup Urls -> Entry] /\ part \in [Paths -> Entry]
      /\ writing \in [Callers -> {"none", "part", "entry", "gone"}]
      /\ setup.cache \in {"disk", "memory"} /\ now \in Nat
      /\ \A d \in Callers : /\ PlaceOf(d) \in Paths /\ UrlOf[d] \in Urls
                            /\ PlaceOf(d) = p => UrlOf[d] = u
  BY PlaceIsAPath DEF ClientTypeOK, Setups, KeysApart
<1>a. ASSUME UNCHANGED <<setup, cacheVars>>
      PROVE  \A d \in Callers : FilesOf(d)'
  BY <1>a DEF FilesOf
<1>b. Absent \in Entry /\ u \in Keys
  BY <1>0, PlaceIsAPath, EntryTypes DEF Keys
<1>1. setup' = setup
  BY DEF CallStep, Interrupted, BeginUncached, LookInMemory, ReadEntry, JudgeEntry, ReadClock,
         TakeSlot, Sleep, GiveUp, Wake, Send, Succeed, Retry, Fail, PutMemory, OpenPart,
         FillPart, Rename, StoreFails, Local
<1>2. ASSUME PutMemory(c)
      PROVE  \A d \in Callers : FilesOf(d)'
  <2>1. /\ setup.cache = "memory" /\ UNCHANGED <<setup, part, writing>>
        /\ entry' = [entry EXCEPT ![u] = WholeOf(u, now)]
    BY <1>2 DEF PutMemory, Local
  <2>2. Clean(WholeOf(u, now), u)
    BY DEF Clean, WholeOf, OwnBytes
  <2>3. \A d \in Callers : Clean(entry'[UrlOf[d]], UrlOf[d])
    BY <1>0, <2>1, <2>2 DEF FilesOf
  <2> QED
    BY <2>1, <2>3 DEF FilesOf
<1>3. ASSUME OpenPart(c)
      PROVE  \A d \in Callers : FilesOf(d)'
  <2>1. /\ setup.cache = "disk" /\ UNCHANGED <<setup, entry>>
        /\ part' = [part EXCEPT ![p] = [Absent EXCEPT !.at = now]]
        /\ writing' = [writing EXCEPT ![c] = "part"]
    BY <1>3 DEF OpenPart, Local
  <2>2. \A d \in Callers : OwnBytes(part'[PlaceOf(d)], UrlOf[d])
    BY <1>0, <2>1, EmptyIsOwn DEF FilesOf
  <2> QED
    BY <1>0, <2>1, <2>2 DEF FilesOf
<1>4. ASSUME FillPart(c)
      PROVE  \A d \in Callers : FilesOf(d)'
  <2> DEFINE Written(e) == IF At(c, "fill")
                           THEN [e EXCEPT !.key = u, !.first = u, !.at = now]
                           ELSE [e EXCEPT !.second = u, !.at = now]
  <2>1. /\ UNCHANGED <<setup, writing>>
        /\ part'  = IF writing[c] = "part" THEN [part EXCEPT ![p] = Written(part[p])] ELSE part
        /\ entry' = IF writing[c] = "entry" THEN [entry EXCEPT ![p] = Written(entry[p])] ELSE entry
    BY <1>4 DEF FillPart, Local
  <2>2. \A e \in Entry : OwnBytes(e, u) => OwnBytes(Written(e), u)
    <3> SUFFICES ASSUME NEW e \in Entry, OwnBytes(e, u)
                 PROVE  OwnBytes(Written(e), u)
      OBVIOUS
    <3>1. now \in Int
      BY <1>0
    <3>2. /\ OwnBytes([e EXCEPT !.key = u, !.first = u, !.at = now], u)
          /\ OwnBytes([e EXCEPT !.second = u, !.at = now], u)
      BY <1>b, <3>1, BytesKeep
    <3> QED
      BY <3>2
  <2> HIDE DEF Written
  <2>3. part[p] \in Entry /\ entry[p] \in Entry
    BY <1>0
  <2>4. \A d \in Callers : OwnBytes(part'[PlaceOf(d)], UrlOf[d])
    BY <1>0, <2>1, <2>2, <2>3 DEF FilesOf
  <2>5. CASE writing[c] = "entry"
    <3>1. /\ setup.cache = "disk" /\ OwnBytes(Written(entry[p]), u)
          /\ part' = part
          /\ entry' = [entry EXCEPT ![p] = Written(entry[p])]
      BY <1>0, <2>1, <2>2, <2>3, <2>5 DEF FilesOf
    <3>2. \A d \in Callers : \/ PlaceOf(d) = p /\ OwnBytes(entry'[PlaceOf(d)], UrlOf[d])
                             \/ entry'[PlaceOf(d)] = entry[PlaceOf(d)]
      BY <1>0, <3>1
    <3> QED
      BY <2>1, <2>4, <3>1, <3>2 DEF FilesOf, Clean
  <2>6. CASE writing[c] # "entry"
    BY <2>1, <2>4, <2>6 DEF FilesOf
  <2> QED
    BY <2>5, <2>6
<1>5. ASSUME Rename(c)
      PROVE  \A d \in Callers : FilesOf(d)'
  <2>1. /\ setup' = setup
        /\ entry' = IF part[p] # Absent THEN [entry EXCEPT ![p] = part[p]] ELSE entry
        /\ part' = [part EXCEPT ![p] = Absent]
        /\ \A d \in Callers :
             writing'[d] = IF d = c THEN "none"
                           ELSE IF part[p] = Absent \/ PlaceOf(d) # p THEN writing[d]
                           ELSE CASE writing[d] = "part"  -> "entry"
                                  [] writing[d] = "entry" -> "gone"
                                  [] OTHER                -> writing[d]
    BY <1>5 DEF Rename, Local
  <2>2. \A d \in Callers : OwnBytes(part'[PlaceOf(d)], UrlOf[d])
    BY <1>0, <2>1, EmptyIsOwn DEF FilesOf
  <2>3. CASE part[p] = Absent
    <3>1. /\ entry' = entry
          /\ \A d \in Callers : writing'[d] \in {writing[d], "none"}
          /\ \A d \in Callers : part[PlaceOf(d)] = Absent => part'[PlaceOf(d)] = Absent
      BY <1>0, <2>1, <2>3
    <3> QED
      BY <2>1, <2>2, <3>1 DEF FilesOf
  <2>4. CASE part[p] # Absent
    <3>1. setup.cache = "disk" /\ OwnBytes(part[p], u)
      BY <1>0, <2>4 DEF FilesOf
    <3>2. entry' = [entry EXCEPT ![p] = part[p]]
      BY <2>1, <2>4
    <3>3. \A d \in Callers : \/ PlaceOf(d) = p /\ OwnBytes(entry'[PlaceOf(d)], UrlOf[d])
                             \/ /\ PlaceOf(d) # p /\ entry'[PlaceOf(d)] = entry[PlaceOf(d)]
                                /\ writing'[d] \in {"none", writing[d]}
      BY <1>0, <2>1, <3>1, <3>2
    <3> QED
      BY <2>1, <2>2, <3>1, <3>3 DEF FilesOf, Clean
  <2> QED
    BY <2>3, <2>4
<1>6. ASSUME StoreFails(c)
      PROVE  \A d \in Callers : FilesOf(d)'
  <2>1. /\ UNCHANGED <<setup, entry, part>>
        /\ writing' = [writing EXCEPT ![c] = "none"]
    BY <1>6 DEF StoreFails, Local
  <2>2. \A d \in Callers : writing'[d] \in {writing[d], "none"}
    BY <1>0, <2>1
  <2> QED
    BY <2>1, <2>2 DEF FilesOf
<1>7. \/ PutMemory(c) \/ OpenPart(c) \/ FillPart(c) \/ Rename(c) \/ StoreFails(c)
      \/ UNCHANGED <<setup, cacheVars>>
  BY DEF CallStep, Interrupted, BeginUncached, LookInMemory, ReadEntry, JudgeEntry, ReadClock,
         TakeSlot, Sleep, GiveUp, Wake, Send, Succeed, Retry, Fail, Local
<1> QED
  BY <1>1, <1>2, <1>3, <1>4, <1>5, <1>6, <1>7, <1>a

LEMMA FilesAre ==
  FilesAreClean <=> \A c \in Callers : FilesOf(c) /\ Clean(call[c].read, UrlOf[c])
BY DEF FilesAreClean, FilesOf

LEMMA HitsKept ==
  ASSUME KeysApart, ClientTypeOK, FilesAreClean, HitIsOwnKey, NEW c \in Callers, CallStep(c)
  PROVE  FilesAreClean' /\ HitIsOwnKey'
<1>1. ReadsOf(c)
  BY StepReads
<1>2. setup.cache \in {"disk", "memory"}
  BY DEF ClientTypeOK, Setups
<1>3. setup' = setup /\ \A d \in Callers : FilesOf(d)'
  BY FilesAre, FilesKept
<1>4. \A d \in Callers : Clean(call'[d].read, UrlOf[d])
  BY <1>1, EmptyIsOwn DEF ReadsOf, FilesAreClean
<1>5. FilesAreClean'
  BY <1>3, <1>4 DEF FilesAreClean, FilesOf
<1>6. ASSUME NEW d \in Callers, result'[d].how = "hit"
      PROVE  /\ result'[d].entry.key = UrlOf[d]
             /\ {result'[d].entry.first, result'[d].entry.second} \subseteq {UrlOf[d], "none"}
  <2>1. CASE result'[d] = result[d]
    BY <1>6, <2>1 DEF HitIsOwnKey
  <2>2. CASE result'[d] # result[d]
    <3>1. /\ d = c /\ result'[d].entry.key = UrlOf[c]
          /\ \/ result'[d].entry = call[c].read
             \/ setup.cache = "memory" /\ result'[d].entry = entry[UrlOf[c]]
      BY <1>1, <1>6, <2>2 DEF ReadsOf
    <3>2. Clean(result'[d].entry, UrlOf[c])
      BY <3>1 DEF FilesAreClean
    <3> QED
      BY <3>1, <3>2 DEF Clean, OwnBytes
  <2> QED
    BY <2>1, <2>2
<1> QED
  BY <1>5, <1>6 DEF HitIsOwnKey


LEMMA PurgeKeeps ==
  ASSUME ClientTypeOK, FilesAreClean, HitIsOwnKey, Purge
  PROVE  FilesAreClean' /\ HitIsOwnKey'
<1>0. /\ entry \in [Paths \cup Urls -> Entry]
      /\ writing \in [Callers -> {"none", "part", "entry", "gone"}]
      /\ \A c \in Callers : PlaceOf(c) \in Paths /\ UrlOf[c] \in Urls
  BY PlaceIsAPath DEF ClientTypeOK
<1>1. PICK gone : Remove(gone)
  BY DEF Purge
<1>2. UNCHANGED <<setup, call, result, part>>
  BY DEF Purge
<1>3. /\ \A p \in Paths \cup Urls : entry'[p] = IF p \in gone THEN Absent ELSE entry[p]
      /\ \A c \in Callers : writing'[c] = IF writing[c] = "entry" /\ PlaceOf(c) \in gone
                                          THEN "gone" ELSE writing[c]
  BY <1>0, <1>1 DEF Remove
<1>4. ASSUME NEW c \in Callers
      PROVE  FilesOf(c)'
  <2>1. FilesOf(c) /\ Clean(Absent, UrlOf[c])
    BY EmptyIsOwn, FilesAre
  <2>2. entry'[PlaceOf(c)] = (IF PlaceOf(c) \in gone THEN Absent ELSE entry[PlaceOf(c)])
        /\ entry'[UrlOf[c]] = (IF UrlOf[c] \in gone THEN Absent ELSE entry[UrlOf[c]])
    BY <1>0, <1>3
  <2>3. writing'[c] = IF writing[c] = "entry" /\ PlaceOf(c) \in gone
                      THEN "gone" ELSE writing[c]
    BY <1>3
  <2> QED
    BY <1>2, <2>1, <2>2, <2>3 DEF FilesOf
<1>5. FilesAreClean'
  BY <1>2, <1>4 DEF FilesAreClean, FilesOf
<1>6. HitIsOwnKey'
  BY <1>2 DEF HitIsOwnKey
<1> QED
  BY <1>5, <1>6

LEMMA FilesStart ==
  ASSUME Init
  PROVE  FilesAreClean /\ HitIsOwnKey
<1>1. /\ part = [p \in Paths |-> Absent] /\ writing = [c \in Callers |-> "none"]
      /\ call = [c \in Callers |-> AtPlace("idle")]
      /\ result = [c \in Callers |-> Nothing]
  BY DEF Init
<1>2. \A c \in Callers : PlaceOf(c) \in Paths /\ UrlOf[c] \in Urls
  BY PlaceIsAPath
<1>3. \A u, v : Clean(WholeOf(v, 0), u) /\ Clean(Absent, u) /\ OwnBytes(Absent, u)
  BY DEF Clean, WholeOf, OwnBytes, Absent
<1>4. \A p \in Paths \cup Urls : entry[p] = Absent \/ \E v : entry[p] = WholeOf(v, 0)
  <2>1. CASE entry \in EarlierEntries
    BY <2>1 DEF EarlierEntries
  <2>2. CASE entry = [p \in Paths \cup Urls |-> Absent]
    BY <2>2
  <2> QED
    BY <2>1, <2>2 DEF Init
<1>5. \A c \in Callers : Clean(entry[PlaceOf(c)], UrlOf[c]) /\ Clean(entry[UrlOf[c]], UrlOf[c])
  BY <1>2, <1>3, <1>4
<1>6. FilesAreClean
  BY <1>1, <1>2, <1>3, <1>5 DEF FilesAreClean, AtPlace
<1> QED
  BY <1>1, <1>6 DEF HitIsOwnKey, Nothing

(***************************************************************************)
(* However many calls store under one key at once, whatever fails or is    *)
(* purged between two writes, and whatever keys the directory held before  *)
(* under the same file names, a hit serves the caller's own answer, as     *)
(* long as the keys asked for at one time have a file each.                *)
(* cache.rs:55-60, 231-275.                                                *)
(***************************************************************************)
THEOREM HitsAreOwn == KeysApart /\ Spec => []HitIsOwnKey
<1> SUFFICES ASSUME KeysApart
             PROVE  Spec => []HitIsOwnKey
  OBVIOUS
<1> DEFINE Inv == IInv /\ FilesAreClean /\ HitIsOwnKey
<1>1. Init => Inv
  BY InvStarts, FilesStart
<1>2. ASSUME Inv, [Next]_clientVars
      PROVE  FilesAreClean' /\ HitIsOwnKey'
  <2>1. ClientTypeOK
    BY <1>2 DEF IInv
  <2>2. CASE \E c \in Callers : CallStep(c)
    BY <1>2, <2>1, <2>2, HitsKept
  <2>3. CASE Purge
    BY <1>2, <2>1, <2>3, PurgeKeeps
  <2>4. CASE UNCHANGED <<setup, call, result, cacheVars>>
    BY <1>2, <2>4 DEF FilesAreClean, HitIsOwnKey
  <2> QED
    BY <1>2, <2>2, <2>3, <2>4 DEF Next, CancelCall, Tick
<1>3. Inv /\ [Next]_clientVars => Inv'
  BY <1>2, InvKept
<1>4. Inv => HitIsOwnKey
  OBVIOUS
<1> QED
  BY <1>1, <1>3, <1>4, PTL DEF Spec

=============================================================================
