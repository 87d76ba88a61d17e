--------------------------- MODULE MetadataClient ---------------------------
(***************************************************************************)
(* The provider client of crates/metadata: client.rs (body, uncached,      *)
(* send, nap, cancellation), policy.rs (the limiter and the retry rule),   *)
(* cache.rs (the memory and the disk cache) and agent.rs (the transport).  *)
(*                                                                         *)
(* Each call is one thread that asks one client for one URL.  Every place  *)
(* where another thread, the clock or a cancellation can come between two  *)
(* steps of the code is a program counter here.                            *)
(***************************************************************************)
EXTENDS RateLimiter, FiniteSets

CONSTANTS
  UrlOf,          \* the URL each call asks for
  PathOf,         \* the file a cache key is kept in: a CRC-32, so not one to one
  CoverCalls,     \* the calls that may be for cover art, which goes through uncached()
  Attempts,       \* Retry::attempts
  InitialBackoff, \* Retry::initial_backoff
  MaxBackoff,     \* Retry::max_backoff
  Slice,          \* CANCEL_SLICE: how often a waiting call looks at its flag
  Ttl,            \* how long a cached answer is used for
  AskedAfter,     \* bound: the Retry-After values a provider sends
  MaxNow          \* bound: where the clock stops

ASSUME ClientAssumption ==
  /\ Attempts \in Nat \ {0}
  /\ InitialBackoff \in Nat /\ MaxBackoff \in Nat
  /\ Slice \in Nat \ {0} /\ Ttl \in Nat /\ AskedAfter \subseteq Nat /\ MaxNow \in Nat
  /\ CoverCalls \subseteq Callers

Urls  == {UrlOf[c] : c \in Callers}
Paths == {PathOf[u] : u \in Urls}

VARIABLES
  setup,      \* the transport and the cache the client was built with
  now,        \* the clock
  call,       \* what each call is doing: see Call
  cancelled,  \* its Cancel flag: "no", or whether it rose while it waited
  result,     \* what it returned
  entry,      \* the cache entries, by path (disk) or key (memory)
  part,       \* the .part files, by path
  writing     \* which file the writer's handle of a call points at

cacheVars  == <<entry, part, writing>>
clientVars == <<setup, now, call, cancelled, result, cacheVars, limiterVars>>

----------------------------------------------------------------------------
(* What a provider may do with a request.                                  *)

(***************************************************************************)
(* The agent with the disk cache is what the CLI builds; recorded answers  *)
(* and the memory cache are for tests; offline needs no provider at all.   *)
(***************************************************************************)
Setups ==
  [transport : {"http", "offline"}, cache : {"disk"}, uncached : {{}, CoverCalls}]
    \cup [transport : {"recorded"}, cache : {"memory"}, uncached : {{}, CoverCalls}]

NoAfter == -1
Silence == [kind |-> "none", heard |-> NoAfter, at |-> 0]

(***************************************************************************)
(* An answer by class.  "trouble" is a 5xx, a timeout or an unreachable    *)
(* host: worth asking again.  "refused" is every other status, and a       *)
(* failure that asking again would repeat.                                 *)
(***************************************************************************)
Kinds == {"ok", "limited", "trouble", "refused"}

Answers ==
  IF setup.transport = "offline"
  THEN {[kind |-> "refused", after |-> NoAfter]}
  ELSE {[kind |-> k, after |-> NoAfter] : k \in Kinds}
         \cup {[kind |-> "limited", after |-> a] : a \in AskedAfter}

(***************************************************************************)
(* What Transport::get hands over.  The HTTP agent builds the response of  *)
(* an error status from the status alone: no header of it arrives.         *)
(***************************************************************************)
Arrived(answer) == IF setup.transport = "http" THEN NoAfter ELSE answer.after

----------------------------------------------------------------------------
(* Retry.                                                                  *)

Larger(a, b)  == IF a >= b THEN a ELSE b
Smaller(a, b) == IF a <= b THEN a ELSE b

(* Retry::backoff of attempt n: nothing before the first, then doubling.   *)
Backoff(n) == IF n <= 1 THEN 0
              ELSE Smaller(InitialBackoff * 2 ^ Smaller(n - 2, 16), MaxBackoff)

Stop == -1

\* Mutant: the backoff of the attempt that failed, not of the one to come.
AfterEarly(n, kind, asked) ==
  IF n >= Attempts \/ kind \in {"ok", "refused"} \/ asked > MaxBackoff
  THEN Stop
  ELSE Larger(asked, Backoff(n))

(***************************************************************************)
(* Retry::after: how long to wait before trying again, Stop not to.        *)
(***************************************************************************)
After(n, kind, asked) ==
  IF n >= Attempts \/ kind \in {"ok", "refused"} \/ asked > MaxBackoff
  THEN Stop
  ELSE Larger(asked, Backoff(n + 1))

----------------------------------------------------------------------------
(* The cache.  An entry is its key line, whose bytes the two halves of its *)
(* body are, and when it was last written.  "none" is a hole or the end.   *)

Absent == [key |-> "none", first |-> "none", second |-> "none", at |-> -1]

WholeOf(u, t) == [key |-> u, first |-> u, second |-> u, at |-> t]

PlaceOf(c) == PathOf[UrlOf[c]]

Expired(e) == now - e.at >= Ttl

\* Mutant: a parse that trusts the file's name.
UsableByName(c, e) == e.key # "none"

(* parse(): a whole first and second line; the key must be the caller's.   *)
Usable(c, e) == e.key = UrlOf[c]

(* A directory outlives the process: any file may be there already.        *)
EarlierEntries ==
  {[p \in Paths \cup Urls |-> IF p \in Paths THEN e ELSE Absent] :
     e \in {Absent} \cup {WholeOf(u, 0) : u \in DOMAIN PathOf}}

----------------------------------------------------------------------------
(***************************************************************************)
(* A call: where it is, the attempt under way, the clock as it last read   *)
(* it, what is left of its nap and when the present slice of it is over,   *)
(* the answer it is retrying after, the bytes it read from the cache.      *)
(***************************************************************************)
AtPlace(place) == [pc |-> place, attempt |-> 0, since |-> 0, left |-> 0, wake |-> 0,
                   last |-> Silence, read |-> Absent]

Nothing == [how |-> "none", entry |-> Absent]

Init ==
  /\ LimiterInit
  /\ setup \in Setups
  /\ now = 0
  /\ call = [c \in Callers |-> AtPlace("idle")]
  /\ cancelled = [c \in Callers |-> "no"]
  /\ result = [c \in Callers |-> Nothing]
  /\ IF setup.cache = "disk" THEN entry \in EarlierEntries
     ELSE entry = [p \in Paths \cup Urls |-> Absent]
  /\ part = [p \in Paths |-> Absent]
  /\ writing = [c \in Callers |-> "none"]

At(c, place)   == call[c].pc = place
IsCancelled(c) == cancelled[c] # "no"

Goto(c, place) ==
  /\ call' = [call EXCEPT ![c].pc = place]
  /\ UNCHANGED result

Return(c, how, e) ==
  /\ call' = [call EXCEPT ![c] = AtPlace("done")]
  /\ result' = [result EXCEPT ![c] = [how |-> how, entry |-> e]]

Local == UNCHANGED <<setup, now, cancelled>>

(***************************************************************************)
(* body(), uncached(): the flag, then the cache.  A memory entry is read   *)
(* and judged under one lock; of a disk entry the bytes are read first.    *)
(***************************************************************************)
Interrupted(c) ==
  /\ At(c, "idle") \/ At(c, "top")
  /\ IsCancelled(c)
  /\ Return(c, "cancelled", Absent)
  /\ Local /\ UNCHANGED <<cacheVars, limiterVars>>

BeginUncached(c) ==
  /\ At(c, "idle") /\ ~IsCancelled(c) /\ c \in setup.uncached
  /\ Goto(c, "top")
  /\ Local /\ UNCHANGED <<cacheVars, limiterVars>>

LookInMemory(c) ==
  /\ At(c, "idle") /\ ~IsCancelled(c) /\ c \notin setup.uncached
  /\ setup.cache = "memory"
  /\ LET e == entry[UrlOf[c]]
     IN  IF Usable(c, e) /\ ~Expired(e) THEN Return(c, "hit", e) ELSE Goto(c, "top")
  /\ Local /\ UNCHANGED <<cacheVars, limiterVars>>

ReadEntry(c) ==
  /\ At(c, "idle") /\ ~IsCancelled(c) /\ c \notin setup.uncached
  /\ setup.cache = "disk"
  /\ call' = [call EXCEPT ![c].pc = "age", ![c].read = entry[PlaceOf(c)]]
  /\ Local /\ UNCHANGED <<result, cacheVars, limiterVars>>

(***************************************************************************)
(* Disk::load, second half: the age is that of the file as it is now.  A   *)
(* file that is gone has age zero.                                         *)
(***************************************************************************)
JudgeEntry(c) ==
  /\ At(c, "age")
  /\ LET present == entry[PlaceOf(c)]
         bytes   == call[c].read
     IN  IF Usable(c, bytes) /\ (present = Absent \/ ~Expired(present))
         THEN Return(c, "hit", bytes)
         ELSE /\ call' = [call EXCEPT ![c] = AtPlace("top")]
              /\ UNCHANGED result
  /\ Local /\ UNCHANGED <<cacheVars, limiterVars>>

----------------------------------------------------------------------------
(* send(), wait_for_a_slot(), nap().                                       *)

ReadClock(c) ==
  /\ At(c, "top")
  /\ ~IsCancelled(c)
  /\ call' = [call EXCEPT ![c].pc = "reserve", ![c].attempt = @ + 1, ![c].since = now]
  /\ Local /\ UNCHANGED <<result, cacheVars, limiterVars>>

(* A slot that is due at once is not waited for, nor is the flag asked.    *)
TakeSlot(c) ==
  /\ At(c, "reserve")
  /\ Reserve(c, call[c].since)
  /\ LET delay == IssueAt(call[c].since) - call[c].since
     IN  call' = [call EXCEPT ![c].pc = IF delay = 0 THEN "send" ELSE "queue",
                              ![c].left = delay, ![c].wake = 0, ![c].since = 0]
  /\ Local /\ UNCHANGED <<result, cacheVars>>

Napping(c) == (At(c, "queue") \/ At(c, "backoff")) /\ now >= call[c].wake

Sleep(c) ==
  /\ Napping(c)
  /\ ~IsCancelled(c)
  /\ call[c].left > 0
  /\ LET slice == Smaller(call[c].left, Slice)
     IN  call' = [call EXCEPT ![c].wake = now + slice, ![c].left = @ - slice]
  /\ Local /\ UNCHANGED <<result, cacheVars, limiterVars>>

\* Mutant: a nap that asks its flag before each slice but not after the last one.
NapBrokenEarly(c) == IsCancelled(c) /\ call[c].left > 0

(***************************************************************************)
(* With the flag up, after any slice or after the last one, the nap ends   *)
(* in an error, and a queueing call hands its slot back.                   *)
(***************************************************************************)
NapBroken(c) == IsCancelled(c)

GiveUp(c) ==
  /\ Napping(c)
  /\ NapBroken(c)
  /\ Return(c, "cancelled", Absent)
  /\ IF At(c, "queue") THEN Release(c) ELSE UNCHANGED limiterVars
  /\ Local /\ UNCHANGED <<cacheVars>>

Wake(c) ==
  /\ Napping(c)
  /\ ~NapBroken(c)
  /\ call[c].left = 0
  /\ call' = [call EXCEPT ![c].pc = IF @ = "queue" THEN "send" ELSE "top",
                          ![c].wake = 0]
  /\ Local /\ UNCHANGED <<result, cacheVars, limiterVars>>

Send(c) ==
  /\ At(c, "send")
  /\ Spend(c)
  /\ call' = [call EXCEPT ![c].pc = "wire", ![c].last = Silence]
  /\ Local /\ UNCHANGED <<result, cacheVars>>

(***************************************************************************)
(* The transport returns.  A success is stored and returned; of the rest   *)
(* Retry::after decides what is waited for, or classify() and explain()    *)
(* what error is returned.                                                 *)
(***************************************************************************)
Succeed(c, answer) ==
  /\ At(c, "wire")
  /\ answer.kind = "ok"
  /\ IF c \in setup.uncached THEN Return(c, "fetched", Absent) ELSE Goto(c, "store")
  /\ Local /\ UNCHANGED <<cacheVars, limiterVars>>

Retry(c, answer) ==
  /\ At(c, "wire")
  /\ LET again == After(call[c].attempt, answer.kind, Arrived(answer))
     IN  /\ again # Stop
         /\ call' = [call EXCEPT ![c].pc = "backoff", ![c].left = again,
                 ![c].last = [kind |-> answer.kind, heard |-> Arrived(answer), at |-> now]]
  /\ Local /\ UNCHANGED <<result, cacheVars, limiterVars>>

Fail(c, answer) ==
  /\ At(c, "wire")
  /\ answer.kind # "ok"
  /\ After(call[c].attempt, answer.kind, Arrived(answer)) = Stop
  /\ Return(c, "failed", Absent)
  /\ Local /\ UNCHANGED <<cacheVars, limiterVars>>

----------------------------------------------------------------------------
(* Memory::put, under its lock; Disk::store, one system call at a time.    *)

PutMemory(c) ==
  /\ At(c, "store") /\ setup.cache = "memory"
  /\ entry' = [entry EXCEPT ![UrlOf[c]] = WholeOf(UrlOf[c], now)]
  /\ Return(c, "fetched", Absent)
  /\ Local /\ UNCHANGED <<part, writing, limiterVars>>

\* Mutant: the entry is written in place, over what is there.
OpenInPlace(c) ==
  /\ At(c, "store") /\ setup.cache = "disk"
  /\ writing' = [writing EXCEPT ![c] = "entry"]
  /\ Goto(c, "fill")
  /\ Local /\ UNCHANGED <<entry, part, limiterVars>>

(* fs::write opens and truncates: another writer's .part, if one is there. *)
OpenPart(c) ==
  /\ At(c, "store") /\ setup.cache = "disk"
  /\ part' = [part EXCEPT ![PlaceOf(c)] = [Absent EXCEPT !.at = now]]
  /\ writing' = [writing EXCEPT ![c] = "part"]
  /\ Goto(c, "fill")
  /\ Local /\ UNCHANGED <<entry, limiterVars>>

(***************************************************************************)
(* The bytes reach the file the handle was opened on, at the handle's own  *)
(* offset: the .part, whoever truncated it since, or the entry itself once *)
(* another writer has renamed the .part.  write_all takes as many writes   *)
(* as it needs; two stand for them.                                        *)
(***************************************************************************)
FillPart(c) ==
  /\ At(c, "fill") \/ At(c, "filling")
  /\ LET p == PlaceOf(c)
         Written(e) == IF At(c, "fill")
                       THEN [e EXCEPT !.key = UrlOf[c], !.first = UrlOf[c], !.at = now]
                       ELSE [e EXCEPT !.second = UrlOf[c], !.at = now]
     IN  /\ part'  = IF writing[c] = "part" THEN [part EXCEPT ![p] = Written(@)] ELSE part
         /\ entry' = IF writing[c] = "entry" THEN [entry EXCEPT ![p] = Written(@)] ELSE entry
  /\ Goto(c, IF At(c, "fill") THEN "filling" ELSE "rename")
  /\ Local /\ UNCHANGED <<writing, limiterVars>>

(* fs::rename; a .part that is gone is an error put() drops.               *)
Rename(c) ==
  /\ At(c, "rename")
  /\ LET p     == PlaceOf(c)
         there == part[p] # Absent
     IN  /\ entry' = IF there THEN [entry EXCEPT ![p] = part[p]] ELSE entry
         /\ part' = [part EXCEPT ![p] = Absent]
         /\ writing' = [d \in Callers |->
              IF d = c THEN "none"
              ELSE IF ~there \/ PlaceOf(d) # p THEN writing[d]
              ELSE CASE writing[d] = "part"  -> "entry"
                     [] writing[d] = "entry" -> "gone"
                     [] OTHER                -> writing[d]]
  /\ Return(c, "fetched", Absent)
  /\ Local /\ UNCHANGED <<limiterVars>>

(* Any step of store() may fail; put() drops the error, a .part may stay.  *)
StoreFails(c) ==
  /\ call[c].pc \in {"store", "fill", "filling", "rename"} /\ setup.cache = "disk"
  /\ writing' = [writing EXCEPT ![c] = "none"]
  /\ Return(c, "fetched", Absent)
  /\ Local /\ UNCHANGED <<entry, part, limiterVars>>

----------------------------------------------------------------------------
(* The world around the calls.                                             *)

(* The places from which the flag is looked at before the next request.    *)
Waiting == {"idle", "age", "top", "queue", "backoff"}

CancelCall(c) ==
  /\ ~At(c, "done") /\ ~IsCancelled(c)
  /\ cancelled' = [cancelled EXCEPT ![c] =
                      IF call[c].pc \in Waiting THEN "waiting" ELSE "late"]
  /\ UNCHANGED <<setup, now, call, result, cacheVars, limiterVars>>

Tick ==
  /\ now < MaxNow
  /\ now' = now + 1
  /\ UNCHANGED <<setup, call, cancelled, result, cacheVars, limiterVars>>

(***************************************************************************)
(* purge(): expired entries go, all at once under the lock of the memory,  *)
(* file by file in the directory; a .part is not an entry and stays.  The  *)
(* handle of a writer whose file is removed points at no file any more.    *)
(***************************************************************************)
Remove(gone) ==
  /\ entry' = [p \in DOMAIN entry |-> IF p \in gone THEN Absent ELSE entry[p]]
  /\ writing' = [c \in Callers |->
       IF writing[c] = "entry" /\ PlaceOf(c) \in gone THEN "gone" ELSE writing[c]]

Purge ==
  /\ LET old == {p \in DOMAIN entry : entry[p] # Absent /\ Expired(entry[p])}
     IN  IF setup.cache = "disk" THEN \E p \in old : Remove({p})
         ELSE old # {} /\ Remove(old)
  /\ UNCHANGED <<setup, now, call, cancelled, result, part, limiterVars>>

CallStep(c) ==
  \/ Interrupted(c) \/ BeginUncached(c) \/ LookInMemory(c) \/ ReadEntry(c)
  \/ JudgeEntry(c) \/ ReadClock(c) \/ TakeSlot(c) \/ Sleep(c) \/ GiveUp(c)
  \/ Wake(c) \/ Send(c)
  \/ \E answer \in Answers : Succeed(c, answer) \/ Retry(c, answer) \/ Fail(c, answer)
  \/ PutMemory(c) \/ OpenPart(c) \/ FillPart(c) \/ Rename(c) \/ StoreFails(c)

Next ==
  \/ \E c \in Callers : CallStep(c) \/ CancelCall(c)
  \/ Tick
  \/ Purge

Spec == Init /\ [][Next]_clientVars

----------------------------------------------------------------------------
(* Types, and what a call holds at each of its places.                     *)

Keys  == Urls \cup DOMAIN PathOf \cup {"none"}
Entry == [key : Keys, first : Keys, second : Keys, at : Int]

Places == {"idle", "age", "top", "reserve", "queue", "send", "wire", "backoff",
           "store", "fill", "filling", "rename", "done"}

Call == [pc : Places, attempt : Nat, since : Nat, left : Int, wake : Int,
         last : [kind : Kinds \cup {"none"}, heard : Int, at : Int], read : Entry]

ClientTypeOK ==
  /\ setup \in Setups /\ now \in Nat
  /\ call \in [Callers -> Call]
  /\ cancelled \in [Callers -> {"no", "waiting", "late"}]
  /\ result \in [Callers -> [how : {"none", "cancelled", "hit", "fetched", "failed"},
                             entry : Entry]]
  /\ entry \in [Paths \cup Urls -> Entry] /\ part \in [Paths -> Entry]
  /\ writing \in [Callers -> {"none", "part", "entry", "gone"}]

(* A call holds a slot while it queues for it and until it sends on it.    *)
SlotsAreHeld ==
  \A c \in Callers : c \in Held <=> call[c].pc \in {"queue", "send"}

(* A retry may go on the wire from when its answer and its backoff allow:  *)
(* call k, in its attempt n, or on its way to it.                          *)
MayGoOn(k, n) ==
  /\ n <= Attempts
  /\ k.last.kind \in {"limited", "trouble"}
  /\ k.last.heard <= MaxBackoff

DueAt(k, n) == k.last.at + Larger(k.last.heard, Backoff(n))

RetryIsDue(k, t) ==
  /\ k.pc = "backoff" =>
       /\ MayGoOn(k, k.attempt + 1)
       /\ t + k.left >= DueAt(k, k.attempt + 1) \/ k.wake + k.left >= DueAt(k, k.attempt + 1)
  /\ k.pc = "top" /\ k.attempt > 0 =>
       MayGoOn(k, k.attempt + 1) /\ t >= DueAt(k, k.attempt + 1)
  /\ k.pc \in {"reserve", "queue", "send"} /\ k.attempt > 1 =>
       MayGoOn(k, k.attempt) /\ t >= DueAt(k, k.attempt)
  /\ k.pc = "idle" => k.attempt = 0

RetriesAreDue == \A c \in Callers : RetryIsDue(call[c], now)

(***************************************************************************)
(* The bytes a cache file holds, where no two keys that are being asked    *)
(* for share a file: what a call of key u writes, and what it wrote into,  *)
(* has no byte of another key; an entry that names u is u's throughout.    *)
(***************************************************************************)
KeysApart == \A c, d \in Callers : PlaceOf(c) = PlaceOf(d) => UrlOf[c] = UrlOf[d]

OwnBytes(e, u) == {e.key, e.first, e.second} \subseteq {u, "none"}
Clean(e, u)    == e.key = u => OwnBytes(e, u)

FilesAreClean ==
  \A c \in Callers :
    LET u == UrlOf[c]
        p == PlaceOf(c)
    IN  /\ OwnBytes(part[p], u)
        /\ setup.cache = "disk" => Clean(entry[p], u)
        /\ setup.cache = "memory" =>
             Clean(entry[u], u) /\ writing[c] = "none" /\ part[p] = Absent
        /\ writing[c] = "entry" => OwnBytes(entry[p], u)
        /\ Clean(call[c].read, u)

----------------------------------------------------------------------------
(* Properties.                                                             *)

(***************************************************************************)
(* A call cancelled while it waits, for its slot or between two attempts,  *)
(* puts nothing more on the wire.  client.rs:300-367.                      *)
(***************************************************************************)
InterruptedSendsNothing ==
  \A c \in Callers :
    cancelled[c] = "waiting" => call[c].pc \in Waiting \cup {"done"}

(***************************************************************************)
(* A request that is repeated follows a failure worth retrying, waited at  *)
(* least the doubled backoff of its attempt and the Retry-After that       *)
(* arrived, and is one of Attempts at most.  client.rs:308-331,            *)
(* policy.rs:322-343.                                                      *)
(***************************************************************************)
RetriesAreConservative ==
  [][\A c \in Callers :
       (call[c].pc = "send" /\ call'[c].pc = "wire" /\ call[c].attempt > 1) =>
         /\ call[c].attempt <= Attempts
         /\ call[c].last.kind \in {"limited", "trouble"}
         /\ call[c].last.heard <= MaxBackoff
         /\ now >= call[c].last.at + Larger(call[c].last.heard, Backoff(call[c].attempt))]_clientVars

(***************************************************************************)
(* Whatever other calls store meanwhile in the same file, and whatever     *)
(* other key's entry it held before: what a hit serves is the caller's own *)
(* answer, not one byte of another's.  A .part that two calls share may    *)
(* have been cut short.  It holds where the keys asked for at one time     *)
(* have a file each: two colliding keys stored at once share one .part as  *)
(* well, and mix.  cache.rs:55-60, 231-275.                                *)
(***************************************************************************)
HitIsOwnKey ==
  \A c \in Callers : result[c].how = "hit" =>
     LET e == result[c].entry
     IN  e.key = UrlOf[c] /\ {e.first, e.second} \subseteq {UrlOf[c], "none"}
=============================================================================
