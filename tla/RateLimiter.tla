---------------------------- MODULE RateLimiter ----------------------------
(***************************************************************************)
(* The rate limiter of crates/metadata/src/policy.rs.                      *)
(*                                                                         *)
(* A limiter hands out slots: instants at which one request may be issued. *)
(* A slot is reserved, and spoken for, before the caller waits for it; a   *)
(* caller interrupted while it waits hands its slot back, and one that has *)
(* waited spends it.  Time is the client's clock, in units that divide     *)
(* the interval.                                                           *)
(***************************************************************************)
EXTENDS Integers

CONSTANTS
  Callers,   \* the threads that share the limiter
  Interval   \* min_interval; zero (unlimited) is another, trivial limiter

ASSUME LimiterAssumption == Interval \in Nat \ {0}

NoSlot == -1

VARIABLES
  nextFree,  \* next_free: when the next request may be issued
  slot,      \* the slot each caller holds, NoSlot when it holds none
  spent      \* the slots requests were issued on

limiterVars == <<nextFree, slot, spent>>

LimiterInit ==
  /\ nextFree = 0
  /\ slot = [c \in Callers |-> NoSlot]
  /\ spent = {}

----------------------------------------------------------------------------
(***************************************************************************)
(* reserve(since): the later of the next free instant and the caller's own *)
(* reading of the clock, which may be older than the reservation.          *)
(***************************************************************************)
IssueAt(since) == IF nextFree >= since THEN nextFree ELSE since

Reserve(c, since) ==
  /\ slot' = [slot EXCEPT ![c] = IssueAt(since)]
  /\ nextFree' = IssueAt(since) + Interval
  /\ UNCHANGED spent

\* Mutant: a release that does not ask whether a later slot was handed out.
ReleaseAnyway(c) ==
  /\ nextFree' = slot[c]
  /\ slot' = [slot EXCEPT ![c] = NoSlot]
  /\ UNCHANGED spent

(***************************************************************************)
(* release(reserved_until): only the newest slot can be taken back; an     *)
(* older one is lost, and nobody gets it.                                  *)
(***************************************************************************)
ReservedUntil(c) == slot[c] + Interval

Release(c) ==
  /\ nextFree' = IF nextFree = ReservedUntil(c) THEN slot[c] ELSE nextFree
  /\ slot' = [slot EXCEPT ![c] = NoSlot]
  /\ UNCHANGED spent

(* The request goes out on the slot.                                       *)
Spend(c) ==
  /\ spent' = spent \cup {slot[c]}
  /\ slot' = [slot EXCEPT ![c] = NoSlot]
  /\ UNCHANGED nextFree

----------------------------------------------------------------------------
Held == {c \in Callers : slot[c] # NoSlot}

Apart(s, t) == s >= t + Interval \/ t >= s + Interval

LimiterTypeOK ==
  /\ nextFree \in Nat
  /\ slot \in [Callers -> Nat \cup {NoSlot}]
  /\ spent \in SUBSET Nat

(***************************************************************************)
(* Slots never crowd: whatever callers reserve, spend and hand back, in    *)
(* any order, two slots that were issued or are held are one interval      *)
(* apart, and the next reservation is one interval after all of them.      *)
(* policy.rs:219-239, which claims two threads "get two slots one interval *)
(* apart rather than the same one".                                        *)
(***************************************************************************)
SlotsApart ==
  /\ \A c, d \in Held : c # d => Apart(slot[c], slot[d])
  /\ \A c \in Held : \A s \in spent : Apart(slot[c], s)
  /\ \A s, t \in spent : s # t => Apart(s, t)
  /\ \A c \in Held : slot[c] + Interval <= nextFree
  /\ \A s \in spent : s + Interval <= nextFree
=============================================================================
