------------------------------ MODULE CliProofs ------------------------------
(***************************************************************************)
(* Proofs about the project file, for any number of processes, of versions *)
(* and of attempts that are broken off, and about a capture under `vcw     *)
(* capture --project` into one, for every size of block, batch, ring and   *)
(* callback and any number of failed transactions.                         *)
(***************************************************************************)
EXTENDS CaptureCli, CaptureProofs

----------------------------------------------------------------------------
(***************************************************************************)
(* The project file: it is sound whoever opens it beside whom.  What       *)
(* carries it: a process that is migrating has yet to apply, of the        *)
(* versions it supports, at least those the file lacks, so the first of    *)
(* them that is not there already is the next one of the file; and a key   *)
(* it has not set is one it is still due to set.  Nobody takes the file    *)
(* away, or the journal back, while one of them is at it.                  *)
(***************************************************************************)
Keys == {CreatedKeys[i] : i \in 1 .. 3} \cup {WrittenKeys[i] : i \in 1 .. 3}

FileRecord ==
  [here : BOOLEAN, app : {"none", "other", "vcw"}, journal : {"none", "rollback", "wal"},
   version : Nat, tables : SUBSET Nat, recorded : SUBSET Nat, keys : SUBSET Keys]

FileTypes ==
  /\ file \in FileRecord
  /\ place \in [Openers -> Places]
  /\ todo \in [Openers -> SUBSET Nat]
  /\ due \in [Openers -> Seq(Keys)]

FileIsWhole ==
  /\ file.tables = 1 .. file.version /\ file.recorded = file.tables
  /\ file.app # "vcw" => file.version = 0 /\ file.keys = {}

IsDue(o, key) == \E i \in 1 .. Len(due[o]) : due[o][i] = key

SetOrDue(o) == \A i \in 1 .. 3 : WrittenKeys[i] \in file.keys \/ IsDue(o, WrittenKeys[i])

Knows(o) ==
  /\ todo[o] \subseteq 1 .. Supports(o)
  /\ \A v \in 1 .. Supports(o) : v \in todo[o] \/ v <= file.version

OnItsWay(o) ==
  /\ place[o] \in {"tune-new", "pending", "apply", "writer"} => file.app = "vcw" /\ SetOrDue(o)
  /\ place[o] \in {"open", "pending", "apply", "writer"} => file.journal = "wal"
  /\ place[o] \in {"apply", "writer"} => Knows(o)
  /\ place[o] = "writer" => todo[o] = {} /\ due[o] = <<>>

FileInv == FileTypes /\ FileIsWhole /\ \A o \in Openers : OnItsWay(o)

USE DEF fileVars, FileRecord

----------------------------------------------------------------------------
LEMMA BuildsSupport == \A o \in Openers : Supports(o) \in Nat /\ Supports(o) > 0
<1> QED
  BY ProjectAssumption DEF Supports

LEMMA SchemaIsOfItsVersion ==
  \A n \in Nat, app \in {"none", "other", "vcw"}, journal \in {"none", "rollback", "wal"} :
    LET made == SchemaAt(app, journal, n)
    IN  /\ made \in FileRecord /\ made.app = app /\ made.version = n /\ made.keys = {}
        /\ made.tables = 1 .. n /\ made.recorded = 1 .. n
<1> QED
  BY DEF SchemaAt

LEMMA NoFileIsEmpty ==
  /\ NoFile \in FileRecord /\ NoFile.app = "none" /\ NoFile.version = 0 /\ NoFile.keys = {}
  /\ NoFile.tables = 1 .. NoFile.version /\ NoFile.recorded = NoFile.tables
<1> DEFINE made == SchemaAt("none", "none", 0)
<1>1. /\ made \in FileRecord /\ made.app = "none" /\ made.version = 0 /\ made.keys = {}
      /\ made.tables = 1 .. 0 /\ made.recorded = 1 .. 0
  BY SchemaIsOfItsVersion
<1>2. NoFile = [made EXCEPT !.here = FALSE]
  BY DEF NoFile
<1> HIDE DEF made
<1> QED
  BY <1>1, <1>2

LEMMA KeysAreDue ==
  /\ CreatedKeys \o WrittenKeys \in Seq(Keys) /\ WrittenKeys \in Seq(Keys)
  /\ \A i \in 1 .. 3 : /\ \E j \in 1 .. Len(CreatedKeys \o WrittenKeys) :
                            (CreatedKeys \o WrittenKeys)[j] = WrittenKeys[i]
                       /\ \E j \in 1 .. Len(WrittenKeys) : WrittenKeys[j] = WrittenKeys[i]
<1>1. CreatedKeys \in Seq(Keys) /\ Len(CreatedKeys) = 3
  BY DEF CreatedKeys, Keys
<1>2. WrittenKeys \in Seq(Keys) /\ Len(WrittenKeys) = 3
  BY DEF WrittenKeys, Keys
<1> DEFINE both == CreatedKeys \o WrittenKeys
<1>3. /\ both \in Seq(Keys) /\ Len(both) = 6
      /\ \A i \in 1 .. 6 : both[i] = IF i <= 3 THEN CreatedKeys[i] ELSE WrittenKeys[i - 3]
  <2>1. /\ both \in Seq(Keys)
        /\ Len(both) = Len(CreatedKeys) + Len(WrittenKeys)
        /\ \A i \in 1 .. Len(CreatedKeys) + Len(WrittenKeys) :
             both[i] = IF i <= Len(CreatedKeys) THEN CreatedKeys[i]
                       ELSE WrittenKeys[i - Len(CreatedKeys)]
    <3> HIDE DEF both
    <3>1. \A s1, s2 \in Seq(Keys) :
            /\ s1 \o s2 \in Seq(Keys)
            /\ Len(s1 \o s2) = Len(s1) + Len(s2)
            /\ \A i \in 1 .. Len(s1) + Len(s2) : (s1 \o s2)[i] =
                 IF i <= Len(s1) THEN s1[i] ELSE s2[i - Len(s1)]
      BY ConcatProperties, Zenon
    <3> QED
      BY <1>1, <1>2, <3>1 DEF both
  <2> HIDE DEF both
  <2> QED
    BY <1>1, <1>2, <2>1
<1>4. \A i \in 1 .. 3 : both[3 + i] = WrittenKeys[i]
  BY <1>3
<1>5. \A i \in 1 .. 3 : 3 + i \in 1 .. 6
  OBVIOUS
<1> QED
  BY <1>2, <1>3, <1>4, <1>5

(* A step of a process that leaves the file alone.                         *)
LEMMA FileAlone ==
  ASSUME FileInv, UNCHANGED file, NEW o \in Openers, NEW next \in Places, Go(o, next),
         todo' \in [Openers -> SUBSET Nat], due' \in [Openers -> Seq(Keys)],
         \A p \in Openers \ {o} : todo'[p] = todo[p] /\ due'[p] = due[p],
         OnItsWay(o)'
  PROVE  FileInv'
<1>1. FileTypes'
  BY DEF FileInv, FileTypes, Go
<1>2. FileIsWhole'
  BY DEF FileInv, FileIsWhole
<1>3. ASSUME NEW p \in Openers, p # o PROVE OnItsWay(p)'
  <2>1. place'[p] = place[p] /\ todo'[p] = todo[p] /\ due'[p] = due[p]
    BY <1>3 DEF FileInv, FileTypes, Go
  <2>2. OnItsWay(p)
    BY DEF FileInv
  <2> QED
    BY <2>1, <2>2 DEF OnItsWay, SetOrDue, IsDue, Knows
<1> QED
  BY <1>1, <1>2, <1>3 DEF FileInv

(* A process that is refused, or has only asked, is not on its way.        *)
LEMMA NotOnItsWay ==
  ASSUME FileInv, UNCHANGED file, NEW o \in Openers,
         NEW next \in Places \ {"tune-new", "open", "pending", "apply", "writer"}, Go(o, next),
         todo' \in [Openers -> SUBSET Nat], due' \in [Openers -> Seq(Keys)],
         \A p \in Openers \ {o} : todo'[p] = todo[p] /\ due'[p] = due[p]
  PROVE  FileInv'
<1>1. place'[o] = next
  BY DEF FileInv, FileTypes, Go
<1>2. OnItsWay(o)'
  BY <1>1 DEF OnItsWay
<1> QED
  BY <1>2, FileAlone

(* A step that writes to the file keeps what the others count on.          *)
LEMMA OthersGoOn ==
  ASSUME FileInv, FileTypes', NEW o \in Openers, file.app = "vcw" => file'.app = "vcw",
         file.journal = "wal" => file'.journal = "wal",
         file'.version >= file.version, file.keys \subseteq file'.keys,
         \A p \in Openers \ {o} :
           place'[p] = place[p] /\ todo'[p] = todo[p] /\ due'[p] = due[p]
  PROVE  \A p \in Openers \ {o} : OnItsWay(p)'
<1> TAKE p \in Openers \ {o}
<1>1. OnItsWay(p)
  BY DEF FileInv
<1>2. place'[p] = place[p] /\ todo'[p] = todo[p] /\ due'[p] = due[p]
  OBVIOUS
<1>3. SetOrDue(p) => SetOrDue(p)'
  BY <1>2 DEF SetOrDue, IsDue
<1>4. Knows(p) => Knows(p)'
  <2>1. file.version \in Nat /\ file'.version \in Nat
    BY DEF FileInv, FileTypes
  <2>2. Supports(p) \in Nat
    BY BuildsSupport
  <2> QED
    BY <1>2, <2>1, <2>2 DEF Knows
<1> QED
  BY <1>1, <1>2, <1>3, <1>4 DEF OnItsWay

LEMMA AskKeeps ==
  ASSUME FileInv, NEW o \in Openers,
         Ask(o) \/ Connect(o) \/ PragmasFail(o) \/ ApplyFails(o) \/ Break(o) \/ Leave(o)
  PROVE  FileInv'
<1>1. todo \in [Openers -> SUBSET Nat] /\ due \in [Openers -> Seq(Keys)]
  BY DEF FileInv, FileTypes
<1>2. CASE Ask(o)
  <2>1. UNCHANGED <<file, todo, due>>
        /\ (Go(o, "connect") \/ Go(o, "read") \/ Go(o, "refused") \/ Go(o, "create")
             \/ Go(o, "make"))
    BY <1>2 DEF Ask, Open, OpenAgain, OpenReadOnly, OpenOrCreate, Create
  <2> QED
    BY <1>1, <2>1, NotOnItsWay DEF Places, Handles, Unconnected
<1>3. CASE Connect(o)
  <2>1. PICK next \in {"mark", "tune"} :
          place' = [place EXCEPT ![o] = next] /\ UNCHANGED <<todo, due>>
    BY <1>3 DEF Connect, Go
  <2>2. file' = [file EXCEPT !.here = TRUE]
    BY <1>3 DEF Connect
  <2>3. FileTypes'
    BY <2>1, <2>2 DEF FileInv, FileTypes, Places
  <2>4. FileIsWhole'
    BY <2>2 DEF FileInv, FileTypes, FileIsWhole
  <2>5. OnItsWay(o)'
    BY <2>1 DEF FileInv, FileTypes, OnItsWay
  <2>6. /\ file'.app = file.app /\ file'.version = file.version /\ file'.keys = file.keys
        /\ file'.journal = file.journal
        /\ file.version \in Nat
        /\ \A p \in Openers \ {o} : place'[p] = place[p]
    BY <2>1, <2>2 DEF FileInv, FileTypes
  <2>7. file'.version >= file.version
    BY <2>6
  <2>8. \A p \in Openers \ {o} : OnItsWay(p)'
    BY <2>1, <2>3, <2>6, <2>7, OthersGoOn
  <2> QED
    BY <2>3, <2>4, <2>5, <2>8 DEF FileInv
<1>4. CASE PragmasFail(o) \/ ApplyFails(o) \/ Break(o)
  <2>1. UNCHANGED <<file, todo, due>> /\ Go(o, "refused")
    BY <1>4 DEF PragmasFail, ApplyFails, Break
  <2> QED
    BY <1>1, <2>1, NotOnItsWay DEF Places, Unconnected
<1>5. CASE Leave(o)
  <2>1. UNCHANGED file /\ Go(o, "away")
    BY <1>5 DEF Leave
  <2>2. /\ todo' = [todo EXCEPT ![o] = {}]
        /\ due' = [due EXCEPT ![o] = <<>>]
    BY <1>5 DEF Leave
  <2>3. <<>> \in Seq(Keys)
    OBVIOUS
  <2>4. todo' \in [Openers -> SUBSET Nat] /\ due' \in [Openers -> Seq(Keys)]
    BY <1>1, <2>2, <2>3
  <2>5. \A p \in Openers \ {o} : todo'[p] = todo[p] /\ due'[p] = due[p]
    BY <1>1, <2>2
  <2> QED
    BY <2>1, <2>4, <2>5, NotOnItsWay DEF Places, Unconnected
<1> QED
  BY <1>2, <1>3, <1>4, <1>5

LEMMA MarkKeeps ==
  ASSUME FileInv, NEW o \in Openers, Mark(o)
  PROVE  FileInv'
<1>1. /\ place' = [place EXCEPT ![o] = "tune-new"] /\ todo' = todo
      /\ due' = [due EXCEPT ![o] = CreatedKeys \o WrittenKeys]
  BY DEF Mark, Go
<1>2. file' = [file EXCEPT !.app = "vcw", !.journal = IF @ = "none" THEN "rollback" ELSE @]
  BY DEF Mark
<1>3. FileTypes'
  BY <1>1, <1>2, KeysAreDue DEF FileInv, FileTypes, Places
<1>4. FileIsWhole'
  BY <1>2 DEF FileInv, FileTypes, FileIsWhole
<1>5. file'.app = "vcw"
  BY <1>2 DEF FileInv, FileTypes
<1>6. due'[o] = CreatedKeys \o WrittenKeys /\ place'[o] = "tune-new"
  BY <1>1 DEF FileInv, FileTypes
<1>7. SetOrDue(o)'
  BY <1>6, KeysAreDue DEF SetOrDue, IsDue
<1>8. OnItsWay(o)'
  <2>1. place'[o] \notin {"open", "pending", "apply", "writer"}
    BY <1>6
  <2> QED
    BY <1>5, <1>7, <2>1 DEF OnItsWay
<1>9. /\ file'.version = file.version /\ file'.keys = file.keys /\ file.version \in Nat
      /\ file.journal = "wal" => file'.journal = "wal"
  BY <1>2 DEF FileInv, FileTypes
<1>10. /\ file'.version >= file.version
       /\ \A p \in Openers \ {o} : place'[p] = place[p] /\ todo'[p] = todo[p] /\ due'[p] = due[p]
  BY <1>1, <1>9 DEF FileInv, FileTypes
<1>11. \A p \in Openers \ {o} : OnItsWay(p)'
  BY <1>3, <1>5, <1>9, <1>10, OthersGoOn
<1> QED
  BY <1>3, <1>4, <1>8, <1>11 DEF FileInv

LEMMA ApplyPragmasKeeps ==
  ASSUME FileInv, NEW o \in Openers, ApplyPragmas(o)
  PROVE  FileInv'
<1>1. PICK next \in {"open", "pending"} :
        /\ place' = [place EXCEPT ![o] = next] /\ UNCHANGED <<todo, due>>
        /\ next = "pending" => place[o] = "tune-new"
  BY DEF ApplyPragmas, Go
<1>2. file' = [file EXCEPT !.journal = "wal"]
  BY DEF ApplyPragmas
<1>3. FileTypes'
  BY <1>1, <1>2 DEF FileInv, FileTypes, Places
<1>4. FileIsWhole'
  BY <1>2 DEF FileInv, FileTypes, FileIsWhole
<1>5. /\ file'.app = file.app /\ file'.version = file.version /\ file'.keys = file.keys
      /\ file.version \in Nat /\ file'.journal = "wal"
      /\ place'[o] = next /\ \A p \in Openers \ {o} : place'[p] = place[p]
  BY <1>1, <1>2 DEF FileInv, FileTypes
<1>6. OnItsWay(o)'
  BY <1>1, <1>5 DEF FileInv, OnItsWay, SetOrDue, IsDue
<1>7. file'.version >= file.version
  BY <1>5
<1>8. \A p \in Openers \ {o} : OnItsWay(p)'
  BY <1>1, <1>3, <1>5, <1>7, OthersGoOn
<1> QED
  BY <1>3, <1>4, <1>6, <1>8 DEF FileInv

(* The file goes only while nobody is on the way.                          *)
LEMMA TakeAwayKeeps ==
  ASSUME FileInv, TakeAway
  PROVE  FileInv'
<1>1. /\ UNCHANGED <<place, todo, due>> /\ file' = NoFile
      /\ \A o \in Openers : place[o] \in Unconnected
  BY DEF TakeAway
<1>2. NoFile \in FileRecord /\ NoFile.version = 0 /\ NoFile.keys = {}
      /\ NoFile.tables = 1 .. NoFile.version /\ NoFile.recorded = NoFile.tables
  BY NoFileIsEmpty
<1>3. FileTypes' /\ FileIsWhole'
  BY <1>1, <1>2 DEF FileInv, FileTypes, FileIsWhole
<1>4. \A o \in Openers : OnItsWay(o)'
  BY <1>1 DEF OnItsWay, Unconnected
<1> QED
  BY <1>3, <1>4 DEF FileInv

LEMMA IdentifyKeeps ==
  ASSUME FileInv, NEW o \in Openers, Identify(o)
  PROVE  FileInv'
<1>1. todo' = todo /\ file' = file /\ todo \in [Openers -> SUBSET Nat]
      /\ due \in [Openers -> Seq(Keys)]
  BY DEF Identify, FileInv, FileTypes
<1>2. CASE due' = due /\ (Go(o, "refused") \/ Go(o, "reader"))
  BY <1>1, <1>2, NotOnItsWay DEF Places, Handles, Unconnected
<1>3. CASE /\ file.app = "vcw" /\ Go(o, "pending") /\ place[o] = "open"
           /\ due' = [due EXCEPT ![o] = WrittenKeys]
  <2>1. due' \in [Openers -> Seq(Keys)] /\ due'[o] = WrittenKeys
        /\ \A p \in Openers \ {o} : due'[p] = due[p]
    BY <1>1, <1>3, KeysAreDue
  <2>2. place'[o] = "pending"
    BY <1>3 DEF FileInv, FileTypes, Go
  <2>3. SetOrDue(o)'
    BY <2>1, KeysAreDue DEF SetOrDue, IsDue
  <2>4. OnItsWay(o)'
    BY <1>1, <1>3, <2>2, <2>3 DEF FileInv, OnItsWay
  <2> QED
    BY <1>1, <1>3, <2>1, <2>4, FileAlone DEF Places
<1> QED
  BY <1>2, <1>3 DEF Identify

LEMMA ReadPendingKeeps ==
  ASSUME FileInv, NEW o \in Openers, ReadPending(o)
  PROVE  FileInv'
<1> DEFINE lacking == {v \in 1 .. Supports(o) : v > file.version}
<1>1. /\ todo' = [todo EXCEPT ![o] = lacking] /\ due' = due /\ file' = file
      /\ place[o] = "pending" /\ Go(o, "apply")
  BY DEF ReadPending
<1>2. lacking \in SUBSET Nat /\ file.version \in Nat /\ Supports(o) \in Nat
  BY BuildsSupport DEF FileInv, FileTypes
<1>3. todo' \in [Openers -> SUBSET Nat] /\ todo'[o] = lacking
      /\ \A p \in Openers \ {o} : todo'[p] = todo[p]
  BY <1>1, <1>2 DEF FileInv, FileTypes
<1>4. place'[o] = "apply"
  BY <1>1 DEF FileInv, FileTypes, Go
<1>5. SetOrDue(o)' /\ file'.app = "vcw" /\ file'.journal = "wal"
  BY <1>1 DEF FileInv, OnItsWay, SetOrDue, IsDue
<1>6. Knows(o)'
  BY <1>1, <1>2, <1>3 DEF Knows
<1>7. OnItsWay(o)'
  BY <1>4, <1>5, <1>6 DEF OnItsWay
<1> QED
  BY <1>1, <1>3, <1>7, FileAlone DEF Places, FileInv, FileTypes

(***************************************************************************)
(* The version that is applied is the next one of the file: those before   *)
(* it are not in the list any more, so they are there, and it is not.      *)
(***************************************************************************)
LEMMA ApplyKeeps ==
  ASSUME FileInv, NEW o \in Openers, Apply(o)
  PROVE  FileInv'
<1>1. place[o] = "apply" /\ UNCHANGED <<place, due>>
  BY DEF Apply
<1>2. PICK m \in todo[o] :
        /\ \A n \in todo[o] : m <= n
        /\ m \notin file.tables
        /\ file' = [file EXCEPT !.tables = @ \cup {m}, !.recorded = @ \cup {m}, !.version = m]
        /\ todo' = [todo EXCEPT ![o] = @ \ {m}]
  BY DEF Apply, NextToApply
<1>3. /\ file.app = "vcw" /\ file.journal = "wal" /\ SetOrDue(o) /\ Knows(o)
      /\ file.version \in Nat /\ file.tables = 1 .. file.version /\ file.recorded = file.tables
  BY <1>1 DEF FileInv, FileTypes, FileIsWhole, OnItsWay
<1>4. m \in 1 .. Supports(o) /\ Supports(o) \in Nat /\ m \in Nat /\ m > 0
  BY <1>3, BuildsSupport DEF Knows
<1>5. m > file.version
  BY <1>2, <1>3, <1>4
<1>6. m = file.version + 1
  <2>1. CASE m = 1
    BY <1>3, <1>5, <2>1
  <2>2. CASE m > 1
    <3>1. m - 1 \in 1 .. Supports(o)
      BY <1>4, <2>2
    <3>2. m - 1 \notin todo[o]
      BY <1>2, <1>4
    <3>3. m - 1 <= file.version
      BY <1>3, <3>1, <3>2 DEF Knows
    <3> QED
      BY <1>3, <1>4, <1>5, <3>3
  <2> QED
    BY <1>4, <2>1, <2>2
<1>7. /\ file'.version = m /\ file'.app = "vcw" /\ file'.keys = file.keys
      /\ file'.here = file.here /\ file'.journal = file.journal
  BY <1>2, <1>3 DEF FileInv, FileTypes
<1>8. file'.tables = file.tables \cup {m} /\ file'.recorded = file.recorded \cup {m}
  BY <1>2 DEF FileInv, FileTypes
<1>9. file' \in FileRecord
  BY <1>2, <1>4 DEF FileInv, FileTypes
<1>10. todo' \in [Openers -> SUBSET Nat] /\ todo'[o] = todo[o] \ {m}
       /\ \A p \in Openers \ {o} : todo'[p] = todo[p]
  BY <1>2 DEF FileInv, FileTypes
<1>11. FileTypes'
  BY <1>1, <1>9, <1>10 DEF FileInv, FileTypes
<1>12. FileIsWhole'
  BY <1>3, <1>6, <1>7, <1>8 DEF FileIsWhole
<1>13. Knows(o)'
  BY <1>3, <1>4, <1>6, <1>7, <1>10 DEF Knows
<1>14. SetOrDue(o)'
  BY <1>1, <1>3, <1>7 DEF SetOrDue, IsDue
<1>15. OnItsWay(o)'
  <2>1. file'.journal = "wal" /\ place'[o] = "apply"
    BY <1>1, <1>3, <1>7
  <2> QED
    BY <1>7, <1>13, <1>14, <2>1 DEF OnItsWay
<1>16. \A p \in Openers \ {o} : OnItsWay(p)'
  BY <1>1, <1>3, <1>6, <1>7, <1>10, <1>11, OthersGoOn
<1> QED
  BY <1>11, <1>12, <1>15, <1>16 DEF FileInv

LEMMA SetKeyKeeps ==
  ASSUME FileInv, NEW o \in Openers, SetKey(o)
  PROVE  FileInv'
<1>1. /\ place[o] = "apply" /\ UNCHANGED <<place, todo>> /\ due[o] # <<>>
      /\ file' = [file EXCEPT !.keys = @ \cup {Head(due[o])}]
      /\ due' = [due EXCEPT ![o] = Tail(@)]
  BY DEF SetKey
<1>2. /\ due[o] \in Seq(Keys) /\ file.app = "vcw" /\ file.journal = "wal"
      /\ SetOrDue(o) /\ Knows(o)
  BY <1>1 DEF FileInv, FileTypes, OnItsWay
<1>3. /\ Head(due[o]) = due[o][1] /\ Head(due[o]) \in Keys
      /\ Tail(due[o]) \in Seq(Keys) /\ Len(Tail(due[o])) = Len(due[o]) - 1
      /\ \A i \in 1 .. Len(due[o]) - 1 : Tail(due[o])[i] = due[o][i + 1]
  BY <1>1, <1>2
<1>4. /\ file'.keys = file.keys \cup {due[o][1]} /\ file'.app = "vcw"
      /\ file'.version = file.version /\ file'.tables = file.tables
      /\ file'.recorded = file.recorded /\ file'.journal = file.journal
  BY <1>1, <1>2, <1>3 DEF FileInv, FileTypes
<1>5. file' \in FileRecord
  BY <1>1, <1>3 DEF FileInv, FileTypes
<1>6. due' \in [Openers -> Seq(Keys)] /\ due'[o] = Tail(due[o])
      /\ \A p \in Openers \ {o} : due'[p] = due[p]
  BY <1>1, <1>3 DEF FileInv, FileTypes
<1>7. FileTypes'
  BY <1>1, <1>5, <1>6 DEF FileInv, FileTypes
<1>8. FileIsWhole'
  BY <1>4 DEF FileInv, FileIsWhole
<1>9. ASSUME NEW i \in 1 .. 3
      PROVE  WrittenKeys[i] \in file'.keys \/ IsDue(o, WrittenKeys[i])'
  <2>1. CASE WrittenKeys[i] \in file.keys
    BY <1>4, <2>1
  <2>2. CASE IsDue(o, WrittenKeys[i])
    <3>1. PICK j \in 1 .. Len(due[o]) : due[o][j] = WrittenKeys[i]
      BY <2>2 DEF IsDue
    <3>2. CASE j = 1
      BY <1>4, <3>1, <3>2
    <3>3. CASE j > 1
      <4>1. Len(due[o]) \in Nat
        BY <1>2
      <4>2. j - 1 \in 1 .. Len(due[o]) - 1 /\ (j - 1) + 1 = j
        BY <3>1, <3>3, <4>1
      <4>3. Tail(due[o])[j - 1] = WrittenKeys[i]
        BY <1>3, <3>1, <4>2
      <4>4. j - 1 \in 1 .. Len(due'[o]) /\ due'[o][j - 1] = WrittenKeys[i]
        BY <1>3, <1>6, <4>2, <4>3
      <4> QED
        BY <4>4 DEF IsDue
    <3> QED
      BY <3>1, <3>2, <3>3
  <2> QED
    BY <1>2, <2>1, <2>2 DEF SetOrDue
<1>10. Knows(o)'
  BY <1>1, <1>2, <1>4 DEF Knows
<1>11. OnItsWay(o)'
  <2>1. file'.journal = "wal" /\ place'[o] = "apply"
    BY <1>1, <1>2, <1>4
  <2>2. SetOrDue(o)'
    BY <1>9 DEF SetOrDue
  <2> QED
    BY <1>4, <1>10, <2>1, <2>2 DEF OnItsWay
<1>12. file'.version >= file.version
  BY <1>4 DEF FileInv, FileTypes
<1>13. \A p \in Openers \ {o} : OnItsWay(p)'
  BY <1>1, <1>4, <1>6, <1>7, <1>12, OthersGoOn
<1> QED
  BY <1>7, <1>8, <1>11, <1>13 DEF FileInv

LEMMA HandOverKeeps ==
  ASSUME FileInv, NEW o \in Openers, HandOver(o)
  PROVE  FileInv'
<1>1. /\ place[o] = "apply" /\ todo[o] = {} /\ due[o] = <<>> /\ Go(o, "writer")
      /\ UNCHANGED <<file, todo, due>>
  BY DEF HandOver
<1>2. todo \in [Openers -> SUBSET Nat] /\ due \in [Openers -> Seq(Keys)]
  BY DEF FileInv, FileTypes
<1>3. OnItsWay(o)'
  BY <1>1 DEF FileInv, OnItsWay, SetOrDue, IsDue, Knows
<1> QED
  BY <1>1, <1>2, <1>3, FileAlone DEF Places, Handles

----------------------------------------------------------------------------
(***************************************************************************)
(* Whoever creates, opens and migrates a project beside whom, and wherever *)
(* one of them is cut short: the tables and the audit rows are exactly     *)
(* those of the version; a file that is not a project is given none of     *)
(* them, no version and no stamp, though connecting for writing has left   *)
(* its journal mode in it; and who may write finds all that its build      *)
(* expects, the journal included.  sqlite.rs:77-206, migrate.rs:95-129.    *)
(***************************************************************************)
THEOREM ProjectStaysSound == FileSpec => []ProjectIsSound
<1>1. FileInit => FileInv
  <2> SUFFICES ASSUME FileInit PROVE FileInv
    OBVIOUS
  <2>1. CASE file = NoFile
    BY <2>1, NoFileIsEmpty DEF FileInit, FileInv, FileTypes, FileIsWhole, OnItsWay, Places,
                               Unconnected
  <2>2. CASE \E app \in {"other", "vcw"} : \E journal \in {"none", "rollback", "wal"} :
               \E n \in Nat : file = SchemaAt(app, journal, n) /\ (app # "vcw" => n = 0)
    <3>1. PICK app \in {"other", "vcw"}, journal \in {"none", "rollback", "wal"}, n \in Nat :
            file = SchemaAt(app, journal, n) /\ (app # "vcw" => n = 0)
      BY <2>2
    <3>2. /\ file \in FileRecord /\ file.app = app /\ file.version = n /\ file.keys = {}
          /\ file.tables = 1 .. n /\ file.recorded = 1 .. n
      BY <3>1, SchemaIsOfItsVersion
    <3> QED
      BY <3>1, <3>2 DEF FileInit, FileInv, FileTypes, FileIsWhole, OnItsWay, Places, Unconnected
  <2>3. \A n \in 1 .. SchemaVersion + 1 : n \in Nat
    BY ProjectAssumption
  <2> QED
    BY <2>1, <2>2, <2>3 DEF FileInit, Foreign
<1>2. FileInv /\ [FileNext]_fileVars => FileInv'
  <2> SUFFICES ASSUME FileInv, [FileNext]_fileVars
               PROVE  FileInv'
    OBVIOUS
  <2>1. CASE UNCHANGED fileVars
    BY <2>1 DEF FileInv, FileTypes, FileIsWhole, OnItsWay, SetOrDue, IsDue, Knows
  <2>2. ASSUME NEW o \in Openers, Ask(o) \/ Attempt(o) \/ Leave(o)
        PROVE  FileInv'
    <3>1. \/ Ask(o) \/ Connect(o) \/ PragmasFail(o) \/ ApplyFails(o) \/ Break(o) \/ Leave(o)
          \/ Mark(o) \/ ApplyPragmas(o) \/ Identify(o) \/ ReadPending(o) \/ Apply(o)
          \/ SetKey(o) \/ HandOver(o)
      BY <2>2 DEF Attempt, Ask
    <3> QED
      BY <3>1, AskKeeps, MarkKeeps, ApplyPragmasKeeps, IdentifyKeeps, ReadPendingKeeps,
         ApplyKeeps, SetKeyKeeps, HandOverKeeps
  <2> QED
    BY <2>1, <2>2, TakeAwayKeeps DEF FileNext
<1>3. FileInv => ProjectIsSound
  <2> SUFFICES ASSUME FileInv PROVE ProjectIsSound
    OBVIOUS
  <2>1. ASSUME NEW o \in Openers, place[o] = "writer"
        PROVE  /\ file.app = "vcw" /\ file.version >= Supports(o) /\ file.journal = "wal"
               /\ \A i \in DOMAIN WrittenKeys : WrittenKeys[i] \in file.keys
    <3>1. /\ file.app = "vcw" /\ file.journal = "wal"
          /\ SetOrDue(o) /\ Knows(o) /\ todo[o] = {} /\ due[o] = <<>>
      BY <2>1 DEF FileInv, OnItsWay
    <3>2. Supports(o) \in 1 .. Supports(o) /\ file.version \in Nat /\ Supports(o) \in Nat
      BY BuildsSupport DEF FileInv, FileTypes
    <3>3. file.version >= Supports(o)
      BY <3>1, <3>2 DEF Knows
    <3>4. \A key : ~IsDue(o, key)
      BY <3>1 DEF IsDue
    <3>5. DOMAIN WrittenKeys = 1 .. 3
      BY DEF WrittenKeys
    <3> QED
      BY <3>1, <3>3, <3>4, <3>5 DEF SetOrDue
  <2> QED
    BY <2>1 DEF ProjectIsSound, FileInv, FileIsWhole
<1> QED
  BY <1>1, <1>2, <1>3, PTL DEF FileSpec

----------------------------------------------------------------------------
(* The capture.                                                            *)

USE DEF captureVars, deviceVars, handleVars, threadVars, writerVars, projectVars,
        cliVars, vars

----------------------------------------------------------------------------
(***************************************************************************)
(* What the row will say, by how far the verb and the writer have come.    *)
(***************************************************************************)
Steps == {"open", "begin", "recording", "drop", "result", "stop", "join", "reopen",
          "verify", "over"}

VerbInv ==
  /\ step \in Steps /\ final \in Nat
  /\ row.state = "absent" => step \in {"open", "begin", "over"} /\ ~row.finished
  /\ row.state # "absent" => step \notin {"open", "begin"}
  /\ stop => step \in {"join", "reopen", "verify", "over"}
  /\ result.state = "finalised" => result.lost = 0
  /\ step \in {"stop", "join", "reopen", "verify", "over"} /\ row.state # "absent" =>
       (result.state = "finalised" <=> final = 0)
  /\ step \in {"reopen", "verify"} => wpc = "done" /\ row.state # "absent"
  /\ step = "over" /\ row.state # "absent" => Ended

ClosingInv ==
  /\ wpc \in {"result", "finish", "close", "done"} => stop
  /\ wpc \in {"failed", "close-interrupted", "dead"} => failures > 0
  /\ wpc \in {"finish", "close"} => noted = result.lost
  /\ wpc = "done" => row.finished /\ row.state = result.state
  /\ row.finished /\ row.state = "finalised" => row.lost = 0

RowTold == TypeOK /\ ThreadInv /\ VerbInv /\ ClosingInv

(***************************************************************************)
(* Nothing is thrown away: the verb never pauses, so what a callback put   *)
(* into the ring goes into the blocks.                                     *)
(***************************************************************************)
NeverPaused ==
  /\ ~pause /\ ~paused /\ ~wasPaused
  /\ wpc \notin {"pause", "settle"}

(* Whole callbacks, in the order they were produced.                       *)
InOrder(held, next) ==
  /\ next % CallbackFrames = 0
  /\ \A i \in 1 .. Len(held) : held[i] < next
  /\ Len(held) > 0 => (held[Len(held)] + 1) % CallbackFrames = 0
  /\ \A i \in 1 .. Len(held) - 1 :
       \/ held[i + 1] = held[i] + 1
       \/ /\ held[i + 1] > held[i]
          /\ held[i + 1] % CallbackFrames = 0
          /\ (held[i] + 1) % CallbackFrames = 0

HeldInv ==
  /\ NeverPaused
  /\ Len(Held) + lost + (IF sink = "refused" THEN CallbackFrames ELSE 0) = produced
  /\ InOrder(Held, produced)

----------------------------------------------------------------------------
(* What a step of the verb does to the capture.                            *)

(* It begins the session, it uses the Handle, or it is aside of both.      *)
CliStep ==
  \/ (Device \/ Thread) /\ UNCHANGED cliVars
  \/ Verb
  \/ UNCHANGED <<captureVars, cliVars>>

LEMMA CliSteps ==
  ASSUME [Next]_vars
  PROVE  CliStep
BY DEF Next, OpeningOf, Over, CliStep

LEMMA VerbKeepsCapture ==
  ASSUME RowTold, CliStep
  PROVE  TypeOK' /\ ThreadInv'
<1> USE DEF RowTold
<1>1. ASSUME UNCHANGED captureVars
      PROVE  TypeOK' /\ ThreadInv'
  BY <1>1, ThreadAside DEF TypeOK, Aside
<1>2. CASE Device \/ Thread
  BY <1>2, DeviceType, DeviceAside, WriterType, ThreadStep, ThreadAside DEF Thread
<1>3. CASE BeginSession
  <2>1. row' = Begun /\ UNCHANGED <<deviceVars, ring, handleVars, wpc, threadVars, writerVars, blocks, failures>>
    BY <1>3 DEF BeginSession
  <2>2. row' \in Row /\ row'.finished = FALSE
    BY <2>1 DEF Begun, Row
  <2>3. TypeOK'
    BY <2>1, <2>2 DEF TypeOK
  <2>4. ThreadInv'
    BY <2>1, <2>2 DEF ThreadInv, NothingHeld, Ended
  <2> QED
    BY <2>3, <2>4
<1>4. ASSUME NEW state \in Endings, NEW counters \in Nat,
             SetResult(state, counters) \/ SetStop \/ CloseStream
      PROVE  TypeOK' /\ ThreadInv'
  BY <1>4, HandleType, HandleAside, ThreadAside
<1>5. CASE Verb
  <2>1. CASE OpenProject \/ SnapshotCounters \/ JoinWriter \/ Reopen \/ RecordVerification
    BY <1>1, <2>1 DEF OpenProject, SnapshotCounters, JoinWriter, Reopen, RecordVerification
  <2>2. CASE DropStream \/ StopWriter
    BY <1>4, <2>2 DEF DropStream, StopWriter, Endings
  <2>3. CASE GiveResult
    BY <1>4, <2>3 DEF GiveResult, Endings, VerbInv
  <2>4. CASE Refused
    <3>1. UNCHANGED captureVars \/ CloseStream
      BY <2>4 DEF Refused
    <3> QED
      BY <1>1, <1>4, <3>1 DEF Endings
  <2> QED
    BY <1>3, <1>5, <2>1, <2>2, <2>3, <2>4 DEF Verb
<1> QED
  BY <1>1, <1>2, <1>5 DEF CliStep

LEMMA VerbKept ==
  ASSUME RowTold, CliStep
  PROVE  VerbInv' /\ ClosingInv'
<1> USE DEF RowTold, VerbInv, ClosingInv
<1>1. CASE Thread /\ UNCHANGED cliVars
  <2>1. row.state # "absent" /\ row'.state # "absent" /\ UNCHANGED handleVars /\ ~Ended
    BY <1>1, WriterMoves, WriterCloses DEF Thread, Endings
  <2>2. VerbInv'
    BY <1>1, <2>1 DEF Ended
  <2>3. ~row.finished
    BY <2>1 DEF ThreadInv
  <2>4. row'.finished /\ row'.state = "finalised" => row'.lost = 0
    BY <1>1, <2>1, <2>3, WriterCloses DEF Thread
  <2>5. wpc' \in {"finish", "close"} => noted' = result.lost
    BY <1>1, WriterNotes DEF Thread
  <2>6. /\ wpc' \in {"result", "finish", "close", "done"} => stop'
        /\ wpc' \in {"failed", "close-interrupted", "dead"} => failures' > 0
    BY <1>1, <2>1, WriterMoves DEF Thread, TypeOK
  <2>7. wpc' = "done" => row'.finished /\ row'.state = result'.state
    BY <1>1, <2>1, WriterCloses DEF Thread
  <2> QED
    BY <2>1, <2>2, <2>4, <2>5, <2>6, <2>7
<1>2. ASSUME UNCHANGED <<handleVars, wpc, noted, row, failures>>,
             \/ UNCHANGED cliVars
             \/ step = "open" /\ step' = "begin" /\ UNCHANGED final
             \/ step = "recording" /\ step' = "drop" /\ final' \in Nat
             \/ step = "drop" /\ step' = "result" /\ UNCHANGED final
             \/ step = "join" /\ step' = "reopen" /\ wpc = "done" /\ UNCHANGED final
             \/ step = "join" /\ step' = "over" /\ wpc = "dead" /\ UNCHANGED final
             \/ step = "reopen" /\ step' = "verify" /\ UNCHANGED final
             \/ step \in {"begin", "verify"} /\ step' = "over" /\ UNCHANGED final
      PROVE  VerbInv' /\ ClosingInv'
  BY <1>2 DEF Steps, Ended
<1>3. CASE Device /\ UNCHANGED cliVars
  BY <1>2, <1>3, DeviceAside DEF Aside, Device, CallbackPush, CallbackCount
<1>4. CASE OpenProject \/ SnapshotCounters \/ DropStream \/ Reopen
  BY <1>2, <1>4 DEF OpenProject, SnapshotCounters, DropStream, CloseStream, Reopen, TypeOK
<1>5. CASE JoinWriter \/ RecordVerification \/ Refused
  BY <1>2, <1>5 DEF JoinWriter, RecordVerification, Refused, CloseStream, Ended
<1>6. CASE BeginSession
  <2>1. step = "begin" /\ step' = "recording" /\ UNCHANGED <<final, handleVars, wpc, noted, failures>>
        /\ row' = Begun
    BY <1>6 DEF BeginSession
  <2>2. row'.state = "recording" /\ row'.finished = FALSE
    BY <2>1 DEF Begun
  <2>3. ~stop /\ wpc # "done"
    BY <2>1
  <2> QED
    BY <2>1, <2>2, <2>3 DEF Steps
<1>7. CASE GiveResult
  <2>1. /\ step = "result" /\ step' = "stop" /\ UNCHANGED <<final, stop, wpc, noted, row, failures>>
        /\ result' = [state |-> IF final = 0 THEN "finalised" ELSE "interrupted", lost |-> final]
    BY <1>7 DEF GiveResult, SetResult
  <2>2. ~stop /\ wpc \notin {"result", "finish", "close", "done"}
    BY <2>1
  <2>3. /\ result'.lost = final
        /\ result'.state = "finalised" <=> final = 0
    BY <2>1
  <2> QED
    BY <2>1, <2>2, <2>3 DEF Steps
<1>8. CASE StopWriter
  BY <1>8 DEF StopWriter, SetStop, Steps
<1> QED
  BY <1>1, <1>2, <1>3, <1>4, <1>5, <1>6, <1>7, <1>8 DEF CliStep, Verb

(***************************************************************************)
(* RowIsHonest: a capture that is called finalised lost nothing its row    *)
(* counts, and one whose transactions all succeed says how it ended,       *)
(* whatever becomes of the verification (capture.rs, run()).               *)
(***************************************************************************)
THEOREM RowSaysHowItEnded ==
  Spec => []RowIsHonest
<1>1. Init => RowTold
  <2> SUFFICES ASSUME Init
               PROVE  RowTold
    OBVIOUS
  <2>1. row = [state |-> "absent", frames |-> 0, lost |-> 0, finished |-> FALSE]
    BY DEF Init, Begun
  <2>2. row \in Row /\ row.frames = 0 /\ row.finished = FALSE /\ row.state = "absent"
    BY <2>1 DEF Row
  <2>3. TypeOK /\ ThreadInv
    BY <2>2, PipelineStarts DEF Init
  <2> QED
    BY <2>2, <2>3 DEF RowTold, Init, PipelineInit, VerbInv, ClosingInv, Steps
<1>2. RowTold /\ [Next]_vars => RowTold'
  BY CliSteps, VerbKeepsCapture, VerbKept DEF RowTold
<1>3. RowTold => RowIsHonest
  BY DEF RowTold, VerbInv, ClosingInv, RowIsHonest, Ended
<1> QED
  BY <1>1, <1>2, <1>3, PTL DEF Spec

----------------------------------------------------------------------------

(* Nothing that the converter produced is missing.                         *)

LEMMA CallbacksAlign ==
  ASSUME NEW p \in Nat, p % CallbackFrames = 0
  PROVE  (p + CallbackFrames) % CallbackFrames = 0
<1> DEFINE c == CallbackFrames
           k == p \div c
<1>1. c \in Nat \ {0}
  BY CaptureAssumption
<1>2. k \in Nat /\ p = (c * k) + (p % c)
  BY <1>1
<1> HIDE DEF c, k
<1>3. p % c = 0
  BY DEF c
<1>4. p + c = (k + 1) * c /\ k + 1 \in Nat
  BY <1>1, <1>2, <1>3
<1>5. ((k + 1) * c) % c = 0
  <2>1. \A m \in Nat : (m * c) % c = 0
    BY <1>1
  <2> QED
    BY <1>4, <2>1
<1> QED
  BY <1>4, <1>5 DEF c

(***************************************************************************)
(* A callback that fits goes behind what is held, whole.                   *)
(***************************************************************************)
LEMMA HeldGrows ==
  ASSUME produced \in Nat, NEW held \in Seq(Frame), InOrder(held, produced)
  PROVE  /\ Len(held \o Delivered) = Len(held) + CallbackFrames
         /\ InOrder(held \o Delivered, produced + CallbackFrames)
<1> DEFINE longer == held \o Delivered
           n == Len(held)
           next == produced + CallbackFrames
<1>1. CallbackFrames \in Nat /\ CallbackFrames > 0 /\ n \in Nat
  BY CaptureAssumption, LenProperties
<1>2. /\ Delivered \in Seq(Frame) /\ Len(Delivered) = CallbackFrames
      /\ \A i \in 1 .. CallbackFrames : Delivered[i] = produced + i - 1
  <2>1. Delivered \in [1 .. CallbackFrames -> Frame]
    BY <1>1 DEF Delivered, Frame
  <2> QED
    BY <1>1, <2>1, DeliveredType, LenProperties DEF Delivered
<1>3. /\ longer \in Seq(Frame) /\ Len(longer) = n + CallbackFrames
      /\ \A i \in 1 .. n : longer[i] = held[i]
      /\ \A i \in 1 .. CallbackFrames : longer[n + i] = produced + i - 1
  <2>1. /\ longer \in Seq(Frame) /\ Len(longer) = Len(held) + Len(Delivered)
        /\ \A i \in 1 .. Len(held) + Len(Delivered) :
             longer[i] = IF i <= Len(held) THEN held[i] ELSE Delivered[i - Len(held)]
    BY <1>2, ConcatProperties
  <2> HIDE DEF longer
  <2>2. \A i \in 1 .. n : longer[i] = held[i]
    BY <1>1, <1>2, <2>1
  <2>3. ASSUME NEW i \in 1 .. CallbackFrames
        PROVE  longer[n + i] = Delivered[i]
    <3>1. \A m \in Nat : /\ m + i \in 1 .. m + CallbackFrames
                         /\ ~(m + i <= m) /\ (m + i) - m = i
      BY <1>1
    <3>2. /\ n + i \in 1 .. Len(held) + Len(Delivered)
          /\ ~(n + i <= Len(held)) /\ (n + i) - Len(held) = i
      BY <1>1, <1>2, <3>1
    <3> HIDE DEF n
    <3> QED
      BY <2>1, <3>2
  <2> QED
    BY <1>2, <2>1, <2>2, <2>3
<1> HIDE DEF longer, n
<1>4. \A i \in 1 .. n : held[i] \in Nat /\ held[i] < produced
  BY ElementOfSeq DEF n, InOrder, Frame
<1>5. next % CallbackFrames = 0
  BY CallbacksAlign DEF InOrder
<1>6. ASSUME NEW i \in 1 .. Len(longer)
      PROVE  longer[i] < next
  <2>1. CASE i \in 1 .. n
    BY <1>1, <1>3, <1>4, <2>1
  <2>2. CASE i \notin 1 .. n
    <3>1. i - n \in 1 .. CallbackFrames /\ n + (i - n) = i
      BY <1>1, <1>3, <2>2
    <3>2. longer[i] = produced + (i - n) - 1
      BY <1>3, <3>1
    <3> QED
      BY <1>1, <3>1, <3>2
  <2> QED
    BY <2>1, <2>2
<1>7. (longer[Len(longer)] + 1) % CallbackFrames = 0
  <2>1. longer[n + CallbackFrames] = produced + CallbackFrames - 1
    BY <1>1, <1>3
  <2>2. longer[Len(longer)] + 1 = next
    BY <1>1, <1>3, <2>1
  <2> QED
    BY <1>5, <2>2
<1>8. ASSUME NEW i \in 1 .. Len(longer) - 1
      PROVE  \/ longer[i + 1] = longer[i] + 1
             \/ /\ longer[i + 1] > longer[i]
                /\ longer[i + 1] % CallbackFrames = 0
                /\ (longer[i] + 1) % CallbackFrames = 0
  <2>1. CASE i \in 1 .. n - 1
    <3>1. i \in 1 .. n /\ i + 1 \in 1 .. n
      BY <1>1, <2>1
    <3>2. longer[i] = held[i] /\ longer[i + 1] = held[i + 1]
      BY <1>3, <3>1
    <3> QED
      BY <2>1, <3>2 DEF InOrder, n
  <2>2. CASE i = n
    <3>1. n \in 1 .. n /\ 1 \in 1 .. CallbackFrames
      BY <1>1, <2>2
    <3>2. longer[n] = held[n] /\ longer[n + 1] = produced /\ held[n] < produced
      BY <1>3, <1>4, <3>1
    <3>3. (held[n] + 1) % CallbackFrames = 0 /\ produced % CallbackFrames = 0
      BY <3>1 DEF InOrder, n
    <3> QED
      BY <1>4, <2>2, <3>1, <3>2, <3>3
  <2>3. CASE i > n
    <3>1. i - n \in 1 .. CallbackFrames /\ (i + 1) - n \in 1 .. CallbackFrames
          /\ n + (i - n) = i /\ n + ((i + 1) - n) = i + 1
      BY <1>1, <1>3, <2>3
    <3>2. longer[i] = produced + (i - n) - 1 /\ longer[i + 1] = produced + ((i + 1) - n) - 1
      BY <1>3, <3>1
    <3>3. longer[i + 1] = longer[i] + 1
      BY <1>1, <3>1, <3>2
    <3> QED
      BY <3>3
  <2> QED
    BY <1>1, <1>3, <2>1, <2>2, <2>3
<1>9. InOrder(longer, next)
  BY <1>5, <1>6, <1>7, <1>8 DEF InOrder
<1> QED
  BY <1>3, <1>9 DEF longer, n

(***************************************************************************)
(* The writer of a verb that never pauses.                                 *)
(***************************************************************************)
LEMMA ThreadNeverPauses ==
  ASSUME TypeOK, NeverPaused, Writer
  PROVE  NeverPaused' /\ UNCHANGED deviceVars
<1> USE DEF NeverPaused
<1>1. CASE FlushForPause \/ FlushOrphan \/ FlushAtEnd
  <2>1. PICK next : FlushBy(next) /\ next \in {"await", "close", "close-interrupted"}
    BY <1>1 DEF FlushForPause, FlushOrphan, FlushAtEnd
  <2>2. wpc' \in {next, "dead", "failed"}
    BY <2>1 DEF FlushBy
  <2> QED
    BY <2>1, <2>2 DEF FlushBy
<1>2. CASE LoadPause \/ Settle
  <2>1. pause = FALSE /\ wasPaused = FALSE
    BY DEF TypeOK
  <2>2. wpc' = "read" /\ paused' = FALSE /\ UNCHANGED <<deviceVars, pause, wasPaused>>
    BY <1>2, <2>1 DEF LoadPause, Settle
  <2> QED
    BY <2>2
<1>5. CASE PersistDiagnostics \/ Read
  BY <1>5 DEF PersistDiagnostics, Read
<1>3. CASE PushShort \/ PushBlock \/ CommitBatch \/ FoundEmpty \/ Await \/ TakeResult
  BY <1>3 DEF PushShort, PushBlock, CommitBatch, FoundEmpty, Await, TakeResult
<1>4. CASE CloseAsTold \/ CloseInterrupted
  BY <1>4 DEF CloseAsTold, CloseInterrupted, CloseSession
<1> QED
  BY <1>1, <1>2, <1>3, <1>4, <1>5 DEF Writer

(* What the owner does touches neither what is held nor what is counted.   *)
Untouched ==
  /\ UNCHANGED <<produced, lost, ring, pending, batch, blocks>>
  /\ UNCHANGED <<pause, paused, wasPaused, wpc>>
  /\ sink' = sink \/ (sink = "idle" /\ sink' = "gone")

LEMMA VerbUntouched ==
  ASSUME Verb
  PROVE  Untouched
<1>1. CASE OpenProject \/ SnapshotCounters \/ JoinWriter \/ Reopen \/ RecordVerification
  BY <1>1 DEF OpenProject, SnapshotCounters, JoinWriter, Reopen, RecordVerification, Untouched
<1>2. CASE BeginSession
  BY <1>2 DEF BeginSession, Untouched
<1>3. CASE DropStream \/ Refused
  BY <1>3 DEF DropStream, Refused, CloseStream, Untouched
<1>4. CASE GiveResult \/ StopWriter
  BY <1>4 DEF GiveResult, StopWriter, SetResult, SetStop, Untouched
<1> QED
  BY <1>1, <1>2, <1>3, <1>4 DEF Verb

LEMMA HeldKept ==
  ASSUME RowTold, HeldInv, CliStep
  PROVE  HeldInv'
<1> USE DEF HeldInv
<1>1. TypeOK /\ Held \in Seq(Frame) /\ Len(Held) \in Nat
  BY HeldInTimeline, LenProperties DEF RowTold
<1>2. CASE Thread /\ UNCHANGED cliVars
  <2>1. NeverPaused' /\ UNCHANGED deviceVars /\ ~paused
    BY <1>1, <1>2, ThreadNeverPauses DEF Thread, NeverPaused
  <2>2. Held' = Held
    BY <1>1, <1>2, <2>1, HeldStep DEF Thread
  <2> QED
    BY <2>1, <2>2
<1>3. ASSUME Untouched
      PROVE  HeldInv'
  <2>1. Held' = Held
    BY <1>3 DEF Untouched, Held, Timeline
  <2> QED
    BY <1>3, <2>1 DEF Untouched, NeverPaused
<1>4. CASE CallbackPush
  <2>1. NeverPaused' /\ lost' = lost /\ produced' = produced + CallbackFrames /\ sink = "idle"
        /\ UNCHANGED <<pending, Timeline>>
    BY <1>4 DEF CallbackPush, NeverPaused, Timeline
  <2>2. CASE ring' = ring \o Delivered /\ sink' = sink
    <3>1. Held' = Held \o Delivered
      <4> DEFINE laid == AudioOf(Timeline) \o pending
      <4>1. laid \in Seq(Frame) /\ ring \in Seq(Frame) /\ Delivered \in Seq(Frame)
        BY <1>1, HeldInTimeline, DeliveredType, ConcatProperties DEF TypeOK
      <4>2. Held = laid \o ring /\ Held' = laid \o (ring \o Delivered)
        BY <2>1, <2>2 DEF Held
      <4> HIDE DEF laid
      <4>3. (laid \o ring) \o Delivered = laid \o (ring \o Delivered)
        BY <4>1, FramesAssociate
      <4> QED
        BY <4>2, <4>3, Zenon
    <3>2. /\ Len(Held') = Len(Held) + CallbackFrames
          /\ InOrder(Held', produced')
      BY <1>1, <2>1, <3>1, HeldGrows DEF TypeOK
    <3>3. Len(Held') + lost' = produced'
      <4>1. Len(Held) + lost = produced
        BY <1>1, <2>1 DEF TypeOK
      <4>2. CallbackFrames \in Nat /\ lost \in Nat
        BY <1>1, CaptureAssumption DEF TypeOK
      <4>3. Len(Held') = Len(Held) + CallbackFrames
        BY <3>2
      <4> QED
        BY <1>1, <2>1, <4>1, <4>2, <4>3
    <3> QED
      BY <2>1, <2>2, <3>2, <3>3
  <2>3. CASE ring' = ring /\ sink' = "refused"
    <3>1. Held' = Held
      BY <2>1, <2>3 DEF Held
    <3>2. InOrder(Held, produced')
      <4>1. produced' % CallbackFrames = 0
        BY <1>1, <2>1, CallbacksAlign DEF TypeOK, InOrder
      <4>2. \A i \in 1 .. Len(Held) : Held[i] < produced'
        <5>1. \A i \in 1 .. Len(Held) : Held[i] \in Nat /\ Held[i] < produced
          BY <1>1, ElementOfSeq DEF InOrder, Frame
        <5> QED
          BY <1>1, <2>1, <5>1, CaptureAssumption DEF TypeOK
      <4> QED
        BY <4>1, <4>2 DEF InOrder
    <3> QED
      BY <1>1, <2>1, <2>3, <3>1, <3>2 DEF TypeOK
  <2> QED
    BY <1>4, <2>2, <2>3 DEF CallbackPush
<1>5. CASE CallbackCount
  <2>1. /\ NeverPaused' /\ lost' = lost + CallbackFrames /\ produced' = produced
        /\ sink = "refused" /\ sink' = "idle"
    BY <1>5 DEF CallbackCount, NeverPaused
  <2>2. Held' = Held
    BY <1>5 DEF CallbackCount, Held, Timeline
  <2> QED
    BY <1>1, <2>1, <2>2, CaptureAssumption DEF TypeOK
<1> QED
  BY <1>2, <1>3, <1>4, <1>5, VerbUntouched DEF CliStep, Device, Untouched

(***************************************************************************)
(* FramesAccounted: every frame the converter produced is held, once and   *)
(* in its place, or is one of a callback that was counted as lost.         *)
(***************************************************************************)
THEOREM NothingGoesMissing ==
  Spec => []FramesAccounted
<1> DEFINE Kept == RowTold /\ HeldInv
<1>1. Init => Kept
  <2> SUFFICES ASSUME Init
               PROVE  Kept
    OBVIOUS
  <2>1. row = [state |-> "absent", frames |-> 0, lost |-> 0, finished |-> FALSE]
    BY DEF Init, Begun
  <2>2. row \in Row /\ row.frames = 0 /\ row.finished = FALSE /\ row.state = "absent"
    BY <2>1 DEF Row
  <2>3. TypeOK /\ ThreadInv /\ Timeline = <<>>
    BY <2>2, PipelineStarts DEF Init
  <2>4. RowTold
    BY <2>2, <2>3 DEF RowTold, Init, PipelineInit, VerbInv, ClosingInv, Steps
  <2>5. Held = <<>> /\ Len(Held) = 0
    <3>1. AudioOf(Timeline) = <<>> /\ pending = <<>> /\ ring = <<>>
      BY <2>3, AudioOfNone DEF Init, PipelineInit
    <3> QED
      BY <3>1 DEF Held
  <2>6. produced = 0 /\ lost = 0 /\ sink = "idle" /\ NeverPaused
    BY CliAssumption DEF Init, PipelineInit, NeverPaused
  <2>7. 0 % CallbackFrames = 0
    BY CaptureAssumption
  <2>8. InOrder(Held, produced)
    BY <2>5, <2>6, <2>7 DEF InOrder
  <2> QED
    BY <2>4, <2>5, <2>6, <2>8 DEF HeldInv
<1>2. Kept /\ [Next]_vars => Kept'
  BY CliSteps, VerbKeepsCapture, VerbKept, HeldKept DEF RowTold
<1>3. Kept => FramesAccounted
  BY DEF HeldInv, InOrder, FramesAccounted
<1> QED
  BY <1>1, <1>2, <1>3, PTL DEF Spec


----------------------------------------------------------------------------
(* The composition.                                                        *)

(***************************************************************************)
(* The verb and the others take only the steps ProjectFile has.            *)
(***************************************************************************)
LEMMA CaptureUsesTheFile ==
  ASSUME [Next]_vars
  PROVE  [FileNext]_fileVars
<1>1. CASE Verb
  <2>1. Cli \in Openers
    BY CliAssumption
  <2>2. CASE OpenProject \/ Reopen
    BY <2>1, <2>2 DEF OpenProject, Reopen, Ask, FileNext
  <2>3. CASE JoinWriter \/ RecordVerification \/ Refused
    BY <2>1, <2>3 DEF JoinWriter, RecordVerification, Refused, FileNext
  <2>4. CASE BeginSession \/ SnapshotCounters \/ DropStream \/ GiveResult \/ StopWriter
    BY <2>4 DEF BeginSession, SnapshotCounters, DropStream, GiveResult, StopWriter
  <2> QED
    BY <1>1, <2>2, <2>3, <2>4 DEF Verb
<1>2. CASE \E o \in Openers : OpeningOf(o)
  BY <1>2 DEF OpeningOf, FileNext
<1>3. CASE (Device \/ Thread) /\ UNCHANGED <<cliVars, fileVars>>
  BY <1>3
<1>4. CASE TakeAway \/ Over \/ UNCHANGED vars
  BY <1>4 DEF Over, FileNext
<1> QED
  BY <1>1, <1>2, <1>3, <1>4 DEF Next

(***************************************************************************)
(* ProjectIsSound with a capture among the processes: what the verb does   *)
(* of its own, from the open to the note of the verification, leaves the   *)
(* file to the statements of sqlite.rs (capture.rs, run()).                *)
(***************************************************************************)
THEOREM CaptureKeepsProjectSound == Spec => []ProjectIsSound
<1>1. Init => FileInit
  BY DEF Init
<1>2. [Next]_vars => [FileNext]_fileVars
  BY CaptureUsesTheFile
<1> QED
  BY <1>1, <1>2, ProjectStaysSound, PTL DEF Spec, FileSpec

=============================================================================
