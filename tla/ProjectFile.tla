----------------------------- MODULE ProjectFile -----------------------------
(***************************************************************************)
(* How a project file comes to be, and how it is opened                    *)
(* (crates/project/src/sqlite.rs, migrate.rs, meta.rs): by any number of   *)
(* processes at once, each of which may fail or be killed between any two  *)
(* transactions.                                                           *)
(*                                                                         *)
(* A migration is one transaction; its DDL fails where its tables are      *)
(* there.  Every key of `meta` is a transaction of its own.  Of the        *)
(* pragmas of a connection the journal mode is kept in the file, and it is *)
(* written before anyone has asked what the file is.                       *)
(*                                                                         *)
(* SQLite is external: a file that is not there is created by connecting   *)
(* for writing, the journal mode is changed or the statement fails, and a  *)
(* file without SQLite's header can be connected to and nothing else.      *)
(***************************************************************************)
EXTENDS Naturals, Sequences

CONSTANTS
  Openers,        \* the processes that use the file
  Older,          \* those of them built before the last migration was written
  SchemaVersion,  \* SCHEMA_VERSION of the others
  MaxBroken       \* bound: attempts that fail or are killed, and files taken away

ASSUME ProjectAssumption ==
  /\ SchemaVersion \in Nat /\ SchemaVersion > 1
  /\ Older \subseteq Openers
  /\ MaxBroken \in Nat

VARIABLES
  file,    \* the file: there or not, application_id, journal, user_version, tables, meta
  place,   \* where each process is in its attempt
  todo,    \* what migrate::pending told each of them
  due,     \* the keys each of them has still to set
  broken   \* attempts that were broken off, and times the file was taken away

fileVars == <<file, place, todo, due, broken>>

Supports(o) == IF o \in Older THEN SchemaVersion - 1 ELSE SchemaVersion

CreatedKeys == <<"created.format_version", "created.by", "created.at">>
WrittenKeys == <<"format_version", "last_written.by", "last_written.at">>

(* The tables of each migration go with the row in schema_migrations.  The *)
(* journal is "none" where there is no header of SQLite's to say it.       *)
SchemaAt(app, journal, n) ==
  [here |-> TRUE, app |-> app, journal |-> journal, version |-> n,
   tables |-> 1 .. n, recorded |-> 1 .. n, keys |-> {}]

NoFile  == [SchemaAt("none", "none", 0) EXCEPT !.here = FALSE]
Foreign == {SchemaAt("other", journal, 0) : journal \in {"none", "rollback", "wal"}}

(* No file, one of another program, or a project of any version.           *)
FileInit ==
  /\ file \in {NoFile} \cup Foreign \cup {SchemaAt("vcw", "wal", n) : n \in 1 .. SchemaVersion + 1}
  /\ place = [o \in Openers |-> "away"]
  /\ todo = [o \in Openers |-> {}]
  /\ due = [o \in Openers |-> <<>>]
  /\ broken = 0

Go(o, next) == place' = [place EXCEPT ![o] = next]

----------------------------------------------------------------------------
(* What a verb asks for.  One that opens a project looks first whether     *)
(* there is one, and connects in a step of its own; a capture that opens   *)
(* its project again at the end does not look.  open_or_create looks, and  *)
(* then create looks again.                                                *)

Open(o) ==
  /\ place[o] = "away"
  /\ Go(o, IF file.here THEN "connect" ELSE "refused")
  /\ UNCHANGED <<file, todo, due, broken>>

OpenAgain(o) ==
  /\ place[o] = "away"
  /\ Go(o, "connect")
  /\ UNCHANGED <<file, todo, due, broken>>

OpenReadOnly(o) ==
  /\ place[o] = "away"
  /\ Go(o, IF file.here THEN "read" ELSE "refused")
  /\ UNCHANGED <<file, todo, due, broken>>

OpenOrCreate(o) ==
  /\ place[o] = "away"
  /\ Go(o, IF file.here THEN "connect" ELSE "create")
  /\ UNCHANGED <<file, todo, due, broken>>

Create(o) ==
  /\ place[o] \in {"away", "create"}
  /\ Go(o, IF file.here THEN "refused" ELSE "make")
  /\ UNCHANGED <<file, todo, due, broken>>

----------------------------------------------------------------------------
(* Before the migrations.  Connecting makes the file.  create() then marks *)
(* it as a project and applies the pragmas; open() applies them to         *)
(* whatever it has connected to.                                           *)

Connect(o) ==
  /\ place[o] \in {"make", "connect"}
  /\ file' = [file EXCEPT !.here = TRUE]
  /\ Go(o, IF place[o] = "make" THEN "mark" ELSE "tune")
  /\ UNCHANGED <<todo, due, broken>>

(* The mark is written into a header, which is made with it.               *)
Mark(o) ==
  /\ place[o] = "mark"
  /\ file' = [file EXCEPT !.app = "vcw", !.journal = IF @ = "none" THEN "rollback" ELSE @]
  /\ due' = [due EXCEPT ![o] = CreatedKeys \o WrittenKeys]
  /\ Go(o, "tune-new")
  /\ UNCHANGED <<todo, broken>>

IsDatabase == file.app # "other" \/ file.journal # "none"

ApplyPragmas(o) ==
  /\ place[o] \in {"tune", "tune-new"} /\ IsDatabase
  /\ file' = [file EXCEPT !.journal = "wal"]
  /\ Go(o, IF place[o] = "tune" THEN "open" ELSE "pending")
  /\ UNCHANGED <<todo, due, broken>>

PragmasFail(o) ==
  /\ place[o] = "tune" /\ ~IsDatabase
  /\ Go(o, "refused")
  /\ UNCHANGED <<file, todo, due, broken>>

\* Mutant: the name of the file decides, not its mark.
IdentifyByName(o) ==
  /\ place[o] \in {"open", "read"}
  /\ IF file.version > Supports(o)
       THEN Go(o, "refused") /\ UNCHANGED due
       ELSE IF place[o] = "read"
         THEN Go(o, "reader") /\ UNCHANGED due
         ELSE Go(o, "pending") /\ due' = [due EXCEPT ![o] = WrittenKeys]
  /\ UNCHANGED <<file, todo, broken>>

(***************************************************************************)
(* identify(): the mark and the version decide, not the name.              *)
(***************************************************************************)
Identify(o) ==
  /\ place[o] \in {"open", "read"}
  /\ IF file.app # "vcw" \/ file.version > Supports(o)
       THEN Go(o, "refused") /\ UNCHANGED due
       ELSE IF place[o] = "read"
         THEN Go(o, "reader") /\ UNCHANGED due
         ELSE Go(o, "pending") /\ due' = [due EXCEPT ![o] = WrittenKeys]
  /\ UNCHANGED <<file, todo, broken>>

----------------------------------------------------------------------------
(* migrate::apply: what is pending is read once, before the transactions.  *)

ReadPending(o) ==
  /\ place[o] = "pending"
  /\ todo' = [todo EXCEPT ![o] = {v \in 1 .. Supports(o) : v > file.version}]
  /\ Go(o, "apply")
  /\ UNCHANGED <<file, due, broken>>

NextToApply(o, m) == m \in todo[o] /\ \A n \in todo[o] : m <= n

\* Mutant: the DDL says IF NOT EXISTS.
ApplyAgain(o) ==
  /\ place[o] = "apply"
  /\ \E m \in todo[o] :
       /\ NextToApply(o, m)
       /\ file' = [file EXCEPT !.tables = @ \cup {m}, !.recorded = @ \cup {m}, !.version = m]
       /\ todo' = [todo EXCEPT ![o] = @ \ {m}]
  /\ UNCHANGED <<place, due, broken>>

Apply(o) ==
  /\ place[o] = "apply"
  /\ \E m \in todo[o] :
       /\ NextToApply(o, m)
       /\ m \notin file.tables
       /\ file' = [file EXCEPT !.tables = @ \cup {m}, !.recorded = @ \cup {m}, !.version = m]
       /\ todo' = [todo EXCEPT ![o] = @ \ {m}]
  /\ UNCHANGED <<place, due, broken>>

(* Another process was faster: the step is rolled back and the rest left.  *)
ApplyFails(o) ==
  /\ place[o] = "apply"
  /\ \E m \in todo[o] : NextToApply(o, m) /\ m \in file.tables
  /\ Go(o, "refused")
  /\ UNCHANGED <<file, todo, due, broken>>

SetKey(o) ==
  /\ place[o] = "apply" /\ todo[o] = {} /\ due[o] # <<>>
  /\ file' = [file EXCEPT !.keys = @ \cup {Head(due[o])}]
  /\ due' = [due EXCEPT ![o] = Tail(@)]
  /\ UNCHANGED <<place, todo, broken>>

HandOver(o) ==
  /\ place[o] = "apply" /\ todo[o] = {} /\ due[o] = <<>>
  /\ Go(o, "writer")
  /\ UNCHANGED <<file, todo, due, broken>>

----------------------------------------------------------------------------
Handles == {"writer", "reader"}

(***************************************************************************)
(* A statement that fails, or a kill; and the end of an attempt or of the  *)
(* use of a handle.                                                        *)
(***************************************************************************)
Break(o) ==
  /\ broken < MaxBroken /\ place[o] \notin {"away", "refused"}
  /\ broken' = broken + 1
  /\ Go(o, "refused")
  /\ UNCHANGED <<file, todo, due>>

Leave(o) ==
  /\ place[o] \in Handles \cup {"refused"}
  /\ Go(o, "away")
  /\ todo' = [todo EXCEPT ![o] = {}]
  /\ due' = [due EXCEPT ![o] = <<>>]
  /\ UNCHANGED <<file, broken>>

(***************************************************************************)
(* The operator moves or deletes the file while no process is connected.   *)
(***************************************************************************)
Unconnected == {"away", "refused", "create", "make", "connect"}

TakeAway ==
  /\ broken < MaxBroken /\ file.here /\ \A o \in Openers : place[o] \in Unconnected
  /\ file' = NoFile
  /\ broken' = broken + 1
  /\ UNCHANGED <<place, todo, due>>

Attempt(o) == \/ place[o] = "create" /\ Create(o)
              \/ Connect(o) \/ Mark(o) \/ ApplyPragmas(o) \/ PragmasFail(o) \/ Identify(o)
              \/ ReadPending(o) \/ Apply(o) \/ ApplyFails(o) \/ SetKey(o) \/ HandOver(o)
              \/ Break(o)

Ask(o) == Open(o) \/ OpenAgain(o) \/ OpenReadOnly(o) \/ OpenOrCreate(o) \/ Create(o)

FileNext == TakeAway \/ \E o \in Openers : Ask(o) \/ Attempt(o) \/ Leave(o)

FileSpec == FileInit /\ [][FileNext]_fileVars

----------------------------------------------------------------------------
Places == Handles \cup Unconnected
          \cup {"mark", "tune", "tune-new", "open", "read", "pending", "apply"}

(***************************************************************************)
(* REQUIREMENTS.md 230: "Schema migrations shall be transactional", and    *)
(* migrate.rs counts on `user_version` saying which of them were applied.  *)
(* Whoever migrates beside whom and wherever one is killed, a project has  *)
(* the tables and the audit rows of exactly its version.  A file that is   *)
(* not a project is given no table, no version and no stamp; it is not     *)
(* left as it was, for connecting to it wrote its journal mode             *)
(* (sqlite.rs:115) or made it.  Who is given a project to write has every  *)
(* table and every stamp its build expects, and the journal that recovery  *)
(* counts on, whichever of its creators was cut short.                     *)
(***************************************************************************)
ProjectIsSound ==
  /\ file.tables = 1 .. file.version /\ file.recorded = file.tables
  /\ file.app # "vcw" => file.version = 0 /\ file.keys = {}
  /\ \A o \in Openers :
       place[o] = "writer" =>
         /\ file.app = "vcw" /\ file.version >= Supports(o) /\ file.journal = "wal"
         /\ \A i \in DOMAIN WrittenKeys : WrittenKeys[i] \in file.keys
=============================================================================
