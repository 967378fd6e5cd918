----------------------------- MODULE Migrations -----------------------------
(* migrations/migration.go and schema_migrations.go: MigrationManager's Up   *)
(* and Down over one database, called by any number of processes, one        *)
(* statement of the server at a time. executeMigration is one transaction;   *)
(* the row of schema_migrations that says what it did is written outside it. *)
(*                                                                           *)
(* A process may be stopped, and a statement may be an error, at any point;  *)
(* the error may come after the server has done the work.                    *)
(*                                                                           *)
(* As elsewhere, a name with a suffix after an underscore is the next        *)
(* definition with a bug put in, used by no action.                          *)
EXTENDS Integers, FiniteSetsExt

CONSTANTS
  Runner,    \* the processes that call Up and Down
  Last,      \* the versions of the files are 1 .. Last
  UpFile,    \* UpFile[v]: the statements of version v's up file
  Drops,     \* Drops[v]: the objects its down file drops, with CASCADE
  MaxFaults  \* bound on errors and stops

Version == 1 .. Last

\* A CREATE ... IF NOT EXISTS of a table or an index called name: makes is the
\* table with its foreign key, or the index; needs, the tables it refers to.
Statement(name, needs, makes) == [name |-> name, needs |-> needs, makes |-> makes]

Names(v) == {s.name : s \in UpFile[v]}
Makes(v) == UNION {s.makes : s \in UpFile[v]}
Object == UNION {Makes(v) : v \in Version}

\* A down file drops all its version makes, and nothing an earlier one makes;
\* a statement refers to tables of its own version and of earlier ones, and
\* makes nothing that another one of its file makes.
FilesAssumption ==
  /\ Last \in Nat
  /\ \A v \in Version :
       /\ \A s \in UpFile[v] :
            /\ s.name \in s.makes
            /\ s.needs \subseteq UNION {Names(w) : w \in 1 .. v}
            /\ \A t \in UpFile[v] \ {s} : s.makes \cap t.makes = {}
       /\ Makes(v) \subseteq Drops[v]
       /\ \A w \in 1 .. v - 1 : Makes(w) \cap Drops[v] = {}

ASSUME FilesAssumption
ASSUME MaxFaultsAssumption == MaxFaults \in Nat

VARIABLES
  tracked,   \* the table schema_migrations exists
  recorded,  \* the versions it holds
  objects,   \* the tables, constraints and indexes of the schema
  run,       \* run[r]: where process r is in Up or Down
  faults     \* errors and stops so far

vars == <<tracked, recorded, objects, run, faults>>

At(op, step, version) == [op |-> op, at |-> step, version |-> version]

Idle == At("none", "none", 0)

Call ==
  {Idle, At("up", "create", 0), At("down", "list", 0)}
    \cup {At("up", "check", v) : v \in 1 .. Last + 1}
    \cup {At("up", step, v) : step \in {"execute", "record"}, v \in Version}
    \cup {At("down", step, v) : step \in {"execute", "remove"}, v \in Version}

TypeOK ==
  /\ tracked \in BOOLEAN
  /\ recorded \subseteq Version
  /\ objects \subseteq Object
  /\ run \in [Runner -> Call]
  /\ faults \in 0 .. MaxFaults

Init ==
  /\ tracked = FALSE /\ recorded = {} /\ objects = {}
  /\ run = [r \in Runner |-> Idle]
  /\ faults = 0

-----------------------------------------------------------------------------
Is(r, op, step) == run[r].op = op /\ run[r].at = step

Goes(r, call) == run' = [run EXCEPT ![r] = call] /\ UNCHANGED faults

Returns(r) == Goes(r, Idle)

\* The call ends with an error, or with its process.
Fails(r) ==
  /\ faults < MaxFaults
  /\ faults' = faults + 1
  /\ run' = [run EXCEPT ![r] = Idle]

Begins(r, call) == run[r] = Idle /\ Goes(r, call)

Stop(r) ==
  /\ run[r] # Idle
  /\ Fails(r)
  /\ UNCHANGED <<tracked, recorded, objects>>

-----------------------------------------------------------------------------
(* Up.                                                                       *)

UpBegins(r) ==
  /\ Begins(r, At("up", "create", 0))
  /\ UNCHANGED <<tracked, recorded, objects>>

CreateMigrationTable(r) ==
  /\ Is(r, "up", "create")
  /\ \/ tracked' = TRUE /\ Goes(r, At("up", "check", 1))
     \/ tracked' \in {tracked, TRUE} /\ Fails(r)
  /\ UNCHANGED <<recorded, objects>>

\* The loop over the files in order of version, and IsApplied for each.
AfterCheck_Always(v) == At("up", "execute", v)
AfterCheck_EndsAtApplied(v) ==
  IF v \in recorded THEN At("up", "check", Last + 1) ELSE At("up", "execute", v)

AfterCheck(v) ==
  IF v \in recorded THEN At("up", "check", v + 1) ELSE At("up", "execute", v)

IsApplied(r) ==
  /\ Is(r, "up", "check")
  /\ run[r].version \in Version
  /\ Goes(r, AfterCheck(run[r].version)) \/ Fails(r)
  /\ UNCHANGED <<tracked, recorded, objects>>

\* A statement refers to a table that is not there: the transaction is rolled
\* back.
Refused(v) ==
  \E s \in UpFile[v] : s.name \notin objects /\ ~(s.needs \subseteq objects \cup Names(v))

\* A table or an index that exists is left as it is, whatever it lacks.
Applied_Uncommitted(v) == objects

Applied(v) ==
  objects \cup UNION {s.makes : s \in {t \in UpFile[v] : t.name \notin objects}}

\* executeMigration of an up file.
UpExecute(r) ==
  LET v == run[r].version
  IN  /\ Is(r, "up", "execute")
      /\ \/ Refused(v) /\ Returns(r) /\ UNCHANGED objects
         \/ ~Refused(v) /\ objects' = Applied(v) /\ Goes(r, At("up", "record", v))
         \/ ~Refused(v) /\ objects' \in {objects, Applied(v)} /\ Fails(r)
      /\ UNCHANGED <<tracked, recorded>>

\* version is the primary key of schema_migrations: an INSERT of one that is
\* there is an error.
RecordApplied(r) ==
  LET v == run[r].version
      inserted == recorded \cup {v}
  IN  /\ Is(r, "up", "record")
      /\ \/ v \in recorded /\ Returns(r) /\ UNCHANGED recorded
         \/ v \notin recorded /\ recorded' = inserted /\ Goes(r, At("up", "check", v + 1))
         \/ recorded' \in {recorded, inserted} /\ Fails(r)
      /\ UNCHANGED <<tracked, objects>>

\* Up returns nil.
UpReturns(r) ==
  /\ Is(r, "up", "check")
  /\ run[r].version = Last + 1
  /\ Returns(r)
  /\ UNCHANGED <<tracked, recorded, objects>>

-----------------------------------------------------------------------------
(* Down.                                                                     *)

DownBegins(r) ==
  /\ Begins(r, At("down", "list", 0))
  /\ UNCHANGED <<tracked, recorded, objects>>

LastVersion_First == Min(recorded)
LastVersion_PastTheEnd == Max(recorded) + 1

LastVersion == Max(recorded)

\* GetAppliedVersions is an error without the table; without rows Down ends.
GetAppliedVersions(r) ==
  /\ Is(r, "down", "list")
  /\ \/ ~tracked /\ Returns(r)
     \/ tracked /\ recorded = {} /\ Returns(r)
     \/ /\ tracked /\ recorded # {}
        /\ Goes(r, At("down", "execute", LastVersion))
     \/ Fails(r)
  /\ UNCHANGED <<tracked, recorded, objects>>

\* executeMigration of a down file. DROP ... IF EXISTS refuses nothing.
DownExecute(r) ==
  LET v == run[r].version
  IN  /\ Is(r, "down", "execute")
      /\ \/ objects' = objects \ Drops[v] /\ Goes(r, At("down", "remove", v))
         \/ objects' \in {objects, objects \ Drops[v]} /\ Fails(r)
      /\ UNCHANGED <<tracked, recorded>>

RemoveApplied(r) ==
  LET deleted == recorded \ {run[r].version}
  IN  /\ Is(r, "down", "remove")
      /\ \/ recorded' = deleted /\ Returns(r)
         \/ recorded' \in {recorded, deleted} /\ Fails(r)
      /\ UNCHANGED <<tracked, objects>>

-----------------------------------------------------------------------------
UpStep(r) == \/ CreateMigrationTable(r) \/ IsApplied(r) \/ UpExecute(r)
             \/ RecordApplied(r) \/ UpReturns(r)

DownStep(r) == GetAppliedVersions(r) \/ DownExecute(r) \/ RemoveApplied(r)

Next == \E r \in Runner : \/ UpBegins(r) \/ DownBegins(r) \/ Stop(r)
                          \/ UpStep(r) \/ DownStep(r)

Spec == Init /\ [][Next]_vars
=============================================================================
