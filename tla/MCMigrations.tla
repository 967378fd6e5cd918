---------------------------- MODULE MCMigrations ----------------------------
(* Migrations with the files of migrations/versions, and with three history  *)
(* variables for what its properties make an exception of.                   *)
EXTENDS Migrations

\* versions/*.up.sql. A table's foreign key is named after it; the two indexes
\* of a file on one table are taken as one.
ReferringTable(table, key) == Statement(table, {"orders"}, {table, key})
Index(name, table) == Statement(name, {table}, {name})

CreateOrders == {Statement("orders", {}, {"orders"}), Index("idx_orders", "orders")}
CreateDeliveries == {ReferringTable("deliveries", "deliveries_fkey")}
CreatePayments == {ReferringTable("payments", "payments_fkey")}
CreateItems == {ReferringTable("items", "items_fkey"), Index("idx_items", "items")}
AddIndexes ==
  {Index("idx_deliveries_city", "deliveries"),
   Index("idx_payments_provider", "payments"), Index("idx_items_nm_id", "items")}

UpFiles == <<CreateOrders, CreateDeliveries, CreatePayments, CreateItems, AddIndexes>>

\* versions/*.down.sql: a table goes with its indexes and keys, and with the
\* keys of other tables that refer to it (CASCADE), not with those tables.
DropOrders == {"orders", "idx_orders", "deliveries_fkey", "payments_fkey", "items_fkey"}
DropDeliveries == {"deliveries", "deliveries_fkey", "idx_deliveries_city"}
DropPayments == {"payments", "payments_fkey", "idx_payments_provider"}
DropItems == {"items", "items_fkey", "idx_items", "idx_items_nm_id"}
DropIndexes == {"idx_deliveries_city", "idx_payments_provider", "idx_items_nm_id"}

DownFiles == <<DropOrders, DropDeliveries, DropPayments, DropItems, DropIndexes>>

VARIABLES
  crossed,  \* an Up and a Down have been under way at the same time
  halfDown, \* recorded versions whose Down ended after its DROPs
  severed   \* statements whose table a Down of another version took a key from

mcVars == <<vars, crossed, halfDown, severed>>

MCInit == Init /\ crossed = FALSE /\ halfDown = {} /\ severed = {}

Doing(op) == {r \in Runner : run[r].op = op}

\* The versions whose Down ends in this step without an answer or with an
\* error, after the transaction.
CutShort ==
  {run[r].version : r \in {q \in Doing("down") :
     run'[q] = Idle /\ (run[q].at = "remove" \/ objects' # objects)}}

\* The statements of unrecorded versions whose table or index stands after
\* this step, but without something else they made of it.
CutOff ==
  {s \in UNION {UpFile[v] : v \in Version \ recorded} :
     s.name \in objects' /\ ~(s.makes \cap objects \subseteq objects')}

\* Once calls have crossed, the other two are of no use. MaxFaults bounds the
\* crossing too: it counts as a fault.
MCNext ==
  /\ Next
  /\ crossed' = (crossed \/ (Doing("up")' # {} /\ Doing("down")' # {}))
  /\ crossed' => faults' < MaxFaults
  /\ halfDown' = IF crossed' THEN {} ELSE (halfDown \cup CutShort) \cap recorded'
  /\ severed' = IF crossed' THEN {} ELSE {s \in severed \cup CutOff : s.name \in objects'}

MCSpec == MCInit /\ [][MCNext]_mcVars

-----------------------------------------------------------------------------
BeingRemoved == {run[r].version : r \in {q \in Runner : Is(q, "down", "remove")}}

\* While no Up has run beside a Down, the recorded versions are the first
\* ones, without a gap: Up and Down rely on it, wherever they were stopped and
\* however many processes call them (migration.go:64-90, 105-110).
RecordedInOrder ==
  crossed \/ \A v \in recorded : 1 .. v \subseteq recorded

\* What schema_migrations says is applied is there, every table and index of
\* it, unless a Down was stopped half way: Up commits before it records, Down
\* removes the record last.
RecordedAreThere ==
  \/ crossed
  \/ \A v \in recorded \ (halfDown \cup BeingRemoved) : Names(v) \subseteq objects

\* Which tables are without their foreign key, and for how long: those from
\* which a Down took it while their own version stood unrecorded (its Up was
\* stopped before the record, and the Down took an earlier version for the
\* last). Nothing else takes a key, and no Up gives one back as long as the
\* table stands: it runs the file again, leaves the table as it is (IF NOT
\* EXISTS) and records the version.
TablesHaveTheirKeys ==
  \/ crossed
  \/ \A v \in Version : \A s \in UpFile[v] :
       s.name \in objects => (s.makes \subseteq objects <=> s \notin severed)

\* A file of Up is refused only over a version that is recorded and no longer
\* there. A stop between executing and recording is no such thing: the file is
\* run again, and passes.
RefusedOnlyOverHalfDown ==
  \A r \in Runner :
    Is(r, "up", "execute") /\ Refused(run[r].version) =>
      crossed \/ \E v \in halfDown : v < run[r].version

\* An Up that returns nil leaves every version recorded and there, except what
\* a Down left half done ("applies all migrations not applied yet", :51).
UpAppliesAll ==
  [][\A r \in Runner : UpReturns(r) =>
       \/ crossed
       \/ /\ recorded = Version
          /\ \A v \in Version \ halfDown : Names(v) \subseteq objects]_mcVars

\* A version that a Down left recorded without its objects: no Up makes them
\* again. Only another Down that removes the record ends this.
HalfDownStays ==
  [][\A v \in halfDown :
       crossed' \/ v \notin recorded' \/ Names(v) \cap objects' = {}]_mcVars
=============================================================================
