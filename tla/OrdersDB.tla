----------------------------- MODULE OrdersDB -----------------------------
(* The four tables of the service and what internal/repository does with     *)
(* them: one operator per SQL statement group of AddOrder, none of them in a *)
(* transaction, and the outcomes of GetOrders. A row keeps the version of    *)
(* the message it was written from, so that rows of two messages with one    *)
(* order_uid can be told apart.                                              *)
(*                                                                           *)
(* A definition whose name carries a suffix after an underscore is the next  *)
(* definition with a bug put in; no action uses it.                          *)
EXTENDS Naturals, Sequences, FiniteSets, Functions

CONSTANTS Uid,          \* order_uid values
          Version,      \* contents two messages with one order_uid may have
          Chrt,         \* chrt_id values of items
          ItemsOf,      \* the items of an order, in the order of its JSON
          UniqueChrt,   \* items has a unique index on chrt_id alone
          Unfit         \* the tables whose columns cannot hold a version: a
                        \* VARCHAR too short, a DECIMAL too narrow

TableName == {"orders", "payments", "items", "deliveries"}

ASSUME ItemsOfAssumption == ItemsOf \in [Uid -> Seq(Chrt) \ {<< >>}]
ASSUME UniqueChrtAssumption == UniqueChrt \in BOOLEAN
ASSUME UnfitAssumption == Unfit \in [Version -> SUBSET TableName]

VARIABLES orders, payments, deliveries,   \* order_uid -> version of the row
          items                           \* set of rows

tables == <<orders, payments, deliveries, items>>

Order == [uid: Uid, ver: Version]
ItemRow == [uid: Uid, chrt: Chrt, ver: Version]

\* An order as the cache holds it, under its uid: the versions its parts are
\* of, and its items.
Copy == [vers: SUBSET Version, chrts: SUBSET Chrt]

NoRows == [u \in {} |-> {}]

With(f, u, v) == [x \in DOMAIN f \cup {u} |-> IF x = u THEN v ELSE f[x]]

Table(t) == DOMAIN t \subseteq Uid /\ \A u \in DOMAIN t : t[u] \in Version

TablesTypeOK ==
  Table(orders) /\ Table(payments) /\ Table(deliveries) /\ items \subseteq ItemRow

InitTables ==
  orders = NoRows /\ payments = NoRows /\ deliveries = NoRows /\ items = {}

-----------------------------------------------------------------------------
(* AddOrder. An INSERT is an error, and writes nothing, if the primary key is *)
(* taken or if what the validator has let pass does not fit the columns.     *)
OrderExists(u) == u \in DOMAIN orders

OrderRejected(o) == OrderExists(o.uid) \/ "orders" \in Unfit[o.ver]

InsertOrder(o) ==
  orders' = With(orders, o.uid, o.ver) /\ UNCHANGED <<payments, deliveries, items>>

PaymentExists(u) == u \in DOMAIN payments

PaymentRejected(o) == ~PaymentExists(o.uid) /\ "payments" \in Unfit[o.ver]

AddPayment(o) ==
  payments' = With(payments, o.uid, o.ver) /\ UNCHANGED <<orders, deliveries, items>>

ProcessPayment(o) ==
  IF PaymentExists(o.uid) THEN UNCHANGED tables ELSE AddPayment(o)

\* AddItems, one item: ItemExists asks for (chrt_id, order_uid), but the
\* INSERT says ON CONFLICT (chrt_id) DO NOTHING. PostgreSQL takes that only
\* if chrt_id has a unique index of its own; then a row of another order with
\* this chrt_id makes the INSERT a silent no-op. Without such an index, as in
\* migrations/versions/004, the statement is an error.
ItemExists(o, c) == \E r \in items : r.uid = o.uid /\ r.chrt = c

ItemRejected_OnConflict(o, c) ==
  \/ \E r \in items : r.chrt = c /\ r.uid # o.uid
  \/ "items" \in Unfit[o.ver]

ItemRejected(o, c) == ~ItemExists(o, c) /\ (~UniqueChrt \/ "items" \in Unfit[o.ver])

AddItem_ConflictUpdates(o, c) ==
  /\ items' = IF \E r \in items : r.chrt = c
              THEN {IF r.chrt = c THEN [r EXCEPT !.ver = o.ver] ELSE r : r \in items}
              ELSE items \cup {[uid |-> o.uid, chrt |-> c, ver |-> o.ver]}
  /\ UNCHANGED <<orders, payments, deliveries>>

AddItem(o, c) ==
  /\ items' = IF \E r \in items : r.chrt = c THEN items
              ELSE items \cup {[uid |-> o.uid, chrt |-> c, ver |-> o.ver]}
  /\ UNCHANGED <<orders, payments, deliveries>>

\* AddDelivery: an upsert.
DeliveryRejected(o) == "deliveries" \in Unfit[o.ver]

AddDelivery(o) ==
  deliveries' = With(deliveries, o.uid, o.ver) /\ UNCHANGED <<orders, payments, items>>

-----------------------------------------------------------------------------
(* GetOrders reads all orders and, for each, its delivery, payment and items. *)
(* The rows come in no particular order, so any unreadable order may be the  *)
(* first one met.                                                            *)

\* GetDelivery returns nil, and no error, when there is no row.
DeliveryIsNil(u) == u \notin DOMAIN deliveries

\* GetPayment and GetItems return an error when there is no row.
PaymentMissing(u) == ~PaymentExists(u)
ItemsMissing(u) == \A r \in items : r.uid # u

\* populateOrderDetails dereferences the delivery before it looks further.
PanicsOn(u) == DeliveryIsNil(u)
FailsOn(u) == ~PanicsOn(u) /\ (PaymentMissing(u) \/ ItemsMissing(u))

ReadPanics == \E u \in DOMAIN orders : PanicsOn(u)
ReadFails == \E u \in DOMAIN orders : FailsOn(u)

\* What populateOrderDetails puts together of an order: its four parts, and
\* those of its items whose rows are its own.
RowsOf(u) ==
  {orders[u]} \cup {payments[x] : x \in DOMAIN payments \cap {u}}
              \cup {deliveries[x] : x \in DOMAIN deliveries \cap {u}}
              \cup {r.ver : r \in {row \in items : row.uid = u}}
StoredItems(u) == {r.chrt : r \in {row \in items : row.uid = u}}

\* The orders GetOrders may return. rows.Err() is not looked at after the
\* loop, so a connection lost on the way ends it like the last row does.
ReadSets(cut) ==
  {S \in SUBSET DOMAIN orders :
     /\ S = DOMAIN orders \/ cut
     /\ \A u \in S : ~PanicsOn(u) /\ ~FailsOn(u)}
Loaded(S) == [u \in S |-> [vers |-> RowsOf(u), chrts |-> StoredItems(u)]]

\* An order as its message has it, with all its items.
ItemSet(u) == Range(ItemsOf[u])
FromMessage(o) == [vers |-> {o.ver}, chrts |-> ItemSet(o.uid)]

-----------------------------------------------------------------------------
\* The delivery row, which AddOrder writes last, marks an order whose rows are
\* all there, all from one message; an item may be missing only where another
\* order holds its chrt_id.
DeliveryMarksComplete ==
  \A u \in DOMAIN deliveries :
    /\ u \in DOMAIN orders /\ orders[u] = deliveries[u]
    /\ u \in DOMAIN payments /\ payments[u] = deliveries[u]
    /\ \A i \in DOMAIN ItemsOf[u] :
         \E r \in items : /\ r.chrt = ItemsOf[u][i]
                          /\ r.uid = u => r.ver = deliveries[u]

\* An order some of whose rows are missing.
Torn(u) == u \in DOMAIN orders /\ u \notin DOMAIN deliveries
=============================================================================
