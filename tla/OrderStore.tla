---------------------------- MODULE OrderStore ----------------------------
(* What the service as a whole owes an order: AddOrder                       *)
(* (internal/repository/orders.go), the consumer that calls it, the cache    *)
(* they fill and the process that may end between any two of their           *)
(* statements, seen from outside. It says nothing of messages, tables,       *)
(* statements, retries or restarts.                                          *)
(*                                                                           *)
(* An order is unknown, half written or whole. It becomes half written once, *)
(* when its orders row is inserted, and whole only by the writer that made   *)
(* it half written, in the same go: a writer that gives up, or dies, leaves  *)
(* it half written for good. Nothing it consists of is ever changed, and the *)
(* cache holds copies of whole orders only.                                  *)
EXTENDS Functions

CONSTANTS Uid, Version   \* as in OrdersDB

\* An order's contents are the set of the versions its rows are of, so that
\* the rows of two messages can be seen to mix.
VARIABLES half,     \* order_uid -> contents, of the orders half written
          whole,    \* order_uid -> contents, of the whole ones
          writing,  \* the order being written, if any
          cached    \* order_uid -> contents, of the orders in the cache

vars == <<half, whole, writing, cached>>

Nothing == [u \in {} |-> {}]
Put(f, u, c) == [x \in DOMAIN f \cup {u} |-> IF x = u THEN c ELSE f[x]]

Init == half = Nothing /\ whole = Nothing /\ writing = {} /\ cached = Nothing

\* The orders row of an unknown order, from one message. The writer goes on,
\* or is told that it failed although the row is there.
Begin(u, v) ==
  /\ u \notin DOMAIN half \cup DOMAIN whole
  /\ writing = {}
  /\ half' = Put(half, u, {v})
  /\ writing' \in {{u}, {}}
  /\ UNCHANGED <<whole, cached>>

\* The last row.
Complete(u) ==
  /\ u \in writing
  /\ half' = Restrict(half, DOMAIN half \ {u})
  /\ whole' = Put(whole, u, half[u])
  /\ writing' = {}
  /\ UNCHANGED cached

GiveUp == writing # {} /\ writing' = {} /\ UNCHANGED <<half, whole, cached>>

\* The consumer, after AddOrder or from what it has restored.
Cache(u) ==
  /\ u \in DOMAIN whole
  /\ cached' = Put(cached, u, whole[u])
  /\ UNCHANGED <<half, whole, writing>>

\* The start of the process fills an empty cache, with all orders there are or,
\* the connection being lost on the way, with some.
Load ==
  /\ cached = Nothing /\ writing = {}
  /\ \E part \in SUBSET DOMAIN whole : cached' = Restrict(whole, part)
  /\ UNCHANGED <<half, whole, writing>>

\* Eviction, expiry, DELETE requests, the Clear before a restore, Close.
Forget ==
  /\ \E kept \in SUBSET DOMAIN cached : cached' = Restrict(cached, kept)
  /\ UNCHANGED <<half, whole, writing>>

\* The process ends.
End == writing' = {} /\ cached' = Nothing /\ UNCHANGED <<half, whole>>

Next ==
  \/ \E u \in Uid, v \in Version : Begin(u, v)
  \/ \E u \in Uid : Complete(u) \/ Cache(u)
  \/ GiveUp \/ Load \/ Forget \/ End

Spec == Init /\ [][Next]_vars
===========================================================================
