--------------------------- MODULE CacheContract ---------------------------
(* What internal/cache/cache_interface.go promises to the HTTP handlers and  *)
(* to the consumer, whatever the backend: a store of orders by order_uid     *)
(* that may forget an order at any moment (a TTL, an eviction) but never     *)
(* answers with anything except the order saved last under that uid.         *)
(*                                                                           *)
(* store is the partial function of the orders a GetOrder would return now;  *)
(* reply is the answer of the last call, an order being seen only there.     *)
EXTENDS Functions, FiniteSets

CONSTANTS Uid,      \* order_uid values
          Version   \* contents an order may have, apart from its uid

VARIABLES store, reply

vars == <<store, reply>>

\* models.Order as the cache sees it: a key and everything else.
Order == [uid: Uid, ver: Version]

Reply == [op: {"none", "save", "remove", "clear", "close"}]
           \cup [op: {"miss"}, uid: Uid]
           \cup [op: {"hit"}, order: Order]
           \cup [op: {"all"}, orders: SUBSET Order]

EmptyStore == [u \in {} |-> {}]

\* The stores a SaveOrder may leave: the order is in, others may be evicted.
AfterSave(s, o) ==
  {[u \in kept \cup {o.uid} |-> IF u = o.uid THEN o ELSE s[u]] :
     kept \in SUBSET DOMAIN s}

TypeOK ==
  /\ DOMAIN store \subseteq Uid
  /\ \A u \in DOMAIN store : store[u] \in Order /\ store[u].uid = u
  /\ reply \in Reply

Init == store = EmptyStore /\ reply = [op |-> "none"]

SaveOrder(o) == store' \in AfterSave(store, o) /\ reply' = [op |-> "save"]

\* A read answers with the stored order, or misses and leaves nothing behind.
GetOrder(u) ==
  /\ reply' = IF u \in DOMAIN store THEN [op |-> "hit", order |-> store[u]]
                                    ELSE [op |-> "miss", uid |-> u]
  /\ UNCHANGED store

RemoveOrder(u) ==
  store' = Restrict(store, DOMAIN store \ {u}) /\ reply' = [op |-> "remove"]

Clear == store' = EmptyStore /\ reply' = [op |-> "clear"]

\* The listing holds no order that a read would not return, and may be short.
GetAllOrders ==
  /\ \E part \in SUBSET DOMAIN store :
       reply' = [op |-> "all", orders |-> {store[u] : u \in part}]
  /\ UNCHANGED store

Close == store' = EmptyStore /\ reply' = [op |-> "close"]

\* Expiry, between two calls.
Forget ==
  /\ \E kept \in SUBSET DOMAIN store : store' = Restrict(store, kept)
  /\ UNCHANGED reply

Next ==
  \/ \E o \in Order : SaveOrder(o)
  \/ \E u \in Uid : GetOrder(u) \/ RemoveOrder(u)
  \/ Clear \/ GetAllOrders \/ Close \/ Forget

Spec == Init /\ [][Next]_vars
=============================================================================
