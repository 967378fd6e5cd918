---------------------------- MODULE MCRedisCache ----------------------------
(* RedisCache with two history variables: what has been in Redis all through *)
(* a call, and what has been there at some moment of it.                     *)
EXTENDS RedisCache

VARIABLES steady,   \* steady[c]: uids stored ever since c's call began
          seen      \* seen[c]: orders stored at some moment of c's listing

allVars == <<keys, client, call, failures, steady, seen>>

MCInit ==
  /\ Init
  /\ steady = [c \in Caller |-> {}]
  /\ seen = [c \in Caller |-> {}]

AtRest(c) == call[c].op = "none"

MCNext ==
  /\ Next
  /\ steady' = [c \in Caller |->
       IF call'[c].op = "none" THEN {}
       ELSE (IF AtRest(c) THEN DOMAIN keys ELSE steady[c]) \cap DOMAIN keys']
  /\ seen' = [c \in Caller |->
       IF call'[c].op # "list" THEN {}
       ELSE (IF AtRest(c) THEN Range(keys) ELSE seen[c]) \cup Range(keys')]

MCSpec == MCInit /\ [][MCNext]_allVars /\ Fairness

\* When Clear returns without an error, no order is left that was in Redis
\* before the call and has stayed there: each was deleted, by this call or
\* otherwise, and what is there now was saved during it (redis_cache.go:106).
ClearedAreGone == [][\A c \in Caller : ClearEnd(c) => steady[c] = {}]_allVars

\* A listing that GetAllOrders returns is not a snapshot, but it holds every
\* order that was in Redis throughout the call, and none that was not there
\* at some moment of it (redis_cache.go:125-146).
ListingComplete ==
  [][\A c \in Caller : ListEnd(c) =>
       /\ steady[c] \subseteq {order.uid : order \in call[c].found}
       /\ call[c].found \subseteq seen[c]]_allVars
=============================================================================
