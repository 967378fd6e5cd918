------------------------- MODULE MCInMemoryCache -------------------------
(* InMemoryCache with two history variables, seen from the callers' side    *)
(* only: which uids have been used since a uid was last used, and when each  *)
(* was saved.                                                                *)
EXTENDS InMemoryCache

VARIABLES usedSince,  \* usedSince[u]: the uids used after the last use of u
          savedAt     \* when each uid was last saved

mcVars == <<vars, usedSince, savedAt>>

\* A SaveOrder of uid, or a read that returns it.
Used(uid) ==
  [u \in Uid |-> IF u = uid THEN {} ELSE usedSince[u] \cup {uid}]

MCInit == Init /\ usedSince = [u \in Uid |-> {}] /\ savedAt = [u \in Uid |-> 0]

Quiet == UNCHANGED <<usedSince, savedAt>>

MCNext ==
  \/ \E order \in Order :
       /\ SaveOrder(order)
       /\ usedSince' = Used(order.uid)
       /\ savedAt' = [savedAt EXCEPT ![order.uid] = now]
  \/ \E uid \in Uid :
       /\ GetOrder(uid)
       /\ usedSince' = IF reply'.op = "hit" THEN Used(uid) ELSE usedSince
       /\ UNCHANGED savedAt
  \/ \E uid \in Uid : RemoveOrder(uid) /\ Quiet
  \/ \E key \in Uid : CleanupRemove(key) /\ Quiet
  \/ Tick /\ Quiet
  \/ Clear /\ Quiet
  \/ GetAllOrders /\ Quiet
  \/ CloseStop /\ Quiet
  \/ CloseClear /\ Quiet
  \/ CleanupStart /\ Quiet
  \/ CleanupEnd /\ Quiet
  \/ CleanerReturn /\ Quiet

MCSpec == MCInit /\ [][MCNext]_mcVars /\ Fairness

\* SaveOrder drops an entry only to make room for a new uid in a full cache,
\* and the entry it drops is the one whose uid was used longest ago: every
\* other uid in the cache has been used since.
EvictsLeastRecentlyUsed ==
  [][\A order \in Order : SaveOrder(order) =>
       \A u \in DOMAIN cache \ DOMAIN cache' :
         /\ Cardinality(DOMAIN cache) = Capacity
         /\ order.uid \notin DOMAIN cache
         /\ \A w \in DOMAIN cache \ {u} : w \in usedSince[u]]_mcVars

\* A read never returns an order saved more than a TTL ago: reads do not
\* prolong an entry, and a cleanup that has not run yet does not matter.
HitsAreFresh ==
  [][\A u \in Uid : GetOrder(u) /\ reply'.op = "hit" => now - savedAt[u] <= TTL]_mcVars
=============================================================================
