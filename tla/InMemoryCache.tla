--------------------------- MODULE InMemoryCache ---------------------------
(* internal/cache/inmemory_cache.go: a map of list elements and a doubly     *)
(* linked list in order of use, under one mutex, with a TTL and a background *)
(* goroutine that drops expired entries.                                     *)
(*                                                                           *)
(* A list element is identified by its entry: an entry is never written      *)
(* after it is created, and cache[key] holds the entry its *list.Element     *)
(* points at. A call that holds the mutex from start to end is one action;   *)
(* cleanupExpired, whose second loop trusts what the first one collected, is *)
(* taken one removal at a time, and every other call waits for the mutex.    *)
(*                                                                           *)
(* A definition whose name carries a suffix after an underscore is the next  *)
(* definition with a bug put in; no action uses it. PROJECT.json says which   *)
(* property tells each of them from the real one.                            *)
EXTENDS Naturals, Sequences, SequencesExt, Functions, FiniteSets

CONSTANTS Uid, Version,   \* as in CacheContract
          Capacity,       \* NewInMemoryCache's capacity
          TTL,            \* NewInMemoryCache's ttl, in clock ticks
          MaxTime         \* bound on the modelled clock

ASSUME CapacityAssumption == Capacity \in Nat \ {0}
ASSUME TTLAssumption == TTL \in Nat
ASSUME MaxTimeAssumption == MaxTime \in Nat

VARIABLES cache,     \* map[string]*list.Element
          lruList,   \* *list.List, front first
          keysToRemove, \* what a running cleanupExpired still has to remove
          locked,    \* cleanupExpired holds mu
          cleaner,   \* the startCleanup goroutine: "running", "stopped"
          stopCh,    \* "open"; "closing" inside Close, after close(stopCh); "closed"
          now,       \* time.Now()
          reply      \* the answer of the last call, as in CacheContract

vars == <<cache, lruList, keysToRemove, locked, cleaner, stopCh, now, reply>>

Order == [uid: Uid, ver: Version]
Entry == [key: Uid, value: Order, exp: Nat]
EmptyCache == [u \in {} |-> {}]

Expired_OneTickLate(ent) == now > ent.exp + 1

Expired(ent) == now > ent.exp            \* now.After(exp)

MutexFree_UnlockedBetweenLoops == TRUE

MutexFree == ~locked

\* container/list: Remove(e), PushFront(e) and MoveToFront(e). Remove of an
\* element that is not in the list does nothing.
Removed(list, e) ==
  IF e \in Range(list)
  THEN RemoveAt(list, CHOOSE i \in DOMAIN list : list[i] = e)
  ELSE list

PushedFront_BareOrder(list, e) == <<e.value>> \o list

PushedFront(list, e) == <<e>> \o list

MovedToFront_NotMoved(list, e) == list

MovedToFront(list, e) ==
  IF e \in Range(list) THEN PushedFront(Removed(list, e), e) ELSE list

\* evictIfNeeded: what the list keeps and whose keys it drops.
Kept_OneTooMany(list) ==
  IF Len(list) > Capacity + 1 THEN SubSeq(list, 1, Capacity + 1) ELSE list

Kept(list) ==
  IF Len(list) > Capacity THEN SubSeq(list, 1, Capacity) ELSE list

EvictedKeys_MapForgotten(list) == {}

EvictedKeys(list) == {list[i].key : i \in Capacity + 1 .. Len(list)}

TypeOK ==
  /\ DOMAIN cache \subseteq Uid
  /\ \A u \in DOMAIN cache : cache[u] \in Entry
  /\ lruList \in Seq(Entry)
  /\ keysToRemove \subseteq Uid
  /\ locked \in BOOLEAN
  /\ cleaner \in {"running", "stopped"}
  /\ stopCh \in {"open", "closing", "closed"}
  /\ now \in Nat

Init ==
  /\ cache = EmptyCache
  /\ lruList = << >>
  /\ keysToRemove = {}
  /\ locked = FALSE
  /\ cleaner = IF TTL > 0 THEN "running" ELSE "stopped"
  /\ stopCh = "open"
  /\ now = 0
  /\ reply = [op |-> "none"]

-----------------------------------------------------------------------------
Tick ==
  /\ now < MaxTime
  /\ now' = now + 1
  /\ UNCHANGED <<cache, lruList, keysToRemove, locked, cleaner, stopCh, reply>>

SaveOrder(order) ==
  LET ent == [key |-> order.uid, value |-> order, exp |-> now + TTL]
      dropped == IF order.uid \in DOMAIN cache
                 THEN Removed(lruList, cache[order.uid]) ELSE lruList
      pushed == PushedFront(dropped, ent)
      mapped == [u \in DOMAIN cache \cup {order.uid} |->
                   IF u = order.uid THEN ent ELSE cache[u]]
  IN  /\ MutexFree
      /\ lruList' = Kept(pushed)
      /\ cache' = Restrict(mapped, DOMAIN mapped \ EvictedKeys(pushed))
      /\ reply' = [op |-> "save"]
      /\ UNCHANGED <<keysToRemove, locked, cleaner, stopCh, now>>

\* GetOrder, and OrderExists, which is a call of it.
GetOrder(uid) ==
  /\ MutexFree
  /\ IF uid \notin DOMAIN cache
     THEN /\ reply' = [op |-> "miss", uid |-> uid]
          /\ UNCHANGED <<cache, lruList>>
     ELSE IF Expired(cache[uid])
     THEN /\ reply' = [op |-> "miss", uid |-> uid]
          /\ lruList' = Removed(lruList, cache[uid])
          /\ cache' = Restrict(cache, DOMAIN cache \ {uid})
     ELSE /\ reply' = [op |-> "hit", order |-> cache[uid].value]
          /\ lruList' = MovedToFront(lruList, cache[uid])
          /\ UNCHANGED cache
  /\ UNCHANGED <<keysToRemove, locked, cleaner, stopCh, now>>

RemoveOrder(uid) ==
  /\ MutexFree
  /\ IF uid \in DOMAIN cache
     THEN /\ lruList' = Removed(lruList, cache[uid])
          /\ cache' = Restrict(cache, DOMAIN cache \ {uid})
     ELSE UNCHANGED <<cache, lruList>>
  /\ reply' = [op |-> "remove"]
  /\ UNCHANGED <<keysToRemove, locked, cleaner, stopCh, now>>

Clear ==
  /\ MutexFree
  /\ cache' = EmptyCache
  /\ lruList' = << >>
  /\ reply' = [op |-> "clear"]
  /\ UNCHANGED <<keysToRemove, locked, cleaner, stopCh, now>>

\* The listing tests now.Before(exp), so it leaves out an entry whose last
\* instant is now, which GetOrder would still return.
Listed_Unfiltered == Range(lruList)

Listed == {ent \in Range(lruList) : now < ent.exp}

GetAllOrders ==
  /\ MutexFree
  /\ reply' = [op |-> "all", orders |-> {ent.value : ent \in Listed}]
  /\ UNCHANGED <<cache, lruList, keysToRemove, locked, cleaner, stopCh, now>>

\* Close closes stopCh before its Clear waits for the mutex. A second Close
\* would panic; main calls it once.
CloseStop ==
  /\ stopCh = "open"
  /\ stopCh' = "closing"
  /\ UNCHANGED <<cache, lruList, keysToRemove, locked, cleaner, now, reply>>

CloseClear ==
  /\ stopCh = "closing"
  /\ MutexFree
  /\ stopCh' = "closed"
  /\ cache' = EmptyCache
  /\ lruList' = << >>
  /\ reply' = [op |-> "close"]
  /\ UNCHANGED <<keysToRemove, locked, cleaner, now>>

-----------------------------------------------------------------------------
\* The startCleanup goroutine: a tick of the ticker or the closed stopCh, in
\* either order when both are ready.
Collected_Inverted == {u \in DOMAIN cache : now < cache[u].exp}

Collected == {u \in DOMAIN cache : Expired(cache[u])}

CleanupStart ==
  /\ cleaner = "running"
  /\ MutexFree
  /\ locked' = TRUE
  /\ keysToRemove' = Collected
  /\ UNCHANGED <<cache, lruList, cleaner, stopCh, now, reply>>

CleanupRemove(key) ==
  /\ locked
  /\ key \in keysToRemove
  /\ keysToRemove' = keysToRemove \ {key}
  /\ lruList' = Removed(lruList, cache[key])
  /\ cache' = Restrict(cache, DOMAIN cache \ {key})
  /\ UNCHANGED <<locked, cleaner, stopCh, now, reply>>

CleanupEnd ==
  /\ locked
  /\ keysToRemove = {}
  /\ locked' = FALSE
  /\ UNCHANGED <<cache, lruList, keysToRemove, cleaner, stopCh, now, reply>>

CleanerReturn ==
  /\ cleaner = "running"
  /\ stopCh # "open"
  /\ MutexFree
  /\ cleaner' = "stopped"
  /\ UNCHANGED <<cache, lruList, keysToRemove, locked, stopCh, now, reply>>

-----------------------------------------------------------------------------
Next ==
  \/ Tick
  \/ \E order \in Order : SaveOrder(order)
  \/ \E uid \in Uid : GetOrder(uid)
  \/ \E uid \in Uid : RemoveOrder(uid)
  \/ Clear \/ GetAllOrders \/ CloseStop \/ CloseClear
  \/ CleanupStart \/ CleanerReturn \/ CleanupEnd
  \/ \E key \in Uid : CleanupRemove(key)

Spec == Init /\ [][Next]_vars

\* The ticker keeps firing while the goroutine runs, a goroutine that can run
\* is run, and sync.RWMutex lets every waiter in; Tick and the callers' own
\* calls are under no obligation.
Fairness ==
  /\ WF_vars(CleanupStart)
  /\ WF_vars(\E key \in Uid : CleanupRemove(key))
  /\ WF_vars(CleanupEnd)
  /\ WF_vars(CloseClear)

-----------------------------------------------------------------------------
\* The map and the list describe the same set of entries: every key of the
\* map points at its own entry in the list, the list holds no other entry,
\* and no entry twice. Each method updates the two by separate statements.
MapListAgree ==
  /\ \A u \in DOMAIN cache : cache[u].key = u /\ cache[u].value.uid = u
  /\ Range(lruList) = Range(cache)
  /\ IsInjective(lruList)

\* No call leaves more than capacity entries behind (evictIfNeeded), whatever
\* mix of saves, re-saves, removals and cleanups went before.
WithinCapacity == Len(lruList) <= Capacity

\* A key cleanupExpired collected in its first loop is, when its second loop
\* reaches it, still in the map and still the expired entry that was collected:
\* otherwise elem would be nil and list.Remove would panic, or an order saved
\* or looked up in between would be thrown away.
CollectedStillExpired ==
  \A u \in keysToRemove : u \in DOMAIN cache /\ Expired(cache[u])

\* What callers can see of this cache is what the Cache interface promises:
\* whatever entries are evicted, expired or cleaned up, a hit is the order
\* saved last, and a listing holds nothing a GetOrder would not return.
Visible ==
  [u \in {v \in DOMAIN cache : ~Expired(cache[v])} |-> cache[u].value]
Contract == INSTANCE CacheContract WITH store <- Visible, reply <- reply
ImplementsContract == Contract!Spec

\* An expired entry does not hold its memory for ever: the cleanup drops it,
\* unless the key is saved anew or the cache has been closed.
ExpiredEntriesDropped ==
  \A u \in Uid :
    (u \in DOMAIN cache /\ Expired(cache[u]))
      ~> (u \notin DOMAIN cache \/ ~Expired(cache[u]) \/ stopCh = "closed")
=============================================================================
