---------------------- MODULE MCInMemoryCacheProofs ----------------------
(* What the in-memory cache owes its callers over time, for every set of     *)
(* uids, every capacity, TTL and clock bound: which entry makes room for a   *)
(* new one, and how old a hit can be. Both are about the histories of        *)
(* MCInMemoryCache; IInv of InMemoryCacheProofs does the rest.                *)
EXTENDS MCInMemoryCache, InMemoryCacheProofs, FiniteSetTheorems

-----------------------------------------------------------------------------
(* The list in order of use.                                                 *)

\* An element in front of another one has been used after it.
Ordered(l, since) ==
  \A i, j \in 1 .. Len(l) : i < j => l[i].key \in since[l[j].key]

\* A list whose elements are those of l, in the same order, with gaps. The
\* three operations leave such a list behind their new first element.
Within(r, l) ==
  \A i, j \in 1 .. Len(r) : i < j =>
    \E m, n \in 1 .. Len(l) : m < n /\ r[i] = l[m] /\ r[j] = l[n]

\* Taking elements out does not change the order of the others.
LEMMA WithinOrdered ==
  ASSUME NEW l, NEW r, NEW since, Ordered(l, since), Within(r, l)
  PROVE  Ordered(r, since)
BY DEF Ordered, Within

\* list.Remove.
LEMMA RemovedWithin ==
  ASSUME NEW S, NEW l \in Seq(S), NEW e
  PROVE  Within(Removed(l, e), l)
<1>1. CASE e \in Range(l)
  <2>1. PICK k \in 1 .. Len(l) :
          /\ Len(Removed(l, e)) = Len(l) - 1
          /\ \A j \in 1 .. Len(l) - 1 :
               Removed(l, e)[j] = IF j < k THEN l[j] ELSE l[j + 1]
    BY <1>1, RemovedPositions
  <2>2. Len(l) \in Nat
    BY LenProperties
  <2>. DEFINE at(j) == IF j < k THEN j ELSE j + 1
  <2>3. ASSUME NEW i \in 1 .. Len(l) - 1, NEW j \in 1 .. Len(l) - 1, i < j
        PROVE  /\ at(i) \in 1 .. Len(l) /\ at(j) \in 1 .. Len(l) /\ at(i) < at(j)
               /\ Removed(l, e)[i] = l[at(i)] /\ Removed(l, e)[j] = l[at(j)]
    BY <2>1, <2>2, <2>3
  <2>. HIDE DEF at
  <2>. QED  BY <2>1, <2>3 DEF Within
<1>2. CASE e \notin Range(l)
  BY <1>2 DEF Removed, Within
<1>. QED  BY <1>1, <1>2

\* evictIfNeeded.
LEMMA KeptWithin ==
  ASSUME NEW S, NEW l \in Seq(S)
  PROVE  Within(Kept(l), l)
<1>1. CASE Len(l) > Capacity
  <2>1. Len(Kept(l)) = Capacity /\ \A j \in 1 .. Capacity : Kept(l)[j] = l[j]
    BY <1>1, SubSeqProperties, LenProperties, CapacityAssumption DEF Kept
  <2>2. \A j \in 1 .. Capacity : j \in 1 .. Len(l)
    BY <1>1, LenProperties, CapacityAssumption
  <2>. QED  BY <2>1, <2>2 DEF Within
<1>2. CASE ~(Len(l) > Capacity)
  BY <1>2 DEF Kept, Within
<1>. QED  BY <1>1, <1>2

\* list.PushFront, position by position.
LEMMA PushedPositions ==
  ASSUME NEW S, NEW l \in Seq(S), NEW e \in S
  PROVE  /\ PushedFront(l, e) \in Seq(S)
         /\ Len(PushedFront(l, e)) = Len(l) + 1
         /\ PushedFront(l, e)[1] = e
         /\ \A j \in 2 .. Len(l) + 1 : PushedFront(l, e)[j] = l[j - 1]
<1>1. <<e>> \in Seq(S) /\ Len(<<e>>) = 1 /\ <<e>>[1] = e
  OBVIOUS
<1>. QED  BY <1>1, ConcatProperties, LenProperties DEF PushedFront

\* Using a uid whose entry is then pushed in front of the others: the new
\* first element has been used after all of them, and nothing else changes.
LEMMA PushOrdered ==
  ASSUME NEW l \in Seq(Entry), NEW e \in Entry,
         NEW since \in [Uid -> SUBSET Uid], Ordered(l, since),
         \A j \in 1 .. Len(l) : l[j].key # e.key,
         NEW after, after = [u \in Uid |-> IF u = e.key THEN {} ELSE since[u] \cup {e.key}]
  PROVE  Ordered(PushedFront(l, e), after)
<1>. DEFINE p == PushedFront(l, e)
            n == Len(l)
<1>1. /\ Len(p) = n + 1 /\ p[1] = e
      /\ \A j \in 2 .. n + 1 : p[j] = l[j - 1]
      /\ n \in Nat
  BY PushedPositions, LenProperties
<1>2. \A j \in 1 .. n : l[j].key \in Uid
  <2>1. \A j \in 1 .. n : l[j] \in Entry
    BY LenProperties
  <2>. QED  BY <2>1 DEF Entry
<1>3. ASSUME NEW j \in 1 .. n
      PROVE  /\ l[j].key \in Uid
             /\ after[l[j].key] = since[l[j].key] \cup {e.key}
  BY <1>2
<1>. HIDE DEF p
<1>4. ASSUME NEW i \in 1 .. n + 1, NEW j \in 1 .. n + 1, i < j
      PROVE  p[i].key \in after[p[j].key]
  <2>1. j - 1 \in 1 .. n /\ p[j] = l[j - 1]
    BY <1>1, <1>4
  <2>2. CASE i = 1
    BY <1>1, <1>3, <2>1, <2>2
  <2>3. CASE i # 1
    <3>1. i - 1 \in 1 .. n /\ p[i] = l[i - 1] /\ i - 1 < j - 1
      BY <1>1, <1>4, <2>3
    <3>2. l[i - 1].key \in since[l[j - 1].key]
      BY <2>1, <3>1 DEF Ordered
    <3>. QED  BY <1>3, <2>1, <3>1, <3>2
  <2>. QED  BY <2>2, <2>3
<1>. QED  BY <1>1, <1>4 DEF Ordered, p

-----------------------------------------------------------------------------
(* The map and the list once more.                                           *)

\* The list as it is when an entry of uid u is about to be pushed: without the
\* old element of u, if there is one.
WithoutOld(c, l, u) == IF u \in DOMAIN c THEN Removed(l, c[u]) ELSE l

\* It has lost that element and no other, and the order of use is kept.
LEMMA WithoutOldProperties ==
  ASSUME NEW c, NEW l, Agree(c, l), NEW u
  PROVE  /\ WithoutOld(c, l, u) \in Seq(Entry)
         /\ Within(WithoutOld(c, l, u), l)
         /\ \A j \in 1 .. Len(WithoutOld(c, l, u)) : WithoutOld(c, l, u)[j].key # u
         /\ Len(WithoutOld(c, l, u)) = IF u \in DOMAIN c THEN Len(l) - 1 ELSE Len(l)
<1>. DEFINE d == WithoutOld(c, l, u)
<1>1. Within(d, l)
  <2>1. l \in Seq(Entry)
    BY DEF Agree
  <2>2. CASE u \in DOMAIN c
    BY <2>1, <2>2, RemovedWithin DEF WithoutOld
  <2>3. CASE u \notin DOMAIN c
    BY <2>3 DEF WithoutOld, Within
  <2>. QED  BY <2>2, <2>3
<1>2. CASE u \in DOMAIN c
  <2>1. /\ Agree(Restrict(c, DOMAIN c \ {u}), d) /\ Len(d) = Len(l) - 1
    BY <1>2, DropAgrees DEF WithoutOld
  <2>. HIDE DEF d
  <2>2. d \in Seq(Entry) /\ Range(d) = Range(Restrict(c, DOMAIN c \ {u}))
    BY <2>1 DEF Agree
  <2>3. ASSUME NEW j \in 1 .. Len(d)
        PROVE  d[j].key # u
    <3>1. d[j] \in Range(Restrict(c, DOMAIN c \ {u}))
      BY <2>2, LenProperties DEF Range
    <3>2. PICK v \in DOMAIN c \ {u} : d[j] = c[v]
      BY <3>1 DEF Range, Restrict
    <3>. QED  BY <3>2 DEF Agree
  <2>. QED  BY <1>1, <1>2, <2>1, <2>2, <2>3 DEF d
<1>3. CASE u \notin DOMAIN c
  <2>1. d = l
    BY <1>3 DEF WithoutOld
  <2>2. ASSUME NEW j \in 1 .. Len(l)
        PROVE  l[j].key # u
    <3>1. l[j] \in Range(c)
      BY LenProperties DEF Agree, Range
    <3>. QED  BY <1>3, <3>1 DEF Agree, Range
  <2>. QED  BY <1>1, <1>3, <2>1, <2>2 DEF Agree
<1>. QED  BY <1>2, <1>3

\* The map has as many keys as the list has elements.
LEMMA MapSize ==
  ASSUME NEW c, NEW l, Agree(c, l)
  PROVE  Cardinality(DOMAIN c) = Len(l)
<1>. DEFINE n == Len(l)
            f == [i \in 1 .. n |-> l[i].key]
<1>1. DOMAIN l = 1 .. n /\ n \in Nat
  BY LenProperties DEF Agree
<1>2. ASSUME NEW i \in 1 .. n
      PROVE  l[i].key \in DOMAIN c /\ l[i] = c[l[i].key]
  <2>1. l[i] \in Range(c)
    BY <1>1 DEF Agree, Range
  <2>. QED  BY <2>1 DEF Agree, Range
<1>3. IsInjective(f)
  <2>1. SUFFICES ASSUME NEW a \in 1 .. n, NEW b \in 1 .. n, l[a].key = l[b].key
                 PROVE  a = b
    BY DEF IsInjective
  <2>2. l[a] = l[b]
    BY <1>2, <2>1
  <2>. QED  BY <1>1, <2>2 DEF Agree, IsInjective
<1>4. ASSUME NEW u \in DOMAIN c
      PROVE  \E i \in 1 .. n : f[i] = u
  <2>1. c[u] \in Range(l)
    BY DEF Agree, Range
  <2>. QED  BY <1>1, <2>1 DEF Agree, Range
<1>5. f \in [1 .. n -> DOMAIN c]
  BY <1>2
<1>. HIDE DEF f
<1>6. f \in Bijection(1 .. n, DOMAIN c)
  BY <1>3, <1>4, <1>5 DEF Bijection, Injection, Surjection
<1>. QED  BY <1>1, <1>6, FS_CountingElements DEF ExistsBijection

-----------------------------------------------------------------------------
(* The inductive invariant: the list is in the order of use, and an entry    *)
(* expires a TTL after it was saved, whatever read it since.                  *)
ExpiryFromSave == \A u \in DOMAIN cache : cache[u].exp = savedAt[u] + TTL

HistoryInv ==
  /\ usedSince \in [Uid -> SUBSET Uid]
  /\ savedAt \in [Uid -> Nat]
  /\ ExpiryFromSave
  /\ Ordered(lruList, usedSince)

\* Every step with its history is a step of the cache.
LEMMA StepOfCache == [MCNext]_mcVars => [Next]_vars
BY DEF MCNext, Next, mcVars, vars

\* A new cache has no history.
LEMMA InitHistory == MCInit => HistoryInv
<1>. SUFFICES ASSUME MCInit PROVE HistoryInv
  OBVIOUS
<1>1. DOMAIN cache = {} /\ Len(lruList) = 0
  BY DEF MCInit, Init, EmptyCache
<1>. QED  BY <1>1 DEF MCInit, HistoryInv, ExpiryFromSave, Ordered

\* Steps that use no uid and only take entries out.
LEMMA QuietHistory ==
  ASSUME HistoryInv, Quiet,
         \/ UNCHANGED <<cache, lruList>>
         \/ cache' = EmptyCache /\ lruList' = << >>
         \/ /\ TypeOK
            /\ \E uid \in DOMAIN cache :
                 /\ cache' = Restrict(cache, DOMAIN cache \ {uid})
                 /\ lruList' = Removed(lruList, cache[uid])
  PROVE  HistoryInv'
<1>1. CASE UNCHANGED <<cache, lruList>>
  BY <1>1 DEF Quiet, HistoryInv, ExpiryFromSave, Ordered
<1>2. CASE cache' = EmptyCache /\ lruList' = << >>
  <2>1. DOMAIN cache' = {} /\ Len(lruList') = 0
    BY <1>2 DEF EmptyCache
  <2>. QED  BY <2>1 DEF Quiet, HistoryInv, ExpiryFromSave, Ordered
<1>3. ASSUME TypeOK, NEW uid \in DOMAIN cache,
             cache' = Restrict(cache, DOMAIN cache \ {uid}),
             lruList' = Removed(lruList, cache[uid])
      PROVE  HistoryInv'
  <2>1. ExpiryFromSave'
    BY <1>3 DEF Quiet, HistoryInv, ExpiryFromSave, Restrict
  <2>2. Within(lruList', lruList)
    BY <1>3, RemovedWithin DEF TypeOK
  <2>3. Ordered(lruList', usedSince)
    BY <2>2, WithinOrdered DEF HistoryInv
  <2>. QED  BY <2>1, <2>3 DEF Quiet, HistoryInv, Ordered
<1>. QED  BY <1>1, <1>2, <1>3

\* SaveOrder, with its history.
LEMMA SaveHistory ==
  ASSUME IInv, HistoryInv, NEW order \in Order, SaveOrder(order),
         usedSince' = Used(order.uid),
         savedAt' = [savedAt EXCEPT ![order.uid] = now]
  PROVE  HistoryInv'
<1>. DEFINE ent == [key |-> order.uid, value |-> order, exp |-> now + TTL]
            dropped == WithoutOld(cache, lruList, order.uid)
            pushed == PushedFront(dropped, ent)
            mapped == [u \in DOMAIN cache \cup {order.uid} |->
                         IF u = order.uid THEN ent ELSE cache[u]]
<1>1. /\ now \in Nat /\ order.uid \in Uid /\ ent \in Entry
      /\ ent.key = order.uid /\ ent.exp = now + TTL
      /\ DOMAIN cache \subseteq Uid
  BY TTLAssumption DEF IInv, TypeOK, Entry, Order
<1>2. /\ lruList' = Kept(pushed)
      /\ cache' = Restrict(mapped, DOMAIN mapped \ EvictedKeys(pushed))
  BY DEF SaveOrder, WithoutOld
<1>3. /\ dropped \in Seq(Entry) /\ Within(dropped, lruList)
      /\ \A j \in 1 .. Len(dropped) : dropped[j].key # order.uid
  BY AgreeForm, WithoutOldProperties DEF IInv
<1>. HIDE DEF ent, dropped
<1>4. Ordered(dropped, usedSince)
  BY <1>3, WithinOrdered DEF HistoryInv
<1>5. Ordered(pushed, usedSince')
  BY <1>1, <1>3, <1>4, PushOrdered DEF HistoryInv, Used
<1>6. pushed \in Seq(Entry)
  BY <1>1, <1>3, PushedPositions
<1>. HIDE DEF pushed
<1>7. Ordered(lruList', usedSince')
  BY <1>2, <1>5, <1>6, KeptWithin, WithinOrdered
<1>8. ExpiryFromSave'
  BY <1>1, <1>2 DEF HistoryInv, ExpiryFromSave, Restrict
<1>9. usedSince' \in [Uid -> SUBSET Uid] /\ savedAt' \in [Uid -> Nat]
  BY <1>1 DEF HistoryInv, Used
<1>. QED  BY <1>7, <1>8, <1>9 DEF HistoryInv

\* A hit, with its history: the entry moves to the front and is otherwise kept.
LEMMA HitHistory ==
  ASSUME IInv, HistoryInv, NEW uid \in DOMAIN cache,
         lruList' = MovedToFront(lruList, cache[uid]),
         usedSince' = Used(uid), UNCHANGED <<cache, savedAt>>
  PROVE  HistoryInv'
<1>. DEFINE dropped == WithoutOld(cache, lruList, uid)
<1>1. Agree(cache, lruList)
  BY AgreeForm DEF IInv
<1>2. /\ cache[uid] \in Range(lruList) /\ cache[uid] \in Entry
      /\ cache[uid].key = uid /\ uid \in Uid
  BY <1>1 DEF Agree, Range
<1>3. lruList' = PushedFront(dropped, cache[uid])
  BY <1>2 DEF MovedToFront, WithoutOld
<1>4. /\ dropped \in Seq(Entry) /\ Within(dropped, lruList)
      /\ \A j \in 1 .. Len(dropped) : dropped[j].key # uid
  BY <1>1, WithoutOldProperties
<1>. HIDE DEF dropped
<1>5. Ordered(dropped, usedSince)
  BY <1>4, WithinOrdered DEF HistoryInv
<1>6. Ordered(lruList', usedSince')
  BY <1>2, <1>3, <1>4, <1>5, PushOrdered DEF HistoryInv, Used
<1>7. usedSince' \in [Uid -> SUBSET Uid]
  BY <1>2 DEF HistoryInv, Used
<1>. QED  BY <1>6, <1>7 DEF HistoryInv, ExpiryFromSave

\* Every step keeps the list in the order of use.
LEMMA NextHistory == IInv /\ HistoryInv /\ [MCNext]_mcVars => HistoryInv'
<1>. SUFFICES ASSUME IInv, HistoryInv, [MCNext]_mcVars PROVE HistoryInv'
  OBVIOUS
<1>0. TypeOK
  BY DEF IInv
<1>1. ASSUME NEW order \in Order, SaveOrder(order), usedSince' = Used(order.uid),
             savedAt' = [savedAt EXCEPT ![order.uid] = now]
      PROVE  HistoryInv'
  BY <1>1, SaveHistory
<1>2. ASSUME NEW uid \in Uid, GetOrder(uid), UNCHANGED savedAt,
             usedSince' = IF reply'.op = "hit" THEN Used(uid) ELSE usedSince
      PROVE  HistoryInv'
  <2>1. CASE uid \notin DOMAIN cache
    <3>1. reply'.op # "hit" /\ UNCHANGED <<cache, lruList>>
      BY <1>2, <2>1 DEF GetOrder
    <3>. QED  BY <1>2, <3>1, QuietHistory DEF Quiet
  <2>2. CASE uid \in DOMAIN cache /\ Expired(cache[uid])
    <3>1. /\ reply'.op # "hit"
          /\ cache' = Restrict(cache, DOMAIN cache \ {uid})
          /\ lruList' = Removed(lruList, cache[uid])
      BY <1>2, <2>2 DEF GetOrder
    <3>. QED  BY <1>0, <1>2, <2>2, <3>1, QuietHistory DEF Quiet
  <2>3. CASE uid \in DOMAIN cache /\ ~Expired(cache[uid])
    <3>1. /\ reply'.op = "hit" /\ UNCHANGED cache
          /\ lruList' = MovedToFront(lruList, cache[uid])
      BY <1>2, <2>3 DEF GetOrder
    <3>. QED  BY <1>2, <2>3, <3>1, HitHistory
  <2>. QED  BY <2>1, <2>2, <2>3
<1>3. ASSUME NEW uid \in Uid, RemoveOrder(uid), Quiet
      PROVE  HistoryInv'
  BY <1>0, <1>3, QuietHistory DEF RemoveOrder
<1>4. ASSUME NEW key \in Uid, CleanupRemove(key), Quiet
      PROVE  HistoryInv'
  <2>1. key \in DOMAIN cache
    BY <1>4 DEF CleanupRemove, IInv, CollectedStillExpired
  <2>. QED  BY <1>0, <1>4, <2>1, QuietHistory DEF CleanupRemove
<1>5. CASE (Clear \/ CloseClear) /\ Quiet
  BY <1>5, QuietHistory DEF Clear, CloseClear
<1>6. CASE \/ (Tick \/ GetAllOrders \/ CloseStop \/ CleanupStart \/ CleanupEnd \/ CleanerReturn) /\ Quiet
           \/ UNCHANGED mcVars
  BY <1>6, QuietHistory
  DEF Tick, GetAllOrders, CloseStop, CleanupStart, CleanupEnd, CleanerReturn, Quiet, mcVars, vars
<1>. QED  BY <1>1, <1>2, <1>3, <1>4, <1>5, <1>6 DEF MCNext

\* Both invariants together, over every behaviour.
LEMMA HistoryHolds == MCSpec => [](IInv /\ HistoryInv)
<1>1. MCInit => IInv /\ HistoryInv
  BY InitIInv, InitHistory DEF MCInit
<1>2. IInv /\ HistoryInv /\ [MCNext]_mcVars => (IInv /\ HistoryInv)'
  BY StepOfCache, NextIInv, NextHistory
<1>. QED  BY <1>1, <1>2, PTL DEF MCSpec

-----------------------------------------------------------------------------
(* The theorems.                                                             *)

\* What SaveOrder drops, in any state the cache can be in.
LEMMA EvictedIsOldest ==
  ASSUME IInv, HistoryInv, NEW order \in Order, SaveOrder(order),
         NEW u \in DOMAIN cache \ DOMAIN cache'
  PROVE  /\ Cardinality(DOMAIN cache) = Capacity
         /\ order.uid \notin DOMAIN cache
         /\ \A w \in DOMAIN cache \ {u} : w \in usedSince[u]
<1>. DEFINE ent == [key |-> order.uid, value |-> order, exp |-> now + TTL]
            dropped == WithoutOld(cache, lruList, order.uid)
            pushed == PushedFront(dropped, ent)
            n == Len(lruList)
<1>. USE CapacityAssumption
<1>1. Agree(cache, lruList) /\ n \in Nat /\ n <= Capacity /\ DOMAIN lruList = 1 .. n
  BY AgreeForm, LenProperties DEF IInv, WithinCapacity, TypeOK
<1>2. ent \in Entry
  BY TTLAssumption DEF IInv, TypeOK, Entry, Order
<1>3. u \in EvictedKeys(pushed)
  BY DEF SaveOrder, WithoutOld, Restrict
<1>4. /\ dropped \in Seq(Entry)
      /\ Len(dropped) = IF order.uid \in DOMAIN cache THEN n - 1 ELSE n
  BY <1>1, WithoutOldProperties
<1>5. order.uid \notin DOMAIN cache => dropped = lruList
  BY DEF WithoutOld
<1>. HIDE DEF ent, dropped
<1>6. /\ Len(pushed) = Len(dropped) + 1
      /\ \A j \in 2 .. Len(dropped) + 1 : pushed[j] = dropped[j - 1]
  <2>1. dropped \in Seq(Entry)
    BY <1>4
  <2>2. /\ Len(PushedFront(dropped, ent)) = Len(dropped) + 1
        /\ \A j \in 2 .. Len(dropped) + 1 : PushedFront(dropped, ent)[j] = dropped[j - 1]
    <3>. HIDE DEF pushed
    <3>. QED  BY <1>2, <2>1, PushedPositions
  <2>. QED  BY <2>2
<1>7. PICK i \in Capacity + 1 .. Len(pushed) : pushed[i].key = u
  BY <1>3 DEF EvictedKeys
<1>. HIDE DEF pushed
\* One more than Capacity elements: the uid was not in the full list.
<1>8. order.uid \notin DOMAIN cache /\ n = Capacity /\ i = Capacity + 1
  <2>1. i \in Capacity + 1 .. Len(dropped) + 1 /\ Capacity \in Nat /\ n \in Nat /\ n <= Capacity
    BY <1>1, <1>6, <1>7
  <2>. HIDE DEF n
  <2>2. CASE order.uid \in DOMAIN cache
    BY <1>4, <2>1, <2>2
  <2>3. CASE order.uid \notin DOMAIN cache
    BY <1>4, <2>1, <2>3
  <2>. QED  BY <2>2, <2>3
<1>9. u = lruList[n].key
  BY <1>1, <1>5, <1>6, <1>7, <1>8
<1>10. ASSUME NEW w \in DOMAIN cache \ {u}
       PROVE  w \in usedSince[u]
  <2>1. cache[w] \in Range(lruList) /\ cache[w].key = w
    BY <1>1 DEF Agree, Range
  <2>2. PICK j \in 1 .. n : lruList[j] = cache[w]
    BY <1>1, <2>1 DEF Range
  <2>3. j < n
    BY <1>1, <1>9, <2>1, <2>2
  <2>. QED  BY <1>1, <1>9, <2>1, <2>2, <2>3 DEF HistoryInv, Ordered
<1>. QED  BY <1>1, <1>8, <1>10, MapSize

\* SaveOrder makes room only for a new uid in a full cache, and then at the
\* cost of the entry that nobody has used for longest.
THEOREM EvictionIsLeastRecentlyUsed == MCSpec => EvictsLeastRecentlyUsed
<1>1. IInv /\ HistoryInv =>
        \A order \in Order : SaveOrder(order) =>
          \A u \in DOMAIN cache \ DOMAIN cache' :
            /\ Cardinality(DOMAIN cache) = Capacity
            /\ order.uid \notin DOMAIN cache
            /\ \A w \in DOMAIN cache \ {u} : w \in usedSince[u]
  BY EvictedIsOldest
<1>. QED  BY <1>1, HistoryHolds, PTL DEF EvictsLeastRecentlyUsed

\* A hit was saved no more than a TTL ago, whether or not a cleanup has run.
THEOREM HitsAlwaysFresh == MCSpec => HitsAreFresh
<1>1. ASSUME IInv, HistoryInv, NEW u \in Uid, GetOrder(u), reply'.op = "hit"
      PROVE  now - savedAt[u] <= TTL
  <2>1. u \in DOMAIN cache /\ ~Expired(cache[u])
    BY <1>1 DEF GetOrder
  <2>2. cache[u].exp = savedAt[u] + TTL /\ savedAt[u] \in Nat /\ now \in Nat
    BY <1>1, <2>1 DEF HistoryInv, ExpiryFromSave, IInv, TypeOK
  <2>. QED  BY <2>1, <2>2, TTLAssumption DEF Expired
<1>2. IInv /\ HistoryInv =>
        \A u \in Uid : GetOrder(u) /\ reply'.op = "hit" => now - savedAt[u] <= TTL
  BY <1>1
<1>. QED  BY <1>2, HistoryHolds, PTL DEF HitsAreFresh
==========================================================================
