------------------------ MODULE InMemoryCacheProofs ------------------------
(* Proofs about InMemoryCache for every set of uids and versions, every      *)
(* capacity, TTL and clock bound.                                            *)
EXTENDS InMemoryCache, SequenceTheorems, TLAPS

-----------------------------------------------------------------------------
(* The list operations, on lists that hold no entry twice.                   *)

\* Reading the result of list.Remove position by position: what was in front
\* of the element stays, what was behind it moves up by one.
LEMMA RemovedPositions ==
  ASSUME NEW S, NEW list \in Seq(S), NEW e \in Range(list)
  PROVE  \E i \in 1 .. Len(list) :
           /\ list[i] = e
           /\ Removed(list, e) \in Seq(S)
           /\ Len(Removed(list, e)) = Len(list) - 1
           /\ \A j \in 1 .. Len(list) - 1 :
                Removed(list, e)[j] = IF j < i THEN list[j] ELSE list[j + 1]
<1>. DEFINE i == CHOOSE k \in DOMAIN list : list[k] = e
            r == Removed(list, e)
            front == SubSeq(list, 1, i - 1)
            back == SubSeq(list, i + 1, Len(list))
<1>1. i \in 1 .. Len(list) /\ list[i] = e
  <2>1. \E k \in DOMAIN list : list[k] = e
    BY DEF Range
  <2>. QED  BY <2>1
<1>2. r = front \o back
  BY DEF Removed, RemoveAt
<1>3. /\ front \in Seq(S) /\ Len(front) = i - 1
      /\ \A j \in 1 .. i - 1 : front[j] = list[j]
  BY <1>1, SubSeqProperties
<1>4. /\ back \in Seq(S) /\ Len(back) = Len(list) - i
      /\ \A j \in 1 .. Len(list) - i : back[j] = list[i + j]
  BY SMTT(30), <1>1, SubSeqProperties
<1>. HIDE DEF i, r, front, back
<1>5. r \in Seq(S) /\ Len(r) = Len(list) - 1
  <2>1. r \in Seq(S) /\ Len(r) = Len(front) + Len(back)
    BY <1>2, <1>3, <1>4, ConcatProperties
  <2>. QED  BY <2>1, <1>1, <1>3, <1>4, LenProperties
<1>6. ASSUME NEW j \in 1 .. Len(list) - 1
      PROVE  r[j] = IF j < i THEN list[j] ELSE list[j + 1]
  <2>1. CASE j < i
    BY <1>1, <1>2, <1>3, <1>4, <2>1, ConcatProperties
  <2>2. CASE j >= i
    <3>1. r[j] = back[j - (i - 1)]
      BY <1>1, <1>2, <1>3, <1>4, <2>2, ConcatProperties
    <3>2. back[j - (i - 1)] = list[i + (j - (i - 1))]
      BY <1>1, <1>4, <2>2
    <3>. QED  BY <1>1, <2>2, <3>1, <3>2
  <2>. QED  BY <1>1, <2>1, <2>2
<1>. QED  BY <1>1, <1>5, <1>6 DEF r

\* list.Remove takes one element out and keeps the others, each once.
LEMMA RemovedProperties ==
  ASSUME NEW S, NEW list \in Seq(S), IsInjective(list), NEW e \in Range(list)
  PROVE  /\ Removed(list, e) \in Seq(S)
         /\ Len(Removed(list, e)) = Len(list) - 1
         /\ IsInjective(Removed(list, e))
         /\ Range(Removed(list, e)) = Range(list) \ {e}
<1>. DEFINE r == Removed(list, e)
            n == Len(list)
<1>1. PICK i \in 1 .. n :
        /\ list[i] = e
        /\ r \in Seq(S) /\ Len(r) = n - 1
        /\ \A j \in 1 .. n - 1 : r[j] = IF j < i THEN list[j] ELSE list[j + 1]
  BY RemovedPositions
<1>. HIDE DEF r
<1>2. DOMAIN list = 1 .. n /\ DOMAIN r = 1 .. n - 1 /\ n \in Nat
  BY <1>1, LenProperties
<1>3. IsInjective(r)
  <2>1. SUFFICES ASSUME NEW a \in 1 .. n - 1, NEW b \in 1 .. n - 1, r[a] = r[b]
                 PROVE  a = b
    BY <1>2 DEF IsInjective
  <2>. DEFINE at(j) == IF j < i THEN j ELSE j + 1
  <2>2. /\ at(a) \in 1 .. n /\ r[a] = list[at(a)]
        /\ at(b) \in 1 .. n /\ r[b] = list[at(b)]
    BY <1>1, <1>2
  <2>3. at(a) = at(b)
    BY <1>2, <2>1, <2>2 DEF IsInjective
  <2>. QED  BY <2>3, <1>1, <1>2
<1>4. Range(r) \subseteq Range(list) \ {e}
  BY SMTT(30), <1>1, <1>2 DEF IsInjective, Range
<1>5. ASSUME NEW x \in Range(list) \ {e}
      PROVE  x \in Range(r)
  <2>1. PICK k \in 1 .. n : list[k] = x
    BY <1>2 DEF Range
  <2>2. k # i
    BY <1>1, <2>1
  <2>3. CASE k < i
    <3>1. k \in 1 .. n - 1 /\ r[k] = x
      BY <1>1, <1>2, <2>1, <2>3
    <3>. QED  BY <3>1, <1>2 DEF Range
  <2>4. CASE k > i
    <3>1. k - 1 \in 1 .. n - 1 /\ r[k - 1] = x
      BY <1>1, <1>2, <2>1, <2>4
    <3>. QED  BY <3>1, <1>2 DEF Range
  <2>. QED  BY <2>2, <2>3, <2>4, <1>2
<1>. QED  BY <1>1, <1>3, <1>4, <1>5 DEF r

\* list.PushFront of a new element.
LEMMA PushedFrontProperties ==
  ASSUME NEW S, NEW list \in Seq(S), IsInjective(list),
         NEW e \in S, e \notin Range(list)
  PROVE  /\ PushedFront(list, e) \in Seq(S)
         /\ Len(PushedFront(list, e)) = Len(list) + 1
         /\ IsInjective(PushedFront(list, e))
         /\ Range(PushedFront(list, e)) = Range(list) \cup {e}
         /\ PushedFront(list, e)[1] = e
<1>. DEFINE p == PushedFront(list, e)
            n == Len(list)
<1>1. /\ p \in Seq(S) /\ Len(p) = n + 1 /\ p[1] = e
      /\ \A j \in 2 .. n + 1 : p[j] = list[j - 1]
  <2>1. <<e>> \in Seq(S) /\ Len(<<e>>) = 1 /\ <<e>>[1] = e
    OBVIOUS
  <2>. QED  BY <2>1, ConcatProperties, LenProperties DEF PushedFront
<1>. HIDE DEF p
<1>2. DOMAIN list = 1 .. n /\ DOMAIN p = 1 .. n + 1 /\ n \in Nat
  BY <1>1, LenProperties
<1>3. IsInjective(p)
  <2>1. SUFFICES ASSUME NEW a \in 1 .. n + 1, NEW b \in 1 .. n + 1, p[a] = p[b]
                 PROVE  a = b
    BY <1>2 DEF IsInjective
  <2>2. \A j \in 2 .. n + 1 : p[j] # e
    BY SMTT(30), <1>1, <1>2 DEF Range
  <2>3. CASE a = 1 \/ b = 1
    BY <1>1, <2>1, <2>2, <2>3
  <2>4. CASE a # 1 /\ b # 1
    <3>1. /\ a - 1 \in 1 .. n /\ p[a] = list[a - 1]
          /\ b - 1 \in 1 .. n /\ p[b] = list[b - 1]
      BY <1>1, <1>2, <2>4
    <3>2. a - 1 = b - 1
      BY <1>2, <2>1, <3>1 DEF IsInjective
    <3>. QED  BY <3>2
  <2>. QED  BY <2>3, <2>4
<1>4. Range(p) \subseteq Range(list) \cup {e}
  BY <1>1, <1>2 DEF Range
<1>5. Range(list) \subseteq Range(p)
  <2>1. SUFFICES ASSUME NEW k \in 1 .. n
                 PROVE  list[k] \in Range(p)
    BY <1>2 DEF Range
  <2>2. k + 1 \in 1 .. n + 1 /\ p[k + 1] = list[k]
    BY <1>1, <1>2
  <2>. QED  BY <2>2, <1>2 DEF Range
<1>6. e \in Range(p)
  BY <1>1, <1>2 DEF Range
<1>. QED  BY <1>1, <1>3, <1>4, <1>5, <1>6 DEF p

\* list.MoveToFront keeps the same elements, each once.
LEMMA MovedToFrontProperties ==
  ASSUME NEW S, NEW list \in Seq(S), IsInjective(list), NEW e \in Range(list)
  PROVE  /\ MovedToFront(list, e) \in Seq(S)
         /\ Len(MovedToFront(list, e)) = Len(list)
         /\ IsInjective(MovedToFront(list, e))
         /\ Range(MovedToFront(list, e)) = Range(list)
<1>1. e \in S
  BY DEF Range
<1>. DEFINE r == Removed(list, e)
<1>2. /\ r \in Seq(S) /\ Len(r) = Len(list) - 1
      /\ IsInjective(r) /\ Range(r) = Range(list) \ {e}
  BY RemovedProperties
<1>3. MovedToFront(list, e) = PushedFront(r, e)
  BY DEF MovedToFront
<1>. HIDE DEF r
<1>4. /\ PushedFront(r, e) \in Seq(S)
      /\ Len(PushedFront(r, e)) = Len(r) + 1
      /\ IsInjective(PushedFront(r, e))
      /\ Range(PushedFront(r, e)) = Range(r) \cup {e}
  BY <1>1, <1>2, PushedFrontProperties
<1>. QED  BY <1>2, <1>3, <1>4, LenProperties

\* evictIfNeeded keeps the first Capacity elements.
LEMMA KeptProperties ==
  ASSUME NEW S, NEW list \in Seq(S), IsInjective(list)
  PROVE  /\ Kept(list) \in Seq(S)
         /\ Len(Kept(list)) <= Capacity
         /\ IsInjective(Kept(list))
         /\ Range(Kept(list)) = {list[j] : j \in {k \in 1 .. Len(list) : k <= Capacity}}
<1>. USE CapacityAssumption
<1>. DEFINE n == Len(list)
            q == Kept(list)
<1>1. DOMAIN list = 1 .. n /\ n \in Nat
  BY LenProperties
<1>2. CASE n > Capacity
  <2>1. /\ q \in Seq(S) /\ Len(q) = Capacity
        /\ \A j \in 1 .. Capacity : q[j] = list[j]
    BY <1>1, <1>2, SubSeqProperties DEF Kept
  <2>2. DOMAIN q = 1 .. Capacity
    BY <2>1, LenProperties
  <2>. HIDE DEF q
  <2>3. IsInjective(q)
    BY <1>1, <1>2, <2>1, <2>2 DEF IsInjective
  <2>4. Range(q) = {list[j] : j \in {k \in 1 .. n : k <= Capacity}}
    BY <1>1, <1>2, <2>1, <2>2 DEF Range
  <2>. QED  BY <2>1, <2>3, <2>4 DEF q
<1>3. CASE ~(n > Capacity)
  <2>1. q = list
    BY <1>3 DEF Kept
  <2>2. Range(list) = {list[j] : j \in {k \in 1 .. n : k <= Capacity}}
    BY <1>1, <1>3 DEF Range
  <2>. QED  BY <1>1, <1>3, <2>1, <2>2
<1>. QED  BY <1>2, <1>3

-----------------------------------------------------------------------------
(* The map and the list together.                                            *)

\* MapListAgree and the types it needs, of any map c and list l.
Agree(c, l) ==
  /\ DOMAIN c \subseteq Uid
  /\ \A u \in DOMAIN c : c[u] \in Entry /\ c[u].key = u /\ c[u].value.uid = u
  /\ l \in Seq(Entry)
  /\ Range(l) = Range(c)
  /\ IsInjective(l)

\* list.Remove(c[u]) and delete(c, u), as GetOrder, RemoveOrder and
\* cleanupExpired do them, keep the two in agreement.
LEMMA DropAgrees ==
  ASSUME NEW c, NEW l, Agree(c, l), NEW u \in DOMAIN c
  PROVE  /\ Agree(Restrict(c, DOMAIN c \ {u}), Removed(l, c[u]))
         /\ Len(Removed(l, c[u])) = Len(l) - 1
<1>. DEFINE d == Restrict(c, DOMAIN c \ {u})
            r == Removed(l, c[u])
<1>1. c[u] \in Range(l)
  BY DEF Agree, Range
<1>2. /\ r \in Seq(Entry) /\ Len(r) = Len(l) - 1
      /\ IsInjective(r) /\ Range(r) = Range(l) \ {c[u]}
  BY <1>1, RemovedProperties DEF Agree
<1>3. DOMAIN d = DOMAIN c \ {u} /\ \A v \in DOMAIN d : d[v] = c[v]
  BY DEF Restrict
<1>4. Range(d) = Range(c) \ {c[u]}
  <2>1. \A v \in DOMAIN c : c[v] = c[u] => v = u
    BY DEF Agree
  <2>. QED  BY <1>3, <2>1 DEF Range
<1>. HIDE DEF d, r
<1>5. Agree(d, r)
  BY <1>2, <1>3, <1>4 DEF Agree
<1>. QED  BY <1>2, <1>5 DEF d, r

\* SaveOrder up to the eviction: drop the old element of the key, if any, push
\* the new one and write the map.
LEMMA PushAgrees ==
  ASSUME NEW c, NEW l, Agree(c, l),
         NEW ent \in Entry, ent.value.uid = ent.key
  PROVE  LET dropped == IF ent.key \in DOMAIN c
                        THEN Removed(l, c[ent.key]) ELSE l
             pushed == PushedFront(dropped, ent)
             mapped == [u \in DOMAIN c \cup {ent.key} |->
                          IF u = ent.key THEN ent ELSE c[u]]
         IN  Agree(mapped, pushed) /\ Len(pushed) \in Nat \ {0} /\ pushed[1] = ent
<1>. DEFINE rest == Restrict(c, DOMAIN c \ {ent.key})
            dropped == IF ent.key \in DOMAIN c
                       THEN Removed(l, c[ent.key]) ELSE l
            pushed == PushedFront(dropped, ent)
            mapped == [u \in DOMAIN c \cup {ent.key} |->
                         IF u = ent.key THEN ent ELSE c[u]]
<1>1. Agree(rest, dropped)
  <2>1. CASE ent.key \in DOMAIN c
    BY <2>1, DropAgrees
  <2>2. CASE ent.key \notin DOMAIN c
    <3>1. \A u \in DOMAIN c : rest[u] = c[u]
      BY <2>2 DEF Restrict
    <3>2. DOMAIN rest = DOMAIN c
      BY <2>2 DEF Restrict
    <3>3. Range(rest) = Range(c)
      BY <3>1, <3>2 DEF Range
    <3>. QED  BY <2>2, <3>1, <3>2, <3>3 DEF Agree
  <2>. QED  BY <2>1, <2>2
<1>2. /\ DOMAIN rest = DOMAIN c \ {ent.key}
      /\ \A u \in DOMAIN rest : rest[u] = c[u]
  BY DEF Restrict
<1>. HIDE DEF rest, dropped
<1>3. ent \notin Range(dropped)
  <2>1. \A u \in DOMAIN rest : rest[u] # ent
    BY <1>1, <1>2 DEF Agree
  <2>. QED  BY <1>1, <2>1 DEF Agree, Range
<1>4. /\ pushed \in Seq(Entry) /\ IsInjective(pushed) /\ pushed[1] = ent
      /\ Range(pushed) = Range(dropped) \cup {ent}
      /\ Len(pushed) = Len(dropped) + 1
  BY <1>1, <1>3, PushedFrontProperties DEF Agree
<1>5. Len(dropped) \in Nat
  BY <1>1, LenProperties DEF Agree
<1>. HIDE DEF pushed
<1>6. /\ DOMAIN mapped = DOMAIN rest \cup {ent.key}
      /\ mapped[ent.key] = ent
      /\ \A u \in DOMAIN rest : mapped[u] = rest[u]
  BY <1>2
<1>. HIDE DEF mapped
<1>7. Range(mapped) = Range(rest) \cup {ent}
  BY <1>6 DEF Range
<1>8. DOMAIN mapped \subseteq Uid
  BY <1>1, <1>6 DEF Agree, Entry
<1>9. \A u \in DOMAIN mapped :
        mapped[u] \in Entry /\ mapped[u].key = u /\ mapped[u].value.uid = u
  BY <1>1, <1>6 DEF Agree
<1>10. Agree(mapped, pushed)
  BY <1>1, <1>4, <1>7, <1>8, <1>9 DEF Agree
<1>11. Agree(mapped, pushed) /\ Len(pushed) \in Nat \ {0} /\ pushed[1] = ent
  BY <1>4, <1>5, <1>10
<1>. QED  BY <1>11 DEF mapped, pushed, dropped

\* evictIfNeeded keeps map and list in agreement, and keeps the newest entry.
LEMMA EvictAgrees ==
  ASSUME NEW c, NEW l, Agree(c, l), Len(l) # 0
  PROVE  /\ Agree(Restrict(c, DOMAIN c \ EvictedKeys(l)), Kept(l))
         /\ Len(Kept(l)) <= Capacity
         /\ l[1].key \in DOMAIN c \ EvictedKeys(l)
<1>. USE CapacityAssumption
<1>. DEFINE n == Len(l)
            left == Restrict(c, DOMAIN c \ EvictedKeys(l))
<1>1. DOMAIN l = 1 .. n /\ n \in Nat \ {0}
  BY LenProperties DEF Agree
<1>2. ASSUME NEW j \in 1 .. n
      PROVE  \E u \in DOMAIN c : c[u] = l[j]
  <2>1. l[j] \in Range(l)
    BY <1>1 DEF Range
  <2>2. l[j] \in Range(c)
    BY <2>1 DEF Agree
  <2>. QED  BY <2>2 DEF Range
<1>3. ASSUME NEW u \in DOMAIN c
      PROVE  \E j \in 1 .. n : l[j] = c[u]
  <2>1. c[u] \in Range(c)
    BY DEF Range
  <2>2. c[u] \in Range(l)
    BY <2>1 DEF Agree
  <2>. QED  BY <1>1, <2>2 DEF Range
<1>4. /\ Kept(l) \in Seq(Entry) /\ IsInjective(Kept(l)) /\ Len(Kept(l)) <= Capacity
      /\ Range(Kept(l)) = {l[j] : j \in {k \in 1 .. n : k <= Capacity}}
  BY KeptProperties DEF Agree
\* An element's key is dropped from the map exactly when its place is.
<1>5. ASSUME NEW j \in 1 .. n
      PROVE  l[j].key \in EvictedKeys(l) <=> j > Capacity
  <2>1. ASSUME NEW k \in 1 .. n, l[k].key = l[j].key
        PROVE  k = j
    <3>1. l[k] = l[j]
      BY <1>2, <2>1 DEF Agree
    <3>. QED  BY <1>1, <3>1 DEF Agree, IsInjective
  <2>2. EvictedKeys(l) = {l[k].key : k \in Capacity + 1 .. n}
    BY DEF EvictedKeys
  <2>3. \A k \in Capacity + 1 .. n : k \in 1 .. n /\ k > Capacity
    BY <1>1
  <2>4. j > Capacity => j \in Capacity + 1 .. n
    BY <1>1
  <2>. QED  BY <2>1, <2>2, <2>3, <2>4
<1>6. l[1].key \in DOMAIN c \ EvictedKeys(l)
  <2>1. l[1].key \notin EvictedKeys(l)
    BY <1>1, <1>5
  <2>2. l[1].key \in DOMAIN c
    BY <1>1, <1>2 DEF Agree
  <2>. QED  BY <2>1, <2>2
<1>7. /\ DOMAIN left = DOMAIN c \ EvictedKeys(l)
      /\ \A u \in DOMAIN left : left[u] = c[u]
  BY DEF Restrict
<1>. HIDE DEF left
<1>8. ASSUME NEW u \in DOMAIN left
      PROVE  left[u] \in Range(Kept(l))
  <2>1. PICK j \in 1 .. n : l[j] = c[u]
    BY <1>3, <1>7
  <2>2. j <= Capacity
    <3>1. l[j].key = u
      BY <1>7, <2>1 DEF Agree
    <3>. QED  BY <1>1, <1>5, <1>7, <3>1
  <2>. QED  BY <1>4, <1>7, <2>1, <2>2
<1>9. ASSUME NEW j \in 1 .. n, j <= Capacity
      PROVE  l[j] \in Range(left)
  <2>1. PICK u \in DOMAIN c : c[u] = l[j]
    BY <1>2
  <2>2. u \notin EvictedKeys(l)
    <3>1. l[j].key = u
      BY <2>1 DEF Agree
    <3>. QED  BY <1>1, <1>5, <1>9, <3>1
  <2>. QED  BY <1>7, <2>1, <2>2 DEF Range
<1>10. Range(left) = Range(Kept(l))
  <2>1. Range(left) \subseteq Range(Kept(l))
    BY <1>8 DEF Range
  <2>2. Range(Kept(l)) \subseteq Range(left)
    BY <1>4, <1>9
  <2>. QED  BY <2>1, <2>2
<1>11. Agree(left, Kept(l))
  BY <1>4, <1>7, <1>10 DEF Agree
<1>. QED  BY <1>4, <1>6, <1>11 DEF left

-----------------------------------------------------------------------------
(* The inductive invariant. WithinCapacity needs MapListAgree (an element    *)
(* that the map lost would stay in the list); CollectedStillExpired needs    *)
(* that nothing but cleanupExpired itself runs while it holds the mutex, and *)
(* that it starts and ends with nothing left to remove.                      *)
KeysHeldByCleanup == locked \/ keysToRemove = {}

IInv ==
  /\ TypeOK
  /\ MapListAgree
  /\ WithinCapacity
  /\ CollectedStillExpired
  /\ KeysHeldByCleanup

\* The data part of the invariant, in the form the lemmas use.
LEMMA AgreeForm ==
  ASSUME TypeOK, MapListAgree
  PROVE  Agree(cache, lruList)
BY DEF TypeOK, MapListAgree, Agree

\* The same after a step.
LEMMA AgreeFormNext ==
  ASSUME Agree(cache', lruList'),
         (keysToRemove \subseteq Uid)',
         (locked \in BOOLEAN)',
         (cleaner \in {"running", "stopped"})',
         (stopCh \in {"open", "closing", "closed"})',
         (now \in Nat)'
  PROVE  TypeOK' /\ MapListAgree'
BY DEF TypeOK, MapListAgree, Agree

\* A new cache is empty, so the map and the list agree.
LEMMA InitIInv == Init => IInv
<1>. SUFFICES ASSUME Init PROVE IInv
  OBVIOUS
<1>1. /\ DOMAIN cache = {} /\ lruList = << >> /\ Range(lruList) = {} /\ Range(cache) = {}
      /\ IsInjective(lruList) /\ Len(lruList) = 0
  BY DEF Init, EmptyCache, Range, IsInjective
<1>2. TypeOK
  <2>1. lruList \in Seq(Entry)
    BY <1>1
  <2>2. cleaner \in {"running", "stopped"}
    BY DEF Init
  <2>. QED  BY <1>1, <2>1, <2>2 DEF Init, TypeOK
<1>. QED  BY <1>1, <1>2, CapacityAssumption
       DEF Init, IInv, MapListAgree, WithinCapacity, CollectedStillExpired, KeysHeldByCleanup

\* Every operation, each under its lock, and each step of the cleaner keeps
\* the map and the list in agreement.
LEMMA NextIInv == IInv /\ [Next]_vars => IInv'
<1>. SUFFICES ASSUME IInv, [Next]_vars PROVE IInv'
  OBVIOUS
<1>. USE CapacityAssumption, TTLAssumption, MaxTimeAssumption
<1>0. /\ TypeOK /\ MapListAgree /\ WithinCapacity
      /\ CollectedStillExpired /\ KeysHeldByCleanup
      /\ Agree(cache, lruList)
  BY AgreeForm DEF IInv
<1>1. CASE Tick
  <2>1. CollectedStillExpired'
    <3>1. \A u \in DOMAIN cache : cache[u].exp \in Nat /\ now \in Nat
      BY <1>0 DEF TypeOK, Entry
    <3>. QED  BY <1>0, <1>1, <3>1 DEF Tick, CollectedStillExpired, Expired
  <2>. QED  BY <1>0, <1>1, <2>1 DEF Tick, IInv, TypeOK, MapListAgree, WithinCapacity,
              KeysHeldByCleanup
<1>2. ASSUME NEW order \in Order, SaveOrder(order)
      PROVE  IInv'
  <2>. DEFINE ent == [key |-> order.uid, value |-> order, exp |-> now + TTL]
              dropped == IF ent.key \in DOMAIN cache
                         THEN Removed(lruList, cache[ent.key]) ELSE lruList
              pushed == PushedFront(dropped, ent)
              mapped == [u \in DOMAIN cache \cup {ent.key} |->
                           IF u = ent.key THEN ent ELSE cache[u]]
  <2>1. ent \in Entry /\ ent.value.uid = ent.key /\ ent.key = order.uid
    BY <1>0 DEF TypeOK, Entry, Order
  <2>2. /\ lruList' = Kept(pushed)
        /\ cache' = Restrict(mapped, DOMAIN mapped \ EvictedKeys(pushed))
        /\ UNCHANGED <<keysToRemove, locked, cleaner, stopCh, now>>
        /\ keysToRemove = {}
    BY <1>0, <1>2 DEF SaveOrder, MutexFree, KeysHeldByCleanup
  <2>. HIDE DEF ent
  <2>3. Agree(mapped, pushed) /\ Len(pushed) # 0
    BY <1>0, <2>1, PushAgrees
  <2>. HIDE DEF mapped, pushed
  <2>4. Agree(cache', lruList') /\ Len(lruList') <= Capacity
    BY <2>2, <2>3, EvictAgrees
  <2>5. TypeOK' /\ MapListAgree'
    BY <1>0, <2>2, <2>4, AgreeFormNext DEF TypeOK
  <2>. QED  BY <2>2, <2>4, <2>5
         DEF IInv, WithinCapacity, CollectedStillExpired, KeysHeldByCleanup, Expired
\* The three methods that may take one entry out of both structures.
<1>3. ASSUME NEW uid \in DOMAIN cache,
             lruList' = Removed(lruList, cache[uid]),
             cache' = Restrict(cache, DOMAIN cache \ {uid}),
             keysToRemove' \subseteq keysToRemove \ {uid},
             KeysHeldByCleanup',
             UNCHANGED <<locked, cleaner, stopCh, now>>
      PROVE  IInv'
  <2>1. Agree(cache', lruList') /\ Len(lruList') = Len(lruList) - 1
    BY <1>0, <1>3, DropAgrees
  <2>2. TypeOK' /\ MapListAgree'
    BY <1>0, <1>3, <2>1, AgreeFormNext DEF TypeOK
  <2>3. /\ DOMAIN cache' = DOMAIN cache \ {uid}
        /\ \A u \in DOMAIN cache' : cache'[u] = cache[u]
    BY <1>3 DEF Restrict
  <2>4. WithinCapacity'
    BY <1>0, <2>1, LenProperties DEF WithinCapacity, Agree
  <2>5. CollectedStillExpired'
    BY <1>0, <1>3, <2>3 DEF CollectedStillExpired, Expired
  <2>. QED  BY <1>3, <2>2, <2>4, <2>5 DEF IInv
<1>4. ASSUME NEW uid \in Uid, GetOrder(uid)
      PROVE  IInv'
  <2>1. keysToRemove = {} /\ UNCHANGED <<keysToRemove, locked, cleaner, stopCh, now>>
    BY <1>0, <1>4 DEF GetOrder, MutexFree, KeysHeldByCleanup
  <2>2. CASE uid \notin DOMAIN cache
    <3>1. UNCHANGED <<cache, lruList>>
      BY <1>4, <2>2 DEF GetOrder
    <3>. QED  BY <1>0, <2>1, <3>1 DEF IInv, TypeOK, MapListAgree, WithinCapacity,
                CollectedStillExpired, KeysHeldByCleanup, Expired
  <2>3. CASE uid \in DOMAIN cache /\ Expired(cache[uid])
    <3>1. /\ lruList' = Removed(lruList, cache[uid])
          /\ cache' = Restrict(cache, DOMAIN cache \ {uid})
      BY <1>4, <2>3 DEF GetOrder
    <3>. QED  BY <1>3, <2>1, <2>3, <3>1 DEF KeysHeldByCleanup
  <2>4. CASE uid \in DOMAIN cache /\ ~Expired(cache[uid])
    <3>1. lruList' = MovedToFront(lruList, cache[uid]) /\ UNCHANGED cache
      BY <1>4, <2>4 DEF GetOrder
    <3>2. cache[uid] \in Range(lruList)
      BY <1>0, <2>4 DEF MapListAgree, Range
    <3>3. Agree(cache', lruList') /\ Len(lruList') = Len(lruList)
      BY <1>0, <3>1, <3>2, MovedToFrontProperties DEF Agree
    <3>4. TypeOK' /\ MapListAgree'
      BY <1>0, <2>1, <3>3, AgreeFormNext DEF TypeOK
    <3>. QED  BY <1>0, <2>1, <3>1, <3>3, <3>4
           DEF IInv, WithinCapacity, CollectedStillExpired, KeysHeldByCleanup, Expired
  <2>. QED  BY <2>2, <2>3, <2>4
<1>5. ASSUME NEW uid \in Uid, RemoveOrder(uid)
      PROVE  IInv'
  <2>1. keysToRemove = {} /\ UNCHANGED <<keysToRemove, locked, cleaner, stopCh, now>>
    BY <1>0, <1>5 DEF RemoveOrder, MutexFree, KeysHeldByCleanup
  <2>2. CASE uid \in DOMAIN cache
    <3>1. /\ lruList' = Removed(lruList, cache[uid])
          /\ cache' = Restrict(cache, DOMAIN cache \ {uid})
      BY <1>5, <2>2 DEF RemoveOrder
    <3>. QED  BY <1>3, <2>1, <2>2, <3>1 DEF KeysHeldByCleanup
  <2>3. CASE uid \notin DOMAIN cache
    <3>1. UNCHANGED <<cache, lruList>>
      BY <1>5, <2>3 DEF RemoveOrder
    <3>. QED  BY <1>0, <2>1, <3>1 DEF IInv, TypeOK, MapListAgree, WithinCapacity,
                CollectedStillExpired, KeysHeldByCleanup, Expired
  <2>. QED  BY <2>2, <2>3
\* Clear, alone or at the end of Close.
<1>6. ASSUME cache' = EmptyCache, lruList' = << >>, MutexFree,
             stopCh' \in {"open", "closing", "closed"},
             UNCHANGED <<keysToRemove, locked, cleaner, now>>
      PROVE  IInv'
  <2>1. /\ DOMAIN cache' = {} /\ Range(lruList') = {} /\ Range(cache') = {}
        /\ IsInjective(lruList') /\ Len(lruList') = 0 /\ lruList' \in Seq(Entry)
    BY <1>6 DEF EmptyCache, Range, IsInjective
  <2>2. Agree(cache', lruList')
    BY <2>1 DEF Agree
  <2>3. TypeOK' /\ MapListAgree'
    BY <1>0, <1>6, <2>2, AgreeFormNext DEF TypeOK
  <2>4. keysToRemove' = {}
    BY <1>0, <1>6 DEF MutexFree, KeysHeldByCleanup
  <2>. QED  BY <2>1, <2>3, <2>4
         DEF IInv, WithinCapacity, CollectedStillExpired, KeysHeldByCleanup, Expired
<1>7. CASE Clear
  BY <1>0, <1>6, <1>7 DEF Clear, TypeOK
<1>8. CASE CloseClear
  BY <1>6, <1>8 DEF CloseClear
<1>9. CASE GetAllOrders
  BY <1>0, <1>9 DEF GetAllOrders, IInv, TypeOK, MapListAgree, WithinCapacity,
       CollectedStillExpired, KeysHeldByCleanup, Expired
<1>10. CASE CloseStop
  BY <1>0, <1>10 DEF CloseStop, IInv, TypeOK, MapListAgree, WithinCapacity,
       CollectedStillExpired, KeysHeldByCleanup, Expired
<1>11. CASE CleanupStart
  <2>1. \A u \in Collected : u \in DOMAIN cache /\ Expired(cache[u])
    BY DEF Collected
  <2>2. Collected \subseteq Uid
    BY <1>0, <2>1 DEF TypeOK
  <2>. QED  BY <1>0, <1>11, <2>1, <2>2 DEF CleanupStart, IInv, TypeOK, MapListAgree,
              WithinCapacity, CollectedStillExpired, KeysHeldByCleanup, Expired
<1>12. CASE CleanerReturn
  BY <1>0, <1>12 DEF CleanerReturn, IInv, TypeOK, MapListAgree, WithinCapacity,
       CollectedStillExpired, KeysHeldByCleanup, Expired
<1>13. CASE CleanupEnd
  BY <1>0, <1>13 DEF CleanupEnd, IInv, TypeOK, MapListAgree, WithinCapacity,
       CollectedStillExpired, KeysHeldByCleanup, Expired
<1>14. ASSUME NEW key \in Uid, CleanupRemove(key)
       PROVE  IInv'
  <2>1. key \in DOMAIN cache
    BY <1>0, <1>14 DEF CleanupRemove, CollectedStillExpired
  <2>. QED  BY <1>3, <1>14, <2>1 DEF CleanupRemove, KeysHeldByCleanup
<1>15. CASE UNCHANGED vars
  BY <1>0, <1>15 DEF vars, IInv, TypeOK, MapListAgree, WithinCapacity,
       CollectedStillExpired, KeysHeldByCleanup, Expired
<1>. QED  BY <1>1, <1>2, <1>4, <1>5, <1>7, <1>8, <1>9, <1>10, <1>11, <1>12,
            <1>13, <1>14, <1>15 DEF Next

\* Every state variable keeps the shape the methods assume.
THEOREM TypeCorrect == Spec => []TypeOK
<1>1. IInv => TypeOK
  BY DEF IInv
<1>. QED  BY <1>1, InitIInv, NextIInv, PTL DEF Spec

\* The map and the list hold the same entries, each once, after any sequence
\* of calls and cleanups.
THEOREM MapAndListAgree == Spec => []MapListAgree
<1>1. IInv => MapListAgree
  BY DEF IInv
<1>. QED  BY <1>1, InitIInv, NextIInv, PTL DEF Spec

\* The cache never holds more than capacity entries between two calls.
THEOREM CapacityRespected == Spec => []WithinCapacity
<1>1. IInv => WithinCapacity
  BY DEF IInv
<1>. QED  BY <1>1, InitIInv, NextIInv, PTL DEF Spec

\* cleanupExpired never reaches a key that has left the map or been saved anew.
THEOREM CleanupDropsOnlyExpired == Spec => []CollectedStillExpired
<1>1. IInv => CollectedStillExpired
  BY DEF IInv
<1>. QED  BY <1>1, InitIInv, NextIInv, PTL DEF Spec

-----------------------------------------------------------------------------
(* Refinement: each step is a step of CacheContract on the visible store, or *)
(* leaves both the visible store and the reply alone.                        *)

\* A step that drops no more than entries from the visible store, with no
\* answer to anyone, is the contract's Forget.
LEMMA ShrinkIsForget ==
  ASSUME reply' = reply,
         DOMAIN Visible' \subseteq DOMAIN Visible,
         \A u \in DOMAIN Visible' : Visible'[u] = Visible[u]
  PROVE  Contract!Forget
<1>. DEFINE kept == DOMAIN Visible'
<1>1. Visible' = [u \in kept |-> Visible'[u]]
  BY DEF Visible
<1>2. Visible' = Restrict(Visible, kept)
  BY <1>1 DEF Restrict
<1>. QED  BY <1>2 DEF Contract!Forget, Contract!Restrict, Restrict

\* The visible store depends on the map and the clock alone.
LEMMA VisibleUnchanged ==
  ASSUME UNCHANGED <<cache, now>>
  PROVE  Visible' = Visible
BY DEF Visible, Expired

\* What the contract's cache holds: the entries that have not expired.
LEMMA VisibleValues ==
  /\ DOMAIN Visible = {u \in DOMAIN cache : ~(now > cache[u].exp)}
  /\ \A u \in DOMAIN Visible : Visible[u] = cache[u].value
BY DEF Visible, Expired

\* The same after a step.
LEMMA VisibleValuesNext ==
  /\ DOMAIN Visible' = {u \in DOMAIN cache' : ~(now' > cache'[u].exp)}
  /\ \A u \in DOMAIN Visible' : Visible'[u] = cache'[u].value
BY DEF Visible, Expired

\* delete(cache, uid), as a removal, and of an entry nobody could see.
LEMMA DropVisible ==
  ASSUME NEW uid, cache' = Restrict(cache, DOMAIN cache \ {uid}), now' = now
  PROVE  /\ Visible' = Restrict(Visible, DOMAIN Visible \ {uid})
         /\ uid \notin DOMAIN Visible => Visible' = Visible
<1>1. /\ DOMAIN cache' = DOMAIN cache \ {uid}
      /\ \A u \in DOMAIN cache' : cache'[u] = cache[u]
  BY DEF Restrict
<1>2. /\ DOMAIN Visible' = DOMAIN Visible \ {uid}
      /\ \A u \in DOMAIN Visible' : Visible'[u] = Visible[u]
  <2>1. ASSUME NEW u
        PROVE  u \in DOMAIN Visible' <=> u \in DOMAIN Visible /\ u # uid
    <3>1. CASE u \in DOMAIN cache'
      BY <1>1, <3>1, VisibleValues, VisibleValuesNext
    <3>2. CASE u \notin DOMAIN cache'
      BY <1>1, <3>2, VisibleValues, VisibleValuesNext
    <3>. QED  BY <3>1, <3>2
  <2>2. DOMAIN Visible' = DOMAIN Visible \ {uid}
    BY <2>1
  <2>3. ASSUME NEW u \in DOMAIN Visible'
        PROVE  Visible'[u] = Visible[u]
    <3>1. Visible'[u] = cache'[u].value /\ u \in DOMAIN cache'
      BY VisibleValuesNext
    <3>2. Visible[u] = cache[u].value
      BY <2>1, VisibleValues
    <3>. QED  BY <1>1, <3>1, <3>2
  <2>. QED  BY <2>2, <2>3
<1>3. /\ Visible' = [u \in DOMAIN Visible' |-> Visible'[u]]
      /\ Visible = [u \in DOMAIN Visible |-> Visible[u]]
  BY DEF Visible
<1>4. Visible' = Restrict(Visible, DOMAIN Visible \ {uid})
  BY <1>2, <1>3 DEF Restrict
<1>. QED  BY <1>2, <1>3, <1>4

\* A new cache is an empty cache of the contract.
LEMMA InitRefines == Init => Contract!Init
<1>. SUFFICES ASSUME Init PROVE Contract!Init
  OBVIOUS
<1>1. {v \in DOMAIN cache : ~Expired(cache[v])} = {}
  BY DEF Init, EmptyCache
<1>2. Visible = [u \in {} |-> {}]
  BY <1>1 DEF Visible
<1>. QED  BY <1>2 DEF Contract!Init, Contract!EmptyStore, Init

\* SaveOrder stores the order, and forgets the evicted ones.
LEMMA SaveRefines ==
  ASSUME IInv, NEW order \in Order, SaveOrder(order)
  PROVE  Contract!SaveOrder(order)
<1>. USE TTLAssumption
<1>. DEFINE ent == [key |-> order.uid, value |-> order, exp |-> now + TTL]
            dropped == IF ent.key \in DOMAIN cache
                       THEN Removed(lruList, cache[ent.key]) ELSE lruList
            pushed == PushedFront(dropped, ent)
            mapped == [u \in DOMAIN cache \cup {ent.key} |->
                         IF u = ent.key THEN ent ELSE cache[u]]
<1>1. /\ ent \in Entry /\ ent.value = order /\ ent.value.uid = ent.key
      /\ ent.key = order.uid /\ ent.exp = now + TTL
      /\ now \in Nat
  BY DEF IInv, TypeOK, Entry, Order
<1>2. /\ cache' = Restrict(mapped, DOMAIN mapped \ EvictedKeys(pushed))
      /\ now' = now
      /\ reply' = [op |-> "save"]
  BY DEF SaveOrder
<1>. HIDE DEF ent
<1>3. Agree(mapped, pushed) /\ Len(pushed) # 0 /\ pushed[1] = ent
  <2>1. Agree(cache, lruList)
    BY AgreeForm DEF IInv
  <2>. QED  BY <1>1, <2>1, PushAgrees
<1>4. ent.key \in DOMAIN mapped \ EvictedKeys(pushed)
  <2>. HIDE DEF mapped, pushed
  <2>. QED  BY <1>3, EvictAgrees
<1>. HIDE DEF pushed
<1>5. /\ DOMAIN cache' \subseteq DOMAIN cache \cup {order.uid}
      /\ order.uid \in DOMAIN cache' /\ cache'[order.uid] = ent
      /\ \A u \in DOMAIN cache' \ {order.uid} : cache'[u] = cache[u]
  BY <1>1, <1>2, <1>4 DEF Restrict
<1>. HIDE DEF mapped
<1>6. /\ order.uid \in DOMAIN Visible' /\ Visible'[order.uid] = order
      /\ DOMAIN Visible' \ {order.uid} \subseteq DOMAIN Visible
      /\ \A u \in DOMAIN Visible' \ {order.uid} : Visible'[u] = Visible[u]
  <2>1. ~(now > now + TTL)
    BY <1>1
  <2>2. order.uid \in DOMAIN Visible' /\ Visible'[order.uid] = order
    <3>1. ~(now' > cache'[order.uid].exp) /\ cache'[order.uid].value = order
      BY <1>1, <1>2, <1>5, <2>1
    <3>2. order.uid \in DOMAIN Visible'
      BY <1>5, <3>1, VisibleValuesNext
    <3>. QED  BY <3>1, <3>2, VisibleValuesNext
  <2>3. ASSUME NEW u \in DOMAIN Visible', u # order.uid
        PROVE  u \in DOMAIN Visible /\ Visible'[u] = Visible[u]
    <3>1. u \in DOMAIN cache' /\ ~(now > cache'[u].exp) /\ Visible'[u] = cache'[u].value
      BY <1>2, VisibleValuesNext
    <3>2. u \in DOMAIN cache /\ cache'[u] = cache[u]
      BY <1>5, <2>3, <3>1
    <3>. QED  BY <3>1, <3>2, VisibleValues
  <2>. QED  BY <2>2, <2>3
<1>. DEFINE kept == DOMAIN Visible' \ {order.uid}
            after == [u \in kept \cup {order.uid} |->
                        IF u = order.uid THEN order ELSE Visible[u]]
<1>7. Visible' = [u \in DOMAIN Visible' |-> Visible'[u]]
  BY DEF Visible
<1>8. Visible' = after
  BY <1>6, <1>7
<1>9. kept \in SUBSET DOMAIN Visible
  BY <1>6
<1>10. Visible' \in Contract!AfterSave(Visible, order)
  <2>. HIDE DEF kept
  <2>. QED  BY <1>8, <1>9 DEF Contract!AfterSave
<1>. QED  BY <1>2, <1>10 DEF Contract!SaveOrder

\* GetOrder returns what is stored, or nothing.
LEMMA GetRefines ==
  ASSUME NEW uid \in Uid, GetOrder(uid)
  PROVE  Contract!GetOrder(uid)
<1>1. now' = now
  BY DEF GetOrder
<1>2. CASE uid \notin DOMAIN cache
  <2>1. reply' = [op |-> "miss", uid |-> uid] /\ UNCHANGED <<cache, now>>
    BY <1>1, <1>2 DEF GetOrder
  <2>2. uid \notin DOMAIN Visible
    BY <1>2, VisibleValues
  <2>. QED  BY <2>1, <2>2, VisibleUnchanged DEF Contract!GetOrder
<1>3. CASE uid \in DOMAIN cache /\ Expired(cache[uid])
  <2>1. /\ reply' = [op |-> "miss", uid |-> uid]
        /\ cache' = Restrict(cache, DOMAIN cache \ {uid})
    BY <1>3 DEF GetOrder
  <2>2. uid \notin DOMAIN Visible
    BY <1>3, VisibleValues DEF Expired
  <2>. QED  BY <1>1, <2>1, <2>2, DropVisible DEF Contract!GetOrder
<1>4. CASE uid \in DOMAIN cache /\ ~Expired(cache[uid])
  <2>1. reply' = [op |-> "hit", order |-> cache[uid].value] /\ UNCHANGED <<cache, now>>
    BY <1>1, <1>4 DEF GetOrder
  <2>2. uid \in DOMAIN Visible /\ Visible[uid] = cache[uid].value
    BY <1>4, VisibleValues DEF Expired
  <2>. QED  BY <2>1, <2>2, VisibleUnchanged DEF Contract!GetOrder
<1>. QED  BY <1>2, <1>3, <1>4

\* RemoveOrder forgets the order.
LEMMA RemoveRefines ==
  ASSUME NEW uid \in Uid, RemoveOrder(uid)
  PROVE  Contract!RemoveOrder(uid)
<1>1. now' = now /\ reply' = [op |-> "remove"]
  BY DEF RemoveOrder
<1>2. cache' = Restrict(cache, DOMAIN cache \ {uid})
      \/ (uid \notin DOMAIN cache /\ cache' = cache)
  BY DEF RemoveOrder
<1>3. CASE cache' = Restrict(cache, DOMAIN cache \ {uid})
  BY <1>1, <1>3, DropVisible DEF Contract!RemoveOrder, Contract!Restrict, Restrict
<1>4. CASE uid \notin DOMAIN cache /\ cache' = cache
  <2>1. Visible' = Visible
    BY <1>1, <1>4, VisibleUnchanged
  <2>2. Visible = Restrict(Visible, DOMAIN Visible \ {uid})
    <3>1. DOMAIN Visible \ {uid} = DOMAIN Visible
      BY <1>4, VisibleValues
    <3>2. Visible = [u \in DOMAIN Visible |-> Visible[u]]
      BY DEF Visible
    <3>. QED  BY <3>1, <3>2 DEF Restrict
  <2>. QED  BY <1>1, <2>1, <2>2 DEF Contract!RemoveOrder, Contract!Restrict, Restrict
<1>. QED  BY <1>2, <1>3, <1>4

\* GetAllOrders returns what is stored.
LEMMA ListRefines ==
  ASSUME IInv, GetAllOrders
  PROVE  Contract!GetAllOrders
<1>. DEFINE part == {u \in DOMAIN cache : now < cache[u].exp}
<1>1. UNCHANGED <<cache, now>> /\ reply' = [op |-> "all", orders |-> {ent.value : ent \in Listed}]
  BY DEF GetAllOrders
<1>2. Listed = {cache[u] : u \in part}
  <2>1. Range(lruList) = {cache[u] : u \in DOMAIN cache}
    BY DEF IInv, MapListAgree, Range
  <2>. QED  BY <2>1 DEF Listed
<1>3. \A u \in part : u \in DOMAIN Visible /\ Visible[u] = cache[u].value
  <2>1. \A u \in DOMAIN cache : cache[u].exp \in Nat /\ now \in Nat
    BY DEF IInv, TypeOK, Entry
  <2>. QED  BY <2>1, VisibleValues
<1>4. {ent.value : ent \in Listed} = {Visible[u] : u \in part}
  BY <1>2, <1>3
<1>5. part \in SUBSET DOMAIN Visible
  BY <1>3
<1>6. Visible' = Visible
  BY <1>1, VisibleUnchanged
<1>. HIDE DEF part
<1>. QED  BY <1>1, <1>4, <1>5, <1>6 DEF Contract!GetAllOrders

\* After Clear, or Close, the contract's cache is empty.
LEMMA ClearedIsEmpty ==
  ASSUME cache' = EmptyCache
  PROVE  Visible' = Contract!EmptyStore
<1>1. {v \in DOMAIN cache' : ~Expired(cache[v])'} = {}
  BY DEF EmptyCache
<1>. QED  BY <1>1 DEF Visible, Contract!EmptyStore

\* Every step is a step of the contract, or none.
LEMMA NextRefines == IInv /\ [Next]_vars => [Contract!Next]_(Contract!vars)
<1>. SUFFICES ASSUME IInv, [Next]_vars
              PROVE  Contract!Next \/ UNCHANGED Contract!vars
  OBVIOUS
<1>1. CASE Tick
  <2>1. cache' = cache /\ now' = now + 1 /\ reply' = reply
    BY <1>1 DEF Tick
  <2>2. \A u \in DOMAIN cache : cache[u].exp \in Nat /\ now \in Nat
    BY DEF IInv, TypeOK, Entry
  <2>3. /\ DOMAIN Visible' \subseteq DOMAIN Visible
        /\ \A u \in DOMAIN Visible' : Visible'[u] = Visible[u]
    BY <2>1, <2>2, VisibleValues, VisibleValuesNext
  <2>. QED  BY <2>1, <2>3, ShrinkIsForget DEF Contract!Next
<1>2. ASSUME NEW order \in Order, SaveOrder(order)
      PROVE  Contract!Next
  <2>1. order \in Contract!Order
    BY DEF Order, Contract!Order
  <2>. QED  BY <1>2, <2>1, SaveRefines DEF Contract!Next
<1>3. ASSUME NEW uid \in Uid, GetOrder(uid)
      PROVE  Contract!Next
  BY <1>3, GetRefines DEF Contract!Next
<1>4. ASSUME NEW uid \in Uid, RemoveOrder(uid)
      PROVE  Contract!Next
  BY <1>4, RemoveRefines DEF Contract!Next
<1>5. CASE Clear
  BY <1>5, ClearedIsEmpty DEF Clear, Contract!Clear, Contract!Next
<1>6. CASE GetAllOrders
  BY <1>6, ListRefines DEF Contract!Next
<1>7. CASE CloseClear
  BY <1>7, ClearedIsEmpty DEF CloseClear, Contract!Close, Contract!Next
<1>8. CASE CloseStop \/ CleanupStart \/ CleanerReturn \/ CleanupEnd \/ UNCHANGED vars
  <2>1. UNCHANGED <<cache, now, reply>>
    BY <1>8 DEF CloseStop, CleanupStart, CleanerReturn, CleanupEnd, vars
  <2>. QED  BY <2>1, VisibleUnchanged DEF Contract!vars
<1>9. ASSUME NEW key \in Uid, CleanupRemove(key)
      PROVE  Contract!Next
  <2>1. /\ cache' = Restrict(cache, DOMAIN cache \ {key})
        /\ now' = now /\ reply' = reply
    BY <1>9 DEF CleanupRemove
  <2>2. Visible' = Restrict(Visible, DOMAIN Visible \ {key})
    BY <2>1, DropVisible
  <2>3. DOMAIN Visible \ {key} \in SUBSET DOMAIN Visible
    OBVIOUS
  <2>. QED  BY <2>1, <2>2, <2>3 DEF Contract!Forget, Contract!Next, Contract!Restrict, Restrict
<1>. QED  BY <1>1, <1>2, <1>3, <1>4, <1>5, <1>6, <1>7, <1>8, <1>9 DEF Next

\* The in-memory cache implements the Cache interface for every capacity and
\* TTL: eviction, expiry, the cleanup goroutine and Close are invisible but
\* for orders being forgotten.
THEOREM CacheImplementsContract == Spec => ImplementsContract
<1>. QED  BY InitIInv, NextIInv, InitRefines, NextRefines, PTL
       DEF Spec, ImplementsContract, Contract!Spec
=============================================================================
