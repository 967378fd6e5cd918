-------------------------- MODULE RedisCacheProofs --------------------------
(* What a Clear and a listing of RedisCache promise, for any number of       *)
(* orders, callers and failures.                                             *)
EXTENDS MCRedisCache, TLAPS

\* What a Clear has not deleted of the orders that have been there all along,
\* its page holds or its cursor has still to reach.
ClearReaches ==
  \A c \in Caller : call[c].op = "clear" =>
    steady[c] \subseteq call[c].todo \cup call[c].ahead

\* What a listing has not read of them, it is going to; and what it has read
\* was there when it read it.
ListReaches ==
  \A c \in Caller : call[c].op = "list" =>
    /\ steady[c] \subseteq call[c].todo \cup {order.uid : order \in call[c].found}
    /\ call[c].found \subseteq seen[c]
    /\ Range(keys) \subseteq seen[c]

IInv == TypeOK /\ ClearReaches /\ ListReaches

-----------------------------------------------------------------------------
\* The steps of a loop are calls again.
LEMMA CallTypes ==
  /\ NoCall \in Call
  /\ \A todo, ahead \in SUBSET Uid : Clearing(todo, ahead) \in Call
  /\ \A todo \in SUBSET Uid, found \in SUBSET Order : Listing(todo, found) \in Call
BY DEF NoCall, Clearing, Listing, At, Call

\* DEL and expiry take one key away and leave the others as they are.
LEMMA WithoutIsLess ==
  \A u : /\ DOMAIN Without(u) = DOMAIN keys \ {u}
         /\ \A v \in DOMAIN Without(u) : Without(u)[v] = keys[v]
BY DEF Without, Restrict

\* Every step keeps the types of the keys and of the calls.
LEMMA TypeKept == TypeOK /\ [MCNext]_allVars => TypeOK'
<1>. SUFFICES ASSUME TypeOK, [MCNext]_allVars  PROVE TypeOK'
  OBVIOUS
<1>. USE MaxFailuresAssumption
<1>1. CASE NewRedisCache \/ Close
  BY <1>1 DEF NewRedisCache, Close, TypeOK
<1>2. CASE ProcessEnds
  BY <1>2, CallTypes DEF ProcessEnds, TypeOK
<1>3. ASSUME NEW order \in Order, SaveOrder(order)  PROVE TypeOK'
  <2>1. order.uid \in Uid
    BY DEF Order
  <2>2. /\ DOMAIN keys' = DOMAIN keys \cup {order.uid}
        /\ \A u \in DOMAIN keys' : keys'[u] = IF u = order.uid THEN order ELSE keys[u]
    BY <1>3 DEF SaveOrder, AfterSet
  <2>3. \A u \in DOMAIN keys' : keys'[u] \in Order /\ keys'[u].uid = u
    BY <2>2 DEF TypeOK
  <2>. QED  BY <1>3, <2>1, <2>2, <2>3 DEF SaveOrder, TypeOK
<1>4. ASSUME NEW uid \in Uid, RemoveOrder(uid) \/ Expire(uid)  PROVE TypeOK'
  <2>1. keys' = Without(uid) /\ UNCHANGED <<client, call, failures>>
    BY <1>4 DEF RemoveOrder, Expire
  <2>. QED  BY ZenonT(60), <2>1, WithoutIsLess DEF TypeOK
<1>5. ASSUME NEW c \in Caller, Clear(c) \/ GetAllOrders(c)  PROVE TypeOK'
  <2>1. CASE ClearStart(c)
    BY <2>1, CallTypes DEF ClearStart, TypeOK
  <2>2. CASE ScanPage(c)
    <3>1. PICK region \in (SUBSET call[c].ahead) \ {{}} :
            \E page \in Pages(region, Uid \ call[c].ahead) :
              call' = [call EXCEPT ![c] = Clearing(page, call[c].ahead \ region)]
      BY <2>2 DEF ScanPage
    <3>2. PICK page \in Pages(region, Uid \ call[c].ahead) :
            call' = [call EXCEPT ![c] = Clearing(page, call[c].ahead \ region)]
      BY <3>1
    <3>3. page \in SUBSET Uid /\ call[c].ahead \ region \in SUBSET Uid
      BY <3>2 DEF Pages, TypeOK, Call
    <3>. QED  BY <2>2, <3>2, <3>3, CallTypes DEF ScanPage, TypeOK
  <2>3. CASE ClearDelete(c)
    <3>1. PICK u \in call[c].todo :
            /\ keys' = Without(u)
            /\ call' = [call EXCEPT ![c] = Clearing(call[c].todo \ {u}, call[c].ahead)]
      BY <2>3 DEF ClearDelete, StillToDo
    <3>2. Clearing(call[c].todo \ {u}, call[c].ahead) \in Call
      BY CallTypes DEF TypeOK, Call
    <3>3. /\ DOMAIN keys' \subseteq Uid
          /\ \A v \in DOMAIN keys' : keys'[v] \in Order /\ keys'[v].uid = v
      BY ZenonT(60), <3>1, WithoutIsLess DEF TypeOK
    <3>4. call' \in [Caller -> Call]
      BY <3>1, <3>2 DEF TypeOK
    <3>. QED  BY <2>3, <3>3, <3>4 DEF ClearDelete, TypeOK
  <2>4. CASE ListStart(c)
    BY <2>4, CallTypes DEF ListStart, TypeOK
  <2>5. CASE ListGet(c)
    <3>1. PICK u \in call[c].todo \cap DOMAIN keys :
            call' = [call EXCEPT ![c] =
                       Listing(call[c].todo \ {u}, call[c].found \cup {keys[u]})]
      BY <2>5 DEF ListGet, StillToDo
    <3>2. Listing(call[c].todo \ {u}, call[c].found \cup {keys[u]}) \in Call
      BY ZenonT(60), CallTypes DEF TypeOK, Call
    <3>. QED  BY <2>5, <3>1, <3>2 DEF ListGet, TypeOK
  <2>6. CASE ClearEnd(c) \/ ListMiss(c) \/ ListEnd(c)
    BY <2>6, CallTypes DEF ClearEnd, ListMiss, ListEnd, Returns, TypeOK
  <2>. QED  BY <1>5, <2>1, <2>2, <2>3, <2>4, <2>5, <2>6 DEF Clear, GetAllOrders
<1>6. ASSUME NEW c \in Caller, CommandFails(c) \/ ClientClosed(c)  PROVE TypeOK'
  BY <1>6, CallTypes DEF CommandFails, ClientClosed, Returns, TypeOK
<1>7. CASE UNCHANGED allVars
  BY <1>7 DEF allVars, TypeOK
<1>. QED
  BY <1>1, <1>2, <1>3, <1>4, <1>5, <1>6, <1>7 DEF MCNext, Next

\* Whatever step is taken, a caller's call ends, or is where it was, or takes
\* one of its own steps.
LEMMA CallMoves ==
  ASSUME TypeOK, MCNext, NEW c \in Caller
  PROVE  \/ call'[c].op = "none" \/ call'[c] = call[c]
         \/ ClearStart(c) \/ ScanPage(c) \/ ClearDelete(c)
         \/ ListStart(c) \/ ListGet(c)
<1>1. NoCall.op = "none"
  BY DEF NoCall, At
<1>2. CASE UNCHANGED call \/ call' = [d \in Caller |-> NoCall]
  BY <1>1, <1>2
<1>3. ASSUME NEW d \in Caller, Clear(d) \/ GetAllOrders(d), d # c
      PROVE  call'[c] = call[c]
  BY <1>3 DEF Clear, GetAllOrders, ClearStart, ScanPage, ClearDelete, ClearEnd,
              ListStart, ListGet, ListMiss, ListEnd, Returns, TypeOK
<1>4. ASSUME NEW d \in Caller,
             ClearEnd(d) \/ ListMiss(d) \/ ListEnd(d)
               \/ CommandFails(d) \/ ClientClosed(d)
      PROVE  call'[c] = NoCall \/ call'[c] = call[c]
  BY <1>4 DEF ClearEnd, ListMiss, ListEnd, CommandFails, ClientClosed, Returns,
              TypeOK
<1>5. \/ UNCHANGED call \/ call' = [d \in Caller |-> NoCall]
      \/ \E d \in Caller : \/ Clear(d) \/ GetAllOrders(d)
                            \/ CommandFails(d) \/ ClientClosed(d)
  BY DEF MCNext, Next, NewRedisCache, Close, ProcessEnds, SaveOrder,
         RemoveOrder, Expire
<1>. QED  BY <1>1, <1>2, <1>3, <1>4, <1>5 DEF Clear, GetAllOrders

\* The history variables at the end of a step, for a call that has not ended.
LEMMA HistoryMoves ==
  ASSUME MCNext, NEW c \in Caller
  PROVE  /\ call'[c].op # "none" =>
              steady'[c] = (IF AtRest(c) THEN DOMAIN keys ELSE steady[c])
                             \cap DOMAIN keys'
         /\ call'[c].op = "list" =>
              seen'[c] = (IF AtRest(c) THEN Range(keys) ELSE seen[c])
                           \cup Range(keys')
BY DEF MCNext

\* The pages of a Clear together cover what has been there all along.
LEMMA ClearReachesKept == IInv /\ [MCNext]_allVars => ClearReaches'
<1>1. CASE UNCHANGED allVars
  BY <1>1 DEF allVars, IInv, ClearReaches
<1>2. ASSUME IInv, MCNext, NEW c \in Caller, call'[c].op = "clear"
      PROVE  steady'[c] \subseteq call'[c].todo \cup call'[c].ahead
  <2>. DEFINE s == (IF AtRest(c) THEN DOMAIN keys ELSE steady[c]) \cap DOMAIN keys'
  <2>1. steady'[c] = s
    BY <1>2, HistoryMoves
  <2>2. call[c] \in Call /\ DOMAIN keys \subseteq Uid
    BY <1>2 DEF IInv, TypeOK
  <2>3. CASE call'[c] = call[c]
    BY <1>2, <2>1, <2>3 DEF IInv, ClearReaches, AtRest
  <2>4. CASE ClearStart(c)
    <3>1. call'[c] = Clearing({}, Uid) /\ AtRest(c)
      BY <1>2, <2>4 DEF ClearStart, InCall, AtRest, IInv, TypeOK
    <3>. QED  BY <2>1, <2>2, <3>1 DEF Clearing, At
  <2>5. CASE ScanPage(c)
    <3>1. PICK region \in (SUBSET call[c].ahead) \ {{}} :
            \E page \in Pages(region, Uid \ call[c].ahead) :
              call' = [call EXCEPT ![c] = Clearing(page, call[c].ahead \ region)]
      BY <2>5 DEF ScanPage
    <3>2. PICK page \in Pages(region, Uid \ call[c].ahead) :
            call' = [call EXCEPT ![c] = Clearing(page, call[c].ahead \ region)]
      BY <3>1
    <3>3. region \cap DOMAIN keys \subseteq page
      BY <3>2 DEF Pages
    <3>4. call'[c].todo = page /\ call'[c].ahead = call[c].ahead \ region
      BY <1>2, <3>2 DEF Clearing, At, IInv, TypeOK
    <3>5. ~AtRest(c) /\ keys' = keys /\ steady[c] \subseteq call[c].ahead
      BY <1>2, <2>5 DEF ScanPage, InCall, AtRest, IInv, ClearReaches
    <3>. QED  BY <2>1, <3>3, <3>4, <3>5
  <2>6. CASE ClearDelete(c)
    <3>1. PICK u \in call[c].todo :
            /\ keys' = Without(u)
            /\ call' = [call EXCEPT ![c] = Clearing(call[c].todo \ {u}, call[c].ahead)]
      BY <2>6 DEF ClearDelete, StillToDo
    <3>2. call'[c].todo = call[c].todo \ {u} /\ call'[c].ahead = call[c].ahead
      BY <1>2, <3>1 DEF Clearing, At, IInv, TypeOK
    <3>3. ~AtRest(c) /\ steady[c] \subseteq call[c].todo \cup call[c].ahead
      BY <1>2, <2>6 DEF ClearDelete, InCall, AtRest, IInv, ClearReaches
    <3>4. u \notin DOMAIN keys'
      BY <3>1, WithoutIsLess
    <3>. QED  BY <2>1, <3>2, <3>3, <3>4
  <2>7. CASE ListStart(c) \/ ListGet(c)
    <3>1. call'[c].op = "list"
      BY <1>2, <2>7 DEF ListStart, ListGet, Listing, At, IInv, TypeOK
    <3>. QED  BY <1>2, <3>1
  <2>. QED  BY <1>2, <2>3, <2>4, <2>5, <2>6, <2>7, CallMoves DEF IInv
<1>. QED  BY <1>1, <1>2 DEF ClearReaches

\* A listing reads, or has still to read, what has been there all along.
LEMMA ListReachesKept == IInv /\ [MCNext]_allVars => ListReaches'
<1>1. CASE UNCHANGED allVars
  BY <1>1 DEF allVars, IInv, ListReaches
<1>2. ASSUME IInv, MCNext, NEW c \in Caller, call'[c].op = "list"
      PROVE  /\ steady'[c] \subseteq
                  call'[c].todo \cup {order.uid : order \in call'[c].found}
             /\ call'[c].found \subseteq seen'[c]
             /\ Range(keys') \subseteq seen'[c]
  <2>1. /\ steady'[c] = (IF AtRest(c) THEN DOMAIN keys ELSE steady[c])
                           \cap DOMAIN keys'
        /\ seen'[c] = (IF AtRest(c) THEN Range(keys) ELSE seen[c]) \cup Range(keys')
    BY <1>2, HistoryMoves
  <2>2. CASE call'[c] = call[c]
    BY <1>2, <2>1, <2>2 DEF IInv, ListReaches, AtRest
  <2>3. CASE ListStart(c)
    <3>1. call'[c] = Listing(DOMAIN keys, {}) /\ AtRest(c)
      BY <1>2, <2>3 DEF ListStart, InCall, AtRest, IInv, TypeOK
    <3>. QED  BY <2>1, <3>1 DEF Listing, At
  <2>4. CASE ListGet(c)
    <3>1. PICK u \in call[c].todo \cap DOMAIN keys :
            call' = [call EXCEPT ![c] =
                       Listing(call[c].todo \ {u}, call[c].found \cup {keys[u]})]
      BY <2>4 DEF ListGet, StillToDo
    <3>2. /\ call'[c].todo = call[c].todo \ {u}
          /\ call'[c].found = call[c].found \cup {keys[u]}
      BY <1>2, <3>1 DEF Listing, At, IInv, TypeOK
    <3>3. keys[u].uid = u /\ keys[u] \in Range(keys)
      BY <1>2, <3>1 DEF IInv, TypeOK, Range
    <3>4. /\ ~AtRest(c) /\ keys' = keys
          /\ steady[c] \subseteq
               call[c].todo \cup {order.uid : order \in call[c].found}
          /\ call[c].found \subseteq seen[c]
      BY <1>2, <2>4 DEF ListGet, InCall, AtRest, IInv, ListReaches
    <3>5. \A v \in steady[c] :
            v \in call'[c].todo \/ \E order \in call'[c].found : v = order.uid
      BY <3>2, <3>3, <3>4
    <3>. QED  BY <2>1, <3>2, <3>3, <3>4, <3>5
  <2>5. CASE ClearStart(c) \/ ScanPage(c) \/ ClearDelete(c)
    <3>1. call'[c].op = "clear"
      BY <1>2, <2>5
         DEF ClearStart, ScanPage, ClearDelete, Clearing, At, IInv, TypeOK
    <3>. QED  BY <1>2, <3>1
  <2>. QED  BY <1>2, <2>2, <2>3, <2>4, <2>5, CallMoves DEF IInv
<1>. QED  BY <1>1, <1>2 DEF ListReaches

\* IInv holds at the start: nobody is in a call.
LEMMA InitIInv == MCInit => IInv
<1>. SUFFICES ASSUME MCInit  PROVE IInv
  OBVIOUS
<1>1. TypeOK
  BY CallTypes, MaxFailuresAssumption DEF MCInit, Init, TypeOK
<1>2. \A c \in Caller : call[c].op = "none"
  BY DEF MCInit, Init, NoCall, At
<1>. QED  BY <1>1, <1>2 DEF IInv, ClearReaches, ListReaches

\* IInv is inductive.
LEMMA IInvHolds == MCSpec => []IInv
<1>1. IInv /\ [MCNext]_allVars => IInv'
  BY TypeKept, ClearReachesKept, ListReachesKept DEF IInv
<1>. QED  BY <1>1, InitIInv, PTL DEF MCSpec

-----------------------------------------------------------------------------
\* The keys, the client and the calls in progress keep their types.
THEOREM RedisTypeCorrect == MCSpec => []TypeOK
<1>1. IInv => TypeOK
  BY DEF IInv
<1>. QED  BY <1>1, IInvHolds, PTL

\* Clear (redis_cache.go:104): when it returns nil, no order is left that was
\* there before it and has stayed, whatever was saved, removed or expired and
\* however SCAN cut its pages.
THEOREM ClearLeavesNothingOld == MCSpec => ClearedAreGone
<1>1. IInv /\ [MCNext]_allVars =>
        [\A c \in Caller : ClearEnd(c) => steady[c] = {}]_allVars
  BY DEF IInv, ClearReaches, ClearEnd, InCall, ScanDone
<1>. QED  BY <1>1, IInvHolds, PTL DEF MCSpec, ClearedAreGone

\* GetAllOrders (redis_cache.go:123): a listing that is returned holds all
\* that was there throughout, and nothing that was never there meanwhile.
THEOREM ListingIsComplete == MCSpec => ListingComplete
<1>1. IInv /\ [MCNext]_allVars =>
        [\A c \in Caller : ListEnd(c) =>
           /\ steady[c] \subseteq {order.uid : order \in call[c].found}
           /\ call[c].found \subseteq seen[c]]_allVars
  BY DEF IInv, ListReaches, ListEnd, InCall, AllRead
<1>. QED  BY <1>1, IInvHolds, PTL DEF MCSpec, ListingComplete
=============================================================================
