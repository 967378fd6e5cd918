------------------------- MODULE OrderStoreProofs -------------------------
(* OrderService implements OrderStore, for every set of orders, versions and *)
(* items, every bound, either schema of the items table and any columns: the *)
(* statements of AddOrder, the restores, the handlers, the crashes and the   *)
(* restarts are steps of an order's life, or cannot be seen in it.           *)
EXTENDS OrderServiceProofs

-----------------------------------------------------------------------------
(* What the abstract variables are in a state of the service.                *)

\* The orders half written and the whole ones, by the orders table.
LEMMA StoredValues ==
  ASSUME RowsFollowOrders
  PROVE  /\ Half = [u \in DOMAIN orders \ DOMAIN deliveries |-> {orders[u]}]
         /\ Whole = [u \in DOMAIN deliveries |-> {orders[u]}]
BY OneMessage DEF Half, Whole, RowsFollowOrders

\* The same after a step.
LEMMA StoredValuesNext ==
  ASSUME RowsFollowOrders'
  PROVE  /\ Half' = [u \in DOMAIN orders' \ DOMAIN deliveries' |-> {orders'[u]}]
         /\ Whole' = [u \in DOMAIN deliveries' |-> {orders'[u]}]
<1>1. \A u \in DOMAIN orders' : RowsOf(u)' = {orders'[u]}
  BY DEF RowsFollowOrders, RowsOf
<1>2. DOMAIN deliveries' \subseteq DOMAIN orders'
  BY DEF RowsFollowOrders
<1>. QED  BY <1>1, <1>2 DEF Half, Whole

\* The order being written is the one at hand, past its first INSERT.
LEMMA WritingValue ==
  ASSUME MessageAtHand
  PROVE  Writing = IF pc \in PastInsert THEN {msg.uid} ELSE {}
<1>1. pc \in PastInsert => msg \in Order /\ msg.uid \in Uid
  BY DEF MessageAtHand, HandlingState, AddOrderState, PastInsert, Order
<1>. QED  BY <1>1, BadAssumption DEF Writing, InProgress, NoMsg

\* The same after a step.
LEMMA WritingValueNext ==
  ASSUME MessageAtHand'
  PROVE  Writing' = IF pc' \in PastInsert THEN {msg'.uid} ELSE {}
<1>1. pc' \in PastInsert => msg' \in Order /\ msg'.uid \in Uid
  BY DEF MessageAtHand, HandlingState, AddOrderState, PastInsert, Order
<1>. QED  BY <1>1, BadAssumption DEF Writing, InProgress, NoMsg

-----------------------------------------------------------------------------
(* The cache is empty until the start has loaded it.                         *)
EmptyUntilLoaded == proc \in {"down", "load"} => cache = NoRows

StoreInv == IInv /\ EmptyUntilLoaded

\* Every step keeps the cache empty until then.
LEMMA EmptyNext == StoreInv /\ [Next]_vars => EmptyUntilLoaded'
<1>. SUFFICES ASSUME StoreInv, [Next]_vars, proc' \in {"down", "load"}
              PROVE  cache' = NoRows
  BY DEF EmptyUntilLoaded
<1>. USE DEF StoreInv, IInv, EmptyUntilLoaded
<1>1. CASE LoadFails \/ LoadError \/ Crash \/ MainReturns \/ RestorePanic
  BY <1>1 DEF LoadFails, LoadError, Crash, MainReturns, RestorePanic, ProcessLost
<1>2. CASE Load \/ LoadCut \/ Signal \/ ShutdownDone \/ CloseCache \/ CloseRepository
  BY <1>2 DEF Load, LoadCut, LoadDone, Signal, ShutdownDone, CloseCache, CloseRepository
<1>3. CASE Start \/ (\E m \in Order \cup {Bad} : Publish(m)) \/ UNCHANGED vars
           \/ \E u \in Uid : DeleteCheck(u)
  BY <1>3 DEF Start, Publish, DeleteCheck, vars
<1>4. CASE \/ HandleClearOrders
           \/ \E u \in Uid : CacheForgets(u) \/ DeleteRemove(u)
  BY <1>4 DEF HandleClearOrders, CacheForgets, DeleteRemove, NoRows, Restrict
<1>5. CASE Consume \/ RestoreCut \/ RestoreError \/ Disconnect
  <2>1. pc # "none" /\ proc' = proc
    BY <1>5
    DEF Consume, Restore, RestoreRead, RestoreCut, RestoreClear, RestoreEnd, RestoreError,
        RestoreSave, RunConsumer, Connect, Reconnect, ConsumerReturns, Disconnect, Receive,
        CheckDuplicate, AddOrderExists, AddOrderInsert, AddOrderPayment, AddOrderItem,
        AddOrderItemsEnd, AddOrderDelivery, SaveToCache, Statement
  <2>. QED  BY <2>1 DEF StartedAfterLoad
<1>. QED  BY <1>1, <1>2, <1>3, <1>4, <1>5 DEF Next, Main, Environment

\* StoreInv is inductive.
LEMMA StoreInvHolds == Spec => []StoreInv
<1>1. Init => StoreInv
  BY InitIInv DEF StoreInv, EmptyUntilLoaded, Init
<1>2. StoreInv /\ [Next]_vars => StoreInv'
  BY NextIInv, EmptyNext DEF StoreInv
<1>. QED  BY <1>1, <1>2, PTL DEF Spec

-----------------------------------------------------------------------------
(* The steps, one kind after another.                                        *)

\* Any two states around a step.
Around == StoreInv /\ StoreInv'

\* An order's rows are what they were if no order and no delivery is written.
LEMMA TablesStay ==
  ASSUME Around, UNCHANGED <<orders, deliveries>>
  PROVE  UNCHANGED <<Half, Whole>>
BY StoredValues, StoredValuesNext DEF Around, StoreInv, IInv, DataInv

\* Unless AddOrder begins with an order, a step that leaves orders, deliveries
\* and the cache alone cannot be seen, or the writer gives up.
LEMMA QuietStep ==
  ASSUME Around, UNCHANGED <<orders, deliveries, cache>>,
         pc' \in PastInsert => pc \in PastInsert /\ msg' = msg
  PROVE  Store!GiveUp \/ UNCHANGED Store!vars
<1>1. UNCHANGED <<Half, Whole, Cached>>
  BY TablesStay DEF Cached
<1>2. Writing = IF pc \in PastInsert THEN {msg.uid} ELSE {}
  BY WritingValue DEF Around, StoreInv, IInv, TypeInv
<1>3. Writing' = IF pc' \in PastInsert THEN {msg'.uid} ELSE {}
  BY WritingValueNext DEF Around, StoreInv, IInv, TypeInv
<1>. QED  BY <1>1, <1>2, <1>3 DEF Store!GiveUp, Store!vars

\* The writer is at the same order, or nowhere, after a step of anyone else.
LEMMA WritingStays ==
  ASSUME Around,
         \/ UNCHANGED <<pc, msg>>
         \/ pc \notin PastInsert /\ pc' \notin PastInsert
  PROVE  Writing' = Writing
<1>1. Writing = IF pc \in PastInsert THEN {msg.uid} ELSE {}
  BY WritingValue DEF Around, StoreInv, IInv, TypeInv
<1>2. Writing' = IF pc' \in PastInsert THEN {msg'.uid} ELSE {}
  BY WritingValueNext DEF Around, StoreInv, IInv, TypeInv
<1>. QED  BY <1>1, <1>2

\* Orders leave the cache.
LEMMA ForgetStep ==
  ASSUME Around, UNCHANGED tables, NEW kept, cache' = Restrict(cache, kept),
         kept \subseteq DOMAIN cache, Writing' = Writing
  PROVE  Store!Forget
<1>1. UNCHANGED <<Half, Whole>>
  BY TablesStay DEF tables
<1>2. Cached' = [u \in kept |-> Cached[u]] /\ DOMAIN Cached = DOMAIN cache
  BY DEF Cached, Restrict
<1>3. kept \in SUBSET DOMAIN Cached /\ Cached' = Store!Restrict(Cached, kept)
  BY <1>2 DEF Store!Restrict, Restrict
<1>. QED  BY <1>1, <1>3 DEF Store!Forget

\* The cache is emptied.
LEMMA ClearStep ==
  ASSUME Around, UNCHANGED tables, cache' = NoRows, Writing' = Writing
  PROVE  Store!Forget
<1>1. cache' = Restrict(cache, {})
  BY DEF Restrict, NoRows
<1>. QED  BY <1>1, ForgetStep

\* A whole order is put into the cache.
LEMMA CacheStep ==
  ASSUME Around, UNCHANGED tables, NEW u \in Uid, NEW o,
         cache' = With(cache, u, o), Backed(u, o), Writing' = Writing
  PROVE  Store!Cache(u)
<1>1. UNCHANGED <<Half, Whole>>
  BY TablesStay DEF tables
<1>2. u \in DOMAIN Whole /\ Whole[u] = o.vers
  BY DEF Backed, Whole
<1>3. Cached' = [x \in DOMAIN Cached \cup {u} |-> IF x = u THEN o.vers ELSE Cached[x]]
  BY DEF Cached, With
<1>. QED  BY <1>1, <1>2, <1>3 DEF Store!Cache, Store!Put

\* The process ends.
LEMMA EndStep ==
  ASSUME Around, ProcessLost
  PROVE  Store!End
<1>1. UNCHANGED <<Half, Whole>>
  BY TablesStay DEF ProcessLost, tables
<1>2. Writing' = {}
  BY WritingValueNext DEF ProcessLost, PastInsert, Around, StoreInv, IInv, TypeInv
<1>3. Cached' = Store!Nothing
  BY DEF ProcessLost, NoRows, Cached, Store!Nothing
<1>. QED  BY <1>1, <1>2, <1>3 DEF Store!End

\* The start loads the cache.
LEMMA LoadStep ==
  ASSUME Around, NEW cut, LoadDone(cut)
  PROVE  Store!Load
<1>1. PICK S \in ReadSets(cut) : cache' = Loaded(S)
  BY DEF LoadDone
<1>2. /\ proc = "load" /\ pc = "none" /\ pc' = "restore" /\ cache = NoRows
      /\ UNCHANGED tables
  BY DEF LoadDone, Around, StoreInv, IInv, StartedAfterLoad, EmptyUntilLoaded
<1>3. UNCHANGED <<Half, Whole>>
  BY <1>2, TablesStay DEF tables
<1>4. Writing = {} /\ Writing' = {}
  BY <1>2, WritingValue, WritingValueNext DEF PastInsert, Around, StoreInv, IInv, TypeInv
<1>5. Cached = Store!Nothing
  BY <1>2 DEF Cached, NoRows, Store!Nothing
<1>7. S \subseteq DOMAIN deliveries
  BY DEF ReadSets, PanicsOn, DeliveryIsNil
<1>8. Cached' = [u \in S |-> RowsOf(u)]
  BY <1>1 DEF Cached, Loaded
<1>9. S \in SUBSET DOMAIN Whole /\ Cached' = Store!Restrict(Whole, S)
  BY <1>7, <1>8 DEF Whole, Store!Restrict, Restrict
<1>. QED  BY <1>3, <1>4, <1>5, <1>9 DEF Store!Load

\* The INSERT into orders.
LEMMA BeginStep ==
  ASSUME Around, pc = "insert", InsertOrder(msg), UNCHANGED cache,
         Handled \/ Goto("payment")
  PROVE  \E u \in Uid, v \in Version : Store!Begin(u, v)
<1>. DEFINE u == msg.uid
            v == msg.ver
<1>1. u \in Uid /\ v \in Version /\ u \notin DOMAIN orders /\ u \notin DOMAIN deliveries
  BY DEF Around, StoreInv, IInv, TypeInv, MessageAtHand, HandlingState, AddOrderState, Order,
         DataInv, StoredSoFar, RowsFollowOrders
<1>2. orders' = With(orders, u, v) /\ deliveries' = deliveries
  BY DEF InsertOrder
<1>3. /\ Half = [x \in DOMAIN orders \ DOMAIN deliveries |-> {orders[x]}]
      /\ Whole = [x \in DOMAIN deliveries |-> {orders[x]}]
      /\ DOMAIN deliveries \subseteq DOMAIN orders
  BY StoredValues DEF Around, StoreInv, IInv, DataInv, RowsFollowOrders
<1>4. /\ Half' = [x \in DOMAIN orders' \ DOMAIN deliveries' |-> {orders'[x]}]
      /\ Whole' = [x \in DOMAIN deliveries' |-> {orders'[x]}]
  BY StoredValuesNext DEF Around, StoreInv, IInv, DataInv
<1>5. Writing = {}
  BY WritingValue DEF PastInsert, Around, StoreInv, IInv, TypeInv
<1>6. Writing' \in {{u}, {}}
  <2>1. \/ pc' = "poll"
        \/ pc' = "payment" /\ msg' = msg
    BY DEF Handled, Goto
  <2>2. Writing' = IF pc' \in PastInsert THEN {msg'.uid} ELSE {}
    BY WritingValueNext DEF Around, StoreInv, IInv, TypeInv
  <2>. QED  BY <2>1, <2>2 DEF PastInsert
<1>. HIDE DEF u, v
<1>7. Half' = [x \in DOMAIN Half \cup {u} |-> IF x = u THEN {v} ELSE Half[x]]
  <2>1. DOMAIN orders' \ DOMAIN deliveries' = DOMAIN Half \cup {u}
    BY <1>1, <1>2, <1>3 DEF With
  <2>2. \A x \in DOMAIN Half \cup {u} : {orders'[x]} = IF x = u THEN {v} ELSE Half[x]
    BY <1>2, <1>3 DEF With
  <2>. QED  BY <1>4, <2>1, <2>2
<1>8. Whole' = Whole /\ Cached' = Cached
  BY <1>1, <1>2, <1>3, <1>4 DEF With, Cached
<1>9. u \notin DOMAIN Half \cup DOMAIN Whole
  BY <1>1, <1>3
<1>10. Store!Begin(u, v)
  BY <1>5, <1>6, <1>7, <1>8, <1>9 DEF Store!Begin, Store!Put
<1>. QED  BY <1>1, <1>10

\* The upsert of the delivery.
LEMMA CompleteStep ==
  ASSUME Around, pc = "delivery", AddDelivery(msg), UNCHANGED cache,
         Handled \/ Goto("saveCache")
  PROVE  \E u \in Uid : Store!Complete(u)
<1>. DEFINE u == msg.uid
<1>1. u \in Uid /\ u \in DOMAIN orders /\ u \notin DOMAIN deliveries
  BY DEF Around, StoreInv, IInv, TypeInv, MessageAtHand, HandlingState, AddOrderState, Order,
         DataInv, StoredSoFar
<1>2. orders' = orders /\ deliveries' = With(deliveries, u, msg.ver)
  BY DEF AddDelivery
<1>3. /\ Half = [x \in DOMAIN orders \ DOMAIN deliveries |-> {orders[x]}]
      /\ Whole = [x \in DOMAIN deliveries |-> {orders[x]}]
  BY StoredValues DEF Around, StoreInv, IInv, DataInv
<1>4. /\ Half' = [x \in DOMAIN orders' \ DOMAIN deliveries' |-> {orders'[x]}]
      /\ Whole' = [x \in DOMAIN deliveries' |-> {orders'[x]}]
  BY StoredValuesNext DEF Around, StoreInv, IInv, DataInv
<1>5. Writing = {u}
  BY WritingValue DEF PastInsert, Around, StoreInv, IInv, TypeInv
<1>6. Writing' = {}
  BY WritingValueNext DEF Goto, Handled, PastInsert, Around, StoreInv, IInv, TypeInv
<1>. HIDE DEF u
<1>7. Half' = [x \in DOMAIN Half \ {u} |-> Half[x]]
  <2>1. DOMAIN orders' \ DOMAIN deliveries' = DOMAIN Half \ {u}
    BY <1>2, <1>3 DEF With
  <2>. QED  BY <1>2, <1>3, <1>4, <2>1
<1>8. Whole' = [x \in DOMAIN Whole \cup {u} |-> IF x = u THEN Half[u] ELSE Whole[x]]
  <2>1. DOMAIN deliveries' = DOMAIN Whole \cup {u}
    BY <1>2, <1>3 DEF With
  <2>2. Half[u] = {orders[u]}
    BY <1>1, <1>3
  <2>. QED  BY <1>2, <1>3, <1>4, <2>1, <2>2
<1>9. Half' = Store!Restrict(Half, DOMAIN Half \ {u})
  BY <1>7 DEF Store!Restrict, Restrict
<1>10. Cached' = Cached
  BY DEF Cached
<1>11. Store!Complete(u)
  BY <1>5, <1>6, <1>8, <1>9, <1>10 DEF Store!Complete, Store!Put
<1>. QED  BY <1>1, <1>11

-----------------------------------------------------------------------------
\* Every step of the service is a step of the store, or cannot be seen in it.
LEMMA NextRefinesStore ==
  StoreInv /\ StoreInv' /\ [Next]_vars => [Store!Next]_(Store!vars)
<1>. SUFFICES ASSUME Around, [Next]_vars
              PROVE  Store!Next \/ UNCHANGED Store!vars
  BY DEF Around
<1>1. CASE LoadFails \/ LoadError \/ Crash \/ MainReturns \/ RestorePanic
  BY <1>1, EndStep DEF LoadFails, LoadError, Crash, MainReturns, RestorePanic, Store!Next
<1>2. CASE Load \/ LoadCut
  BY <1>2, LoadStep DEF Load, LoadCut, Store!Next
<1>3. CASE CloseCache \/ RestoreClear \/ HandleClearOrders
  <2>1. UNCHANGED tables /\ cache' = NoRows
    BY <1>3 DEF CloseCache, RestoreClear, HandleClearOrders
  <2>2. \/ UNCHANGED <<pc, msg>>
        \/ pc = "clear" /\ pc' = "fill"
    BY <1>3 DEF CloseCache, RestoreClear, HandleClearOrders
  <2>3. Writing' = Writing
    BY <2>2, WritingStays DEF PastInsert
  <2>. QED  BY <2>1, <2>3, ClearStep DEF Store!Next
<1>4. ASSUME NEW u \in Uid, CacheForgets(u) \/ DeleteRemove(u)
      PROVE  Store!Next
  <2>1. UNCHANGED tables /\ cache' = Restrict(cache, DOMAIN cache \ {u})
    BY <1>4 DEF CacheForgets, DeleteRemove
  <2>2. UNCHANGED <<pc, msg>>
    BY <1>4 DEF CacheForgets, DeleteRemove
  <2>3. Writing' = Writing
    BY <2>2, WritingStays
  <2>4. DOMAIN cache \ {u} \subseteq DOMAIN cache
    OBVIOUS
  <2>. QED  BY <2>1, <2>3, <2>4, ForgetStep DEF Store!Next
<1>5. ASSUME NEW u \in Uid, RestoreSave(u)
      PROVE  Store!Next
  <2>1. /\ UNCHANGED tables /\ cache' = With(cache, u, loaded[u])
        /\ u \in DOMAIN loaded
    BY <1>5 DEF RestoreSave
  <2>2. Backed(u, loaded[u])
    BY <2>1 DEF Around, StoreInv, IInv, CopyInv, LoadedBackedByDB
  <2>3. Writing' = Writing
    BY <1>5, WritingStays DEF RestoreSave, PastInsert
  <2>. QED  BY <2>1, <2>2, <2>3, CacheStep DEF Store!Next
<1>6. CASE SaveToCache
  <2>1. /\ UNCHANGED tables /\ cache' = With(cache, msg.uid, FromMessage(msg))
        /\ pc = "saveCache" /\ pc' = "poll"
    BY <1>6 DEF SaveToCache, Handled
  <2>2. msg.uid \in Uid
    BY <2>1 DEF Around, StoreInv, IInv, TypeInv, MessageAtHand, HandlingState, Order
  <2>4. Backed(msg.uid, FromMessage(msg))
    BY <2>1, SavedBacked DEF Around, StoreInv, IInv
  <2>3. Writing' = Writing
    BY <2>1, WritingStays DEF PastInsert
  <2>. QED  BY <2>1, <2>2, <2>3, <2>4, CacheStep DEF Store!Next
<1>7. CASE AddOrderInsert
  <2>1. pc = "insert" /\ UNCHANGED cache
    BY <1>7 DEF AddOrderInsert, Statement
  <2>2. CASE InsertOrder(msg) /\ (Handled \/ Goto("payment"))
    BY <2>1, <2>2, BeginStep DEF Store!Next
  <2>3. CASE UNCHANGED tables /\ Handled
    BY <2>1, <2>3, QuietStep DEF Handled, PastInsert, tables, Store!Next
  <2>. QED  BY <1>7, <2>2, <2>3 DEF AddOrderInsert, Statement
<1>8. CASE AddOrderDelivery
  <2>1. pc = "delivery" /\ UNCHANGED cache
    BY <1>8 DEF AddOrderDelivery, Statement
  <2>2. CASE AddDelivery(msg) /\ (Handled \/ Goto("saveCache"))
    BY <2>1, <2>2, CompleteStep DEF Store!Next
  <2>3. CASE UNCHANGED tables /\ Handled
    BY <2>1, <2>3, QuietStep DEF Handled, PastInsert, tables, Store!Next
  <2>. QED  BY <1>8, <2>2, <2>3 DEF AddOrderDelivery, Statement
\* The rows in between are not seen.
<1>9. CASE AddOrderPayment \/ AddOrderItem \/ AddOrderItemsEnd
  <2>1. pc \in PastInsert /\ UNCHANGED <<orders, deliveries, cache>>
    BY <1>9
    DEF AddOrderPayment, AddOrderItem, AddOrderItemsEnd, Statement, ProcessPayment, AddPayment,
        AddItem, PastInsert, tables
  <2>2. pc' \in PastInsert => msg' = msg
    BY <1>9, PastInsertKept DEF Around, StoreInv
  <2>. QED  BY <2>1, <2>2, QuietStep DEF Store!Next
<1>10. CASE \/ (\E m \in Order \cup {Bad} : Publish(m)) \/ (\E u \in Uid : DeleteCheck(u))
            \/ Start \/ Signal \/ ShutdownDone \/ CloseRepository \/ UNCHANGED vars
  <2>1. UNCHANGED <<orders, deliveries, cache, pc, msg>>
    BY <1>10 DEF Publish, DeleteCheck, Start, Signal, ShutdownDone, CloseRepository, tables, vars
  <2>. QED  BY <2>1, QuietStep DEF Store!Next
<1>11. CASE \/ Restore \/ RestoreCut \/ RestoreError \/ RestoreEnd
            \/ RunConsumer \/ Connect \/ Reconnect \/ ConsumerReturns \/ Disconnect
            \/ Receive \/ CheckDuplicate \/ AddOrderExists
  <2>1. UNCHANGED <<orders, deliveries, cache>> /\ pc' \notin PastInsert
    BY <1>11
    DEF Restore, RestoreCut, RestoreRead, RestoreError, RestoreEnd, RunConsumer, Connect,
        Reconnect, ConsumerReturns, Disconnect, Receive, CheckDuplicate, AddOrderExists,
        Statement, Handled, Goto, PastInsert, tables
  <2>. QED  BY <2>1, QuietStep DEF Store!Next
<1>. QED
  BY <1>1, <1>2, <1>3, <1>4, <1>5, <1>6, <1>7, <1>8, <1>9, <1>10, <1>11
  DEF Next, Consume, Environment, Main

\* Before the first start there are no orders.
LEMMA InitRefinesStore == Init => Store!Init
<1>. SUFFICES ASSUME Init PROVE Store!Init
  OBVIOUS
<1>1. Half = Store!Nothing /\ Whole = Store!Nothing /\ Cached = Store!Nothing
  BY DEF Init, InitTables, NoRows, Half, Whole, Cached, Store!Nothing
<1>2. Writing = {}
  BY DEF Init, Writing, InProgress, PastInsert
<1>. QED  BY <1>1, <1>2 DEF Store!Init

\* The service implements the store: whatever fails, crashes or is restarted,
\* an order is written once, from one message and by one writer, and the cache
\* holds whole orders only.
THEOREM ServiceImplementsStore == Spec => ImplementsStore
<1>. QED  BY StoreInvHolds, InitRefinesStore, NextRefinesStore, PTL
       DEF Spec, ImplementsStore, Store!Spec
===========================================================================
