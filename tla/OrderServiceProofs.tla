------------------------- MODULE OrderServiceProofs -------------------------
(* The safety properties of OrderService, for every set of orders, versions  *)
(* and items, every bound and either schema of the items table. The argument *)
(* is in IInv: what the tables hold at each statement of AddOrder.           *)
EXTENDS OrderService, TLAPS

-----------------------------------------------------------------------------
(* The inductive invariant.                                                  *)

\* handleMessage has an order at hand wherever it uses one.
HandlingState == AddOrderState \cup {"check", "saveCache"}
MessageAtHand == pc \in HandlingState => msg \in Order

\* The consumer is started after the cache has been loaded.
StartedAfterLoad == proc \in {"down", "load"} => pc = "none"

\* Every row belongs to a row of orders, and is from the same message.
RowsFollowOrders ==
  /\ \A u \in DOMAIN payments : u \in DOMAIN orders /\ payments[u] = orders[u]
  /\ \A u \in DOMAIN deliveries : u \in DOMAIN orders /\ deliveries[u] = orders[u]
  /\ \A r \in items : r.uid \in DOMAIN orders /\ r.ver = orders[r.uid]

ChrtStored(c) == \E r \in items : r.chrt = c
ItemsStored(u) == \A i \in DOMAIN ItemsOf[u] : ChrtStored(ItemsOf[u][i])

\* What a delivery row stands for.
DeliveryIsLast ==
  \A u \in DOMAIN deliveries : u \in DOMAIN payments /\ ItemsStored(u)

\* What AddOrder has stored of its order, statement by statement.
StoredSoFar ==
  /\ pc = "insert" => msg.uid \notin DOMAIN orders
  /\ pc \in {"payment", "items", "delivery"} =>
       /\ msg.uid \in DOMAIN orders /\ orders[msg.uid] = msg.ver
       /\ msg.uid \notin DOMAIN deliveries
  /\ pc \in {"items", "delivery"} => msg.uid \in DOMAIN payments
  /\ pc = "items" =>
       \A i \in DOMAIN ItemsOf[msg.uid] :
         \/ ChrtStored(ItemsOf[msg.uid][i])
         \/ \E j \in DOMAIN itemsLeft : itemsLeft[j] = ItemsOf[msg.uid][i]
  /\ pc = "delivery" => ItemsStored(msg.uid)
  /\ pc = "saveCache" => msg.uid \in DOMAIN deliveries /\ orders[msg.uid] = msg.ver

\* What AddItems stores are items of the order it stores them under.
ItemsInv ==
  /\ \A r \in items : r.chrt \in ItemSet(r.uid)
  /\ pc = "items" => \A k \in DOMAIN itemsLeft : itemsLeft[k] \in ItemSet(msg.uid)

\* What restoreCacheFromDB is about to put into the cache.
LoadedBackedByDB == \A u \in DOMAIN loaded : Backed(u, loaded[u])

TypeInv == TypeOK /\ MessageAtHand
DataInv == RowsFollowOrders /\ DeliveryIsLast /\ StoredSoFar
CopyInv == LoadedBackedByDB /\ CacheBackedByDB
IInv == TypeInv /\ StartedAfterLoad /\ DataInv /\ ItemsInv /\ CopyInv

\* What a step may do to the tables: rows stay as they are, only the last
\* statement of AddOrder writes a delivery, and an order that has one gets no
\* more items.
TablesGrow ==
  /\ \A u \in DOMAIN orders : u \in DOMAIN orders' /\ orders'[u] = orders[u]
  /\ DOMAIN payments \subseteq DOMAIN payments'
  /\ DOMAIN deliveries \subseteq DOMAIN deliveries'
  /\ \A u \in DOMAIN deliveries' \ DOMAIN deliveries : pc = "delivery" /\ u = msg.uid
  /\ items \subseteq items'
  /\ \A r \in items' \ items : r.uid \notin DOMAIN deliveries

\* Where the order at hand is partly stored, or just has been.
StagedState == {"insert", "payment", "items", "delivery", "saveCache"}

-----------------------------------------------------------------------------
\* Before the first start the tables are empty and nothing runs.
LEMMA InitIInv == Init => IInv
<1>. SUFFICES ASSUME Init PROVE IInv
  OBVIOUS
<1>. USE DEF Init, InitTables, NoRows
<1>1. TypeOK
  BY BadAssumption, BoundsAssumption
     DEF TypeOK, TablesTypeOK, Table, Copies, NoMsg, ProcState, ConsumerState
<1>2. MessageAtHand /\ StartedAfterLoad
  BY DEF MessageAtHand, HandlingState, AddOrderState, StartedAfterLoad
<1>3. DataInv
  BY DEF DataInv, RowsFollowOrders, DeliveryIsLast, StoredSoFar
<1>4. ItemsInv /\ CopyInv
  BY DEF ItemsInv, CopyInv, LoadedBackedByDB, CacheBackedByDB
<1>. QED  BY <1>1, <1>2, <1>3, <1>4 DEF IInv, TypeInv

-----------------------------------------------------------------------------
(* Types, and the order at hand.                                             *)

\* The process is gone: what it leaves behind is still well formed.
LEMMA ProcessLostType ==
  ASSUME TypeInv, ProcessLost, faults' \in 0 .. MaxFaults, stops' \in 0 .. MaxStops
  PROVE  TypeInv' /\ StartedAfterLoad'
BY DEF TypeInv, ProcessLost, TypeOK, TablesTypeOK, Table, Copies, NoMsg, NoRows, tables,
       ProcState, ConsumerState, MessageAtHand, HandlingState, AddOrderState, StartedAfterLoad

\* A row written for the order at hand leaves a table well formed.
LEMMA WithTable ==
  ASSUME NEW t, Table(t), NEW o \in Order
  PROVE  Table(With(t, o.uid, o.ver))
BY DEF With, Table, Order

\* An order put into the cache.
LEMMA WithCopies ==
  ASSUME NEW f, Copies(f), NEW u \in Uid, NEW copy \in Copy
  PROVE  Copies(With(f, u, copy))
BY DEF With, Copies

\* The items of an order are items, and so the message is a copy of its order.
LEMMA MessageIsCopy ==
  ASSUME NEW o \in Order
  PROVE  FromMessage(o) \in Copy
<1>1. o.uid \in Uid /\ o.ver \in Version
  BY DEF Order
<1>2. ItemsOf[o.uid] \in Seq(Chrt)
  BY <1>1, ItemsOfAssumption
<1>3. ItemSet(o.uid) \subseteq Chrt
  BY <1>2 DEF ItemSet, Range
<1>. QED  BY <1>1, <1>3 DEF FromMessage, Copy

\* An order taken out of the cache, or out of the orders to restore.
LEMMA RestrictCopies ==
  ASSUME NEW f, Copies(f), NEW u
  PROVE  Copies(Restrict(f, DOMAIN f \ {u}))
BY DEF Restrict, Copies

\* An empty cache is well formed.
LEMMA NoRowsCopies == Copies(NoRows)
BY DEF Copies, NoRows

\* What GetOrders returns, under the uids it is cached under.
LEMMA LoadedCopies ==
  ASSUME TypeInv, NEW cut, NEW S \in ReadSets(cut)
  PROVE  Copies(Loaded(S))
<1>1. S \subseteq DOMAIN orders /\ DOMAIN orders \subseteq Uid
  BY DEF ReadSets, TypeInv, TypeOK, TablesTypeOK, Table
<1>2. ASSUME NEW u \in S
      PROVE  [vers |-> RowsOf(u), chrts |-> StoredItems(u)] \in Copy
  <2>1. RowsOf(u) \subseteq Version
    BY <1>1 DEF RowsOf, TypeInv, TypeOK, TablesTypeOK, Table, ItemRow
  <2>2. StoredItems(u) \subseteq Chrt
    BY DEF StoredItems, TypeInv, TypeOK, TablesTypeOK, ItemRow
  <2>. QED  BY <2>1, <2>2 DEF Copy
<1>. QED  BY <1>1, <1>2 DEF Copies, Loaded

\* A statement of AddOrder that keeps the tables well formed, and then either
\* goes on with the order or is done with it.
LEMMA StatementType ==
  ASSUME TypeInv, StartedAfterLoad, pc \in AddOrderState,
         UNCHANGED <<topic, position, proc, loaded, cache, deleting, stops>>,
         TablesTypeOK', faults' \in 0 .. MaxFaults,
         \/ Handled
         \/ msg' = msg /\ pc' \in AddOrderState \cup {"saveCache"} /\ itemsLeft' \in Seq(Chrt)
  PROVE  TypeInv' /\ StartedAfterLoad'
<1>1. pc' \in ConsumerState /\ pc' # "none" /\ pc # "none"
  BY DEF Handled, ConsumerState, Subscribed, AddOrderState
<1>2. msg \in Order /\ msg' \in Order \cup {NoMsg} /\ itemsLeft' \in Seq(Chrt)
  <2>1. msg \in Order
    BY DEF TypeInv, MessageAtHand, HandlingState
  <2>2. << >> \in Seq(Chrt)
    OBVIOUS
  <2>. QED  BY <2>1, <2>2 DEF Handled
<1>3. MessageAtHand'
  BY <1>2 DEF Handled, MessageAtHand, HandlingState, AddOrderState
<1>4. TypeOK'
  BY <1>1, <1>2 DEF TypeInv, TypeOK
<1>5. StartedAfterLoad'
  BY <1>1 DEF StartedAfterLoad
<1>. QED  BY <1>3, <1>4, <1>5 DEF TypeInv

\* The steps that leave the tables and the order at hand alone, and put into
\* the cache, and among the orders to restore, nothing but orders.
LEMMA CopyType ==
  ASSUME TypeInv, StartedAfterLoad,
         UNCHANGED <<tables, topic, msg, itemsLeft>>,
         position' \in 0 .. Len(topic), proc' \in ProcState, pc' \in ConsumerState,
         pc' \in HandlingState => pc' = pc,
         proc' \in {"down", "load"} => pc' = "none",
         Copies(loaded'), Copies(cache'), deleting' \subseteq Uid,
         faults' \in 0 .. MaxFaults, stops' \in 0 .. MaxStops
  PROVE  TypeInv' /\ StartedAfterLoad'
<1>1. TypeOK'
  BY DEF TypeInv, TypeOK, TablesTypeOK, tables
<1>2. MessageAtHand'
  BY DEF TypeInv, MessageAtHand
<1>. QED  BY <1>1, <1>2 DEF TypeInv, StartedAfterLoad

\* Every step keeps the state well formed, and the order at hand where it is used.
LEMMA TypeNext == TypeInv /\ StartedAfterLoad /\ [Next]_vars => TypeInv' /\ StartedAfterLoad'
<1>. SUFFICES ASSUME TypeInv, StartedAfterLoad, [Next]_vars
              PROVE  TypeInv' /\ StartedAfterLoad'
  OBVIOUS
<1>. USE BoundsAssumption, BadAssumption
<1>1. CASE \E m \in Order \cup {Bad} : Publish(m)
  BY <1>1
  DEF Publish,
       TypeInv, TypeOK, TablesTypeOK, tables, NoMsg, ProcState, ConsumerState,
       Subscribed, HandlingState, AddOrderState, MessageAtHand, StartedAfterLoad
<1>2. CASE Start
  <2>1. Copies(loaded') /\ Copies(cache')
    BY <1>2 DEF Start, TypeInv, TypeOK
  <2>. QED
    BY <1>2, <2>1, CopyType
    DEF Start, TypeInv, TypeOK, tables, ProcState, ConsumerState, Subscribed, HandlingState, AddOrderState,
       StartedAfterLoad, Fault
<1>3. CASE Signal
  <2>1. Copies(loaded') /\ Copies(cache')
    BY <1>3 DEF Signal, TypeInv, TypeOK
  <2>. QED
    BY <1>3, <2>1, CopyType
    DEF Signal, TypeInv, TypeOK, tables, ProcState, ConsumerState, Subscribed, HandlingState, AddOrderState,
       StartedAfterLoad, Fault
<1>4. CASE ShutdownDone
  <2>1. Copies(loaded') /\ Copies(cache')
    BY <1>4 DEF ShutdownDone, TypeInv, TypeOK
  <2>. QED
    BY <1>4, <2>1, CopyType
    DEF ShutdownDone, TypeInv, TypeOK, tables, ProcState, ConsumerState, Subscribed, HandlingState, AddOrderState,
       StartedAfterLoad, Fault
<1>5. CASE CloseRepository
  <2>1. Copies(loaded') /\ Copies(cache')
    BY <1>5 DEF CloseRepository, TypeInv, TypeOK
  <2>. QED
    BY <1>5, <2>1, CopyType
    DEF CloseRepository, TypeInv, TypeOK, tables, ProcState, ConsumerState, Subscribed, HandlingState, AddOrderState,
       StartedAfterLoad, Fault
<1>6. CASE Load \/ LoadCut
  <2>1. PICK cut \in BOOLEAN : \E S \in ReadSets(cut) : cache' = Loaded(S)
    BY <1>6 DEF Load, LoadCut, LoadDone
  <2>2. PICK S \in ReadSets(cut) : cache' = Loaded(S)
    BY <2>1
  <2>3. Copies(Loaded(S))
    BY LoadedCopies
  <2>4. Copies(loaded') /\ Copies(cache')
    BY <1>6, <2>2, <2>3 DEF Load, LoadCut, LoadDone, TypeInv, TypeOK
  <2>5. proc' = "up" /\ pc' = "restore" /\ UNCHANGED <<tables, topic, position, msg, itemsLeft, deleting, stops>>
    BY <1>6 DEF Load, LoadCut, LoadDone
  <2>6. faults' \in 0 .. MaxFaults
    <3>1. UNCHANGED faults \/ Fault
      BY <1>6 DEF Load, LoadCut
    <3>. QED  BY <3>1 DEF Fault, TypeInv, TypeOK
  <2>. QED
    BY <2>4, <2>5, <2>6, CopyType
    DEF TypeInv, TypeOK, ProcState, ConsumerState, HandlingState, AddOrderState, StartedAfterLoad
<1>7. CASE LoadFails
  BY <1>7, ProcessLostType DEF LoadFails, TypeInv, TypeOK
<1>8. CASE LoadError
  BY <1>8, ProcessLostType DEF LoadError, Fault, TypeInv, TypeOK
<1>9. CASE Crash
  BY <1>9, ProcessLostType DEF Crash, TypeInv, TypeOK
<1>10. CASE MainReturns
  BY <1>10, ProcessLostType DEF MainReturns, TypeInv, TypeOK
<1>11. CASE RestorePanic
  BY <1>11, ProcessLostType DEF RestorePanic, TypeInv, TypeOK
<1>12. CASE CloseCache
  <2>1. Copies(loaded') /\ Copies(cache')
    BY <1>12, NoRowsCopies DEF CloseCache, TypeInv, TypeOK
  <2>. QED
    BY <1>12, <2>1, CopyType
    DEF CloseCache, TypeInv, TypeOK, tables, ProcState, ConsumerState, Subscribed, HandlingState, AddOrderState,
       StartedAfterLoad, Fault
<1>13. CASE Restore \/ RestoreCut
  <2>1. PICK cut \in BOOLEAN : \E S \in ReadSets(cut) : loaded' = Loaded(S)
    BY <1>13 DEF Restore, RestoreCut, RestoreRead
  <2>2. PICK S \in ReadSets(cut) : loaded' = Loaded(S)
    BY <2>1
  <2>3. Copies(Loaded(S))
    BY LoadedCopies
  <2>4. Copies(loaded') /\ Copies(cache')
    BY <1>13, <2>2, <2>3 DEF Restore, RestoreCut, RestoreRead, TypeInv, TypeOK
  <2>5. pc = "restore" /\ pc' = "clear" /\ UNCHANGED <<tables, topic, position, proc, msg, itemsLeft, deleting, stops>>
    BY <1>13 DEF Restore, RestoreCut, RestoreRead
  <2>6. faults' \in 0 .. MaxFaults
    <3>1. UNCHANGED faults \/ Fault
      BY <1>13 DEF Restore, RestoreCut
    <3>. QED  BY <3>1 DEF Fault, TypeInv, TypeOK
  <2>. QED
    BY <2>4, <2>5, <2>6, CopyType
    DEF TypeInv, TypeOK, ProcState, ConsumerState, HandlingState, AddOrderState, StartedAfterLoad
<1>14. CASE RestoreError
  <2>1. Copies(loaded') /\ Copies(cache')
    BY <1>14 DEF RestoreError, TypeInv, TypeOK
  <2>. QED
    BY <1>14, <2>1, CopyType
    DEF RestoreError, TypeInv, TypeOK, tables, ProcState, ConsumerState, Subscribed, HandlingState, AddOrderState,
       StartedAfterLoad, Fault
<1>15. CASE RestoreClear
  <2>1. Copies(loaded') /\ Copies(cache')
    BY <1>15, NoRowsCopies DEF RestoreClear, TypeInv, TypeOK
  <2>. QED
    BY <1>15, <2>1, CopyType
    DEF RestoreClear, TypeInv, TypeOK, tables, ProcState, ConsumerState, Subscribed, HandlingState, AddOrderState,
       StartedAfterLoad, Fault
<1>16. CASE \E u \in Uid : RestoreSave(u)
  <2>1. PICK u \in Uid : RestoreSave(u)
    BY <1>16
  <2>2. loaded[u] \in Copy
    BY <2>1 DEF RestoreSave, TypeInv, TypeOK, Copies
  <2>3. Copies(loaded') /\ Copies(cache')
    BY <2>1, <2>2, WithCopies, RestrictCopies
    DEF RestoreSave, LeftToSave, TypeInv, TypeOK
  <2>. QED
    BY <2>1, <2>3, CopyType
    DEF RestoreSave, TypeInv, TypeOK, tables, ProcState, ConsumerState, Subscribed, HandlingState, AddOrderState,
       StartedAfterLoad, Fault
<1>17. CASE RestoreEnd
  <2>1. Copies(loaded') /\ Copies(cache')
    BY <1>17 DEF RestoreEnd, TypeInv, TypeOK
  <2>. QED
    BY <1>17, <2>1, CopyType
    DEF RestoreEnd, TypeInv, TypeOK, tables, ProcState, ConsumerState, Subscribed, HandlingState, AddOrderState,
       StartedAfterLoad, Fault
<1>18. CASE RunConsumer \/ Connect
  <2>1. Copies(loaded') /\ Copies(cache')
    BY <1>18 DEF RunConsumer, Connect, StartOffset, TypeInv, TypeOK
  <2>. QED
    BY <1>18, <2>1, CopyType
    DEF RunConsumer, Connect, StartOffset, TypeInv, TypeOK, tables, ProcState, ConsumerState, Subscribed, HandlingState, AddOrderState,
       StartedAfterLoad, Fault
<1>19. CASE ConsumerReturns
  <2>1. Copies(loaded') /\ Copies(cache')
    BY <1>19 DEF ConsumerReturns, CtxDone, TypeInv, TypeOK
  <2>. QED
    BY <1>19, <2>1, CopyType
    DEF ConsumerReturns, CtxDone, TypeInv, TypeOK, tables, ProcState, ConsumerState, Subscribed, HandlingState, AddOrderState,
       StartedAfterLoad, Fault
<1>20. CASE Disconnect
  <2>1. Copies(loaded') /\ Copies(cache')
    BY <1>20 DEF Disconnect, TypeInv, TypeOK
  <2>. QED
    BY <1>20, <2>1, CopyType
    DEF Disconnect, TypeInv, TypeOK, tables, ProcState, ConsumerState, Subscribed, HandlingState, AddOrderState,
       StartedAfterLoad, Fault
<1>21. CASE Reconnect
  <2>1. Copies(loaded') /\ Copies(cache')
    BY <1>21 DEF Reconnect, TypeInv, TypeOK
  <2>. QED
    BY <1>21, <2>1, CopyType
    DEF Reconnect, TypeInv, TypeOK, tables, ProcState, ConsumerState, Subscribed, HandlingState, AddOrderState,
       StartedAfterLoad, Fault
<1>22. CASE Receive
  BY <1>22
  DEF Receive,
       TypeInv, TypeOK, TablesTypeOK, tables, NoMsg, ProcState, ConsumerState,
       Subscribed, HandlingState, AddOrderState, MessageAtHand, StartedAfterLoad
<1>23. CASE CheckDuplicate
  <2>1. msg \in Order
    BY <1>23 DEF CheckDuplicate, TypeInv, MessageAtHand, HandlingState
  <2>2. CASE Handled
    BY <1>23, <2>2 DEF CheckDuplicate, Handled, TypeInv, TypeOK, TablesTypeOK, tables, NoMsg, ProcState, ConsumerState,
       Subscribed, HandlingState, AddOrderState, MessageAtHand, StartedAfterLoad
  <2>3. CASE pc' = "exists" /\ UNCHANGED <<msg, itemsLeft>>
    BY <1>23, <2>1, <2>3 DEF CheckDuplicate, TypeInv, TypeOK, TablesTypeOK, tables, NoMsg, ProcState, ConsumerState,
       Subscribed, HandlingState, AddOrderState, MessageAtHand, StartedAfterLoad
  <2>. QED  BY <1>23, <2>2, <2>3 DEF CheckDuplicate
<1>24. CASE AddOrderExists
  <2>1. pc = "exists" /\ pc \in AddOrderState /\ UNCHANGED <<topic, position, proc, loaded, cache, deleting, stops>>
    BY <1>24 DEF AddOrderExists, Statement, AddOrderState
  <2>2. msg \in Order /\ msg.uid \in Uid /\ msg.ver \in Version
    BY <2>1 DEF TypeInv, MessageAtHand, HandlingState, Order
  <2>3. TablesTypeOK'
    BY <1>24, <2>2 DEF AddOrderExists, Statement, TypeInv, TypeOK, TablesTypeOK, tables
  <2>4. faults' \in 0 .. MaxFaults
    BY <1>24 DEF AddOrderExists, Statement, Fault, TypeInv, TypeOK
  <2>5. \/ Handled
        \/ msg' = msg /\ pc' \in AddOrderState \cup {"saveCache"} /\ itemsLeft' \in Seq(Chrt)
    BY <1>24, <2>2 DEF AddOrderExists, Statement, Goto, AddOrderState, TypeInv, TypeOK
  <2>. QED  BY <2>1, <2>3, <2>4, <2>5, StatementType
<1>25. CASE AddOrderInsert
  <2>1. pc = "insert" /\ pc \in AddOrderState /\ UNCHANGED <<topic, position, proc, loaded, cache, deleting, stops>>
    BY <1>25 DEF AddOrderInsert, Statement, AddOrderState
  <2>2. msg \in Order /\ msg.uid \in Uid /\ msg.ver \in Version
    BY <2>1 DEF TypeInv, MessageAtHand, HandlingState, Order
  <2>3. TablesTypeOK'
    BY <1>25, <2>2, WithTable DEF AddOrderInsert, Statement, InsertOrder, TypeInv, TypeOK, TablesTypeOK, tables
  <2>4. faults' \in 0 .. MaxFaults
    BY <1>25 DEF AddOrderInsert, Statement, Fault, TypeInv, TypeOK
  <2>5. \/ Handled
        \/ msg' = msg /\ pc' \in AddOrderState \cup {"saveCache"} /\ itemsLeft' \in Seq(Chrt)
    BY <1>25, <2>2 DEF AddOrderInsert, Statement, Goto, AddOrderState, TypeInv, TypeOK
  <2>. QED  BY <2>1, <2>3, <2>4, <2>5, StatementType
<1>26. CASE AddOrderPayment
  <2>1. pc = "payment" /\ pc \in AddOrderState /\ UNCHANGED <<topic, position, proc, loaded, cache, deleting, stops>>
    BY <1>26 DEF AddOrderPayment, Statement, AddOrderState
  <2>2. msg \in Order /\ msg.uid \in Uid /\ msg.ver \in Version
    BY <2>1 DEF TypeInv, MessageAtHand, HandlingState, Order
  <2>3. TablesTypeOK'
    BY <1>26, <2>2, WithTable DEF AddOrderPayment, Statement, ProcessPayment, AddPayment, TypeInv, TypeOK, TablesTypeOK, tables
  <2>4. faults' \in 0 .. MaxFaults
    BY <1>26 DEF AddOrderPayment, Statement, Fault, TypeInv, TypeOK
  <2>5. \/ Handled
        \/ msg' = msg /\ pc' \in AddOrderState \cup {"saveCache"} /\ itemsLeft' \in Seq(Chrt)
    BY <1>26, <2>2, ItemsOfAssumption DEF AddOrderPayment, Statement, AddOrderState, TypeInv, TypeOK
  <2>. QED  BY <2>1, <2>3, <2>4, <2>5, StatementType
<1>27. CASE AddOrderItem
  <2>1. pc = "items" /\ pc \in AddOrderState /\ UNCHANGED <<topic, position, proc, loaded, cache, deleting, stops>>
    BY <1>27 DEF AddOrderItem, Statement, AddOrderState
  <2>2. msg \in Order /\ msg.uid \in Uid /\ msg.ver \in Version
    BY <2>1 DEF TypeInv, MessageAtHand, HandlingState, Order
  <2>6. itemsLeft \in Seq(Chrt) /\ itemsLeft # << >>
    BY <1>27 DEF AddOrderItem, TypeInv, TypeOK
  <2>7. Head(itemsLeft) \in Chrt /\ Tail(itemsLeft) \in Seq(Chrt)
    BY <2>6
  <2>3. TablesTypeOK'
    BY <1>27, <2>2, <2>7 DEF AddOrderItem, Statement, AddItem, ItemRow, Order, TypeInv, TypeOK, TablesTypeOK, tables
  <2>4. faults' \in 0 .. MaxFaults
    BY <1>27 DEF AddOrderItem, Statement, Fault, TypeInv, TypeOK
  <2>5. \/ Handled
        \/ msg' = msg /\ pc' \in AddOrderState \cup {"saveCache"} /\ itemsLeft' \in Seq(Chrt)
    BY <1>27, <2>2, <2>7 DEF AddOrderItem, Statement, AfterItem, AddOrderState, TypeInv, TypeOK
  <2>. QED  BY <2>1, <2>3, <2>4, <2>5, StatementType
<1>28. CASE AddOrderDelivery
  <2>1. pc = "delivery" /\ pc \in AddOrderState /\ UNCHANGED <<topic, position, proc, loaded, cache, deleting, stops>>
    BY <1>28 DEF AddOrderDelivery, Statement, AddOrderState
  <2>2. msg \in Order /\ msg.uid \in Uid /\ msg.ver \in Version
    BY <2>1 DEF TypeInv, MessageAtHand, HandlingState, Order
  <2>3. TablesTypeOK'
    BY <1>28, <2>2, WithTable DEF AddOrderDelivery, Statement, AddDelivery, TypeInv, TypeOK, TablesTypeOK, tables
  <2>4. faults' \in 0 .. MaxFaults
    BY <1>28 DEF AddOrderDelivery, Statement, Fault, TypeInv, TypeOK
  <2>5. \/ Handled
        \/ msg' = msg /\ pc' \in AddOrderState \cup {"saveCache"} /\ itemsLeft' \in Seq(Chrt)
    BY <1>28, <2>2 DEF AddOrderDelivery, Statement, Goto, AddOrderState, TypeInv, TypeOK
  <2>. QED  BY <2>1, <2>3, <2>4, <2>5, StatementType
<1>29. CASE AddOrderItemsEnd
  BY <1>29
  DEF AddOrderItemsEnd, Goto,
       TypeInv, TypeOK, TablesTypeOK, tables, NoMsg, ProcState, ConsumerState,
       Subscribed, HandlingState, AddOrderState, MessageAtHand, StartedAfterLoad
<1>30. CASE SaveToCache
  <2>1. msg \in Order /\ msg.uid \in Uid
    BY <1>30 DEF SaveToCache, TypeInv, MessageAtHand, HandlingState, Order
  <2>2. Copies(cache')
    BY <1>30, <2>1, WithCopies, MessageIsCopy DEF SaveToCache, TypeInv, TypeOK
  <2>. QED
    BY <1>30, <2>2 DEF SaveToCache, Handled, TypeInv, TypeOK, TablesTypeOK, tables, NoMsg, ProcState, ConsumerState,
       Subscribed, HandlingState, AddOrderState, MessageAtHand, StartedAfterLoad
<1>31. CASE \E u \in Uid : CacheForgets(u)
  <2>1. Copies(loaded') /\ Copies(cache')
    BY <1>31, RestrictCopies DEF CacheForgets, TypeInv, TypeOK
  <2>. QED
    BY <1>31, <2>1, CopyType
    DEF CacheForgets, TypeInv, TypeOK, tables, ProcState, ConsumerState, Subscribed, HandlingState, AddOrderState,
       StartedAfterLoad, Fault
<1>32. CASE \E u \in Uid : DeleteCheck(u)
  <2>1. Copies(loaded') /\ Copies(cache')
    BY <1>32 DEF DeleteCheck, TypeInv, TypeOK
  <2>. QED
    BY <1>32, <2>1, CopyType
    DEF DeleteCheck, TypeInv, TypeOK, tables, ProcState, ConsumerState, Subscribed, HandlingState, AddOrderState,
       StartedAfterLoad, Fault
<1>33. CASE \E u \in Uid : DeleteRemove(u)
  <2>1. PICK u \in Uid : DeleteRemove(u)
    BY <1>33
  <2>2. Copies(Restrict(cache, DOMAIN cache \ {u}))
    BY RestrictCopies DEF TypeInv, TypeOK
  <2>3. Copies(loaded') /\ Copies(cache')
    BY <2>1, <2>2 DEF DeleteRemove, TypeInv, TypeOK
  <2>. QED
    BY <1>33, <2>3, CopyType
    DEF DeleteRemove, TypeInv, TypeOK, tables, ProcState, ConsumerState, Subscribed, HandlingState, AddOrderState,
       StartedAfterLoad, Fault
<1>34. CASE HandleClearOrders
  <2>1. Copies(loaded') /\ Copies(cache')
    BY <1>34, NoRowsCopies DEF HandleClearOrders, TypeInv, TypeOK
  <2>. QED
    BY <1>34, <2>1, CopyType
    DEF HandleClearOrders, TypeInv, TypeOK, tables, ProcState, ConsumerState, Subscribed, HandlingState, AddOrderState,
       StartedAfterLoad, Fault
<1>35. CASE UNCHANGED vars
  BY <1>35
  DEF vars,
       TypeInv, TypeOK, TablesTypeOK, tables, NoMsg, ProcState, ConsumerState,
       Subscribed, HandlingState, AddOrderState, MessageAtHand, StartedAfterLoad
<1>. QED
  BY <1>1, <1>2, <1>3, <1>4, <1>5, <1>6, <1>7, <1>8, <1>9, <1>10, <1>11, <1>12, <1>13, <1>14, <1>15, <1>16, <1>17, <1>18, <1>19, <1>20, <1>21, <1>22, <1>23, <1>24, <1>25, <1>26, <1>27, <1>28, <1>29, <1>30, <1>31, <1>32, <1>33, <1>34, <1>35 DEF Next, Consume, Environment, Main

-----------------------------------------------------------------------------
(* The tables, statement by statement.                                       *)

\* Steps that leave the tables alone, and the order at hand or its handling.
LEMMA DataQuiet ==
  ASSUME DataInv, UNCHANGED tables,
         pc' \notin StagedState \/ UNCHANGED <<pc, msg, itemsLeft>>
  PROVE  DataInv' /\ TablesGrow
BY DEF DataInv, tables, StagedState, RowsFollowOrders, DeliveryIsLast, StoredSoFar,
       ItemsStored, ChrtStored, TablesGrow

\* The INSERT into orders, of an order that is not there.
LEMMA InsertKeeps ==
  ASSUME RowsFollowOrders, DeliveryIsLast, msg.uid \notin DOMAIN orders, InsertOrder(msg)
  PROVE  /\ RowsFollowOrders' /\ DeliveryIsLast' /\ TablesGrow
         /\ msg.uid \in DOMAIN orders' /\ orders'[msg.uid] = msg.ver
         /\ msg.uid \notin DOMAIN deliveries'
BY DEF With, InsertOrder, RowsFollowOrders, DeliveryIsLast, ItemsStored, ChrtStored, TablesGrow

\* processPayment, of an order whose row is there.
LEMMA PaymentKeeps ==
  ASSUME RowsFollowOrders, DeliveryIsLast, ProcessPayment(msg),
         msg.uid \in DOMAIN orders, orders[msg.uid] = msg.ver
  PROVE  /\ RowsFollowOrders' /\ DeliveryIsLast' /\ TablesGrow
         /\ UNCHANGED <<orders, deliveries>>
         /\ msg.uid \in DOMAIN payments'
<1>1. UNCHANGED <<orders, deliveries, items>>
  BY DEF ProcessPayment, AddPayment, tables
<1>2. CASE PaymentExists(msg.uid)
  BY <1>2
  DEF ProcessPayment, PaymentExists, tables, RowsFollowOrders, DeliveryIsLast, ItemsStored,
      ChrtStored, TablesGrow
<1>3. CASE ~PaymentExists(msg.uid)
  BY <1>1, <1>3
  DEF With, ProcessPayment, AddPayment, RowsFollowOrders, DeliveryIsLast, ItemsStored,
      ChrtStored, TablesGrow
<1>. QED  BY <1>2, <1>3, <1>1

\* One item of AddItems: afterwards its chrt_id is there, in a row of this
\* order or of another one.
LEMMA ItemKeeps ==
  ASSUME RowsFollowOrders, DeliveryIsLast, NEW c,
         IF ItemExists(msg, c) THEN UNCHANGED tables ELSE AddItem(msg, c),
         msg.uid \in DOMAIN orders, orders[msg.uid] = msg.ver, msg.uid \notin DOMAIN deliveries
  PROVE  /\ RowsFollowOrders' /\ DeliveryIsLast' /\ TablesGrow
         /\ UNCHANGED <<orders, payments, deliveries>>
         /\ ChrtStored(c)' /\ \A d : ChrtStored(d) => ChrtStored(d)'
<1>1. UNCHANGED <<orders, payments, deliveries>> /\ items \subseteq items'
  BY DEF AddItem, tables
<1>2. \A r \in items' \ items : r.uid = msg.uid /\ r.chrt = c /\ r.ver = msg.ver
  BY DEF AddItem, tables
<1>3. ChrtStored(c)'
  <2>1. CASE ItemExists(msg, c)
    BY <2>1 DEF ItemExists, ChrtStored, tables
  <2>2. CASE ~ItemExists(msg, c)
    <3>1. CASE \E r \in items : r.chrt = c
      BY <2>2, <3>1 DEF AddItem, ChrtStored
    <3>2. CASE ~ \E r \in items : r.chrt = c
      <4>1. [uid |-> msg.uid, chrt |-> c, ver |-> msg.ver] \in items'
        BY <2>2, <3>2 DEF AddItem
      <4>2. [uid |-> msg.uid, chrt |-> c, ver |-> msg.ver].chrt = c
        OBVIOUS
      <4>. QED  BY <4>1, <4>2 DEF ChrtStored
    <3>. QED  BY <3>1, <3>2
  <2>. QED  BY <2>1, <2>2
<1>4. \A d : ChrtStored(d) => ChrtStored(d)'
  BY <1>1 DEF ChrtStored
<1>5. RowsFollowOrders'
  BY <1>1, <1>2 DEF RowsFollowOrders
<1>6. DeliveryIsLast' /\ TablesGrow
  BY <1>1, <1>2 DEF DeliveryIsLast, ItemsStored, ChrtStored, TablesGrow
<1>. QED  BY <1>1, <1>3, <1>4, <1>5, <1>6

\* The delivery, of an order with everything else in place.
LEMMA DeliveryKeeps ==
  ASSUME RowsFollowOrders, DeliveryIsLast, AddDelivery(msg), pc = "delivery",
         msg.uid \in DOMAIN orders, orders[msg.uid] = msg.ver,
         msg.uid \in DOMAIN payments, ItemsStored(msg.uid)
  PROVE  /\ RowsFollowOrders' /\ DeliveryIsLast' /\ TablesGrow
         /\ UNCHANGED orders /\ msg.uid \in DOMAIN deliveries'
BY DEF With, AddDelivery, RowsFollowOrders, DeliveryIsLast, ItemsStored, ChrtStored, TablesGrow

\* A message that is done with leaves nothing to say of an order at hand.
LEMMA HandledStored == Handled => StoredSoFar'
BY DEF Handled, StoredSoFar

\* Every step keeps what the tables promise.
LEMMA DataNext == TypeInv /\ DataInv /\ [Next]_vars => DataInv' /\ TablesGrow
<1>. SUFFICES ASSUME TypeInv, DataInv, [Next]_vars
              PROVE  DataInv' /\ TablesGrow
  OBVIOUS
<1>1. CASE \E m \in Order \cup {Bad} : Publish(m)
  BY <1>1, DataQuiet DEF Publish, StagedState
<1>2. CASE Start
  BY <1>2, DataQuiet DEF Start, StagedState
<1>3. CASE Signal
  BY <1>3, DataQuiet DEF Signal, StagedState
<1>4. CASE ShutdownDone
  BY <1>4, DataQuiet DEF ShutdownDone, StagedState
<1>5. CASE CloseCache
  BY <1>5, DataQuiet DEF CloseCache, StagedState
<1>6. CASE CloseRepository
  BY <1>6, DataQuiet DEF CloseRepository, StagedState
<1>7. CASE RestoreError
  BY <1>7, DataQuiet DEF RestoreError, StagedState
<1>8. CASE RestoreClear
  BY <1>8, DataQuiet DEF RestoreClear, StagedState
<1>9. CASE RestoreEnd
  BY <1>9, DataQuiet DEF RestoreEnd, StagedState
<1>10. CASE RunConsumer \/ Connect
  BY <1>10, DataQuiet DEF RunConsumer, Connect, StagedState
<1>11. CASE ConsumerReturns
  BY <1>11, DataQuiet DEF ConsumerReturns, StagedState
<1>12. CASE Disconnect
  BY <1>12, DataQuiet DEF Disconnect, StagedState
<1>13. CASE Reconnect
  BY <1>13, DataQuiet DEF Reconnect, StagedState
<1>14. CASE Receive
  BY <1>14, DataQuiet DEF Receive, StagedState
<1>15. CASE SaveToCache
  BY <1>15, DataQuiet DEF SaveToCache, Handled, StagedState
<1>16. CASE HandleClearOrders
  BY <1>16, DataQuiet DEF HandleClearOrders, StagedState
<1>17. CASE CheckDuplicate
  BY <1>17, DataQuiet DEF CheckDuplicate, Handled, StagedState
<1>18. CASE Load \/ LoadCut
  BY <1>18, DataQuiet DEF Load, LoadCut, LoadDone, StagedState
<1>19. CASE Restore \/ RestoreCut
  BY <1>19, DataQuiet DEF Restore, RestoreCut, RestoreRead, StagedState
<1>20. CASE LoadFails \/ LoadError \/ Crash \/ MainReturns \/ RestorePanic
  BY <1>20, DataQuiet DEF LoadFails, LoadError, Crash, MainReturns, RestorePanic, ProcessLost, StagedState
<1>21. CASE \E u \in Uid : RestoreSave(u)
  BY <1>21, DataQuiet DEF RestoreSave, StagedState
<1>22. CASE \E u \in Uid : CacheForgets(u) \/ DeleteCheck(u) \/ DeleteRemove(u)
  BY <1>22, DataQuiet DEF CacheForgets, DeleteCheck, DeleteRemove, StagedState
<1>23. CASE UNCHANGED vars
  BY <1>23, DataQuiet DEF vars, StagedState
<1>24. CASE AddOrderExists
  <2>1. UNCHANGED tables
    BY <1>24 DEF AddOrderExists, Statement
  <2>2. CASE Handled
    BY <2>1, <2>2, DataQuiet DEF Handled, StagedState
  <2>3. CASE msg.uid \notin DOMAIN orders /\ Goto("insert")
    <3>1. StoredSoFar'
      BY <2>1, <2>3 DEF Goto, StoredSoFar, tables
    <3>. QED
      BY <2>1, <3>1 DEF DataInv, RowsFollowOrders, DeliveryIsLast, ItemsStored, ChrtStored,
                        TablesGrow, tables
  <2>. QED  BY <1>24, <2>2, <2>3 DEF AddOrderExists, Statement, OrderExists
<1>25. CASE AddOrderInsert
  <2>1. pc = "insert"
    BY <1>25 DEF AddOrderInsert, Statement
  <2>2. CASE UNCHANGED tables /\ Handled
    BY <2>2, DataQuiet DEF Handled, StagedState
  <2>3. CASE InsertOrder(msg) /\ Handled
    <3>1. RowsFollowOrders' /\ DeliveryIsLast' /\ TablesGrow
      BY <2>1, <2>3, InsertKeeps DEF DataInv, StoredSoFar
    <3>. QED  BY <2>3, <3>1, HandledStored DEF DataInv
  <2>4. CASE InsertOrder(msg) /\ Goto("payment")
    <3>1. /\ RowsFollowOrders' /\ DeliveryIsLast' /\ TablesGrow
          /\ msg.uid \in DOMAIN orders' /\ orders'[msg.uid] = msg.ver
          /\ msg.uid \notin DOMAIN deliveries'
      BY <2>1, <2>4, InsertKeeps DEF DataInv, StoredSoFar
    <3>. QED  BY <2>4, <3>1 DEF DataInv, StoredSoFar, Goto
  <2>. QED  BY <1>25, <2>2, <2>3, <2>4 DEF AddOrderInsert, Statement
<1>26. CASE AddOrderPayment
  <2>1. pc = "payment"
    BY <1>26 DEF AddOrderPayment, Statement
  <2>2. CASE UNCHANGED tables /\ Handled
    BY <2>2, DataQuiet DEF Handled, StagedState
  <2>3. CASE ProcessPayment(msg) /\ Handled
    <3>1. RowsFollowOrders' /\ DeliveryIsLast' /\ TablesGrow
      BY <2>1, <2>3, PaymentKeeps DEF DataInv, StoredSoFar
    <3>. QED  BY <2>3, <3>1, HandledStored DEF DataInv
  <2>4. CASE ProcessPayment(msg) /\ pc' = "items" /\ itemsLeft' = ItemsOf[msg.uid] /\ UNCHANGED msg
    <3>1. /\ RowsFollowOrders' /\ DeliveryIsLast' /\ TablesGrow
          /\ UNCHANGED <<orders, deliveries>> /\ msg.uid \in DOMAIN payments'
      BY <2>1, <2>4, PaymentKeeps DEF DataInv, StoredSoFar
    <3>2. \A i \in DOMAIN ItemsOf[msg'.uid] :
            \E j \in DOMAIN itemsLeft' : itemsLeft'[j] = ItemsOf[msg'.uid][i]
      BY <2>4
    <3>3. StoredSoFar'
      BY <2>1, <2>4, <3>1, <3>2 DEF DataInv, StoredSoFar
    <3>. QED  BY <3>1, <3>3 DEF DataInv
  <2>. QED  BY <1>26, <2>2, <2>3, <2>4 DEF AddOrderPayment, Statement
<1>27. CASE AddOrderItem
  <2>1. pc = "items" /\ itemsLeft # << >> /\ itemsLeft \in Seq(Chrt)
    BY <1>27 DEF AddOrderItem, Statement, TypeInv, TypeOK
  <2>2. CASE UNCHANGED tables /\ Handled
    BY <2>2, DataQuiet DEF Handled, StagedState
  <2>3. PICK item : item = Head(itemsLeft)
    OBVIOUS
  <2>4. CASE IF ItemExists(msg, item) THEN UNCHANGED tables ELSE AddItem(msg, item)
    <3>1. /\ RowsFollowOrders' /\ DeliveryIsLast' /\ TablesGrow
          /\ UNCHANGED <<orders, payments, deliveries>>
          /\ ChrtStored(item)' /\ \A d : ChrtStored(d) => ChrtStored(d)'
      BY <2>1, <2>4, ItemKeeps DEF DataInv, StoredSoFar
    <3>2. CASE Handled
      BY <3>1, <3>2, HandledStored DEF DataInv
    <3>3. CASE itemsLeft' = AfterItem /\ UNCHANGED <<pc, msg>>
      <4>1. ASSUME NEW j \in DOMAIN itemsLeft
            PROVE  itemsLeft[j] = item \/ \E k \in DOMAIN itemsLeft' : itemsLeft'[k] = itemsLeft[j]
        <5>1. CASE j = 1
          BY <5>1, <2>1, <2>3
        <5>2. CASE j # 1
          <6>1. j - 1 \in DOMAIN itemsLeft' /\ itemsLeft'[j - 1] = itemsLeft[j]
            BY <2>1, <3>3, <5>2 DEF AfterItem
          <6>. QED  BY <6>1
        <5>. QED  BY <5>1, <5>2
      <4>2. ASSUME NEW i \in DOMAIN ItemsOf[msg.uid]
            PROVE  \/ ChrtStored(ItemsOf[msg.uid][i])'
                   \/ \E k \in DOMAIN itemsLeft' : itemsLeft'[k] = ItemsOf[msg.uid][i]
        <5>1. CASE ChrtStored(ItemsOf[msg.uid][i])
          BY <3>1, <5>1, <3>3 DEF ChrtStored
        <5>2. CASE \E j \in DOMAIN itemsLeft : itemsLeft[j] = ItemsOf[msg.uid][i]
          BY <3>1, <5>2, <4>1, <3>3 DEF ChrtStored
        <5>. QED  BY <2>1, <5>1, <5>2 DEF DataInv, StoredSoFar
      <4>3. StoredSoFar'
        BY <2>1, <3>1, <3>3, <4>2 DEF DataInv, StoredSoFar
      <4>. QED  BY <3>1, <4>3 DEF DataInv
    <3>. QED  BY <1>27, <2>1, <3>2, <3>3 DEF AddOrderItem, Statement
  <2>. QED  BY <1>27, <2>2, <2>3, <2>4 DEF AddOrderItem, Statement
<1>28. CASE AddOrderItemsEnd
  <2>1. UNCHANGED <<tables, msg>> /\ pc = "items" /\ pc' = "delivery" /\ itemsLeft = << >>
    BY <1>28 DEF AddOrderItemsEnd, Goto
  <2>2. ItemsStored(msg.uid)
    BY <2>1 DEF DataInv, StoredSoFar, ItemsStored
  <2>3. StoredSoFar'
    BY <2>1, <2>2 DEF DataInv, StoredSoFar, ItemsStored, ChrtStored, tables
  <2>. QED
    BY <2>1, <2>3 DEF DataInv, RowsFollowOrders, DeliveryIsLast, ItemsStored, ChrtStored,
                      TablesGrow, tables
<1>29. CASE AddOrderDelivery
  <2>1. pc = "delivery"
    BY <1>29 DEF AddOrderDelivery, Statement
  <2>2. CASE UNCHANGED tables /\ Handled
    BY <2>2, DataQuiet DEF Handled, StagedState
  <2>3. CASE AddDelivery(msg) /\ Handled
    <3>1. RowsFollowOrders' /\ DeliveryIsLast' /\ TablesGrow
      BY <2>1, <2>3, DeliveryKeeps DEF DataInv, StoredSoFar
    <3>. QED  BY <2>3, <3>1, HandledStored DEF DataInv
  <2>4. CASE AddDelivery(msg) /\ Goto("saveCache")
    <3>1. /\ RowsFollowOrders' /\ DeliveryIsLast' /\ TablesGrow
          /\ UNCHANGED orders /\ msg.uid \in DOMAIN deliveries'
      BY <2>1, <2>4, DeliveryKeeps DEF DataInv, StoredSoFar
    <3>2. StoredSoFar'
      BY <2>1, <2>4, <3>1 DEF DataInv, StoredSoFar, Goto
    <3>. QED  BY <3>1, <3>2 DEF DataInv
  <2>. QED  BY <1>29, <2>2, <2>3, <2>4 DEF AddOrderDelivery, Statement
<1>. QED
  BY <1>1, <1>2, <1>3, <1>4, <1>5, <1>6, <1>7, <1>8, <1>9, <1>10, <1>11, <1>12, <1>13, <1>14, <1>15, <1>16, <1>17, <1>18, <1>19, <1>20, <1>21, <1>22, <1>23, <1>24, <1>25, <1>26, <1>27, <1>28, <1>29 DEF Next, Consume, Environment, Main

-----------------------------------------------------------------------------
(* The items.                                                                *)

\* Steps that are not AddItems', nor on the way to it.
LEMMA ItemsQuiet ==
  ASSUME ItemsInv, UNCHANGED items, pc' # "items" \/ UNCHANGED <<pc, msg, itemsLeft>>
  PROVE  ItemsInv'
BY DEF ItemsInv

\* Every step keeps ItemsInv.
LEMMA ItemsNext == TypeInv /\ ItemsInv /\ [Next]_vars => ItemsInv'
<1>. SUFFICES ASSUME TypeInv, ItemsInv, [Next]_vars PROVE ItemsInv'
  OBVIOUS
<1>1. CASE Main \/ Environment \/ UNCHANGED vars
  BY <1>1, ItemsQuiet
  DEF Main, Environment, Start, Load, LoadDone, LoadFails, ShutdownDone, CloseCache,
      CloseRepository, MainReturns, Publish, CacheForgets, DeleteCheck, DeleteRemove,
      HandleClearOrders, Crash, Signal, LoadCut, LoadError, RestoreCut, RestoreRead,
      RestoreError, RestorePanic, Disconnect, ProcessLost, tables, vars
<1>2. CASE \/ Restore \/ RestoreClear \/ RestoreEnd \/ \E u \in Uid : RestoreSave(u)
           \/ RunConsumer \/ Connect \/ Reconnect \/ ConsumerReturns
           \/ Receive \/ CheckDuplicate \/ SaveToCache \/ AddOrderItemsEnd
  BY <1>2, ItemsQuiet
  DEF Restore, RestoreRead, RestoreClear, RestoreEnd, RestoreSave, RunConsumer, Connect,
      Reconnect, ConsumerReturns, Receive, CheckDuplicate, SaveToCache, AddOrderItemsEnd,
      Handled, Goto, tables
<1>3. CASE AddOrderExists \/ AddOrderInsert \/ AddOrderDelivery
  BY <1>3, ItemsQuiet
  DEF AddOrderExists, AddOrderInsert, AddOrderDelivery, Statement, InsertOrder, AddDelivery,
      Handled, Goto, tables
<1>4. CASE AddOrderPayment
  <2>1. UNCHANGED items
    BY <1>4 DEF AddOrderPayment, Statement, ProcessPayment, AddPayment, tables
  <2>2. CASE Handled
    BY <2>1, <2>2, ItemsQuiet DEF Handled
  <2>3. CASE pc' = "items" /\ itemsLeft' = ItemsOf[msg.uid] /\ UNCHANGED msg
    BY <2>1, <2>3 DEF ItemsInv, ItemSet, Range
  <2>. QED  BY <1>4, <2>2, <2>3 DEF AddOrderPayment, Statement
<1>5. CASE AddOrderItem
  <2>1. pc = "items" /\ itemsLeft \in Seq(Chrt) /\ itemsLeft # << >>
    BY <1>5 DEF AddOrderItem, Statement, TypeInv, TypeOK
  <2>2. Head(itemsLeft) \in ItemSet(msg.uid)
    <3>1. 1 \in DOMAIN itemsLeft /\ Head(itemsLeft) = itemsLeft[1]
      BY <2>1
    <3>. QED  BY <2>1, <3>1 DEF ItemsInv
  <2>3. \A r \in items' \ items : r.uid = msg.uid /\ r.chrt = Head(itemsLeft)
    BY <1>5 DEF AddOrderItem, Statement, AddItem, tables
  <2>4. \A r \in items' : r.chrt \in ItemSet(r.uid)
    BY <2>2, <2>3 DEF ItemsInv
  <2>5. CASE Handled
    BY <2>4, <2>5 DEF Handled, ItemsInv
  <2>6. CASE itemsLeft' = AfterItem /\ UNCHANGED <<pc, msg>>
    <3>1. ASSUME NEW k \in DOMAIN itemsLeft'
          PROVE  itemsLeft'[k] \in ItemSet(msg.uid)
      <4>1. k + 1 \in DOMAIN itemsLeft /\ itemsLeft'[k] = itemsLeft[k + 1]
        BY <2>1, <2>6 DEF AfterItem
      <4>. QED  BY <2>1, <4>1 DEF ItemsInv
    <3>. QED  BY <2>4, <2>6, <3>1 DEF ItemsInv
  <2>. QED  BY <1>5, <2>5, <2>6 DEF AddOrderItem, Statement
<1>. QED  BY <1>1, <1>2, <1>3, <1>4, <1>5 DEF Next, Consume

-----------------------------------------------------------------------------
(* The copies of stored orders: in the cache, and on their way to it.        *)

\* All rows of an order are from the message its orders row is from.
LEMMA OneMessage ==
  ASSUME RowsFollowOrders, NEW u \in DOMAIN orders
  PROVE  RowsOf(u) = {orders[u]}
BY DEF RowsFollowOrders, RowsOf

\* The same after a step.
LEMMA OneMessageNext ==
  ASSUME RowsFollowOrders', NEW u \in DOMAIN orders'
  PROVE  RowsOf(u)' = {orders'[u]}
BY DEF RowsFollowOrders, RowsOf

\* What GetOrders puts together of an order is backed.
LEMMA LoadedBacked ==
  ASSUME ItemsInv, NEW cut, NEW S \in ReadSets(cut), NEW u \in S
  PROVE  Backed(u, Loaded(S)[u])
<1>1. u \in DOMAIN orders \cap DOMAIN payments \cap DOMAIN deliveries
  BY DEF ReadSets, PanicsOn, FailsOn, DeliveryIsNil, PaymentMissing, PaymentExists
<1>2. Loaded(S)[u] = [vers |-> RowsOf(u), chrts |-> StoredItems(u)]
  BY DEF Loaded
<1>3. StoredItems(u) \subseteq ItemSet(u)
  BY DEF ItemsInv, StoredItems
<1>. QED  BY <1>1, <1>2, <1>3 DEF Backed

\* So is the message that AddOrder has just stored.
LEMMA SavedBacked ==
  ASSUME DataInv, ItemsInv, pc = "saveCache"
  PROVE  Backed(msg.uid, FromMessage(msg))
<1>. DEFINE u == msg.uid
            copy == FromMessage(msg)
<1>1. u \in DOMAIN orders \cap DOMAIN payments \cap DOMAIN deliveries /\ orders[u] = msg.ver
  BY DEF DataInv, StoredSoFar, DeliveryIsLast, RowsFollowOrders
<1>2. copy.vers = RowsOf(u) /\ copy.chrts = ItemSet(u)
  BY <1>1, OneMessage DEF DataInv, FromMessage
<1>3. StoredItems(u) \subseteq ItemSet(u)
  BY DEF ItemsInv, StoredItems
<1>4. ASSUME NEW c \in ItemSet(u) \ StoredItems(u)
      PROVE  \E r \in items : r.chrt = c /\ r.uid # u
  <2>1. PICK i \in DOMAIN ItemsOf[u] : ItemsOf[u][i] = c
    BY <1>4 DEF ItemSet, Range
  <2>2. PICK r \in items : r.chrt = c
    BY <1>1, <2>1 DEF DataInv, DeliveryIsLast, ItemsStored, ChrtStored
  <2>3. r.uid # u
    BY <1>4, <2>2 DEF StoredItems
  <2>. QED  BY <2>2, <2>3
<1>. HIDE DEF u, copy
<1>5. Backed(u, copy)
  BY <1>1, <1>2, <1>3, <1>4 DEF Backed
<1>. QED  BY <1>5 DEF u, copy

\* A step leaves a backed copy backed: the rows of its order stay as they are.
LEMMA BackedStays ==
  ASSUME DataInv, DataInv', TablesGrow, NEW u, NEW copy, Backed(u, copy)
  PROVE  Backed(u, copy)'
<1>1. u \in DOMAIN orders' \cap DOMAIN payments' \cap DOMAIN deliveries'
  BY DEF Backed, TablesGrow
<1>2. RowsOf(u)' = RowsOf(u)
  <2>1. u \in DOMAIN orders /\ u \in DOMAIN orders' /\ orders'[u] = orders[u]
    BY DEF Backed, TablesGrow
  <2>2. RowsOf(u) = {orders[u]}
    BY <2>1, OneMessage DEF DataInv
  <2>3. RowsOf(u)' = {orders'[u]}
    BY <2>1, OneMessageNext DEF DataInv
  <2>. QED  BY <2>1, <2>2, <2>3
<1>3. StoredItems(u)' = StoredItems(u)
  BY DEF Backed, TablesGrow, StoredItems
<1>4. items \subseteq items'
  BY DEF TablesGrow
<1>. QED  BY <1>1, <1>2, <1>3, <1>4 DEF Backed

\* A step keeps the copies backed if it makes no other copies than these:
\* copies of before, and backed ones.
LEMMA CopiesStay ==
  ASSUME DataInv, DataInv', CopyInv, TablesGrow,
         \A u \in DOMAIN cache' : \/ u \in DOMAIN cache /\ cache'[u] = cache[u]
                                 \/ Backed(u, cache'[u]),
         \A u \in DOMAIN loaded' : \/ u \in DOMAIN loaded /\ loaded'[u] = loaded[u]
                                  \/ Backed(u, loaded'[u])
  PROVE  CopyInv'
<1>1. ASSUME NEW u \in DOMAIN cache'
      PROVE  Backed(u, cache[u])'
  <2>1. PICK copy : copy = cache'[u]
    OBVIOUS
  <2>2. Backed(u, copy)
    BY <2>1 DEF CopyInv, CacheBackedByDB
  <2>3. Backed(u, copy)'
    BY <2>2, BackedStays
  <2>. QED  BY <2>1, <2>3 DEF Backed
<1>2. ASSUME NEW u \in DOMAIN loaded'
      PROVE  Backed(u, loaded[u])'
  <2>1. PICK copy : copy = loaded'[u]
    OBVIOUS
  <2>2. Backed(u, copy)
    BY <2>1 DEF CopyInv, LoadedBackedByDB
  <2>3. Backed(u, copy)'
    BY <2>2, BackedStays
  <2>. QED  BY <2>1, <2>3 DEF Backed
<1>. QED  BY <1>1, <1>2 DEF CopyInv, CacheBackedByDB, LoadedBackedByDB

\* Every step keeps the copies backed.
LEMMA CopyNext == IInv /\ DataInv' /\ TablesGrow /\ [Next]_vars => CopyInv'
<1>. SUFFICES ASSUME IInv, DataInv', TablesGrow, [Next]_vars
              PROVE  CopyInv'
  OBVIOUS
<1>. USE DEF IInv
<1>1. CASE UNCHANGED <<cache, loaded>>
  BY <1>1, CopiesStay
<1>2. CASE cache' = NoRows /\ (UNCHANGED loaded \/ loaded' = NoRows)
  BY <1>2, CopiesStay DEF NoRows
<1>3. CASE \E u \in Uid : cache' = Restrict(cache, DOMAIN cache \ {u}) /\ UNCHANGED loaded
  BY <1>3, CopiesStay DEF Restrict
<1>4. CASE \E cut \in BOOLEAN : \E S \in ReadSets(cut) : cache' = Loaded(S) /\ UNCHANGED loaded
  <2>1. PICK cut \in BOOLEAN : \E S \in ReadSets(cut) : cache' = Loaded(S) /\ UNCHANGED loaded
    BY <1>4
  <2>2. PICK S \in ReadSets(cut) : cache' = Loaded(S) /\ UNCHANGED loaded
    BY <2>1
  <2>3. DOMAIN cache' = S
    BY <2>2 DEF Loaded
  <2>4. \A u \in DOMAIN cache' : Backed(u, cache'[u])
    BY <2>2, <2>3, LoadedBacked
  <2>. QED  BY <2>2, <2>4, CopiesStay
<1>5. CASE \E cut \in BOOLEAN : \E S \in ReadSets(cut) : loaded' = Loaded(S) /\ UNCHANGED cache
  <2>1. PICK cut \in BOOLEAN : \E S \in ReadSets(cut) : loaded' = Loaded(S) /\ UNCHANGED cache
    BY <1>5
  <2>2. PICK S \in ReadSets(cut) : loaded' = Loaded(S) /\ UNCHANGED cache
    BY <2>1
  <2>3. DOMAIN loaded' = S
    BY <2>2 DEF Loaded
  <2>4. \A u \in DOMAIN loaded' : Backed(u, loaded'[u])
    BY <2>2, <2>3, LoadedBacked
  <2>. QED  BY <2>2, <2>4, CopiesStay
<1>6. CASE \E u \in Uid : RestoreSave(u)
  BY <1>6, CopiesStay
  DEF RestoreSave, LeftToSave, With, Restrict, CopyInv, LoadedBackedByDB
<1>7. CASE SaveToCache
  BY <1>7, SavedBacked, CopiesStay DEF SaveToCache, With
<1>8. CASE Load \/ LoadCut
  <2>1. \E cut \in BOOLEAN : LoadDone(cut)
    BY <1>8 DEF Load, LoadCut
  <2>. QED  BY <1>4, <2>1 DEF LoadDone
<1>9. CASE Restore \/ RestoreCut
  <2>1. \E cut \in BOOLEAN : RestoreRead(cut)
    BY <1>9 DEF Restore, RestoreCut
  <2>. QED  BY <1>5, <2>1 DEF RestoreRead
<1>10. CASE \/ CloseCache \/ RestoreClear \/ HandleClearOrders
            \/ LoadFails \/ LoadError \/ Crash \/ MainReturns \/ RestorePanic
  BY <1>2, <1>10
  DEF CloseCache, RestoreClear, HandleClearOrders, ProcessLost, LoadFails, LoadError, Crash,
      MainReturns, RestorePanic
<1>11. CASE \E u \in Uid : CacheForgets(u) \/ DeleteRemove(u)
  BY <1>3, <1>11 DEF CacheForgets, DeleteRemove
<1>12. CASE \/ \E m \in Order \cup {Bad} : Publish(m)
            \/ Start \/ Signal \/ ShutdownDone \/ CloseRepository
            \/ RestoreError \/ RestoreEnd \/ RunConsumer \/ Connect \/ ConsumerReturns \/ Disconnect \/ Reconnect
            \/ Receive \/ CheckDuplicate
            \/ \E u \in Uid : DeleteCheck(u)
            \/ UNCHANGED vars
  BY <1>1, <1>12
  DEF Publish, Start, Signal, ShutdownDone, CloseRepository, RestoreError, RestoreEnd, RunConsumer,
      Connect, ConsumerReturns, Disconnect, Reconnect, Receive, CheckDuplicate, DeleteCheck, vars
<1>13. CASE \/ AddOrderExists \/ AddOrderInsert \/ AddOrderPayment \/ AddOrderItem
            \/ AddOrderItemsEnd \/ AddOrderDelivery
  BY <1>1, <1>13
  DEF AddOrderExists, AddOrderInsert, AddOrderPayment, AddOrderItem, AddOrderItemsEnd,
      AddOrderDelivery, Statement
<1>. QED
  BY <1>6, <1>7, <1>8, <1>9, <1>10, <1>11, <1>12, <1>13 DEF Next, Consume, Environment, Main

-----------------------------------------------------------------------------
(* The theorems.                                                             *)

\* The invariant is inductive, and a step only lets the tables grow.
LEMMA NextIInv == IInv /\ [Next]_vars => IInv' /\ TablesGrow
BY TypeNext, DataNext, ItemsNext, CopyNext DEF IInv

\* IInv implies DeliveryMarksComplete.
LEMMA IInvComplete == IInv => DeliveryMarksComplete
BY DEF IInv, DataInv, RowsFollowOrders, DeliveryIsLast, ItemsStored, ChrtStored, DeliveryMarksComplete

\* The state of the service, its topic and its tables keep their shape.
THEOREM ServiceTypeCorrect == Spec => []TypeOK
<1>1. IInv => TypeOK
  BY DEF IInv, TypeInv
<1>. QED  BY <1>1, InitIInv, NextIInv, PTL DEF Spec

\* Whatever AddOrder, its failures, crashes and restarts have done before, an
\* order with a delivery row has all its other rows, all from one message.
THEOREM CompleteWhenDelivered == Spec => []DeliveryMarksComplete
BY InitIInv, NextIInv, IInvComplete, PTL DEF Spec

\* Whatever the consumer, the handlers, the restores and the cache itself do,
\* an order is served from the cache only if its orders, payment and delivery
\* rows are there with the same contents, and each of its items has its row or
\* has been lost to an order that holds its chrt_id.
THEOREM CacheIsBacked == Spec => []CacheBackedByDB
<1>1. IInv => CacheBackedByDB
  BY DEF IInv, CopyInv
<1>. QED  BY <1>1, InitIInv, NextIInv, PTL DEF Spec

\* No row of a stored order is ever written from another message.
THEOREM FirstMessageAlwaysWins == Spec => FirstMessageWins
<1>1. IInv /\ IInv' /\ TablesGrow =>
        \A u \in DOMAIN orders :
          /\ u \in DOMAIN orders' /\ orders'[u] = orders[u]
          /\ \A t \in {<<payments, payments'>>, <<deliveries, deliveries'>>} :
               u \in DOMAIN t[2] => t[2][u] = orders[u]
  BY DEF IInv, DataInv, RowsFollowOrders, TablesGrow
<1>. QED  BY <1>1, InitIInv, NextIInv, PTL DEF Spec, FirstMessageWins

\* AddOrder gets past its first INSERT only by that INSERT.
LEMMA PastInsertKept ==
  ASSUME IInv, [Next]_vars, pc' \in PastInsert
  PROVE  (pc \in PastInsert \/ pc = "insert") /\ msg' = msg
<1>. USE DEF PastInsert
<1>1. CASE \/ AddOrderExists \/ AddOrderInsert \/ AddOrderPayment \/ AddOrderItem
           \/ AddOrderItemsEnd \/ AddOrderDelivery
  BY <1>1
  DEF AddOrderExists, AddOrderInsert, AddOrderPayment, AddOrderItem, AddOrderItemsEnd,
      AddOrderDelivery, Statement, Goto, Handled
<1>2. CASE Main \/ Environment \/ UNCHANGED vars
  BY <1>2
  DEF Main, Environment, Start, Load, LoadDone, LoadFails, ShutdownDone, CloseCache,
      CloseRepository, MainReturns, Publish, CacheForgets, DeleteCheck, DeleteRemove,
      HandleClearOrders, Crash, Signal, LoadCut, LoadError, RestoreCut, RestoreRead,
      RestoreError, RestorePanic, Disconnect, ProcessLost, vars
<1>3. CASE \/ Restore \/ RestoreClear \/ RestoreEnd \/ \E u \in Uid : RestoreSave(u)
           \/ RunConsumer \/ Connect \/ Reconnect \/ ConsumerReturns
           \/ Receive \/ CheckDuplicate \/ SaveToCache
  BY <1>3
  DEF Restore, RestoreRead, RestoreClear, RestoreEnd, RestoreSave, RunConsumer, Connect,
      Reconnect, ConsumerReturns, Receive, CheckDuplicate, SaveToCache, Handled
<1>. QED  BY <1>1, <1>2, <1>3 DEF Next, Consume

\* Nothing the service does, in this run or a later one, completes an order
\* that AddOrder has given up on, or goes on with it.
THEOREM TornStaysTorn == Spec => TornForever
<1>1. ASSUME IInv, [Next]_vars, TablesGrow, NEW u \in Uid, Abandoned(u)
      PROVE  Abandoned(u)'
  <2>1. u \in DOMAIN orders' /\ u \notin DOMAIN deliveries'
    BY <1>1, BadAssumption
    DEF Abandoned, Torn, InProgress, PastInsert, TablesGrow, IInv, TypeInv, MessageAtHand,
        HandlingState, AddOrderState, NoMsg
  <2>2. ~InProgress(u)'
    BY <1>1, PastInsertKept
    DEF Abandoned, Torn, InProgress, IInv, DataInv, StoredSoFar
  <2>. QED  BY <2>1, <2>2 DEF Abandoned, Torn
<1>2. IInv /\ [Next]_vars /\ TablesGrow => \A u \in Uid : Abandoned(u) => Abandoned(u)'
  BY <1>1
<1>. QED  BY <1>2, InitIInv, NextIInv, PTL DEF Spec, TornForever

\* A whole order that neither the cache nor the restore holds is not served
\* again before the next start, whatever messages come.
THEOREM GoneStaysGone == Spec => GoneUntilRestart
<1>1. ASSUME IInv, [Next]_vars, TablesGrow, NEW u \in Uid, Gone(u), pc' # "none"
      PROVE  Gone(u)'
  <2>. USE <1>1 DEF Gone
  <2>1. u \in DOMAIN deliveries'
    BY DEF TablesGrow
  <2>2. CASE \/ AddOrderExists \/ AddOrderInsert \/ AddOrderPayment \/ AddOrderItem
             \/ AddOrderItemsEnd
    BY <2>1, <2>2
    DEF AddOrderExists, AddOrderInsert, AddOrderPayment, AddOrderItem, AddOrderItemsEnd,
        Statement, Goto, Handled
  <2>3. CASE AddOrderDelivery
    BY <2>1, <2>3
    DEF AddOrderDelivery, Statement, Goto, Handled, IInv, DataInv, StoredSoFar
  <2>4. CASE SaveToCache
    BY <2>1, <2>4 DEF SaveToCache, Handled, With
  <2>5. CASE \E w \in Uid : RestoreSave(w)
    BY <2>1, <2>5 DEF RestoreSave, LeftToSave, With, Restrict
  <2>6. CASE \/ RestoreClear \/ RestoreEnd \/ RunConsumer \/ Connect \/ Reconnect
             \/ ConsumerReturns \/ Receive \/ CheckDuplicate \/ Disconnect
    BY <2>1, <2>6
    DEF RestoreClear, RestoreEnd, RunConsumer, Connect, Reconnect, ConsumerReturns, Receive,
        CheckDuplicate, Disconnect, Handled, NoRows
  <2>7. CASE Restore \/ RestoreCut \/ RestoreError \/ Load \/ LoadCut
    BY <2>7
    DEF Restore, RestoreCut, RestoreRead, RestoreError, Load, LoadCut, LoadDone, IInv,
        StartedAfterLoad
  <2>8. CASE LoadFails \/ LoadError \/ Crash \/ MainReturns \/ RestorePanic
    BY <2>8 DEF LoadFails, LoadError, Crash, MainReturns, RestorePanic, ProcessLost
  <2>9. CASE \/ \E m \in Order \cup {Bad} : Publish(m)
             \/ Start \/ Signal \/ ShutdownDone \/ CloseCache \/ CloseRepository
             \/ UNCHANGED vars
    BY <2>1, <2>9
    DEF Publish, Start, Signal, ShutdownDone, CloseCache, CloseRepository, NoRows, vars
  <2>10. CASE HandleClearOrders \/ \E w \in Uid : CacheForgets(w) \/ DeleteCheck(w) \/ DeleteRemove(w)
    BY <2>1, <2>10
    DEF HandleClearOrders, CacheForgets, DeleteCheck, DeleteRemove, NoRows, Restrict
  <2>. QED
    BY <2>2, <2>3, <2>4, <2>5, <2>6, <2>7, <2>8, <2>9, <2>10 DEF Next, Consume, Main, Environment
<1>2. IInv /\ [Next]_vars /\ TablesGrow => \A u \in Uid : Gone(u) => Gone(u)' \/ pc' = "none"
  BY <1>1
<1>. QED  BY <1>2, InitIInv, NextIInv, PTL DEF Spec, GoneUntilRestart

-----------------------------------------------------------------------------
(* What becomes of a message the consumer has taken. Its offset is past it,  *)
(* whatever AddOrder answers, so nobody will send it again.                  *)

\* The consumer goes on to the next message.
DoneWithMessage == pc \in HandlingState /\ pc' = "poll"

\* What excuses it: the order is whole, or an earlier attempt left it half
\* written, or the tables do not take it.
MessageAccountedFor ==
  \/ msg.uid \in DOMAIN deliveries'
  \/ Abandoned(msg.uid)
  \/ Unfit[msg.ver] # {}
  \/ ~UniqueChrt

\* handleMessage leaves a message only where it says so.
LEMMA DoneByHandling ==
  ASSUME [Next]_vars, DoneWithMessage
  PROVE  \/ CheckDuplicate \/ AddOrderExists \/ AddOrderInsert \/ AddOrderPayment
         \/ AddOrderItem \/ AddOrderDelivery \/ SaveToCache
<1>. USE DEF DoneWithMessage, HandlingState, AddOrderState
<1>1. ~(Main \/ Environment \/ UNCHANGED vars)
  BY DEF Main, Environment, Start, Load, LoadDone, LoadFails, ShutdownDone, CloseCache,
         CloseRepository, MainReturns, Publish, CacheForgets, DeleteCheck, DeleteRemove,
         HandleClearOrders, Crash, Signal, LoadCut, LoadError, RestoreCut, RestoreRead,
         RestoreError, RestorePanic, Disconnect, ProcessLost, vars
<1>2. ~(\/ Restore \/ RestoreClear \/ RestoreEnd \/ \E u \in Uid : RestoreSave(u)
        \/ RunConsumer \/ Connect \/ Reconnect \/ ConsumerReturns \/ Receive
        \/ AddOrderItemsEnd)
  BY DEF Restore, RestoreRead, RestoreClear, RestoreEnd, RestoreSave, RunConsumer, Connect,
         Reconnect, ConsumerReturns, Receive, AddOrderItemsEnd, Goto
<1>. QED  BY <1>1, <1>2 DEF Next, Consume

\* While the database answers, the consumer is done with a message only when
\* its order is whole, or was half written before, or does not fit: the cached
\* and the duplicate messages it drops are of orders that are there.
THEOREM NoMessageLostSilently ==
  Spec => [][DoneWithMessage /\ DBOpen /\ UNCHANGED faults => MessageAccountedFor]_vars
<1>1. ASSUME IInv, [Next]_vars, DoneWithMessage, DBOpen, UNCHANGED faults
      PROVE  MessageAccountedFor
  <2>. USE <1>1 DEF MessageAccountedFor
  <2>1. faults \in Nat /\ ~Fault
    BY BoundsAssumption DEF IInv, TypeInv, TypeOK, Fault
  <2>2. ASSUME msg.uid \in DOMAIN orders, pc \notin PastInsert, UNCHANGED tables
        PROVE  MessageAccountedFor
    BY <2>2 DEF Abandoned, Torn, InProgress, tables
  <2>3. CASE CheckDuplicate
    <3>1. msg.uid \in DOMAIN cache /\ UNCHANGED tables
      BY <2>3 DEF CheckDuplicate, DoneWithMessage
    <3>. QED  BY <3>1 DEF IInv, CopyInv, CacheBackedByDB, Backed, tables
  <2>4. CASE AddOrderExists
    BY <2>1, <2>2, <2>4
    DEF AddOrderExists, Statement, OrderExists, Goto, DoneWithMessage, PastInsert, DBOpen
  <2>5. CASE AddOrderInsert
    <3>1. pc = "insert" /\ OrderRejected(msg) /\ UNCHANGED tables
      BY <2>1, <2>5 DEF AddOrderInsert, Statement, Goto, DoneWithMessage
    <3>. QED  BY <2>2, <3>1 DEF OrderRejected, OrderExists, PastInsert
  <2>6. CASE AddOrderPayment
    BY <2>1, <2>6 DEF AddOrderPayment, Statement, DoneWithMessage, PaymentRejected
  <2>7. CASE AddOrderItem
    BY <2>1, <2>7 DEF AddOrderItem, Statement, DoneWithMessage, ItemRejected
  <2>8. CASE AddOrderDelivery
    BY <2>1, <2>8 DEF AddOrderDelivery, Statement, Goto, DoneWithMessage, DeliveryRejected
  <2>9. CASE SaveToCache
    BY <2>9 DEF SaveToCache, IInv, DataInv, StoredSoFar, tables
  <2>. QED  BY <2>3, <2>4, <2>5, <2>6, <2>7, <2>8, <2>9, DoneByHandling
<1>2. IInv /\ [Next]_vars =>
        (DoneWithMessage /\ DBOpen /\ UNCHANGED faults => MessageAccountedFor)
  BY <1>1
<1>. QED  BY <1>2, InitIInv, NextIInv, PTL DEF Spec

-----------------------------------------------------------------------------
(* Why orders are torn, if nothing fails and nobody stops the service. The    *)
(* schema has to have the index ON CONFLICT (chrt_id) asks for.              *)

NoFaultYet == faults = 0 /\ stops = 0

\* Until then the process is starting or up, and an order can be torn only
\* while AddOrder is past its first INSERT, or for a row that does not fit.
TornReason(u) ==
  \/ Unfit[orders[u]] # {}
  \/ pc \in PastInsert /\ msg.uid = u

TornInv ==
  NoFaultYet => /\ proc \in {"down", "load", "up"}
                /\ \A u \in DOMAIN orders \ DOMAIN deliveries : TornReason(u)

\* Before the first start no order is torn.
LEMMA InitTornInv == Init => TornInv
BY DEF Init, InitTables, NoRows, TornInv

\* Steps in which nothing happens to an order AddOrder is working on, or
\* AddOrder goes on with it.
LEMMA TornQuiet ==
  ASSUME TornInv, UNCHANGED <<orders, deliveries, faults, stops>>,
         NoFaultYet => proc' \in {"down", "load", "up"},
         \/ pc \notin PastInsert
         \/ pc' \in PastInsert /\ UNCHANGED msg
  PROVE  TornInv'
BY DEF TornInv, NoFaultYet, TornReason, PastInsert

\* Steps in which AddOrder gives up: the order does not fit, or the service is
\* being stopped.
LEMMA TornGivenUp ==
  ASSUME TornInv, DataInv, UNCHANGED <<orders, deliveries, faults, stops, proc>>,
         pc \in PastInsert, Unfit[msg.ver] # {} \/ ~DBOpen
  PROVE  TornInv'
BY DEF TornInv, NoFaultYet, TornReason, PastInsert, DataInv, StoredSoFar, DBOpen

\* A step that counts a fault or a stop leaves nothing to show.
LEMMA TornCounted ==
  ASSUME TypeInv, Fault \/ stops' = stops + 1
  PROVE  TornInv'
BY BoundsAssumption DEF TornInv, NoFaultYet, Fault, TypeInv, TypeOK

\* Every step keeps TornInv, if there is an index on chrt_id.
LEMMA TornNext == UniqueChrt /\ IInv /\ TornInv /\ [Next]_vars => TornInv'
<1>. SUFFICES ASSUME UniqueChrt, IInv, TornInv, [Next]_vars
              PROVE  TornInv'
  OBVIOUS
<1>. USE DEF IInv
<1>a. NoFaultYet => proc \in {"down", "load", "up"}
  BY DEF TornInv
<1>b. CASE Fault
  BY <1>b, TornCounted
<1>1. CASE \/ \E m \in Order \cup {Bad} : Publish(m)
           \/ Start \/ ShutdownDone \/ CloseCache \/ CloseRepository
           \/ \E u \in Uid : CacheForgets(u) \/ DeleteCheck(u) \/ DeleteRemove(u)
           \/ HandleClearOrders \/ UNCHANGED vars
  BY <1>a, <1>1, TornQuiet
  DEF Publish, Start, ShutdownDone, CloseCache, CloseRepository, HandleClearOrders,
      CacheForgets, DeleteCheck, DeleteRemove, PastInsert, tables, vars
<1>2. CASE \/ RestoreClear \/ RestoreEnd \/ RunConsumer \/ ConsumerReturns \/ Reconnect
           \/ Receive \/ CheckDuplicate \/ SaveToCache \/ AddOrderItemsEnd
           \/ \E u \in Uid : RestoreSave(u)
  BY <1>a, <1>2, TornQuiet
  DEF RestoreClear, RestoreEnd, RunConsumer, ConsumerReturns, Reconnect, Receive, CheckDuplicate, SaveToCache,
      AddOrderItemsEnd, Goto, RestoreSave, PastInsert, tables
<1>3. CASE Load \/ Restore
  <2>1. CASE Load
    BY <1>b, <2>1, TornQuiet, <1>a DEF Load, LoadDone, StartedAfterLoad, PastInsert, tables
  <2>2. CASE Restore
    BY <2>2, TornQuiet, <1>a DEF Restore, RestoreRead, PastInsert, tables
  <2>. QED  BY <1>3, <2>1, <2>2
<1>4. CASE RestoreError \/ Connect
  BY <1>a, <1>b, <1>4, TornQuiet DEF RestoreError, Connect, PastInsert, tables
<1>5. CASE LoadFails \/ RestorePanic \/ MainReturns
  BY <1>a, <1>5, TornQuiet
  DEF LoadFails, RestorePanic, MainReturns, ProcessLost, StartedAfterLoad, TornInv, NoFaultYet,
      PastInsert, tables
<1>6. CASE Crash \/ Signal
  BY <1>6, TornCounted DEF Crash, Signal
<1>7. CASE LoadCut \/ LoadError \/ RestoreCut \/ Disconnect
  BY <1>b, <1>7 DEF LoadCut, LoadError, RestoreCut, Disconnect
<1>8. CASE AddOrderExists
  BY <1>a, <1>b, <1>8, TornQuiet DEF AddOrderExists, Statement, PastInsert, tables
<1>9. CASE AddOrderInsert
  <2>1. pc = "insert" /\ UNCHANGED <<proc, stops>>
    BY <1>9 DEF AddOrderInsert, Statement
  <2>2. CASE UNCHANGED <<tables, faults>>
    BY <1>a, <2>1, <2>2, TornQuiet DEF PastInsert, tables
  <2>3. CASE InsertOrder(msg) /\ Goto("payment") /\ UNCHANGED faults
    BY <1>a, <2>1, <2>3 DEF InsertOrder, With, Goto, TornInv, NoFaultYet, TornReason, PastInsert
  <2>. QED  BY <1>9, <1>b, <2>2, <2>3 DEF AddOrderInsert, Statement
<1>10. CASE AddOrderPayment
  <2>1. pc = "payment" /\ UNCHANGED <<proc, stops>>
    BY <1>10 DEF AddOrderPayment, Statement
  <2>2. CASE UNCHANGED <<tables, faults>> /\ (PaymentRejected(msg) \/ ~DBOpen)
    BY <2>1, <2>2, TornGivenUp DEF PastInsert, PaymentRejected, tables
  <2>3. CASE ProcessPayment(msg) /\ pc' = "items" /\ UNCHANGED <<msg, faults>>
    BY <1>a, <2>1, <2>3, TornQuiet DEF ProcessPayment, AddPayment, PastInsert, tables
  <2>. QED  BY <1>10, <1>b, <2>2, <2>3 DEF AddOrderPayment, Statement
<1>11. CASE AddOrderItem
  <2>1. pc = "items" /\ UNCHANGED <<proc, stops>>
    BY <1>11 DEF AddOrderItem, Statement
  <2>2. CASE UNCHANGED <<tables, faults>> /\ (ItemRejected(msg, Head(itemsLeft)) \/ ~DBOpen)
    BY <2>1, <2>2, TornGivenUp DEF PastInsert, ItemRejected, tables
  <2>3. CASE UNCHANGED <<orders, deliveries, pc, msg, faults>>
    BY <1>a, <2>1, <2>3, TornQuiet DEF PastInsert
  <2>. QED  BY <1>11, <1>b, <2>2, <2>3 DEF AddOrderItem, Statement, AddItem, tables
<1>12. CASE AddOrderDelivery
  <2>1. pc = "delivery" /\ UNCHANGED <<proc, stops>>
    BY <1>12 DEF AddOrderDelivery, Statement
  <2>2. CASE UNCHANGED <<tables, faults>> /\ (DeliveryRejected(msg) \/ ~DBOpen)
    BY <2>1, <2>2, TornGivenUp DEF PastInsert, DeliveryRejected, tables
  <2>3. CASE AddDelivery(msg) /\ UNCHANGED faults
    BY <1>a, <2>1, <2>3 DEF AddDelivery, With, TornInv, NoFaultYet, TornReason
  <2>. QED  BY <1>12, <1>b, <2>2, <2>3 DEF AddOrderDelivery, Statement
<1>. QED
  BY <1>1, <1>2, <1>3, <1>4, <1>5, <1>6, <1>7, <1>8, <1>9, <1>10, <1>11, <1>12 DEF Next, Consume, Environment, Main

\* An order is left half written by a failure, a crash, a stop or a row that
\* does not fit, and by nothing else, in particular not by the items of other
\* orders, if items has a unique index on chrt_id.
THEOREM TornOnlyByFaultHolds == UniqueChrt => (Spec => []TornOnlyByFault)
<1>1. IInv /\ TornInv => TornOnlyByFault
  BY BadAssumption
  DEF IInv, TypeInv, MessageAtHand, HandlingState, AddOrderState, NoMsg, TornInv, NoFaultYet,
      TornReason, PastInsert, TornOnlyByFault, Torn, InProgress
<1>. SUFFICES ASSUME UniqueChrt PROVE Spec => []TornOnlyByFault
  OBVIOUS
<1>2. IInv /\ TornInv /\ [Next]_vars => TornInv'
  BY TornNext
<1>. QED  BY <1>1, <1>2, InitIInv, NextIInv, InitTornInv, PTL DEF Spec

-----------------------------------------------------------------------------
(* Which orders the next start can read. An order whose rows are all there   *)
(* may still have no item: each INSERT of its items may have been a no-op,   *)
(* another order holding the chrt_id. One item that no other order has is    *)
(* enough to exclude that.                                                   *)

OwnItem(u) == \E c \in ItemSet(u) : \A w \in Uid \ {u} : c \notin ItemSet(w)

\* GetOrders can read the order u.
Readable(u) == ~PanicsOn(u) /\ ~FailsOn(u)

\* Under the invariants, a delivery row and an item of its own make an order
\* readable.
LEMMA OwnItemReadable ==
  ASSUME IInv, NEW u \in DOMAIN deliveries, OwnItem(u)
  PROVE  Readable(u)
<1>1. PICK c \in ItemSet(u) : \A w \in Uid \ {u} : c \notin ItemSet(w)
  BY DEF OwnItem
<1>2. PICK i \in DOMAIN ItemsOf[u] : ItemsOf[u][i] = c
  BY DEF ItemSet, Range
<1>3. PICK r \in items : r.chrt = c
  BY <1>2 DEF IInv, DataInv, DeliveryIsLast, ItemsStored, ChrtStored
<1>4. r.uid \in Uid /\ c \in ItemSet(r.uid)
  BY <1>3 DEF ItemsInv, IInv, TypeInv, TypeOK, TablesTypeOK, ItemRow
<1>5. r.uid = u
  BY <1>1, <1>4
<1>. QED  BY <1>3, <1>5
       DEF Readable, PanicsOn, FailsOn, DeliveryIsNil, PaymentMissing, PaymentExists,
           ItemsMissing, IInv, DataInv, DeliveryIsLast

\* An order with a delivery row is read by every later start, unless each of
\* its items is an item of another order as well.
THEOREM WholeOrderReadable ==
  Spec => [](\A u \in DOMAIN deliveries : OwnItem(u) => Readable(u))
<1>1. IInv => \A u \in DOMAIN deliveries : OwnItem(u) => Readable(u)
  BY OwnItemReadable
<1>. QED  BY <1>1, InitIInv, NextIInv, PTL DEF Spec

\* Why a start cannot restore the cache, whatever happened before: there is a
\* half-written order, or an order with no item of its own.
THEOREM StartRestoresUnlessTorn ==
  (\A u \in Uid : OwnItem(u)) =>
    (Spec => []((\A u \in Uid : ~Torn(u)) => EveryStartRestores))
<1>. SUFFICES ASSUME \A u \in Uid : OwnItem(u)
              PROVE  Spec => []((\A u \in Uid : ~Torn(u)) => EveryStartRestores)
  OBVIOUS
<1>1. ASSUME IInv, \A u \in Uid : ~Torn(u)
      PROVE  EveryStartRestores
  <2>1. \A u \in DOMAIN orders : u \in Uid
    BY <1>1 DEF IInv, TypeInv, TypeOK, TablesTypeOK, Table
  <2>2. \A u \in DOMAIN orders : Readable(u)
    BY <1>1, <2>1, OwnItemReadable DEF Torn
  <2>. QED  BY <2>2 DEF Readable, EveryStartRestores, ReadPanics, ReadFails
<1>2. IInv => ((\A u \in Uid : ~Torn(u)) => EveryStartRestores)
  BY <1>1
<1>. QED  BY <1>2, InitIInv, NextIInv, PTL DEF Spec
=============================================================================
