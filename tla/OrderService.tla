---------------------------- MODULE OrderService ----------------------------
(* The service: cmd/service/main.go (start, signal, shutdown), the consumer  *)
(* goroutine of internal/consumer, the HTTP handlers that change the cache,  *)
(* the cache itself (as CacheContract: it may forget any order at any time)  *)
(* and the tables of OrdersDB.                                               *)
(*                                                                           *)
(* The consumer is taken one SQL statement, cache call or Kafka call at a    *)
(* time; the process may crash or be told to stop between any two of them.   *)
(*                                                                           *)
(* As in OrdersDB, a name with a suffix after an underscore is the next      *)
(* definition with a bug put in, used by no action.                          *)
EXTENDS OrdersDB

CONSTANTS Bad,         \* a message handleMessage sends to the DLQ
          MaxMessages, \* bound on the topic
          MaxFaults,   \* bound on database errors and lost connections
          MaxStops,    \* bound on crashes and signals
          MayCrash     \* FALSE: every stop is a signal

ASSUME BadAssumption == Bad \notin Order
ASSUME BoundsAssumption == MaxMessages \in Nat /\ MaxFaults \in Nat /\ MaxStops \in Nat
ASSUME MayCrashAssumption == MayCrash \in BOOLEAN

VARIABLES
  topic,     \* partition 0 of "orders"
  position,  \* messages of it that the consumer has read, or skipped
  proc,      \* where main is
  pc,        \* where the consumer goroutine is
  msg,       \* the order handleMessage works on
  itemsLeft, \* the items AddItems has still to add
  loaded,    \* what GetOrders returned and is not in the cache yet
  cache,     \* appCache: order_uid -> copy of the order
  deleting,  \* HandleDeleteOrder calls between OrderExists and RemoveOrder
  faults,    \* faults so far
  stops      \* crashes and signals so far

vars == <<tables, topic, position, proc, pc, msg, itemsLeft, loaded, cache,
          deleting, faults, stops>>

NoMsg == Bad        \* no order at hand

\* main: not running; initializeCache; waiting for a signal; httpServer.Shutdown;
\* closeCache; closeRepository; return.
ProcState == {"down", "load", "up", "stopping", "closeCache", "closeDB", "return"}

\* Consumer: not started; restoreCacheFromDB (GetOrders, Clear, the SaveOrder
\* loop); the loop of Subscribe; runConsumer connecting; its loop; handleMessage
\* (the duplicate check, the statements of AddOrder, cache.SaveOrder); the delay
\* before a reconnection; returned.
AddOrderState == {"exists", "insert", "payment", "items", "delivery"}
Subscribed == {"poll", "check", "saveCache"} \cup AddOrderState
ConsumerState ==
  {"none", "restore", "clear", "fill", "loop", "connect", "sleep", "done"} \cup Subscribed

Copies(f) == DOMAIN f \subseteq Uid /\ \A u \in DOMAIN f : f[u] \in Copy

TypeOK ==
  /\ TablesTypeOK
  /\ topic \in Seq(Order \cup {Bad}) /\ Len(topic) <= MaxMessages
  /\ position \in 0 .. Len(topic)
  /\ proc \in ProcState /\ pc \in ConsumerState
  /\ msg \in Order \cup {NoMsg}
  /\ itemsLeft \in Seq(Chrt)
  /\ Copies(loaded) /\ Copies(cache)
  /\ deleting \subseteq Uid
  /\ faults \in 0 .. MaxFaults /\ stops \in 0 .. MaxStops

Init ==
  /\ InitTables
  /\ topic = << >> /\ position = 0
  /\ proc = "down" /\ pc = "none"
  /\ msg = NoMsg /\ itemsLeft = << >>
  /\ loaded = NoRows /\ cache = NoRows /\ deleting = {}
  /\ faults = 0 /\ stops = 0

Alive == proc # "down"
CtxDone == proc \in {"stopping", "closeCache", "closeDB", "return"}
DBOpen == proc # "return"
Fault == faults < MaxFaults /\ faults' = faults + 1

\* What is gone when the process is: everything but the tables and the topic.
ProcessLost ==
  /\ proc' = "down" /\ pc' = "none"
  /\ msg' = NoMsg /\ itemsLeft' = << >> /\ loaded' = NoRows
  /\ cache' = NoRows /\ deleting' = {}
  /\ UNCHANGED <<tables, topic, position>>

-----------------------------------------------------------------------------
(* The topic and the process.                                                *)

\* Whoever writes to the topic, at any time.
Publish(m) ==
  /\ Len(topic) < MaxMessages
  /\ topic' = Append(topic, m)
  /\ UNCHANGED <<tables, position, proc, pc, msg, itemsLeft, loaded, cache,
                 deleting, faults, stops>>

Start ==
  /\ proc = "down"
  /\ proc' = "load"
  /\ UNCHANGED <<tables, topic, position, pc, msg, itemsLeft, loaded, cache,
                 deleting, faults, stops>>

\* initializeCache puts what GetOrders returns into the cache, then main
\* starts the HTTP server and the consumer. Nobody sees the cache before that.
LoadDone(cut) ==
  /\ proc = "load"
  /\ \E S \in ReadSets(cut) : cache' = Loaded(S)
  /\ proc' = "up" /\ pc' = "restore"
  /\ UNCHANGED <<tables, topic, position, msg, itemsLeft, loaded, deleting, stops>>

Load == LoadDone(FALSE) /\ UNCHANGED faults
LoadCut == LoadDone(TRUE) /\ Fault

\* An error is logger.Fatal, a panic ends the process as well.
LoadFails ==
  /\ proc = "load"
  /\ ReadPanics \/ ReadFails
  /\ ProcessLost
  /\ UNCHANGED <<faults, stops>>

LoadError == proc = "load" /\ ProcessLost /\ Fault /\ UNCHANGED stops

Crash ==
  /\ Alive /\ MayCrash
  /\ stops < MaxStops /\ stops' = stops + 1
  /\ ProcessLost
  /\ UNCHANGED faults

\* SIGINT or SIGTERM: cancel(), then httpServer.Shutdown.
Signal ==
  /\ proc = "up"
  /\ stops < MaxStops /\ stops' = stops + 1
  /\ proc' = "stopping"
  /\ UNCHANGED <<tables, topic, position, pc, msg, itemsLeft, loaded, cache,
                 deleting, faults>>

\* Shutdown waits for the handlers, or gives up on them after 10 seconds.
ShutdownDone ==
  /\ proc = "stopping"
  /\ proc' = "closeCache"
  /\ UNCHANGED <<tables, topic, position, pc, msg, itemsLeft, loaded, cache,
                 deleting, faults, stops>>

CloseCache ==
  /\ proc = "closeCache"
  /\ proc' = "closeDB"
  /\ cache' = NoRows
  /\ UNCHANGED <<tables, topic, position, pc, msg, itemsLeft, loaded, deleting,
                 faults, stops>>

CloseRepository ==
  /\ proc = "closeDB"
  /\ proc' = "return"
  /\ UNCHANGED <<tables, topic, position, pc, msg, itemsLeft, loaded, cache,
                 deleting, faults, stops>>

\* main returns whatever the consumer goroutine is doing.
MainReturns == proc = "return" /\ ProcessLost /\ UNCHANGED <<faults, stops>>

-----------------------------------------------------------------------------
(* The consumer goroutine: Subscribe.                                        *)

\* restoreCacheFromDB: GetOrders, Clear, SaveOrder of each order, while the
\* HTTP handlers use the cache. An error ends Subscribe for good; main only
\* logs it. A panic in this goroutine ends the process.
RestoreRead(cut) ==
  /\ pc = "restore" /\ DBOpen
  /\ \E S \in ReadSets(cut) : loaded' = Loaded(S)
  /\ pc' = "clear"
  /\ UNCHANGED <<tables, topic, position, proc, msg, itemsLeft, cache, deleting, stops>>

Restore == RestoreRead(FALSE) /\ UNCHANGED faults
RestoreCut == RestoreRead(TRUE) /\ Fault

RestoreError ==
  /\ pc = "restore"
  /\ \/ (ReadFails \/ ~DBOpen) /\ UNCHANGED faults
     \/ Fault
  /\ pc' = "done"
  /\ UNCHANGED <<tables, topic, position, proc, msg, itemsLeft, loaded, cache,
                 deleting, stops>>

RestorePanic ==
  /\ pc = "restore" /\ DBOpen
  /\ ReadPanics
  /\ ProcessLost
  /\ UNCHANGED <<faults, stops>>

RestoreClear ==
  /\ pc = "clear"
  /\ cache' = NoRows
  /\ pc' = "fill"
  /\ UNCHANGED <<tables, topic, position, proc, msg, itemsLeft, loaded, deleting,
                 faults, stops>>

LeftToSave(u) == Restrict(loaded, DOMAIN loaded \ {u})

RestoreSave(u) ==
  /\ pc = "fill"
  /\ u \in DOMAIN loaded
  /\ cache' = With(cache, u, loaded[u])
  /\ loaded' = LeftToSave(u)
  /\ UNCHANGED <<tables, topic, position, proc, pc, msg, itemsLeft, deleting,
                 faults, stops>>

RestoreEnd ==
  /\ pc = "fill"
  /\ loaded = NoRows
  /\ pc' = "loop"
  /\ UNCHANGED <<tables, topic, position, proc, msg, itemsLeft, loaded, cache,
                 deleting, faults, stops>>

\* The loop of Subscribe calls runConsumer unless ctx is done.
RunConsumer ==
  /\ pc = "loop"
  /\ ~CtxDone
  /\ pc' = "connect"
  /\ UNCHANGED <<tables, topic, position, proc, msg, itemsLeft, loaded, cache,
                 deleting, faults, stops>>

\* ConsumePartition at OffsetNewest: what was published before is not going to
\* be read.
StartOffset_PastTheEnd == Len(topic) + 1

StartOffset == Len(topic)

Connect ==
  /\ pc = "connect"
  /\ \/ pc' = "poll" /\ position' = StartOffset /\ UNCHANGED faults
     \/ pc' = "sleep" /\ Fault /\ UNCHANGED position
  /\ UNCHANGED <<tables, topic, proc, msg, itemsLeft, loaded, cache, deleting, stops>>

\* ctx.Done() in either loop.
ConsumerReturns ==
  /\ pc \in {"loop", "poll"}
  /\ CtxDone
  /\ pc' = "done"
  /\ UNCHANGED <<tables, topic, position, proc, msg, itemsLeft, loaded, cache,
                 deleting, faults, stops>>

\* The Messages channel is closed.
Disconnect ==
  /\ pc = "poll"
  /\ pc' = "sleep"
  /\ Fault
  /\ UNCHANGED <<tables, topic, position, proc, msg, itemsLeft, loaded, cache,
                 deleting, stops>>

Reconnect_Never ==
  /\ pc = "sleep"
  /\ pc' = "done"
  /\ UNCHANGED <<tables, topic, position, proc, msg, itemsLeft, loaded, cache,
                 deleting, faults, stops>>

\* After the delay the loop of Subscribe goes round.
Reconnect ==
  /\ pc = "sleep"
  /\ pc' = "loop"
  /\ UNCHANGED <<tables, topic, position, proc, msg, itemsLeft, loaded, cache,
                 deleting, faults, stops>>

-----------------------------------------------------------------------------
(* handleMessage.                                                            *)

\* A message that is empty, is not JSON, has no OrderUID or is not valid goes
\* to the DLQ and is done with.
Receive ==
  /\ pc = "poll"
  /\ position < Len(topic)
  /\ position' = position + 1
  /\ IF topic[position'] = Bad
     THEN UNCHANGED <<pc, msg>>
     ELSE pc' = "check" /\ msg' = topic[position']
  /\ UNCHANGED <<tables, topic, proc, itemsLeft, loaded, cache, deleting, faults, stops>>

\* Back to the loop of runConsumer, with or without an error logged.
Handled == pc' = "poll" /\ msg' = NoMsg /\ itemsLeft' = << >>

CheckDuplicate ==
  /\ pc = "check"
  /\ IF msg.uid \in DOMAIN cache
     THEN Handled
     ELSE pc' = "exists" /\ UNCHANGED <<msg, itemsLeft>>
  /\ UNCHANGED <<tables, topic, position, proc, loaded, cache, deleting, faults, stops>>

\* One statement of AddOrder: it is executed and AddOrder goes on; or the
\* server rejects it; or it ends in an error, possibly after the server has
\* executed it; or the connection pool is closed already. After an error the
\* message is done with.
Statement(at, rejected, effect, next) ==
  /\ pc = at
  /\ \/ DBOpen /\ ~rejected /\ effect /\ next /\ UNCHANGED faults
     \/ DBOpen /\ ~rejected /\ effect /\ Handled /\ Fault
     \/ DBOpen /\ UNCHANGED tables /\ Handled /\ Fault
     \/ rejected /\ UNCHANGED <<tables, faults>> /\ Handled
     \/ ~DBOpen /\ UNCHANGED <<tables, faults>> /\ Handled
  /\ UNCHANGED <<topic, position, proc, loaded, cache, deleting, stops>>

Goto(state) == pc' = state /\ UNCHANGED <<msg, itemsLeft>>

AddOrderExists_DuplicateIsSuccess ==
  Statement("exists", FALSE, UNCHANGED tables,
            IF OrderExists(msg.uid) THEN Goto("saveCache") ELSE Goto("insert"))
AddOrderExists_DuplicateIsResumed ==
  Statement("exists", FALSE, UNCHANGED tables,
            IF OrderExists(msg.uid) THEN Goto("payment") ELSE Goto("insert"))

AddOrderExists ==
  Statement("exists", FALSE, UNCHANGED tables,
            IF OrderExists(msg.uid) THEN Handled ELSE Goto("insert"))

AddOrderInsert ==
  Statement("insert", OrderRejected(msg), InsertOrder(msg), Goto("payment"))

AddOrderPayment ==
  Statement("payment", PaymentRejected(msg), ProcessPayment(msg),
            pc' = "items" /\ itemsLeft' = ItemsOf[msg.uid] /\ UNCHANGED msg)

AfterItem_FirstItemOnly == << >>
AfterItem_LoopStuck == itemsLeft

AfterItem == Tail(itemsLeft)

\* AddItems, one round of its loop, and its end.
AddOrderItem ==
  /\ itemsLeft # << >>
  /\ LET item == Head(itemsLeft) IN
     Statement("items", ItemRejected(msg, item),
               IF ItemExists(msg, item) THEN UNCHANGED tables ELSE AddItem(msg, item),
               itemsLeft' = AfterItem /\ UNCHANGED <<pc, msg>>)

AddOrderItemsEnd ==
  /\ pc = "items" /\ itemsLeft = << >>
  /\ Goto("delivery")
  /\ UNCHANGED <<tables, topic, position, proc, loaded, cache, deleting, faults, stops>>

AddOrderDelivery ==
  Statement("delivery", DeliveryRejected(msg), AddDelivery(msg), Goto("saveCache"))

SaveToCache ==
  /\ pc = "saveCache"
  /\ cache' = With(cache, msg.uid, FromMessage(msg))
  /\ Handled
  /\ UNCHANGED <<tables, topic, position, proc, loaded, deleting, faults, stops>>

-----------------------------------------------------------------------------
(* The cache on its own, and the handlers that change it.                    *)

\* Eviction and expiry.
CacheForgets(u) ==
  /\ u \in DOMAIN cache
  /\ cache' = Restrict(cache, DOMAIN cache \ {u})
  /\ UNCHANGED <<tables, topic, position, proc, pc, msg, itemsLeft, loaded,
                 deleting, faults, stops>>

Serving == proc \in {"up", "stopping"}

\* HandleDeleteOrder: OrderExists (404 if not), then RemoveOrder.
DeleteCheck(u) ==
  /\ Serving
  /\ u \in DOMAIN cache
  /\ deleting' = deleting \cup {u}
  /\ UNCHANGED <<tables, topic, position, proc, pc, msg, itemsLeft, loaded, cache,
                 faults, stops>>

DeleteRemove(u) ==
  /\ u \in deleting
  /\ deleting' = deleting \ {u}
  /\ cache' = Restrict(cache, DOMAIN cache \ {u})
  /\ UNCHANGED <<tables, topic, position, proc, pc, msg, itemsLeft, loaded,
                 faults, stops>>

HandleClearOrders ==
  /\ Serving
  /\ cache' = NoRows
  /\ UNCHANGED <<tables, topic, position, proc, pc, msg, itemsLeft, loaded,
                 deleting, faults, stops>>

-----------------------------------------------------------------------------
Consume ==
  \/ Restore \/ RestoreClear \/ RestoreEnd
  \/ \E u \in Uid : RestoreSave(u)
  \/ RunConsumer \/ Connect \/ Reconnect \/ ConsumerReturns
  \/ Receive \/ CheckDuplicate
  \/ AddOrderExists \/ AddOrderInsert \/ AddOrderPayment \/ AddOrderItem
  \/ AddOrderItemsEnd \/ AddOrderDelivery \/ SaveToCache

Environment ==
  \/ \E m \in Order \cup {Bad} : Publish(m)
  \/ \E u \in Uid : CacheForgets(u) \/ DeleteCheck(u) \/ DeleteRemove(u)
  \/ HandleClearOrders
  \/ Crash \/ Signal
  \/ LoadCut \/ LoadError \/ RestoreCut \/ RestoreError \/ RestorePanic \/ Disconnect

Main ==
  \/ Start \/ Load \/ LoadFails
  \/ ShutdownDone \/ CloseCache \/ CloseRepository \/ MainReturns

Next == Consume \/ Main \/ Environment

Spec == Init /\ [][Next]_vars

\* A goroutine that can run is run, and PostgreSQL, Kafka and the cache answer
\* every call; faults, stops and requests are under no obligation.
FairSpec == Spec /\ WF_vars(Consume) /\ WF_vars(Main)

-----------------------------------------------------------------------------
\* A copy of an order is backed by the tables: its orders, payment and delivery
\* rows are there, all of it is of the version the rows are, and every item in
\* it has a row of its own, unless another order holds the chrt_id.
Backed(u, copy) ==
  /\ u \in DOMAIN orders \cap DOMAIN payments \cap DOMAIN deliveries
  /\ copy.vers = RowsOf(u)
  /\ StoredItems(u) \subseteq copy.chrts /\ copy.chrts \subseteq ItemSet(u)
  /\ \A c \in copy.chrts \ StoredItems(u) : \E r \in items : r.chrt = c /\ r.uid # u

\* An order in the cache is stored, and all of it is, except items whose
\* chrt_id another order holds: AddItem writes nothing then, and the message is
\* cached with the items it has lost. A restart serves it with the same items
\* or, those excepted, with fewer, and with nothing else changed; if it has
\* lost them all, the restart fails.
CacheBackedByDB == \A u \in DOMAIN cache : Backed(u, cache[u])

\* A whole order that the cache has lost, by a DELETE, an eviction or its TTL,
\* or that a restore cut short did not find; the restore has nothing of it to
\* put back, and the consumer is not just about to cache it.
Gone(u) ==
  /\ pc \notin {"none", "restore"}
  /\ u \in DOMAIN deliveries
  /\ u \notin DOMAIN cache \cup DOMAIN loaded
  /\ ~(pc = "saveCache" /\ msg.uid = u)

\* Such an order is not served again before the next start: not by the restore
\* that runs beside the handlers, and not if its message comes once more,
\* because AddOrder then answers with an error and nothing is cached. What a
\* restore has left out, and what a client has deleted, stays away (until the
\* restart, when the tables bring it back).
GoneUntilRestart ==
  [][\A u \in Uid : Gone(u) => Gone(u)' \/ pc' = "none"]_vars

\* AddOrder has inserted the order u and is at its other rows.
PastInsert == {"payment", "items", "delivery"}
InProgress(u) == pc \in PastInsert /\ msg # NoMsg /\ msg.uid = u
Abandoned(u) == Torn(u) /\ ~InProgress(u)

\* AddOrder leaves an order half written only after a database error, a crash
\* or a stop, or because a row of it does not fit its table: not because of
\* what other orders there are.
TornOnlyByFault ==
  faults = 0 /\ stops = 0 =>
    \A u \in Uid : Torn(u) => InProgress(u) \/ Unfit[orders[u]] # {}

\* Once AddOrder has given up on a half-written order, no later message, in
\* this run or another, completes it or goes on with it: a message sent again
\* stops at OrderExists.
TornForever == [][\A u \in Uid : Abandoned(u) => Abandoned(u)']_vars

\* Two messages with one order_uid never mix: once the orders row is there, no
\* row of this order is ever written from another message.
FirstMessageWins ==
  [][\A u \in DOMAIN orders :
       /\ u \in DOMAIN orders' /\ orders'[u] = orders[u]
       /\ \A t \in {<<payments, payments'>>, <<deliveries, deliveries'>>} :
            u \in DOMAIN t[2] => t[2][u] = orders[u]]_vars

\* The contents of an order are the versions its parts are of; whole is an
\* order with a delivery row, also if it has lost items to another order.
Half == [u \in DOMAIN orders \ DOMAIN deliveries |-> RowsOf(u)]
Whole == [u \in DOMAIN deliveries |-> RowsOf(u)]
Writing == {u \in Uid : InProgress(u)}
Cached == [u \in DOMAIN cache |-> cache[u].vers]
Store ==
  INSTANCE OrderStore WITH
    half <- Half, whole <- Whole, writing <- Writing, cached <- Cached

\* Seen from outside, the consumer, AddOrder, the cache and the tables are the
\* store that OrderStore describes, through any statements, failures, crashes
\* and restarts: an order is written once, from one message, by one writer,
\* and never finished by another, and only whole orders are ever cached.
ImplementsStore == Store!Spec

\* With no new fault and the consumer still subscribed, each valid order that
\* fits the tables and that it has not read yet ends up stored, unless it is
\* one of the torn ones.
Unread(u) ==
  pc \in Subscribed /\ \E i \in position + 1 .. Len(topic) :
    topic[i] # Bad /\ topic[i].uid = u /\ Unfit[topic[i].ver] = {}
UnreadOrdersStored ==
  \A u \in Uid : \A n \in 0 .. MaxFaults :
    (Unread(u) /\ faults = n)
      ~> \/ u \in DOMAIN deliveries
         \/ Abandoned(u)
         \/ pc \notin Subscribed
         \/ faults > n

\* A start that finds every order readable leads to a subscribed consumer, and
\* so does the delay after a connection that was lost or could not be made, if
\* no further fault and no stop comes in between: each of them is followed by
\* an attempt.
ConsumerSubscribes ==
  \A n \in 0 .. MaxFaults : \A k \in 0 .. MaxStops :
    (/\ \/ proc = "load" /\ ~ReadPanics /\ ~ReadFails
        \/ proc = "up" /\ pc = "sleep"
     /\ faults = n /\ stops = k)
      ~> (pc \in Subscribed \/ faults > n \/ stops > k)

\* A start finds every order readable, so that the cache can be filled from the
\* database (README, "Восстановление кэша при перезапуске").
EveryStartRestores ==
  proc = "load" => ~ReadPanics /\ ~ReadFails

\* A consumer that has read from the topic before goes on where it stopped,
\* after a lost connection or a restart, so that no message is lost (README,
\* on failures).
ResumesWhereItStopped == [][Connect /\ position > 0 => position' = position]_vars

\* While the service is up and not told to stop, it goes on consuming.
ConsumerStaysUp == proc = "up" => pc # "done"
=============================================================================
