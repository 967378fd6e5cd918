----------------------------- MODULE RedisCache -----------------------------
(* internal/cache/redis_cache.go: the other backend of the Cache interface.  *)
(* Its state is the "order:*" keys of a Redis database. Redis executes one   *)
(* command at a time, so a method of one command is one action; Clear (SCAN, *)
(* then DEL key by key) and GetAllOrders (KEYS, then GET key by key) are     *)
(* several commands, between which other goroutines' commands and the expiry *)
(* of keys come. GetOrder and OrderExists change nothing and have no action. *)
EXTENDS Naturals, FiniteSets, Functions

CONSTANTS Uid, Version,   \* as in CacheContract
          Caller,         \* goroutines in a Clear or a GetAllOrders
          MaxFailures     \* bound on commands that fail

ASSUME MaxFailuresAssumption == MaxFailures \in Nat

VARIABLES keys,      \* the orders in Redis, by uid
          client,    \* "open", "closed" by Close, or "none": no process
          call,      \* where each caller's Clear or GetAllOrders is
          failures   \* commands that have failed

vars == <<keys, client, call, failures>>

Order == [uid: Uid, ver: Version]

\* todo holds the keys the loop has still to visit, ahead the part of the key
\* space SCAN's cursor has not reached, found what a listing has read.
Call == [op: {"none", "clear", "list"},
         todo: SUBSET Uid, ahead: SUBSET Uid, found: SUBSET Order]

At(op, todo, ahead, found) ==
  [op |-> op, todo |-> todo, ahead |-> ahead, found |-> found]

NoCall == At("none", {}, {}, {})
Clearing(todo, ahead) == At("clear", todo, ahead, {})
Listing(todo, found) == At("list", todo, {}, found)

Without(u) == Restrict(keys, DOMAIN keys \ {u})

TypeOK ==
  /\ DOMAIN keys \subseteq Uid
  /\ \A u \in DOMAIN keys : keys[u] \in Order /\ keys[u].uid = u
  /\ client \in {"open", "closed", "none"}
  /\ call \in [Caller -> Call]
  /\ failures \in 0 .. MaxFailures

Init ==
  /\ keys = [u \in {} |-> {}]
  /\ client = "none"
  /\ call = [c \in Caller |-> NoCall]
  /\ failures = 0

-----------------------------------------------------------------------------
\* The client of a new process, once Redis has answered its Ping.
NewRedisCache ==
  /\ client = "none"
  /\ client' = "open"
  /\ UNCHANGED <<keys, call, failures>>

\* Close ends the connections; the keys stay in Redis.
Close ==
  /\ client = "open"
  /\ client' = "closed"
  /\ UNCHANGED <<keys, call, failures>>

\* The process ends, with or without a Close, and its calls with it.
ProcessEnds ==
  /\ client # "none"
  /\ client' = "none"
  /\ call' = [c \in Caller |-> NoCall]
  /\ UNCHANGED <<keys, failures>>

\* SET with a TTL of 24 hours, which starts anew with every SET.
AfterSet_KeyWithoutUid(order) == [u \in {CHOOSE v \in Uid : TRUE} |-> order]

AfterSet(order) ==
  [u \in DOMAIN keys \cup {order.uid} |->
     IF u = order.uid THEN order ELSE keys[u]]

SaveOrder(order) ==
  /\ client = "open"
  /\ keys' = AfterSet(order)
  /\ UNCHANGED <<client, call, failures>>

RemoveOrder(uid) ==
  /\ client = "open"
  /\ uid \in DOMAIN keys
  /\ keys' = Without(uid)
  /\ UNCHANGED <<client, call, failures>>

\* A key's TTL runs out, whether or not a process is there to see it.
Expire(uid) ==
  /\ uid \in DOMAIN keys
  /\ keys' = Without(uid)
  /\ UNCHANGED <<client, call, failures>>

-----------------------------------------------------------------------------
InCall(c, op) == client = "open" /\ call[c].op = op

Returns(c) ==
  /\ call' = [call EXCEPT ![c] = NoCall]
  /\ UNCHANGED <<keys, client>>

\* What a loop has left once it has visited u.
StillToDo_SameAgain(todo, u) == todo

StillToDo(todo, u) == todo \ {u}

\* A command of c's call is an error, and so is the call.
CommandFails(c) ==
  /\ client = "open" /\ call[c].op # "none"
  /\ failures < MaxFailures
  /\ failures' = failures + 1
  /\ Returns(c)

\* After Close, every command is an error.
ClientClosed(c) ==
  /\ client = "closed" /\ call[c].op # "none"
  /\ Returns(c)
  /\ UNCHANGED failures

ClearStart(c) ==
  /\ InCall(c, "none")
  /\ call' = [call EXCEPT ![c] = Clearing({}, Uid)]
  /\ UNCHANGED <<keys, client, failures>>

\* The pages SCAN may return when its cursor moves over the region: all keys
\* there now, and perhaps, when Redis resizes its table, some it has passed.
Pages(region, passed) ==
  {(region \cap DOMAIN keys) \cup again :
     again \in SUBSET (passed \cap DOMAIN keys)}

\* The iterator asks for the next page when the last one is used up.
ScanPage(c) ==
  /\ InCall(c, "clear")
  /\ call[c].todo = {}
  /\ \E region \in (SUBSET call[c].ahead) \ {{}} :
       \E page \in Pages(region, Uid \ call[c].ahead) :
         call' = [call EXCEPT ![c] = Clearing(page, call[c].ahead \ region)]
  /\ UNCHANGED <<keys, client, failures>>

ClearDelete(c) ==
  /\ InCall(c, "clear")
  /\ \E u \in call[c].todo :
       /\ keys' = Without(u)
       /\ call' = [call EXCEPT ![c] =
                     Clearing(StillToDo(call[c].todo, u), call[c].ahead)]
  /\ UNCHANGED <<client, failures>>

\* The iterator is at its end: the page used up, and SCAN's cursor 0 again.
ScanDone_FirstPageOnly(c) == call[c].todo = {} /\ call[c].ahead # Uid

ScanDone(c) == call[c].todo = {} /\ call[c].ahead = {}

ClearEnd(c) ==
  /\ InCall(c, "clear")
  /\ ScanDone(c)
  /\ Returns(c)
  /\ UNCHANGED failures

-----------------------------------------------------------------------------
ListStart(c) ==
  /\ InCall(c, "none")
  /\ call' = [call EXCEPT ![c] = Listing(DOMAIN keys, {})]
  /\ UNCHANGED <<keys, client, failures>>

\* A key that has gone since KEYS: GET answers redis.Nil, which is an error
\* like any other here, and the whole listing fails.
ListMiss(c) ==
  /\ InCall(c, "list")
  /\ \E u \in call[c].todo : u \notin DOMAIN keys
  /\ Returns(c)
  /\ UNCHANGED failures

ListGet(c) ==
  /\ InCall(c, "list")
  /\ \E u \in call[c].todo \cap DOMAIN keys :
       call' = [call EXCEPT ![c] = Listing(StillToDo(call[c].todo, u),
                                           call[c].found \cup {keys[u]})]
  /\ UNCHANGED <<keys, client, failures>>

AllRead_OneShort(c) == Cardinality(call[c].todo) <= 1

AllRead(c) == call[c].todo = {}

ListEnd(c) ==
  /\ InCall(c, "list")
  /\ AllRead(c)
  /\ Returns(c)
  /\ UNCHANGED failures

-----------------------------------------------------------------------------
Clear(c) == ClearStart(c) \/ ScanPage(c) \/ ClearDelete(c) \/ ClearEnd(c)

GetAllOrders(c) == ListStart(c) \/ ListGet(c) \/ ListMiss(c) \/ ListEnd(c)

Next ==
  \/ NewRedisCache \/ Close \/ ProcessEnds
  \/ \E order \in Order : SaveOrder(order)
  \/ \E uid \in Uid : RemoveOrder(uid) \/ Expire(uid)
  \/ \E c \in Caller : Clear(c) \/ GetAllOrders(c)
  \/ \E c \in Caller : CommandFails(c) \/ ClientClosed(c)

Spec == Init /\ [][Next]_vars

\* A goroutine that can run does run, and Redis answers every command. A call
\* once begun goes on; nobody has to begin one, save, remove or close.
GoesOn(c) ==
  \/ ScanPage(c) \/ ClearDelete(c) \/ ClearEnd(c)
  \/ ListGet(c) \/ ListMiss(c) \/ ListEnd(c) \/ ClientClosed(c)

Fairness == \A c \in Caller : WF_vars(GoesOn(c))

-----------------------------------------------------------------------------
\* Clear and GetAllOrders come to an end, however many orders are saved while
\* they run: neither loop chases keys that appear behind it.
CallsReturn == \A c \in Caller : call[c].op # "none" ~> call[c].op = "none"
=============================================================================
