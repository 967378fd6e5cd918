---------------------------- MODULE HttpService ----------------------------
(* The life of the service process around its HTTP server: main from the     *)
(* configuration to its return (cmd/service/main.go), the goroutine that     *)
(* runs Launch and main's call of Shutdown (internal/server), the requests   *)
(* in the handlers of internal/controller/router, and the cleanup goroutine  *)
(* of an in-memory cache as far as it can end the process. The cache is the  *)
(* contract's, and only the uids in it matter here.                          *)
(*                                                                           *)
(* http.Server is external: ListenAndServe returns at once if Shutdown has   *)
(* been called, and Shutdown closes the listener, then waits until every     *)
(* connection is closed or idle.                                             *)
(*                                                                           *)
(* As elsewhere, a name with a suffix after an underscore is the next        *)
(* definition with a bug put in, used by no action.                          *)
EXTENDS CacheConfig

CONSTANTS
  Uid,       \* order_uid values
  LongUid,   \* those of more than 50 bytes
  Client,    \* HTTP connections
  MaxFaults  \* bound on errors and kills

ASSUME UidAssumption == LongUid \subseteq Uid
ASSUME MaxFaultsAssumption == MaxFaults \in Nat

VARIABLES
  main,      \* where main is
  cfg,       \* the configuration, until the cache is made of it
  appCache,  \* what New was told to make
  cleaner,   \* the cleanup goroutine
  launch,    \* the goroutine of startServer, in Launch
  shutdown,  \* Server.Shutdown: not called, waiting, or how it returned
  req,       \* req[c]: what connection c is at
  cached,    \* uids in the cache
  faults     \* errors and kills so far

proc == <<main, cfg, appCache, cleaner, launch, shutdown>>
vars == <<proc, req, cached, faults>>

NoConfig == [type |-> "none"]

Request(op, uid, step) == [op |-> op, uid |-> uid, at |-> step]

\* Closed, or idle: Shutdown does not wait for it. Connected: accepted, with no
\* request read.
Idle == Request("none", "none", "idle")
Connected == Request("none", "none", "connected")

Calls == {Request(op, u, "begin") : op \in {"get", "delete"}, u \in Uid}
           \cup {Request(op, "none", "begin") : op \in {"clear", "list"}}
Removals == {Request("delete", u, "remove") : u \in Uid}

TypeOK ==
  /\ main \in {"down", "config", "cache", "load", "up", "stopping", "closeCache", "closeRepository"}
  /\ cfg \in Config \cup {NoConfig}
  /\ appCache \in {Empty} \cup [type : {"redis", "inmemory"}, capacity : Int, ttl : Int]
  /\ cleaner \in {"none", "starting", "ticking"}
  /\ launch \in {"none", "starting", "assigned", "binding", "listening", "ended"}
  /\ shutdown \in {"none", "waiting", "quiet", "missed", "gaveUp"}
  /\ req \in [Client -> {Idle, Connected} \cup Calls \cup Removals]
  /\ cached \subseteq Uid
  /\ faults \in 0 .. MaxFaults

Init ==
  /\ main = "down" /\ cfg = NoConfig /\ appCache = Empty
  /\ cleaner = "none" /\ launch = "none" /\ shutdown = "none"
  /\ req = [c \in Client |-> Idle] /\ cached = {} /\ faults = 0

Fault == faults < MaxFaults /\ faults' = faults + 1

\* What is in Redis stays there, but the next process may find anything there.
ProcessEnds ==
  /\ main' = "down" /\ cfg' = NoConfig /\ appCache' = Empty
  /\ cleaner' = "none" /\ launch' = "none" /\ shutdown' = "none"
  /\ req' = [c \in Client |-> Idle] /\ cached' = {}

Goes(step) == main' = step

-----------------------------------------------------------------------------
(* main, up to the signal.                                                   *)

Start(c) ==
  /\ main = "down"
  /\ Goes("config") /\ cfg' = c
  /\ UNCHANGED <<appCache, cleaner, launch, shutdown, req, cached, faults>>

LoadConfig ==
  /\ main = "config"
  /\ \/ Validate(cfg) /\ Goes("cache") /\ UNCHANGED <<cfg, appCache, cleaner, launch, shutdown, req, cached>>
     \/ ~Validate(cfg) /\ ProcessEnds
  /\ UNCHANGED faults

\* initializeCache: New, then GetOrders and a SaveOrder for each order.
CacheRefused ==
  /\ main = "cache"
  /\ Refuses(ToCacheConfig(cfg))
  /\ ProcessEnds
  /\ UNCHANGED faults

NewCache ==
  /\ main = "cache"
  /\ ~Refuses(ToCacheConfig(cfg))
  /\ appCache' = New(ToCacheConfig(cfg))
  /\ cleaner' = IF CleansUp(appCache') THEN "starting" ELSE "none"
  /\ Goes("load") /\ cfg' = NoConfig
  /\ UNCHANGED <<launch, shutdown, req, cached, faults>>

\* initializeCache ends, the controller is made and startServer starts Launch.
LoadOrders ==
  /\ main = "load"
  /\ cached' \in SUBSET Uid
  /\ Goes("up") /\ launch' = "starting"
  /\ UNCHANGED <<cfg, appCache, cleaner, shutdown, req, faults>>

\* The file, the database or Redis cannot be read (logger.Fatal in loadConfig,
\* initializeRepository, initializeCache), or someone kills the process: a
\* SIGTERM does before signal.Notify.
Killed ==
  /\ main # "down"
  /\ ProcessEnds
  /\ Fault

StartCleanup ==
  /\ cleaner = "starting"
  /\ \/ TickerPanics(appCache) /\ ProcessEnds
     \/ ~TickerPanics(appCache) /\ cleaner' = "ticking"
          /\ UNCHANGED <<main, cfg, appCache, launch, shutdown, req, cached>>
  /\ UNCHANGED faults

-----------------------------------------------------------------------------
(* Launch, in its goroutine.                                                 *)

ShuttingDown == shutdown \in {"waiting", "quiet", "gaveUp"}

LaunchGoes(step) ==
  launch' = step /\ UNCHANGED <<main, cfg, appCache, cleaner, shutdown, req, cached, faults>>

\* s.server = &http.Server{...}, with no synchronisation.
AssignServer == launch = "starting" /\ LaunchGoes("assigned")

ListenAndServe ==
  /\ launch = "assigned"
  /\ LaunchGoes(IF ShuttingDown THEN "ended" ELSE "binding")

Bind ==
  /\ launch = "binding"
  /\ LaunchGoes(IF ShuttingDown THEN "ended" ELSE "listening")

ServerClosed == launch = "listening" /\ ShuttingDown /\ LaunchGoes("ended")

\* The error Launch returns is logger.Fatal in startServer.
AfterLaunchError_OnlyLogged ==
  launch' = "ended" /\ UNCHANGED <<main, cfg, appCache, cleaner, shutdown, req, cached>>

AfterLaunchError == ProcessEnds

\* The address is taken, or accepting fails.
LaunchFails ==
  /\ launch = "binding" \/ (launch = "listening" /\ ~ShuttingDown)
  /\ AfterLaunchError
  /\ Fault

LaunchStep == AssignServer \/ ListenAndServe \/ Bind \/ ServerClosed

-----------------------------------------------------------------------------
(* main, from the signal on.                                                 *)

Stops(step) == Goes(step) /\ UNCHANGED <<cfg, appCache, cleaner, launch, req, cached, faults>>

Signal == main = "up" /\ Stops("stopping") /\ UNCHANGED shutdown

\* Shutdown finds s.server nil. The write of Launch is ordered before the read
\* only by the lock of the logger, which both take on their way.
FindsNil_Always == TRUE

FindsNil == launch \in {"starting", "assigned"}

ShutdownMisses ==
  /\ main = "stopping" /\ shutdown = "none"
  /\ FindsNil
  /\ shutdown' = "missed" /\ Stops("closeCache")

ShutdownBegins ==
  /\ main = "stopping" /\ shutdown = "none"
  /\ launch # "starting"
  /\ shutdown' = "waiting" /\ Stops("stopping")

Drained_ListenerOnly == TRUE

Drained == \A c \in Client : req[c] = Idle

ShutdownReturns ==
  /\ shutdown = "waiting"
  /\ Drained
  /\ shutdown' = "quiet" /\ Stops("closeCache")

\* After ten seconds; main looks at no error.
GivesUp_Never == FALSE

GivesUp == ~Drained

ShutdownTimesOut ==
  /\ shutdown = "waiting"
  /\ GivesUp
  /\ shutdown' = "gaveUp" /\ Stops("closeCache")

\* The deferred calls, last first.
CloseCache ==
  /\ main = "closeCache"
  /\ cached' = IF appCache.type = "inmemory" THEN {} ELSE cached
  /\ Goes("closeRepository")
  /\ UNCHANGED <<cfg, appCache, cleaner, launch, shutdown, req, faults>>

MainReturns == main = "closeRepository" /\ ProcessEnds /\ UNCHANGED faults

MainStep ==
  \/ LoadConfig \/ CacheRefused \/ NewCache \/ LoadOrders
  \/ ShutdownMisses \/ ShutdownBegins \/ ShutdownReturns \/ ShutdownTimesOut
  \/ CloseCache \/ MainReturns

-----------------------------------------------------------------------------
(* Connections and handlers.                                                 *)

Becomes(c, r) == req' = [req EXCEPT ![c] = r]

Connect(c) ==
  /\ launch = "listening" /\ ~ShuttingDown
  /\ req[c] = Idle
  /\ Becomes(c, Connected)
  /\ UNCHANGED <<proc, cached, faults>>

Disconnect(c) ==
  /\ req[c] = Connected
  /\ Becomes(c, Idle)
  /\ UNCHANGED <<proc, cached, faults>>

Receive(c, r) ==
  /\ req[c] = Connected
  /\ Becomes(c, r)
  /\ UNCHANGED <<proc, cached, faults>>

\* A closed Redis client fails every call, an in-memory cache none.
CacheDead == main = "closeRepository" /\ appCache.type = "redis"
CacheFails ==
  \/ CacheDead /\ UNCHANGED faults
  \/ appCache.type = "redis" /\ Fault

At(c, op, step) == req[c].op = op /\ req[c].at = step

Answers(c) == Becomes(c, Idle) /\ UNCHANGED proc

HandleGetOrder(c, status) ==
  /\ At(c, "get", "begin")
  /\ LET u == req[c].uid IN
       \/ u \in LongUid /\ status = 400 /\ UNCHANGED faults
       \/ u \notin LongUid /\ status = 500 /\ CacheFails
       \/ u \notin LongUid \cup cached /\ ~CacheDead /\ status = 404 /\ UNCHANGED faults
       \/ u \in cached \ LongUid /\ ~CacheDead /\ status = 200 /\ UNCHANGED faults
  /\ Answers(c)
  /\ UNCHANGED cached

\* HandleDeleteOrder: OrderExists ...
DeleteUnanswered(c, status) ==
  /\ At(c, "delete", "begin")
  /\ \/ status = 500 /\ CacheFails
     \/ req[c].uid \notin cached /\ ~CacheDead /\ status = 404 /\ UNCHANGED faults
  /\ Answers(c)
  /\ UNCHANGED cached

DeleteCheck(c) ==
  /\ At(c, "delete", "begin")
  /\ req[c].uid \in cached /\ ~CacheDead
  /\ Becomes(c, Request("delete", req[c].uid, "remove"))
  /\ UNCHANGED <<proc, cached, faults>>

\* ... then RemoveOrder, whether or not the order is still there.
AfterRemove_Kept(u) == cached

AfterRemove(u) == cached \ {u}

DeleteRemove(c, status) ==
  /\ At(c, "delete", "remove")
  /\ \/ status = 200 /\ ~CacheDead /\ cached' = AfterRemove(req[c].uid) /\ UNCHANGED faults
     \/ status = 500 /\ CacheFails /\ cached' \in {cached, AfterRemove(req[c].uid)}
  /\ Answers(c)

\* A Clear that fails may have removed a part.
HandleClearOrders(c, status) ==
  /\ At(c, "clear", "begin")
  /\ \/ status = 200 /\ ~CacheDead /\ cached' = {} /\ UNCHANGED faults
     \/ status = 500 /\ CacheFails /\ cached' \in SUBSET cached
  /\ Answers(c)

HandleGetAllOrders(c, status) ==
  /\ At(c, "list", "begin")
  /\ \/ status = 200 /\ ~CacheDead /\ UNCHANGED faults
     \/ status = 500 /\ CacheFails
  /\ Answers(c)
  /\ UNCHANGED cached

Status == {200, 400, 404, 500}

Handler(c) ==
  \/ DeleteCheck(c)
  \/ \E status \in Status :
       \/ HandleGetOrder(c, status) \/ DeleteUnanswered(c, status) \/ DeleteRemove(c, status)
       \/ HandleClearOrders(c, status) \/ HandleGetAllOrders(c, status)

-----------------------------------------------------------------------------
(* The consumer, which main does not wait for, and the cache's TTL.          *)

HasCache == main \in {"up", "stopping", "closeCache", "closeRepository"}

SaveOrder(u) ==
  /\ HasCache /\ ~CacheDead
  /\ cached' = cached \cup {u}
  /\ UNCHANGED <<proc, req, faults>>

CacheForgets(u) ==
  /\ u \in cached
  /\ cached' = cached \ {u}
  /\ UNCHANGED <<proc, req, faults>>

-----------------------------------------------------------------------------
Next ==
  \/ \E c \in Config : Start(c)
  \/ MainStep \/ LaunchStep \/ LaunchFails \/ StartCleanup \/ Signal \/ Killed
  \/ \E c \in Client : \/ Connect(c) \/ Disconnect(c) \/ Handler(c)
                       \/ \E r \in Calls : Receive(c, r)
  \/ \E u \in Uid : SaveOrder(u) \/ CacheForgets(u)

Spec == Init /\ [][Next]_vars

\* main runs when it can. Shutdown's timer fires: one of its two ways to return
\* is a step of main. Nobody has to start the process, to connect, to send a
\* signal or to answer a request.
Fairness == WF_vars(MainStep)

-----------------------------------------------------------------------------
\* A configuration that config.Load accepts gives a cache: New refuses it only
\* for a malformed TTL of a Redis cache, which Validate does not look at and
\* New meets as an unknown type. An in-memory cache has room for an order and a
\* TTL its cleanup can halve, unless a TTL below two nanoseconds was asked for.
AcceptedConfigurationsWork ==
  [][/\ CacheRefused => cfg.type = "redis" /\ cfg.ttl = Malformed
     /\ NewCache /\ appCache'.type = "inmemory" =>
          /\ appCache'.capacity > 0
          /\ ~TickerPanics(appCache') \/ (cfg.ttl # 0 /\ cfg.ttl = appCache'.ttl)]_vars

\* A service that waits for a signal has an HTTP server, or Launch on its way
\* to one: the goroutine does not end and leave main behind.
NeverUpWithoutServer == main = "up" => launch \notin {"none", "ended"}

\* Once Shutdown has stopped the server, no request is in a handler and no
\* connection can bring one: nothing serves from the cache main then closes.
\* Not so if Shutdown found no server or gave up waiting.
QuietAfterShutdown ==
  main \in {"closeCache", "closeRepository"} /\ shutdown \notin {"missed", "gaveUp"} =>
    \A c \in Client : req[c] = Idle

\* What a connection still has to do before it is closed or idle.
Remaining(r) ==
  CASE r.at = "idle" -> 0 [] r.at = "remove" -> 1 [] r.at = "begin" -> 2 [] r.at = "connected" -> 3

\* A stop loses no request to the race with Launch: where Shutdown finds no
\* server, no connection has been accepted yet. Where it finds one, the
\* connections only drain from then on, each with one more request at most; it
\* is so too after Shutdown gave up waiting and while main closes the cache,
\* and for a Launch that has not got to listening.
ShutdownDrains ==
  [][/\ ShutdownMisses => \A c \in Client : req[c] = Idle
     /\ shutdown \in {"waiting", "quiet", "gaveUp"} =>
          \A c \in Client : Remaining(req'[c]) <= Remaining(req[c])]_vars

\* A signal ends the process, whatever the requests and Launch are doing, and
\* though a handler never answers.
StopEnds == main = "stopping" ~> main = "down"
=============================================================================
