------------------------- MODULE HttpServiceProofs -------------------------
(* The safety properties of HttpService and MCHttpService, for any orders,   *)
(* connections and configurations and any number of errors.                  *)
EXTENDS MCHttpService, TLAPS

-----------------------------------------------------------------------------
(* The inductive invariant: where main, Launch and Shutdown can be at the    *)
(* same time.                                                                *)

Early == {"down", "config", "cache", "load"}

\* Load has accepted the configuration initializeCache is given.
ConfigAccepted ==
  /\ main \in {"config", "cache"} => cfg \in Config
  /\ main = "cache" => Validate(cfg)

LaunchPlace == launch = "none" <=> main \in Early

\* Launch returns without an error only when it has been told to stop.
EndedTold == launch = "ended" => ShuttingDown

ShutdownPlace ==
  /\ main \in Early \cup {"up"} => shutdown = "none"
  /\ main = "stopping" => shutdown \in {"none", "waiting"}
  /\ main \in {"closeCache", "closeRepository"} => shutdown \in {"missed", "quiet", "gaveUp"}

\* Nobody has connected before Launch has bound the address.
NobodyYet ==
  launch \in {"none", "starting", "assigned", "binding"} => \A c \in Client : req[c] = Idle

IInv ==
  /\ TypeOK
  /\ ConfigAccepted
  /\ LaunchPlace /\ EndedTold /\ ShutdownPlace /\ NobodyYet
  /\ QuietAfterShutdown

-----------------------------------------------------------------------------
(* Types.                                                                    *)

\* A process that ends leaves everything as it is at first, faults apart.
LEMMA EndTyped ==
  ASSUME ProcessEnds, faults' \in 0 .. MaxFaults
  PROVE  TypeOK'
  BY DEF ProcessEnds, TypeOK

LEMMA FaultTyped ==
  ASSUME TypeOK, \/ Fault \/ UNCHANGED faults
  PROVE  faults' \in 0 .. MaxFaults
  BY MaxFaultsAssumption DEF TypeOK, Fault

LEMMA InitTyped == Init => TypeOK
  BY MaxFaultsAssumption DEF Init, TypeOK

\* What New makes of a configuration it does not refuse.
LEMMA NewTyped ==
  ASSUME NEW c \in Config, ~Refuses(ToCacheConfig(c))
  PROVE  New(ToCacheConfig(c)) \in [type : {"redis", "inmemory"}, capacity : Int, ttl : Int]
  <1>1. c.ttl # Malformed
    BY DEF Refuses, ToCacheConfig, Empty, CacheSettings
  <1>2. c.capacity \in Int /\ (c.ttl = NoText \/ c.ttl \in Int)
    BY <1>1, CapacityAssumption, DurationAssumption DEF Config
  <1>3. /\ ToCacheConfig(c).capacity \in Int
        /\ ToCacheConfig(c).ttl \in Int
        /\ ToCacheConfig(c).type \in {"redis", "inmemory"}
    BY <1>1, <1>2, DurationAssumption DEF Refuses, ToCacheConfig, CacheSettings
  <1> QED
    BY <1>3, DurationAssumption DEF New, CacheSettings

LEMMA RequestFacts ==
  ASSUME TypeOK, NEW c \in Client
  PROVE  /\ req[c] \in {Idle, Connected} \cup Calls \cup Removals
         /\ req[c].op \in {"get", "delete"} => req[c].uid \in Uid
  <1>1. req[c] \in {Idle, Connected} \cup Calls \cup Removals
    BY DEF TypeOK
  <1> QED
    BY <1>1 DEF Idle, Connected, Calls, Removals, Request

LEMMA BecomesTyped ==
  ASSUME TypeOK, NEW c \in Client, NEW r \in {Idle, Connected} \cup Calls \cup Removals,
         Becomes(c, r)
  PROVE  req' \in [Client -> {Idle, Connected} \cup Calls \cup Removals]
  BY DEF TypeOK, Becomes

\* A step of a handler or of a connection.
LEMMA RequestTyped ==
  ASSUME TypeOK, NEW c \in Client,
         Connect(c) \/ Disconnect(c) \/ Handler(c) \/ \E r \in Calls : Receive(c, r)
  PROVE  TypeOK'
  <1>1. UNCHANGED proc
    BY DEF Connect, Disconnect, Handler, Receive, DeleteCheck, HandleGetOrder,
           DeleteUnanswered, DeleteRemove, HandleClearOrders, HandleGetAllOrders, Answers
  <1>2. \E r \in {Idle, Connected} \cup Calls \cup Removals : Becomes(c, r)
    <2>1. CASE DeleteCheck(c)
      BY <2>1, RequestFacts DEF DeleteCheck, At, Removals
    <2>2. CASE Handler(c) /\ ~DeleteCheck(c)
      BY <2>2 DEF Handler, HandleGetOrder, DeleteUnanswered, DeleteRemove, HandleClearOrders,
                  HandleGetAllOrders, Answers
    <2>3. CASE Connect(c) \/ Disconnect(c) \/ \E r \in Calls : Receive(c, r)
      BY <2>3 DEF Connect, Disconnect, Receive
    <2> QED
      BY <2>1, <2>2, <2>3
  <1>3. \/ Fault \/ UNCHANGED faults
    BY DEF Connect, Disconnect, Handler, Receive, DeleteCheck, HandleGetOrder,
           DeleteUnanswered, DeleteRemove, HandleClearOrders, HandleGetAllOrders, CacheFails
  <1>4. cached' \subseteq cached
    BY DEF Connect, Disconnect, Handler, Receive, DeleteCheck, HandleGetOrder,
           DeleteUnanswered, DeleteRemove, HandleClearOrders, HandleGetAllOrders, AfterRemove
  <1>5. req' \in [Client -> {Idle, Connected} \cup Calls \cup Removals]
    BY <1>2, BecomesTyped
  <1>6. faults' \in 0 .. MaxFaults
    BY <1>3, FaultTyped
  <1> QED
    BY <1>1, <1>4, <1>5, <1>6 DEF TypeOK, proc

\* A step is one of a connection, or leaves them alone, or ends them all.
LEMMA RequestsMove ==
  ASSUME [Next]_vars
  PROVE  \/ req' = [d \in Client |-> Idle]
         \/ UNCHANGED req
         \/ \E d \in Client : \/ Connect(d) \/ Disconnect(d) \/ Handler(d)
                              \/ \E r \in Calls : Receive(d, r)
  BY DEF Next, vars, proc, Start, MainStep, LoadConfig, CacheRefused, NewCache, LoadOrders,
           ShutdownMisses, ShutdownBegins, ShutdownReturns, ShutdownTimesOut, CloseCache,
           MainReturns, LaunchStep, AssignServer, ListenAndServe, Bind, ServerClosed,
           LaunchGoes, LaunchFails, AfterLaunchError, StartCleanup, Signal, Stops, Killed,
           ProcessEnds, SaveOrder, CacheForgets

LEMMA TypeStep ==
  ASSUME TypeOK, ConfigAccepted, [Next]_vars
  PROVE  TypeOK'
  <1>1. CASE UNCHANGED vars
    BY <1>1 DEF TypeOK, vars, proc
  <1>2. CASE \E c \in Config : Start(c)
    BY <1>2 DEF TypeOK, Start, Goes
  <1>3. CASE LoadConfig
    <2>1. CASE ProcessEnds
      BY <1>3, <2>1, EndTyped, FaultTyped DEF LoadConfig
    <2>2. CASE Goes("cache")
      BY <1>3, <2>2 DEF LoadConfig, Goes, TypeOK, ProcessEnds
    <2> QED
      BY <1>3, <2>1, <2>2 DEF LoadConfig
  <1>4. CASE CacheRefused \/ MainReturns \/ Killed
    BY <1>4, EndTyped, FaultTyped DEF CacheRefused, MainReturns, Killed
  <1>5. CASE NewCache
    <2>1. appCache' \in [type : {"redis", "inmemory"}, capacity : Int, ttl : Int]
      BY <1>5, NewTyped DEF NewCache, ConfigAccepted
    <2> QED
      BY <1>5, <2>1 DEF NewCache, TypeOK, Goes
  <1>6. CASE LoadOrders
    BY <1>6 DEF LoadOrders, TypeOK, Goes
  <1>7. CASE ShutdownMisses \/ ShutdownBegins \/ ShutdownReturns \/ ShutdownTimesOut \/ Signal
    BY <1>7 DEF ShutdownMisses, ShutdownBegins, ShutdownReturns, ShutdownTimesOut, Signal,
                Stops, Goes, TypeOK
  <1>8. CASE CloseCache
    BY <1>8 DEF CloseCache, Goes, TypeOK
  <1>9. CASE LaunchStep
    BY <1>9 DEF LaunchStep, AssignServer, ListenAndServe, Bind, ServerClosed, LaunchGoes, TypeOK
  <1>10. CASE LaunchFails
    BY <1>10, EndTyped, FaultTyped DEF LaunchFails, AfterLaunchError
  <1>11. CASE StartCleanup
    <2>1. CASE ProcessEnds
      BY <1>11, <2>1, EndTyped, FaultTyped DEF StartCleanup
    <2>2. CASE cleaner' = "ticking" /\ UNCHANGED <<main, cfg, appCache, launch, shutdown, req, cached>>
      BY <1>11, <2>2 DEF StartCleanup, TypeOK
    <2> QED
      BY <1>11, <2>1, <2>2 DEF StartCleanup
  <1>12. CASE \E c \in Client : \/ Connect(c) \/ Disconnect(c) \/ Handler(c)
                                \/ \E r \in Calls : Receive(c, r)
    BY <1>12, RequestTyped
  <1>13. CASE \E u \in Uid : SaveOrder(u) \/ CacheForgets(u)
    BY <1>13 DEF SaveOrder, CacheForgets, TypeOK, proc
  <1> QED
    BY <1>1, <1>2, <1>3, <1>4, <1>5, <1>6, <1>7, <1>8, <1>9, <1>10, <1>11, <1>12, <1>13
    DEF Next, MainStep

-----------------------------------------------------------------------------
(* main, Launch and Shutdown.                                                *)

Places ==
  /\ ConfigAccepted /\ LaunchPlace /\ EndedTold /\ ShutdownPlace /\ NobodyYet
  /\ QuietAfterShutdown

LEMMA EndPlaces ==
  ASSUME ProcessEnds
  PROVE  Places'
  BY DEF ProcessEnds, Places, ConfigAccepted, LaunchPlace, EndedTold, ShutdownPlace, NobodyYet,
         QuietAfterShutdown, Early

\* A step of a connection leaves main, Launch and Shutdown alone, and once the
\* server is stopped finds no connection.
LEMMA RequestPlaces ==
  ASSUME IInv, NEW c \in Client,
         Connect(c) \/ Disconnect(c) \/ Handler(c) \/ \E r \in Calls : Receive(c, r)
  PROVE  Places'
  <1>1. UNCHANGED proc
    BY DEF Connect, Disconnect, Handler, Receive, DeleteCheck, HandleGetOrder,
           DeleteUnanswered, DeleteRemove, HandleClearOrders, HandleGetAllOrders, Answers
  <1>2. ConfigAccepted' /\ LaunchPlace' /\ EndedTold' /\ ShutdownPlace'
    BY <1>1 DEF IInv, ConfigAccepted, LaunchPlace, EndedTold, ShutdownPlace, ShuttingDown, proc
  <1>4. NobodyYet'
    <2> SUFFICES ASSUME launch \in {"none", "starting", "assigned", "binding"}
                 PROVE  FALSE
      BY <1>1 DEF NobodyYet, proc
    <2>1. req[c] = Idle
      BY DEF IInv, NobodyYet
    <2>2. ~Connect(c)
      BY DEF Connect
    <2>3. ~Disconnect(c) /\ ~(\E r \in Calls : Receive(c, r))
      BY <2>1 DEF Disconnect, Receive, Idle, Connected, Request
    <2>4. ~Handler(c)
      BY <2>1 DEF Handler, DeleteCheck, HandleGetOrder, DeleteUnanswered, DeleteRemove,
                  HandleClearOrders, HandleGetAllOrders, At, Idle, Request
    <2> QED
      BY <2>2, <2>3, <2>4
  <1>3. QuietAfterShutdown'
    <2> SUFFICES ASSUME main \in {"closeCache", "closeRepository"},
                        shutdown \notin {"missed", "gaveUp"}
                 PROVE  FALSE
      BY <1>1 DEF QuietAfterShutdown, proc
    <2>1. shutdown = "quiet" /\ req[c] = Idle
      BY DEF IInv, ShutdownPlace, NobodyYet, QuietAfterShutdown
    <2>2. ~Connect(c)
      BY <2>1 DEF Connect, ShuttingDown
    <2>3. ~Disconnect(c) /\ ~(\E r \in Calls : Receive(c, r))
      BY <2>1 DEF Disconnect, Receive, Idle, Connected, Request
    <2>4. ~Handler(c)
      BY <2>1 DEF Handler, DeleteCheck, HandleGetOrder, DeleteUnanswered, DeleteRemove,
                  HandleClearOrders, HandleGetAllOrders, At, Idle, Request
    <2> QED
      BY <2>2, <2>3, <2>4
  <1> QED
    BY <1>2, <1>3, <1>4 DEF Places

LEMMA PlacesStep ==
  ASSUME IInv, [Next]_vars
  PROVE  Places'
  <1> USE DEF Early
  <1>1. CASE UNCHANGED vars
    BY <1>1 DEF IInv, Places, ConfigAccepted, LaunchPlace, EndedTold, ShutdownPlace, NobodyYet,
                QuietAfterShutdown, ShuttingDown, vars, proc
  <1>2. CASE \E c \in Config : Start(c)
    BY <1>2 DEF IInv, Places, Start, Goes, ConfigAccepted, LaunchPlace, EndedTold,
                ShutdownPlace, NobodyYet, QuietAfterShutdown, ShuttingDown
  <1>3. CASE LoadConfig
    <2>1. CASE ProcessEnds
      BY <2>1, EndPlaces
    <2>2. CASE Validate(cfg) /\ Goes("cache") /\ UNCHANGED <<cfg, appCache, cleaner, launch, shutdown, req, cached>>
      <3>1. cfg \in Config
        BY <1>3, <2>2 DEF LoadConfig, IInv, ConfigAccepted
      <3> QED
        BY <1>3, <2>2, <3>1 DEF LoadConfig, IInv, Places, Goes, ConfigAccepted, LaunchPlace,
             EndedTold, ShutdownPlace, NobodyYet, QuietAfterShutdown, ShuttingDown
    <2> QED
      BY <1>3, <2>1, <2>2 DEF LoadConfig
  <1>4. CASE CacheRefused \/ MainReturns \/ Killed \/ LaunchFails
    BY <1>4, EndPlaces DEF CacheRefused, MainReturns, Killed, LaunchFails, AfterLaunchError
  <1>5. CASE NewCache
    BY <1>5 DEF NewCache, IInv, Places, Goes, ConfigAccepted, LaunchPlace, EndedTold,
                ShutdownPlace, NobodyYet, QuietAfterShutdown, ShuttingDown
  <1>6. CASE LoadOrders
    BY <1>6 DEF LoadOrders, IInv, Places, Goes, ConfigAccepted, LaunchPlace, EndedTold,
                ShutdownPlace, NobodyYet, QuietAfterShutdown, ShuttingDown
  <1>7. CASE ShutdownMisses \/ ShutdownBegins \/ ShutdownTimesOut \/ Signal
    BY <1>7 DEF ShutdownMisses, ShutdownBegins, ShutdownTimesOut, Signal, Stops, Goes, IInv,
                Places, ConfigAccepted, LaunchPlace, EndedTold, ShutdownPlace, NobodyYet,
                QuietAfterShutdown, ShuttingDown
  <1>8. CASE ShutdownReturns
    BY <1>8 DEF ShutdownReturns, Drained, Stops, Goes, IInv, Places, ConfigAccepted,
                LaunchPlace, EndedTold, ShutdownPlace, NobodyYet, QuietAfterShutdown, ShuttingDown
  <1>9. CASE CloseCache
    BY <1>9 DEF CloseCache, Goes, IInv, Places, ConfigAccepted, LaunchPlace, EndedTold,
                ShutdownPlace, NobodyYet, QuietAfterShutdown, ShuttingDown
  <1>10. CASE LaunchStep
    BY <1>10 DEF LaunchStep, AssignServer, ListenAndServe, Bind, ServerClosed, LaunchGoes,
                 IInv, Places, ConfigAccepted, LaunchPlace, EndedTold, ShutdownPlace, NobodyYet,
                 QuietAfterShutdown, ShuttingDown
  <1>11. CASE StartCleanup
    <2>1. CASE ProcessEnds
      BY <2>1, EndPlaces
    <2>2. CASE UNCHANGED <<main, cfg, appCache, launch, shutdown, req, cached>>
      BY <2>2 DEF IInv, Places, ConfigAccepted, LaunchPlace, EndedTold, ShutdownPlace, NobodyYet,
                  QuietAfterShutdown, ShuttingDown
    <2> QED
      BY <1>11, <2>1, <2>2 DEF StartCleanup
  <1>12. CASE \E c \in Client : \/ Connect(c) \/ Disconnect(c) \/ Handler(c)
                                \/ \E r \in Calls : Receive(c, r)
    BY <1>12, RequestPlaces
  <1>13. CASE \E u \in Uid : SaveOrder(u) \/ CacheForgets(u)
    BY <1>13 DEF SaveOrder, CacheForgets, IInv, Places, ConfigAccepted, LaunchPlace,
                 EndedTold, ShutdownPlace, NobodyYet, QuietAfterShutdown, ShuttingDown, proc
  <1> QED
    BY <1>1, <1>2, <1>3, <1>4, <1>5, <1>6, <1>7, <1>8, <1>9, <1>10, <1>11, <1>12, <1>13
    DEF Next, MainStep

LEMMA AlwaysSafe == Spec => []IInv
  <1>1. Init => IInv
    <2> SUFFICES ASSUME Init PROVE IInv
      OBVIOUS
    <2>1. TypeOK
      BY InitTyped
    <2> QED
      BY <2>1 DEF Init, IInv, ConfigAccepted, LaunchPlace, EndedTold, ShutdownPlace, NobodyYet,
                  QuietAfterShutdown, Early
  <1>2. IInv /\ [Next]_vars => IInv'
    <2> SUFFICES ASSUME IInv, [Next]_vars PROVE IInv'
      OBVIOUS
    <2>1. TypeOK'
      BY TypeStep DEF IInv
    <2>2. Places'
      BY PlacesStep
    <2> QED
      BY <2>1, <2>2 DEF IInv, Places
  <1> QED
    BY <1>1, <1>2, PTL DEF Spec

\* The variables keep their types, for every set of configurations,
\* connections and orders.
THEOREM HttpTypeCorrect == Spec => []TypeOK
  <1>1. IInv => TypeOK
    BY DEF IInv
  <1> QED
    BY <1>1, AlwaysSafe, PTL

\* While main waits for a signal there is an HTTP server, or Launch on its way
\* to one.
THEOREM ServerStays == Spec => []NeverUpWithoutServer
  <1>1. IInv => NeverUpWithoutServer
    BY DEF IInv, NeverUpWithoutServer, LaunchPlace, EndedTold, ShutdownPlace, ShuttingDown, Early
  <1> QED
    BY <1>1, AlwaysSafe, PTL

\* No handler runs once Shutdown has stopped the server: with any number of
\* connections and a signal at any moment.
THEOREM ShutdownIsQuiet == Spec => []QuietAfterShutdown
  <1>1. IInv => QuietAfterShutdown
    BY DEF IInv
  <1> QED
    BY <1>1, AlwaysSafe, PTL

\* What is left for a connection to do, by where it is.
LEMMA RemainingValues ==
  /\ Remaining(Idle) = 0 /\ Remaining(Connected) = 3
  /\ \A r \in Calls : Remaining(r) = 2
  /\ \A r \in Removals : Remaining(r) = 1
  BY DEF Remaining, Idle, Connected, Calls, Removals, Request

\* A connection moves on towards its end, unless it is a new one.
LEMMA Drains ==
  ASSUME TypeOK, NEW c \in Client,
         Disconnect(c) \/ Handler(c) \/ \E r \in Calls : Receive(c, r)
  PROVE  \A d \in Client : Remaining(req'[d]) <= Remaining(req[d])
  <1>1. \A d \in Client : Remaining(req[d]) \in 0 .. 3
    BY RemainingValues DEF TypeOK
  <1>2. \E r : Becomes(c, r) /\ Remaining(r) <= Remaining(req[c])
    <2>1. CASE Disconnect(c)
      BY <2>1, RemainingValues DEF Disconnect
    <2>2. ASSUME NEW r \in Calls, Receive(c, r)
          PROVE  \E q : Becomes(c, q) /\ Remaining(q) <= Remaining(req[c])
      BY <2>2, RemainingValues DEF Receive
    <2>3. CASE DeleteCheck(c)
      <3>1. /\ Becomes(c, Request("delete", req[c].uid, "remove"))
            /\ req[c].op = "delete" /\ req[c].at = "begin"
        BY <2>3 DEF DeleteCheck, At
      <3>2. req[c].uid \in Uid
        BY <3>1, RequestFacts
      <3>3. Remaining(Request("delete", req[c].uid, "remove")) = 1
        BY <3>2, RemainingValues DEF Removals
      <3>4. Remaining(req[c]) = 2
        BY <3>1 DEF Remaining
      <3> QED
        BY <3>1, <3>3, <3>4
    <2>4. CASE Handler(c) /\ ~DeleteCheck(c)
      <3>1. Becomes(c, Idle)
        BY <2>4 DEF Handler, HandleGetOrder, DeleteUnanswered, DeleteRemove, HandleClearOrders,
                    HandleGetAllOrders, Answers
      <3> QED
        BY <1>1, <3>1, RemainingValues
    <2> QED
      BY <2>1, <2>2, <2>3, <2>4
  <1>3. PICK r : Becomes(c, r) /\ Remaining(r) <= Remaining(req[c])
    BY <1>2
  <1>4. req' = [req EXCEPT ![c] = r] /\ DOMAIN req = Client
    BY <1>3 DEF Becomes, TypeOK
  <1>5. ASSUME NEW d \in Client
        PROVE  Remaining(req'[d]) <= Remaining(req[d])
    <2>1. CASE d = c
      BY <1>3, <1>4, <2>1
    <2>2. CASE d # c
      <3>1. req'[d] = req[d]
        BY <1>4, <2>2
      <3> QED
        BY <1>1, <3>1
    <2> QED
      BY <2>1, <2>2
  <1> QED
    BY <1>5

\* Where Shutdown finds no server nobody has connected, and where it finds one
\* the connections only drain from then on: with any number of them and a
\* signal at any moment.
THEOREM StopDrains == Spec => ShutdownDrains
  <1>1. ASSUME IInv, ShutdownMisses, NEW c \in Client
        PROVE  req[c] = Idle
    BY <1>1 DEF IInv, NobodyYet, ShutdownMisses, FindsNil
  <1>2. ASSUME IInv, [Next]_vars, shutdown \in {"waiting", "quiet", "gaveUp"}, NEW c \in Client
        PROVE  Remaining(req'[c]) <= Remaining(req[c])
    <2>0. TypeOK /\ Remaining(req[c]) \in 0 .. 3
      BY <1>2, RemainingValues DEF IInv, TypeOK
    <2>1. CASE UNCHANGED req
      BY <2>0, <2>1
    <2>2. CASE req' = [d \in Client |-> Idle]
      BY <2>0, <2>2, RemainingValues
    <2>3. ASSUME NEW d \in Client,
                 \/ Connect(d) \/ Disconnect(d) \/ Handler(d)
                 \/ \E r \in Calls : Receive(d, r)
          PROVE  Remaining(req'[c]) <= Remaining(req[c])
      <3>1. ~Connect(d)
        BY <1>2 DEF Connect, ShuttingDown
      <3> QED
        BY <2>0, <2>3, <3>1, Drains
    <2> QED
      BY <1>2, <2>1, <2>2, <2>3, RequestsMove
  <1>3. IInv /\ [Next]_vars =>
          [/\ ShutdownMisses => \A c \in Client : req[c] = Idle
           /\ shutdown \in {"waiting", "quiet", "gaveUp"} =>
                \A c \in Client : Remaining(req'[c]) <= Remaining(req[c])]_vars
    BY <1>1, <1>2
  <1> QED
    BY <1>3, AlwaysSafe, PTL DEF Spec, ShutdownDrains

-----------------------------------------------------------------------------
(* Configurations.                                                           *)

\* Validate leaves to New's refusal a malformed TTL of Redis only.
LEMMA RefusedAccepted ==
  ASSUME NEW c \in Config, Validate(c), Refuses(ToCacheConfig(c))
  PROVE  c.type = "redis" /\ c.ttl = Malformed
  BY DEF Validate, CacheConfigValid, Refuses, ToCacheConfig, CacheSettings, Empty

\* Half of a TTL of two nanoseconds or more is positive.
LEMMA InMemoryWorks ==
  ASSUME NEW c \in Config, ~Refuses(ToCacheConfig(c)),
         New(ToCacheConfig(c)).type = "inmemory"
  PROVE  /\ New(ToCacheConfig(c)).capacity > 0
         /\ \/ ~TickerPanics(New(ToCacheConfig(c)))
            \/ c.ttl # 0 /\ c.ttl = New(ToCacheConfig(c)).ttl
  <1>1. c.type = "inmemory" /\ c.ttl # Malformed
    BY DEF Refuses, ToCacheConfig, Empty, CacheSettings, New
  <1>2. c.capacity > 0
    BY <1>1 DEF Refuses, ToCacheConfig, CacheSettings
  <1>3. New(ToCacheConfig(c)).capacity = c.capacity
    BY <1>1 DEF ToCacheConfig, CacheSettings, New
  <1>4. CASE c.ttl = NoText
    <2>1. New(ToCacheConfig(c)).ttl = HalfHour
      BY <1>1, <1>4, DurationAssumption DEF ToCacheConfig, CacheSettings, New
    <2> QED
      BY <2>1, <1>2, <1>3, DurationAssumption DEF TickerPanics
  <1>5. CASE c.ttl = 0
    <2>1. New(ToCacheConfig(c)).ttl = Hour
      BY <1>1, <1>5, DurationAssumption DEF ToCacheConfig, CacheSettings, New
    <2> QED
      BY <2>1, <1>2, <1>3, DurationAssumption DEF TickerPanics
  <1>6. CASE c.ttl # 0 /\ c.ttl # NoText
    BY <1>1, <1>2, <1>3, <1>6 DEF ToCacheConfig, CacheSettings, New
  <1> QED
    BY <1>4, <1>5, <1>6

\* Any accepted configuration gives a working cache, with the exceptions the
\* property names.
THEOREM ConfigurationsWork == Spec => AcceptedConfigurationsWork
  <1>1. IInv /\ [Next]_vars =>
          [/\ CacheRefused => cfg.type = "redis" /\ cfg.ttl = Malformed
           /\ NewCache /\ appCache'.type = "inmemory" =>
                /\ appCache'.capacity > 0
                /\ ~TickerPanics(appCache') \/ (cfg.ttl # 0 /\ cfg.ttl = appCache'.ttl)]_vars
    <2> SUFFICES ASSUME IInv
                 PROVE  /\ CacheRefused => cfg.type = "redis" /\ cfg.ttl = Malformed
                        /\ NewCache /\ appCache'.type = "inmemory" =>
                             /\ appCache'.capacity > 0
                             /\ \/ ~TickerPanics(appCache')
                                \/ cfg.ttl # 0 /\ cfg.ttl = appCache'.ttl
      OBVIOUS
    <2>1. main = "cache" => cfg \in Config /\ Validate(cfg)
      BY DEF IInv, ConfigAccepted
    <2>2. CacheRefused => cfg.type = "redis" /\ cfg.ttl = Malformed
      BY <2>1, RefusedAccepted DEF CacheRefused
    <2>3. ASSUME NewCache, appCache'.type = "inmemory"
          PROVE  /\ appCache'.capacity > 0
                 /\ ~TickerPanics(appCache') \/ (cfg.ttl # 0 /\ cfg.ttl = appCache'.ttl)
      <3>1. cfg \in Config /\ ~Refuses(ToCacheConfig(cfg)) /\ appCache' = New(ToCacheConfig(cfg))
        BY <2>1, <2>3 DEF NewCache
      <3>2. New(ToCacheConfig(cfg)).type = "inmemory"
        BY <3>1, <2>3
      <3>3. /\ New(ToCacheConfig(cfg)).capacity > 0
            /\ \/ ~TickerPanics(New(ToCacheConfig(cfg)))
               \/ cfg.ttl # 0 /\ cfg.ttl = New(ToCacheConfig(cfg)).ttl
        BY <3>1, <3>2, InMemoryWorks
      <3> QED
        BY <3>1, <3>3
    <2> QED
      BY <2>2, <2>3
  <1> QED
    BY <1>1, AlwaysSafe, PTL DEF Spec, AcceptedConfigurationsWork

-----------------------------------------------------------------------------
(* The history variables: what has been there all through is there now, and  *)
(* what is there now has been there. A DELETE that goes on to its removal    *)
(* has seen the order.                                                       *)

HInv ==
  /\ steady \in [Client -> SUBSET Uid]
  /\ seen \in [Client -> SUBSET Uid]
  /\ \A c \in Client :
       /\ steady[c] \subseteq cached \cap About(req[c])
       /\ Begun(c) => About(req[c]) \cap cached \subseteq seen[c]
       /\ req[c].at = "remove" => req[c].uid \in seen[c]

LEMMA HistoryInit == MCInit => HInv
  BY DEF MCInit, Init, HInv, Begun, Idle, Request

\* A request keeps its uid from its check to its removal.
LEMMA RemovalFollows ==
  ASSUME TypeOK, [Next]_vars, NEW c \in Client, req'[c].at = "remove"
  PROVE  \/ req'[c] = req[c]
         \/ /\ req[c].op = "delete" /\ req'[c].op = "delete"
            /\ req'[c].uid = req[c].uid /\ req[c].uid \in cached
  <1>1. CASE req' = [d \in Client |-> Idle]
    BY <1>1 DEF Idle, Request
  <1>2. CASE UNCHANGED req
    BY <1>2
  <1>3. ASSUME NEW d \in Client,
               \/ Connect(d) \/ Disconnect(d) \/ Handler(d)
               \/ \E r \in Calls : Receive(d, r)
        PROVE  \/ req'[c] = req[c]
               \/ /\ req[c].op = "delete" /\ req'[c].op = "delete"
                  /\ req'[c].uid = req[c].uid /\ req[c].uid \in cached
    <2>0. req \in [Client -> {Idle, Connected} \cup Calls \cup Removals]
      BY DEF TypeOK
    <2>1. CASE DeleteCheck(d)
      <3>1. CASE c = d
        <4>1. req'[c] = Request("delete", req[c].uid, "remove")
          BY <2>0, <2>1, <3>1 DEF DeleteCheck, Becomes
        <4> QED
          BY <4>1, <2>1, <3>1 DEF DeleteCheck, At, Request
      <3>2. CASE c # d
        BY <2>0, <2>1, <3>2 DEF DeleteCheck, Becomes
      <3> QED
        BY <3>1, <3>2
    <2>2. CASE ~DeleteCheck(d)
      <3>1. \E r \in {Idle, Connected} \cup Calls : Becomes(d, r)
        BY <1>3, <2>2 DEF Connect, Disconnect, Receive, Handler, HandleGetOrder,
             DeleteUnanswered, DeleteRemove, HandleClearOrders, HandleGetAllOrders, Answers
      <3>2. \A r \in {Idle, Connected} \cup Calls : r.at # "remove"
        BY DEF Idle, Connected, Calls, Request
      <3>3. c # d => req'[c] = req[c]
        BY <2>0, <3>1 DEF Becomes
      <3>4. c # d
        BY <2>0, <3>1, <3>2 DEF Becomes
      <3> QED
        BY <3>3, <3>4
    <2> QED
      BY <2>1, <2>2
  <1> QED
    BY <1>1, <1>2, <1>3, RequestsMove

LEMMA HistoryStep ==
  ASSUME TypeOK, TypeOK', HInv, MCNext
  PROVE  HInv'
  <1>1. /\ \A c \in Client : steady'[c] \subseteq Uid
        /\ \A c \in Client : seen'[c] \subseteq Uid
    BY DEF MCNext, HInv, TypeOK
  <1>2. steady' \in [Client -> SUBSET Uid] /\ seen' \in [Client -> SUBSET Uid]
    BY <1>1 DEF MCNext
  <1>3. ASSUME NEW c \in Client
        PROVE  /\ steady'[c] \subseteq cached' \cap About(req'[c])
               /\ Begun(c)' => About(req'[c]) \cap cached' \subseteq seen'[c]
    BY DEF MCNext
  <1>4. ASSUME NEW c \in Client, req'[c].at = "remove"
        PROVE  req'[c].uid \in seen'[c]
    <2>1. About(req'[c]) = {req'[c].uid}
      <3>1. req'[c] \in {Idle, Connected} \cup Calls \cup Removals
        BY DEF TypeOK
      <3>2. req'[c].op = "delete"
        BY <3>1, <1>4 DEF Idle, Connected, Calls, Removals, Request
      <3> QED
        BY <3>2 DEF About
    <2>2. seen'[c] = About(req'[c]) \cap (cached' \cup (IF Begun(c) THEN seen[c] ELSE cached))
      BY DEF MCNext
    <2>3. [Next]_vars
      BY DEF MCNext
    <2>4. CASE req'[c] = req[c]
      <3>1. Begun(c)
        BY <2>4, <1>4, RequestFacts DEF Begun, Idle, Connected, Calls, Removals, Request
      <3>2. req[c].uid \in seen[c]
        BY <2>4, <1>4 DEF HInv
      <3> QED
        BY <2>1, <2>2, <2>4, <3>1, <3>2
    <2>5. CASE /\ req[c].op = "delete" /\ req'[c].op = "delete"
               /\ req'[c].uid = req[c].uid /\ req[c].uid \in cached
      <3>1. Begun(c) /\ About(req[c]) = {req[c].uid}
        BY <2>5 DEF Begun, About
      <3>2. req[c].uid \in seen[c]
        BY <2>5, <3>1 DEF HInv
      <3> QED
        BY <2>1, <2>2, <2>5, <3>1, <3>2
    <2> QED
      BY <1>4, <2>3, <2>4, <2>5, RemovalFollows
  <1> QED
    BY <1>2, <1>3, <1>4 DEF HInv

\* No handler answers with what was not so at some moment of the request.
THEOREM AnswersAreHonest == MCSpec => AnswersHonest
  <1>1. MCInit => TypeOK /\ ConfigAccepted /\ HInv /\ IInv
    <2> SUFFICES ASSUME MCInit PROVE HInv /\ IInv
      BY DEF IInv
    <2>1. HInv
      BY HistoryInit
    <2>2. TypeOK
      BY InitTyped DEF MCInit
    <2>3. IInv
      BY <2>2 DEF MCInit, Init, IInv, ConfigAccepted, LaunchPlace, EndedTold, ShutdownPlace, NobodyYet,
                  QuietAfterShutdown, Early
    <2> QED
      BY <2>1, <2>3
  <1>2. IInv /\ HInv /\ [MCNext]_mcVars => (IInv /\ HInv)'
    <2> SUFFICES ASSUME IInv, HInv, [MCNext]_mcVars PROVE (IInv /\ HInv)'
      OBVIOUS
    <2>1. [Next]_vars
      BY DEF MCNext, mcVars
    <2>2. TypeOK'
      BY <2>1, TypeStep DEF IInv
    <2>3. IInv'
      BY <2>1, <2>2, PlacesStep DEF IInv, Places
    <2>4. CASE MCNext
      BY <2>2, <2>3, <2>4, HistoryStep DEF IInv
    <2>5. CASE UNCHANGED mcVars
      <3>1. UNCHANGED <<req, cached, steady, seen>>
        BY <2>5 DEF mcVars, vars
      <3>2. HInv'
        BY <3>1 DEF HInv, Begun, About
      <3> QED
        BY <2>3, <3>2
    <2> QED
      BY <2>3, <2>4, <2>5
  <1>3. IInv /\ HInv /\ [MCNext]_mcVars =>
          [\A c \in Client :
             /\ HandleGetOrder(c, 200) => req[c].uid \in seen[c]
             /\ HandleGetOrder(c, 404) \/ DeleteUnanswered(c, 404) => req[c].uid \notin steady[c]
             /\ DeleteRemove(c, 200) => req[c].uid \in seen[c] /\ steady[c] \cap cached' = {}
             /\ HandleClearOrders(c, 200) => steady[c] \cap cached' = {}]_mcVars
    <2> SUFFICES ASSUME IInv, HInv, NEW c \in Client
                 PROVE  /\ HandleGetOrder(c, 200) => req[c].uid \in seen[c]
                        /\ HandleGetOrder(c, 404) \/ DeleteUnanswered(c, 404) =>
                             req[c].uid \notin steady[c]
                        /\ DeleteRemove(c, 200) =>
                             req[c].uid \in seen[c] /\ steady[c] \cap cached' = {}
                        /\ HandleClearOrders(c, 200) => steady[c] \cap cached' = {}
      OBVIOUS
    <2>1. HandleGetOrder(c, 200) => req[c].uid \in seen[c]
      BY DEF HandleGetOrder, At, HInv, Begun, About
    <2>2. HandleGetOrder(c, 404) \/ DeleteUnanswered(c, 404) => req[c].uid \notin steady[c]
      BY DEF HandleGetOrder, DeleteUnanswered, HInv
    <2>3. DeleteRemove(c, 200) => req[c].uid \in seen[c]
      BY DEF DeleteRemove, At, HInv
    <2>4. DeleteRemove(c, 200) => steady[c] \cap cached' = {}
      BY DEF DeleteRemove, AfterRemove, At, HInv, About
    <2>5. HandleClearOrders(c, 200) => steady[c] \cap cached' = {}
      BY DEF HandleClearOrders
    <2> QED
      BY <2>1, <2>2, <2>3, <2>4, <2>5
  <1> QED
    BY <1>1, <1>2, <1>3, PTL DEF MCSpec, AnswersHonest
=============================================================================
