---------------------------- MODULE CacheConfig ----------------------------
(* What stands between the configuration file and the cache: the checks of   *)
(* config.Load, CacheConfig.ToCacheConfig and the factory cache.New.         *)
(*                                                                           *)
(* As elsewhere, a name with a suffix after an underscore is the next        *)
(* definition with a bug put in, used by no action.                          *)
EXTENDS Integers

CONSTANTS
  Capacity,   \* capacities a configuration may ask for
  Duration,   \* TTLs that time.ParseDuration reads, in nanoseconds
  NoText,     \* the empty TTL
  Malformed,  \* a TTL that time.ParseDuration refuses
  HalfHour, Hour

ASSUME CapacityAssumption == Capacity \subseteq Int
ASSUME DurationAssumption ==
  /\ Duration \subseteq Int /\ NoText \notin Int /\ Malformed \notin Int \cup {NoText}
  /\ HalfHour \in Nat /\ Hour \in Nat /\ HalfHour > 1 /\ Hour > 1

\* config.Config as cleanenv leaves it: address, cache.host and cache.port are
\* there; settings, all that app, db and kafka need is.
Config == [type : {"redis", "inmemory", "other"}, capacity : Capacity,
           ttl : Duration \cup {NoText, Malformed}, address : BOOLEAN, settings : BOOLEAN]

CacheConfigValid_AnyCapacity(c) ==
  \/ c.type = "redis" /\ c.address
  \/ c.type = "inmemory" /\ c.ttl # Malformed

CacheConfigValid(c) ==
  \/ c.type = "redis" /\ c.address
  \/ c.type = "inmemory" /\ c.capacity > 0 /\ c.ttl # Malformed

Validate(c) == c.settings /\ CacheConfigValid(c)

CacheSettings(type, capacity, ttl) == [type |-> type, capacity |-> capacity, ttl |-> ttl]

\* cache.Config{}, which ToCacheConfig returns along with its error.
Empty == CacheSettings("", 0, 0)

ToCacheConfig(c) ==
  IF c.ttl = Malformed THEN Empty
  ELSE CacheSettings(c.type, c.capacity, IF c.ttl = NoText THEN HalfHour ELSE c.ttl)

\* New does not look at that error.
Refuses_CapacityOnly(config) == config.type = "inmemory" /\ config.capacity <= 0

Refuses(config) ==
  ~(config.type = "redis" \/ (config.type = "inmemory" /\ config.capacity > 0))

\* NewRedisCache takes neither a capacity nor a TTL.
New(config) ==
  IF config.type = "redis" THEN CacheSettings("redis", 0, 0)
  ELSE CacheSettings(config.type, config.capacity, IF config.ttl = 0 THEN Hour ELSE config.ttl)

\* NewInMemoryCache starts the cleanup goroutine; time.NewTicker panics unless
\* it is given a positive duration.
CleansUp(cache) == cache.type = "inmemory" /\ cache.ttl > 0
TickerPanics(cache) == cache.ttl \div 2 <= 0
=============================================================================
