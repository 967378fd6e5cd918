CONSTANTS
  Uid = {o1, o2, o3}
  Version = {v1, v2}
  Capacity = 2
  TTL = 1
  MaxTime = 3
SPECIFICATION MCSpec
INVARIANTS TypeOK MapListAgree WithinCapacity CollectedStillExpired
PROPERTIES ImplementsContract EvictsLeastRecentlyUsed HitsAreFresh ExpiredEntriesDropped
