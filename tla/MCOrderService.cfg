CONSTANTS
  o1 = o1
  o2 = o2
  c1 = c1
  c2 = c2
  v1 = v1
  v2 = v2
  long = long
  Uid = {o1, o2}
  Version = {v1, v2, long}
  Chrt = {c1, c2}
  ItemsOf <- SharedItem
  UniqueChrt = TRUE
  Unfit <- LongDelivery
  Bad = Bad
  MaxMessages = 3
  MaxFaults = 2
  MaxStops = 2
  MayCrash = TRUE
SPECIFICATION Spec
INVARIANTS TypeOK DeliveryMarksComplete CacheBackedByDB TornOnlyByFault
PROPERTIES GoneUntilRestart TornForever ImplementsStore
SYMMETRY Symmetry
