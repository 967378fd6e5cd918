CONSTANTS
  o1 = o1
  o2 = o2
  c1 = c1
  c2 = c2
  v1 = v1
  v2 = v2
  long = long
  Uid = {o1, o2}
  Version = {v1}
  Chrt = {c1, c2}
  ItemsOf <- SharedItem
  UniqueChrt = TRUE
  Unfit <- LongDelivery
  Bad = Bad
  MaxMessages = 2
  MaxFaults = 1
  MaxStops = 1
  MayCrash = TRUE
SPECIFICATION FairSpec
PROPERTIES UnreadOrdersStored ConsumerSubscribes
