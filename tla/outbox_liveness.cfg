CONSTANTS
  a = a
  b = b
  w1 = w1
  w2 = w2
  Deliveries = {a, b}
  Workers = {w1}
  NoWorker = NoWorker
  Platform <- OnePlatform
  Peer <- OnePeer
  Ttl <- ShortAndLong
  Lease = 2
  RepublishAfter = 1
  Retention = 20
  Batches <- Pair
  CallTimeout <- One
  Beat = 1
  RetryDelays = {1}
  FloodDelays = {1}
  BlockCap = 1
  Concurrency = 2
  HeartbeatReliable = FALSE
  MaxTime = 5
  EnqueueUntil = 0
  FaultsUntil = 1
  MaxFaults = 2
  MaxCopies = 1
SPECIFICATION FairSpec
PROPERTIES
  EventuallySettled
  EventuallyDelivered
\* The clock stops at MaxTime: a paused platform then waits for a tick.
CHECK_DEADLOCK FALSE
