CONSTANTS
  a = a
  b = b
  w1 = w1
  w2 = w2
  Deliveries = {a}
  Workers = {w1, w2}
  NoWorker = NoWorker
  Platform <- OnePlatform
  Peer <- OnePeer
  Ttl <- Three
  Lease = 2
  RepublishAfter = 1
  Retention = 9
  Batches <- OneByOne
  CallTimeout <- Three
  Beat = 1
  RetryDelays = {1}
  FloodDelays = {1}
  BlockCap = 1
  Concurrency = 2
  HeartbeatReliable = FALSE
  MaxTime = 4
  EnqueueUntil = 0
  FaultsUntil = 4
  MaxFaults = 2
  MaxCopies = 1
SPECIFICATION Spec
INVARIANTS
  OneActiveHandler
SYMMETRY WorkerSymmetry
VIEW PresentTimes
\* The clock stops at MaxTime: a paused platform then waits for a tick.
CHECK_DEADLOCK FALSE
