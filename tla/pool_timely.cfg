SPECIFICATION FairSpec
CONSTANTS
  j1 = j1  j2 = j2  k1 = k1  k2 = k2
  w1 = w1  w2 = w2  p1 = p1  p2 = p2
  NoJob = NoJob  NoWorker = NoWorker
  Jobs = {j1, j2}
  Keys = {k1, k2}
  KeyOf <- MCKeyOf
  Workers = {w1, w2}
  Instances = {p1, p2}
  InstanceOf <- MCOneEach
  Unhandled = {j2}
  ModelConcurrency = 1
  MaxRetries = 2
  Faults = {"crash", "stop", "claim", "bookkeeping"}
  MaxFaults = 1
INVARIANT ExclusiveHandling
PROPERTIES OnlyOwnerEndsLease QueuePromise EveryJobSettles
