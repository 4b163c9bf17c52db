SPECIFICATION Spec
CONSTANTS
  j1 = j1  j2 = j2  k1 = k1  k2 = k2
  w1 = w1  w2 = w2  p1 = p1  p2 = p2
  NoJob = NoJob  NoWorker = NoWorker
  Jobs = {j1, j2}
  Keys = {k1, k2}
  KeyOf <- MCSharedKey
  Workers = {w1, w2}
  Instances = {p1}
  InstanceOf <- MCOnePool
  Unhandled = {}
  ModelConcurrency = 1
  MaxRetries = 3
  Faults = {"stop", "overrun", "erase"}
  MaxFaults = 2
SYMMETRY MCSymmetry
INVARIANTS RetryBudget LeaseMatchesStatus GivenUpOnlyAfterRetries
PROPERTY StopStrandsNoFinishedJob
