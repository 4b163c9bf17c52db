SPECIFICATION FairSpec
CONSTANTS
  t1 = t1  d1 = d1  d2 = d2  h1 = h1  h2 = h2  h3 = h3
  c1 = c1  c2 = c2
  None = None  NoCap = NoCap
  Tenants = {t1, d1, d2}
  Locks = {h1, h2, h3}
  LockOf <- MCLockOf
  Callers = {c1, c2}
  Signups = {t1}
  DemoFamily = {d1, d2}
  Prefixed = {d1, d2}
  DemoCap = 1
  Cap <- MCCap
  CallLimit = 1
  MaxCost = 1
  Prompts = {"p"}
  MayAbort = TRUE
  MaxCalls = 3
  PoolSize = 5
  MaxOthers = 1
INVARIANTS ChecksCurrent CapOvershoot SignupLimits FamilyOvershoot
PROPERTIES CallsAtomic LocksReturn
CHECK_DEADLOCK FALSE
