SPECIFICATION Spec
CONSTANTS
  t1 = t1  d1 = d1  d2 = d2  h1 = h1  h2 = h2  h3 = h3
  c1 = c1  c2 = c2
  None = None  NoCap = NoCap
  Tenants = {t1, d1, d2}
  Locks = {h1, h2, h3}
  LockOf <- MCLockOf
  Callers = {c1, c2}
  Signups = {t1}
  DemoFamily = {d1, d2}
  Prefixed = {d1, d2}
  DemoCap = 2
  Cap <- MCCap
  CallLimit = 1
  MaxCost = 2
  Prompts = {}
  MayAbort = FALSE
  MaxCalls = 3
  PoolSize = 9
  MaxOthers = 0
INVARIANT DemoCapHeld
CHECK_DEADLOCK FALSE
