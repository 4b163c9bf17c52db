SPECIFICATION FairSpec
CONSTANTS
  a = a  b = b  r = r  k1 = k1  k2 = k2
  Providers = {a, b, r}
  Calls = {k1, k2}
  Routes <- MCRoutes
  Reliable = {r}
  FailureThreshold = 3
  RetryAttempts = 2
  MaxTrips = 2
INVARIANT CooldownKept
PROPERTIES FailsOver
