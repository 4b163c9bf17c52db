SPECIFICATION Spec
CONSTANTS
  r1 = r1  r2 = r2  r3 = r3  e1 = e1  e2 = e2  i1 = i1  i2 = i2
  operator = operator  demo = demo  Demo = Demo
  None = None
  Slots = {r1, r2, r3}
  Emails = {e1, e2}
  Passwords = {"x", "y"}
  Forms <- MCForms
  Registered <- MCRegistered
  StaticKeys = {operator, demo}
  StaticTenant <- MCStaticTenant
  StaticRole <- MCStaticRole
  DemoTenant = Demo
  Ips = {i1, i2}
  DailyLimit = 1
  Menu <- MCMenu
  LastDay = 1
  MayBreak = TRUE
  RrfK = 2
  Matchings <- MCMatchings
  Embeddings <- MCEmbeddings
  Limits = {1, 2, 3}
SYMMETRY Alike
CONSTRAINT MCDays
INVARIANTS AnsweredKeyWorks RevokedKeyDenied ReadsOwn TrailComplete DemoLimit FusedRanking
CHECK_DEADLOCK FALSE
