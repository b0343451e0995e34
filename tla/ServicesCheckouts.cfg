SPECIFICATION Spec
CONSTANTS
  None = None
  c1 = c1
  c2 = c2
  r1 = r1
  h1 = h1
  a1 = a1
  e1 = e1
  w1 = w1
  w2 = w2
  x1 = x1
  x2 = x2
  q1 = q1
  q2 = q2
  t1 = t1
  path1 = path1
  fam1 = fam1
  fam2 = fam2
  dis1 = dis1
  role1 = role1
  lev1 = lev1
  u1 = u1
  u2 = u2
  u3 = u3
  p1 = p1
  p2 = p2
  emp1 = emp1
  emp2 = emp2
  host1 = host1
  host2 = host2
  org1 = org1
  k1 = k1
  k2 = k2
  v1 = v1
  v2 = v2
  m1 = m1
  m2 = m2
  i1 = i1
  b1 = b1
  ask1 = ask1
  ann = ann
  ben = ben
  eve = eve
  Focuses = {"grants"}
  Calls = {c1, c2}
  CallRuns = {r1}
  CallRun <- MCCallRun
  CallInput <- MCCallInput
  CallAsked <- MCCallAsked
  Prices <- MCPrices
  Budgets <- MCBudgets
  Usages <- MCUsages
  Currency = "USD"
  MILLION = 10
  MIN_OUTPUT = 2
  MaxPrices = 2
  MaxVersion = 2
  MaxMonth = 2
  Hooks = {h1}
  Alerts = {a1}
  Tests = {e1}
  Dispatchers = {w1, w2}
  MAX_ATTEMPTS = 2
  ATTEMPTS_CHECK = 4
  MaxStops = 1
  Artifacts = {x1, x2}
  Held = {x2}
  MAX_RUN_ARTIFACTS = 1
  MaxTampers = 1
  MaxUnderWay = 2
  Ephemeral = {}
  Requests = {q1, q2}
  Threads = {t1}
  Thread <- MCThread
  Paths = {path1}
  Target <- MCTarget
  Checkouts = {q1, q2}
  Private = {q1, q2}
  Decision <- MCDecision
  MaxCrashes = 2
  MaxThrows = 1
  Records = {fam1, fam2, dis1, role1, lev1, u1, u2, u3, p1, p2}
  Kind <- MCKind
  Employees = {emp1, emp2}
  Admins = {emp1, emp2}
  Situations <- MCSituations
  MaxPeriods = 2
  MaxTime = 1
  Hosts = {host1, host2}
  Organizations = {org1}
  Loads = {k1, k2}
  MAX_ENTRIES = 1
  TTL = 2
  NEGATIVE_TTL = 1
  MaxCommits = 3
  Versions = {v1, v2}
  Supported = {v1}
  Shipped = {}
  Listings = {m1, m2}
  People = {ann, ben, eve}
  FirstRoles <- MCFirstRoles
  Installations = {i1}
  InstallationNames = {"n"}
  BlueprintVersions = {1, 2}
  Batches = {b1}
  Bodies <- MCBodies
  Askings = {ask1}
  MaxRowVersion = 3
  MaxAgents = 2
PROPERTIES
  FinishedKept
CHECK_DEADLOCK FALSE
