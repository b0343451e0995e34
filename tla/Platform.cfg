\* Credential leases, accounts, sign-in, conversations, secrets, the store, sandboxes and the clients, one at a time.
SPECIFICATION PlatformSpec
CONSTANTS
  l1 = l1
  l2 = l2
  u1 = u1
  u2 = u2
  x1 = x1
  x2 = x2
  NoRuntime = NoRuntime
  None = None
  member1 = member1
  member2 = member2
  account1 = account1
  row1 = row1
  row2 = row2
  browser1 = browser1
  chat1 = chat1
  chat2 = chat2
  git1 = git1
  gpt1 = gpt1
  ref1 = ref1
  ref2 = ref2
  checkout1 = checkout1
  call1 = call1
  form1 = form1
  scope1 = scope1
  scope2 = scope2
  client1 = client1
  old1 = old1
  old2 = old2
  other = other
  new = new
  op1 = op1
  npm = npm
  elsewhere = elsewhere
  filter1 = filter1
  filter2 = filter2
  settings1 = settings1
  settings2 = settings2
  qaAgent = qaAgent
  assistant = assistant
  tab1 = tab1
  tab2 = tab2
  here = here
  there = there
  ana = ana
  ben = ben
  cookie1 = cookie1
  cookie2 = cookie2
  actor1 = actor1
  actor2 = actor2
  actor3 = actor3
  ours = ours
  others = others
  PlatformFocuses = {"leases", "accounts", "conversations", "secrets", "transactions", "migrations", "sandbox", "pages", "desktop", "signin", "session"}
  Leases <- TwoLeases
  Runs <- OneRun
  RunOf <- InOneRun
  Runtimes <- TwoRuntimes
  Minting <- OneLease
  Replays = TRUE
  Overlaps = TRUE
  Restarts = TRUE
  Members = {member1, member2}
  AccountOf <- MCAccountOf
  OrgOf <- MCOrgOf
  MaxLinks = 3
  SessionRows = {row1, row2}
  Browsers = {browser1}
  MaxPassword = 2
  Chats = {chat1, chat2}
  MaxRuns = 2
  MaxAsks = 1
  Places = {git1, gpt1}
  PlaceKind <- MCPlaceKind
  References = {ref1, ref2}
  Callers = {checkout1, call1}
  PlaceOf <- MCPlaceOf
  Forms = {form1}
  MaxConnections = 2
  MaxChanges = 3
  Works = {scope1, scope2}
  Clients = {client1}
  MAX_ATTEMPTS = 3
  MaxReconnects = 1
  MaxLosses = 2
  Starters = {old1, old2, other, new}
  Migrations <- MCMigrations
  Checksums <- MCChecksums
  Operations = {op1}
  Scratching = {op1}
  Hosts = {npm, elsewhere}
  Granted <- MCGranted
  Options <- MCOptions
  MaxFailures = 2
  MaxSandboxCrashes = 1
  PageNames = {"structure", "members", "path", "jobs", "people", "memberships", "tenant", "domains", "organization", "setup", "picker", "governance", "reconciliations", "webhooks", "spending", "prices", "agents", "installations", "bundle", "quality", "provisioning"}
  Filters = {filter1, filter2}
  Settings = {settings1, settings2}
  MaxVersions = 3
  MaxLoads = 3
  MaxEdits = 3
  Agents = {qaAgent, assistant}
  Generic = {assistant}
  MaxTasks = 2
  MaxClicks = 1
  MaxPolls = 2
  Subjects = {ana, ben}
  Passworded = {ana}
  Tabs = {tab1, tab2}
  Placements <- MCPlacements
  GoogleRows = {cookie1, cookie2}
  MaxLogins = 2
  MaxHashes = 1
  Actors = {actor1, actor2, actor3}
  PersonOf <- MCPersonOf
  Fitting = {actor1, actor3}
  Invited = actor2
INVARIANTS
  LeasesSound
  EndedIsRecalled
  SessionsSound
  ConversationsSound
  SecretsSound
  StoreSound
  SandboxSound
  ClientsSound
PROPERTIES
  PlatformSteps
CHECK_DEADLOCK FALSE
