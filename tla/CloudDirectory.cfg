SPECIFICATION Spec
CONSTANTS
  None = None
  ann = ann
  bob = bob
  Users = {ann, bob}
  EmailOf <- OwnEmail
  Admins <- Nothing
  ScopeOf <- NoScope
  Orgs = {o1}
  Slugs = {s}
  Projects = {p1}
  Invitations = {i1}
  GrantRoles = {"admin", "billing"}
  HardLimit <- TwoPlans
  FreePlan = "free"
  Stripe = {x1}
  UsageKeys = {a1, a2}
  Quantities = {1, 2}
  Months = {1}
  Callers = {r1, r2}
  Repositories = {"postgres", "memory"}
  MaxDay = 1
  MaxCalls = 4
  Subjects = {ann, bob}
  Keys = {a1, a2}
  Clients = {r1, r2}
  Modes = {"shared", "oidc"}
  Bootstrappers = {ann, bob}
  Expiries = {2}
  Overlaps = {0, 2}
  MaxTime = 1
  Logins = {l1, l2}
  CustomerIds = {a1, a2}
  MemberIds = {m1, m2}
  Visitors = {r1, r2}
  Databases = {"postgres", "memory"}
  Operators = {r1, r2}
  MerchantKeys = {k1, k2, k3}
  Backups = {b1}
  FailingFiles = {"rename"}
  MaxOperations = 4
  MaxHalts = 1
  Persons = {l1, l2}
  DirectoryIds = {a1, a2}
  WalletIds = {m1, m2}
  Seekers = {r1, r2}
  MaxSeeks = 3
  States = {l1, l2}
  SessionIds = {a1, a2}
  Tabs = {r1, r2}
  LoginTtl = 2
  SessionTtl = 1
  MaxPending = 1
  MaxSessions = 1
  LastTick = 2
SYMMETRY Symmetry
INVARIANTS UsageMatchesEvents BootstrapOnce RotationNeverExtends AccountsResolveOnce DeletedProfileCleared RestoreWhole ResolvesToOne LoginTakenOnce
CHECK_DEADLOCK FALSE
