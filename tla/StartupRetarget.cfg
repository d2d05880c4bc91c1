SPECIFICATION Spec
CONSTANTS
  None = None
  m1 = m1
  m2 = m2
  r1 = r1
  r2 = r2
  gold = gold
  p1 = p1
  p2 = p2
  p3 = p3
  p4 = p4
  g1 = g1
  ana = ana
  ben = ben
  here = here
  there = there
  kAdmin = kAdmin
  kScoped = kScoped
  Groups = {"publishing"}
  Enrolled <- EnrolledIn
  Instances = {i1, i2}
  Main = i1
  Members = {m1, m2}
  Rewards = {r1, r2}
  Plans = {gold}
  Programs <- AllPrograms
  Offers <- OffersOf
  PlansOf <- PlansIn
  FirstProgram = p1
  LastDay = 1
  MaxCrashes = 1
  Sweeps = {w1, w2}
  MaxGrants = 2
  Campaigns = {g1}
  Segments = {s1}
  Holdout <- HeldOut
  Windows <- CampaignWindows
  MaxEdits = 2
  MaxRuns = 1
  Valid <- ValidPrograms
  Compatible <- CompatiblePrograms
  HistoryLimit = 20
  MaxDrafts = 2
  RequestKeys = {q1, q2}
  MaxTries = 4
  Connectors = {c1}
  Jobs = {j1}
  Consenting = {m1}
  MaxAttempts = 2
  MaxOrders = 4
  Imports = {a1, a2}
  EventKeys = {e1}
  Clients = {x1, x2}
  MaxWrites = 3
  KeyIds = {k1, k2}
  People = {ana, ben}
  Locations = {here, there}
  Reach <- ReachOf
  Tenants = {t1, t2}
  Flights = {}
  TenantOps = {"create", "rotate", "revoke", "user"}
  Horizon = 1
  MaxRequests = 3
  Slots = {h1, h2}
  HttpKeys = {kAdmin, kScoped}
  Rights <- RightsOf
  ScopedKeys = {kScoped}
  RateLimit = 1
  MaxArrivals = 2
INVARIANTS PublishedOffersRewards
CHECK_DEADLOCK FALSE
