SPECIFICATION Spec
CONSTANTS
  None = None
  KeyIds = {k1, k2, k3, k4}
  People = {}
  Locations = {}
  Reach <- Everyone
  Tenants = {t1}
  Flights <- AllFlights
  TenantOps = {"revoke", "rotate"}
  Horizon = 1
  MaxRequests = 1
  Intents = {a, b}
  Payloads = {0, 1}
  MaxFlights = 2
  MaxCrashes = 1
SYMMETRY Symmetry
INVARIANTS AnsweredDurable
PROPERTIES ImplementsIssuance
CHECK_DEADLOCK FALSE
