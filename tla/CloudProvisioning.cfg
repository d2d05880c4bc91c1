SPECIFICATION Spec
CONSTANTS
  None = None
  Envs = {e1}
  Instances = {p1, p2}
  Callers = {c1, c2}
  MaxAttempts = 2
  MaxCrashes = 1
  MaxCalls = 3
  Starts = {t1, t2, t3, t4}
INVARIANTS NoOrphanPlatform
PROPERTIES EnvironmentSettles
CHECK_DEADLOCK FALSE
