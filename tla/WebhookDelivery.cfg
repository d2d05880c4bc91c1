\* One receiver that pauses, moves, is removed and comes back while deliveries are in flight.
SPECIFICATION Spec
CONSTANTS
  e1 = e1
  s1 = s1
  u1 = u1
  u2 = u2
  Events = {e1}
  SubscriptionIds = {s1}
  Values <- OneReceiver
  BootSubscriptions <- BootOne
  MaxAttempts = 2
  HistoryLimit = 1
  MaxCrashes = 2
  MaxWrites = 1
INVARIANTS OutboxCatchesUp AtLeastOnce
PROPERTIES RemovedStaysRemoved CycleEnds RestartRetries
