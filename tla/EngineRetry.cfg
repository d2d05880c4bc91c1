\* Every call may come back under a second idempotency key.
SPECIFICATION Spec
CONSTANTS
  None = None
  alice = alice
  alice2 = alice2
  phone = phone
  email = email
  i1 = i1
  o1 = o1
  Members = {alice}
  Units <- OnlyPoints
  Programs <- Retried
  InitialPrograms <- Retried
  Updates <- NoUpdates
  Identities = {phone}
  Erased = erased
  Memberships <- Nothing
  Orders = {o1}
  Facts <- MixedFacts
  Redemptions = {x1}
  IssuedIds <- Nothing
  IssueTerms <- Nothing
  AdjustmentIds = {a1}
  OrderAdjustments <- OneRefund
  ManualAdjustments <- OneManual
  KeysFor <- TwoKeys
  ReadKeys <- Nothing
  Namesakes <- NobodyElse
  MaxTime = 2
INVARIANTS AccruedOnce
CHECK_DEADLOCK FALSE
