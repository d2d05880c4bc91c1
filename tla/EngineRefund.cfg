\* Refunds, corrections and manual adjustments around one redemption, with tiers and memberships that change in between.
SPECIFICATION Spec
CONSTANTS
  None = None
  alice = alice
  alice2 = alice2
  phone = phone
  email = email
  i1 = i1
  o1 = o1
  Members = {alice}
  Units <- OnlyPoints
  Programs <- RefundPrograms
  InitialPrograms <- RefundInitial
  Updates <- RefundUpdates
  Identities = {phone}
  Erased = erased
  Memberships <- GoldUntil3
  Orders = {o1}
  Facts <- RefundFacts
  Redemptions = {x1}
  IssuedIds <- Nothing
  IssueTerms <- Nothing
  AdjustmentIds = {a1, a2}
  OrderAdjustments <- Refunds
  ManualAdjustments <- Manuals
  KeysFor <- OneKey
  ReadKeys <- Nothing
  Namesakes <- NobodyElse
  MaxTime = 3
INVARIANTS RefundUsesOriginalMultiplier
PROPERTIES ClawbackWithinEarnings LedgerAppendOnly
CHECK_DEADLOCK FALSE
