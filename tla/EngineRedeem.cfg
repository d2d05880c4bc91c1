\* Redemption of an expiring balance and of issued rewards: holds, captures, reversals and expiry interleaved.
SPECIFICATION Spec
CONSTANTS
  None = None
  alice = alice
  alice2 = alice2
  phone = phone
  email = email
  i1 = i1
  o1 = o1
  Members = {alice}
  Units <- OnlyPoints
  Programs <- PointsOrWallet
  InitialPrograms <- PointsOrWallet
  Updates <- NoUpdates
  Identities = {phone}
  Erased = erased
  Memberships <- Nothing
  Orders = {o1, o2}
  Facts <- TwoSpent
  Redemptions = {x1, x2}
  IssuedIds = {i1, i2}
  IssueTerms <- WalletTerms
  AdjustmentIds <- Nothing
  OrderAdjustments <- Nothing
  ManualAdjustments <- Nothing
  KeysFor <- RetryIssue
  ReadKeys <- Nothing
  Namesakes <- NobodyElse
  MaxTime = 4
SYMMETRY IdSymmetry
INVARIANTS TypeOK BalanceMatchesLedger LotsConserved RedemptionSettledOnce HeldRewardClaimable IssuedRewardUsedOnce
CHECK_DEADLOCK FALSE
