\* Programs published one over the other, stamp cards, and members that leave, each with its own bounds.
SPECIFICATION Spec
CONSTANTS
  None = None
  alice = alice
  alice2 = alice2
  phone = phone
  email = email
  i1 = i1
  o1 = o1
  Members = {alice, alice2}
  Units <- AllUnits
  Programs <- ScenarioPrograms
  InitialPrograms <- ScenarioInitial
  Updates <- ScenarioUpdates
  Identities = {phone, email}
  Erased = erased
  Memberships <- Nothing
  Orders = {o1, o2, o3}
  Facts <- ScenarioFacts
  Redemptions = {x1}
  IssuedIds = {i1}
  IssueTerms <- LunchTerms
  AdjustmentIds <- Nothing
  OrderAdjustments <- Nothing
  ManualAdjustments <- Nothing
  KeysFor <- RetryEnrol
  ReadKeys = {q1}
  Namesakes <- NobodyElse
  MaxTime = 4
CONSTRAINT ProgramScenario
INVARIANTS NothingStranded IssuedRewardOffered ErasedUnlinkable StampRewardsEarned
CHECK_DEADLOCK FALSE
