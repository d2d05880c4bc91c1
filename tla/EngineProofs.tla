----------------------------- MODULE EngineProofs -----------------------------
(***************************************************************************)
(* Proofs about LoyaltyEngine, for every set of members, programs, orders  *)
(* and requests: its state keeps its shape, the stored balances are the    *)
(* sums of the ledger entries, and the ledger is only appended to.         *)
(***************************************************************************)
EXTENDS EngineProperties, LedgerBookProofs

-------------------------------------------------------------------------------
(* The rules of a validated program yield integers. *)

LEMMA UnitsType ==
  ASSUME NEW p \in Programs
  PROVE  /\ Len(p.units) \in Nat /\ DOMAIN p.units = 1..Len(p.units)
         /\ \A i \in 1..Len(p.units) : p.units[i] \in UnitSet(p) /\ p.units[i] \in Units
<1>1. IsSeq(p.units) /\ UnitSet(p) \subseteq Units
  BY ProgramAssumption DEF AssertProgram, UnitsValid
<1>2. Len(p.units) \in Nat /\ DOMAIN p.units = 1..Len(p.units)
  BY <1>1, LenProperties DEF IsSeq
<1>3. QED
  BY <1>1, <1>2 DEF UnitSet

LEMMA EligibleSpendType ==
  ASSUME NEW p, NEW f \in Facts
  PROVE  EligibleSpend(p, f) \in Int
<1> DEFINE q == [i \in 1..Len(f.lines) |->
                   IF IsEligibleLine(p, f.lines[i])
                   THEN f.lines[i].subtotal - f.lines[i].discount ELSE 0]
<1>1. IsSeq(f.lines)
  BY RequestAssumption
<1>2. Len(f.lines) \in Nat /\ DOMAIN f.lines = 1..Len(f.lines)
  BY <1>1, LenProperties DEF IsSeq
<1>3. \A i \in 1..Len(f.lines) : f.lines[i].subtotal \in Int /\ f.lines[i].discount \in Int
  BY <1>2, RequestAssumption
<1>4. q \in [1..Len(f.lines) -> Int]
  BY <1>3
<1>5. EligibleSpend(p, f) = Total(q)
  BY DEF EligibleSpend
<1> HIDE DEF q
<1>6. q \in Seq(Int)
  BY <1>2, <1>4
<1>7. QED
  BY <1>5, <1>6, TotalType

LEMMA AmountForUnitType ==
  ASSUME NEW p \in Programs, NEW u \in UnitSet(p), NEW spend \in Int, NEW bps \in Int
  PROVE  AmountForUnit(p, u, spend, bps) \in Int
<1>1. AssertProgram(p)
  BY ProgramAssumption
<1>2. NonNegative(spend) \in Nat
  BY DEF NonNegative
<1>3. CASE u = "credits"
  <2>0. "credits" \in UnitSet(p)
    BY <1>3
  <2>a. p.creditBps \in 1..Bps
    BY <1>1, <2>0 DEF AssertProgram
  <2>b. \A x \in 1..Bps : x \in Nat
    BY DEF Bps
  <2>1. p.creditBps \in Nat
    BY <2>a, <2>b
  <2>2. NonNegative(spend) * p.creditBps \in Int
    BY <1>2, <2>1
  <2>3. (NonNegative(spend) * p.creditBps) \div Bps \in Int
    BY <2>2 DEF Bps
  <2>4. QED
    BY <1>3, <2>3 DEF AmountForUnit
<1>4. CASE u \in {"visits", "stamps"}
  <2>1. p.visit.perOrder \in Int
    BY <1>1, <1>4 DEF AssertProgram, CardValid
  <2>2. QED
    BY <1>4, <2>1 DEF AmountForUnit
<1>5. CASE u \notin {"credits", "visits", "stamps"}
  <2>1. p.points \in Nat /\ p.spend \in Nat /\ p.spend > 0
    BY <1>1 DEF AssertProgram
  <2>2. NonNegative(spend) * p.points * bps \in Int
    BY <1>2, <2>1
  <2>3. p.spend * Bps \in Nat /\ p.spend * Bps > 0
    BY <2>1 DEF Bps
  <2> DEFINE x == NonNegative(spend) * p.points * bps
             y == p.spend * Bps
  <2>4. x \in Int /\ y \in Nat /\ y > 0
    BY <2>2, <2>3
  <2>5. x \div y \in Int
    <3> HIDE DEF x, y
    <3>1. QED
      BY <2>4
  <2>6. QED
    BY <1>5, <2>5 DEF AmountForUnit
<1>6. QED
  BY <1>3, <1>4, <1>5

LEMMA AccrualAmountType ==
  ASSUME NEW p \in Programs, NEW u \in UnitSet(p), NEW f \in Facts, NEW bps \in Int
  PROVE  AccrualAmount(p, u, f, bps) \in Int
BY EligibleSpendType, AmountForUnitType DEF AccrualAmount

(* Some tier is the highest one reached: the ladder starts at zero. *)
LEMMA CurrentTierType ==
  ASSUME NEW p \in Programs, p.tiers # <<>>, NEW amount \in Int
  PROVE  CurrentTier(p, amount) \in DOMAIN p.tiers
<1> DEFINE n == Len(p.tiers)
           Reached(i) == p.tiers[i].minimum <= NonNegative(amount)
           S == {k \in Nat : \E i \in 1..n : Reached(i) /\ k = n - i}
<1>1. TiersValid(p)
  BY ProgramAssumption DEF AssertProgram
<1>2. n \in Nat \ {0} /\ DOMAIN p.tiers = 1..n
  BY <1>1, EmptySeq, LenProperties DEF TiersValid, IsSeq
<1>3. Reached(1)
  BY <1>1 DEF TiersValid, NonNegative
<1>4. n - 1 \in S
  BY <1>2, <1>3
<1>5. PICK x \in S : \A y \in S : ~(<<y, x>> \in OpToRel(<, Nat))
  <2> HIDE DEF S
  <2>1. S # {} /\ S \subseteq Nat
    BY <1>4 DEF S
  <2>2. QED
    BY <2>1, WFMin, NatLessThanWellFounded
<1>6. PICK i \in 1..n : Reached(i) /\ x = n - i
  OBVIOUS
<1>7. ASSUME NEW j \in 1..n, Reached(j) PROVE j <= i
  <2>1. n - j \in S
    BY <1>2, <1>7
  <2>2. ~(<<n - j, x>> \in OpToRel(<, Nat))
    BY <1>5, <2>1
  <2>3. n - j \in Nat /\ x \in Nat
    BY <1>2
  <2>4. ~(n - j < x)
    BY <2>2, <2>3 DEF OpToRel
  <2>5. QED
    BY <2>4, <1>6, <1>2
<1>8. \E k \in DOMAIN p.tiers :
        /\ p.tiers[k].minimum <= NonNegative(amount)
        /\ \A j \in DOMAIN p.tiers : p.tiers[j].minimum <= NonNegative(amount) => j <= k
  BY <1>2, <1>6, <1>7
<1>9. QED
  BY <1>8 DEF CurrentTier

LEMMA TierMetricType ==
  ASSUME NEW p \in Programs, p.tiers # <<>>, NEW b, IsBook(b), NEW m \in Members, NEW t
  PROVE  TierMetric(p, b, m, t) \in Int
<1> DEFINE q == [i \in 1..Len(b.ledger) |->
                   IF CountsForMetric(p, b.ledger[i], m, t) THEN b.ledger[i].amount ELSE 0]
<1>1. "points" \in Units
  BY ProgramAssumption DEF AssertProgram, TiersValid, UnitsValid
<1>2. b.points[m]["points"] \in Int
  BY <1>1 DEF IsBook
<1>3. Len(b.ledger) \in Nat
  BY LenProperties DEF IsBook, IsSeq
<1>4. q \in [1..Len(b.ledger) -> Int]
  BY DEF IsBook, IsEntry
<1>5. TierMetric(p, b, m, t) = IF p.metric = "current_balance" THEN b.points[m]["points"] ELSE Total(q)
  BY DEF TierMetric
<1> HIDE DEF q
<1>6. q \in Seq(Int)
  BY <1>3, <1>4
<1>7. QED
  BY <1>2, <1>5, <1>6, TotalType

LEMMA EarningMultiplierType ==
  ASSUME NEW p \in Programs, NEW b, IsBook(b), NEW m \in Members, NEW membership, NEW t
  PROVE  EarningMultiplierBps(p, b, m, membership, t) \in Int
<1> DEFINE plan == ActivePlan(p, membership, t)
           k == IF plan = None THEN Bps ELSE p.plans[plan]
           x == TierMultiplierBps(p, TierMetric(p, b, m, t))
<1>1. plan = None \/ plan \in DOMAIN p.plans
  BY DEF ActivePlan
<1>2. k \in Int
  BY <1>1, ProgramAssumption DEF AssertProgram, Bps
<1>3. x \in Int
  <2>1. CASE p.tiers = <<>>
    BY <2>1 DEF TierMultiplierBps, Bps
  <2>2. CASE p.tiers # <<>>
    <3>1. CurrentTier(p, TierMetric(p, b, m, t)) \in DOMAIN p.tiers
      BY <2>2, TierMetricType, CurrentTierType
    <3>2. QED
      BY <2>2, <3>1, ProgramAssumption DEF TierMultiplierBps, AssertProgram, TiersValid
  <2>3. QED
    BY <2>1, <2>2
<1>4. EarningMultiplierBps(p, b, m, membership, t) = (x * k) \div Bps
  BY DEF EarningMultiplierBps
<1> HIDE DEF x, k
<1>5. x * k \in Int
  BY <1>2, <1>3
<1>6. QED
  BY <1>4, <1>5 DEF Bps
-------------------------------------------------------------------------------
(* Parts of a step *)

(* The inductive invariant. *)
Good == TypeOK /\ BalanceMatchesLedger

(* A book the engine may go on with. *)
Advance(b) == Sound(b) /\ Continues(book, b)

LEMMA GoodParts ==
  ASSUME Good
  PROVE  /\ now \in Nat /\ program \in Programs /\ MembersOK(members) /\ IndexOK(identityIndex)
         /\ Sound(book) /\ Advance(book) /\ ReservationsOK(reservations) /\ WalletOK(issuedRewards)
         /\ AccrualsOK(accruals, book) /\ DOMAIN adjustments \subseteq AdjustmentIds
<1>1. Sound(book)
  BY DEF Good, TypeOK, BalanceMatchesLedger, Ledger, Sound, Balanced
<1>2. Len(book.ledger) \in Nat
  BY <1>1, LenProperties DEF Sound, IsBook, IsSeq
<1>3. Continues(book, book)
  BY <1>2 DEF Continues
<1>4. QED
  BY <1>1, <1>3 DEF Good, TypeOK, Advance

LEMMA ContinuesTransitive ==
  ASSUME NEW a, NEW b, NEW c, Sound(a), Sound(b), Sound(c), Continues(a, b), Continues(b, c)
  PROVE  Continues(a, c)
<1>1. Len(a.ledger) \in Nat /\ Len(b.ledger) \in Nat /\ Len(c.ledger) \in Nat
  BY LenProperties DEF Sound, IsBook, IsSeq
<1>2. QED
  BY <1>1 DEF Continues

(* The book operations, from a book that continues the current one. *)
LEMMA AdvanceBy ==
  ASSUME Good, NEW b, Advance(b), NEW c, Sound(c), Continues(b, c)
  PROVE  Advance(c)
<1>1. Sound(book) /\ Sound(b) /\ Continues(book, b)
  BY GoodParts DEF Advance
<1>2. Continues(book, c)
  BY <1>1, ContinuesTransitive
<1>3. QED
  BY <1>2 DEF Advance

LEMMA AdvanceByExpiry ==
  ASSUME Good, NEW b, Advance(b), NEW ms, NEW us, NEW t
  PROVE  Advance(ExpirePointLots(b, ms, us, t))
<1>1. Sound(b)
  BY DEF Advance
<1> DEFINE c == ExpirePointLots(b, ms, us, t)
<1>2. Sound(c) /\ Continues(b, c)
  BY <1>1, ExpirePointLotsSound
<1> HIDE DEF c
<1>3. Advance(c)
  BY <1>2, AdvanceBy
<1>4. QED
  BY <1>3 DEF c

LEMMA AdvanceByEntries ==
  ASSUME Good, NEW b, Advance(b), NEW es, IsSeq(es), \A i \in 1..Len(es) : IsEntry(es[i])
  PROVE  Advance(AddLedger(b, es))
<1>1. Sound(b)
  BY DEF Advance
<1> DEFINE c == AddLedger(b, es)
<1>2. Sound(c) /\ Continues(b, c)
  BY <1>1, AddLedgerSound
<1> HIDE DEF c
<1>3. Advance(c)
  BY <1>2, AdvanceBy
<1>4. QED
  BY <1>3 DEF c

LEMMA AdvanceByEntry ==
  ASSUME Good, NEW b, Advance(b), NEW e, IsEntry(e)
  PROVE  Advance(AddLedger(b, <<e>>))
<1> DEFINE es == <<e>>
<1>1. Len(es) = 1 /\ es[1] = e /\ es \in Seq({e}) /\ DOMAIN es = 1..1
  OBVIOUS
<1>2. {es[i] : i \in DOMAIN es} = {e}
  BY <1>1
<1>3. IsSeq(es) /\ \A i \in 1..Len(es) : IsEntry(es[i])
  BY <1>1, <1>2 DEF IsSeq
<1> HIDE DEF es
<1>4. Advance(AddLedger(b, es))
  BY <1>3, AdvanceByEntries
<1>5. QED
  BY <1>4 DEF es

LEMMA AdvanceByConsumption ==
  ASSUME Good, NEW b, Advance(b), NEW m, NEW debit \in [Units -> Int], NEW id
  PROVE  Advance(ConsumePointLots(b, m, debit, id))
<1>1. Sound(b)
  BY DEF Advance
<1> DEFINE c == ConsumePointLots(b, m, debit, id)
<1>2. Sound(c) /\ Continues(b, c)
  BY <1>1, ConsumePointLotsSound
<1> HIDE DEF c
<1>3. Advance(c)
  BY <1>2, AdvanceBy
<1>4. QED
  BY <1>3 DEF c

LEMMA AdvanceByRestoration ==
  ASSUME Good, NEW b, Advance(b), NEW id
  PROVE  Advance(RestorePointLots(b, id))
<1>1. Sound(b)
  BY DEF Advance
<1> DEFINE c == RestorePointLots(b, id)
<1>2. Sound(c) /\ Continues(b, c)
  BY <1>1, RestorePointLotsSound
<1> HIDE DEF c
<1>3. Advance(c)
  BY <1>2, AdvanceBy
<1>4. QED
  BY <1>3 DEF c

(* Reservations *)
LEMMA ReservationsDomain ==
  ASSUME NEW rs, ReservationsOK(rs)
  PROVE  Len(rs) \in Nat /\ DOMAIN rs = 1..Len(rs)
BY LenProperties DEF ReservationsOK, IsSeq

LEMMA ReservationsUpdated ==
  ASSUME NEW rs, ReservationsOK(rs), NEW new,
         new = [i \in DOMAIN rs |-> new[i]], \A i \in DOMAIN rs : IsReservation(new[i])
  PROVE  ReservationsOK(new)
<1>1. Len(rs) \in Nat /\ DOMAIN rs = 1..Len(rs)
  BY ReservationsDomain
<1>2. new = [i \in 1..Len(rs) |-> new[i]]
  BY <1>1
<1>3. IsSeq(new) /\ Len(new) = Len(rs)
  BY <1>1, <1>2, FunctionIsSeq
<1>4. QED
  BY <1>1, <1>3 DEF ReservationsOK

LEMMA StatusOK ==
  ASSUME NEW r, IsReservation(r), NEW s \in Statuses
  PROVE  IsReservation([r EXCEPT !.status = s])
BY DEF IsReservation

LEMMA LapsedOK ==
  ASSUME Good
  PROVE  ReservationsOK(Lapsed) /\ DOMAIN Lapsed = DOMAIN reservations
<1>1. ReservationsOK(reservations)
  BY GoodParts
<1>2. DOMAIN reservations = 1..Len(reservations)
  BY <1>1, ReservationsDomain
<1>3. ASSUME NEW i \in DOMAIN reservations PROVE IsReservation(LapsedOne(reservations[i]))
  <2>1. IsReservation(reservations[i])
    BY <1>1, <1>2 DEF ReservationsOK
  <2>2. QED
    BY <2>1, StatusOK DEF LapsedOne, Statuses
<1> DEFINE new == Lapsed
<1>4. new = [i \in DOMAIN reservations |-> new[i]] /\ \A i \in DOMAIN reservations : IsReservation(new[i])
  BY <1>3 DEF Lapsed
<1> HIDE DEF new
<1>5. ReservationsOK(new)
  BY <1>1, <1>4, ReservationsUpdated
<1>6. QED
  BY <1>5 DEF new, Lapsed

LEMMA SettledOK ==
  ASSUME NEW rs, ReservationsOK(rs), NEW r \in DOMAIN rs, NEW s \in Statuses
  PROVE  ReservationsOK([rs EXCEPT ![r].status = s])
<1> DEFINE new == [rs EXCEPT ![r].status = s]
<1>1. DOMAIN rs = 1..Len(rs)
  BY ReservationsDomain
<1>2. ASSUME NEW i \in DOMAIN rs PROVE IsReservation(new[i])
  <2>1. IsReservation(rs[i])
    BY <1>1 DEF ReservationsOK
  <2>2. IsReservation([rs[i] EXCEPT !.status = s])
    BY <2>1, StatusOK
  <2>3. QED
    BY <2>1, <2>2
<1>3. new = [i \in DOMAIN rs |-> new[i]]
  OBVIOUS
<1> HIDE DEF new
<1>4. ReservationsOK(new)
  BY <1>2, <1>3, ReservationsUpdated
<1>5. QED
  BY <1>4 DEF new

LEMMA AppendedOK ==
  ASSUME NEW rs, ReservationsOK(rs), NEW r, IsReservation(r)
  PROVE  ReservationsOK(Append(rs, r))
<1> DEFINE V == {rs[i] : i \in DOMAIN rs} \cup {r}
           new == Append(rs, r)
<1>0. Len(rs) \in Nat /\ DOMAIN rs = 1..Len(rs)
  BY ReservationsDomain
<1>1. rs \in Seq(V) /\ r \in V
  BY SeqMonotonic DEF ReservationsOK, IsSeq
<1> HIDE DEF V
<1>2. /\ new \in Seq(V) /\ Len(new) = Len(rs) + 1
      /\ \A i \in 1..Len(rs) : new[i] = rs[i]
      /\ new[Len(rs) + 1] = r
  BY <1>1, AppendProperties
<1> HIDE DEF new
<1>3. IsSeq(new)
  BY <1>2, SeqOfRange DEF IsSeq, Range
<1>4. \A i \in 1..Len(new) : IsReservation(new[i])
  BY <1>0, <1>2 DEF ReservationsOK
<1>5. QED
  BY <1>3, <1>4 DEF ReservationsOK, new
-------------------------------------------------------------------------------
(* The steps.  A step that leaves the accruals alone keeps the invariant   *)
(* when each part of the new state has its shape and the new book          *)
(* continues the old one.                                                  *)

Kept == Good' /\ Continues(book, book')

LEMMA KeptByParts ==
  ASSUME Good, now' \in Nat, program' \in Programs, MembersOK(members'), IndexOK(identityIndex'),
         Advance(book'), ReservationsOK(reservations'), WalletOK(issuedRewards'),
         AccrualsOK(accruals', book'), DOMAIN adjustments' \subseteq AdjustmentIds
  PROVE  Kept
<1>1. IsBook(book') /\ Balanced(book') /\ Continues(book, book')
  BY DEF Advance, Sound
<1>2. TypeOK'
  BY <1>1 DEF TypeOK
<1>3. BalanceMatchesLedger'
  BY <1>1 DEF BalanceMatchesLedger, Balanced, Ledger
<1>4. QED
  BY <1>1, <1>2, <1>3 DEF Kept, Good

LEMMA AccrualsKept ==
  ASSUME Good, NEW b, Advance(b)
  PROVE  AccrualsOK(accruals, b)
<1>1. Sound(book) /\ AccrualsOK(accruals, book)
  BY GoodParts
<1>2. Len(book.ledger) \in Nat /\ Len(b.ledger) \in Nat /\ Len(book.ledger) <= Len(b.ledger)
  BY <1>1, LenProperties DEF Sound, IsBook, IsSeq, Advance, Continues
<1>3. QED
  BY <1>1, <1>2 DEF AccrualsOK

(* The facts the engine keeps of members, rewards and orders are untouched. *)
OnlyBook == UNCHANGED <<now, program, members, identityIndex, issuedRewards, accruals, adjustments>>

LEMMA KeptByBook ==
  ASSUME Good, OnlyBook, Advance(book'), ReservationsOK(reservations')
  PROVE  Kept
<1>1. AccrualsOK(accruals', book')
  BY AccrualsKept DEF OnlyBook
<1>2. /\ now' = now /\ program' = program /\ members' = members
      /\ identityIndex' = identityIndex /\ issuedRewards' = issuedRewards
      /\ adjustments' = adjustments
  BY DEF OnlyBook
<1>3. QED
  BY <1>1, <1>2, GoodParts, KeptByParts

(* A response that carries balances. *)
LEMMA Reported ==
  ASSUME Good, NEW b, Advance(b), NEW m, ReportBalances(b, m)
  PROVE  Advance(book') /\ ReservationsOK(reservations')
<1>1. book' = ExpirePointLots(b, {m}, UnitSet(program), now) /\ reservations' = Lapsed
  BY DEF ReportBalances, Balances
<1>2. QED
  BY <1>1, AdvanceByExpiry, LapsedOK

LEMMA KeptByReport ==
  ASSUME Good, NEW b, Advance(b), NEW m, ReportBalances(b, m), OnlyBook
  PROVE  Kept
BY Reported, KeptByBook

(* The tier of a snapshot. *)
LEMMA MetricOK ==
  ASSUME Good, NEW m
  PROVE  Advance(MetricBook(m)) /\ ReservationsOK(MetricReservations)
BY GoodParts, AdvanceByExpiry, LapsedOK DEF MetricBook, Balance, MetricReservations

LEMMA TickKeeps ==
  ASSUME Good, Tick
  PROVE  Kept
<1>1. /\ now' \in Nat /\ program' = program /\ members' = members
      /\ identityIndex' = identityIndex /\ issuedRewards' = issuedRewards
      /\ adjustments' = adjustments /\ book' = book /\ reservations' = reservations
      /\ accruals' = accruals
  BY GoodParts DEF Tick, memberVars, walletVars, factVars
<1>2. QED
  BY <1>1, GoodParts, KeptByParts

LEMMA MemberKeeps ==
  ASSUME Good, MemberStep
  PROVE  Kept
<1>0. /\ Advance(book) /\ MembersOK(members) /\ IndexOK(identityIndex)
      /\ ReservationsOK(reservations)
  BY GoodParts
<1>1. ASSUME NEW k, NEW i \in Identities, Lookup(k, i) PROVE Kept
  <2>1. OnlyBook
    BY <1>1 DEF Lookup, OnlyBook, memberVars, factVars
  <2>2. CASE UNCHANGED <<book, reservations>>
    BY <2>1, <2>2, <1>0, KeptByBook
  <2>3. CASE \E m : ReportBalances(book, m)
    BY <2>1, <2>3, <1>0, KeptByReport
  <2>4. QED
    BY <1>1, <2>2, <2>3 DEF Lookup
<1>2. ASSUME NEW k, NEW i \in Identities, NEW m \in Members, Enroll(k, i, m) PROVE Kept
  <2>1. MembersOK(members')
    BY <1>0, <1>2 DEF Enroll, MembersOK
  <2>2. IndexOK(identityIndex')
    BY <1>0, <1>2 DEF Enroll, IndexOK, Put
  <2>3. Advance(book') /\ ReservationsOK(reservations')
    BY <1>0, <1>2, Reported DEF Enroll
  <2>4. /\ now' = now /\ program' = program /\ issuedRewards' = issuedRewards
        /\ accruals' = accruals /\ adjustments' = adjustments
    BY <1>2 DEF Enroll, factVars
  <2>5. QED
    BY <2>1, <2>2, <2>3, <2>4, GoodParts, AccrualsKept, KeptByParts
<1>3. ASSUME NEW k, NEW i \in Identities, NEW m \in Members, EnrollAgain(k, i, m) PROVE Kept
  <2>1. OnlyBook /\ ReportBalances(book, identityIndex[i])
    BY <1>3 DEF EnrollAgain, OnlyBook, memberVars, factVars
  <2>2. QED
    BY <2>1, <1>0, KeptByReport
<1>4. ASSUME NEW m \in Members,
             MembersOK(members'), IndexOK(identityIndex'),
             book' = MetricBook(m), reservations' = MetricReservations,
             UNCHANGED <<now, program, issuedRewards, accruals, adjustments>>
      PROVE  Kept
  <2>1. Advance(book') /\ ReservationsOK(reservations')
    BY <1>4, MetricOK
  <2>2. QED
    BY <1>4, <2>1, GoodParts, AccrualsKept, KeptByParts
<1>5. ASSUME NEW m \in Members, CancelMember(m) PROVE Kept
  <2>1. MembersOK(members')
    BY <1>0, <1>5 DEF CancelMember, MembersOK
  <2>2. QED
    BY <2>1, <1>0, <1>4, <1>5 DEF CancelMember, factVars
<1>6. ASSUME NEW m \in Members, EraseMember(m) PROVE Kept
  <2>1. MembersOK(members')
    BY <1>0, <1>6 DEF EraseMember, MembersOK
  <2>2. IndexOK(identityIndex')
    BY <1>0, <1>6 DEF EraseMember, IndexOK, IndexWithout
  <2>3. QED
    BY <2>1, <2>2, <1>4, <1>6 DEF EraseMember, factVars
<1>7. ASSUME NEW m \in Members, NEW v \in Memberships \cup {None}, SetMemberMembership(m, v) PROVE Kept
  <2>1. MembersOK(members')
    BY <1>0, <1>7 DEF SetMemberMembership, MembersOK
  <2>2. QED
    BY <2>1, <1>0, <1>4, <1>7 DEF SetMemberMembership, factVars
<1>8. ASSUME NEW m \in Members, InspectMemberErasure(m) PROVE Kept
  BY <1>0, <1>4, <1>8 DEF InspectMemberErasure, memberVars, factVars
<1>9. QED
  BY <1>1, <1>2, <1>3, <1>5, <1>6, <1>7, <1>8 DEF MemberStep

LEMMA ReadKeeps ==
  ASSUME Good, ReadStep
  PROVE  Kept
<1>0. Advance(book) /\ ReservationsOK(reservations) /\ WalletOK(issuedRewards)
  BY GoodParts
<1>1. ASSUME NEW k, NEW m \in Members, GetAccount(k, m) PROVE Kept
  <2>1. Advance(ExpirePointLots(book, {m}, Units, now))
    BY <1>0, AdvanceByExpiry
  <2>2. OnlyBook
    BY <1>1 DEF GetAccount, OnlyBook, memberVars, factVars
  <2>3. QED
    BY <1>1, <2>1, <2>2, KeptByReport DEF GetAccount
<1>2. ASSUME NEW k, NEW m \in Members, ListLedger(k, m) PROVE Kept
  <2>1. OnlyBook /\ reservations' = reservations
    BY <1>2 DEF ListLedger, OnlyBook, memberVars, factVars, walletVars
  <2>2. Advance(book')
    BY <1>0, <1>2, AdvanceByExpiry DEF ListLedger
  <2>3. QED
    BY <1>0, <2>1, <2>2, KeptByBook
<1>3. ASSUME NEW k, NEW m \in Members, ListIssuedRewards(k, m) PROVE Kept
  <2>1. WalletOK(issuedRewards')
    BY <1>0, <1>3 DEF ListIssuedRewards, WalletOK, ExpiredIssued, IsIssued, WalletStatuses
  <2>2. /\ now' = now /\ program' = program /\ members' = members
        /\ identityIndex' = identityIndex /\ accruals' = accruals
        /\ adjustments' = adjustments /\ book' = book /\ reservations' = reservations
    BY <1>3 DEF ListIssuedRewards, memberVars, factVars
  <2>3. QED
    BY <2>1, <2>2, GoodParts, AccrualsKept, KeptByParts
<1>4. ASSUME NEW k, NEW m \in Members, NEW f \in Facts, Evaluate(k, m, f) PROVE Kept
  <2>1. OnlyBook /\ ReportBalances(book, m)
    BY <1>4 DEF Evaluate, OnlyBook, memberVars, factVars
  <2>2. QED
    BY <2>1, <1>0, KeptByReport
<1>5. ASSUME Inspect PROVE Kept
  <2>1. Advance(book') /\ ReservationsOK(reservations')
    BY <1>0, <1>5, AdvanceByExpiry, LapsedOK DEF Inspect
  <2>2. OnlyBook
    BY <1>5 DEF Inspect, OnlyBook, memberVars, factVars
  <2>3. QED
    BY <2>1, <2>2, KeptByBook
<1>6. ASSUME NEW k, GetProgram(k) PROVE Kept
  <2>1. OnlyBook /\ book' = book /\ reservations' = reservations
    BY <1>6 DEF GetProgram, OnlyBook, memberVars, factVars, walletVars
  <2>2. QED
    BY <1>0, <2>1, KeptByBook
<1>7. ASSUME GetLedger PROVE Kept
  <2>1. OnlyBook /\ reservations' = reservations
    BY <1>7 DEF GetLedger, OnlyBook, memberVars, factVars, walletVars
  <2>2. Advance(book')
    BY <1>0, <1>7, AdvanceByExpiry DEF GetLedger
  <2>3. QED
    BY <1>0, <2>1, <2>2, KeptByBook
<1>8. QED
  BY <1>1, <1>2, <1>3, <1>4, <1>5, <1>6, <1>7 DEF ReadStep

LEMMA WalletStatusOK ==
  ASSUME NEW ws, WalletOK(ws), NEW i, NEW s \in WalletStatuses
  PROVE  WalletOK([ws EXCEPT ![i].status = s])
BY DEF WalletOK, IsIssued

LEMMA ExpiredIssuedOK ==
  ASSUME NEW i \in DOMAIN issuedRewards, IsIssued(issuedRewards[i])
  PROVE  IsIssued(ExpiredIssued(i))
BY DEF ExpiredIssued, IsIssued, WalletStatuses

LEMMA IssueKeeps ==
  ASSUME Good, IssueStep
  PROVE  Kept
<1>0. WalletOK(issuedRewards)
  BY GoodParts
<1>1. ASSUME WalletOK(issuedRewards'), UNCHANGED <<now, program, memberVars, book, reservations, factVars>>
      PROVE  Kept
  BY <1>1, GoodParts, AccrualsKept, KeptByParts DEF memberVars, factVars
<1>2. ASSUME NEW k, NEW i, NEW m \in Members, NEW w, IssueReward(k, i, m, w) PROVE Kept
  <2> DEFINE D == DOMAIN issuedRewards
  <2>1. issuedRewards' = [x \in D \cup {i} |-> IF x = i THEN IssuedReward(m, w) ELSE issuedRewards[x]]
    BY <1>2 DEF IssueReward, Put
  <2>2. IsFiniteSet(D \cup {i})
    <3>1. IsFiniteSet(D)
      BY <1>0 DEF WalletOK
    <3> HIDE DEF D
    <3>2. QED
      BY <3>1, FS_AddElement
  <2>3. IsIssued(IssuedReward(m, w))
    BY DEF IsIssued, IssuedReward, WalletStatuses
  <2>4. WalletOK(issuedRewards')
    BY <1>0, <2>1, <2>2, <2>3 DEF WalletOK
  <2>5. QED
    BY <1>1, <1>2, <2>4 DEF IssueReward
<1>3. ASSUME NEW k, NEW i, NEW m \in Members, NEW w, IssueRewardAgain(k, i, m, w) PROVE Kept
  BY <1>0, <1>1, <1>3 DEF IssueRewardAgain, walletVars
<1>4. ASSUME NEW k, NEW i \in DOMAIN issuedRewards, CancelIssuedReward(k, i) PROVE Kept
  <2>1. WalletOK(issuedRewards')
    BY <1>0, <1>4, WalletStatusOK DEF CancelIssuedReward, WalletStatuses
  <2>2. QED
    BY <1>1, <1>4, <2>1 DEF CancelIssuedReward
<1>5. ASSUME NEW i \in DOMAIN issuedRewards, RejectOverdueReward(i) PROVE Kept
  <2>1. IsIssued(ExpiredIssued(i))
    BY <1>0, ExpiredIssuedOK DEF WalletOK
  <2>2. issuedRewards' = [issuedRewards EXCEPT ![i] = ExpiredIssued(i)]
    BY <1>5 DEF RejectOverdueReward
  <2>3. WalletOK(issuedRewards')
    BY <1>0, <2>1, <2>2 DEF WalletOK
  <2>4. QED
    BY <1>1, <1>5, <2>3 DEF RejectOverdueReward
<1>6. QED
  BY <1>2, <1>3, <1>4, <1>5 DEF IssueStep

(* A new reservation is one of a validated program. *)
LEMMA AddReservationOK ==
  ASSUME Good, NEW k, NEW m \in Members, NEW rd, NEW rw \in DOMAIN program.rewards, NEW o, NEW i,
         NEW b, Advance(b), AddReservation(k, m, rd, rw, o, i, b)
  PROVE  Advance(book') /\ ReservationsOK(reservations')
<1> DEFINE c == IF i = None THEN program.rewards[rw].cost ELSE 0
           res == [redemption |-> rd, member |-> m, reward |-> rw, issued |-> i, order |-> o,
                   status |-> "reserved", unit |-> program.rewards[rw].unit,
                   cost |-> c, expires |-> now + program.ttl]
<1>1. AssertProgram(program)
  BY GoodParts, ProgramAssumption
<1>2. program.rewards[rw].cost \in Nat /\ program.rewards[rw].unit \in Units
  BY <1>1 DEF AssertProgram, RewardsValid, UnitsValid
<1>3. c \in Nat
  BY <1>2
<1>4. reservations' = Append(Lapsed, res) /\ book' = ExpirePointLots(b, {m}, UnitSet(program), now)
  BY DEF AddReservation, Balances
<1>5. IsReservation(res)
  <2> HIDE DEF c
  <2>1. QED
    BY <1>2, <1>3 DEF IsReservation, Statuses
<1> HIDE DEF res
<1>6. QED
  BY <1>4, <1>5, LapsedOK, AppendedOK, AdvanceByExpiry

LEMMA DebitType ==
  ASSUME NEW u, NEW amount \in Int
  PROVE  Debit(u, amount) \in [Units -> Int]
BY DEF Debit

LEMMA RedemptionEntryOK ==
  ASSUME Good, NEW r \in DOMAIN reservations, NEW op \in EntryOps, NEW amount \in Int
  PROVE  IsEntry(RedemptionEntry(r, op, amount))
<1>1. IsReservation(reservations[r])
  BY GoodParts, ReservationsDomain DEF ReservationsOK
<1>2. reservations[r].member \in Members /\ reservations[r].unit \in Units
  BY <1>1 DEF IsReservation
<1>3. QED
  BY <1>2 DEF IsEntry, RedemptionEntry, NoExpiry

LEMMA RedemptionKeeps ==
  ASSUME Good, RedemptionStep
  PROVE  Kept
<1>0. /\ Advance(book) /\ ReservationsOK(reservations) /\ WalletOK(issuedRewards)
      /\ ReservationsOK(Lapsed) /\ DOMAIN Lapsed = DOMAIN reservations
      /\ \A r \in DOMAIN reservations : IsReservation(reservations[r])
  BY GoodParts, LapsedOK, ReservationsDomain DEF ReservationsOK
<1>1. ASSUME NEW k, NEW m \in Members, NEW rd, NEW rw \in DOMAIN program.rewards, NEW o,
             Reserve(k, m, rd, rw, o)
      PROVE  Kept
  <2> DEFINE b == Balance(book, m, program.rewards[rw].unit)
  <2>1. AddReservation(k, m, rd, rw, o, None, b)
    BY <1>1 DEF Reserve
  <2>2. Advance(b)
    BY <1>0, AdvanceByExpiry DEF Balance
  <2> HIDE DEF b
  <2>3. Advance(book') /\ ReservationsOK(reservations')
    BY <2>1, <2>2, AddReservationOK
  <2>4. OnlyBook
    BY <1>1 DEF Reserve, OnlyBook, memberVars, factVars
  <2>5. QED
    BY <2>3, <2>4, KeptByBook
<1>2. ASSUME NEW k, NEW m \in Members, NEW rd, NEW rw \in DOMAIN program.rewards, NEW o, NEW i,
             ReserveIssued(k, m, rd, rw, o, i)
      PROVE  Kept
  <2>1. AddReservation(k, m, rd, rw, o, i, book)
    BY <1>2 DEF ReserveIssued
  <2>2. Advance(book') /\ ReservationsOK(reservations')
    BY <1>0, <2>1, AddReservationOK
  <2>3. OnlyBook
    BY <1>2 DEF ReserveIssued, OnlyBook, memberVars, factVars
  <2>4. QED
    BY <2>2, <2>3, KeptByBook
<1>3. ASSUME NEW k, NEW m \in Members, NEW rd, NEW rw, NEW o, NEW i, ReserveAgain(k, m, rd, rw, o, i)
      PROVE  Kept
  <2>1. OnlyBook /\ ReportBalances(book, m)
    BY <1>3 DEF ReserveAgain, OnlyBook, memberVars, factVars
  <2>2. QED
    BY <1>0, <2>1, KeptByReport
<1>4. ASSUME NEW s \in Statuses, NEW r \in DOMAIN reservations,
             reservations' = [Lapsed EXCEPT ![r].status = s],
             Advance(book'), WalletOK(issuedRewards'),
             UNCHANGED <<now, program, memberVars, factVars>>
      PROVE  Kept
  <2>1. ReservationsOK(reservations')
    BY <1>0, <1>4, SettledOK
  <2>2. QED
    BY <1>4, <2>1, GoodParts, AccrualsKept, KeptByParts DEF memberVars, factVars
<1>5. ASSUME NEW k, NEW r \in DOMAIN reservations, Capture(k, r) PROVE Kept
  <2> DEFINE res == reservations[r]
             b0  == Balance(book, res.member, res.unit)
             d   == Debit(res.unit, res.cost)
             e   == RedemptionEntry(r, "redemption", -res.cost)
             b1  == ConsumePointLots(b0, res.member, d, r)
             b2  == AddLedger(b1, <<e>>)
             b3  == IF res.cost = 0 THEN b0 ELSE b2
  <2>1. book' = ExpirePointLots(b3, {res.member}, UnitSet(program), now)
    BY <1>5 DEF Capture, Balances
  <2>2. res.cost \in Nat
    BY <1>0 DEF IsReservation
  <2>3. d \in [Units -> Int] /\ IsEntry(e)
    BY <2>2, DebitType, RedemptionEntryOK DEF EntryOps
  <2>4. Advance(b0)
    BY <1>0, AdvanceByExpiry DEF Balance
  <2> HIDE DEF b0, d, e
  <2>5. Advance(b1)
    BY <2>3, <2>4, AdvanceByConsumption
  <2> HIDE DEF b1
  <2>6. Advance(b2)
    BY <2>3, <2>5, AdvanceByEntry
  <2> HIDE DEF b2
  <2>7. Advance(b3)
    BY <2>4, <2>6
  <2> HIDE DEF b3
  <2>8. Advance(book')
    BY <2>1, <2>7, AdvanceByExpiry
  <2>9. WalletOK(issuedRewards')
    BY <1>0, <1>5, WalletStatusOK DEF Capture, WalletStatuses
  <2>10. QED
    BY <1>4, <1>5, <2>8, <2>9 DEF Capture, Statuses
<1>6. ASSUME NEW k, NEW r \in DOMAIN reservations, ReverseHold(k, r) PROVE Kept
  <2>1. Advance(book')
    BY <1>0, <1>6, AdvanceByExpiry DEF ReverseHold, Balances
  <2>2. QED
    BY <1>0, <1>4, <1>6, <2>1 DEF ReverseHold, Statuses
<1>7. ASSUME NEW k, NEW r \in DOMAIN reservations, ReverseCapture(k, r) PROVE Kept
  <2> DEFINE res == reservations[r]
             e   == RedemptionEntry(r, "reversal", res.cost)
             b1  == RestorePointLots(book, r)
             b2  == AddLedger(b1, <<e>>)
             b3  == Balance(b2, res.member, res.unit)
             b4  == IF res.cost = 0 THEN book ELSE b3
  <2>1. book' = ExpirePointLots(b4, {res.member}, UnitSet(program), now)
    BY <1>7 DEF ReverseCapture, Balances
  <2>2. res.cost \in Nat
    BY <1>0 DEF IsReservation
  <2>3. IsEntry(e)
    BY <2>2, RedemptionEntryOK DEF EntryOps
  <2>4. Advance(b1)
    BY <1>0, AdvanceByRestoration
  <2> HIDE DEF e, b1
  <2>5. Advance(b2)
    BY <2>3, <2>4, AdvanceByEntry
  <2> HIDE DEF b2
  <2>6. Advance(b3)
    BY <2>5, AdvanceByExpiry DEF Balance
  <2> HIDE DEF b3
  <2>7. Advance(b4)
    BY <1>0, <2>6
  <2> HIDE DEF b4
  <2>8. Advance(book')
    BY <2>1, <2>7, AdvanceByExpiry
  <2>9. WalletOK(issuedRewards')
    BY <1>0, <1>7, WalletStatusOK DEF ReverseCapture, WalletStatuses
  <2>10. QED
    BY <1>4, <1>7, <2>8, <2>9 DEF ReverseCapture, Statuses
<1>8. ASSUME NEW k, NEW r, NEW op, NEW s, SettleAgain(k, r, op, s) PROVE Kept
  <2>1. OnlyBook /\ ReportBalances(book, reservations[r].member)
    BY <1>8 DEF SettleAgain, OnlyBook, memberVars, factVars
  <2>2. QED
    BY <1>0, <2>1, KeptByReport
<1>9. ASSUME NEW r \in DOMAIN reservations, RejectOverdueReservation(r) PROVE Kept
  <2> DEFINE new == [reservations EXCEPT ![r] = LapsedOne(reservations[r])]
  <2>1. OnlyBook /\ book' = book /\ reservations' = new
    BY <1>9 DEF RejectOverdueReservation, OnlyBook, memberVars, factVars
  <2>2. \A i \in DOMAIN reservations : IsReservation(new[i])
    BY <1>0, StatusOK DEF LapsedOne, Statuses
  <2>3. new = [i \in DOMAIN reservations |-> new[i]]
    OBVIOUS
  <2> HIDE DEF new
  <2>4. ReservationsOK(new)
    BY <1>0, <2>2, <2>3, ReservationsUpdated
  <2>5. QED
    BY <1>0, <2>1, <2>4, KeptByBook
<1>10. ASSUME NEW m \in Members, NEW u \in Units, RejectLowBalance(m, u) PROVE Kept
  <2>1. OnlyBook /\ book' = Balance(book, m, u) /\ reservations' = Lapsed
    BY <1>10 DEF RejectLowBalance, OnlyBook, memberVars, factVars
  <2>2. QED
    BY <1>0, <2>1, AdvanceByExpiry, KeptByBook DEF Balance
<1>11. QED
  BY <1>1, <1>2, <1>3, <1>5, <1>6, <1>7, <1>8, <1>9, <1>10 DEF RedemptionStep

LEMMA LotExpiryType ==
  ASSUME NEW p \in Programs, NEW u \in UnitSet(p), NEW t \in Nat
  PROVE  LotExpiry(p, u, t) \in Int
<1>1. p.days \in [Units -> Nat] /\ u \in Units
  BY ProgramAssumption DEF AssertProgram, UnitsValid
<1>2. QED
  BY <1>1 DEF LotExpiry, NoExpiry

LEMMA PointsForSignedSpendType ==
  ASSUME NEW p \in Programs, NEW u \in UnitSet(p), NEW delta \in Int, NEW bps \in Int
  PROVE  PointsForSignedSpend(p, u, delta, bps) \in Int
<1>1. -delta \in Int
  OBVIOUS
<1>2. AmountForUnit(p, u, delta, bps) \in Int /\ AmountForUnit(p, u, -delta, bps) \in Int
  BY <1>1, AmountForUnitType
<1>3. QED
  BY <1>2 DEF PointsForSignedSpend

LEMMA AdjustmentAmountType ==
  ASSUME Good, NEW o \in Orders, NEW u \in UnitSet(program), NEW a \in OrderAdjustments, NEW bps \in Int
  PROVE  AdjustmentAmount(o, u, a, bps) \in Int
<1>0. /\ program \in Programs /\ Sound(book) /\ AccrualsOK(accruals, book) /\ a.delta \in Int
  BY GoodParts, RequestAssumption
<1>1. OriginalAmount(o, u) \in Int
  <2>1. CASE OriginalEntries(o, u) = {}
    BY <2>1 DEF OriginalAmount
  <2>2. CASE OriginalEntries(o, u) # {}
    <3> DEFINE i == CHOOSE x \in OriginalEntries(o, u) : TRUE
    <3>1. i \in OriginalEntries(o, u)
      BY <2>2
    <3>2. o \in DOMAIN accruals /\ i \in 1..Len(accruals[o].entries)
      BY <3>1 DEF OriginalEntries, Accrued
    <3>3. accruals[o].entries[i] \in 1..Len(book.ledger)
      BY <1>0, <3>2 DEF AccrualsOK
    <3>4. book.ledger[accruals[o].entries[i]].amount \in Int
      BY <1>0, <3>3 DEF Sound, IsBook, IsEntry
    <3>5. QED
      BY <2>2, <3>4 DEF OriginalAmount
  <2>3. QED
    BY <2>1, <2>2
<1>2. PriorAdjustments(book.ledger, o, u) \in Int
  <2> DEFINE q == [i \in 1..Len(book.ledger) |->
                     IF /\ book.ledger[i].order = o /\ book.ledger[i].op = "adjustment"
                        /\ book.ledger[i].unit = u
                     THEN book.ledger[i].amount ELSE 0]
  <2>1. Len(book.ledger) \in Nat
    BY <1>0, LenProperties DEF Sound, IsBook, IsSeq
  <2>2. q \in [1..Len(book.ledger) -> Int]
    BY <1>0 DEF Sound, IsBook, IsEntry
  <2>3. PriorAdjustments(book.ledger, o, u) = Total(q)
    BY DEF PriorAdjustments
  <2> HIDE DEF q
  <2>4. q \in Seq(Int)
    BY <2>1, <2>2
  <2>5. QED
    BY <2>3, <2>4, TotalType
<1>3. RawAdjustment(o, u, a, bps) \in Int
  <2>1. PointsForSignedSpend(program, u, a.delta, bps) \in Int
    BY <1>0, PointsForSignedSpendType
  <2>2. -OriginalAmount(o, u) \in Int /\ 0 \in Int
    BY <1>1
  <2>3. QED
    BY <2>1, <2>2 DEF RawAdjustment
<1>4. QED
  BY <1>1, <1>2, <1>3 DEF AdjustmentAmount, NonNegative

LEMMA AdjustmentBpsType ==
  ASSUME Good, NEW b, Sound(b), NEW m \in Members, NEW o
  PROVE  AdjustmentBps(b, m, o) \in Int
<1>1. CASE Accrued(o)
  BY <1>1, GoodParts DEF AdjustmentBps, Accrued, AccrualsOK
<1>2. CASE ~Accrued(o)
  BY <1>2, GoodParts, EarningMultiplierType DEF AdjustmentBps, Sound
<1>3. QED
  BY <1>1, <1>2

LEMMA AdjustmentKeeps ==
  ASSUME Good, AdjustmentStep
  PROVE  Kept
<1>0. /\ Advance(book) /\ now \in Nat /\ program \in Programs /\ ReservationsOK(reservations)
      /\ DOMAIN adjustments \subseteq AdjustmentIds
  BY GoodParts
<1>1. ASSUME NEW b, Advance(b), NEW m, ReportBalances(b, m),
             DOMAIN adjustments' \subseteq AdjustmentIds,
             UNCHANGED <<now, program, memberVars, issuedRewards, accruals>>
      PROVE  Kept
  <2>1. Advance(book') /\ ReservationsOK(reservations')
    BY <1>1, Reported
  <2>2. QED
    BY <1>1, <2>1, GoodParts, AccrualsKept, KeptByParts DEF memberVars
<1>2. ASSUME NEW k, NEW m \in Members, NEW x \in AdjustmentIds, NEW o \in Orders,
             NEW a \in OrderAdjustments, AdjustOrder(k, m, x, o, a)
      PROVE  Kept
  <2> DEFINE b0     == ExpirePointLots(book, {m}, Units, now)
             bps    == AdjustmentBps(b0, m, o)
             amount == [u \in Units |-> IF u \in UnitSet(program)
                                        THEN AdjustmentAmount(o, u, a, bps) ELSE 0]
             debit  == [u \in Units |-> NonNegative(-amount[u])]
             es     == [i \in 1..Len(program.units) |->
                          AdjustmentEntry(m, x, o, program.units[i], amount[program.units[i]])]
             b1     == ConsumePointLots(b0, m, debit, None)
             b2     == AddLedger(b1, es)
  <2>1. Advance(b0) /\ Sound(b0)
    BY <1>0, AdvanceByExpiry DEF Advance
  <2>2. ReportBalances(b2, m)
    BY <1>2 DEF AdjustOrder
  <2>3. DOMAIN adjustments' \subseteq AdjustmentIds
    BY <1>0, <1>2 DEF AdjustOrder, Put
  <2>4. bps \in Int
    <3> HIDE DEF b0
    <3>1. QED
      BY <2>1, AdjustmentBpsType
  <2> HIDE DEF b0, bps
  <2>5. amount \in [Units -> Int]
    BY <2>4, AdjustmentAmountType
  <2> HIDE DEF amount
  <2>6. debit \in [Units -> Int]
    BY <2>5 DEF NonNegative
  <2>7. Len(program.units) \in Nat /\ \A i \in 1..Len(program.units) : program.units[i] \in UnitSet(program) /\ program.units[i] \in Units
    BY <1>0, UnitsType
  <2>8. IsSeq(es) /\ Len(es) = Len(program.units)
    BY <2>7, FunctionIsSeq
  <2>9. ASSUME NEW i \in 1..Len(es) PROVE IsEntry(es[i])
    <3>1. /\ program.units[i] \in UnitSet(program) /\ program.units[i] \in Units
          /\ es[i] = AdjustmentEntry(m, x, o, program.units[i], amount[program.units[i]])
      BY <2>7, <2>8
    <3>2. amount[program.units[i]] \in Int /\ LotExpiry(program, program.units[i], now) \in Int
      BY <1>0, <2>5, <3>1, LotExpiryType
    <3> HIDE DEF es
    <3>3. QED
      BY <3>1, <3>2 DEF AdjustmentEntry, IsEntry, EntryOps, NoExpiry
  <2> HIDE DEF debit, es
  <2>10. Advance(b1)
    BY <2>1, <2>6, AdvanceByConsumption
  <2> HIDE DEF b1
  <2>11. Advance(b2)
    BY <2>8, <2>9, <2>10, AdvanceByEntries
  <2> HIDE DEF b2
  <2>12. QED
    BY <1>1, <1>2, <2>2, <2>3, <2>11 DEF AdjustOrder
<1>3. ASSUME NEW k, NEW m \in Members, NEW x, NEW o, NEW a, AdjustOrderAgain(k, m, x, o, a)
      PROVE  Kept
  <2>1. Advance(ExpirePointLots(book, {m}, Units, now))
    BY <1>0, AdvanceByExpiry
  <2>2. OnlyBook
    BY <1>3 DEF AdjustOrderAgain, OnlyBook, memberVars, factVars
  <2>3. QED
    BY <1>3, <2>1, <2>2, KeptByReport DEF AdjustOrderAgain
<1>4. ASSUME NEW k, NEW m \in Members, NEW x \in AdjustmentIds, NEW a \in ManualAdjustments,
             PostManualAdjustment(k, m, x, a)
      PROVE  Kept
  <2> DEFINE b0 == Balance(book, m, a.unit)
             d  == Debit(a.unit, -a.amount)
             c  == ConsumePointLots(b0, m, d, None)
             b1 == IF a.amount > 0 THEN b0 ELSE c
             e  == ManualEntry(m, x, a)
             b2 == AddLedger(b1, <<e>>)
  <2>1. ReportBalances(b2, m)
    BY <1>4 DEF PostManualAdjustment
  <2>2. DOMAIN adjustments' \subseteq AdjustmentIds
    BY <1>0, <1>4 DEF PostManualAdjustment, Put
  <2>3. a.amount \in Int /\ a.expires \in Nat /\ a.unit \in UnitSet(program) /\ a.unit \in Units
    BY <1>0, <1>4, RequestAssumption, ProgramAssumption
       DEF PostManualAdjustment, ManualAllowed, AssertProgram, UnitsValid
  <2>4. LotExpiry(program, a.unit, now) \in Int
    BY <1>0, <2>3, LotExpiryType
  <2>5. IsEntry(e)
    BY <2>3, <2>4 DEF ManualEntry, IsEntry, EntryOps, NoExpiry
  <2>6. d \in [Units -> Int]
    BY <2>3, DebitType
  <2>7. Advance(b0)
    BY <1>0, AdvanceByExpiry DEF Balance
  <2> HIDE DEF b0, d, e
  <2>8. Advance(c)
    BY <2>6, <2>7, AdvanceByConsumption
  <2> HIDE DEF c
  <2>9. Advance(b1)
    BY <2>7, <2>8
  <2> HIDE DEF b1
  <2>10. Advance(b2)
    BY <2>5, <2>9, AdvanceByEntry
  <2> HIDE DEF b2
  <2>11. QED
    BY <1>1, <1>4, <2>1, <2>2, <2>10 DEF PostManualAdjustment
<1>5. ASSUME NEW k, NEW m \in Members, NEW x, NEW a, PostManualAdjustmentAgain(k, m, x, a)
      PROVE  Kept
  <2>1. Advance(Balance(book, m, a.unit))
    BY <1>0, AdvanceByExpiry DEF Balance
  <2>2. OnlyBook
    BY <1>5 DEF PostManualAdjustmentAgain, OnlyBook, memberVars, factVars
  <2>3. QED
    BY <1>5, <2>1, <2>2, KeptByReport DEF PostManualAdjustmentAgain
<1>6. ASSUME NEW m \in Members, NEW us, RejectAdjustment(m, us) PROVE Kept
  <2>1. Advance(book')
    BY <1>0, <1>6, AdvanceByExpiry DEF RejectAdjustment
  <2>2. OnlyBook /\ reservations' = reservations
    BY <1>6 DEF RejectAdjustment, OnlyBook, memberVars, walletVars, factVars
  <2>3. QED
    BY <1>0, <2>1, <2>2, KeptByBook
<1>7. QED
  BY <1>2, <1>3, <1>4, <1>5, <1>6 DEF AdjustmentStep

LEMMA ProgramKeeps ==
  ASSUME Good, ProgramStep
  PROVE  Kept
<1>0. Advance(book) /\ ReservationsOK(reservations) /\ ReservationsOK(Lapsed)
  BY GoodParts, LapsedOK
<1>1. ASSUME NEW p \in Programs, ReconfigureProgram(p) PROVE Kept
  <2>1. Advance(book')
    BY <1>0, <1>1, AdvanceByExpiry DEF ReconfigureProgram
  <2>2. ReservationsOK(reservations')
    BY <1>0, <1>1 DEF ReconfigureProgram
  <2>3. /\ program' \in Programs
        /\ UNCHANGED <<now, members, identityIndex, issuedRewards, accruals, adjustments>>
    BY <1>1 DEF ReconfigureProgram, memberVars, factVars
  <2>4. QED
    BY <2>1, <2>2, <2>3, GoodParts, AccrualsKept, KeptByParts
<1>2. ASSUME NEW p \in Programs, NEW m, NEW ms, RejectReconfigure(p, m, ms) PROVE Kept
  <2>1. PICK n \in DOMAIN program.units :
          LET u      == program.units[n]
              before == {program.units[j] : j \in 1..(n - 1)} \ UnitSet(p)
          IN  /\ book' = ExpirePointLots(ExpirePointLots(book, Known, before, now), ms, {u}, now)
              /\ reservations' = Lapsed
              /\ UNCHANGED <<now, program, memberVars, byRedemption, issuedRewards, factVars, idempotency>>
    BY <1>2 DEF RejectReconfigure
  <2> DEFINE b == ExpirePointLots(book, Known, {program.units[j] : j \in 1..(n - 1)} \ UnitSet(p), now)
  <2>2. Advance(b)
    BY <1>0, AdvanceByExpiry
  <2>3. book' = ExpirePointLots(b, ms, {program.units[n]}, now)
    BY <2>1
  <2> HIDE DEF b
  <2>4. Advance(book')
    BY <2>2, <2>3, AdvanceByExpiry
  <2>5. OnlyBook
    BY <2>1 DEF OnlyBook, memberVars, factVars
  <2>6. QED
    BY <1>0, <2>1, <2>4, <2>5, KeptByBook
<1>3. \A p \in Updates(program) : p \in Programs
  BY ProgramAssumption DEF Good, TypeOK
<1>4. QED
  BY <1>1, <1>2, <1>3 DEF ProgramStep

(* Accruals and stamp cards *)
LEMMA CyclesType ==
  ASSUME Good, NEW b, Sound(b), NEW m \in Members
  PROVE  IssuedCycles(m) \in Nat /\ (program.visit # None => EligibleCycles(b, m) \in Int)
<1>0. program \in Programs /\ WalletOK(issuedRewards)
  BY GoodParts
<1> DEFINE S == {i \in DOMAIN issuedRewards : i \notin IssuedIds /\ i[1] \in Namesakes[m]}
           v == program.visit
           q == [i \in 1..Len(b.ledger) |->
                   IF b.ledger[i].member = m /\ b.ledger[i].op = "accrual" /\ b.ledger[i].unit = v.unit
                   THEN NonNegative(b.ledger[i].amount) ELSE 0]
<1>1. IssuedCycles(m) \in Nat
  <2>1. S \in SUBSET DOMAIN issuedRewards /\ IsFiniteSet(DOMAIN issuedRewards)
    BY <1>0 DEF WalletOK
  <2>2. IssuedCycles(m) = Cardinality(S)
    BY DEF IssuedCycles
  <2> HIDE DEF S
  <2>3. IsFiniteSet(S)
    BY <2>1, FS_Subset
  <2>4. QED
    BY <2>2, <2>3, FS_CardinalityType
<1>2. ASSUME v # None PROVE EligibleCycles(b, m) \in Int
  <2>1. v.threshold \in Nat \ {0} /\ v.unit \in Units
    BY <1>0, <1>2, ProgramAssumption DEF AssertProgram, CardValid, UnitsValid
  <2>2. b.points[m][v.unit] \in Int
    BY <2>1 DEF Sound, IsBook
  <2>3. Total(q) \in Int
    <3>1. Len(b.ledger) \in Nat
      BY LenProperties DEF Sound, IsBook, IsSeq
    <3>2. q \in [1..Len(b.ledger) -> Int]
      BY DEF Sound, IsBook, IsEntry, NonNegative
    <3> HIDE DEF q
    <3>3. q \in Seq(Int)
      BY <3>1, <3>2
    <3>4. QED
      BY <3>3, TotalType
  <2>4. EligibleCycles(b, m) = IF v.reset THEN b.points[m][v.unit] \div v.threshold + IssuedCycles(m)
                               ELSE Total(q) \div v.threshold
    BY DEF EligibleCycles
  <2> HIDE DEF q
  <2>5. b.points[m][v.unit] \div v.threshold \in Int /\ Total(q) \div v.threshold \in Int
    BY <2>1, <2>2, <2>3
  <2>6. QED
    BY <1>1, <2>4, <2>5
<1>3. QED
  BY <1>1, <1>2

LEMMA CyclesFinite ==
  ASSUME Good, NEW b, Sound(b), NEW m \in Members
  PROVE  IsFiniteSet(NewCycles(b, m))
<1>1. CASE program.visit = None
  BY <1>1, FS_EmptySet DEF NewCycles
<1>2. CASE program.visit # None
  <2>1. IssuedCycles(m) + 1 \in Int /\ EligibleCycles(b, m) \in Int
    BY <1>2, CyclesType
  <2>2. IsFiniteSet(IssuedCycles(m) + 1 .. EligibleCycles(b, m))
    BY <2>1, FS_Interval
  <2>3. QED
    BY <1>2, <2>2 DEF NewCycles
<1>3. QED
  BY <1>1, <1>2

LEMMA StampsFinite ==
  ASSUME NEW m, NEW cycles, IsFiniteSet(cycles)
  PROVE  IsFiniteSet({StampId(m, c) : c \in cycles})
<1> DEFINE T == {StampId(m, c) : c \in cycles}
           f == [c \in cycles |-> StampId(m, c)]
<1>1. f \in Surjection(cycles, T)
  BY DEF Surjection
<1> HIDE DEF f, T
<1>2. IsFiniteSet(T)
  BY <1>1, FS_Surjection
<1>3. QED
  BY <1>2 DEF T

LEMMA ResetStampsSound ==
  ASSUME Good, NEW b, Sound(b), NEW m \in Members, NEW cycles, IsFiniteSet(cycles)
  PROVE  Sound(ResetStamps(b, m, cycles)) /\ Continues(b, ResetStamps(b, m, cycles))
<1> DEFINE n  == Cardinality(cycles)
           es == [i \in 1..n |-> ResetEntry(m, StampId(m, IssuedCycles(m) + i))]
<1>1. CASE program.visit = None \/ ~program.visit.reset
  <2>1. ResetStamps(b, m, cycles) = b
    BY <1>1 DEF ResetStamps
  <2>2. Len(b.ledger) \in Nat
    BY LenProperties DEF Sound, IsBook, IsSeq
  <2>3. QED
    BY <2>1, <2>2 DEF Continues
<1>2. CASE ~(program.visit = None \/ ~program.visit.reset)
  <2>1. n \in Nat
    BY FS_CardinalityType
  <2>2. IsSeq(es) /\ Len(es) = n
    BY <2>1, FunctionIsSeq
  <2>3. program.visit.threshold \in Nat /\ program.visit.unit \in Units
    BY <1>2, GoodParts, ProgramAssumption DEF AssertProgram, CardValid, UnitsValid
  <2>4. ASSUME NEW i \in 1..Len(es) PROVE IsEntry(es[i])
    <3>1. es[i] = ResetEntry(m, StampId(m, IssuedCycles(m) + i))
      BY <2>2
    <3> HIDE DEF es
    <3>2. QED
      BY <2>3, <3>1 DEF ResetEntry, IsEntry, EntryOps, NoExpiry
  <2>5. ResetStamps(b, m, cycles) = AddLedger(b, es)
    BY <1>2 DEF ResetStamps
  <2> HIDE DEF es
  <2>6. QED
    BY <2>2, <2>4, <2>5, AddLedgerSound
<1>3. QED
  BY <1>1, <1>2

LEMMA PostAccrualKeeps ==
  ASSUME Good, NEW k, NEW m \in Members, NEW o \in Orders, NEW f \in Facts, PostAccrual(k, m, o, f)
  PROVE  Kept
<1> DEFINE b0     == MetricBook(m)
           bps    == EarningMultiplierBps(program, b0, m, members[m].membership, now)
           n      == Len(program.units)
           es     == [i \in 1..n |-> AccrualEntry(m, o, f, program.units[i], bps)]
           ids    == [i \in 1..n |-> Len(b0.ledger) + i]
           main   == CHOOSE i \in 1..n : program.units[i] = program.primary
           a      == AddLedger(b0, es)
           b1     == StampSweep(a, m)
           cycles == NewCycles(b1, m)
           stamps == {StampId(m, c) : c \in cycles}
           b2     == ResetStamps(b1, m, cycles)
           b3     == ExpirePointLots(b2, {m}, UnitSet(program), now)
           rec    == [entry |-> ids[main], entries |-> ids, fp |-> <<m, f>>, bps |-> bps]
<1>0. /\ now \in Nat /\ program \in Programs /\ WalletOK(issuedRewards) /\ AccrualsOK(accruals, book)
  BY GoodParts
<1>1. /\ accruals' = Put(accruals, o, rec)
      /\ issuedRewards' = [i \in DOMAIN issuedRewards \cup stamps |->
                             IF i \in stamps THEN StampReward(m) ELSE issuedRewards[i]]
      /\ ReportBalances(b2, m)
      /\ UNCHANGED <<now, program, memberVars, byRedemption, adjustments>>
  BY DEF PostAccrual
<1>2. book' = b3 /\ reservations' = Lapsed
  BY <1>1 DEF ReportBalances, Balances
<1>3. Advance(b0) /\ Sound(b0) /\ Len(b0.ledger) \in Nat
  <2> HIDE DEF b0
  <2>1. Advance(b0)
    BY MetricOK DEF b0
  <2>2. QED
    BY <2>1, LenProperties DEF Advance, Sound, IsBook, IsSeq
<1> HIDE DEF b0
<1>4. bps \in Int
  BY <1>0, <1>3, EarningMultiplierType DEF Sound
<1> HIDE DEF bps
<1>5. n \in Nat /\ \A i \in 1..n : program.units[i] \in UnitSet(program) /\ program.units[i] \in Units
  BY <1>0, UnitsType
<1>6. IsSeq(es) /\ Len(es) = n
  BY <1>5, FunctionIsSeq
<1>7. ASSUME NEW i \in 1..Len(es) PROVE IsEntry(es[i])
  <2> DEFINE u == program.units[i]
  <2>1. u \in UnitSet(program) /\ u \in Units /\ es[i] = AccrualEntry(m, o, f, u, bps)
    BY <1>5, <1>6
  <2> HIDE DEF u, es
  <2>2. AccrualAmount(program, u, f, bps) \in Int /\ LotExpiry(program, u, now) \in Int
    BY <1>0, <1>4, <2>1, AccrualAmountType, LotExpiryType
  <2>3. QED
    BY <2>1, <2>2 DEF AccrualEntry, IsEntry, EntryOps, NoExpiry
<1>8. IsSeq(ids) /\ Len(ids) = n /\ \A i \in 1..n : ids[i] = Len(b0.ledger) + i
  BY <1>5, FunctionIsSeq
<1> HIDE DEF es, ids
<1>9. Sound(a) /\ Continues(b0, a) /\ Advance(a) /\ Len(a.ledger) = Len(b0.ledger) + n
  <2>1. Sound(a) /\ Continues(b0, a) /\ a.ledger = b0.ledger \o es
    BY <1>3, <1>6, <1>7, AddLedgerSound
  <2>2. Len(b0.ledger \o es) = Len(b0.ledger) + Len(es)
    BY <1>3, <1>6, SeqConcat DEF Sound, IsBook
  <2> HIDE DEF a
  <2>3. Advance(a)
    BY <1>3, <2>1, AdvanceBy
  <2>4. QED
    BY <1>6, <2>1, <2>2, <2>3
<1> HIDE DEF a
<1>10. Sound(b1) /\ Continues(a, b1)
  <2>1. Continues(a, a)
    BY <1>9, <1>3, <1>5 DEF Continues
  <2>2. QED
    BY <1>9, <2>1, ExpirePointLotsSound DEF StampSweep, Balance
<1> HIDE DEF b1
<1>11. IsFiniteSet(cycles)
  BY <1>10, CyclesFinite
<1> HIDE DEF cycles
<1>12. IsFiniteSet(stamps)
  BY <1>11, StampsFinite
<1> HIDE DEF stamps
<1>13. Sound(b2) /\ Continues(b1, b2)
  BY <1>10, <1>11, ResetStampsSound
<1> HIDE DEF b2
<1>14. Sound(b3) /\ Continues(b2, b3)
  BY <1>13, ExpirePointLotsSound
<1> HIDE DEF b3
<1>15. Continues(a, b3) /\ Advance(b3)
  BY <1>9, <1>10, <1>13, <1>14, ContinuesTransitive, AdvanceBy
<1>16. AccrualsOK(accruals', b3)
  <2>1. AccrualsOK(accruals, b3)
    BY <1>15, AccrualsKept
  <2>2. Len(b0.ledger) + n <= Len(b3.ledger) /\ Len(b3.ledger) \in Nat
    BY <1>3, <1>5, <1>9, <1>14, <1>15, LenProperties DEF Continues, Sound, IsBook, IsSeq
  <2>3. ASSUME NEW i \in 1..Len(ids) PROVE ids[i] \in 1..Len(b3.ledger)
    <3>1. i \in 1..n /\ ids[i] = Len(b0.ledger) + i
      BY <1>8
    <3> HIDE DEF n
    <3>2. QED
      BY <1>3, <1>5, <2>2, <3>1
  <2>4. rec.bps \in Int /\ rec.entries = ids
    BY <1>4
  <2> HIDE DEF rec
  <2>5. accruals' = [x \in DOMAIN accruals \cup {o} |-> IF x = o THEN rec ELSE accruals[x]]
    BY <1>1 DEF Put
  <2>6. QED
    BY <2>1, <2>3, <2>4, <2>5 DEF AccrualsOK
<1>17. WalletOK(issuedRewards')
  <2>1. IsFiniteSet(DOMAIN issuedRewards \cup stamps)
    BY <1>0, <1>12, FS_Union DEF WalletOK
  <2>2. IsIssued(StampReward(m))
    BY DEF IsIssued, StampReward, WalletStatuses
  <2>3. QED
    BY <1>0, <1>1, <2>1, <2>2 DEF WalletOK
<1>18. QED
  BY <1>1, <1>2, <1>15, <1>16, <1>17, GoodParts, LapsedOK, KeptByParts DEF memberVars

LEMMA AccrualKeeps ==
  ASSUME Good, AccrualStep
  PROVE  Kept
<1>1. ASSUME NEW k, NEW m \in Members, NEW o, NEW f, PostAccrualAgain(k, m, o, f) PROVE Kept
  <2>1. OnlyBook /\ ReportBalances(book, m)
    BY <1>1 DEF PostAccrualAgain, OnlyBook, memberVars, factVars
  <2>2. QED
    BY <2>1, GoodParts, KeptByReport
<1>2. QED
  BY <1>1, PostAccrualKeeps DEF AccrualStep
-------------------------------------------------------------------------------
(* The invariant holds at the start, and every step of the engine keeps it *)
(* and appends to the ledger.                                              *)
LEMMA InitGood ==
  ASSUME Init
  PROVE  Good
<1> DEFINE e == EmptyBook
<1>1. /\ e.ledger = <<>> /\ e.points = [m \in Members |-> [u \in Units |-> 0]]
      /\ e.lots = <<>> /\ e.consumptions = <<>>
      /\ e = [ledger |-> e.ledger, points |-> e.points, lots |-> e.lots,
              consumptions |-> e.consumptions]
  BY DEF EmptyBook
<1>2. IsSeq(<<>>) /\ Len(<<>>) = 0 /\ DOMAIN <<>> = {}
  BY DEF IsSeq
<1>3. IsBook(e)
  <2> HIDE DEF e
  <2>1. QED
    BY <1>1, <1>2 DEF IsBook
<1>4. ASSUME NEW m \in Members, NEW u \in Units PROVE AccountTotal(<<>>, m, u) = 0
  <2> DEFINE q == AccountAmounts(<<>>, m, u)
  <2>1. q = <<>>
    BY <1>2 DEF AccountAmounts
  <2>2. <<>> \in Seq(Int) /\ Len(<<>>) = 0
    OBVIOUS
  <2>3. IsSum(PartialSums(<<>>), <<>>, Len(<<>>))
    BY <2>2, PartialSumsType
  <2>4. QED
    BY <1>2, <2>1, <2>3 DEF IsSum, Total, AccountTotal
<1>5. BalanceMatchesLedger
  <2>1. book = e
    BY DEF Init
  <2> HIDE DEF e
  <2>2. QED
    BY <1>1, <1>4, <2>1 DEF BalanceMatchesLedger, Ledger
<1>6. MembersOK(members) /\ IndexOK(identityIndex)
  BY <1>2 DEF Init, MembersOK, IndexOK
<1>7. ReservationsOK(reservations) /\ AccrualsOK(accruals, book) /\ DOMAIN adjustments \subseteq AdjustmentIds
  BY <1>2 DEF Init, ReservationsOK, AccrualsOK
<1>8. WalletOK(issuedRewards)
  BY <1>2, FS_EmptySet DEF Init, WalletOK
<1>9. QED
  BY <1>3, <1>5, <1>6, <1>7, <1>8, ProgramAssumption DEF Init, Good, TypeOK

LEMMA NextGood ==
  ASSUME Good, [Next]_vars
  PROVE  Kept
<1>1. CASE Next
  BY <1>1, TickKeeps, MemberKeeps, ReadKeeps, AccrualKeeps, IssueKeeps, RedemptionKeeps,
     AdjustmentKeeps, ProgramKeeps DEF Next
<1>2. CASE UNCHANGED vars
  <2>1. OnlyBook /\ book' = book /\ reservations' = reservations
    BY <1>2 DEF vars, OnlyBook, memberVars, walletVars, factVars
  <2>2. QED
    BY <2>1, GoodParts, KeptByBook
<1>3. QED
  BY <1>1, <1>2

LEMMA AlwaysGood == Spec => []Good
<1>1. Init => Good
  BY InitGood
<1>2. Good /\ [Next]_vars => Good'
  BY NextGood DEF Kept
<1>3. QED
  BY <1>1, <1>2, PTL DEF Spec

(* The state of the engine keeps its shape: every id one map keeps of      *)
(* another names something in it, and no lot falls below zero.             *)
THEOREM TypeCorrect == Spec => []TypeOK
<1>1. Good => TypeOK
  BY DEF Good
<1>2. QED
  BY <1>1, AlwaysGood, PTL

(* For every program and every sequence of calls, the balance served for   *)
(* an account is the sum of the account's ledger entries.                  *)
THEOREM BalanceCorrect == Spec => []BalanceMatchesLedger
<1>1. Good => BalanceMatchesLedger
  BY DEF Good
<1>2. QED
  BY <1>1, AlwaysGood, PTL

(* No call rewrites or drops a ledger entry. *)
THEOREM LedgerImmutable == Spec => LedgerAppendOnly
<1>1. Good /\ [Next]_vars => [Continues(book, book')]_vars
  BY NextGood DEF Kept
<1>2. QED
  BY <1>1, AlwaysGood, PTL DEF Spec, LedgerAppendOnly
===============================================================================
