----------------------------- MODULE ProgramRules -----------------------------
(***************************************************************************)
(* What a published program says about one order or one reward: the pure   *)
(* calculations of LoyaltyEngine (packages/reference/src/engine.ts) that   *)
(* read the program definition p and no other state.                       *)
(*                                                                         *)
(* A program is a record:                                                  *)
(*   currency    the currency of the orders it accepts                     *)
(*   units       the account units, in the order of program.accounts       *)
(*   primary     the unit of the primary account                           *)
(*   points,spend  earn_rate: `points' for every `spend' minor units       *)
(*   creditBps   wallet_credit_policy.earn_bps                             *)
(*   visit       visit_stamp_policy or None                                *)
(*   minSpend, channels, excluded    earning_policy                        *)
(*   days        expiry of a lot, per unit, in ticks (0: never)            *)
(*   ttl         reservation_ttl_seconds, in ticks                         *)
(*   metric      the source of the tier qualification metric               *)
(*   period      the length of a qualification period, in ticks            *)
(*   tiers       the tier ladder, in ascending order of `minimum'          *)
(*   plans       membership plan id -> earn_multiplier_bps                 *)
(*   rewards     reward id -> [unit, cost, from, until, plans]             *)
(* An order is its facts: [lines, channel, currency, status]; a line is    *)
(* [labels, eligible, subtotal, discount], where `labels' stands for the   *)
(* product, category, tag and kind the exclusions of the program name.     *)
(***************************************************************************)
EXTENDS LedgerBook

Bps == 10000

UnitSet(p) == {p.units[i] : i \in DOMAIN p.units}

(* isEligibleLine *)
IsEligibleLine(p, line) == line.eligible /\ line.labels \cap p.excluded = {}

(* eligibleSpend *)
EligibleSpend(p, facts) ==
  Total([i \in 1..Len(facts.lines) |->
           IF IsEligibleLine(p, facts.lines[i])
           THEN facts.lines[i].subtotal - facts.lines[i].discount ELSE 0])

NonNegative(n) == IF n < 0 THEN 0 ELSE n

(* amountForUnit: what `spend' earns in unit u, rounded down; visits and   *)
(* stamps earn per order.                                                  *)
AmountForUnit(p, u, spend, bps) ==
  CASE u = "credits"             -> (NonNegative(spend) * p.creditBps) \div Bps
    [] u \in {"visits","stamps"} -> p.visit.perOrder
    [] OTHER                     -> (NonNegative(spend) * p.points * bps) \div (p.spend * Bps)

(* pointsForSignedSpend: the magnitude is rounded down, then signed. *)
PointsForSignedSpend(p, u, delta, bps) ==
  IF delta < 0 THEN -AmountForUnit(p, u, -delta, bps)
               ELSE AmountForUnit(p, u, delta, bps)

(* accrualAmounts, for one unit: an order in another channel, or below the *)
(* minimum spend, earns nothing.                                           *)
AccrualAmount(p, u, facts, bps) ==
  IF facts.channel \notin p.channels \/ EligibleSpend(p, facts) < p.minSpend
  THEN 0
  ELSE AmountForUnit(p, u, EligibleSpend(p, facts), bps)

(* isInCurrentQualificationPeriod, with periods of p.period ticks for the  *)
(* calendar years of the program's time zone.                              *)
SamePeriod(p, t, now) == t \div p.period = now \div p.period

(* accountMetrics, for the tier metric, from the ledger or, for a          *)
(* current_balance metric, the stored points balance.                      *)
CountsForMetric(p, e, m, now) ==
  /\ e.member = m
  /\ e.unit = "points"
  /\ e.op \in {"accrual", "adjustment", "manual"}
  /\ p.metric = "qualification_earned" =>
       SamePeriod(p, e.at, now) /\ (e.op = "manual" => e.tier)

TierMetric(p, b, m, now) ==
  IF p.metric = "current_balance" THEN b.points[m]["points"]
  ELSE Total([i \in 1..Len(b.ledger) |->
                IF CountsForMetric(p, b.ledger[i], m, now) THEN b.ledger[i].amount ELSE 0])

(* tierProgress and tierMultiplierBps: the multiplier of the highest tier  *)
(* reached; 1 for a program without tiers.                                 *)
CurrentTier(p, amount) ==
  CHOOSE i \in DOMAIN p.tiers :
    /\ p.tiers[i].minimum <= NonNegative(amount)
    /\ \A j \in DOMAIN p.tiers : p.tiers[j].minimum <= NonNegative(amount) => j <= i

TierMultiplierBps(p, amount) ==
  IF p.tiers = <<>> THEN Bps ELSE p.tiers[CurrentTier(p, amount)].bps

(* activeMembershipPlan: the plan of a membership that is still valid. *)
ActivePlan(p, membership, now) ==
  IF /\ membership # None
     /\ membership.status = "active"
     /\ membership.until > now
     /\ membership.plan \in DOMAIN p.plans
  THEN membership.plan ELSE None

(* earningMultiplierBps *)
EarningMultiplierBps(p, b, m, membership, now) ==
  LET plan == ActivePlan(p, membership, now)
  IN  (TierMultiplierBps(p, TierMetric(p, b, m, now)) *
         (IF plan = None THEN Bps ELSE p.plans[plan])) \div Bps

(* membershipUnavailable *)
MembershipUnavailable(p, r, membership, now) ==
  /\ p.rewards[r].plans # {}
  /\ ActivePlan(p, membership, now) \notin p.rewards[r].plans

(* rewardWindowReason is undefined: the reward can be redeemed now. *)
InWindow(p, r, now) ==
  /\ p.rewards[r].from = NoExpiry \/ p.rewards[r].from <= now
  /\ p.rewards[r].until = NoExpiry \/ now <= p.rewards[r].until

(* pointExpirationIso, or no expiry: expirationPolicy knows only points    *)
(* and credits.                                                            *)
LotExpiry(p, u, now) ==
  IF u \in {"points", "credits"} /\ p.days[u] > 0 THEN now + p.days[u] ELSE NoExpiry
-------------------------------------------------------------------------------
(* assertProgram: what the constructor of the engine, and every            *)
(* reconfiguration, require of a program.  minimum, bps, days and period   *)
(* are numbers by the schema of a program definition.                      *)
UnitsValid(p) ==
  /\ IsSeq(p.units) /\ UnitSet(p) \subseteq Units
  /\ \A i, j \in DOMAIN p.units : p.units[i] = p.units[j] => i = j
  /\ p.primary \in UnitSet(p)
  /\ ~({"visits", "stamps"} \subseteq UnitSet(p))

TiersValid(p) ==
  /\ IsSeq(p.tiers) /\ p.period \in Nat \ {0}
  /\ \A i \in DOMAIN p.tiers : p.tiers[i].minimum \in Nat /\ p.tiers[i].bps \in Nat
  /\ \A i, j \in DOMAIN p.tiers : i < j => p.tiers[i].minimum < p.tiers[j].minimum
  /\ p.tiers # <<>> => /\ "points" \in UnitSet(p) /\ p.tiers[1].minimum = 0
                       /\ p.metric \in {"current_balance", "lifetime_earned", "qualification_earned"}

RewardsValid(p) ==
  \A r \in DOMAIN p.rewards :
    /\ p.rewards[r].cost \in Nat /\ p.rewards[r].unit \in UnitSet(p)
    /\ NoExpiry \in {p.rewards[r].from, p.rewards[r].until} \/ p.rewards[r].from <= p.rewards[r].until

CardValid(p) ==
  IF UnitSet(p) \cap {"visits", "stamps"} = {} THEN p.visit = None
  ELSE /\ p.visit # None
       /\ p.visit.unit \in UnitSet(p) \cap {"visits", "stamps"}
       /\ p.visit.perOrder \in Nat \ {0} /\ p.visit.threshold \in Nat \ {0}
       /\ p.visit.reward \in DOMAIN p.rewards
       /\ p.visit.ttl \in Nat /\ p.visit.reset \in BOOLEAN

AssertProgram(p) ==
  /\ p.points \in Nat /\ p.spend \in Nat \ {0}
  /\ p.minSpend \in Nat /\ p.channels # {}
  /\ p.ttl \in Nat \ {0} /\ p.days \in [Units -> Nat]
  /\ UnitsValid(p) /\ TiersValid(p) /\ RewardsValid(p) /\ CardValid(p)
  /\ "credits" \in UnitSet(p) => p.creditBps \in 1..Bps
  /\ \A plan \in DOMAIN p.plans : p.plans[plan] \in Nat \ {0}
===============================================================================
