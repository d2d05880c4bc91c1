------------------------------- MODULE MCEngine -------------------------------
(* Small instances of the engine for TLC. *)
EXTENDS EngineProperties, TLC

(* Two members, neither of whose ids is the other one extended; an issued  *)
(* reward and an order.                                                    *)
CONSTANTS alice, alice2, phone, email, i1, o1

(* Orders and redemptions that have one key each are interchangeable. *)
IdSymmetry == Permutations(Redemptions) \cup Permutations(Orders)

(* docs/idempotency.md: the key is derived from the business event.  A     *)
(* caller that lost its key may come back with a second one.               *)
OneKey(x)  == {<<x, 1>>}
TwoKeys(x) == {<<x, 1>>, <<x, 2>>}
RetryIssue(x) == IF x = i1 THEN TwoKeys(x) ELSE OneKey(x)

NoUpdates(p) == {}

Line(n) == [labels |-> {}, eligible |-> TRUE, subtotal |-> n, discount |-> 0]
Gift(n) == [labels |-> {"gift_card"}, eligible |-> TRUE, subtotal |-> n, discount |-> 0]
Order(lines, channel, status) ==
  [lines |-> lines, channel |-> channel, currency |-> "USD", status |-> status]
In(currency, f) == [f EXCEPT !.currency = currency]
Reward(u, c) == [unit |-> u, cost |-> c, from |-> NoExpiry, until |-> NoExpiry, plans |-> {}]
Single(k, v) == [x \in {k} |-> v]
NoFunction == [x \in {} |-> x]
Nothing == {}
NobodyElse == [m \in Members |-> {m}]

OnlyPoints == {"points"}
AllUnits == {"points", "credits", "stamps"}

(* One point for each unit of spend; a lot lives for two ticks, a hold for *)
(* two.                                                                    *)
Points ==
  [currency |-> "USD", units |-> <<"points">>, primary |-> "points", points |-> 1, spend |-> 1,
   creditBps |-> 0, visit |-> None, minSpend |-> 0, channels |-> {"web"}, excluded |-> {},
   days |-> [u \in Units |-> IF u = "points" THEN 2 ELSE 0], ttl |-> 2,
   metric |-> None, period |-> 1, tiers |-> <<>>, plans |-> NoFunction,
   rewards |-> Single("coffee", Reward("points", 1))]
TwoSpent == {Order(<<Line(2)>>, "web", "paid")}

(* Facts of several kinds, most of which earn nothing or something else,   *)
(* for calls that are repeated.                                            *)
Retried == {[Points EXCEPT !.excluded = {"gift_card"}]}
MixedFacts ==
  {Order(<<Line(2)>>, "web", "paid"), Order(<<Line(1), Gift(3)>>, "web", "paid"),
   Order(<<Line(2)>>, "kiosk", "paid"), Order(<<Line(2)>>, "web", "open")}
OneRefund == {[type |-> "full_refund", delta |-> -2, currency |-> "USD"]}
OneManual == {[unit |-> "points", amount |-> 1, expires |-> 3, tier |-> TRUE]}

(* Refunds, corrections and manual adjustments; two points for three units *)
(* of spend, so that rounding shows.                                       *)
Rounding == [Points EXCEPT !.points = 2, !.spend = 3]

(* The programs with tiers are in another currency, in which orders are    *)
(* only refunded in full.  A tier at two points doubles the earnings, and  *)
(* so does a membership.                                                   *)
Tiered ==
  [Points EXCEPT !.currency = "EUR", !.metric = "qualification_earned", !.period = 3,
                 !.tiers = <<[minimum |-> 0, bps |-> Bps], [minimum |-> 2, bps |-> 2 * Bps]>>,
                 !.plans = Single("gold", 2 * Bps), !.days = [u \in Units |-> 0],
                 !.rewards = Single("coffee", [Reward("points", 1) EXCEPT !.plans = {"gold"},
                                                                       !.from = 2, !.until = 3])]
TieredByBalance == [Tiered EXCEPT !.metric = "current_balance", !.days = [u \in Units |-> 1]]
TieredPrograms == {Tiered, TieredByBalance}
RefundPrograms == {Rounding} \cup TieredPrograms
RefundInitial == {Rounding, Tiered}
RefundUpdates(p) == IF p = Tiered THEN {TieredByBalance} ELSE {}
RefundFacts == {Order(<<Line(3)>>, "web", "paid"), In("EUR", Order(<<Line(2)>>, "web", "paid"))}
Refunds == {[type |-> "partial_refund", delta |-> -2, currency |-> "USD"],
            [type |-> "full_refund", delta |-> -3, currency |-> "USD"],
            [type |-> "correction", delta |-> 2, currency |-> "USD"],
            [type |-> "full_refund", delta |-> -2, currency |-> "EUR"]}
Manuals == {[unit |-> "points", amount |-> 2, expires |-> 3, tier |-> TRUE],
            [unit |-> "points", amount |-> -1, expires |-> NoExpiry, tier |-> FALSE]}
GoldUntil3 == {[plan |-> "gold", status |-> "active", until |-> 3]}

(* Stamp cards of two stamps. *)
Card == [unit |-> "stamps", perOrder |-> 3, threshold |-> 2, reward |-> "coffee",
         ttl |-> 2, reset |-> FALSE]
Stamps == [Points EXCEPT !.currency = "GBP", !.units = <<"stamps">>, !.primary = "stamps", !.visit = Card,
                         !.rewards = Single("coffee", Reward("stamps", 2))]
ResetCard == [Stamps EXCEPT !.visit.reset = TRUE]
StampPrograms == {Stamps, ResetCard}
OneStamped == {In("GBP", Order(<<Line(1)>>, "web", "paid"))}

(* A program with a credits account, one that drops the account and one    *)
(* that drops the reward as well.                                          *)
Hybrid == [Points EXCEPT !.currency = "CHF", !.units = <<"points", "credits">>, !.creditBps = Bps,
                         !.days = [u \in Units |-> IF u = "credits" THEN 2 ELSE 0],
                         !.rewards = Single("lunch", Reward("credits", 1))]
PointsForLunch == [Points EXCEPT !.currency = "CHF", !.rewards = Single("lunch", Reward("points", 1)),
                                 !.days = [u \in Units |-> 0]]
NoLunch == [PointsForLunch EXCEPT !.rewards = Single("tea", Reward("points", 9))]
HybridPrograms == {Hybrid, PointsForLunch, NoLunch}
OneInFrancs == {In("CHF", Order(<<Line(1)>>, "web", "paid"))}

(* Issued rewards: a code that expires, and rewards that do not, of a      *)
(* program in another currency, in which no order is posted.               *)
Wallet == [Points EXCEPT !.currency = "EUR", !.rewards = Single("meal", Reward("points", 1))]
PointsOrWallet == {Points, Wallet}
WalletTerms ==
  {[reward |-> "meal", expires |-> 2, artifact |-> "qr"],
   [reward |-> "meal", expires |-> NoExpiry, artifact |-> None]}

(* A program under which members only enroll, read and leave.              *)
Guests == [Points EXCEPT !.currency = "JPY", !.rewards = NoFunction]

(* One order earns, holds and redeems under programs that follow one       *)
(* another; three orders fill stamp cards; guests come under several keys. *)
ScenarioPrograms == {Guests} \cup HybridPrograms \cup StampPrograms
ScenarioInitial == {Guests, Hybrid} \cup StampPrograms
ScenarioUpdates(p) == IF p \in HybridPrograms THEN HybridPrograms \ {p} ELSE {}
ScenarioFacts == OneInFrancs \cup OneStamped
LunchTerms == {[reward |-> "lunch", expires |-> 3, artifact |-> None]}
RetryEnrol(x) == IF x \in Identities THEN TwoKeys(x) ELSE OneKey(x)
Plain == \A x \in DOMAIN idempotency : x[2] \notin ReadKeys /\ x[2][2] = 1
ProgramScenario ==
  CASE program \in HybridPrograms ->
         /\ Plain /\ DOMAIN accruals \subseteq {o1}
         /\ \A r \in DOMAIN reservations : reservations[r].order = o1
    [] program \in StampPrograms -> Plain /\ now <= 1 /\ reservations = << >>
    [] OTHER -> now <= 1

===============================================================================
