--------------------------- MODULE EngineProperties ---------------------------
(***************************************************************************)
(* What the reference engine promises.  The safety invariants and action   *)
(* properties of LoyaltyEngine.                                            *)
(***************************************************************************)
EXTENDS LoyaltyEngine

Statuses == {"reserved", "captured", "reversed", "expired"}
WalletStatuses == {"issued", "redeemed", "cancelled", "expired"}

Ledger == book.ledger
Entries == DOMAIN Ledger

IsReservation(r) ==
  /\ r = [redemption |-> r.redemption, member |-> r.member, reward |-> r.reward,
          issued |-> r.issued, order |-> r.order, status |-> r.status, unit |-> r.unit,
          cost |-> r.cost, expires |-> r.expires]
  /\ r.status \in Statuses /\ r.member \in Members /\ r.unit \in Units /\ r.cost \in Nat

IsIssued(w) ==
  /\ w = [member |-> w.member, reward |-> w.reward, status |-> w.status,
          expires |-> w.expires, artifact |-> w.artifact]
  /\ w.status \in WalletStatuses /\ w.member \in Members

MembersOK(ms) ==
  ms \in [Members -> [status : {None, "active", "closed"},
                     identity : Identities \cup {Erased, None},
                     membership : Memberships \cup {None}]]

IndexOK(index) == \A i \in DOMAIN index : i \in Identities /\ index[i] \in Members

ReservationsOK(rs) == IsSeq(rs) /\ \A r \in 1..Len(rs) : IsReservation(rs[r])

WalletOK(ws) == IsFiniteSet(DOMAIN ws) /\ \A i \in DOMAIN ws : IsIssued(ws[i])

AccrualsOK(acc, b) ==
  /\ DOMAIN acc \subseteq Orders
  /\ \A o \in DOMAIN acc : /\ acc[o].bps \in Int
                           /\ \A i \in 1..Len(acc[o].entries) :
                                acc[o].entries[i] \in 1..Len(b.ledger)

(* The shape of the state: the ids that one map keeps of another name      *)
(* something in it, remainders of lots and costs are never negative.       *)
TypeOK ==
  /\ now \in Nat
  /\ program \in Programs
  /\ MembersOK(members)
  /\ IndexOK(identityIndex)
  /\ IsBook(book)
  /\ ReservationsOK(reservations)
  /\ WalletOK(issuedRewards)
  /\ AccrualsOK(accruals, book)
  /\ DOMAIN adjustments \subseteq AdjustmentIds
-------------------------------------------------------------------------------
(* The ledger *)

(* The balance the engine stores and serves for an account is the sum of   *)
(* the account's ledger entries, whatever expired, was consumed or was     *)
(* restored in between (addLedger keeps `points' beside `ledger').         *)
BalanceMatchesLedger ==
  \A m \in Members, u \in Units : book.points[m][u] = AccountTotal(Ledger, m, u)

(* Ledger history is immutable: a call only ever appends entries. *)
LedgerAppendOnly ==
  [][Continues(book, book')]_vars

(* A paid order earns once in each account, even when it is posted again   *)
(* under other idempotency keys (spec/lifecycle.md, accrual), and every    *)
(* post of it was answered with the same ledger entries.                   *)
AccruedOnce ==
  /\ \A i, j \in Entries :
       /\ Ledger[i].op = "accrual" /\ Ledger[j].op = "accrual"
       /\ Ledger[i].order = Ledger[j].order /\ Ledger[i].unit = Ledger[j].unit
       => i = j
  /\ \A x, y \in DOMAIN idempotency :
       /\ x[1] = "accrual.post" /\ y[1] = "accrual.post"
       /\ idempotency[x].resp.order = idempotency[y].resp.order
       => idempotency[x].resp.entries = idempotency[y].resp.entries

(* An order adjustment never takes back more than what the order still     *)
(* holds: the accrual plus the adjustments so far, when the order was      *)
(* accrued before, does not become negative by a refund, void or           *)
(* correction in any unit.                                                 *)
OrderNet(ledger, o, u) ==
  Total([i \in 1..Len(ledger) |->
           IF ledger[i].order = o /\ ledger[i].op \in {"accrual", "adjustment"} /\ ledger[i].unit = u
           THEN ledger[i].amount ELSE 0])

ClawbackWithinEarnings ==
  [][\A o \in DOMAIN accruals, u \in Units :
       OrderNet(book'.ledger, o, u) < OrderNet(book.ledger, o, u)
         => OrderNet(book'.ledger, o, u) >= 0]_vars

(* spec/account-experience.md: adjustments use "the earning multiplier     *)
(* recorded for the original accrual".  An accrued order that was refunded *)
(* in full, and has only been refunded since its accrual, holds nothing    *)
(* any more, whatever tier or membership its member has had since.         *)
AdjustmentsOf(o) ==
  {x \in DOMAIN adjustments : adjustments[x].fp[1] = "order" /\ adjustments[x].fp[3] = o}

RefundUsesOriginalMultiplier ==
  \A o \in DOMAIN accruals :
    LET Type(x) == adjustments[x].fp[4].type
    IN  /\ \E x \in AdjustmentsOf(o) : Type(x) = "full_refund"
        /\ \A x \in AdjustmentsOf(o) : /\ Type(x) # "correction"
                                       /\ accruals[o].entry < adjustments[x].entry
        => \A u \in Units : OrderNet(Ledger, o, u) = 0
-------------------------------------------------------------------------------
(* Point lots *)

Consumed(i) ==
  Total([r \in 1..Len(reservations) |->
           IF r \in DOMAIN book.consumptions
           THEN IF i \in DOMAIN book.consumptions[r] THEN book.consumptions[r][i] ELSE 0
           ELSE 0])

ExpiredFrom(i) ==
  Total([j \in 1..Len(Ledger) |->
           IF Ledger[j].op = "expiration" /\ Ledger[j].ref = i THEN -Ledger[j].amount ELSE 0])

(* No point of a lot is used twice: what is left of the lot, what captured *)
(* redemptions took from it and what expired from it never add up to more  *)
(* than the entry that opened it (capture, reverse and expiry interleave). *)
LotsConserved ==
  \A i \in DOMAIN book.lots :
    book.lots[i] + Consumed(i) + ExpiredFrom(i) <= Ledger[i].amount
-------------------------------------------------------------------------------
(* Redemption *)

Posted(r, op) == {i \in Entries : Ledger[i].op = op /\ Ledger[i].ref = r}

(* A redemption is debited once and credited back at most once, and its    *)
(* status says which: nothing is posted for a reserved or expired one,     *)
(* the cost is debited when it is captured, and a reversal cancels exactly *)
(* the debit that was posted.                                              *)
RedemptionSettledOnce ==
  \A r \in DOMAIN reservations :
    LET res    == reservations[r]
        debit  == Posted(r, "redemption")
        credit == Posted(r, "reversal")
    IN  /\ Cardinality(debit) <= 1 /\ Cardinality(credit) <= 1
        /\ res.status \in {"reserved", "expired"} => debit = {} /\ credit = {}
        /\ res.status = "captured" /\ res.cost > 0 => debit # {} /\ credit = {}
        /\ res.status = "reversed" => (debit = {} <=> credit = {})
        /\ \A i \in debit : Ledger[i].amount = -res.cost
        /\ \A i \in credit : Ledger[i].amount = res.cost
-------------------------------------------------------------------------------
(* Issued rewards *)

(* While a reservation holds an issued reward the reward can neither       *)
(* expire nor be cancelled nor be redeemed by another reservation, so the  *)
(* check capture makes after it set the status never fails half-way.       *)
HeldRewardClaimable ==
  \A r \in DOMAIN reservations :
    reservations[r].status = "reserved" /\ reservations[r].issued # None
      => issuedRewards[reservations[r].issued].status = "issued"

(* At most one reservation holds an issued reward, and a redeemed one was  *)
(* redeemed by exactly one captured reservation: an issued reward buys one *)
(* redemption.                                                             *)
IssuedRewardUsedOnce ==
  \A i \in DOMAIN issuedRewards :
    LET taken == {r \in DOMAIN reservations : /\ reservations[r].issued = i
                                              /\ reservations[r].status \in {"reserved", "captured"}}
    IN  /\ Cardinality(taken) <= 1
        /\ issuedRewards[i].status = "redeemed"
             <=> \E r \in taken : reservations[r].status = "captured"

(* An issued reward that was never claimed keeps its catalog reward: no    *)
(* published program leaves the member with a reward that cannot be        *)
(* reserved (reconfigureProgram, "cannot be removed").                     *)
IssuedRewardOffered ==
  \A i \in DOMAIN issuedRewards :
    /\ issuedRewards[i].status = "issued"
    /\ \A r \in DOMAIN reservations : reservations[r].issued # i
    => issuedRewards[i].reward \in DOMAIN program.rewards

(* No points are stranded: nobody has a positive balance in an account     *)
(* that the program no longer has, where it could be neither spent nor     *)
(* shown, whatever is reversed, corrected or expires after the account was *)
(* dropped (reconfigureProgram, addLedger).  The balance may be below      *)
(* zero: a refund that took more than there was leaves lots open beside a  *)
(* balance of zero, and they still expire when the account is gone.        *)
NothingStranded ==
  \A m \in Members, u \in Units \ UnitSet(program) : book.points[m][u] <= 0

StampRewards(m) == Cardinality({i \in DOMAIN issuedRewards : i \notin IssuedIds /\ i[1] = m})

StampsEarned(m) ==
  Total([i \in 1..Len(Ledger) |->
           IF Ledger[i].member = m /\ Ledger[i].op = "accrual" /\ Ledger[i].unit = program.visit.unit
           THEN Ledger[i].amount ELSE 0])

(* Each stamp card filled by the member's own accruals has been rewarded:  *)
(* after an accrual there are as many stamp rewards in the member's name   *)
(* as its accruals have filled cards (issueThresholdRewards).              *)
StampRewardsEarned ==
  \A m \in Members :
    program.visit # None => StampRewards(m) = StampsEarned(m) \div program.visit.threshold
-------------------------------------------------------------------------------
(* Members *)

(* After erasure nothing the engine keeps still links the member to an     *)
(* external identity: neither the index nor a cached response, so a replay *)
(* cannot show it either.                                                  *)
ErasedUnlinkable ==
  \A m \in Members : members[m].identity = Erased =>
    /\ \A i \in DOMAIN identityIndex : identityIndex[i] # m
    /\ \A x \in DOMAIN idempotency :
         LET resp == idempotency[x].resp
         IN  "member" \in DOMAIN resp => (resp.member = m => resp.identity = Erased)
===============================================================================
