---------------------------- MODULE LoyaltyEngine ----------------------------
(***************************************************************************)
(* The reference loyalty engine, class LoyaltyEngine of                    *)
(* packages/reference/src/engine.ts.  Every public method is synchronous,  *)
(* so a call is one action; a method that first looks for an earlier call  *)
(* with the same business id is split into the first call and the ...Again *)
(* action.  The clock only moves between calls.                            *)
(*                                                                         *)
(* Expiry is lazy: no timer runs, and the calls that read a balance expire *)
(* the overdue reservations and lots they come across.  A call that throws *)
(* keeps those expirations, so the rejected calls that have any effect are *)
(* actions too.  A rejected call without effect is a stuttering step, and  *)
(* so is the replay of an idempotency key.                                 *)
(***************************************************************************)
EXTENDS ProgramRules

CONSTANTS
  Programs,        \* program definitions
  InitialPrograms, \* those the engine may be created with
  Updates(_),      \* those that may be published over a program
  Identities,      \* external identities a member may enroll with
  Erased,          \* the pseudonymous identity that eraseMember leaves
  Memberships,     \* values of the membership attribute
  Orders, Facts,   \* order ids, and the order facts a caller may send
  Redemptions,     \* redemption ids
  IssuedIds,       \* issued reward ids chosen by callers
  IssueTerms,      \* [reward, expires, artifact] of a directly issued reward
  AdjustmentIds,
  OrderAdjustments,   \* [type, delta, currency] of order.adjust
  ManualAdjustments,  \* [unit, amount, expires, tier] of ledger.manual
  KeysFor(_),      \* the idempotency keys a caller may send with a business id
  ReadKeys,        \* idempotency keys of the reads
  Namesakes,       \* member -> the members whose id is its own or extends it with "-..."
  MaxTime          \* bound of the clock

(* Programs have been validated, and requests have passed the schemas of   *)
(* the protocol package.                                                   *)
ASSUME ProgramAssumption ==
  /\ InitialPrograms \subseteq Programs
  /\ \A p \in Programs : AssertProgram(p) /\ Updates(p) \subseteq Programs

ASSUME RequestAssumption ==
  /\ \A f \in Facts : /\ IsSeq(f.lines)
                      /\ \A i \in DOMAIN f.lines : /\ f.lines[i].subtotal \in Nat
                                                  /\ f.lines[i].discount \in Nat
  /\ \A a \in OrderAdjustments : a.delta \in Int
  /\ \A a \in ManualAdjustments : a.amount \in Int /\ a.expires \in Nat

ASSUME TimeAssumption == MaxTime \in Nat

(* Ids of different kinds differ, as the ids of the code do: the id of a   *)
(* stamp reward is made of the member and the number of its card.          *)
ASSUME IdAssumption ==
  /\ None \notin Members \cup Orders \cup IssuedIds \cup {"active", "closed"}
  /\ None \notin Members \X Nat
  /\ \A i \in IssuedIds : i \notin Members \X Nat
  /\ \A m \in Members : m \in Namesakes[m]
  /\ Erased \notin Identities

VARIABLES
  now,             \* the clock, in ticks
  program,         \* the published program
  members,         \* member id -> [status, identity, membership]
  identityIndex,   \* identity -> member id
  book,            \* the ledger: see LedgerBook
  reservations,    \* reservation id (position) -> reservation
  byRedemption,    \* redemption id -> [reservation, fp]
  issuedRewards,   \* issued reward id -> issued reward
  accruals,        \* order id -> [entry, entries, fp, bps]
  adjustments,     \* adjustment id -> [entry, fp]
  idempotency      \* <<operation, key>> -> [fp, resp]

memberVars == <<members, identityIndex>>
walletVars == <<reservations, byRedemption, issuedRewards>>
factVars   == <<accruals, adjustments>>
vars == <<now, program, memberVars, book, walletVars, factVars, idempotency>>

Put(f, k, v) == [x \in DOMAIN f \cup {k} |-> IF x = k THEN v ELSE f[x]]

Init ==
  /\ now = 1
  /\ program \in InitialPrograms
  /\ members = [m \in Members |-> [status |-> None, identity |-> None, membership |-> None]]
  /\ identityIndex = <<>>
  /\ book = EmptyBook
  /\ reservations = <<>> /\ byRedemption = <<>> /\ issuedRewards = <<>>
  /\ accruals = <<>> /\ adjustments = <<>>
  /\ idempotency = <<>>

Tick == now < MaxTime /\ now' = now + 1
        /\ UNCHANGED <<program, memberVars, book, walletVars, factVars, idempotency>>
-------------------------------------------------------------------------------
(* once: the first successful call under a key runs and its response is    *)
(* kept; a failed call leaves the key free.                                *)
Fresh(op, k) == <<op, k>> \notin DOMAIN idempotency

Remember(op, k, fp, resp) ==
  idempotency' = Put(idempotency, <<op, k>>, [fp |-> fp, resp |-> resp])

Active(m) == members[m].status = "active"

(* expireReservation and expireAllReservations *)
Overdue(r) == r.status = "reserved" /\ r.expires <= now
LiveHoldUnchecked(r) == r.status \in {"reserved", "captured"} /\ ~Overdue(r)
LiveHold(r) == r.status = "reserved" /\ ~Overdue(r)
LapsedOne(r) == IF Overdue(r) THEN [r EXCEPT !.status = "expired"] ELSE r
Lapsed == [i \in DOMAIN reservations |-> LapsedOne(reservations[i])]

(* expireIssuedReward: an overdue issued reward expires unless a           *)
(* reservation in status reserved, overdue or not, still names it.         *)
HeldByCaptured(rs, i) == {r \in DOMAIN rs : rs[r].issued = i /\ rs[r].status = "captured"}
HeldBy(rs, i) == {r \in DOMAIN rs : rs[r].issued = i /\ rs[r].status = "reserved"}
ExpiredIssuedThoughHeld(i) ==
  LET w == issuedRewards[i]
  IN  IF w.status = "issued" /\ w.expires # NoExpiry /\ w.expires <= now
      THEN [w EXCEPT !.status = "expired"] ELSE w
ExpiredIssued(i) ==
  LET w == issuedRewards[i]
  IN  IF /\ w.status = "issued" /\ w.expires # NoExpiry /\ w.expires <= now
         /\ HeldBy(reservations, i) = {}
      THEN [w EXCEPT !.status = "expired"] ELSE w

(* balance(m, u) and balances(m), the sweeps of the lots: the overdue      *)
(* reservations of every member lapse with either.                         *)
Balance(b, m, u) == ExpirePointLots(b, {m}, {u}, now)
Balances(b, m)   == ExpirePointLots(b, {m}, UnitSet(program), now)

Held(rs, m, u) ==
  Total([i \in 1..Len(rs) |->
           IF rs[i].member = m /\ rs[i].status = "reserved" /\ rs[i].unit = u
           THEN rs[i].cost ELSE 0])

(* memberSnapshot computes the tier, and a current_balance metric reads    *)
(* the balance to do so.                                                   *)
ReadsBalance == program.metric = "current_balance"
MetricBook(m) == IF ReadsBalance THEN Balance(book, m, "points") ELSE book
MetricReservations == IF ReadsBalance THEN Lapsed ELSE reservations

Snapshot(m) == [member |-> m, identity |-> members[m].identity, status |-> members[m].status]
NoMember == [member |-> None, identity |-> None, status |-> None]

(* The effect of every response that carries the balances of member m. *)
ReportBalances(b, m) ==
  /\ book' = Balances(b, m)
  /\ reservations' = Lapsed
-------------------------------------------------------------------------------
(* Members *)

Lookup(k, i) ==
  LET m == IF i \in DOMAIN identityIndex THEN identityIndex[i] ELSE None
  IN  /\ Fresh("member.lookup", k)
      /\ IF m = None THEN UNCHANGED <<book, reservations>> ELSE ReportBalances(book, m)
      /\ Remember("member.lookup", k, i, IF m = None THEN NoMember ELSE Snapshot(m))
      /\ UNCHANGED <<now, program, memberVars, byRedemption, issuedRewards, factVars>>

Enroll(k, i, m) ==
  /\ Fresh("member.enroll", k)
  /\ i \notin DOMAIN identityIndex
  /\ members[m].status = None
  /\ members' = [members EXCEPT ![m] = [status |-> "active", identity |-> i, membership |-> None]]
  /\ identityIndex' = Put(identityIndex, i, m)
  /\ ReportBalances(book, m)
  /\ Remember("member.enroll", k, <<i, m>>, [member |-> m, identity |-> i, status |-> "active"])
  /\ UNCHANGED <<now, program, byRedemption, issuedRewards, factVars>>

EnrollAgain(k, i, m) ==
  /\ Fresh("member.enroll", k)
  /\ i \in DOMAIN identityIndex
  /\ Active(identityIndex[i])
  /\ ReportBalances(book, identityIndex[i])
  /\ Remember("member.enroll", k, <<i, m>>, Snapshot(identityIndex[i]))
  /\ UNCHANGED <<now, program, memberVars, byRedemption, issuedRewards, factVars>>

CancelMember(m) ==
  /\ members[m].status # None
  /\ members' = [members EXCEPT ![m].status = "closed"]
  /\ book' = MetricBook(m) /\ reservations' = MetricReservations
  /\ UNCHANGED <<now, program, identityIndex, byRedemption, issuedRewards, factVars, idempotency>>

(* eraseMember: the identity leaves the index, the member is closed under  *)
(* a pseudonym, and the cached responses that show it are rewritten.       *)
IndexWithout(i) == [j \in DOMAIN identityIndex \ {i} |-> identityIndex[j]]

ScrubbedIfOpen(resp, m) ==
  IF "member" \in DOMAIN resp /\ resp.member = m /\ resp.status = "active"
  THEN [member |-> m, identity |-> Erased, status |-> "closed"] ELSE resp
Scrubbed(resp, m) ==
  IF "member" \in DOMAIN resp /\ resp.member = m
  THEN [member |-> m, identity |-> Erased, status |-> "closed"] ELSE resp

EraseMember(m) ==
  /\ members[m].status # None
  /\ members' = [members EXCEPT ![m] = [status |-> "closed", identity |-> Erased,
                                        membership |-> None]]
  /\ identityIndex' = IndexWithout(members[m].identity)
  /\ idempotency' = [x \in DOMAIN idempotency |->
                       [idempotency[x] EXCEPT !.resp = Scrubbed(@, m)]]
  /\ book' = MetricBook(m) /\ reservations' = MetricReservations
  /\ UNCHANGED <<now, program, byRedemption, issuedRewards, factVars>>

(* inspectMemberErasure reads the snapshot of a member. *)
InspectMemberErasure(m) ==
  /\ members[m].status # None
  /\ book' = MetricBook(m) /\ reservations' = MetricReservations
  /\ UNCHANGED <<now, program, memberVars, byRedemption, issuedRewards, factVars, idempotency>>

SetMemberMembership(m, value) ==
  /\ members[m].status # None
  /\ members' = [members EXCEPT ![m].membership = value]
  /\ book' = MetricBook(m) /\ reservations' = MetricReservations
  /\ UNCHANGED <<now, program, identityIndex, byRedemption, issuedRewards, factVars, idempotency>>
-------------------------------------------------------------------------------
(* Reads.  They too expire what they come across, and are cached. *)

(* assertOrder, of a well-formed order of the member *)
AssertOrder(f) == f.currency = program.currency

Evaluate(k, m, f) ==
  /\ Fresh("order.evaluate", k) /\ Active(m) /\ AssertOrder(f)
  /\ ReportBalances(book, m)
  /\ Remember("order.evaluate", k, <<m, f>>, [evaluated |-> m])
  /\ UNCHANGED <<now, program, memberVars, byRedemption, issuedRewards, factVars>>

GetAccount(k, m) ==
  /\ Fresh("account.get", k) /\ Active(m)
  /\ ReportBalances(ExpirePointLots(book, {m}, Units, now), m)
  /\ Remember("account.get", k, m, Snapshot(m))
  /\ UNCHANGED <<now, program, memberVars, byRedemption, issuedRewards, factVars>>

ListLedger(k, m) ==
  /\ Fresh("ledger.list", k) /\ Active(m)
  /\ book' = ExpirePointLots(book, {m}, Units, now)
  /\ Remember("ledger.list", k, m, [listed |-> Len(book'.ledger)])
  /\ UNCHANGED <<now, program, memberVars, walletVars, factVars>>

GetProgram(k) ==
  /\ Fresh("program.get", k)
  /\ Remember("program.get", k, None, [catalog |-> program])
  /\ UNCHANGED <<now, program, memberVars, book, walletVars, factVars>>

GetLedger ==
  /\ book' = ExpirePointLots(book, Members, Units, now)
  /\ UNCHANGED <<now, program, memberVars, walletVars, factVars, idempotency>>

(* inspectAdmin, inspectLedger: everything overdue expires. *)
Inspect ==
  /\ book' = ExpirePointLots(book, Members, Units, now)
  /\ reservations' = Lapsed
  /\ UNCHANGED <<now, program, memberVars, byRedemption, issuedRewards, factVars, idempotency>>
-------------------------------------------------------------------------------
(* Accrual and stamp cards *)

AccrualEntry(m, o, f, u, bps) ==
  LET amount == AccrualAmount(program, u, f, bps)
  IN  [member |-> m, op |-> "accrual", unit |-> u, amount |-> amount, at |-> now,
       expires |-> IF amount > 0 THEN LotExpiry(program, u, now) ELSE NoExpiry,
       tier |-> TRUE, order |-> o, ref |-> None]

ResetEntry(m, stamp) ==
  [member |-> m, op |-> "adjustment", unit |-> program.visit.unit,
   amount |-> -program.visit.threshold, at |-> now, expires |-> NoExpiry,
   tier |-> FALSE, order |-> None, ref |-> stamp]

(* issueThresholdRewards: the rewards already issued to m are counted by   *)
(* the prefix `stamp-<m>-' of their ids.                                   *)
StampId(m, cycle) == <<m, cycle>>

IssuedCycles(m) ==
  Cardinality({i \in DOMAIN issuedRewards : i \notin IssuedIds /\ i[1] \in Namesakes[m]})

EligibleCycles(b, m) ==
  LET v == program.visit
  IN  IF v.reset
      THEN b.points[m][v.unit] \div v.threshold + IssuedCycles(m)
      ELSE Total([i \in 1..Len(b.ledger) |->
                    IF b.ledger[i].member = m /\ b.ledger[i].op = "accrual" /\ b.ledger[i].unit = v.unit
                    THEN NonNegative(b.ledger[i].amount) ELSE 0]) \div v.threshold

StampSweep(b, m) ==
  IF program.visit # None /\ program.visit.reset THEN Balance(b, m, program.visit.unit) ELSE b

NewCyclesOneByOne(b, m) ==
  IF program.visit = None \/ EligibleCycles(b, m) <= IssuedCycles(m) THEN {}
  ELSE {IssuedCycles(m) + 1}
NewCycles(b, m) ==
  IF program.visit = None THEN {} ELSE IssuedCycles(m) + 1 .. EligibleCycles(b, m)

StampReward(m) ==
  [member |-> m, reward |-> program.visit.reward, status |-> "issued",
   expires |-> IF program.visit.ttl = 0 THEN NoExpiry ELSE now + program.visit.ttl,
   artifact |-> None]

ResetStamps(b, m, cycles) ==
  IF program.visit = None THEN b
  ELSE IF ~program.visit.reset THEN b
  ELSE LET first == IssuedCycles(m)
       IN  AddLedger(b, [i \in 1..Cardinality(cycles) |-> ResetEntry(m, StampId(m, first + i))])

AccruedUnchecked(o) == FALSE
Accrued(o) == o \in DOMAIN accruals

PostAccrual(k, m, o, f) ==
  /\ Fresh("accrual.post", k)
  /\ Active(m) /\ AssertOrder(f) /\ f.status = "paid"
  /\ ~Accrued(o)
  /\ LET b0     == MetricBook(m)
         bps    == EarningMultiplierBps(program, b0, m, members[m].membership, now)
         es     == [i \in 1..Len(program.units) |-> AccrualEntry(m, o, f, program.units[i], bps)]
         ids    == [i \in 1..Len(program.units) |-> Len(b0.ledger) + i]
         main   == CHOOSE i \in 1..Len(program.units) : program.units[i] = program.primary
         b1     == StampSweep(AddLedger(b0, es), m)
         cycles == NewCycles(b1, m)
         stamps == {StampId(m, c) : c \in cycles}
     IN  /\ accruals' = Put(accruals, o, [entry |-> ids[main], entries |-> ids,
                                          fp |-> <<m, f>>, bps |-> bps])
         /\ issuedRewards' = [i \in DOMAIN issuedRewards \cup stamps |->
                                IF i \in stamps THEN StampReward(m) ELSE issuedRewards[i]]
         /\ ReportBalances(ResetStamps(b1, m, cycles), m)
         /\ idempotency' =
              [x \in DOMAIN idempotency \cup {<<"accrual.post", k>>}
                                       \cup {<<"issued_reward.issue", i>> : i \in stamps} |->
                 IF x = <<"accrual.post", k>>
                 THEN [fp |-> <<m, o, f>>, resp |-> [order |-> o, entries |-> ids]]
                 ELSE IF x \in DOMAIN idempotency THEN idempotency[x]
                 ELSE [fp |-> <<x[2], StampReward(m)>>, resp |-> [issued |-> x[2], status |-> "issued"]]]
  /\ UNCHANGED <<now, program, memberVars, byRedemption, adjustments>>

PostAccrualAgain(k, m, o, f) ==
  /\ Fresh("accrual.post", k)
  /\ Active(m) /\ AssertOrder(f) /\ f.status = "paid"
  /\ Accrued(o) /\ accruals[o].fp = <<m, f>>
  /\ ReportBalances(book, m)
  /\ Remember("accrual.post", k, <<m, o, f>>, [order |-> o, entries |-> accruals[o].entries])
  /\ UNCHANGED <<now, program, memberVars, byRedemption, issuedRewards, factVars>>
-------------------------------------------------------------------------------
(* Issued rewards.  w is the content of the request: [reward, expires,     *)
(* artifact], with an absolute expiry.                                     *)

IssuedReward(m, w) ==
  [member |-> m, reward |-> w.reward, status |-> "issued",
   expires |-> w.expires, artifact |-> w.artifact]

Issuable(m, w) ==
  /\ Active(m)
  /\ w.reward \in DOMAIN program.rewards
  /\ w.expires = NoExpiry \/ w.expires > now

(* Codes and QR values are unique, whatever became of the reward. *)
ArtifactFree(w) ==
  w.artifact # None => \A j \in DOMAIN issuedRewards : issuedRewards[j].artifact # w.artifact

IssueReward(k, i, m, w) ==
  /\ Fresh("issued_reward.issue", k)
  /\ Issuable(m, w)
  /\ i \notin DOMAIN issuedRewards
  /\ ArtifactFree(w)
  /\ issuedRewards' = Put(issuedRewards, i, IssuedReward(m, w))
  /\ Remember("issued_reward.issue", k, <<i, m, w>>, [issued |-> i, status |-> "issued"])
  /\ UNCHANGED <<now, program, memberVars, book, reservations, byRedemption, factVars>>

IssueRewardAgain(k, i, m, w) ==
  /\ Fresh("issued_reward.issue", k)
  /\ Issuable(m, w)
  /\ i \in DOMAIN issuedRewards
  /\ IssuedReward(m, w) = [issuedRewards[i] EXCEPT !.status = "issued"]
  /\ Remember("issued_reward.issue", k, <<i, m, w>>,
              [issued |-> i, status |-> issuedRewards[i].status])
  /\ UNCHANGED <<now, program, memberVars, book, walletVars, factVars>>

ListIssuedRewards(k, m) ==
  /\ Fresh("issued_reward.list", k) /\ Active(m)
  /\ issuedRewards' = [i \in DOMAIN issuedRewards |->
                         IF issuedRewards[i].member = m THEN ExpiredIssued(i) ELSE issuedRewards[i]]
  /\ Remember("issued_reward.list", k, m, [listed |-> m])
  /\ UNCHANGED <<now, program, memberVars, book, reservations, byRedemption, factVars>>

(* cancelIssuedReward; the member need not be active, and a cancelled      *)
(* reward may be cancelled again.                                          *)
CancelIssuedReward(k, i) ==
  /\ Fresh("issued_reward.cancel", k)
  /\ i \in DOMAIN issuedRewards
  /\ \/ issuedRewards[i].status = "cancelled"
     \/ ExpiredIssued(i).status = "issued" /\ HeldBy(reservations, i) = {}
  /\ issuedRewards' = [issuedRewards EXCEPT ![i].status = "cancelled"]
  /\ Remember("issued_reward.cancel", k, i, [issued |-> i, status |-> "cancelled"])
  /\ UNCHANGED <<now, program, memberVars, book, reservations, byRedemption, factVars>>

(* A rejected cancel or reserve of an issued reward that is overdue. *)
RejectOverdueReward(i) ==
  /\ i \in DOMAIN issuedRewards
  /\ ExpiredIssued(i) # issuedRewards[i]
  /\ issuedRewards' = [issuedRewards EXCEPT ![i] = ExpiredIssued(i)]
  /\ UNCHANGED <<now, program, memberVars, book, reservations, byRedemption, factVars, idempotency>>
-------------------------------------------------------------------------------
(* Redemption.  The order facts a reservation is requested with stand      *)
(* behind the order id: the engine only fingerprints them.                 *)

AddReservation(k, m, rd, rw, o, i, b) ==
  LET r   == Len(reservations) + 1
      res == [redemption |-> rd, member |-> m, reward |-> rw, issued |-> i, order |-> o,
              status |-> "reserved", unit |-> program.rewards[rw].unit,
              cost |-> IF i = None THEN program.rewards[rw].cost ELSE 0,
              expires |-> now + program.ttl]
  IN  /\ reservations' = Append(Lapsed, res)
      /\ byRedemption' = Put(byRedemption, rd, [reservation |-> r, fp |-> <<m, rw, i, o>>])
      /\ book' = Balances(b, m)
      /\ Remember("redemption.reserve", k, <<rd, m, rw, i, o>>,
                  [reservation |-> r, status |-> "reserved"])

Requested(rd) == rd \in DOMAIN byRedemption

Redeemable(k, m, rd, rw) ==
  /\ Fresh("redemption.reserve", k)
  /\ Active(m)
  /\ ~Requested(rd)
  /\ rw \in DOMAIN program.rewards
  /\ InWindow(program, rw, now)

(* reserve, paid from the balance *)
Reserve(k, m, rd, rw, o) ==
  /\ Redeemable(k, m, rd, rw)
  /\ ~MembershipUnavailable(program, rw, members[m].membership, now)
  /\ LET u == program.rewards[rw].unit
         b == Balance(book, m, u)
     IN  /\ b.points[m][u] - Held(Lapsed, m, u) >= program.rewards[rw].cost
         /\ AddReservation(k, m, rd, rw, o, None, b)
  /\ UNCHANGED <<now, program, memberVars, issuedRewards, factVars>>

(* reserve of an issued reward *)
ReserveIssued(k, m, rd, rw, o, i) ==
  /\ Redeemable(k, m, rd, rw)
  /\ i \in DOMAIN issuedRewards
  /\ issuedRewards[i].member = m /\ issuedRewards[i].reward = rw
  /\ ExpiredIssued(i).status = "issued"
  /\ HeldBy(reservations, i) = {}
  /\ AddReservation(k, m, rd, rw, o, i, book)
  /\ UNCHANGED <<now, program, memberVars, issuedRewards, factVars>>

ReserveAgain(k, m, rd, rw, o, i) ==
  /\ Fresh("redemption.reserve", k)
  /\ Active(m)
  /\ Requested(rd) /\ byRedemption[rd].fp = <<m, rw, i, o>>
  /\ LET r == byRedemption[rd].reservation
     IN  Remember("redemption.reserve", k, <<rd, m, rw, i, o>>,
                  [reservation |-> r, status |-> reservations[r].status])
  /\ ReportBalances(book, m)
  /\ UNCHANGED <<now, program, memberVars, byRedemption, issuedRewards, factVars>>

RedemptionEntry(r, op, amount) ==
  [member |-> reservations[r].member, op |-> op, unit |-> reservations[r].unit,
   amount |-> amount, at |-> now, expires |-> NoExpiry, tier |-> FALSE,
   order |-> reservations[r].order, ref |-> r]

Debit(u, amount) == [x \in Units |-> IF x = u THEN amount ELSE 0]

(* capture.  The status is set before the issued reward is looked at; that *)
(* it is then always claimable is invariant HeldRewardClaimable.           *)
Capture(k, r) ==
  LET res == reservations[r]
      i   == res.issued
      b0  == Balance(book, res.member, res.unit)
  IN  /\ Fresh("redemption.capture", k)
      /\ r \in DOMAIN reservations
      /\ LiveHold(res)
      /\ res.unit \in UnitSet(program)
      /\ b0.points[res.member][res.unit] >= res.cost
      /\ book' = Balances(
           IF res.cost = 0 THEN b0
           ELSE AddLedger(ConsumePointLots(b0, res.member, Debit(res.unit, res.cost), r),
                          <<RedemptionEntry(r, "redemption", -res.cost)>>), res.member)
      /\ reservations' = [Lapsed EXCEPT ![r].status = "captured"]
      /\ issuedRewards' = IF i = None THEN issuedRewards
                          ELSE [issuedRewards EXCEPT ![i].status = "redeemed"]
      /\ Remember("redemption.capture", k, r, [reservation |-> r, status |-> "captured"])
      /\ UNCHANGED <<now, program, memberVars, byRedemption, factVars>>

(* reverse of a reservation that is still held: the hold is released *)
ReverseHold(k, r) ==
  /\ Fresh("redemption.reverse", k)
  /\ r \in DOMAIN reservations
  /\ LiveHold(reservations[r])
  /\ reservations' = [Lapsed EXCEPT ![r].status = "reversed"]
  /\ book' = Balances(book, reservations[r].member)
  /\ Remember("redemption.reverse", k, r, [reservation |-> r, status |-> "reversed"])
  /\ UNCHANGED <<now, program, memberVars, byRedemption, issuedRewards, factVars>>

(* reverse of a captured redemption: the lots and the balance come back,   *)
(* and what is restored too late expires at once.                          *)
ReverseCapture(k, r) ==
  LET res == reservations[r]
      i   == res.issued
  IN  /\ Fresh("redemption.reverse", k)
      /\ r \in DOMAIN reservations
      /\ res.status = "captured"
      /\ res.unit \in UnitSet(program)
      /\ book' = Balances(
           IF res.cost = 0 THEN book
           ELSE Balance(AddLedger(RestorePointLots(book, r),
                                  <<RedemptionEntry(r, "reversal", res.cost)>>),
                        res.member, res.unit), res.member)
      /\ reservations' = [Lapsed EXCEPT ![r].status = "reversed"]
      /\ issuedRewards' = IF i # None /\ issuedRewards[i].status = "redeemed"
                          THEN [issuedRewards EXCEPT ![i].status = "issued"]
                          ELSE issuedRewards
      /\ Remember("redemption.reverse", k, r, [reservation |-> r, status |-> "reversed"])
      /\ UNCHANGED <<now, program, memberVars, byRedemption, factVars>>

(* capture of a captured, reverse of a reversed reservation *)
SettleAgain(k, r, op, status) ==
  /\ Fresh(op, k)
  /\ r \in DOMAIN reservations /\ reservations[r].status = status
  /\ ReportBalances(book, reservations[r].member)
  /\ Remember(op, k, r, [reservation |-> r, status |-> status])
  /\ UNCHANGED <<now, program, memberVars, byRedemption, issuedRewards, factVars>>

(* A rejected capture or reverse of an overdue reservation. *)
RejectOverdueReservation(r) ==
  /\ r \in DOMAIN reservations /\ Overdue(reservations[r])
  /\ reservations' = [reservations EXCEPT ![r] = LapsedOne(@)]
  /\ UNCHANGED <<now, program, memberVars, book, byRedemption, issuedRewards, factVars, idempotency>>

(* A reserve, or the capture of a hold, for which the balance is too low. *)
RejectLowBalance(m, u) ==
  /\ \/ /\ Active(m)
        /\ \E rw \in DOMAIN program.rewards :
             /\ program.rewards[rw].unit = u
             /\ InWindow(program, rw, now)
             /\ ~MembershipUnavailable(program, rw, members[m].membership, now)
             /\ Balance(book, m, u).points[m][u] - Held(Lapsed, m, u) < program.rewards[rw].cost
     \/ \E r \in DOMAIN reservations :
          /\ reservations[r].member = m /\ reservations[r].unit = u /\ u \in UnitSet(program)
          /\ LiveHold(reservations[r])
          /\ Balance(book, m, u).points[m][u] < reservations[r].cost
  /\ book' = Balance(book, m, u)
  /\ reservations' = Lapsed
  /\ UNCHANGED <<now, program, memberVars, byRedemption, issuedRewards, factVars, idempotency>>
-------------------------------------------------------------------------------
(* Order adjustments (refund, void, correction).  The adjustment names an  *)
(* order; whether the order was accrued, and to whom, is not required.     *)

OriginalEntries(o, u) ==
  IF ~Accrued(o) THEN {}
  ELSE {i \in 1..Len(accruals[o].entries) : book.ledger[accruals[o].entries[i]].unit = u}

OriginalAmount(o, u) ==
  IF OriginalEntries(o, u) = {} THEN 0
  ELSE book.ledger[accruals[o].entries[CHOOSE i \in OriginalEntries(o, u) : TRUE]].amount

(* The adjustments of the order already in a ledger, in one unit. *)
PriorAdjustments(ledger, o, u) ==
  Total([i \in 1..Len(ledger) |->
           IF ledger[i].order = o /\ ledger[i].op = "adjustment" /\ ledger[i].unit = u
           THEN ledger[i].amount ELSE 0])

(* The signed change before it is limited to what the order still holds. *)
RawAdjustment(o, u, a, bps) ==
  CASE u \in {"visits", "stamps"} -> IF a.type \in {"full_refund", "void"}
                                    THEN -OriginalAmount(o, u) ELSE 0
    [] Accrued(o) /\ OriginalEntries(o, u) = {} -> 0
    [] OTHER -> PointsForSignedSpend(program, u, a.delta, bps)

AdjustmentAmountUnlimited(o, u, a, bps) == RawAdjustment(o, u, a, bps)
AdjustmentAmount(o, u, a, bps) ==
  LET raw  == RawAdjustment(o, u, a, bps)
      left == NonNegative(OriginalAmount(o, u) + PriorAdjustments(book.ledger, o, u))
  IN  IF Accrued(o) /\ raw < 0 /\ raw < -left THEN -left ELSE raw

(* A refund uses the multiplier that was recorded with the accrual. *)
AdjustmentBpsToday(b, m, o) == EarningMultiplierBps(program, b, m, members[m].membership, now)
AdjustmentBps(b, m, o) ==
  IF Accrued(o) THEN accruals[o].bps
  ELSE EarningMultiplierBps(program, b, m, members[m].membership, now)

AdjustmentEntry(m, x, o, u, amount) ==
  [member |-> m, op |-> "adjustment", unit |-> u, amount |-> amount, at |-> now,
   expires |-> IF amount > 0 THEN LotExpiry(program, u, now) ELSE NoExpiry,
   tier |-> TRUE, order |-> o, ref |-> x]

(* Only a correction may add. *)
AdjustmentAllowed(a) ==
  /\ a.currency = program.currency
  /\ a.type # "correction" => a.delta <= 0

AdjustOrder(k, m, x, o, a) ==
  /\ Fresh("order.adjust", k)
  /\ Active(m)
  /\ AdjustmentAllowed(a)
  /\ x \notin DOMAIN adjustments
  /\ LET b0     == ExpirePointLots(book, {m}, Units, now)
         bps    == AdjustmentBps(b0, m, o)
         amount == [u \in Units |-> IF u \in UnitSet(program)
                                    THEN AdjustmentAmount(o, u, a, bps) ELSE 0]
         debit  == [u \in Units |-> NonNegative(-amount[u])]
         es     == [i \in 1..Len(program.units) |->
                      AdjustmentEntry(m, x, o, program.units[i], amount[program.units[i]])]
         ids    == [i \in 1..Len(program.units) |-> Len(b0.ledger) + i]
         main   == CHOOSE i \in 1..Len(program.units) : program.units[i] = program.primary
     IN  /\ adjustments' = Put(adjustments, x, [entry |-> ids[main], fp |-> <<"order", m, o, a>>])
         /\ ReportBalances(AddLedger(ConsumePointLots(b0, m, debit, None), es), m)
         /\ Remember("order.adjust", k, <<m, x, o, a>>, [adjustment |-> x, entries |-> ids])
  /\ UNCHANGED <<now, program, memberVars, byRedemption, issuedRewards, accruals>>

(* The answer names only the primary entry of the first call. *)
AdjustOrderAgain(k, m, x, o, a) ==
  /\ Fresh("order.adjust", k)
  /\ Active(m)
  /\ AdjustmentAllowed(a)
  /\ x \in DOMAIN adjustments /\ adjustments[x].fp = <<"order", m, o, a>>
  /\ ReportBalances(ExpirePointLots(book, {m}, Units, now), m)
  /\ Remember("order.adjust", k, <<m, x, o, a>>,
              [adjustment |-> x, entries |-> <<adjustments[x].entry>>])
  /\ UNCHANGED <<now, program, memberVars, byRedemption, issuedRewards, factVars>>

(* Manual adjustments.  a is [unit, amount, expires, tier], the expiry     *)
(* absolute and in the future.                                             *)
ManualAllowed(a) ==
  /\ a.unit \in UnitSet(program)
  /\ a.amount # 0
  /\ a.expires # NoExpiry => a.amount > 0 /\ a.expires > now

ManualEntry(m, x, a) ==
  [member |-> m, op |-> "manual", unit |-> a.unit, amount |-> a.amount, at |-> now,
   expires |-> IF a.amount < 0 THEN NoExpiry
               ELSE IF a.expires # NoExpiry THEN a.expires
               ELSE LotExpiry(program, a.unit, now),
   tier |-> a.tier, order |-> None, ref |-> x]

PostManualAdjustment(k, m, x, a) ==
  /\ Fresh("ledger.manual", k)
  /\ Active(m) /\ ManualAllowed(a)
  /\ x \notin DOMAIN adjustments
  /\ LET b0 == Balance(book, m, a.unit)
         b1 == IF a.amount > 0 THEN b0
               ELSE ConsumePointLots(b0, m, Debit(a.unit, -a.amount), None)
         id == Len(b0.ledger) + 1
     IN  /\ adjustments' = Put(adjustments, x, [entry |-> id, fp |-> <<"manual", m, a>>])
         /\ ReportBalances(AddLedger(b1, <<ManualEntry(m, x, a)>>), m)
         /\ Remember("ledger.manual", k, <<m, x, a>>, [adjustment |-> x, entries |-> <<id>>])
  /\ UNCHANGED <<now, program, memberVars, byRedemption, issuedRewards, accruals>>

PostManualAdjustmentAgain(k, m, x, a) ==
  /\ Fresh("ledger.manual", k)
  /\ Active(m) /\ ManualAllowed(a)
  /\ x \in DOMAIN adjustments /\ adjustments[x].fp = <<"manual", m, a>>
  /\ ReportBalances(Balance(book, m, a.unit), m)
  /\ Remember("ledger.manual", k, <<m, x, a>>,
              [adjustment |-> x, entries |-> <<adjustments[x].entry>>])
  /\ UNCHANGED <<now, program, memberVars, byRedemption, issuedRewards, factVars>>

(* A refused adjustment has expired the lots it came across: an order      *)
(* adjustment those of every unit, a manual one those of its unit.         *)
RejectAdjustment(m, us) ==
  /\ Active(m)
  /\ us = Units \/ \E u \in UnitSet(program) : us = {u}
  /\ book' = ExpirePointLots(book, {m}, us, now)
  /\ UNCHANGED <<now, program, memberVars, walletVars, factVars, idempotency>>
-------------------------------------------------------------------------------
(* reconfigureProgram: the primary unit stays, a reward that is still      *)
(* issued to someone stays, and an account is dropped only when everyone's *)
(* balance in it, after expiry, is zero.                                   *)
Known == {m \in Members : members[m].status # None}

KeepsIssuedRewardsUnchecked(p) == TRUE
KeepsIssuedRewards(p) ==
  \A i \in DOMAIN issuedRewards :
    issuedRewards[i].status = "issued" => issuedRewards[i].reward \in DOMAIN p.rewards

AccountsEmptyIfActive(b, removed) ==
  \A m \in Known, u \in removed : Active(m) => b.points[m][u] = 0
AccountsEmpty(b, removed) == \A m \in Known, u \in removed : b.points[m][u] = 0

ReconfigureProgram(p) ==
  LET removed == UnitSet(program) \ UnitSet(p)
      b       == ExpirePointLots(book, Known, removed, now)
  IN  /\ p # program /\ p.primary = program.primary
      /\ KeepsIssuedRewards(p)
      /\ AccountsEmpty(b, removed)
      /\ program' = p
      /\ book' = b
      /\ reservations' = IF Known = {} \/ removed = {} THEN reservations ELSE Lapsed
      /\ UNCHANGED <<now, memberVars, byRedemption, issuedRewards, factVars, idempotency>>

(* A reconfiguration refused for the balance of m in unit u has swept the  *)
(* removed units before u, and u for m and the members before it.          *)
RejectReconfigure(p, m, ms) ==
  \E n \in DOMAIN program.units :
    LET u      == program.units[n]
        before == {program.units[j] : j \in 1..(n - 1)} \ UnitSet(p)
        b      == ExpirePointLots(ExpirePointLots(book, Known, before, now), ms, {u}, now)
    IN  /\ p.primary = program.primary /\ KeepsIssuedRewards(p)
        /\ m \in ms /\ ms \subseteq Known /\ u \notin UnitSet(p)
        /\ AccountsEmpty(b, before)
        /\ \A x \in ms : b.points[x][u] = 0 <=> x # m
        /\ book' = b
        /\ reservations' = Lapsed
        /\ UNCHANGED <<now, program, memberVars, byRedemption, issuedRewards, factVars, idempotency>>
-------------------------------------------------------------------------------
MemberStep ==
  \/ \E k \in ReadKeys, i \in Identities : Lookup(k, i)
  \/ \E i \in Identities, m \in Members : \E k \in KeysFor(i) : Enroll(k, i, m) \/ EnrollAgain(k, i, m)
  \/ \E m \in Members : CancelMember(m) \/ EraseMember(m) \/ InspectMemberErasure(m)
  \/ \E m \in Members, v \in Memberships \cup {None} : SetMemberMembership(m, v)

ReadStep ==
  \/ \E k \in ReadKeys, m \in Members : GetAccount(k, m) \/ ListLedger(k, m) \/ ListIssuedRewards(k, m)
  \/ \E k \in ReadKeys, m \in Members, f \in Facts : Evaluate(k, m, f)
  \/ \E k \in ReadKeys : GetProgram(k)
  \/ GetLedger
  \/ Inspect

AccrualStep ==
  \E m \in Members, o \in Orders, f \in Facts : \E k \in KeysFor(o) :
    PostAccrual(k, m, o, f) \/ PostAccrualAgain(k, m, o, f)

IssueStep ==
  \/ \E i \in IssuedIds, m \in Members, w \in IssueTerms : \E k \in KeysFor(i) :
       IssueReward(k, i, m, w) \/ IssueRewardAgain(k, i, m, w)
  \/ \E i \in DOMAIN issuedRewards : \E k \in KeysFor(i) : CancelIssuedReward(k, i)
  \/ \E i \in DOMAIN issuedRewards : RejectOverdueReward(i)

RedemptionStep ==
  \/ \E m \in Members, rd \in Redemptions, o \in Orders :
       \E rw \in DOMAIN program.rewards, k \in KeysFor(rd) :
         \/ Reserve(k, m, rd, rw, o)
         \/ \E i \in DOMAIN issuedRewards : ReserveIssued(k, m, rd, rw, o, i)
         \/ \E i \in DOMAIN issuedRewards \cup {None} : ReserveAgain(k, m, rd, rw, o, i)
  \/ \E r \in DOMAIN reservations : \E k \in KeysFor(r) :
       \/ Capture(k, r) \/ ReverseHold(k, r) \/ ReverseCapture(k, r)
       \/ SettleAgain(k, r, "redemption.capture", "captured")
       \/ SettleAgain(k, r, "redemption.reverse", "reversed")
  \/ \E r \in DOMAIN reservations : RejectOverdueReservation(r)
  \/ \E m \in Members, u \in Units : RejectLowBalance(m, u)

AdjustmentStep ==
  \/ \E m \in Members, x \in AdjustmentIds, o \in Orders, a \in OrderAdjustments :
       \E k \in KeysFor(x) :
       AdjustOrder(k, m, x, o, a) \/ AdjustOrderAgain(k, m, x, o, a)
  \/ \E m \in Members, x \in AdjustmentIds, a \in ManualAdjustments : \E k \in KeysFor(x) :
       PostManualAdjustment(k, m, x, a) \/ PostManualAdjustmentAgain(k, m, x, a)
  \/ \E m \in Members, us \in {Units} \cup {{u} : u \in Units} : RejectAdjustment(m, us)

ProgramStep ==
  \E p \in Updates(program) :
    \/ ReconfigureProgram(p)
    \/ \E ms \in SUBSET Members : \E m \in ms : RejectReconfigure(p, m, ms)

Next == \/ Tick \/ MemberStep \/ ReadStep \/ AccrualStep \/ IssueStep
        \/ RedemptionStep \/ AdjustmentStep \/ ProgramStep

Spec == Init /\ [][Next]_vars
===============================================================================
