------------------------------ MODULE LedgerBook ------------------------------
(***************************************************************************)
(* The member ledger of the reference engine (packages/reference/src/      *)
(* engine.ts): the append-only entries, the stored balance of every member *)
(* account, the expiring point lots and the lots each captured redemption  *)
(* consumed.  The operators take a book and return the book after the      *)
(* private method of LoyaltyEngine with the same name.                     *)
(*                                                                         *)
(* An entry id is the position of the entry in the ledger.  The engine     *)
(* draws random ids; they are only compared for equality and as the        *)
(* tie-break of two lots with the same expiry instant.                     *)
(***************************************************************************)
EXTENDS Integers, Sequences, FiniteSets

CONSTANTS Members,   \* member ids
          Units,     \* account units: points, visits, stamps, credits
          None       \* an absent optional field

NoExpiry == 0        \* an entry without expires_at

(* The sum of a sequence of integers, by its partial sums. *)
PartialSums(q) ==
  LET sum[n \in 0..Len(q)] == IF n = 0 THEN 0 ELSE sum[n - 1] + q[n]
  IN  sum

Total(q) == PartialSums(q)[Len(q)]

(* What the entries es add to the account of member m in unit u. *)
AccountAmounts(es, m, u) ==
  [i \in 1..Len(es) |-> IF es[i].member = m /\ es[i].unit = u THEN es[i].amount ELSE 0]

AccountTotal(es, m, u) == Total(AccountAmounts(es, m, u))

EmptyBook ==
  [ledger       |-> <<>>,
   points       |-> [m \in Members |-> [u \in Units |-> 0]],
   lots         |-> <<>>,      \* entry id -> unspent remainder
   consumptions |-> <<>>]      \* reservation id -> (entry id -> amount)

(* Book b with other lots. *)
WithLots(b, lots, consumptions) ==
  [ledger |-> b.ledger, points |-> b.points, lots |-> lots, consumptions |-> consumptions]

(* addLedger, for each entry of es in turn: append it, add its amount to   *)
(* the stored balance, and open a lot when a positive entry expires.       *)
AddLedgerAllLots(b, es) ==
  LET n == Len(b.ledger)
  IN  [b EXCEPT !.ledger = b.ledger \o es,
                !.points = [m \in Members |-> [u \in Units |->
                              b.points[m][u] + AccountTotal(es, m, u)]],
                !.lots   = [i \in DOMAIN b.lots \cup {n + j : j \in DOMAIN es} |->
                              IF i \in DOMAIN b.lots THEN b.lots[i] ELSE es[i - n].amount]]
AddLedgerInFront(b, es) == [b EXCEPT !.ledger = es \o b.ledger]
AddLedger(b, es) ==
  LET n    == Len(b.ledger)
      lots == {n + i : i \in {j \in DOMAIN es : es[j].expires # NoExpiry /\ es[j].amount > 0}}
  IN  [ledger |-> b.ledger \o es,
       points |-> [m \in Members |-> [u \in Units |->
                     b.points[m][u] + AccountTotal(es, m, u)]],
       lots   |-> [i \in DOMAIN b.lots \cup lots |->
                     IF i \in DOMAIN b.lots THEN b.lots[i] ELSE es[i - n].amount],
       consumptions |-> b.consumptions]

(* The order in which lots are spent: earliest expiry, then entry id. *)
SpentBefore(b, i, j) ==
  \/ b.ledger[i].expires < b.ledger[j].expires
  \/ b.ledger[i].expires = b.ledger[j].expires /\ i < j

OpenLots(b, m) == {i \in DOMAIN b.lots : b.ledger[i].member = m /\ b.lots[i] > 0}

(* What is left, ahead of lot i, in the lots of the same account. *)
LeftAhead(b, m, i) ==
  Total([j \in 1..Len(b.ledger) |->
           IF j \in OpenLots(b, m) /\ b.ledger[j].unit = b.ledger[i].unit /\ SpentBefore(b, j, i)
           THEN b.lots[j] ELSE 0])

(* What a debit of `amount' takes from lot i: nothing while earlier lots   *)
(* cover it, then the rest of the debit, at most the whole lot.            *)
TakenFrom(b, m, i, amount) ==
  LET rest == amount - LeftAhead(b, m, i)
  IN  IF rest <= 0 THEN 0 ELSE IF rest < b.lots[i] THEN rest ELSE b.lots[i]

(* consumePointLots for member m, spending debit[u] in every unit u.  A    *)
(* debit larger than the open lots leaves them empty: the rest was never   *)
(* in a lot.  With an id, what was taken is remembered for a reversal.     *)
ConsumePointLots(b, m, debit, id) ==
  LET taken == [i \in OpenLots(b, m) |-> TakenFrom(b, m, i, debit[b.ledger[i].unit])]
      used  == {i \in DOMAIN taken : taken[i] > 0}
  IN  WithLots(b,
        [i \in DOMAIN b.lots |-> IF i \in used THEN b.lots[i] - taken[i] ELSE b.lots[i]],
        IF id = None \/ used = {} THEN b.consumptions
        ELSE [r \in DOMAIN b.consumptions \cup {id} |->
                IF r = id THEN [i \in used |-> taken[i]] ELSE b.consumptions[r]])

(* restorePointLots: put back what the redemption consumed, and forget it. *)
RestorePointLotsKept(b, id) ==
  IF id \notin DOMAIN b.consumptions THEN b
  ELSE [b EXCEPT !.lots = [i \in DOMAIN b.lots |->
                             IF i \in DOMAIN b.consumptions[id]
                             THEN b.lots[i] + b.consumptions[id][i] ELSE b.lots[i]]]
RestorePointLots(b, id) ==
  IF id \notin DOMAIN b.consumptions THEN b
  ELSE LET taken == b.consumptions[id]
       IN  WithLots(b,
             [i \in DOMAIN b.lots |->
                IF i \in DOMAIN taken THEN b.lots[i] + taken[i] ELSE b.lots[i]],
             [r \in DOMAIN b.consumptions \ {id} |-> b.consumptions[r]])

(* The non-empty lots of the members ms, in the units us, that are over. *)
DueLots(b, ms, us, now) ==
  {i \in DOMAIN b.lots : /\ b.lots[i] > 0
                         /\ b.ledger[i].member \in ms
                         /\ b.ledger[i].unit \in us
                         /\ b.ledger[i].expires <= now}

(* A listing of a finite set.  The entries of one sweep carry one          *)
(* timestamp, so their order among themselves is not observable.           *)
Listing(S) ==
  CHOOSE f \in [1..Cardinality(S) -> S] :
    \A i, j \in 1..Cardinality(S) : f[i] = f[j] => i = j

ExpirationEntry(b, i, now) ==
  [member |-> b.ledger[i].member, op |-> "expiration", unit |-> b.ledger[i].unit,
   amount |-> -b.lots[i], at |-> now, expires |-> NoExpiry, tier |-> FALSE,
   order |-> None, ref |-> i]

(* expirePointLots: every due lot is emptied, and one expiration entry for *)
(* its remainder, related to the entry that opened it, is posted.          *)
ExpirePointLotsUnposted(b, ms, us, now) ==
  LET due == DueLots(b, ms, us, now)
      ids == Listing(due)
  IN  [b EXCEPT !.lots   = [i \in DOMAIN b.lots |-> IF i \in due THEN 0 ELSE b.lots[i]],
                !.ledger = b.ledger \o [k \in 1..Cardinality(due) |-> ExpirationEntry(b, ids[k], now)]]
ExpirePointLots(b, ms, us, now) ==
  LET due == DueLots(b, ms, us, now)
      ids == Listing(due)
  IN  AddLedger(WithLots(b, [i \in DOMAIN b.lots |-> IF i \in due THEN 0 ELSE b.lots[i]],
                         b.consumptions),
                [k \in 1..Cardinality(due) |-> ExpirationEntry(b, ids[k], now)])
-------------------------------------------------------------------------------
(* The shape of a book, and the agreement of its parts. *)

EntryOps == {"accrual", "adjustment", "manual", "redemption", "reversal", "expiration"}

IsEntry(e) ==
  /\ e.member \in Members /\ e.unit \in Units /\ e.op \in EntryOps
  /\ e.amount \in Int /\ e.expires \in Int

IsSeq(s) == s \in Seq({s[i] : i \in DOMAIN s})

IsBook(b) ==
  /\ b = [ledger |-> b.ledger, points |-> b.points, lots |-> b.lots,
          consumptions |-> b.consumptions]
  /\ IsSeq(b.ledger) /\ \A i \in 1..Len(b.ledger) : IsEntry(b.ledger[i])
  /\ b.points \in [Members -> [Units -> Int]]
  /\ DOMAIN b.lots \subseteq 1..Len(b.ledger)
  /\ \A i \in DOMAIN b.lots : b.lots[i] \in Nat
  /\ \A r \in DOMAIN b.consumptions : \A i \in DOMAIN b.consumptions[r] :
       i \in DOMAIN b.lots /\ b.consumptions[r][i] \in Nat

(* The stored balances are the sums of the entries. *)
Balanced(b) == \A m \in Members, u \in Units : b.points[m][u] = AccountTotal(b.ledger, m, u)

(* Book c has the entries of book b, and perhaps more after them. *)
Continues(b, c) ==
  /\ Len(b.ledger) <= Len(c.ledger)
  /\ \A i \in 1..Len(b.ledger) : c.ledger[i] = b.ledger[i]
===============================================================================
