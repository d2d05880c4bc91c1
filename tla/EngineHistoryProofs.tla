-------------------------- MODULE EngineHistoryProofs --------------------------
(***************************************************************************)
(* Proofs about what LoyaltyEngine keeps over a whole history of calls,    *)
(* for every set of members, programs, orders and requests: who is erased  *)
(* stays unlinkable, an issued reward buys one redemption and stays in the *)
(* catalog, a redemption is settled once, and an order accrues once.       *)
(***************************************************************************)
EXTENDS EngineProofs

-------------------------------------------------------------------------------
(* Erasure *)

(* The index names members under their identity, and no cached response    *)
(* shows the identity of an erased member.                                 *)
IndexedBy(ms, index) ==
  \A i \in DOMAIN index : /\ index[i] \in Members /\ ms[index[i]].identity = i
                          /\ ms[index[i]].status # None
Shows(resp, m) == "member" \in DOMAIN resp /\ resp.member = m
Hides(ms, resp) ==
  \A m \in Members : ms[m].identity = Erased /\ Shows(resp, m) => resp.identity = Erased
Linked(ms, index, calls) ==
  /\ IndexedBy(ms, index)
  /\ \A i \in DOMAIN index : i \in Identities
  /\ \A x \in DOMAIN calls : "resp" \in DOMAIN calls[x] /\ Hides(ms, calls[x].resp)

(* A call that only remembers its response. *)
LEMMA RememberLinked ==
  ASSUME Linked(members, identityIndex, idempotency), NEW op, NEW k, NEW fp, NEW resp,
         Remember(op, k, fp, resp), NEW ms, NEW index,
         IndexedBy(ms, index), \A i \in DOMAIN index : i \in Identities,
         \A m \in Members : ms[m].identity = Erased => members[m].identity = Erased,
         Hides(ms, resp)
  PROVE  Linked(ms, index, idempotency')
<1> DEFINE new == [fp |-> fp, resp |-> resp]
<1>1. new.resp = resp /\ "resp" \in DOMAIN new
  OBVIOUS
<1> HIDE DEF new
<1>2. /\ DOMAIN idempotency' = DOMAIN idempotency \cup {<<op, k>>} /\ idempotency'[<<op, k>>] = new
      /\ \A x \in DOMAIN idempotency \ {<<op, k>>} : idempotency'[x] = idempotency[x]
  BY DEF Remember, Put, new
<1>3. ASSUME NEW x \in DOMAIN idempotency PROVE Hides(ms, idempotency[x].resp)
  BY DEF Linked, Hides
<1>4. QED
  BY <1>1, <1>2, <1>3 DEF Linked

(* Responses that carry no member, and the snapshot of a member. *)
LEMMA NoMemberHidden ==
  ASSUME NEW ms, NEW resp, "member" \notin DOMAIN resp
  PROVE  Hides(ms, resp)
BY DEF Hides, Shows
LEMMA SnapshotHides == \A m \in Members : Hides(members, Snapshot(m))
BY DEF Hides, Shows, Snapshot

(* A call of the engine that leaves the members alone. *)
LEMMA ResponseLinked ==
  ASSUME Linked(members, identityIndex, idempotency), UNCHANGED <<members, identityIndex>>,
         NEW op, NEW k, NEW fp, NEW resp, Remember(op, k, fp, resp),
         "member" \notin DOMAIN resp \/ \E m \in Members : resp = Snapshot(m)
  PROVE  Linked(members', identityIndex', idempotency')
<1>1. Hides(members, resp)
  BY NoMemberHidden, SnapshotHides
<1>2. IndexedBy(members, identityIndex) /\ \A i \in DOMAIN identityIndex : i \in Identities
  BY DEF Linked
<1>3. Linked(members, identityIndex, idempotency')
  BY <1>1, <1>2, RememberLinked
<1>4. QED
  BY <1>3

LEMMA SameLinked ==
  ASSUME Linked(members, identityIndex, idempotency), UNCHANGED <<members, identityIndex, idempotency>>
  PROVE  Linked(members', identityIndex', idempotency')
OBVIOUS

LEMMA MemberLinked ==
  ASSUME Good, Linked(members, identityIndex, idempotency), MemberStep
  PROVE  Linked(members', identityIndex', idempotency')
<1>0. MembersOK(members)
  BY GoodParts
<1>m. /\ DOMAIN members = Members
      /\ \A m \in Members : {"status", "identity", "membership"} \subseteq DOMAIN members[m]
  BY <1>0 DEF MembersOK
<1>i. /\ IndexedBy(members, identityIndex)
      /\ \A i \in DOMAIN identityIndex : i \in Identities
      /\ \A x \in DOMAIN idempotency : "resp" \in DOMAIN idempotency[x] /\ Hides(members, idempotency[x].resp)
  BY DEF Linked
<1>1. ASSUME NEW k, NEW i \in Identities, Lookup(k, i) PROVE Linked(members', identityIndex', idempotency')
  <2>1. UNCHANGED <<members, identityIndex>>
    BY <1>1 DEF Lookup, memberVars
  <2>2. CASE i \in DOMAIN identityIndex
    <3>1. identityIndex[i] \in Members /\ identityIndex[i] # None
      BY <1>i, <2>2, IdAssumption DEF IndexedBy
    <3>2. Remember("member.lookup", k, i, Snapshot(identityIndex[i]))
      BY <1>1, <2>2, <3>1 DEF Lookup
    <3>3. QED
      BY <2>1, <3>1, <3>2, ResponseLinked
  <2>3. CASE i \notin DOMAIN identityIndex
    <3>1. Remember("member.lookup", k, i, NoMember)
      BY <1>1, <2>3 DEF Lookup
    <3>2. Hides(members, NoMember)
      BY IdAssumption DEF Hides, Shows, NoMember
    <3>3. Linked(members, identityIndex, idempotency')
      BY <1>i, <3>1, <3>2, RememberLinked
    <3>4. QED
      BY <2>1, <3>3
  <2>4. QED
    BY <2>2, <2>3
<1>2. ASSUME NEW k, NEW i \in Identities, NEW m \in Members, Enroll(k, i, m)
      PROVE  Linked(members', identityIndex', idempotency')
  <2> DEFINE resp == [member |-> m, identity |-> i, status |-> "active"]
             rec == [status |-> "active", identity |-> i, membership |-> None]
  <2>1. /\ members' = [members EXCEPT ![m] = rec] /\ identityIndex' = Put(identityIndex, i, m)
        /\ Remember("member.enroll", k, <<i, m>>, resp) /\ members[m].status = None
        /\ i \notin DOMAIN identityIndex
    BY <1>2 DEF Enroll
  <2>2. i # Erased
    BY IdAssumption
  <2>3. resp.member = m /\ resp.identity = i /\ rec.identity = i /\ rec.status = "active"
    OBVIOUS
  <2>4. rec.status # None
    BY <2>3, IdAssumption
  <2> HIDE DEF resp, rec
  <2>5. members'[m] = rec /\ \A n \in Members \ {m} : members'[n] = members[n]
    BY <1>m, <2>1
  <2>6. ASSUME NEW n \in Members, members'[n].identity = Erased
        PROVE  n # m /\ members'[n] = members[n] /\ members[n].identity = Erased
    BY <2>2, <2>3, <2>5, <2>6
  <2>7. Hides(members', resp)
    BY <2>3, <2>6 DEF Hides, Shows
  <2>8. IndexedBy(members', identityIndex') /\ \A j \in DOMAIN identityIndex' : j \in Identities
    <3>2. DOMAIN identityIndex' = DOMAIN identityIndex \cup {i} /\ identityIndex'[i] = m
          /\ \A j \in DOMAIN identityIndex \ {i} : identityIndex'[j] = identityIndex[j]
      BY <2>1 DEF Put
    <3>3. \A j \in DOMAIN identityIndex : identityIndex[j] # m
      BY <1>i, <2>1 DEF IndexedBy
    <3>4. QED
      BY <1>i, <2>3, <2>4, <2>5, <3>2, <3>3 DEF IndexedBy
  <2>9. QED
    BY <2>1, <2>6, <2>7, <2>8, RememberLinked
<1>3. ASSUME NEW k, NEW i \in Identities, NEW m \in Members, EnrollAgain(k, i, m)
      PROVE  Linked(members', identityIndex', idempotency')
  <2>1. /\ UNCHANGED <<members, identityIndex>> /\ i \in DOMAIN identityIndex
        /\ Remember("member.enroll", k, <<i, m>>, Snapshot(identityIndex[i]))
    BY <1>3 DEF EnrollAgain, memberVars
  <2>2. identityIndex[i] \in Members
    BY <1>i, <2>1 DEF IndexedBy
  <2>3. QED
    BY <2>1, <2>2, ResponseLinked
(* The identity of one member changes nothing for the others. *)
<1>4. ASSUME NEW m \in Members, NEW rec, members' = [members EXCEPT ![m] = rec],
             rec.identity = members[m].identity, rec.status # None, UNCHANGED <<identityIndex, idempotency>>
      PROVE  Linked(members', identityIndex', idempotency')
  <2>1. members'[m] = rec /\ \A n \in Members \ {m} : members'[n] = members[n]
    BY <1>m, <1>4
  <2>2. \A n \in Members : members'[n].identity = members[n].identity
    BY <1>4, <2>1
  <2>3. IndexedBy(members', identityIndex)
    BY <1>i, <1>4, <2>1, <2>2 DEF IndexedBy
  <2>4. \A x \in DOMAIN idempotency : Hides(members', idempotency[x].resp)
    BY <1>i, <2>2 DEF Hides
  <2>5. QED
    BY <1>i, <1>4, <2>3, <2>4 DEF Linked
<1>5. ASSUME NEW m \in Members, CancelMember(m) PROVE Linked(members', identityIndex', idempotency')
  <2> DEFINE rec == [members[m] EXCEPT !.status = "closed"]
  <2>1. members' = [members EXCEPT ![m] = rec] /\ UNCHANGED <<identityIndex, idempotency>>
    BY <1>5 DEF CancelMember
  <2>2. rec.identity = members[m].identity /\ rec.status = "closed"
    BY <1>m
  <2> HIDE DEF rec
  <2>3. QED
    BY <1>4, <2>1, <2>2, IdAssumption
<1>6. ASSUME NEW m \in Members, NEW v, SetMemberMembership(m, v)
      PROVE  Linked(members', identityIndex', idempotency')
  <2> DEFINE rec == [members[m] EXCEPT !.membership = v]
  <2>1. /\ members' = [members EXCEPT ![m] = rec] /\ UNCHANGED <<identityIndex, idempotency>>
        /\ members[m].status # None
    BY <1>6 DEF SetMemberMembership
  <2>2. rec.identity = members[m].identity /\ rec.status = members[m].status
    BY <1>m
  <2> HIDE DEF rec
  <2>3. QED
    BY <1>4, <2>1, <2>2
<1>7. ASSUME NEW m \in Members, EraseMember(m) PROVE Linked(members', identityIndex', idempotency')
  <2> DEFINE rec == [status |-> "closed", identity |-> Erased, membership |-> None]
  <2>1. /\ members' = [members EXCEPT ![m] = rec]
        /\ identityIndex' = [j \in DOMAIN identityIndex \ {members[m].identity} |-> identityIndex[j]]
        /\ idempotency' = [x \in DOMAIN idempotency |-> [idempotency[x] EXCEPT !.resp = Scrubbed(@, m)]]
    BY <1>7 DEF EraseMember, IndexWithout
  <2>2. rec.identity = Erased
    OBVIOUS
  <2> HIDE DEF rec
  <2>3. members'[m] = rec /\ \A n \in Members \ {m} : members'[n] = members[n]
    BY <1>m, <2>1
  <2>4. \A j \in DOMAIN identityIndex' :
          j \in DOMAIN identityIndex /\ identityIndex'[j] = identityIndex[j] /\ identityIndex[j] # m
    BY <1>i, <2>1 DEF IndexedBy
  <2>5. IndexedBy(members', identityIndex')
    BY <1>i, <2>3, <2>4 DEF IndexedBy
  <2>6. ASSUME NEW x \in DOMAIN idempotency'
        PROVE  "resp" \in DOMAIN idempotency'[x] /\ Hides(members', idempotency'[x].resp)
    <3> DEFINE resp == idempotency[x].resp
    <3>1. x \in DOMAIN idempotency /\ idempotency'[x] = [idempotency[x] EXCEPT !.resp = Scrubbed(@, m)]
      BY <2>1
    <3>2. Hides(members', idempotency'[x].resp)
      <4>0. "resp" \in DOMAIN idempotency[x]
        BY <1>i, <3>1
      <4>1. idempotency'[x].resp = Scrubbed(resp, m)
        BY <3>1, <4>0
      <4>2. Hides(members, resp)
        BY <1>i, <3>1
      <4>3. CASE Shows(resp, m)
        <5>1. Scrubbed(resp, m) = [member |-> m, identity |-> Erased, status |-> "closed"]
          BY <4>3 DEF Scrubbed, Shows
        <5>2. QED
          BY <4>1, <5>1 DEF Hides, Shows
      <4>4. CASE ~Shows(resp, m)
        <5>1. Scrubbed(resp, m) = resp
          BY <4>4 DEF Scrubbed, Shows
        <5>2. QED
          BY <2>3, <4>1, <4>2, <4>4, <5>1 DEF Hides
      <4>5. QED
        BY <4>3, <4>4
    <3>3. QED
      BY <1>i, <3>1, <3>2
  <2>7. QED
    BY <1>i, <2>4, <2>5, <2>6 DEF Linked
<1>8. ASSUME NEW m \in Members, InspectMemberErasure(m) PROVE Linked(members', identityIndex', idempotency')
  BY <1>8, SameLinked DEF InspectMemberErasure, memberVars
<1>9. QED
  BY <1>1, <1>2, <1>3, <1>5, <1>6, <1>7, <1>8 DEF MemberStep

LEMMA PostAccrualLinked ==
  ASSUME Linked(members, identityIndex, idempotency), NEW k, NEW m, NEW o, NEW f, PostAccrual(k, m, o, f)
  PROVE  Linked(members', identityIndex', idempotency')
<1>1. UNCHANGED <<members, identityIndex>>
  BY DEF PostAccrual, memberVars
<1>2. PICK ids, stamps : idempotency' =
        [x \in DOMAIN idempotency \cup {<<"accrual.post", k>>}
                                 \cup {<<"issued_reward.issue", i>> : i \in stamps} |->
           IF x = <<"accrual.post", k>>
           THEN [fp |-> <<m, o, f>>, resp |-> [order |-> o, entries |-> ids]]
           ELSE IF x \in DOMAIN idempotency THEN idempotency[x]
           ELSE [fp |-> <<x[2], StampReward(m)>>, resp |-> [issued |-> x[2], status |-> "issued"]]]
  BY DEF PostAccrual
<1>3. ASSUME NEW x \in DOMAIN idempotency'
      PROVE  "resp" \in DOMAIN idempotency'[x] /\ Hides(members, idempotency'[x].resp)
  <2>1. CASE idempotency'[x] = [fp |-> <<m, o, f>>, resp |-> [order |-> o, entries |-> ids]]
    BY <2>1, NoMemberHidden
  <2>2. CASE idempotency'[x] = [fp |-> <<x[2], StampReward(m)>>, resp |-> [issued |-> x[2], status |-> "issued"]]
    BY <2>2, NoMemberHidden
  <2>3. CASE x \in DOMAIN idempotency /\ idempotency'[x] = idempotency[x]
    BY <2>3 DEF Linked
  <2>4. QED
    BY <1>2, <2>1, <2>2, <2>3
<1>4. QED
  BY <1>1, <1>3 DEF Linked

(* The calls that are not about members. *)
LEMMA OtherLinked ==
  ASSUME Good, Linked(members, identityIndex, idempotency),
         Tick \/ ReadStep \/ AccrualStep \/ IssueStep \/ RedemptionStep \/ AdjustmentStep \/ ProgramStep
  PROVE  Linked(members', identityIndex', idempotency')
<1> DEFINE Goal == Linked(members', identityIndex', idempotency')
<1> SUFFICES Goal
  OBVIOUS
<1> HIDE DEF Goal
<1>1. CASE UNCHANGED <<members, identityIndex, idempotency>>
  BY <1>1, SameLinked DEF Goal
<1>2. ASSUME UNCHANGED <<members, identityIndex>>, NEW op, NEW k, NEW fp, NEW resp, Remember(op, k, fp, resp),
             "member" \notin DOMAIN resp \/ \E m \in Members : resp = Snapshot(m)
      PROVE  Goal
  BY <1>2, ResponseLinked DEF Goal
<1>3. CASE Tick \/ ProgramStep
  BY <1>1, <1>3 DEF Tick, ProgramStep, ReconfigureProgram, RejectReconfigure, memberVars
<1>4. CASE ReadStep
  <2>1. ASSUME NEW k, NEW m \in Members, GetAccount(k, m) PROVE Goal
    BY <1>2, <2>1 DEF GetAccount, memberVars
  <2>2. ASSUME NEW k, NEW m \in Members, ListLedger(k, m) PROVE Goal
    BY <1>2, <2>2 DEF ListLedger, memberVars
  <2>3. ASSUME NEW k, NEW m \in Members, ListIssuedRewards(k, m) PROVE Goal
    BY <1>2, <2>3 DEF ListIssuedRewards, memberVars
  <2>4. ASSUME NEW k, NEW m \in Members, NEW f \in Facts, Evaluate(k, m, f) PROVE Goal
    BY <1>2, <2>4 DEF Evaluate, memberVars
  <2>5. ASSUME NEW k, GetProgram(k) PROVE Goal
    BY <1>2, <2>5 DEF GetProgram, memberVars
  <2>6. CASE GetLedger \/ Inspect
    BY <1>1, <2>6 DEF GetLedger, Inspect, memberVars
  <2>7. QED
    BY <1>4, <2>1, <2>2, <2>3, <2>4, <2>5, <2>6 DEF ReadStep
<1>5. CASE AccrualStep
  <2>1. ASSUME NEW k, NEW m \in Members, NEW o, NEW f, PostAccrualAgain(k, m, o, f) PROVE Goal
    BY <1>2, <2>1 DEF PostAccrualAgain, memberVars
  <2>2. QED
    BY <1>5, <2>1, PostAccrualLinked DEF AccrualStep, Goal
<1>6. CASE IssueStep
  <2>1. ASSUME NEW k, NEW i, NEW m, NEW w, IssueReward(k, i, m, w) PROVE Goal
    BY <1>2, <2>1 DEF IssueReward, memberVars
  <2>2. ASSUME NEW k, NEW i, NEW m, NEW w, IssueRewardAgain(k, i, m, w) PROVE Goal
    BY <1>2, <2>2 DEF IssueRewardAgain, memberVars
  <2>3. ASSUME NEW k, NEW i, CancelIssuedReward(k, i) PROVE Goal
    BY <1>2, <2>3 DEF CancelIssuedReward, memberVars
  <2>4. ASSUME NEW i, RejectOverdueReward(i) PROVE Goal
    BY <1>1, <2>4 DEF RejectOverdueReward, memberVars
  <2>5. QED
    BY <1>6, <2>1, <2>2, <2>3, <2>4 DEF IssueStep
<1>7. CASE RedemptionStep
  <2>1. ASSUME NEW k, NEW m, NEW rd, NEW rw, NEW o, Reserve(k, m, rd, rw, o) PROVE Goal
    BY <1>2, <2>1 DEF Reserve, AddReservation, memberVars
  <2>2. ASSUME NEW k, NEW m, NEW rd, NEW rw, NEW o, NEW i, ReserveIssued(k, m, rd, rw, o, i) PROVE Goal
    BY <1>2, <2>2 DEF ReserveIssued, AddReservation, memberVars
  <2>3. ASSUME NEW k, NEW m, NEW rd, NEW rw, NEW o, NEW i, ReserveAgain(k, m, rd, rw, o, i) PROVE Goal
    BY <1>2, <2>3 DEF ReserveAgain, memberVars
  <2>4. ASSUME NEW k, NEW r, Capture(k, r) PROVE Goal
    BY <1>2, <2>4 DEF Capture, memberVars
  <2>5. ASSUME NEW k, NEW r, ReverseHold(k, r) PROVE Goal
    BY <1>2, <2>5 DEF ReverseHold, memberVars
  <2>6. ASSUME NEW k, NEW r, ReverseCapture(k, r) PROVE Goal
    BY <1>2, <2>6 DEF ReverseCapture, memberVars
  <2>7. ASSUME NEW k, NEW r, NEW op, NEW st, SettleAgain(k, r, op, st) PROVE Goal
    BY <1>2, <2>7 DEF SettleAgain, memberVars
  <2>8. ASSUME NEW r, RejectOverdueReservation(r) PROVE Goal
    BY <1>1, <2>8 DEF RejectOverdueReservation, memberVars
  <2>9. ASSUME NEW m, NEW u, RejectLowBalance(m, u) PROVE Goal
    BY <1>1, <2>9 DEF RejectLowBalance, memberVars
  <2>10. QED
    BY <1>7, <2>1, <2>2, <2>3, <2>4, <2>5, <2>6, <2>7, <2>8, <2>9 DEF RedemptionStep
<1>8. CASE AdjustmentStep
  <2>1. ASSUME NEW k, NEW m, NEW x, NEW o, NEW a, AdjustOrder(k, m, x, o, a) PROVE Goal
    BY <1>2, <2>1 DEF AdjustOrder, memberVars
  <2>2. ASSUME NEW k, NEW m, NEW x, NEW o, NEW a, AdjustOrderAgain(k, m, x, o, a) PROVE Goal
    BY <1>2, <2>2 DEF AdjustOrderAgain, memberVars
  <2>3. ASSUME NEW k, NEW m, NEW x, NEW a, PostManualAdjustment(k, m, x, a) PROVE Goal
    BY <1>2, <2>3 DEF PostManualAdjustment, memberVars
  <2>4. ASSUME NEW k, NEW m, NEW x, NEW a, PostManualAdjustmentAgain(k, m, x, a) PROVE Goal
    BY <1>2, <2>4 DEF PostManualAdjustmentAgain, memberVars
  <2>5. ASSUME NEW m, NEW us, RejectAdjustment(m, us) PROVE Goal
    BY <1>1, <2>5 DEF RejectAdjustment, memberVars
  <2>6. QED
    BY <1>8, <2>1, <2>2, <2>3, <2>4, <2>5 DEF AdjustmentStep
<1>9. QED
  BY <1>3, <1>4, <1>5, <1>6, <1>7, <1>8

LinkedNow == Linked(members, identityIndex, idempotency)

LEMMA LinkedStep == Good /\ LinkedNow /\ [Next]_vars => LinkedNow'
<1> SUFFICES ASSUME Good, LinkedNow, [Next]_vars PROVE LinkedNow'
  OBVIOUS
<1>1. Linked(members, identityIndex, idempotency)
  BY DEF LinkedNow
<1>2. Linked(members', identityIndex', idempotency')
  <2>1. CASE MemberStep
    BY <1>1, <2>1, MemberLinked
  <2>2. CASE UNCHANGED vars
    BY <1>1, <2>2, SameLinked DEF vars, memberVars
  <2>3. QED
    BY <1>1, <2>1, <2>2, OtherLinked DEF Next
<1>3. QED
  BY <1>2 DEF LinkedNow, Linked, IndexedBy, Hides, Shows

(* After erasure nothing the engine keeps links the member to an external  *)
(* identity, whoever enrolled, looked up or read the account before, and   *)
(* under whichever keys (eraseMember and the cache of once).               *)
THEOREM ErasureHolds == Spec => []ErasedUnlinkable
<1>1. Init => LinkedNow
  <2> SUFFICES ASSUME Init PROVE LinkedNow
    OBVIOUS
  <2>1. DOMAIN identityIndex = {} /\ DOMAIN idempotency = {}
    BY DEF Init
  <2>2. QED
    BY <2>1 DEF LinkedNow, Linked, IndexedBy
<1>2. LinkedNow => ErasedUnlinkable
  <2> SUFFICES ASSUME LinkedNow, NEW m \in Members, members[m].identity = Erased
               PROVE  /\ \A i \in DOMAIN identityIndex : identityIndex[i] # m
                      /\ \A x \in DOMAIN idempotency :
                           "member" \in DOMAIN idempotency[x].resp
                             => (idempotency[x].resp.member = m => idempotency[x].resp.identity = Erased)
    BY DEF ErasedUnlinkable
  <2>1. \A i \in DOMAIN identityIndex : identityIndex[i] # m
    BY IdAssumption DEF LinkedNow, Linked, IndexedBy
  <2>2. QED
    BY <2>1 DEF LinkedNow, Linked, Hides, Shows
<1>3. QED
  BY <1>1, <1>2, LinkedStep, AlwaysGood, PTL DEF Spec

-------------------------------------------------------------------------------
(* Quiet calls: no entry is posted but expirations, no hold is made or     *)
(* settled, overdue holds lapse.                                           *)

OnlyExpires(b, c) ==
  /\ Sound(c) /\ Continues(b, c) /\ KeepsLots(b, c) /\ Lowers(b, c)
  /\ \A i \in (Len(b.ledger) + 1)..Len(c.ledger) : c.ledger[i].op = "expiration"

Lapses(rs, new) ==
  /\ DOMAIN new = DOMAIN rs
  /\ \A r \in DOMAIN rs : /\ new[r].issued = rs[r].issued /\ new[r].cost = rs[r].cost
                          /\ new[r].member = rs[r].member
                          /\ \/ new[r].status = rs[r].status
                             \/ rs[r].status = "reserved" /\ new[r].status = "expired"

LEMMA SoundLen == ASSUME NEW b, Sound(b) PROVE Len(b.ledger) \in Nat
BY LenProperties DEF Sound, IsBook, IsSeq

LEMMA SameExpires == ASSUME NEW b, Sound(b) PROVE OnlyExpires(b, b)
BY SoundLen, SameLowers DEF OnlyExpires, Continues, KeepsLots

LEMMA ExpiryOnlyExpires ==
  ASSUME NEW b, Sound(b), NEW ms, NEW us, NEW t
  PROVE  OnlyExpires(b, ExpirePointLots(b, ms, us, t))
BY ExpirePointLotsSound, ExpireKeepsLots, ExpireLowers DEF OnlyExpires

LEMMA ExpiresTwice ==
  ASSUME NEW a, NEW b, NEW c, Sound(a), OnlyExpires(a, b), OnlyExpires(b, c)
  PROVE  OnlyExpires(a, c)
<1>1. Len(a.ledger) \in Nat /\ Len(b.ledger) \in Nat /\ Len(c.ledger) \in Nat
  BY SoundLen DEF OnlyExpires
<1>2. Continues(a, c)
  BY ContinuesTransitive DEF OnlyExpires
<1>3. ASSUME NEW i \in (Len(a.ledger) + 1)..Len(c.ledger) PROVE c.ledger[i].op = "expiration"
  <2>1. CASE i <= Len(b.ledger)
    BY <1>1, <2>1 DEF OnlyExpires, Continues
  <2>2. CASE i > Len(b.ledger)
    BY <1>1, <2>2 DEF OnlyExpires
  <2>3. QED
    BY <1>1, <2>1, <2>2
<1>4. KeepsLots(a, c) /\ Lowers(a, c)
  BY KeepsLotsTwice, LowersTwice DEF OnlyExpires
<1>5. QED
  BY <1>2, <1>3, <1>4 DEF OnlyExpires

LEMMA StatusSet ==
  ASSUME NEW r, IsReservation(r), NEW s
  PROVE  LET x == [r EXCEPT !.status = s]
         IN  /\ x.status = s /\ x.issued = r.issued /\ x.cost = r.cost /\ x.unit = r.unit
             /\ x.member = r.member
BY DEF IsReservation

LEMMA OneLapses ==
  ASSUME NEW r, IsReservation(r)
  PROVE  LET x == LapsedOne(r)
         IN  /\ x.issued = r.issued /\ x.cost = r.cost /\ x.member = r.member
             /\ x.status = r.status \/ (r.status = "reserved" /\ x.status = "expired")
BY StatusSet DEF LapsedOne, Overdue

LEMMA HoldsAre ==
  ASSUME Good
  PROVE  /\ Len(reservations) \in Nat /\ DOMAIN reservations = 1..Len(reservations)
         /\ \A r \in DOMAIN reservations : IsReservation(reservations[r])
BY GoodParts, ReservationsDomain DEF ReservationsOK

LEMMA SameLapses == \A rs : Lapses(rs, rs)
BY DEF Lapses

LEMMA LapsedLapses == ASSUME Good PROVE Lapses(reservations, Lapsed)
<1>1. ASSUME NEW r \in DOMAIN reservations
      PROVE  /\ Lapsed[r].issued = reservations[r].issued /\ Lapsed[r].cost = reservations[r].cost
             /\ Lapsed[r].member = reservations[r].member
             /\ \/ Lapsed[r].status = reservations[r].status
                \/ reservations[r].status = "reserved" /\ Lapsed[r].status = "expired"
  <2>1. Lapsed[r] = LapsedOne(reservations[r]) /\ IsReservation(reservations[r])
    BY HoldsAre DEF Lapsed
  <2>2. QED
    BY <2>1, OneLapses
<1>2. DOMAIN Lapsed = DOMAIN reservations
  BY DEF Lapsed
<1>3. QED
  BY <1>1, <1>2 DEF Lapses

QuietStep == OnlyExpires(book, book') /\ Lapses(reservations, reservations')

LEMMA QuietReport ==
  ASSUME Good, NEW b, OnlyExpires(book, b), NEW m, ReportBalances(b, m)
  PROVE  QuietStep
<1>1. book' = ExpirePointLots(b, {m}, UnitSet(program), now) /\ reservations' = Lapsed
  BY DEF ReportBalances, Balances
<1>2. Sound(book) /\ Sound(b)
  BY GoodParts DEF OnlyExpires
<1>3. OnlyExpires(b, book')
  BY <1>1, <1>2, ExpiryOnlyExpires
<1>4. OnlyExpires(book, book')
  BY <1>2, <1>3, ExpiresTwice
<1>5. QED
  BY <1>1, <1>4, LapsedLapses DEF QuietStep

(* The calls that are quiet, and the others. *)
QuietCall ==
  \/ Tick \/ MemberStep \/ ReadStep \/ IssueStep \/ ProgramStep
  \/ \E k, o, f : \E m \in Members : PostAccrualAgain(k, m, o, f)
  \/ \E k, rd, rw, o, i : \E m \in Members : ReserveAgain(k, m, rd, rw, o, i)
  \/ \E k, op, st : \E r \in DOMAIN reservations : SettleAgain(k, r, op, st)
  \/ \E r \in DOMAIN reservations : RejectOverdueReservation(r)
  \/ \E m \in Members, u \in Units : RejectLowBalance(m, u)
  \/ \E k, x, o, a : \E m \in Members : AdjustOrderAgain(k, m, x, o, a)
  \/ \E k, x, a : \E m \in Members : PostManualAdjustmentAgain(k, m, x, a)
  \/ \E m \in Members : \E us : RejectAdjustment(m, us)

LEMMA Calls ==
  ASSUME Next
  PROVE  \/ QuietCall
         \/ \E k : \E m \in Members, o \in Orders, f \in Facts : PostAccrual(k, m, o, f)
         \/ \E k : \E m \in Members, rd \in Redemptions, o \in Orders, rw \in DOMAIN program.rewards :
              \/ Reserve(k, m, rd, rw, o)
              \/ \E i \in DOMAIN issuedRewards : ReserveIssued(k, m, rd, rw, o, i)
         \/ \E k : \E r \in DOMAIN reservations : Capture(k, r) \/ ReverseHold(k, r) \/ ReverseCapture(k, r)
         \/ \E k : \E m \in Members, x \in AdjustmentIds, o \in Orders, a \in OrderAdjustments :
              AdjustOrder(k, m, x, o, a)
         \/ \E k : \E m \in Members, x \in AdjustmentIds, a \in ManualAdjustments :
              PostManualAdjustment(k, m, x, a)
<1>1. CASE Tick \/ MemberStep \/ ReadStep \/ IssueStep \/ ProgramStep
  BY <1>1 DEF QuietCall
<1>2. CASE AccrualStep
  BY <1>2 DEF AccrualStep, QuietCall
<1>3. CASE RedemptionStep
  BY <1>3 DEF RedemptionStep, QuietCall
<1>4. CASE AdjustmentStep
  BY <1>4 DEF AdjustmentStep, QuietCall
<1>5. QED
  BY <1>1, <1>2, <1>3, <1>4 DEF Next

LEMMA QuietCalls == ASSUME Good, QuietCall PROVE QuietStep
<1>0. Sound(book)
  BY GoodParts
<1>1. OnlyExpires(book, book)
  BY <1>0, SameExpires
<1>2. CASE UNCHANGED <<book, reservations>>
  BY <1>1, <1>2, SameLapses DEF QuietStep
<1>3. ASSUME NEW m, ReportBalances(book, m) PROVE QuietStep
  BY <1>1, <1>3, QuietReport
<1>5. ASSUME NEW ms, NEW us, NEW m, ReportBalances(ExpirePointLots(book, ms, us, now), m) PROVE QuietStep
  <2>1. OnlyExpires(book, ExpirePointLots(book, ms, us, now))
    BY <1>0, ExpiryOnlyExpires
  <2>2. QED
    BY <1>5, <2>1, QuietReport
<1>6. ASSUME NEW ms, NEW us, book' = ExpirePointLots(book, ms, us, now),
             reservations' = reservations \/ reservations' = Lapsed
      PROVE  QuietStep
  BY <1>0, <1>6, ExpiryOnlyExpires, SameLapses, LapsedLapses DEF QuietStep
<1>7. ASSUME NEW m, book' = MetricBook(m), reservations' = MetricReservations PROVE QuietStep
  BY <1>2, <1>6, <1>7 DEF MetricBook, MetricReservations, Balance
<1>8. CASE Tick
  BY <1>2, <1>8 DEF Tick, walletVars
<1>9. CASE MemberStep
  <2>1. ASSUME NEW k, NEW i, Lookup(k, i) PROVE QuietStep
    BY <1>2, <1>3, <2>1 DEF Lookup
  <2>2. ASSUME NEW k, NEW i, NEW m, Enroll(k, i, m) \/ EnrollAgain(k, i, m) PROVE QuietStep
    BY <1>3, <2>2 DEF Enroll, EnrollAgain
  <2>3. ASSUME NEW m, NEW v, \/ CancelMember(m) \/ EraseMember(m) \/ InspectMemberErasure(m)
                             \/ SetMemberMembership(m, v)
        PROVE  QuietStep
    BY <1>7, <2>3 DEF CancelMember, EraseMember, InspectMemberErasure, SetMemberMembership
  <2>4. QED
    BY <1>9, <2>1, <2>2, <2>3 DEF MemberStep
<1>10. CASE ReadStep
  <2>1. ASSUME NEW k, NEW m, GetAccount(k, m) PROVE QuietStep
    BY <1>5, <2>1 DEF GetAccount
  <2>2. ASSUME NEW k, NEW m, ListLedger(k, m) PROVE QuietStep
    BY <1>6, <2>2 DEF ListLedger, walletVars
  <2>3. ASSUME NEW k, NEW m, ListIssuedRewards(k, m) PROVE QuietStep
    BY <1>2, <2>3 DEF ListIssuedRewards
  <2>4. ASSUME NEW k, NEW m, NEW f, Evaluate(k, m, f) PROVE QuietStep
    BY <1>3, <2>4 DEF Evaluate
  <2>5. ASSUME NEW k, GetProgram(k) PROVE QuietStep
    BY <1>2, <2>5 DEF GetProgram, walletVars
  <2>6. CASE GetLedger \/ Inspect
    BY <1>6, <2>6 DEF GetLedger, Inspect, walletVars
  <2>7. QED
    BY <1>10, <2>1, <2>2, <2>3, <2>4, <2>5, <2>6 DEF ReadStep
<1>11. CASE IssueStep
  BY <1>2, <1>11 DEF IssueStep, IssueReward, IssueRewardAgain, CancelIssuedReward, RejectOverdueReward, walletVars
<1>12. CASE ProgramStep
  <2>1. ASSUME NEW p, ReconfigureProgram(p) PROVE QuietStep
    BY <1>6, <2>1 DEF ReconfigureProgram
  <2>2. ASSUME NEW p, NEW m, NEW ms, RejectReconfigure(p, m, ms) PROVE QuietStep
    <3>1. PICK us, vs : book' = ExpirePointLots(ExpirePointLots(book, Known, us, now), ms, vs, now)
                        /\ reservations' = Lapsed
      BY <2>2 DEF RejectReconfigure
    <3> DEFINE b == ExpirePointLots(book, Known, us, now)
    <3>2. OnlyExpires(book, b)
      BY <1>0, ExpiryOnlyExpires
    <3>3. Sound(b) /\ book' = ExpirePointLots(b, ms, vs, now)
      BY <3>1, <3>2 DEF OnlyExpires
    <3> HIDE DEF b
    <3>4. OnlyExpires(b, book')
      BY <3>3, ExpiryOnlyExpires
    <3>5. OnlyExpires(book, book')
      BY <1>0, <3>2, <3>4, ExpiresTwice
    <3>6. QED
      BY <3>1, <3>5, LapsedLapses DEF QuietStep
  <2>3. QED
    BY <1>12, <2>1, <2>2 DEF ProgramStep
<1>13. ASSUME NEW k, NEW o, NEW f, NEW m, PostAccrualAgain(k, m, o, f) PROVE QuietStep
  BY <1>3, <1>13 DEF PostAccrualAgain
<1>14. ASSUME NEW k, NEW m, NEW rd, NEW rw, NEW o, NEW i, ReserveAgain(k, m, rd, rw, o, i) PROVE QuietStep
  BY <1>3, <1>14 DEF ReserveAgain
<1>15. ASSUME NEW k, NEW r, NEW op, NEW st, SettleAgain(k, r, op, st) PROVE QuietStep
  BY <1>3, <1>15 DEF SettleAgain
<1>16. ASSUME NEW r \in DOMAIN reservations, RejectOverdueReservation(r) PROVE QuietStep
  <2>1. reservations' = [reservations EXCEPT ![r] = LapsedOne(reservations[r])] /\ book' = book
    BY <1>16 DEF RejectOverdueReservation
  <2>2. IsReservation(reservations[r])
    BY HoldsAre
  <2> DEFINE x == LapsedOne(reservations[r])
  <2>3. /\ x.issued = reservations[r].issued /\ x.cost = reservations[r].cost
        /\ x.member = reservations[r].member
        /\ x.status = reservations[r].status \/ (reservations[r].status = "reserved" /\ x.status = "expired")
    BY <2>2, OneLapses
  <2> HIDE DEF x
  <2>4. DOMAIN reservations' = DOMAIN reservations
        /\ \A s \in DOMAIN reservations : reservations'[s] = IF s = r THEN x ELSE reservations[s]
    BY <2>1 DEF x
  <2>5. Lapses(reservations, reservations')
    BY <2>3, <2>4 DEF Lapses
  <2>6. QED
    BY <1>1, <2>1, <2>5 DEF QuietStep
<1>17. ASSUME NEW m, NEW u, RejectLowBalance(m, u) PROVE QuietStep
  BY <1>6, <1>17 DEF RejectLowBalance, Balance
<1>18. ASSUME NEW k, NEW m, NEW x, NEW o, NEW a, AdjustOrderAgain(k, m, x, o, a) PROVE QuietStep
  BY <1>5, <1>18 DEF AdjustOrderAgain
<1>19. ASSUME NEW k, NEW m, NEW x, NEW a, PostManualAdjustmentAgain(k, m, x, a) PROVE QuietStep
  BY <1>5, <1>19 DEF PostManualAdjustmentAgain, Balance
<1>20. ASSUME NEW m, NEW us, RejectAdjustment(m, us) PROVE QuietStep
  BY <1>6, <1>20 DEF RejectAdjustment, walletVars
<1>21. QED
  BY <1>8, <1>9, <1>10, <1>11, <1>12, <1>13, <1>14, <1>15, <1>16, <1>17, <1>18, <1>19, <1>20 DEF QuietCall

-------------------------------------------------------------------------------
(* Calls that post entries. *)

(* The entries that c adds to b have one of the operations ops, and the    *)
(* adjustments among them belong to one of the orders os.                  *)
Adds(b, c, ops, os) ==
  /\ Sound(c) /\ Continues(b, c) /\ KeepsLots(b, c)
  /\ \A i \in (Len(b.ledger) + 1)..Len(c.ledger) :
       /\ c.ledger[i].op \in ops
       /\ c.ledger[i].op = "adjustment" => c.ledger[i].order \in os

(* One entry is posted, among expirations. *)
PostsOne(b, c, e) ==
  /\ Sound(c) /\ Continues(b, c)
  /\ \E p \in (Len(b.ledger) + 1)..Len(c.ledger) :
       /\ c.ledger[p] = e
       /\ \A i \in (Len(b.ledger) + 1)..Len(c.ledger) : i # p => c.ledger[i].op = "expiration"

LEMMA AddsTwice ==
  ASSUME NEW a, NEW b, NEW c, NEW ops, NEW os, Sound(a),
         Adds(a, b, ops, os), Adds(b, c, ops, os)
  PROVE  Adds(a, c, ops, os)
<1>1. Len(a.ledger) \in Nat /\ Len(b.ledger) \in Nat /\ Len(c.ledger) \in Nat
  BY SoundLen DEF Adds
<1>2. Continues(a, c)
  BY ContinuesTransitive DEF Adds
<1>3. ASSUME NEW i \in (Len(a.ledger) + 1)..Len(c.ledger) 
      PROVE  /\ c.ledger[i].op \in ops
             /\ c.ledger[i].op = "adjustment" => c.ledger[i].order \in os
  <2>1. CASE i <= Len(b.ledger)
    BY <1>1, <2>1 DEF Adds, Continues
  <2>2. CASE i > Len(b.ledger)
    BY <1>1, <2>2 DEF Adds
  <2>3. QED
    BY <1>1, <2>1, <2>2
<1>4. KeepsLots(a, c)
  BY KeepsLotsTwice DEF Adds
<1>5. QED
  BY <1>2, <1>3, <1>4 DEF Adds

LEMMA ExpiresAdds ==
  ASSUME NEW b, NEW c, OnlyExpires(b, c), NEW ops, NEW os, "expiration" \in ops
  PROVE  Adds(b, c, ops, os)
BY DEF OnlyExpires, Adds

LEMMA EntriesAdded ==
  ASSUME NEW b, Sound(b), NEW es, IsSeq(es), \A i \in 1..Len(es) : IsEntry(es[i])
  PROVE  LET c == AddLedger(b, es)
         IN  /\ Sound(c) /\ Continues(b, c) /\ Len(c.ledger) = Len(b.ledger) + Len(es)
             /\ Len(b.ledger) \in Nat /\ Len(es) \in Nat
             /\ \A i \in (Len(b.ledger) + 1)..Len(c.ledger) : c.ledger[i] = es[i - Len(b.ledger)]
<1> DEFINE c == AddLedger(b, es)
<1>1. Sound(c) /\ Continues(b, c) /\ c.ledger = b.ledger \o es
  BY AddLedgerSound
<1> HIDE DEF c
<1>2. /\ Len(b.ledger) \in Nat /\ Len(es) \in Nat /\ Len(b.ledger \o es) = Len(b.ledger) + Len(es)
      /\ \A i \in (Len(b.ledger) + 1)..(Len(b.ledger) + Len(es)) : (b.ledger \o es)[i] = es[i - Len(b.ledger)]
  BY SeqConcat DEF Sound, IsBook
<1>3. QED
  BY <1>1, <1>2 DEF c

LEMMA OneSeq ==
  ASSUME NEW e, IsEntry(e)
  PROVE  /\ IsSeq(<<e>>) /\ Len(<<e>>) = 1 /\ <<e>>[1] = e
         /\ \A i \in 1..Len(<<e>>) : IsEntry(<<e>>[i])
<1> DEFINE es == <<e>>
<1>1. Len(es) = 1 /\ es[1] = e /\ es \in Seq({e}) /\ DOMAIN es = 1..1
  OBVIOUS
<1>2. {es[i] : i \in DOMAIN es} = {e}
  BY <1>1
<1>3. IsSeq(es) /\ \A i \in 1..Len(es) : IsEntry(es[i])
  BY <1>1, <1>2 DEF IsSeq
<1>4. QED
  BY <1>1, <1>3

LEMMA OneKeepsLots ==
  ASSUME NEW b, Sound(b), NEW e, IsEntry(e), e.op # "expiration"
  PROVE  KeepsLots(b, AddLedger(b, <<e>>))
<1> DEFINE es == <<e>>
<1>1. IsSeq(es) /\ Len(es) = 1 /\ es[1] = e /\ \A i \in 1..Len(es) : IsEntry(es[i])
  BY OneSeq
<1> HIDE DEF es
<1>2. \A i \in 1..Len(es) : es[i].op # "expiration"
  BY <1>1
<1>3. KeepsLots(b, AddLedger(b, es))
  BY <1>1, <1>2, AddLedgerKeepsLots
<1>4. QED
  BY <1>3 DEF es

(* An entry posted on a swept book, whose lots have changed, and swept     *)
(* again.                                                                  *)
LEMMA PostedOne ==
  ASSUME NEW a, Sound(a), NEW b, OnlyExpires(a, b), NEW b1, Sound(b1), b1.ledger = b.ledger,
         NEW e, IsEntry(e), NEW d, OnlyExpires(AddLedger(b1, <<e>>), d)
  PROVE  PostsOne(a, d, e)
<1> DEFINE c == AddLedger(b1, <<e>>)
           es == <<e>>
           p == Len(b.ledger) + 1
<1>1. IsSeq(es) /\ Len(es) = 1 /\ es[1] = e /\ \A i \in 1..Len(es) : IsEntry(es[i])
  BY OneSeq
<1> HIDE DEF es
<1>2. c = AddLedger(b1, es) /\ OnlyExpires(c, d)
  BY DEF es
<1> HIDE DEF c
<1>3. /\ Sound(c) /\ Continues(b1, c) /\ Len(c.ledger) = Len(b.ledger) + 1 /\ Len(b.ledger) \in Nat
      /\ c.ledger[p] = es[p - Len(b.ledger)]
  <2>1. /\ Sound(c) /\ Continues(b1, c) /\ Len(c.ledger) = Len(b1.ledger) + Len(es) /\ Len(b1.ledger) \in Nat
        /\ \A i \in (Len(b1.ledger) + 1)..Len(c.ledger) : c.ledger[i] = es[i - Len(b1.ledger)]
    BY <1>1, <1>2, EntriesAdded
  <2>2. p \in (Len(b1.ledger) + 1)..Len(c.ledger)
    BY <1>1, <2>1
  <2>3. QED
    BY <1>1, <2>1, <2>2
<1>4. Len(a.ledger) \in Nat /\ Len(d.ledger) \in Nat /\ Len(a.ledger) <= Len(b.ledger)
      /\ Len(c.ledger) <= Len(d.ledger) /\ Sound(d) /\ Sound(b)
  BY <1>2, SoundLen DEF OnlyExpires, Continues
<1>5. c.ledger[p] = e
  BY <1>1, <1>3
<1>6. \A i \in 1..Len(b.ledger) : c.ledger[i] = b.ledger[i]
  BY <1>3 DEF Continues
<1>7. \A i \in 1..Len(c.ledger) : d.ledger[i] = c.ledger[i]
  BY <1>2 DEF OnlyExpires, Continues
<1>8. Continues(a, d)
  <2>1. Len(b.ledger) <= Len(c.ledger) /\ \A i \in 1..Len(a.ledger) : b.ledger[i] = a.ledger[i]
    BY <1>3, <1>4 DEF OnlyExpires, Continues
  <2>2. Len(a.ledger) <= Len(d.ledger)
    BY <1>3, <1>4, <2>1
  <2>3. ASSUME NEW i \in 1..Len(a.ledger) PROVE d.ledger[i] = a.ledger[i]
    <3>1. i \in 1..Len(b.ledger) /\ i \in 1..Len(c.ledger)
      BY <1>3, <1>4, <2>1
    <3>2. QED
      BY <1>6, <1>7, <2>1, <3>1, Zenon
  <2>4. QED
    BY <2>2, <2>3 DEF Continues
<1>9. ASSUME NEW i \in (Len(a.ledger) + 1)..Len(d.ledger), i # p PROVE d.ledger[i].op = "expiration"
  <2>1. CASE i < p
    BY <1>3, <1>4, <1>6, <1>7, <2>1 DEF OnlyExpires
  <2>2. CASE i > p
    BY <1>2, <1>3, <1>4, <2>2 DEF OnlyExpires
  <2>3. QED
    BY <1>3, <1>4, <1>9, <2>1, <2>2
<1>10. p \in (Len(a.ledger) + 1)..Len(d.ledger) /\ d.ledger[p] = e
  BY <1>3, <1>4, <1>5, <1>7
<1> HIDE DEF p
<1>11. QED
  BY <1>4, <1>8, <1>9, <1>10 DEF PostsOne

(* The calls that post adjustments. *)
(* An adjustment of an order posts one entry for each unit of the          *)
(* program, in a row, among expirations.                                   *)
AdjustmentRow(b, c, o, a, bps, s) ==
  /\ Len(b.ledger) <= s /\ s + Len(program.units) <= Len(c.ledger)
  /\ \A i \in 1..Len(program.units) :
       LET e == c.ledger[s + i]
       IN  /\ e.op = "adjustment" /\ e.order = o /\ e.unit = program.units[i]
           /\ e.amount = AdjustmentAmount(o, program.units[i], a, bps)
  /\ \A i \in (Len(b.ledger) + 1)..Len(c.ledger) :
       i \in (s + 1)..(s + Len(program.units)) \/ c.ledger[i].op = "expiration"

LEMMA AdjustOrderPosts ==
  ASSUME Good, NEW k, NEW m \in Members, NEW x \in AdjustmentIds, NEW o \in Orders,
         NEW a \in OrderAdjustments, AdjustOrder(k, m, x, o, a)
  PROVE  /\ Adds(book, book', {"adjustment", "expiration"}, {o}) /\ reservations' = Lapsed
         /\ \E s \in Nat, bps \in Int : AdjustmentRow(book, book', o, a, bps, s)
<1> DEFINE ops    == {"adjustment", "expiration"}
           b0     == ExpirePointLots(book, {m}, Units, now)
           bps    == AdjustmentBps(b0, m, o)
           amount == [u \in Units |-> IF u \in UnitSet(program)
                                      THEN AdjustmentAmount(o, u, a, bps) ELSE 0]
           debit  == [u \in Units |-> NonNegative(-amount[u])]
           es     == [i \in 1..Len(program.units) |->
                        AdjustmentEntry(m, x, o, program.units[i], amount[program.units[i]])]
           b1     == ConsumePointLots(b0, m, debit, None)
           b2     == AddLedger(b1, es)
<1>0. Sound(book) /\ now \in Nat /\ program \in Programs
  BY GoodParts
<1>1. OnlyExpires(book, b0) /\ Sound(b0)
  BY <1>0, ExpiryOnlyExpires DEF OnlyExpires
<1>2. book' = ExpirePointLots(b2, {m}, UnitSet(program), now) /\ reservations' = Lapsed
  BY DEF AdjustOrder, ReportBalances, Balances
<1>3. bps \in Int
  <2> HIDE DEF b0
  <2>1. QED
    BY <1>1, AdjustmentBpsType
<1> HIDE DEF b0, bps
<1>4. amount \in [Units -> Int]
  BY <1>3, AdjustmentAmountType
<1> HIDE DEF amount
<1>5. debit \in [Units -> Int]
  BY <1>4 DEF NonNegative
<1>6. Len(program.units) \in Nat /\ \A i \in 1..Len(program.units) : program.units[i] \in UnitSet(program) /\ program.units[i] \in Units
  BY <1>0, UnitsType
<1>7. IsSeq(es) /\ Len(es) = Len(program.units)
  BY <1>6, FunctionIsSeq
<1>8. ASSUME NEW i \in 1..Len(es) 
      PROVE  /\ IsEntry(es[i]) /\ es[i].op = "adjustment" /\ es[i].order = o
             /\ es[i].unit = program.units[i]
             /\ es[i].amount = AdjustmentAmount(o, program.units[i], a, bps)
  <2>1. /\ program.units[i] \in UnitSet(program) /\ program.units[i] \in Units
        /\ es[i] = AdjustmentEntry(m, x, o, program.units[i], amount[program.units[i]])
    BY <1>6, <1>7
  <2>a. amount[program.units[i]] = AdjustmentAmount(o, program.units[i], a, bps)
    BY <2>1 DEF amount
  <2>2. amount[program.units[i]] \in Int /\ LotExpiry(program, program.units[i], now) \in Int
    BY <1>0, <1>4, <2>1, LotExpiryType
  <2> HIDE DEF es
  <2>3. QED
    BY <2>1, <2>a, <2>2 DEF AdjustmentEntry, IsEntry, EntryOps, NoExpiry
<1> HIDE DEF debit, es
<1>9. Sound(b1) /\ b1.ledger = b0.ledger /\ KeepsLots(b0, b1)
  BY <1>1, <1>5, ConsumePointLotsSound, ConsumeUnnamedKeepsLots
<1> HIDE DEF b1
<1> DEFINE s == Len(b0.ledger)
<1>r. /\ Len(b2.ledger) = s + Len(program.units) /\ s \in Nat /\ Sound(b2) /\ Continues(b0, b2)
      /\ \A i \in 1..Len(program.units) : b2.ledger[s + i] = es[i]
  <2>1. /\ Sound(b2) /\ Continues(b1, b2) /\ Len(b2.ledger) = Len(b1.ledger) + Len(es)
        /\ Len(b1.ledger) \in Nat /\ Len(es) \in Nat
        /\ \A i \in (Len(b1.ledger) + 1)..Len(b2.ledger) : b2.ledger[i] = es[i - Len(b1.ledger)]
    BY <1>7, <1>8, <1>9, EntriesAdded
  <2> HIDE DEF b2
  <2>2. ASSUME NEW i \in 1..Len(program.units) PROVE b2.ledger[s + i] = es[i]
    <3>0. i \in 1..Len(es) /\ Len(b1.ledger) = s
      BY <1>7, <1>9
    <3> HIDE DEF s
    <3>a. i \in Nat /\ 1 <= i /\ i <= Len(es) /\ s \in Nat /\ Len(b2.ledger) = s + Len(es)
      BY <2>1, <3>0
    <3>1. s + i \in (s + 1)..Len(b2.ledger) /\ (s + i) - s = i
      BY <2>1, <3>a
    <3>2. QED
      BY <2>1, <3>0, <3>1
  <2>3. Continues(b0, b2)
    BY <1>9, <2>1 DEF Continues
  <2>4. QED
    BY <1>7, <1>9, <2>1, <2>2, <2>3
<1>10. Adds(b0, b2, ops, {o})
  <2>1. /\ Sound(b2) /\ Continues(b1, b2) /\ Len(b2.ledger) = Len(b1.ledger) + Len(es)
        /\ Len(b1.ledger) \in Nat /\ Len(es) \in Nat
        /\ \A i \in (Len(b1.ledger) + 1)..Len(b2.ledger) : b2.ledger[i] = es[i - Len(b1.ledger)]
    BY <1>7, <1>8, <1>9, EntriesAdded
  <2>k. KeepsLots(b0, b2)
    <3>1. \A i \in 1..Len(es) : IsEntry(es[i]) /\ es[i].op # "expiration"
      BY <1>8
    <3>2. KeepsLots(b1, b2)
      BY <1>7, <1>9, <3>1, AddLedgerKeepsLots
    <3> HIDE DEF b2
    <3>3. QED
      BY <1>9, <3>2, KeepsLotsTwice
  <2> HIDE DEF b2
  <2>2. Continues(b0, b2)
    BY <1>9, <2>1 DEF Continues
  <2>3. ASSUME NEW i \in (Len(b0.ledger) + 1)..Len(b2.ledger) 
                PROVE  b2.ledger[i].op = "adjustment" /\ b2.ledger[i].order = o
    <3>1. i - Len(b1.ledger) \in 1..Len(es) /\ b2.ledger[i] = es[i - Len(b1.ledger)]
      BY <1>9, <2>1
    <3>2. QED
      BY <1>8, <3>1
  <2>4. QED
    BY <2>1, <2>k, <2>2, <2>3 DEF Adds
<1> HIDE DEF b2
<1>11. Adds(book, b0, ops, {o}) /\ Adds(b2, book', ops, {o})
  BY <1>1, <1>2, <1>10, ExpiryOnlyExpires, ExpiresAdds DEF Adds
<1> HIDE DEF ops
<1>12. Adds(book, book', ops, {o})
  BY <1>0, <1>1, <1>10, <1>11, AddsTwice
<1>13. AdjustmentRow(book, book', o, a, bps, s)
  <2> DEFINE n == Len(program.units)
  <2>0. s = Len(b0.ledger) /\ n = Len(program.units)
    OBVIOUS
  <2> HIDE DEF s, n
  <2>1. OnlyExpires(b2, book')
    BY <1>2, <1>r, ExpiryOnlyExpires
  <2>2. /\ Len(book.ledger) \in Nat /\ Len(book'.ledger) \in Nat /\ n \in Nat
        /\ Len(book.ledger) <= s /\ s + n <= Len(book'.ledger)
    <3>1. Sound(book') /\ Len(b2.ledger) <= Len(book'.ledger) /\ Len(book.ledger) <= Len(b0.ledger)
      BY <1>1, <2>1 DEF OnlyExpires, Continues
    <3>2. Len(book.ledger) \in Nat /\ Len(book'.ledger) \in Nat
      BY <1>0, <3>1, SoundLen
    <3>3. Len(b2.ledger) = s + n /\ n \in Nat
      BY <1>6, <1>r, <2>0
    <3>4. QED
      BY <2>0, <3>1, <3>2, <3>3
  <2>3. ASSUME NEW i \in 1..n PROVE book'.ledger[s + i] = es[i]
    <3>0. i \in Nat /\ 1 <= i /\ i <= n /\ s \in Nat /\ Len(b2.ledger) = s + n
      BY <1>r, <2>0, <2>2
    <3>1. s + i \in 1..Len(b2.ledger)
      BY <2>2, <3>0
    <3>2. b2.ledger[s + i] = es[i]
      BY <1>r, <2>0
    <3>3. QED
      BY <2>1, <3>1, <3>2 DEF OnlyExpires, Continues
  <2>4. ASSUME NEW i \in (Len(book.ledger) + 1)..Len(book'.ledger)
        PROVE  i \in (s + 1)..(s + n) \/ book'.ledger[i].op = "expiration"
    <3>0. /\ i \in Nat /\ Len(book.ledger) + 1 <= i /\ i <= Len(book'.ledger) /\ 1 <= i
          /\ s \in Nat /\ Len(b2.ledger) = s + n
      BY <1>r, <2>0, <2>2, <2>4
    <3>1. CASE i <= s
      <4>1. i \in (Len(book.ledger) + 1)..s /\ i \in 1..s /\ i \in 1..Len(b2.ledger)
        BY <2>2, <3>0, <3>1
      <4>2. book'.ledger[i] = b2.ledger[i]
        BY <2>1, <4>1 DEF OnlyExpires, Continues
      <4>3. b2.ledger[i] = b0.ledger[i]
        BY <1>r, <2>0, <4>1 DEF Continues
      <4>4. b0.ledger[i].op = "expiration"
        BY <1>1, <2>0, <4>1 DEF OnlyExpires
      <4>5. QED
        BY <4>2, <4>3, <4>4
    <3>2. CASE i > s + n
      <4>1. i \in (Len(b2.ledger) + 1)..Len(book'.ledger)
        BY <2>2, <3>0, <3>2
      <4>2. QED
        BY <2>1, <4>1 DEF OnlyExpires
    <3>3. CASE s < i /\ i <= s + n
      BY <2>2, <3>0, <3>3
    <3>4. QED
      BY <2>2, <3>0, <3>1, <3>2, <3>3
  <2>5. \A i \in 1..n : IsEntry(es[i]) /\ es[i].op = "adjustment" /\ es[i].order = o
                         /\ es[i].unit = program.units[i]
                         /\ es[i].amount = AdjustmentAmount(o, program.units[i], a, bps)
    BY <1>7, <1>8, <2>0
  <2>6. ASSUME NEW i \in 1..n
        PROVE  LET e == book'.ledger[s + i]
               IN  /\ e.op = "adjustment" /\ e.order = o /\ e.unit = program.units[i]
                   /\ e.amount = AdjustmentAmount(o, program.units[i], a, bps)
    BY <2>3, <2>5
  <2>7. QED
    BY <2>0, <2>2, <2>4, <2>6 DEF AdjustmentRow
<1>14. s \in Nat
  BY <1>r
<1> HIDE DEF s
<1>15. QED
  BY <1>2, <1>3, <1>12, <1>13, <1>14 DEF ops

LEMMA ManualPosts ==
  ASSUME Good, NEW k, NEW m \in Members, NEW x \in AdjustmentIds, NEW a \in ManualAdjustments,
         PostManualAdjustment(k, m, x, a)
  PROVE  /\ PostsOne(book, book', ManualEntry(m, x, a)) /\ KeepsLots(book, book')
         /\ reservations' = Lapsed
<1> DEFINE b0 == Balance(book, m, a.unit)
           d  == Debit(a.unit, -a.amount)
           c  == ConsumePointLots(b0, m, d, None)
           b1 == IF a.amount > 0 THEN b0 ELSE c
           e  == ManualEntry(m, x, a)
           b2 == AddLedger(b1, <<e>>)
<1>0. Sound(book) /\ now \in Nat /\ program \in Programs
  BY GoodParts
<1>1. book' = ExpirePointLots(b2, {m}, UnitSet(program), now) /\ reservations' = Lapsed
  BY DEF PostManualAdjustment, ReportBalances, Balances
<1>2. a.amount \in Int /\ a.expires \in Nat /\ a.unit \in UnitSet(program) /\ a.unit \in Units
  BY <1>0, RequestAssumption, ProgramAssumption
     DEF PostManualAdjustment, ManualAllowed, AssertProgram, UnitsValid
<1>3. LotExpiry(program, a.unit, now) \in Int
  BY <1>0, <1>2, LotExpiryType
<1>4. IsEntry(e) /\ e.op # "expiration"
  BY <1>2, <1>3 DEF ManualEntry, IsEntry, EntryOps, NoExpiry
<1>5. d \in [Units -> Int]
  BY <1>2, DebitType
<1>6. OnlyExpires(book, b0) /\ Sound(b0)
  BY <1>0, ExpiryOnlyExpires DEF OnlyExpires, Balance
<1> HIDE DEF b0, d, e
<1>7. Sound(c) /\ c.ledger = b0.ledger /\ KeepsLots(b0, c)
  BY <1>5, <1>6, ConsumePointLotsSound, ConsumeUnnamedKeepsLots
<1> HIDE DEF c
<1>8. Sound(b1) /\ b1.ledger = b0.ledger /\ KeepsLots(b0, b1)
  BY <1>6, <1>7 DEF KeepsLots
<1> HIDE DEF b1
<1>9. Sound(b2)
  BY <1>4, <1>8, OneSeq, AddLedgerSound
<1>10. OnlyExpires(b2, book')
  <2> HIDE DEF b2
  <2>1. QED
    BY <1>1, <1>9, ExpiryOnlyExpires
<1>11. PostsOne(book, book', e)
  BY <1>0, <1>4, <1>6, <1>8, <1>10, PostedOne
<1>12. KeepsLots(book, book')
  <2>1. KeepsLots(b1, b2)
    BY <1>4, <1>8, OneKeepsLots
  <2> HIDE DEF b2
  <2>2. KeepsLots(book, b0) /\ KeepsLots(b2, book')
    BY <1>6, <1>10 DEF OnlyExpires
  <2>3. QED
    BY <1>8, <2>1, <2>2, KeepsLotsTwice
<1>13. QED
  BY <1>1, <1>11, <1>12 DEF e

(* Capture and reversal *)
LEMMA CapturePosts ==
  ASSUME Good, NEW k, NEW r \in DOMAIN reservations, Capture(k, r)
  PROVE  /\ IF reservations[r].cost = 0 THEN OnlyExpires(book, book')
            ELSE PostsOne(book, book', RedemptionEntry(r, "redemption", -reservations[r].cost))
         /\ LotsGood(book, Len(reservations)) => LotsGood(book', Len(reservations))
<1> DEFINE res == reservations[r]
           b0  == Balance(book, res.member, res.unit)
           d   == Debit(res.unit, res.cost)
           e   == RedemptionEntry(r, "redemption", -res.cost)
           b1  == ConsumePointLots(b0, res.member, d, r)
           b2  == AddLedger(b1, <<e>>)
           b3  == IF res.cost = 0 THEN b0 ELSE b2
<1>0. Sound(book)
  BY GoodParts
<1>1. book' = ExpirePointLots(b3, {res.member}, UnitSet(program), now)
  BY DEF Capture, Balances
<1>2. res.cost \in Nat
  BY HoldsAre DEF IsReservation
<1>3. d \in [Units -> Int] /\ IsEntry(e)
  BY <1>2, DebitType, RedemptionEntryOK DEF EntryOps
<1>o. e.op # "expiration" /\ Len(reservations) \in Nat /\ r \in 1..Len(reservations)
  BY HoldsAre DEF RedemptionEntry
<1>4. OnlyExpires(book, b0) /\ Sound(b0)
  BY <1>0, ExpiryOnlyExpires DEF OnlyExpires, Balance
<1> HIDE DEF b0, d
<1>5. CASE res.cost = 0
  <2>1. OnlyExpires(b0, book')
    BY <1>1, <1>4, <1>5, ExpiryOnlyExpires
  <2>2. OnlyExpires(book, book')
    BY <1>0, <1>4, <1>5, <2>1, ExpiresTwice
  <2>3. QED
    BY <1>5, <1>o, <2>2 DEF OnlyExpires, KeepsLots
<1>6. CASE res.cost # 0
  <2> HIDE DEF e
  <2>1. Sound(b1) /\ b1.ledger = b0.ledger
    BY <1>3, <1>4, ConsumePointLotsSound
  <2>k. LotsGood(b0, Len(reservations)) => LotsGood(b1, Len(reservations))
    BY <1>3, <1>4, <1>o, ConsumeKeepsLots
  <2> HIDE DEF b1
  <2>2. Sound(b2)
    BY <1>3, <2>1, OneSeq, AddLedgerSound
  <2>3. OnlyExpires(b2, book')
    <3> HIDE DEF b2
    <3>1. QED
      BY <1>1, <1>6, <2>2, ExpiryOnlyExpires
  <2>4. PostsOne(book, book', e)
    BY <1>0, <1>3, <1>4, <2>1, <2>3, PostedOne
  <2>5. LotsGood(book, Len(reservations)) => LotsGood(book', Len(reservations))
    <3>1. KeepsLots(b1, b2)
      BY <1>3, <1>o, <2>1, OneKeepsLots
    <3> HIDE DEF b2
    <3>2. QED
      BY <1>4, <1>o, <2>k, <2>3, <3>1 DEF OnlyExpires, KeepsLots
  <2>6. QED
    BY <1>6, <2>4, <2>5 DEF e
<1>7. QED
  BY <1>5, <1>6

LEMMA ReversalPosts ==
  ASSUME Good, NEW k, NEW r \in DOMAIN reservations, ReverseCapture(k, r)
  PROVE  /\ IF reservations[r].cost = 0 THEN OnlyExpires(book, book')
            ELSE PostsOne(book, book', RedemptionEntry(r, "reversal", reservations[r].cost))
         /\ KeepsLots(book, book')
<1> DEFINE res == reservations[r]
           e   == RedemptionEntry(r, "reversal", res.cost)
           b1  == RestorePointLots(book, r)
           b2  == AddLedger(b1, <<e>>)
           b3  == Balance(b2, res.member, res.unit)
           b4  == IF res.cost = 0 THEN book ELSE b3
<1>0. Sound(book)
  BY GoodParts
<1>1. book' = ExpirePointLots(b4, {res.member}, UnitSet(program), now)
  BY DEF ReverseCapture, Balances
<1>2. res.cost \in Nat
  BY HoldsAre DEF IsReservation
<1>3. IsEntry(e)
  BY <1>2, RedemptionEntryOK DEF EntryOps
<1>o. e.op # "expiration"
  BY DEF RedemptionEntry
<1>4. Sound(b1) /\ b1.ledger = book.ledger /\ KeepsLots(book, b1)
  BY <1>0, RestorePointLotsSound, RestoreKeepsLots
<1> HIDE DEF b1
<1>5. CASE res.cost = 0
  <2>1. OnlyExpires(book, book')
    BY <1>0, <1>1, <1>5, ExpiryOnlyExpires
  <2>2. QED
    BY <1>5, <2>1 DEF OnlyExpires
<1>6. CASE res.cost # 0
  <2> HIDE DEF e
  <2>1. Sound(b2)
    BY <1>3, <1>4, OneSeq, AddLedgerSound
  <2>2. OnlyExpires(b2, book')
    <3> HIDE DEF b2
    <3>1. OnlyExpires(b2, b3) /\ Sound(b3)
      BY <2>1, ExpiryOnlyExpires DEF Balance, OnlyExpires
    <3> HIDE DEF b3
    <3>2. OnlyExpires(b3, book')
      BY <1>1, <1>6, <3>1, ExpiryOnlyExpires
    <3>3. QED
      BY <2>1, <3>1, <3>2, ExpiresTwice
  <2>3. PostsOne(book, book', e)
    BY <1>0, <1>3, <1>4, <2>2, SameExpires, PostedOne
  <2>4. KeepsLots(book, book')
    <3>1. KeepsLots(b1, b2)
      BY <1>3, <1>o, <1>4, OneKeepsLots
    <3> HIDE DEF b2
    <3>2. QED
      BY <1>4, <2>2, <3>1, KeepsLotsTwice DEF OnlyExpires
  <2>5. QED
    BY <1>6, <2>3, <2>4 DEF e
<1>7. QED
  BY <1>5, <1>6

(* An accrual posts one entry for each unit of the program, in a row, and  *)
(* no other accrual.                                                       *)
AccrualRow(b, c, o, us, s) ==
  /\ Len(b.ledger) <= s /\ s + Len(us) <= Len(c.ledger)
  /\ \A i \in 1..Len(us) : /\ c.ledger[s + i].op = "accrual" /\ c.ledger[s + i].order = o
                           /\ c.ledger[s + i].unit = us[i]
  /\ \A i \in (Len(b.ledger) + 1)..Len(c.ledger) :
       \/ i \in (s + 1)..(s + Len(us))
       \/ /\ c.ledger[i].op \in {"adjustment", "expiration"}
          /\ c.ledger[i].op = "adjustment" => c.ledger[i].order = None

AccrualKeptAs(k, o, us, s) ==
  \E rec : /\ accruals' = Put(accruals, o, rec)
           /\ rec.entries = [i \in 1..Len(us) |-> s + i]
           /\ idempotency'[<<"accrual.post", k>>].resp = [order |-> o, entries |-> rec.entries]

LEMMA AccrualPosts ==
  ASSUME Good, NEW k, NEW m \in Members, NEW o \in Orders, NEW f \in Facts, PostAccrual(k, m, o, f)
  PROVE  /\ Sound(book') /\ Continues(book, book') /\ KeepsLots(book, book')
         /\ reservations' = Lapsed
         /\ \E s \in Nat : AccrualRow(book, book', o, program.units, s) /\ AccrualKeptAs(k, o, program.units, s)
<1> DEFINE ops    == {"adjustment", "expiration"}
           b0     == MetricBook(m)
           bps    == EarningMultiplierBps(program, b0, m, members[m].membership, now)
           n      == Len(program.units)
           es     == [i \in 1..n |-> AccrualEntry(m, o, f, program.units[i], bps)]
           ids    == [i \in 1..n |-> Len(b0.ledger) + i]
           main   == CHOOSE i \in 1..n : program.units[i] = program.primary
           a      == AddLedger(b0, es)
           b1     == StampSweep(a, m)
           cycles == NewCycles(b1, m)
           b2     == ResetStamps(b1, m, cycles)
           b3     == ExpirePointLots(b2, {m}, UnitSet(program), now)
           rec    == [entry |-> ids[main], entries |-> ids, fp |-> <<m, f>>, bps |-> bps]
           stamps == {StampId(m, c) : c \in cycles}
<1>0. now \in Nat /\ program \in Programs /\ Sound(book)
  BY GoodParts
<1>1. /\ accruals' = Put(accruals, o, rec) /\ ReportBalances(b2, m)
      /\ idempotency' =
              [x \in DOMAIN idempotency \cup {<<"accrual.post", k>>}
                                       \cup {<<"issued_reward.issue", i>> : i \in stamps} |->
                 IF x = <<"accrual.post", k>>
                 THEN [fp |-> <<m, o, f>>, resp |-> [order |-> o, entries |-> ids]]
                 ELSE IF x \in DOMAIN idempotency THEN idempotency[x]
                 ELSE [fp |-> <<x[2], StampReward(m)>>, resp |-> [issued |-> x[2], status |-> "issued"]]]
  BY DEF PostAccrual
<1>r. idempotency'[<<"accrual.post", k>>].resp = [order |-> o, entries |-> ids]
  <2> HIDE DEF ids, stamps
  <2>1. idempotency'[<<"accrual.post", k>>] = [fp |-> <<m, o, f>>, resp |-> [order |-> o, entries |-> ids]]
    BY <1>1
  <2>2. QED
    BY <2>1
<1> HIDE DEF stamps
<1>2. book' = b3 /\ reservations' = Lapsed
  BY <1>1 DEF ReportBalances, Balances
<1>3. OnlyExpires(book, b0) /\ Sound(b0) /\ Len(b0.ledger) \in Nat
  <2>1. OnlyExpires(book, b0)
    BY <1>0, SameExpires, ExpiryOnlyExpires DEF MetricBook, Balance
  <2>2. QED
    BY <2>1, SoundLen DEF OnlyExpires
<1> HIDE DEF b0
<1>4. bps \in Int
  BY <1>0, <1>3, EarningMultiplierType DEF Sound
<1> HIDE DEF bps
<1>5. n \in Nat /\ \A i \in 1..n : program.units[i] \in UnitSet(program) /\ program.units[i] \in Units
  BY <1>0, UnitsType
<1>6. IsSeq(es) /\ Len(es) = n
  BY <1>5, FunctionIsSeq
<1>7. ASSUME NEW i \in 1..n
      PROVE  IsEntry(es[i]) /\ es[i].op = "accrual" /\ es[i].order = o /\ es[i].unit = program.units[i]
  <2> DEFINE u == program.units[i]
  <2>1. u \in UnitSet(program) /\ u \in Units /\ es[i] = AccrualEntry(m, o, f, u, bps)
    BY <1>5, <1>6
  <2> HIDE DEF u, es
  <2>2. AccrualAmount(program, u, f, bps) \in Int /\ LotExpiry(program, u, now) \in Int
    BY <1>0, <1>4, <2>1, AccrualAmountType, LotExpiryType
  <2>3. QED
    BY <2>1, <2>2 DEF AccrualEntry, IsEntry, EntryOps, NoExpiry, u
<1>8. rec.entries = ids /\ "entries" \in DOMAIN rec
  OBVIOUS
<1> HIDE DEF es, rec
<1>9. /\ Sound(a) /\ Continues(b0, a) /\ KeepsLots(b0, a) /\ Len(a.ledger) = Len(b0.ledger) + n
      /\ \A i \in (Len(b0.ledger) + 1)..Len(a.ledger) : a.ledger[i] = es[i - Len(b0.ledger)]
  <2>1. IsSeq(es) /\ Len(es) = n /\ \A i \in 1..Len(es) : IsEntry(es[i]) /\ es[i].op # "expiration"
    BY <1>6, <1>7
  <2> HIDE DEF n
  <2>2. KeepsLots(b0, a)
    BY <1>3, <2>1, AddLedgerKeepsLots
  <2>3. QED
    BY <1>3, <2>1, <2>2, EntriesAdded
<1> HIDE DEF a
<1>10. Adds(a, b1, ops, {None}) /\ Sound(b1)
  <2>1. OnlyExpires(a, b1)
    BY <1>9, SameExpires, ExpiryOnlyExpires DEF StampSweep, Balance
  <2>2. QED
    BY <2>1, ExpiresAdds DEF OnlyExpires
<1> HIDE DEF b1
<1>11. IsFiniteSet(cycles)
  BY <1>10, CyclesFinite
<1> HIDE DEF cycles
<1>12. Adds(b1, b2, ops, {None}) /\ Sound(b2)
  <2> DEFINE rs == [i \in 1..Cardinality(cycles) |-> ResetEntry(m, StampId(m, IssuedCycles(m) + i))]
  <2>1. Sound(b2) /\ Continues(b1, b2)
    BY <1>10, <1>11, ResetStampsSound
  <2>2. CASE program.visit = None \/ ~program.visit.reset
    <3>1. b2 = b1
      BY <2>2 DEF ResetStamps
    <3>2. QED
      BY <1>10, <3>1, SameExpires, ExpiresAdds
  <2>3. CASE ~(program.visit = None \/ ~program.visit.reset)
    <3>1. b2 = AddLedger(b1, rs)
      BY <2>3 DEF ResetStamps
    <3>2. Cardinality(cycles) \in Nat
      BY <1>11, FS_CardinalityType
    <3>3. IsSeq(rs) /\ Len(rs) = Cardinality(cycles)
      BY <3>2, FunctionIsSeq
    <3>4. program.visit.threshold \in Nat /\ program.visit.unit \in Units
      BY <1>0, <2>3, ProgramAssumption DEF AssertProgram, CardValid, UnitsValid
    <3>5. ASSUME NEW i \in 1..Len(rs) 
                PROVE  IsEntry(rs[i]) /\ rs[i].op = "adjustment" /\ rs[i].order = None
      <4>1. rs[i] = ResetEntry(m, StampId(m, IssuedCycles(m) + i))
        BY <3>3
      <4> HIDE DEF rs
      <4>2. QED
        BY <3>4, <4>1 DEF ResetEntry, IsEntry, EntryOps, NoExpiry
    <3> HIDE DEF rs, b2
    <3>k. KeepsLots(b1, b2)
      <4>1. \A i \in 1..Len(rs) : IsEntry(rs[i]) /\ rs[i].op # "expiration"
        BY <3>5
      <4>2. QED
        BY <1>10, <3>1, <3>3, <4>1, AddLedgerKeepsLots
    <3>6. /\ Len(b2.ledger) = Len(b1.ledger) + Len(rs) /\ Len(b1.ledger) \in Nat /\ Len(rs) \in Nat
          /\ \A i \in (Len(b1.ledger) + 1)..Len(b2.ledger) : b2.ledger[i] = rs[i - Len(b1.ledger)]
      BY <1>10, <3>1, <3>3, <3>5, EntriesAdded
    <3>7. ASSUME NEW i \in (Len(b1.ledger) + 1)..Len(b2.ledger) 
                PROVE  b2.ledger[i].op \in ops /\ b2.ledger[i].order \in {None}
      <4>1. i - Len(b1.ledger) \in 1..Len(rs) /\ b2.ledger[i] = rs[i - Len(b1.ledger)]
        BY <3>6
      <4>2. QED
        BY <3>5, <4>1
    <3>8. QED
      BY <2>1, <3>k, <3>7 DEF Adds
  <2>4. QED
    BY <2>1, <2>2, <2>3
<1> HIDE DEF b2
<1>13. Adds(b2, b3, ops, {None})
  BY <1>12, ExpiryOnlyExpires, ExpiresAdds
<1> HIDE DEF b3, ops
<1>14. Adds(a, b3, ops, {None})
  BY <1>9, <1>10, <1>12, <1>13, AddsTwice
<1> DEFINE s == Len(b0.ledger)
<1>15. /\ s \in Nat /\ Len(book.ledger) \in Nat /\ Len(b3.ledger) \in Nat /\ Len(book.ledger) <= s
       /\ s + n <= Len(b3.ledger) /\ Sound(b3)
  BY <1>0, <1>3, <1>5, <1>9, <1>14, SoundLen DEF OnlyExpires, Adds, Continues
<1> HIDE DEF n
<1>16. ASSUME NEW i \in 1..n
       PROVE  b3.ledger[s + i].op = "accrual" /\ b3.ledger[s + i].order = o /\ b3.ledger[s + i].unit = program.units[i]
  <2>1. s + i \in (s + 1)..Len(a.ledger) /\ s + i \in 1..Len(a.ledger) /\ (s + i) - s = i
    BY <1>3, <1>5, <1>9
  <2>2. b3.ledger[s + i] = es[i]
    BY <1>9, <1>14, <2>1 DEF Adds, Continues
  <2>3. QED
    BY <1>7, <2>2
<1>17. ASSUME NEW i \in (Len(book.ledger) + 1)..Len(b3.ledger)
       PROVE  \/ i \in (s + 1)..(s + n)
              \/ /\ b3.ledger[i].op \in ops
                 /\ b3.ledger[i].op = "adjustment" => b3.ledger[i].order = None
  <2>1. CASE i <= s
    <3>1. i \in 1..Len(b0.ledger) /\ i \in 1..Len(a.ledger) /\ i \in (Len(book.ledger) + 1)..Len(b0.ledger)
      BY <1>3, <1>5, <1>9, <1>15, <2>1
    <3>2. b3.ledger[i] = b0.ledger[i] /\ b0.ledger[i].op = "expiration"
      BY <1>3, <1>9, <1>14, <3>1 DEF OnlyExpires, Adds, Continues
    <3>3. QED
      BY <3>2 DEF ops
  <2>2. CASE i > s + n
    BY <1>3, <1>5, <1>9, <1>14, <1>15, <2>2 DEF Adds
  <2>3. QED
    BY <1>5, <1>15, <2>1, <2>2
<1>18. Continues(book, b3)
  BY <1>0, <1>3, <1>9, <1>14, <1>15, ContinuesTransitive DEF OnlyExpires, Adds
<1>19. ids = [i \in 1..n |-> s + i]
  BY DEF n
<1>20. AccrualKeptAs(k, o, program.units, s)
  <2> HIDE DEF ids
  <2>1. QED
    BY <1>1, <1>r, <1>8, <1>19 DEF AccrualKeptAs, n
<1> HIDE DEF s, ids
<1>21. AccrualRow(book, b3, o, program.units, s)
  BY <1>15, <1>16, <1>17 DEF AccrualRow, n, ops
<1>22. KeepsLots(book, b3)
  <2>1. KeepsLots(book, b0) /\ KeepsLots(b0, a) /\ KeepsLots(a, b3)
    BY <1>3, <1>9, <1>14 DEF OnlyExpires, Adds
  <2>2. QED
    BY <2>1, KeepsLotsTwice
<1>23. QED
  BY <1>2, <1>15, <1>18, <1>20, <1>21, <1>22

(* What becomes of the holds: the overdue ones lapse, and one is settled   *)
(* or one is added.                                                        *)
LapsesOne(h, new) ==
  /\ new.issued = h.issued /\ new.cost = h.cost
  /\ new.status = h.status \/ (h.status = "reserved" /\ new.status = "expired")

Settles(rs, new, r, s) ==
  /\ DOMAIN new = DOMAIN rs
  /\ \A q \in DOMAIN rs \ {r} : LapsesOne(rs[q], new[q])
  /\ new[r].issued = rs[r].issued /\ new[r].cost = rs[r].cost /\ new[r].status = s

AddsHold(rs, new, i) ==
  /\ DOMAIN new = DOMAIN rs \cup {Len(rs) + 1} /\ Len(rs) + 1 \notin DOMAIN rs
  /\ \A q \in DOMAIN rs : LapsesOne(rs[q], new[q])
  /\ new[Len(rs) + 1].issued = i /\ new[Len(rs) + 1].status = "reserved"

LEMMA HoldSettled ==
  ASSUME Good, NEW r \in DOMAIN reservations, NEW s \in Statuses,
         reservations' = [Lapsed EXCEPT ![r].status = s]
  PROVE  Settles(reservations, reservations', r, s)
<1>1. ReservationsOK(Lapsed) /\ DOMAIN Lapsed = DOMAIN reservations
  BY LapsedOK
<1>2. DOMAIN Lapsed = 1..Len(Lapsed)
  BY <1>1, ReservationsDomain
<1>3. \A q \in DOMAIN reservations : LapsesOne(reservations[q], Lapsed[q])
  BY LapsedLapses DEF Lapses, LapsesOne
<1>4. IsReservation(Lapsed[r])
  BY <1>1, <1>2 DEF ReservationsOK
<1> DEFINE x == [Lapsed[r] EXCEPT !.status = s]
<1>5. x.status = s /\ x.issued = Lapsed[r].issued /\ x.cost = Lapsed[r].cost
  BY <1>4, StatusSet
<1>6. /\ DOMAIN reservations' = DOMAIN reservations /\ reservations'[r] = x
      /\ \A q \in DOMAIN reservations \ {r} : reservations'[q] = Lapsed[q]
  BY <1>1
<1> HIDE DEF x
<1>7. QED
  BY <1>3, <1>5, <1>6 DEF Settles, LapsesOne

LEMMA HoldAdded ==
  ASSUME Good, NEW k, NEW m, NEW rd, NEW rw, NEW o, NEW i, NEW b, AddReservation(k, m, rd, rw, o, i, b)
  PROVE  AddsHold(reservations, reservations', i)
<1> DEFINE c == IF i = None THEN program.rewards[rw].cost ELSE 0
           res == [redemption |-> rd, member |-> m, reward |-> rw, issued |-> i, order |-> o,
                   status |-> "reserved", unit |-> program.rewards[rw].unit,
                   cost |-> c, expires |-> now + program.ttl]
<1>1. reservations' = Append(Lapsed, res)
  BY DEF AddReservation
<1>2. res.issued = i /\ res.status = "reserved"
  OBVIOUS
<1> HIDE DEF res
<1>3. ReservationsOK(Lapsed) /\ DOMAIN Lapsed = DOMAIN reservations
  BY LapsedOK
<1>4. /\ DOMAIN Lapsed = 1..Len(Lapsed) /\ Len(Lapsed) \in Nat
      /\ DOMAIN reservations = 1..Len(reservations) /\ Len(reservations) \in Nat
  BY <1>3, ReservationsDomain, HoldsAre
<1>5. Len(Lapsed) = Len(reservations)
  <2> DEFINE g == Lapsed
  <2>1. g = [q \in 1..Len(reservations) |-> g[q]]
    BY <1>4 DEF Lapsed
  <2> HIDE DEF g
  <2>2. Len(g) = Len(reservations)
    BY <1>4, <2>1, FunctionIsSeq
  <2>3. QED
    BY <2>2 DEF g
<1> DEFINE V == {Lapsed[q] : q \in DOMAIN Lapsed} \cup {res}
           l == Lapsed
<1>6. l \in Seq(V) /\ res \in V
  BY <1>3, SeqMonotonic DEF ReservationsOK, IsSeq
<1>7. Len(l) = Len(reservations) /\ \A q \in DOMAIN reservations : LapsesOne(reservations[q], l[q])
  BY <1>5, LapsedLapses DEF Lapses, LapsesOne
<1> HIDE DEF l, V
<1>8. /\ Append(l, res) \in Seq(V) /\ Len(Append(l, res)) = Len(l) + 1
      /\ \A q \in 1..Len(l) : Append(l, res)[q] = l[q]
      /\ Append(l, res)[Len(l) + 1] = res
  BY <1>6, AppendProperties
<1>9. DOMAIN Append(l, res) = 1..(Len(l) + 1)
  BY <1>8, LenProperties
<1>10. reservations' = Append(l, res)
  BY <1>1 DEF l
<1>11. DOMAIN reservations' = DOMAIN reservations \cup {Len(reservations) + 1}
       /\ Len(reservations) + 1 \notin DOMAIN reservations
  BY <1>4, <1>7, <1>9, <1>10
<1>12. reservations'[Len(reservations) + 1] = res
       /\ \A q \in DOMAIN reservations : reservations'[q] = l[q]
  BY <1>4, <1>7, <1>8, <1>10
<1>13. QED
  BY <1>2, <1>7, <1>11, <1>12 DEF AddsHold

-------------------------------------------------------------------------------
(* Settlement *)

(* The entries that settle redemptions. *)
Settling(e) == e.op = "redemption" \/ e.op = "reversal"
Has(l, r, op) == \E i \in 1..Len(l) : l[i].op = op /\ l[i].ref = r

Settled(l, rs) ==
  /\ \A i \in 1..Len(l) : Settling(l[i]) =>
       /\ l[i].ref \in DOMAIN rs
       /\ rs[l[i].ref].cost # 0
       /\ l[i].op = "redemption" => /\ rs[l[i].ref].status \in {"captured", "reversed"}
                                    /\ l[i].amount = -rs[l[i].ref].cost
       /\ l[i].op = "reversal" => /\ rs[l[i].ref].status = "reversed"
                                  /\ l[i].amount = rs[l[i].ref].cost
  /\ \A i, j \in 1..Len(l) : Settling(l[i]) /\ l[j].op = l[i].op /\ l[j].ref = l[i].ref => i = j
  /\ \A r \in DOMAIN rs : rs[r].status = "captured" /\ rs[r].cost # 0 => Has(l, r, "redemption")
  /\ \A r \in DOMAIN rs : rs[r].status = "reversed" => (Has(l, r, "redemption") <=> Has(l, r, "reversal"))

(* Calls that post no such entry: the ones a book holds stay as they are. *)
LEMMA SettlingKept ==
  ASSUME NEW b, NEW c, Sound(b), Sound(c), Continues(b, c),
         \A i \in (Len(b.ledger) + 1)..Len(c.ledger) : ~Settling(c.ledger[i])
  PROVE  /\ \A i \in 1..Len(b.ledger) : i \in 1..Len(c.ledger) /\ c.ledger[i] = b.ledger[i]
         /\ \A i \in 1..Len(c.ledger) : Settling(c.ledger[i]) => i \in 1..Len(b.ledger)
         /\ \A r : Has(c.ledger, r, "redemption") <=> Has(b.ledger, r, "redemption")
         /\ \A r : Has(c.ledger, r, "reversal") <=> Has(b.ledger, r, "reversal")
<1>1. Len(b.ledger) \in Nat /\ Len(c.ledger) \in Nat
  BY SoundLen
<1>2. \A i \in 1..Len(b.ledger) : i \in 1..Len(c.ledger) /\ c.ledger[i] = b.ledger[i]
  BY <1>1 DEF Continues
<1>3. \A i \in 1..Len(c.ledger) : Settling(c.ledger[i]) => i \in 1..Len(b.ledger)
  BY <1>1
<1>4. QED
  BY <1>2, <1>3 DEF Has, Settling

(* What may become of the holds meanwhile. *)
MovesFree(rs, new) ==
  /\ DOMAIN rs \subseteq DOMAIN new
  /\ \A r \in DOMAIN rs : /\ new[r].cost = rs[r].cost
                          /\ \/ new[r].status = rs[r].status
                             \/ rs[r].status = "reserved" /\ new[r].status \in {"expired", "reversed"}
                             \/ rs[r].cost = 0 /\ rs[r].status = "reserved" /\ new[r].status = "captured"
                             \/ rs[r].cost = 0 /\ rs[r].status = "captured" /\ new[r].status = "reversed"
  /\ \A r \in DOMAIN new \ DOMAIN rs : new[r].status = "reserved"

LEMMA SettledByLapses ==
  ASSUME NEW b, NEW c, Sound(b), Sound(c), Continues(b, c),
         \A i \in (Len(b.ledger) + 1)..Len(c.ledger) : ~Settling(c.ledger[i]),
         NEW rs, NEW new, Settled(b.ledger, rs), MovesFree(rs, new)
  PROVE  Settled(c.ledger, new)
<1>0. /\ DOMAIN rs \subseteq DOMAIN new
      /\ \A r \in DOMAIN rs : /\ new[r].cost = rs[r].cost
                              /\ \/ new[r].status = rs[r].status
                                 \/ rs[r].status = "reserved" /\ new[r].status \in {"expired", "reversed"}
                                 \/ rs[r].cost = 0 /\ rs[r].status = "reserved" /\ new[r].status = "captured"
                                 \/ rs[r].cost = 0 /\ rs[r].status = "captured" /\ new[r].status = "reversed"
      /\ \A r \in DOMAIN new \ DOMAIN rs : new[r].status = "reserved"
  BY DEF MovesFree
<1>1. /\ \A i \in 1..Len(b.ledger) : i \in 1..Len(c.ledger) /\ c.ledger[i] = b.ledger[i]
      /\ \A i \in 1..Len(c.ledger) : Settling(c.ledger[i]) => i \in 1..Len(b.ledger)
      /\ \A r : Has(c.ledger, r, "redemption") <=> Has(b.ledger, r, "redemption")
      /\ \A r : Has(c.ledger, r, "reversal") <=> Has(b.ledger, r, "reversal")
  BY SettlingKept
<1>2. ASSUME NEW i \in 1..Len(c.ledger), Settling(c.ledger[i])
      PROVE  /\ c.ledger[i].ref \in DOMAIN new
             /\ new[c.ledger[i].ref].cost # 0
             /\ c.ledger[i].op = "redemption" => /\ new[c.ledger[i].ref].status \in {"captured", "reversed"}
                                                 /\ c.ledger[i].amount = -new[c.ledger[i].ref].cost
             /\ c.ledger[i].op = "reversal" => /\ new[c.ledger[i].ref].status = "reversed"
                                               /\ c.ledger[i].amount = new[c.ledger[i].ref].cost
  <2>1. i \in 1..Len(b.ledger) /\ c.ledger[i] = b.ledger[i] /\ Settling(b.ledger[i])
    BY <1>1, <1>2
  <2> DEFINE e == b.ledger[i]
  <2>2. /\ e.ref \in DOMAIN rs /\ rs[e.ref].cost # 0
        /\ e.op = "redemption" => rs[e.ref].status \in {"captured", "reversed"} /\ e.amount = -rs[e.ref].cost
        /\ e.op = "reversal" => rs[e.ref].status = "reversed" /\ e.amount = rs[e.ref].cost
        /\ e.op = "redemption" \/ e.op = "reversal"
    BY <2>1 DEF Settled, Settling
  <2>3. new[e.ref].cost = rs[e.ref].cost /\ new[e.ref].status = rs[e.ref].status
    BY <1>0, <2>2
  <2> HIDE DEF e
  <2>4. QED
    BY <1>0, <2>1, <2>2, <2>3 DEF e
<1>3. ASSUME NEW i \in 1..Len(c.ledger), NEW j \in 1..Len(c.ledger), Settling(c.ledger[i]),
             c.ledger[j].op = c.ledger[i].op, c.ledger[j].ref = c.ledger[i].ref
      PROVE  i = j
  <2>1. Settling(c.ledger[j])
    BY <1>3 DEF Settling
  <2>2. QED
    BY <1>1, <1>3, <2>1 DEF Settled
<1>4. ASSUME NEW r \in DOMAIN rs, Has(b.ledger, r, "redemption") \/ Has(b.ledger, r, "reversal")
      PROVE  rs[r].status \in {"captured", "reversed"} /\ rs[r].cost # 0
  <2>1. PICK i \in 1..Len(b.ledger) : Settling(b.ledger[i]) /\ b.ledger[i].ref = r
    BY <1>4 DEF Has, Settling
  <2>2. QED
    BY <2>1 DEF Settled, Settling
<1>5. \A r \in DOMAIN new \ DOMAIN rs : ~Has(b.ledger, r, "redemption") /\ ~Has(b.ledger, r, "reversal")
  BY DEF Has, Settled, Settling
<1>6. ASSUME NEW r \in DOMAIN new, new[r].status = "captured", new[r].cost # 0
      PROVE  Has(c.ledger, r, "redemption")
  BY <1>0, <1>1, <1>6 DEF Settled
<1>7. ASSUME NEW r \in DOMAIN new, new[r].status = "reversed"
      PROVE  Has(c.ledger, r, "redemption") <=> Has(c.ledger, r, "reversal")
  <2>1. CASE r \in DOMAIN rs
    BY <1>0, <1>1, <1>4, <1>7, <2>1 DEF Settled
  <2>2. CASE r \notin DOMAIN rs
    BY <1>0, <1>7, <2>2
  <2>3. QED
    BY <2>1, <2>2
<1>8. QED
  BY <1>2, <1>3, <1>6, <1>7 DEF Settled

(* A capture, or the reversal of a capture, that posts its entry. *)
LEMMA SettledByPost ==
  ASSUME NEW b, NEW c, Sound(b), NEW e, PostsOne(b, c, e), NEW rs, NEW new, Settled(b.ledger, rs),
         NEW r \in DOMAIN rs, e.ref = r, rs[r].cost \in Nat, rs[r].cost # 0,
         \/ /\ e.op = "redemption" /\ e.amount = -rs[r].cost
            /\ rs[r].status = "reserved" /\ Settles(rs, new, r, "captured")
         \/ /\ e.op = "reversal" /\ e.amount = rs[r].cost
            /\ rs[r].status = "captured" /\ Settles(rs, new, r, "reversed")
  PROVE  Settled(c.ledger, new)
<1>1. PICK p \in (Len(b.ledger) + 1)..Len(c.ledger) :
        /\ c.ledger[p] = e
        /\ \A i \in (Len(b.ledger) + 1)..Len(c.ledger) : i # p => c.ledger[i].op = "expiration"
  BY DEF PostsOne
<1>2. Len(b.ledger) \in Nat /\ Len(c.ledger) \in Nat
  BY SoundLen DEF PostsOne
<1>3. \A i \in 1..Len(b.ledger) : i \in 1..Len(c.ledger) /\ c.ledger[i] = b.ledger[i]
  BY <1>2 DEF PostsOne, Continues
<1>4. p \in 1..Len(c.ledger) /\ p \notin 1..Len(b.ledger)
  BY <1>1, <1>2
<1>5. \A i \in 1..Len(c.ledger) : Settling(c.ledger[i]) => i = p \/ i \in 1..Len(b.ledger)
  BY <1>1, <1>2 DEF Settling
<1>6. /\ DOMAIN new = DOMAIN rs
      /\ \A q \in DOMAIN rs : /\ new[q].cost = rs[q].cost
                              /\ q # r => \/ new[q].status = rs[q].status
                                          \/ rs[q].status = "reserved" /\ new[q].status = "expired"
  BY DEF Settles, LapsesOne
<1>7. ~Has(b.ledger, r, "reversal") /\ (e.op = "redemption" => ~Has(b.ledger, r, "redemption"))
  BY DEF Settled, Has, Settling
<1>8. e.op = "reversal" => Has(b.ledger, r, "redemption")
  BY DEF Settled
<1>9. ASSUME NEW i \in 1..Len(c.ledger), Settling(c.ledger[i])
      PROVE  /\ c.ledger[i].ref \in DOMAIN new
             /\ new[c.ledger[i].ref].cost # 0
             /\ c.ledger[i].op = "redemption" => /\ new[c.ledger[i].ref].status \in {"captured", "reversed"}
                                                 /\ c.ledger[i].amount = -new[c.ledger[i].ref].cost
             /\ c.ledger[i].op = "reversal" => /\ new[c.ledger[i].ref].status = "reversed"
                                               /\ c.ledger[i].amount = new[c.ledger[i].ref].cost
  <2>1. CASE i = p
    BY <1>1, <1>6, <2>1 DEF Settles
  <2>2. CASE i # p
    <3>1. i \in 1..Len(b.ledger) /\ c.ledger[i] = b.ledger[i] /\ Settling(b.ledger[i])
      BY <1>3, <1>5, <1>9, <2>2
    <3> DEFINE x == b.ledger[i]
    <3>2. /\ x.ref \in DOMAIN rs /\ rs[x.ref].cost # 0
          /\ x.op = "redemption" => rs[x.ref].status \in {"captured", "reversed"} /\ x.amount = -rs[x.ref].cost
          /\ x.op = "reversal" => rs[x.ref].status = "reversed" /\ x.amount = rs[x.ref].cost
          /\ x.op = "redemption" \/ x.op = "reversal"
      BY <3>1 DEF Settled, Settling
    <3>3. x.ref = r => x.op = "redemption" /\ e.op = "reversal" /\ new[r].status = "reversed"
      BY <1>7, <3>1, <3>2 DEF Has, Settles
    <3>4. x.ref # r => new[x.ref].status = rs[x.ref].status
      BY <1>6, <3>2
    <3>5. new[x.ref].cost = rs[x.ref].cost
      BY <1>6, <3>2
    <3> HIDE DEF x
    <3>6. QED
      BY <1>6, <3>1, <3>2, <3>3, <3>4, <3>5 DEF x
  <2>3. QED
    BY <2>1, <2>2
<1>10. ASSUME NEW i \in 1..Len(c.ledger), NEW j \in 1..Len(c.ledger), Settling(c.ledger[i]),
              c.ledger[j].op = c.ledger[i].op, c.ledger[j].ref = c.ledger[i].ref
       PROVE  i = j
  <2>1. Settling(c.ledger[j])
    BY <1>10 DEF Settling
  <2>2. CASE i # p /\ j # p
    BY <1>3, <1>5, <1>10, <2>1, <2>2 DEF Settled
  <2>3. ASSUME NEW h \in 1..Len(b.ledger), b.ledger[h].op = e.op, b.ledger[h].ref = r PROVE FALSE
    BY <1>7, <2>3 DEF Has
  <2>4. QED
    BY <1>1, <1>3, <1>5, <1>10, <2>1, <2>2, <2>3
<1>11. \A q, op : Has(b.ledger, q, op) => Has(c.ledger, q, op)
  BY <1>3 DEF Has
<1>12. Has(c.ledger, r, e.op)
  BY <1>1, <1>4 DEF Has
<1>13. ASSUME NEW q, q # r, NEW op \in {"redemption", "reversal"}, Has(c.ledger, q, op)
       PROVE  Has(b.ledger, q, op)
  <2>1. PICK i \in 1..Len(c.ledger) : c.ledger[i].op = op /\ c.ledger[i].ref = q
    BY <1>13 DEF Has
  <2>2. Settling(c.ledger[i]) /\ i # p
    BY <1>1, <1>13, <2>1 DEF Settling
  <2>3. QED
    BY <1>3, <1>5, <2>1, <2>2 DEF Has
<1>14. ASSUME NEW q \in DOMAIN new, new[q].status = "captured", new[q].cost # 0
       PROVE  Has(c.ledger, q, "redemption")
  <2>1. CASE q = r
    BY <1>12, <1>14, <2>1 DEF Settles
  <2>2. CASE q # r
    BY <1>6, <1>11, <1>14, <2>2 DEF Settled
  <2>3. QED
    BY <2>1, <2>2
<1>15. ASSUME NEW q \in DOMAIN new, new[q].status = "reversed"
       PROVE  Has(c.ledger, q, "redemption") <=> Has(c.ledger, q, "reversal")
  <2>1. CASE q = r
    BY <1>8, <1>11, <1>12, <1>15, <2>1 DEF Settles
  <2>2. CASE q # r
    <3>1. rs[q].status = "reversed" /\ q \in DOMAIN rs
      BY <1>6, <1>15, <2>2
    <3>2. Has(b.ledger, q, "redemption") <=> Has(b.ledger, q, "reversal")
      BY <3>1 DEF Settled
    <3>3. QED
      BY <1>11, <1>13, <2>2, <3>2
  <2>3. QED
    BY <2>1, <2>2
<1>16. QED
  BY <1>9, <1>10, <1>14, <1>15 DEF Settled

SettledNow == Settled(book.ledger, reservations)

LEMMA SettledNext ==
  ASSUME Good, SettledNow, Next
  PROVE  Settled(book'.ledger, reservations')
<1>0. Sound(book) /\ Settled(book.ledger, reservations)
  BY GoodParts DEF SettledNow
<1>1. ASSUME NEW ops, NEW os, Adds(book, book', ops, os), "redemption" \notin ops, "reversal" \notin ops
      PROVE  /\ Sound(book') /\ Continues(book, book')
             /\ \A i \in (Len(book.ledger) + 1)..Len(book'.ledger) : ~Settling(book'.ledger[i])
  BY <1>1 DEF Adds, Settling
<1>2. ASSUME OnlyExpires(book, book')
      PROVE  /\ Sound(book') /\ Continues(book, book')
             /\ \A i \in (Len(book.ledger) + 1)..Len(book'.ledger) : ~Settling(book'.ledger[i])
  BY <1>2 DEF OnlyExpires, Settling
<1>3. ASSUME Sound(book'), Continues(book, book'),
             \A i \in (Len(book.ledger) + 1)..Len(book'.ledger) : ~Settling(book'.ledger[i]),
             Lapses(reservations, reservations')
      PROVE  Settled(book'.ledger, reservations')
  <2>1. MovesFree(reservations, reservations')
    BY <1>3 DEF Lapses, MovesFree
  <2>2. QED
    BY <1>0, <1>3, <2>1, SettledByLapses
<1>4. CASE QuietCall
  BY <1>2, <1>3, <1>4, QuietCalls DEF QuietStep
<1>5. ASSUME NEW k, NEW m \in Members, NEW o \in Orders, NEW f \in Facts, PostAccrual(k, m, o, f)
      PROVE  Settled(book'.ledger, reservations')
  <2>1. PICK s \in Nat : AccrualRow(book, book', o, program.units, s)
    BY <1>5, AccrualPosts
  <2>2. Sound(book') /\ Continues(book, book') /\ reservations' = Lapsed
    BY <1>5, AccrualPosts
  <2>3. ASSUME NEW i \in (Len(book.ledger) + 1)..Len(book'.ledger) PROVE ~Settling(book'.ledger[i])
    <3>1. CASE i \in (s + 1)..(s + Len(program.units))
      <4>1. PICK j \in 1..Len(program.units) : s + j = i
        <5>1. Len(program.units) \in Nat
          BY GoodParts, UnitsType
        <5>2. i - s \in 1..Len(program.units) /\ s + (i - s) = i
          BY <3>1, <5>1
        <5>3. QED
          BY <5>2
      <4>2. book'.ledger[i].op = "accrual"
        BY <2>1, <4>1 DEF AccrualRow
      <4>3. QED
        BY <4>2 DEF Settling
    <3>2. CASE i \notin (s + 1)..(s + Len(program.units))
      BY <2>1, <3>2 DEF AccrualRow, Settling
    <3>3. QED
      BY <3>1, <3>2
  <2>4. QED
    BY <1>3, <2>2, <2>3, LapsedLapses
<1>6. ASSUME NEW i, NEW k, NEW m, NEW rd, NEW rw, NEW o, NEW b, OnlyExpires(book, b),
             AddReservation(k, m, rd, rw, o, i, b)
      PROVE  Settled(book'.ledger, reservations')
  <2>1. AddsHold(reservations, reservations', i)
    BY <1>6, HoldAdded
  <2>2. OnlyExpires(book, book')
    <3>1. book' = ExpirePointLots(b, {m}, UnitSet(program), now)
      BY <1>6 DEF AddReservation, Balances
    <3>2. OnlyExpires(b, book')
      BY <1>6, <3>1, ExpiryOnlyExpires DEF OnlyExpires
    <3>3. QED
      BY <1>0, <1>6, <3>2, ExpiresTwice
  <2>3. MovesFree(reservations, reservations')
    BY <2>1 DEF AddsHold, LapsesOne, MovesFree
  <2>4. QED
    BY <1>0, <1>2, <2>2, <2>3, SettledByLapses
<1>7. ASSUME NEW r \in DOMAIN reservations, NEW s, Settles(reservations, reservations', r, s),
             \/ reservations[r].status = "reserved" /\ s = "reversed"
             \/ reservations[r].status = "reserved" /\ s = "captured" /\ reservations[r].cost = 0
             \/ reservations[r].status = "captured" /\ s = "reversed" /\ reservations[r].cost = 0,
             OnlyExpires(book, book')
      PROVE  Settled(book'.ledger, reservations')
  <2>1. MovesFree(reservations, reservations')
    BY <1>7 DEF Settles, LapsesOne, MovesFree
  <2>2. QED
    BY <1>0, <1>2, <1>7, <2>1, SettledByLapses
<1>8. ASSUME NEW k, NEW m \in Members, NEW rd, NEW rw, NEW o, Reserve(k, m, rd, rw, o)
      PROVE  Settled(book'.ledger, reservations')
  <2> DEFINE b == Balance(book, m, program.rewards[rw].unit)
  <2>1. AddReservation(k, m, rd, rw, o, None, b)
    BY <1>8 DEF Reserve
  <2>2. OnlyExpires(book, b)
    BY <1>0, ExpiryOnlyExpires DEF Balance
  <2> HIDE DEF b
  <2>3. QED
    BY <1>6, <2>1, <2>2
<1>9. ASSUME NEW k, NEW m \in Members, NEW rd, NEW rw, NEW o, NEW i, ReserveIssued(k, m, rd, rw, o, i)
      PROVE  Settled(book'.ledger, reservations')
  BY <1>0, <1>6, <1>9, SameExpires DEF ReserveIssued
<1>10. ASSUME NEW k, NEW r \in DOMAIN reservations, Capture(k, r) PROVE Settled(book'.ledger, reservations')
  <2>1. reservations[r].status = "reserved" /\ Settles(reservations, reservations', r, "captured")
    BY <1>10, HoldSettled DEF Capture, LiveHold, Statuses
  <2>2. reservations[r].cost \in Nat
    BY HoldsAre DEF IsReservation
  <2>3. CASE reservations[r].cost = 0
    BY <1>7, <1>10, <2>1, <2>3, CapturePosts
  <2>4. CASE reservations[r].cost # 0
    <3> DEFINE e == RedemptionEntry(r, "redemption", -reservations[r].cost)
    <3>1. e.op = "redemption" /\ e.ref = r /\ e.amount = -reservations[r].cost
      BY DEF RedemptionEntry
    <3>2. PostsOne(book, book', e)
      BY <1>10, <2>4, CapturePosts
    <3> HIDE DEF e
    <3>3. QED
      BY <1>0, <2>1, <2>2, <2>4, <3>1, <3>2, SettledByPost
  <2>5. QED
    BY <2>3, <2>4
<1>11. ASSUME NEW k, NEW r \in DOMAIN reservations, ReverseHold(k, r) PROVE Settled(book'.ledger, reservations')
  <2>1. reservations[r].status = "reserved" /\ Settles(reservations, reservations', r, "reversed")
    BY <1>11, HoldSettled DEF ReverseHold, LiveHold, Statuses
  <2>2. OnlyExpires(book, book')
    BY <1>0, <1>11, ExpiryOnlyExpires DEF ReverseHold, Balances
  <2>3. QED
    BY <1>7, <2>1, <2>2
<1>12. ASSUME NEW k, NEW r \in DOMAIN reservations, ReverseCapture(k, r) PROVE Settled(book'.ledger, reservations')
  <2>1. reservations[r].status = "captured" /\ Settles(reservations, reservations', r, "reversed")
    BY <1>12, HoldSettled DEF ReverseCapture, Statuses
  <2>2. reservations[r].cost \in Nat
    BY HoldsAre DEF IsReservation
  <2>3. CASE reservations[r].cost = 0
    BY <1>7, <1>12, <2>1, <2>3, ReversalPosts
  <2>4. CASE reservations[r].cost # 0
    <3> DEFINE e == RedemptionEntry(r, "reversal", reservations[r].cost)
    <3>1. e.op = "reversal" /\ e.ref = r /\ e.amount = reservations[r].cost
      BY DEF RedemptionEntry
    <3>2. PostsOne(book, book', e)
      BY <1>12, <2>4, ReversalPosts
    <3> HIDE DEF e
    <3>3. QED
      BY <1>0, <2>1, <2>2, <2>4, <3>1, <3>2, SettledByPost
  <2>5. QED
    BY <2>3, <2>4
<1>13. ASSUME NEW k, NEW m \in Members, NEW x \in AdjustmentIds, NEW o \in Orders, NEW a \in OrderAdjustments,
              AdjustOrder(k, m, x, o, a)
       PROVE  Settled(book'.ledger, reservations')
  BY <1>1, <1>3, <1>13, AdjustOrderPosts, LapsedLapses
<1>14. ASSUME NEW k, NEW m \in Members, NEW x \in AdjustmentIds, NEW a \in ManualAdjustments,
              PostManualAdjustment(k, m, x, a)
       PROVE  Settled(book'.ledger, reservations')
  <2>1. /\ PostsOne(book, book', ManualEntry(m, x, a)) /\ KeepsLots(book, book')
        /\ reservations' = Lapsed
    BY <1>14, ManualPosts
  <2>2. ManualEntry(m, x, a).op = "manual"
    BY DEF ManualEntry
  <2>3. Adds(book, book', {"manual", "expiration"}, {})
    BY <2>1, <2>2 DEF PostsOne, Adds
  <2>4. QED
    BY <1>1, <1>3, <2>1, <2>3, LapsedLapses
<1>15. QED
  BY <1>4, <1>5, <1>8, <1>9, <1>10, <1>11, <1>12, <1>13, <1>14, Calls

LEMMA AtMostOne ==
  ASSUME NEW S, \A x, y \in S : x = y
  PROVE  Cardinality(S) <= 1
<1>1. CASE S = {}
  BY <1>1, FS_EmptySet
<1>2. CASE S # {}
  <2>1. PICK x : x \in S
    BY <1>2
  <2>2. S = {x}
    BY <2>1
  <2>3. QED
    BY <2>2, FS_Singleton
<1>3. QED
  BY <1>1, <1>2

LEMMA SettledMeans == Good /\ SettledNow => RedemptionSettledOnce
<1> SUFFICES ASSUME Good, SettledNow, NEW r \in DOMAIN reservations
             PROVE  LET res    == reservations[r]
                        debit  == Posted(r, "redemption")
                        credit == Posted(r, "reversal")
                    IN  /\ Cardinality(debit) <= 1 /\ Cardinality(credit) <= 1
                        /\ res.status \in {"reserved", "expired"} => debit = {} /\ credit = {}
                        /\ res.status = "captured" /\ res.cost > 0 => debit # {} /\ credit = {}
                        /\ res.status = "reversed" => (debit = {} <=> credit = {})
                        /\ \A i \in debit : Ledger[i].amount = -res.cost
                        /\ \A i \in credit : Ledger[i].amount = res.cost
  BY DEF RedemptionSettledOnce
<1> DEFINE res    == reservations[r]
           debit  == Posted(r, "redemption")
           credit == Posted(r, "reversal")
           l      == book.ledger
<1>0. Settled(l, reservations) /\ res.cost \in Nat
  BY HoldsAre DEF SettledNow, IsReservation
<1>1. DOMAIN l = 1..Len(l)
  BY GoodParts, LenProperties DEF Sound, IsBook, IsSeq
<1>2. /\ \A i : i \in debit <=> i \in 1..Len(l) /\ l[i].op = "redemption" /\ l[i].ref = r
      /\ \A i : i \in credit <=> i \in 1..Len(l) /\ l[i].op = "reversal" /\ l[i].ref = r
  BY <1>1 DEF Posted, Entries, Ledger
<1> HIDE DEF debit, credit, l
<1>3. (debit # {} <=> Has(l, r, "redemption")) /\ (credit # {} <=> Has(l, r, "reversal"))
  BY <1>2 DEF Has
<1>4. \A i, j \in debit : i = j
  BY <1>0, <1>2 DEF Settled, Settling
<1>5. \A i, j \in credit : i = j
  BY <1>0, <1>2 DEF Settled, Settling
<1>6. \A i \in debit : /\ res.status \in {"captured", "reversed"} /\ l[i].amount = -res.cost
  BY <1>0, <1>2 DEF Settled, Settling
<1>7. \A i \in credit : res.status = "reversed" /\ l[i].amount = res.cost
  BY <1>0, <1>2 DEF Settled, Settling
<1>8. Cardinality(debit) <= 1 /\ Cardinality(credit) <= 1
  BY <1>4, <1>5, AtMostOne
<1>9. res.status = "captured" /\ res.cost > 0 => debit # {} /\ credit = {}
  BY <1>0, <1>3, <1>7 DEF Settled
<1>10. res.status = "reversed" => (debit = {} <=> credit = {})
  BY <1>0, <1>3 DEF Settled
<1>11. QED
  BY <1>6, <1>7, <1>8, <1>9, <1>10 DEF Ledger, l, debit, credit

(* Every redemption is debited at most once and credited back at most      *)
(* once, by exactly its cost, and its status says which, in whatever order *)
(* captures, reversals, retries and lapses come (capture, reverse).        *)
THEOREM SettlesOnce == Spec => []RedemptionSettledOnce
<1>1. Init => SettledNow
  <2> SUFFICES ASSUME Init PROVE SettledNow
    OBVIOUS
  <2>1. book.ledger = <<>> /\ reservations = <<>>
    BY DEF Init, EmptyBook
  <2>2. Len(book.ledger) = 0 /\ DOMAIN reservations = {}
    BY <2>1
  <2>3. QED
    BY <2>2 DEF SettledNow, Settled
<1>2. Good /\ SettledNow /\ [Next]_vars => SettledNow'
  <2> SUFFICES ASSUME Good, SettledNow, [Next]_vars PROVE SettledNow'
    OBVIOUS
  <2>1. CASE UNCHANGED vars
    BY <2>1 DEF vars, walletVars, SettledNow, Settled, Settling, Has
  <2>2. CASE Next
    <3>1. Settled(book'.ledger, reservations')
      BY <2>2, SettledNext
    <3>2. QED
      BY <3>1 DEF SettledNow, Settled, Settling, Has
  <2>3. QED
    BY <2>1, <2>2
<1>3. QED
  BY <1>1, <1>2, SettledMeans, AlwaysGood, PTL DEF Spec

-------------------------------------------------------------------------------
(* Accrual *)

(* An accrual entry belongs to an order on record and is the only one of   *)
(* its unit, and an answered post names the entries on record.             *)
Answers(acc, resp) ==
  /\ "member" \notin DOMAIN resp
  /\ resp.order \in DOMAIN acc /\ resp.entries = acc[resp.order].entries
AccruedAs(l, acc) ==
  /\ \A i \in 1..Len(l) : l[i].op = "accrual" => l[i].order \in DOMAIN acc
  /\ \A i, j \in 1..Len(l) :
       /\ l[i].op = "accrual" /\ l[j].op = "accrual"
       /\ l[i].order = l[j].order /\ l[i].unit = l[j].unit
       => i = j
AnsweredAs(calls, acc) ==
  \A x \in DOMAIN calls :
    "resp" \in DOMAIN calls[x] /\ (x[1] = "accrual.post" => Answers(acc, calls[x].resp))
AccruedNow == AccruedAs(book.ledger, accruals) /\ AnsweredAs(idempotency, accruals)

(* The calls that are not posts of an accrual record nothing of one. *)
OtherAnswer == \E op, k, fp, resp : op # "accrual.post" /\ Remember(op, k, fp, resp)
RecordsKept == accruals' = accruals /\ (idempotency' = idempotency \/ OtherAnswer)

LEMMA OtherCalls ==
  ASSUME Next
  PROVE  \/ \E k : \E m \in Members, o \in Orders, f \in Facts : PostAccrual(k, m, o, f) \/ PostAccrualAgain(k, m, o, f)
         \/ \E m \in Members : EraseMember(m)
         \/ RecordsKept
<1>1. ASSUME UNCHANGED <<accruals, idempotency>> PROVE RecordsKept
  BY <1>1 DEF RecordsKept
<1>2. ASSUME NEW op, NEW k, NEW fp, NEW resp, Remember(op, k, fp, resp), op # "accrual.post",
             accruals' = accruals
      PROVE  RecordsKept
  BY <1>2 DEF RecordsKept, OtherAnswer
<1>3. CASE Tick
  BY <1>1, <1>3 DEF Tick, factVars
<1>4. CASE MemberStep
  <2>1. ASSUME NEW k, NEW i, Lookup(k, i) PROVE RecordsKept
    <3>1. PICK resp : Remember("member.lookup", k, i, resp) /\ accruals' = accruals
      BY <2>1 DEF Lookup, factVars
    <3>2. QED
      BY <1>2, <3>1
  <2>2. ASSUME NEW k, NEW i, NEW m, Enroll(k, i, m) PROVE RecordsKept
    BY <1>2, <2>2 DEF Enroll, factVars
  <2>3. ASSUME NEW k, NEW i, NEW m, EnrollAgain(k, i, m) PROVE RecordsKept
    BY <1>2, <2>3 DEF EnrollAgain, factVars
  <2>4. ASSUME NEW m, NEW v, CancelMember(m) \/ InspectMemberErasure(m) \/ SetMemberMembership(m, v)
        PROVE  RecordsKept
    BY <1>1, <2>4 DEF CancelMember, InspectMemberErasure, SetMemberMembership, factVars
  <2>5. QED
    BY <1>4, <2>1, <2>2, <2>3, <2>4 DEF MemberStep
<1>5. CASE ReadStep
  <2>1. ASSUME NEW k, NEW m, GetAccount(k, m) PROVE RecordsKept
    BY <1>2, <2>1 DEF GetAccount, factVars
  <2>2. ASSUME NEW k, NEW m, ListLedger(k, m) PROVE RecordsKept
    <3>1. PICK resp : Remember("ledger.list", k, m, resp) /\ accruals' = accruals
      BY <2>2 DEF ListLedger, factVars
    <3>2. QED
      BY <1>2, <3>1
  <2>3. ASSUME NEW k, NEW m, ListIssuedRewards(k, m) PROVE RecordsKept
    BY <1>2, <2>3 DEF ListIssuedRewards, factVars
  <2>4. ASSUME NEW k, NEW m, NEW f, Evaluate(k, m, f) PROVE RecordsKept
    BY <1>2, <2>4 DEF Evaluate, factVars
  <2>5. ASSUME NEW k, GetProgram(k) PROVE RecordsKept
    BY <1>2, <2>5 DEF GetProgram, factVars
  <2>6. CASE GetLedger \/ Inspect
    BY <1>1, <2>6 DEF GetLedger, Inspect, factVars
  <2>7. QED
    BY <1>5, <2>1, <2>2, <2>3, <2>4, <2>5, <2>6 DEF ReadStep
<1>6. CASE IssueStep
  <2>1. ASSUME NEW k, NEW i, NEW m, NEW w, IssueReward(k, i, m, w) PROVE RecordsKept
    BY <1>2, <2>1 DEF IssueReward, factVars
  <2>2. ASSUME NEW k, NEW i, NEW m, NEW w, IssueRewardAgain(k, i, m, w) PROVE RecordsKept
    BY <1>2, <2>2 DEF IssueRewardAgain, factVars
  <2>3. ASSUME NEW k, NEW i, CancelIssuedReward(k, i) PROVE RecordsKept
    BY <1>2, <2>3 DEF CancelIssuedReward, factVars
  <2>4. ASSUME NEW i, RejectOverdueReward(i) PROVE RecordsKept
    BY <1>1, <2>4 DEF RejectOverdueReward, factVars
  <2>5. QED
    BY <1>6, <2>1, <2>2, <2>3, <2>4 DEF IssueStep
<1>7. CASE RedemptionStep
  <2>1. ASSUME NEW k, NEW m, NEW rd, NEW rw, NEW o, Reserve(k, m, rd, rw, o) PROVE RecordsKept
    BY <1>2, <2>1 DEF Reserve, AddReservation, factVars
  <2>2. ASSUME NEW k, NEW m, NEW rd, NEW rw, NEW o, NEW i, ReserveIssued(k, m, rd, rw, o, i) PROVE RecordsKept
    BY <1>2, <2>2 DEF ReserveIssued, AddReservation, factVars
  <2>3. ASSUME NEW k, NEW m, NEW rd, NEW rw, NEW o, NEW i, ReserveAgain(k, m, rd, rw, o, i) PROVE RecordsKept
    BY <1>2, <2>3 DEF ReserveAgain, factVars
  <2>4. ASSUME NEW k, NEW r, Capture(k, r) PROVE RecordsKept
    BY <1>2, <2>4 DEF Capture, factVars
  <2>5. ASSUME NEW k, NEW r, ReverseHold(k, r) PROVE RecordsKept
    BY <1>2, <2>5 DEF ReverseHold, factVars
  <2>6. ASSUME NEW k, NEW r, ReverseCapture(k, r) PROVE RecordsKept
    BY <1>2, <2>6 DEF ReverseCapture, factVars
  <2>7. ASSUME NEW k, NEW r, \/ SettleAgain(k, r, "redemption.capture", "captured")
                             \/ SettleAgain(k, r, "redemption.reverse", "reversed")
        PROVE  RecordsKept
    BY <1>2, <2>7 DEF SettleAgain, factVars
  <2>8. ASSUME NEW r, RejectOverdueReservation(r) PROVE RecordsKept
    BY <1>1, <2>8 DEF RejectOverdueReservation, factVars
  <2>9. ASSUME NEW m, NEW u, RejectLowBalance(m, u) PROVE RecordsKept
    BY <1>1, <2>9 DEF RejectLowBalance, factVars
  <2>10. QED
    BY <1>7, <2>1, <2>2, <2>3, <2>4, <2>5, <2>6, <2>7, <2>8, <2>9 DEF RedemptionStep
<1>8. CASE AdjustmentStep
  <2>1. ASSUME NEW k, NEW m, NEW x, NEW o, NEW a, AdjustOrder(k, m, x, o, a) PROVE RecordsKept
    BY <1>2, <2>1 DEF AdjustOrder, factVars
  <2>2. ASSUME NEW k, NEW m, NEW x, NEW o, NEW a, AdjustOrderAgain(k, m, x, o, a) PROVE RecordsKept
    BY <1>2, <2>2 DEF AdjustOrderAgain, factVars
  <2>3. ASSUME NEW k, NEW m, NEW x, NEW a, PostManualAdjustment(k, m, x, a) PROVE RecordsKept
    BY <1>2, <2>3 DEF PostManualAdjustment, factVars
  <2>4. ASSUME NEW k, NEW m, NEW x, NEW a, PostManualAdjustmentAgain(k, m, x, a) PROVE RecordsKept
    BY <1>2, <2>4 DEF PostManualAdjustmentAgain, factVars
  <2>5. ASSUME NEW m, NEW us, RejectAdjustment(m, us) PROVE RecordsKept
    BY <1>1, <2>5 DEF RejectAdjustment, factVars
  <2>6. QED
    BY <1>8, <2>1, <2>2, <2>3, <2>4, <2>5 DEF AdjustmentStep
<1>9. CASE ProgramStep
  <2>1. ASSUME NEW p, ReconfigureProgram(p) PROVE RecordsKept
    BY <1>1, <2>1 DEF ReconfigureProgram, factVars
  <2>2. ASSUME NEW p, NEW m, NEW ms, RejectReconfigure(p, m, ms) PROVE RecordsKept
    BY <1>1, <2>2 DEF RejectReconfigure, factVars
  <2>3. QED
    BY <1>9, <2>1, <2>2 DEF ProgramStep
<1>10. QED
  BY <1>3, <1>4, <1>5, <1>6, <1>7, <1>8, <1>9 DEF Next, AccrualStep

(* The other calls post no accrual. *)
NoAccrual(b, c) ==
  /\ Sound(c) /\ Continues(b, c)
  /\ \A i \in (Len(b.ledger) + 1)..Len(c.ledger) : c.ledger[i].op # "accrual"

LEMMA OthersPostNoAccrual ==
  ASSUME Good, Next
  PROVE  \/ \E k : \E m \in Members, o \in Orders, f \in Facts : PostAccrual(k, m, o, f)
         \/ NoAccrual(book, book')
<1>0. Sound(book)
  BY GoodParts
<1>1. ASSUME NEW e, PostsOne(book, book', e), e.op # "accrual" PROVE NoAccrual(book, book')
  BY <1>1 DEF PostsOne, NoAccrual
<1>2. ASSUME OnlyExpires(book, book') PROVE NoAccrual(book, book')
  BY <1>2 DEF OnlyExpires, NoAccrual
<1>3. CASE QuietCall
  BY <1>2, <1>3, QuietCalls DEF QuietStep
<1>4. ASSUME NEW i, NEW k, NEW m, NEW rd, NEW rw, NEW o, NEW b, OnlyExpires(book, b),
             AddReservation(k, m, rd, rw, o, i, b)
      PROVE  NoAccrual(book, book')
  <2>1. book' = ExpirePointLots(b, {m}, UnitSet(program), now)
    BY <1>4 DEF AddReservation, Balances
  <2>2. OnlyExpires(b, book')
    BY <1>4, <2>1, ExpiryOnlyExpires DEF OnlyExpires
  <2>3. QED
    BY <1>0, <1>2, <1>4, <2>2, ExpiresTwice
<1>5. ASSUME NEW k, NEW m \in Members, NEW rd, NEW rw, NEW o, Reserve(k, m, rd, rw, o)
      PROVE  NoAccrual(book, book')
  <2> DEFINE b == Balance(book, m, program.rewards[rw].unit)
  <2>1. AddReservation(k, m, rd, rw, o, None, b)
    BY <1>5 DEF Reserve
  <2>2. OnlyExpires(book, b)
    BY <1>0, ExpiryOnlyExpires DEF Balance
  <2> HIDE DEF b
  <2>3. QED
    BY <1>4, <2>1, <2>2
<1>6. ASSUME NEW k, NEW m, NEW rd, NEW rw, NEW o, NEW i, ReserveIssued(k, m, rd, rw, o, i)
      PROVE  NoAccrual(book, book')
  BY <1>0, <1>4, <1>6, SameExpires DEF ReserveIssued
<1>7. ASSUME NEW k, NEW r \in DOMAIN reservations, Capture(k, r) PROVE NoAccrual(book, book')
  <2>1. RedemptionEntry(r, "redemption", -reservations[r].cost).op = "redemption"
    BY DEF RedemptionEntry
  <2>2. QED
    BY <1>1, <1>2, <1>7, <2>1, CapturePosts
<1>8. ASSUME NEW k, NEW r \in DOMAIN reservations, ReverseHold(k, r) PROVE NoAccrual(book, book')
  BY <1>0, <1>2, <1>8, ExpiryOnlyExpires DEF ReverseHold, Balances
<1>9. ASSUME NEW k, NEW r \in DOMAIN reservations, ReverseCapture(k, r) PROVE NoAccrual(book, book')
  <2>1. RedemptionEntry(r, "reversal", reservations[r].cost).op = "reversal"
    BY DEF RedemptionEntry
  <2>2. QED
    BY <1>1, <1>2, <1>9, <2>1, ReversalPosts
<1>10. ASSUME NEW k, NEW m \in Members, NEW x \in AdjustmentIds, NEW o \in Orders, NEW a \in OrderAdjustments,
              AdjustOrder(k, m, x, o, a)
       PROVE  NoAccrual(book, book')
  BY <1>10, AdjustOrderPosts DEF Adds, NoAccrual
<1>11. ASSUME NEW k, NEW m \in Members, NEW x \in AdjustmentIds, NEW a \in ManualAdjustments,
              PostManualAdjustment(k, m, x, a)
       PROVE  NoAccrual(book, book')
  <2>1. ManualEntry(m, x, a).op = "manual"
    BY DEF ManualEntry
  <2>2. QED
    BY <1>1, <1>11, <2>1, ManualPosts
<1>12. QED
  BY <1>3, <1>5, <1>6, <1>7, <1>8, <1>9, <1>10, <1>11, Calls

LEMMA AccruedKept ==
  ASSUME NEW b, NEW c, Sound(b), NoAccrual(b, c), NEW acc, AccruedAs(b.ledger, acc)
  PROVE  AccruedAs(c.ledger, acc)
<1>1. Len(b.ledger) \in Nat /\ Len(c.ledger) \in Nat
  BY SoundLen DEF NoAccrual
<1>2. \A i \in 1..Len(c.ledger) : c.ledger[i].op = "accrual" => i \in 1..Len(b.ledger) /\ c.ledger[i] = b.ledger[i]
  BY <1>1 DEF NoAccrual, Continues
<1>3. \A i \in 1..Len(c.ledger) : c.ledger[i].op = "accrual" => c.ledger[i].order \in DOMAIN acc
  BY <1>2 DEF AccruedAs
<1>4. ASSUME NEW i \in 1..Len(c.ledger), NEW j \in 1..Len(c.ledger),
             c.ledger[i].op = "accrual", c.ledger[j].op = "accrual",
             c.ledger[i].order = c.ledger[j].order, c.ledger[i].unit = c.ledger[j].unit
      PROVE  i = j
  BY <1>2, <1>4 DEF AccruedAs
<1>5. QED
  BY <1>3, <1>4 DEF AccruedAs

LEMMA AccruedByPost ==
  ASSUME NEW b, NEW c, Sound(b), Sound(c), Continues(b, c), NEW acc, AccruedAs(b.ledger, acc),
         NEW o, o \notin DOMAIN acc, NEW us, Len(us) \in Nat, \A i, j \in 1..Len(us) : us[i] = us[j] => i = j,
         NEW s \in Nat, AccrualRow(b, c, o, us, s), NEW rec
  PROVE  AccruedAs(c.ledger, Put(acc, o, rec))
<1>1. Len(b.ledger) \in Nat /\ Len(c.ledger) \in Nat
  BY SoundLen
<1>2. ASSUME NEW i \in 1..Len(c.ledger), c.ledger[i].op = "accrual"
      PROVE  \/ /\ i \in 1..Len(b.ledger) /\ c.ledger[i] = b.ledger[i]
                /\ c.ledger[i].order \in DOMAIN acc
             \/ \E j \in 1..Len(us) : i = s + j /\ c.ledger[i].order = o /\ c.ledger[i].unit = us[j]
  <2>1. CASE i <= Len(b.ledger)
    <3>1. i \in 1..Len(b.ledger) /\ c.ledger[i] = b.ledger[i]
      BY <1>1, <2>1 DEF Continues
    <3>2. QED
      BY <1>2, <3>1 DEF AccruedAs
  <2>2. CASE i > Len(b.ledger)
    <3>1. i \in (s + 1)..(s + Len(us))
      BY <1>1, <1>2, <2>2 DEF AccrualRow
    <3>2. i - s \in 1..Len(us) /\ i = s + (i - s)
      BY <3>1
    <3>3. PICK j \in 1..Len(us) : i = s + j
      BY <3>2
    <3>4. QED
      BY <3>3 DEF AccrualRow
  <2>3. QED
    BY <1>1, <2>1, <2>2
<1>3. DOMAIN Put(acc, o, rec) = DOMAIN acc \cup {o}
  BY DEF Put
<1>4. ASSUME NEW i \in 1..Len(c.ledger), NEW j \in 1..Len(c.ledger),
             c.ledger[i].op = "accrual", c.ledger[j].op = "accrual",
             c.ledger[i].order = c.ledger[j].order, c.ledger[i].unit = c.ledger[j].unit
      PROVE  i = j
  <2>1. CASE c.ledger[i].order = o
    BY <1>2, <1>4, <2>1
  <2>2. CASE c.ledger[i].order # o
    BY <1>2, <1>4, <2>2 DEF AccruedAs
  <2>3. QED
    BY <2>1, <2>2
<1>5. \A i \in 1..Len(c.ledger) : c.ledger[i].op = "accrual" => c.ledger[i].order \in DOMAIN Put(acc, o, rec)
  BY <1>2, <1>3
<1>6. QED
  BY <1>4, <1>5 DEF AccruedAs

LEMMA AnswersKept ==
  ASSUME NEW acc, NEW o, o \notin DOMAIN acc, NEW rec, NEW resp, Answers(acc, resp)
  PROVE  Answers(Put(acc, o, rec), resp)
BY DEF Answers, Put

LEMMA AnsweredByOther ==
  ASSUME AnsweredAs(idempotency, accruals), NEW op, NEW k, NEW fp, NEW resp, Remember(op, k, fp, resp),
         op = "accrual.post" => Answers(accruals, resp)
  PROVE  AnsweredAs(idempotency', accruals)
<1> DEFINE new == [fp |-> fp, resp |-> resp]
           key == <<op, k>>
<1>1. new.resp = resp /\ "resp" \in DOMAIN new /\ key[1] = op
  OBVIOUS
<1>2. /\ DOMAIN idempotency' = DOMAIN idempotency \cup {key} /\ idempotency'[key] = new
      /\ \A x \in DOMAIN idempotency \ {key} : idempotency'[x] = idempotency[x]
  BY DEF Remember, Put
<1> HIDE DEF new, key
<1>3. QED
  BY <1>1, <1>2 DEF AnsweredAs

LEMMA AccruedNext ==
  ASSUME Good, AccruedNow, Next
  PROVE  AccruedAs(book'.ledger, accruals') /\ AnsweredAs(idempotency', accruals')
<1>0. Sound(book) /\ AccruedAs(book.ledger, accruals) /\ AnsweredAs(idempotency, accruals) /\ program \in Programs
  BY GoodParts DEF AccruedNow
<1>1. ASSUME NEW k, NEW m \in Members, NEW o \in Orders, NEW f \in Facts, PostAccrual(k, m, o, f)
      PROVE  AccruedAs(book'.ledger, accruals') /\ AnsweredAs(idempotency', accruals')
  <2> DEFINE us == program.units
  <2>1. PICK s \in Nat : AccrualRow(book, book', o, us, s) /\ AccrualKeptAs(k, o, us, s)
    BY <1>1, AccrualPosts
  <2>2. PICK rec : /\ accruals' = Put(accruals, o, rec)
                   /\ idempotency'[<<"accrual.post", k>>].resp = [order |-> o, entries |-> rec.entries]
    BY <2>1 DEF AccrualKeptAs
  <2>3. o \notin DOMAIN accruals
    BY <1>1 DEF PostAccrual, Accrued
  <2>4. Len(us) \in Nat /\ \A i, j \in 1..Len(us) : us[i] = us[j] => i = j
    BY <1>0, UnitsType, ProgramAssumption DEF AssertProgram, UnitsValid
  <2>5. Sound(book') /\ Continues(book, book')
    BY <1>1, AccrualPosts
  <2>6. AccruedAs(book'.ledger, accruals')
    <3> HIDE DEF us
    <3>1. QED
      BY <1>0, <2>1, <2>2, <2>3, <2>4, <2>5, AccruedByPost
  <2> DEFINE key == <<"accrual.post", k>>
             resp == [order |-> o, entries |-> rec.entries]
  <2>7. "member" \notin DOMAIN resp /\ resp.order = o /\ resp.entries = rec.entries
    OBVIOUS
  <2>8. o \in DOMAIN accruals' /\ accruals'[o] = rec
    BY <2>2 DEF Put
  <2>9. Answers(accruals', idempotency'[key].resp)
    BY <2>2, <2>7, <2>8 DEF Answers
  <2>10. PICK stamps : idempotency' =
           [x \in DOMAIN idempotency \cup {key} \cup {<<"issued_reward.issue", i>> : i \in stamps} |->
              IF x = key THEN [fp |-> <<m, o, f>>, resp |-> idempotency'[key].resp]
              ELSE IF x \in DOMAIN idempotency THEN idempotency[x]
              ELSE [fp |-> <<x[2], StampReward(m)>>, resp |-> [issued |-> x[2], status |-> "issued"]]]
    <3> DEFINE ids    == [i \in 1..Len(program.units) |-> Len(MetricBook(m).ledger) + i]
    <3>1. PICK stamps : idempotency' =
           [x \in DOMAIN idempotency \cup {key} \cup {<<"issued_reward.issue", i>> : i \in stamps} |->
              IF x = key THEN [fp |-> <<m, o, f>>, resp |-> [order |-> o, entries |-> ids]]
              ELSE IF x \in DOMAIN idempotency THEN idempotency[x]
              ELSE [fp |-> <<x[2], StampReward(m)>>, resp |-> [issued |-> x[2], status |-> "issued"]]]
      BY <1>1 DEF PostAccrual
    <3> HIDE DEF ids
    <3>2. idempotency'[key] = [fp |-> <<m, o, f>>, resp |-> [order |-> o, entries |-> ids]]
      BY <3>1
    <3>3. idempotency'[key].resp = [order |-> o, entries |-> ids]
      BY <3>2
    <3>4. QED
      BY <3>1, <3>3
  <2>11. ASSUME NEW x \in DOMAIN idempotency'
         PROVE  "resp" \in DOMAIN idempotency'[x] /\ (x[1] = "accrual.post" => Answers(accruals', idempotency'[x].resp))
    <3>1. CASE x = key
      <4>1. idempotency'[key] = [fp |-> <<m, o, f>>, resp |-> idempotency'[key].resp]
        BY <2>10
      <4>2. QED
        BY <2>9, <3>1, <4>1
    <3>2. CASE x # key /\ x \in DOMAIN idempotency
      <4>1. idempotency'[x] = idempotency[x]
        BY <2>10, <3>2
      <4>2. QED
        BY <1>0, <2>2, <2>3, <3>2, <4>1, AnswersKept DEF AnsweredAs
    <3>3. CASE x # key /\ x \notin DOMAIN idempotency
      <4>1. PICK i : x = <<"issued_reward.issue", i>>
        BY <2>10, <3>3
      <4>2. x[1] = "issued_reward.issue" /\ "issued_reward.issue" # "accrual.post"
        BY <4>1
      <4>3. idempotency'[x] = [fp |-> <<x[2], StampReward(m)>>, resp |-> [issued |-> x[2], status |-> "issued"]]
        BY <2>10, <3>3
      <4>4. QED
        BY <4>2, <4>3
    <3>4. QED
      BY <3>1, <3>2, <3>3
  <2>12. QED
    BY <2>6, <2>11 DEF AnsweredAs
<1>2. ASSUME NEW k, NEW m, NEW o, NEW f, PostAccrualAgain(k, m, o, f)
      PROVE  accruals' = accruals /\ AnsweredAs(idempotency', accruals)
  <2> DEFINE resp == [order |-> o, entries |-> accruals[o].entries]
  <2>1. o \in DOMAIN accruals /\ Remember("accrual.post", k, <<m, o, f>>, resp) /\ accruals' = accruals
    BY <1>2 DEF PostAccrualAgain, Accrued, factVars
  <2>2. "member" \notin DOMAIN resp /\ resp.order = o /\ resp.entries = accruals[o].entries
    OBVIOUS
  <2> HIDE DEF resp
  <2>3. Answers(accruals, resp)
    BY <2>1, <2>2 DEF Answers
  <2>4. QED
    BY <1>0, <2>1, <2>3, AnsweredByOther
<1>3. ASSUME NEW m \in Members, EraseMember(m)
      PROVE  accruals' = accruals /\ AnsweredAs(idempotency', accruals)
  <2>1. /\ accruals' = accruals
        /\ idempotency' = [x \in DOMAIN idempotency |-> [idempotency[x] EXCEPT !.resp = Scrubbed(@, m)]]
    BY <1>3 DEF EraseMember, factVars
  <2>2. ASSUME NEW x \in DOMAIN idempotency
        PROVE  "resp" \in DOMAIN idempotency'[x] /\ (x[1] = "accrual.post" => Answers(accruals, idempotency'[x].resp))
    <3>1. idempotency'[x] = [idempotency[x] EXCEPT !.resp = Scrubbed(idempotency[x].resp, m)]
      BY <2>1
    <3>2. "resp" \in DOMAIN idempotency[x]
      BY <1>0 DEF AnsweredAs
    <3>3. "resp" \in DOMAIN idempotency'[x] /\ idempotency'[x].resp = Scrubbed(idempotency[x].resp, m)
      BY <3>1, <3>2
    <3>4. ASSUME x[1] = "accrual.post" PROVE Answers(accruals, idempotency'[x].resp)
      <4>1. Answers(accruals, idempotency[x].resp)
        BY <1>0, <3>4 DEF AnsweredAs
      <4>2. Scrubbed(idempotency[x].resp, m) = idempotency[x].resp
        BY <4>1 DEF Answers, Scrubbed
      <4>3. QED
        BY <3>3, <4>1, <4>2
    <3>5. QED
      BY <3>3, <3>4
  <2>3. QED
    BY <2>1, <2>2 DEF AnsweredAs
<1>4. ASSUME RecordsKept PROVE accruals' = accruals /\ AnsweredAs(idempotency', accruals)
  BY <1>0, <1>4, AnsweredByOther DEF RecordsKept, OtherAnswer
<1>5. CASE \E k : \E m \in Members, o \in Orders, f \in Facts : PostAccrual(k, m, o, f)
  BY <1>1, <1>5
<1>6. CASE ~ \E k : \E m \in Members, o \in Orders, f \in Facts : PostAccrual(k, m, o, f)
  <2>1. accruals' = accruals /\ AnsweredAs(idempotency', accruals)
    BY <1>2, <1>3, <1>4, <1>6, OtherCalls
  <2>2. NoAccrual(book, book')
    BY <1>6, OthersPostNoAccrual
  <2>3. QED
    BY <1>0, <2>1, <2>2, AccruedKept
<1>7. QED
  BY <1>5, <1>6

(* A paid order earns once in each account, and every post of it, under    *)
(* whichever key, is answered with the same entries (postAccrual, once).   *)
THEOREM OrdersAccrueOnce == Spec => []AccruedOnce
<1>1. Init => AccruedNow
  <2> SUFFICES ASSUME Init PROVE AccruedNow
    OBVIOUS
  <2>1. book.ledger = <<>> /\ idempotency = <<>>
    BY DEF Init, EmptyBook
  <2>2. Len(book.ledger) = 0 /\ DOMAIN idempotency = {}
    BY <2>1
  <2>3. QED
    BY <2>2 DEF AccruedNow, AccruedAs, AnsweredAs
<1>2. Good /\ AccruedNow /\ [Next]_vars => AccruedNow'
  <2> SUFFICES ASSUME Good, AccruedNow, [Next]_vars PROVE AccruedNow'
    OBVIOUS
  <2>1. CASE UNCHANGED vars
    BY <2>1 DEF vars, factVars, AccruedNow, AccruedAs, AnsweredAs, Answers
  <2>2. CASE Next
    <3>1. AccruedAs(book'.ledger, accruals') /\ AnsweredAs(idempotency', accruals')
      BY <2>2, AccruedNext
    <3>2. QED
      BY <3>1 DEF AccruedNow, AccruedAs, AnsweredAs, Answers
  <2>3. QED
    BY <2>1, <2>2
<1>3. Good /\ AccruedNow => AccruedOnce
  <2> SUFFICES ASSUME Good, AccruedNow PROVE AccruedOnce
    OBVIOUS
  <2>1. DOMAIN book.ledger = 1..Len(book.ledger)
    BY GoodParts, LenProperties DEF Sound, IsBook, IsSeq
  <2>2. QED
    BY <2>1 DEF AccruedNow, AccruedAs, AnsweredAs, Answers, AccruedOnce, Entries, Ledger
<1>4. QED
  BY <1>1, <1>2, <1>3, AlwaysGood, PTL DEF Spec

-------------------------------------------------------------------------------
(* Issued rewards *)

(* The number of a stamp reward is at most the number of stamp rewards     *)
(* counted for its member, so the next numbers are free.                   *)
StampIds(ws, m) == {i \in DOMAIN ws : i \notin IssuedIds /\ i[1] \in Namesakes[m]}
Numbered(ws) ==
  \A i \in DOMAIN ws :
    i \in IssuedIds \/ \E m \in Members, c \in Nat : i = <<m, c>> /\ c <= Cardinality(StampIds(ws, m))

(* Rewards come as issued, under new ids. *)
Issues(ws, new) ==
  /\ DOMAIN ws \subseteq DOMAIN new
  /\ \A i \in DOMAIN ws : new[i] = ws[i]
  /\ \A i \in DOMAIN new \ DOMAIN ws : new[i].status = "issued"

(* Rewards expire or are cancelled, unless a reservation holds them. *)
Drops(rs, ws, new) ==
  /\ DOMAIN new = DOMAIN ws
  /\ \A i \in DOMAIN ws :
       /\ new[i].reward = ws[i].reward
       /\ \/ new[i].status = ws[i].status
          \/ /\ ws[i].status # "redeemed" /\ new[i].status \in {"expired", "cancelled"}
             /\ ws[i].status = "issued" => HeldBy(rs, i) = {}

LEMMA StampIdsFinite ==
  ASSUME NEW ws, IsFiniteSet(DOMAIN ws), NEW m
  PROVE  IsFiniteSet(StampIds(ws, m)) /\ Cardinality(StampIds(ws, m)) \in Nat
<1> DEFINE S == StampIds(ws, m)
<1>1. S \in SUBSET DOMAIN ws
  BY DEF StampIds
<1> HIDE DEF S
<1>2. IsFiniteSet(S)
  BY <1>1, FS_Subset
<1>3. QED
  BY <1>2, FS_CardinalityType DEF S

LEMMA NumberedSame ==
  ASSUME NEW ws, NEW new, Numbered(ws), DOMAIN new = DOMAIN ws
  PROVE  Numbered(new)
<1>1. \A m : StampIds(new, m) = StampIds(ws, m)
  BY DEF StampIds
<1>2. QED
  BY <1>1 DEF Numbered

LEMMA NumberedIssue ==
  ASSUME NEW ws, NEW new, Numbered(ws), NEW i \in IssuedIds, DOMAIN new = DOMAIN ws \cup {i}
  PROVE  Numbered(new)
<1>1. \A m : StampIds(new, m) = StampIds(ws, m)
  BY DEF StampIds
<1>2. QED
  BY <1>1 DEF Numbered

(* issueThresholdRewards: the cards filled now have new numbers. *)
LEMMA StampsAreNew ==
  ASSUME NEW ws, Numbered(ws), IsFiniteSet(DOMAIN ws), NEW m \in Members, NEW c \in Nat,
         c > Cardinality(StampIds(ws, m))
  PROVE  <<m, c>> \notin DOMAIN ws
<1> SUFFICES ASSUME <<m, c>> \in DOMAIN ws PROVE FALSE
  OBVIOUS
<1>1. <<m, c>> \in Members \X Nat
  OBVIOUS
<1>2. <<m, c>> \notin IssuedIds
  BY <1>1, IdAssumption
<1>3. PICK n \in Members, d \in Nat : <<m, c>> = <<n, d>> /\ d <= Cardinality(StampIds(ws, n))
  BY <1>2 DEF Numbered
<1>4. n = m /\ d = c
  BY <1>3
<1>5. QED
  BY <1>3, <1>4, StampIdsFinite

LEMMA NumberedStamps ==
  ASSUME NEW ws, Numbered(ws), IsFiniteSet(DOMAIN ws), NEW m \in Members, NEW last \in Int, NEW new,
         DOMAIN new = DOMAIN ws \cup {<<m, c>> : c \in (Cardinality(StampIds(ws, m)) + 1)..last}
  PROVE  Numbered(new)
<1> DEFINE first == Cardinality(StampIds(ws, m))
           cycles == (first + 1)..last
           stamps == {<<m, c>> : c \in cycles}
<1>0. first \in Nat /\ IsFiniteSet(StampIds(ws, m))
  BY StampIdsFinite
<1> HIDE DEF first
<1>1. IsFiniteSet(cycles) /\ Cardinality(cycles) = IF first + 1 > last THEN 0 ELSE last - (first + 1) + 1
  BY <1>0, FS_Interval
<1>2. cycles \subseteq Nat
  BY <1>0
<1>3. ASSUME NEW i \in stamps PROVE i \notin IssuedIds /\ i[1] = m /\ i \notin DOMAIN ws
  <2>1. PICK c \in cycles : i = <<m, c>>
    OBVIOUS
  <2>2. c \in Nat /\ c > first
    BY <1>0, <2>1
  <2>3. <<m, c>> \in Members \X Nat /\ <<m, c>>[1] = m
    BY <2>2
  <2>4. <<m, c>> \notin IssuedIds
    BY <2>3, IdAssumption
  <2>5. QED
    BY <2>1, <2>2, <2>3, <2>4, StampsAreNew DEF first
<1>4. IsFiniteSet(stamps) /\ Cardinality(stamps) = Cardinality(cycles)
  <2> DEFINE f == [c \in cycles |-> <<m, c>>]
  <2>1. f \in Bijection(cycles, stamps)
    <3>1. f \in Surjection(cycles, stamps)
      BY DEF Surjection
    <3>2. \A c, d \in cycles : <<m, c>> = <<m, d>> => c = d
      OBVIOUS
    <3>3. f \in Injection(cycles, stamps)
      BY <3>2 DEF Injection, IsInjective
    <3>4. QED
      BY <3>1, <3>3 DEF Bijection
  <2>2. ExistsBijection(cycles, stamps)
    BY <2>1 DEF ExistsBijection
  <2> HIDE DEF cycles, stamps
  <2>3. QED
    BY <1>1, <2>2, FS_Bijection
<1>5. DOMAIN new = DOMAIN ws \cup stamps
  BY DEF first
<1> HIDE DEF cycles, stamps
<1>6. IsFiniteSet(DOMAIN new)
  BY <1>4, <1>5, FS_Union
<1>7. \A n : Cardinality(StampIds(ws, n)) <= Cardinality(StampIds(new, n))
  <2> SUFFICES ASSUME NEW n PROVE Cardinality(StampIds(ws, n)) <= Cardinality(StampIds(new, n))
    OBVIOUS
  <2>1. StampIds(ws, n) \in SUBSET StampIds(new, n)
    BY <1>5 DEF StampIds
  <2>2. QED
    BY <1>6, <2>1, StampIdsFinite, FS_Subset
<1>8. StampIds(new, m) = StampIds(ws, m) \cup stamps
  BY <1>3, <1>5, IdAssumption DEF StampIds
<1>9. StampIds(ws, m) \cap stamps = {}
  BY <1>3 DEF StampIds
<1>10. Cardinality(StampIds(new, m)) = first + Cardinality(cycles)
  <2>1. Cardinality(StampIds(ws, m) \cup stamps)
          = Cardinality(StampIds(ws, m)) + Cardinality(stamps) - Cardinality(StampIds(ws, m) \cap stamps)
    BY <1>0, <1>4, FS_Union
  <2>2. Cardinality(StampIds(ws, m) \cap stamps) = 0
    BY <1>9, FS_EmptySet
  <2>3. Cardinality(cycles) \in Nat
    BY <1>1, FS_CardinalityType
  <2>4. QED
    BY <1>0, <1>4, <1>8, <2>1, <2>2, <2>3 DEF first
<1>11. ASSUME NEW i \in DOMAIN new, i \notin IssuedIds
       PROVE  \E n \in Members, c \in Nat : i = <<n, c>> /\ c <= Cardinality(StampIds(new, n))
  <2>1. CASE i \in DOMAIN ws
    <3>1. PICK n \in Members, c \in Nat : i = <<n, c>> /\ c <= Cardinality(StampIds(ws, n))
      BY <1>11, <2>1 DEF Numbered
    <3>2. Cardinality(StampIds(ws, n)) \in Nat /\ Cardinality(StampIds(new, n)) \in Nat
      BY <1>6, StampIdsFinite
    <3>3. c <= Cardinality(StampIds(new, n))
      BY <1>7, <3>1, <3>2
    <3>4. QED
      BY <3>1, <3>3
  <2>2. CASE i \in stamps
    <3>1. PICK c \in cycles : i = <<m, c>>
      BY <2>2 DEF stamps
    <3>2. c \in Nat /\ c <= first + Cardinality(cycles)
      BY <1>0, <1>1, <3>1 DEF cycles
    <3>3. QED
      BY <1>10, <3>1, <3>2
  <2>3. QED
    BY <1>5, <1>11, <2>1, <2>2
<1>12. QED
  BY <1>11 DEF Numbered

(* Reservations and issued rewards agree, and what is still unclaimed is   *)
(* in the catalog of program p.                                            *)
Takes(h) == h.issued # None /\ h.status \in {"reserved", "captured"}

Claims(rs, ws) ==
  /\ \A r \in DOMAIN rs : Takes(rs[r]) =>
       /\ rs[r].issued \in DOMAIN ws
       /\ ws[rs[r].issued].status = IF rs[r].status = "reserved" THEN "issued" ELSE "redeemed"
  /\ \A q, r \in DOMAIN rs : Takes(rs[q]) /\ Takes(rs[r]) /\ rs[q].issued = rs[r].issued => q = r
  /\ \A i \in DOMAIN ws : ws[i].status = "redeemed" =>
       \E r \in DOMAIN rs : rs[r].issued = i /\ rs[r].status = "captured"

Offered(rs, ws, p) ==
  \A i \in DOMAIN ws : ws[i].status = "issued" /\ (\A r \in DOMAIN rs : rs[r].issued # i)
                         => ws[i].reward \in DOMAIN p.rewards

WalletAgrees(rs, ws, p) == Numbered(ws) /\ Claims(rs, ws) /\ Offered(rs, ws, p)

LEMMA NoneNotIssued == ASSUME NEW ws, Numbered(ws) PROVE None \notin DOMAIN ws
<1>1. \A m \in Members, c \in Nat : <<m, c>> \in Members \X Nat
  OBVIOUS
<1>2. QED
  BY <1>1, IdAssumption DEF Numbered

LEMMA ClaimsLapse ==
  ASSUME NEW rs, NEW ws, Claims(rs, ws), NEW new, DOMAIN new = DOMAIN rs,
         \A r \in DOMAIN rs : LapsesOne(rs[r], new[r])
  PROVE  Claims(new, ws)
<1>1. \A r \in DOMAIN rs : Takes(new[r]) => Takes(rs[r]) /\ new[r].issued = rs[r].issued /\ new[r].status = rs[r].status
  BY DEF LapsesOne, Takes
<1>2. \A r \in DOMAIN rs : rs[r].status = "captured" => new[r].status = "captured" /\ new[r].issued = rs[r].issued
  BY DEF LapsesOne
<1>3. \A q, r \in DOMAIN rs : Takes(new[q]) /\ Takes(new[r]) /\ new[q].issued = new[r].issued => q = r
  BY <1>1 DEF Claims
<1>4. \A r \in DOMAIN rs : Takes(new[r]) =>
        /\ new[r].issued \in DOMAIN ws
        /\ ws[new[r].issued].status = IF new[r].status = "reserved" THEN "issued" ELSE "redeemed"
  BY <1>1 DEF Claims
<1>5. \A i \in DOMAIN ws : ws[i].status = "redeemed" =>
        \E r \in DOMAIN rs : new[r].issued = i /\ new[r].status = "captured"
  BY <1>2 DEF Claims
<1>6. QED
  BY <1>3, <1>4, <1>5 DEF Claims

LEMMA ClaimsDrop ==
  ASSUME NEW rs, NEW ws, Claims(rs, ws), NEW new, Drops(rs, ws, new)
  PROVE  Claims(rs, new)
<1>1. ASSUME NEW r \in DOMAIN rs, Takes(rs[r])
      PROVE  /\ rs[r].issued \in DOMAIN new
             /\ new[rs[r].issued].status = IF rs[r].status = "reserved" THEN "issued" ELSE "redeemed"
  <2> DEFINE i == rs[r].issued
  <2>1. i \in DOMAIN ws /\ ws[i].status = IF rs[r].status = "reserved" THEN "issued" ELSE "redeemed"
    BY <1>1 DEF Claims
  <2>2. rs[r].status = "reserved" => HeldBy(rs, i) # {}
    BY DEF HeldBy
  <2> HIDE DEF i
  <2>3. new[i].status = ws[i].status /\ i \in DOMAIN new
    BY <2>1, <2>2 DEF Drops
  <2>4. QED
    BY <2>1, <2>3 DEF i
<1>2. ASSUME NEW i \in DOMAIN new, new[i].status = "redeemed"
      PROVE  \E r \in DOMAIN rs : rs[r].issued = i /\ rs[r].status = "captured"
  <2>1. i \in DOMAIN ws /\ ws[i].status = "redeemed"
    BY <1>2 DEF Drops
  <2>2. QED
    BY <2>1 DEF Claims
<1>3. \A q, r \in DOMAIN rs : Takes(rs[q]) /\ Takes(rs[r]) /\ rs[q].issued = rs[r].issued => q = r
  BY DEF Claims
<1>4. QED
  BY <1>1, <1>2, <1>3 DEF Claims

LEMMA ClaimsIssue ==
  ASSUME NEW rs, NEW ws, Claims(rs, ws), NEW new, Issues(ws, new)
  PROVE  Claims(rs, new)
<1>1. \A r \in DOMAIN rs : Takes(rs[r]) =>
        /\ rs[r].issued \in DOMAIN new
        /\ new[rs[r].issued].status = IF rs[r].status = "reserved" THEN "issued" ELSE "redeemed"
  BY DEF Claims, Issues
<1>2. \A i \in DOMAIN new : new[i].status = "redeemed" => i \in DOMAIN ws /\ ws[i].status = "redeemed"
  BY DEF Issues
<1>3. QED
  BY <1>1, <1>2 DEF Claims

LEMMA ClaimsHold ==
  ASSUME NEW rs, NEW ws, Claims(rs, ws), NEW new, NEW i, AddsHold(rs, new, i),
         i # None => i \in DOMAIN ws /\ ws[i].status = "issued" /\ HeldBy(rs, i) = {}
  PROVE  Claims(new, ws)
<1> DEFINE n == Len(rs) + 1
<1>0. /\ DOMAIN new = DOMAIN rs \cup {n} /\ n \notin DOMAIN rs
      /\ \A q \in DOMAIN rs : LapsesOne(rs[q], new[q])
      /\ new[n].issued = i /\ new[n].status = "reserved"
  BY DEF AddsHold
<1> HIDE DEF n
<1>1. \A r \in DOMAIN rs : Takes(new[r]) => Takes(rs[r]) /\ new[r].issued = rs[r].issued /\ new[r].status = rs[r].status
  BY <1>0 DEF LapsesOne, Takes
<1>2. ASSUME NEW r \in DOMAIN rs, Takes(new[r]), new[r].issued = i PROVE FALSE
  <2>1. Takes(rs[r]) /\ rs[r].issued = i /\ i # None
    BY <1>1, <1>2 DEF Takes
  <2>2. rs[r].status = "reserved"
    BY <2>1 DEF Claims, Takes
  <2>3. QED
    BY <2>1, <2>2 DEF HeldBy
<1>3. ASSUME NEW q \in DOMAIN new, NEW r \in DOMAIN new, Takes(new[q]), Takes(new[r]), new[q].issued = new[r].issued
      PROVE  q = r
  <2>1. CASE q = n \/ r = n
    BY <1>0, <1>2, <1>3, <2>1
  <2>2. CASE q # n /\ r # n
    BY <1>0, <1>1, <1>3, <2>2 DEF Claims
  <2>3. QED
    BY <2>1, <2>2
<1>4. ASSUME NEW r \in DOMAIN new, Takes(new[r])
      PROVE  /\ new[r].issued \in DOMAIN ws
             /\ ws[new[r].issued].status = IF new[r].status = "reserved" THEN "issued" ELSE "redeemed"
  <2>1. CASE r = n
    BY <1>0, <1>4, <2>1 DEF Takes
  <2>2. CASE r # n
    BY <1>0, <1>1, <1>4, <2>2 DEF Claims
  <2>3. QED
    BY <2>1, <2>2
<1>5. ASSUME NEW j \in DOMAIN ws, ws[j].status = "redeemed"
      PROVE  \E r \in DOMAIN new : new[r].issued = j /\ new[r].status = "captured"
  <2>1. PICK r \in DOMAIN rs : rs[r].issued = j /\ rs[r].status = "captured"
    BY <1>5 DEF Claims
  <2>2. QED
    BY <1>0, <2>1 DEF LapsesOne
<1>6. QED
  BY <1>3, <1>4, <1>5 DEF Claims

(* Settling a hold that took reward i, or none. *)
SettlesReward(ws, nws, i, s) ==
  /\ DOMAIN nws = DOMAIN ws
  /\ \A j \in DOMAIN ws : j # i => nws[j] = ws[j]
  /\ i # None => nws[i].status = IF s = "captured" THEN "redeemed" ELSE "issued"

LEMMA ClaimsSettle ==
  ASSUME NEW rs, NEW ws, Claims(rs, ws), None \notin DOMAIN ws, NEW new, NEW nws, NEW r \in DOMAIN rs,
         NEW s \in {"captured", "reversed"}, Settles(rs, new, r, s), Takes(rs[r]) \/ rs[r].issued = None,
         SettlesReward(ws, nws, rs[r].issued, s)
  PROVE  Claims(new, nws)
<1> DEFINE i == rs[r].issued
<1>0. /\ DOMAIN new = DOMAIN rs
      /\ \A q \in DOMAIN rs \ {r} : LapsesOne(rs[q], new[q])
      /\ new[r].issued = i /\ new[r].status = s
  BY DEF Settles
<1>t. i # None => Takes(rs[r])
  OBVIOUS
<1>i. i # None => i \in DOMAIN ws
  BY <1>t DEF Claims
<1>n. /\ DOMAIN nws = DOMAIN ws
      /\ \A j \in DOMAIN ws : j # i => nws[j].status = ws[j].status
      /\ i # None => nws[i].status = IF s = "captured" THEN "redeemed" ELSE "issued"
  BY DEF SettlesReward
<1> HIDE DEF i
<1>1. \A q \in DOMAIN rs \ {r} :
        Takes(new[q]) => Takes(rs[q]) /\ new[q].issued = rs[q].issued /\ new[q].status = rs[q].status
  BY <1>0 DEF LapsesOne, Takes
<1>2. \A q \in DOMAIN rs \ {r} : Takes(rs[q]) => rs[q].issued # i
  BY <1>t DEF Claims, Takes, i
<1>3. ASSUME NEW q \in DOMAIN new, NEW t \in DOMAIN new, Takes(new[q]), Takes(new[t]), new[q].issued = new[t].issued
      PROVE  q = t
  <2>1. CASE q = r \/ t = r
    BY <1>0, <1>1, <1>2, <1>3, <2>1
  <2>2. CASE q # r /\ t # r
    BY <1>0, <1>1, <1>3, <2>2 DEF Claims
  <2>3. QED
    BY <2>1, <2>2
<1>4. ASSUME NEW q \in DOMAIN new, Takes(new[q])
      PROVE  /\ new[q].issued \in DOMAIN nws
             /\ nws[new[q].issued].status = IF new[q].status = "reserved" THEN "issued" ELSE "redeemed"
  <2>1. CASE q = r
    BY <1>0, <1>i, <1>n, <1>4, <2>1 DEF Takes
  <2>2. CASE q # r
    <3>1. Takes(rs[q]) /\ new[q].issued = rs[q].issued /\ new[q].status = rs[q].status /\ rs[q].issued # i
      BY <1>0, <1>1, <1>2, <1>4, <2>2
    <3>2. /\ rs[q].issued \in DOMAIN ws
          /\ ws[rs[q].issued].status = IF rs[q].status = "reserved" THEN "issued" ELSE "redeemed"
      BY <1>0, <3>1 DEF Claims
    <3>3. QED
      BY <1>n, <3>1, <3>2
  <2>3. QED
    BY <2>1, <2>2
<1>5. ASSUME NEW j \in DOMAIN nws, nws[j].status = "redeemed"
      PROVE  \E q \in DOMAIN new : new[q].issued = j /\ new[q].status = "captured"
  <2>1. CASE j = i
    BY <1>0, <1>n, <1>5, <2>1
  <2>2. CASE j # i
    <3>1. ws[j].status = "redeemed"
      BY <1>n, <1>5, <2>2
    <3>2. PICK q \in DOMAIN rs : rs[q].issued = j /\ rs[q].status = "captured"
      BY <1>n, <3>1 DEF Claims
    <3>3. q # r
      BY <2>2, <3>2 DEF i
    <3>4. QED
      BY <1>0, <3>2, <3>3 DEF LapsesOne
  <2>3. QED
    BY <2>1, <2>2
<1>6. QED
  BY <1>3, <1>4, <1>5 DEF Claims

(* What the quiet calls do to the wallet and the program. *)
Untouched == issuedRewards' = issuedRewards /\ program' = program
IssuesOne ==
  /\ program' = program /\ reservations' = reservations
  /\ \E i, m, w :
       /\ i \in IssuedIds /\ i \notin DOMAIN issuedRewards /\ w.reward \in DOMAIN program.rewards
       /\ issuedRewards' = Put(issuedRewards, i, IssuedReward(m, w))
DropsSome ==
  /\ program' = program /\ reservations' = reservations
  /\ Drops(reservations, issuedRewards, issuedRewards')

Reconfigures == issuedRewards' = issuedRewards /\ KeepsIssuedRewards(program')

LEMMA ExpiredDrops ==
  ASSUME Good, NEW i \in DOMAIN issuedRewards
  PROVE  LET w == issuedRewards[i]
             x == ExpiredIssued(i)
         IN  /\ x.reward = w.reward
             /\ \/ x.status = w.status
                \/ w.status = "issued" /\ x.status = "expired" /\ HeldBy(reservations, i) = {}
<1>1. IsIssued(issuedRewards[i])
  BY GoodParts DEF WalletOK
<1>2. QED
  BY <1>1 DEF ExpiredIssued, IsIssued

LEMMA QuietWallet ==
  ASSUME Good, QuietCall
  PROVE  Untouched \/ IssuesOne \/ DropsSome \/ Reconfigures
<1>1. CASE Tick
  BY <1>1 DEF Tick, walletVars, Untouched
<1>2. CASE MemberStep
  <2>1. ASSUME NEW k, NEW i, NEW m, NEW v,
               \/ Lookup(k, i) \/ Enroll(k, i, m) \/ EnrollAgain(k, i, m) \/ CancelMember(m)
               \/ EraseMember(m) \/ InspectMemberErasure(m) \/ SetMemberMembership(m, v)
        PROVE  Untouched
    BY <2>1 DEF Lookup, Enroll, EnrollAgain, CancelMember, EraseMember, InspectMemberErasure,
                SetMemberMembership, Untouched
  <2>2. QED
    BY <1>2, <2>1 DEF MemberStep
<1>3. CASE ReadStep
  <2>1. ASSUME NEW k, NEW m, ListIssuedRewards(k, m) PROVE DropsSome
    <3>1. /\ program' = program /\ reservations' = reservations
          /\ issuedRewards' = [i \in DOMAIN issuedRewards |->
                                 IF issuedRewards[i].member = m THEN ExpiredIssued(i) ELSE issuedRewards[i]]
      BY <2>1 DEF ListIssuedRewards
    <3>2. Drops(reservations, issuedRewards, issuedRewards')
      BY <3>1, ExpiredDrops DEF Drops
    <3>3. QED
      BY <3>1, <3>2 DEF DropsSome
  <2>2. ASSUME NEW k, NEW m, NEW f, \/ GetAccount(k, m) \/ ListLedger(k, m) \/ Evaluate(k, m, f) \/ GetProgram(k)
                                    \/ GetLedger \/ Inspect
        PROVE  Untouched
    BY <2>2 DEF GetAccount, ListLedger, Evaluate, GetProgram, GetLedger, Inspect, walletVars, Untouched
  <2>3. QED
    BY <1>3, <2>1, <2>2 DEF ReadStep
<1>4. CASE IssueStep
  <2>1. ASSUME NEW k, NEW i \in IssuedIds, NEW m, NEW w, IssueReward(k, i, m, w) PROVE IssuesOne
    BY <2>1 DEF IssueReward, Issuable, IssuesOne
  <2>2. ASSUME NEW k, NEW i, NEW m, NEW w, IssueRewardAgain(k, i, m, w) PROVE Untouched
    BY <2>2 DEF IssueRewardAgain, walletVars, Untouched
  <2>3. ASSUME NEW k, NEW i \in DOMAIN issuedRewards, CancelIssuedReward(k, i) PROVE DropsSome
    <3> DEFINE w == issuedRewards[i]
               x == [w EXCEPT !.status = "cancelled"]
    <3>1. /\ program' = program /\ reservations' = reservations
          /\ issuedRewards' = [issuedRewards EXCEPT ![i].status = "cancelled"]
          /\ \/ w.status = "cancelled"
             \/ ExpiredIssued(i).status = "issued" /\ HeldBy(reservations, i) = {}
      BY <2>3 DEF CancelIssuedReward
    <3>2. IsIssued(w)
      BY GoodParts DEF WalletOK
    <3>3. x.status = "cancelled" /\ x.reward = w.reward
      BY <3>2 DEF IsIssued
    <3>4. w.status = "cancelled" \/ (w.status = "issued" /\ HeldBy(reservations, i) = {})
      BY <3>1, ExpiredDrops
    <3>5. /\ DOMAIN issuedRewards' = DOMAIN issuedRewards /\ issuedRewards'[i] = x
          /\ \A j \in DOMAIN issuedRewards \ {i} : issuedRewards'[j] = issuedRewards[j]
      BY <3>1
    <3> HIDE DEF x
    <3>6. Drops(reservations, issuedRewards, issuedRewards')
      BY <3>3, <3>4, <3>5 DEF Drops
    <3>7. QED
      BY <3>1, <3>6 DEF DropsSome
  <2>4. ASSUME NEW i \in DOMAIN issuedRewards, RejectOverdueReward(i) PROVE DropsSome
    <3>1. /\ program' = program /\ reservations' = reservations
          /\ issuedRewards' = [issuedRewards EXCEPT ![i] = ExpiredIssued(i)]
      BY <2>4 DEF RejectOverdueReward
    <3>2. Drops(reservations, issuedRewards, issuedRewards')
      BY <3>1, ExpiredDrops DEF Drops
    <3>3. QED
      BY <3>1, <3>2 DEF DropsSome
  <2>5. QED
    BY <1>4, <2>1, <2>2, <2>3, <2>4 DEF IssueStep
<1>5. CASE ProgramStep
  <2>1. ASSUME NEW p, ReconfigureProgram(p) PROVE Reconfigures
    BY <2>1 DEF ReconfigureProgram, Reconfigures
  <2>2. ASSUME NEW p, NEW m, NEW ms, RejectReconfigure(p, m, ms) PROVE Untouched
    BY <2>2 DEF RejectReconfigure, Untouched
  <2>3. QED
    BY <1>5, <2>1, <2>2 DEF ProgramStep
<1>6. ASSUME NEW k, NEW o, NEW f, NEW m, PostAccrualAgain(k, m, o, f) PROVE Untouched
  BY <1>6 DEF PostAccrualAgain, Untouched
<1>7. ASSUME NEW k, NEW rd, NEW rw, NEW o, NEW i, NEW m, ReserveAgain(k, m, rd, rw, o, i) PROVE Untouched
  BY <1>7 DEF ReserveAgain, Untouched
<1>8. ASSUME NEW k, NEW op, NEW st, NEW r, SettleAgain(k, r, op, st) PROVE Untouched
  BY <1>8 DEF SettleAgain, Untouched
<1>9. ASSUME NEW r, RejectOverdueReservation(r) PROVE Untouched
  BY <1>9 DEF RejectOverdueReservation, Untouched
<1>10. ASSUME NEW m, NEW u, RejectLowBalance(m, u) PROVE Untouched
  BY <1>10 DEF RejectLowBalance, Untouched
<1>11. ASSUME NEW k, NEW x, NEW o, NEW a, NEW m, AdjustOrderAgain(k, m, x, o, a) PROVE Untouched
  BY <1>11 DEF AdjustOrderAgain, Untouched
<1>12. ASSUME NEW k, NEW x, NEW a, NEW m, PostManualAdjustmentAgain(k, m, x, a) PROVE Untouched
  BY <1>12 DEF PostManualAdjustmentAgain, Untouched
<1>13. ASSUME NEW m, NEW us, RejectAdjustment(m, us) PROVE Untouched
  BY <1>13 DEF RejectAdjustment, walletVars, Untouched
<1>14. QED
  BY <1>1, <1>2, <1>3, <1>4, <1>5, <1>6, <1>7, <1>8, <1>9, <1>10, <1>11, <1>12, <1>13 DEF QuietCall

(* The reservations of before keep the reward they name. *)
NamesKept(rs, new) == \A r \in DOMAIN rs : r \in DOMAIN new /\ new[r].issued = rs[r].issued

LEMMA OfferedKept ==
  ASSUME NEW rs, NEW ws, NEW p, Offered(rs, ws, p), NEW new, NamesKept(rs, new),
         NEW nws, DOMAIN nws = DOMAIN ws,
         \A i \in DOMAIN ws :
           nws[i].status = "issued" => \/ ws[i].status = "issued" /\ nws[i].reward = ws[i].reward
                                       \/ \E r \in DOMAIN rs : rs[r].issued = i
  PROVE  Offered(new, nws, p)
<1> SUFFICES ASSUME NEW i \in DOMAIN nws, nws[i].status = "issued", \A r \in DOMAIN new : new[r].issued # i
             PROVE  nws[i].reward \in DOMAIN p.rewards
  BY DEF Offered
<1>1. \A r \in DOMAIN rs : rs[r].issued # i
  BY DEF NamesKept
<1>2. ws[i].status = "issued" /\ nws[i].reward = ws[i].reward
  BY <1>1
<1>3. QED
  BY <1>1, <1>2 DEF Offered

LEMMA LapsesKeeps ==
  ASSUME NEW rs, NEW ws, NEW p, WalletAgrees(rs, ws, p), NEW new, Lapses(rs, new)
  PROVE  WalletAgrees(new, ws, p)
<1>1. DOMAIN new = DOMAIN rs /\ \A r \in DOMAIN rs : LapsesOne(rs[r], new[r])
  BY DEF Lapses, LapsesOne
<1>2. Claims(new, ws)
  BY <1>1, ClaimsLapse DEF WalletAgrees
<1>3. NamesKept(rs, new)
  BY <1>1 DEF NamesKept, LapsesOne
<1>4. Offered(new, ws, p)
  BY <1>3, OfferedKept DEF WalletAgrees
<1>5. QED
  BY <1>2, <1>4 DEF WalletAgrees

LEMMA QuietAgrees ==
  ASSUME Good, WalletAgrees(reservations, issuedRewards, program), QuietCall
  PROVE  WalletAgrees(reservations', issuedRewards', program')
<1> DEFINE rs == reservations
           ws == issuedRewards
<1>0. Numbered(ws) /\ Claims(rs, ws) /\ Offered(rs, ws, program)
  BY DEF WalletAgrees
<1>1. Lapses(reservations, reservations')
  BY QuietCalls DEF QuietStep
<1>2. CASE Untouched
  BY <1>1, <1>2, LapsesKeeps DEF Untouched
<1>3. CASE IssuesOne
  <2>1. PICK i, m, w :
          /\ i \in IssuedIds /\ i \notin DOMAIN ws /\ w.reward \in DOMAIN program.rewards
          /\ issuedRewards' = Put(ws, i, IssuedReward(m, w))
    BY <1>3 DEF IssuesOne
  <2>2. IssuedReward(m, w).status = "issued" /\ IssuedReward(m, w).reward = w.reward
    BY DEF IssuedReward
  <2>3. /\ DOMAIN issuedRewards' = DOMAIN ws \cup {i} /\ issuedRewards'[i] = IssuedReward(m, w)
        /\ \A j \in DOMAIN ws : issuedRewards'[j] = ws[j]
    BY <2>1 DEF Put
  <2>4. Numbered(issuedRewards')
    BY <1>0, <2>1, <2>3, NumberedIssue
  <2>5. Issues(ws, issuedRewards')
    BY <2>2, <2>3 DEF Issues
  <2>6. Claims(rs, issuedRewards')
    BY <1>0, <2>5, ClaimsIssue
  <2>7. Offered(rs, issuedRewards', program)
    BY <1>0, <2>1, <2>2, <2>3 DEF Offered
  <2>8. QED
    BY <1>3, <2>4, <2>6, <2>7 DEF WalletAgrees, IssuesOne
<1>4. CASE DropsSome
  <2>1. Drops(rs, ws, issuedRewards') /\ reservations' = rs /\ program' = program
    BY <1>4 DEF DropsSome
  <2>2. Numbered(issuedRewards')
    BY <1>0, <2>1, NumberedSame DEF Drops
  <2>3. Claims(rs, issuedRewards')
    BY <1>0, <2>1, ClaimsDrop
  <2>4. DOMAIN issuedRewards' = DOMAIN ws /\ \A i \in DOMAIN ws : issuedRewards'[i].status = "issued"
          => ws[i].status = "issued" /\ issuedRewards'[i].reward = ws[i].reward
    BY <2>1 DEF Drops
  <2>5. NamesKept(rs, rs)
    BY DEF NamesKept
  <2>6. Offered(rs, issuedRewards', program)
    BY <1>0, <2>4, <2>5, OfferedKept
  <2>7. QED
    BY <2>1, <2>2, <2>3, <2>6 DEF WalletAgrees
<1>5. CASE Reconfigures
  <2>1. issuedRewards' = ws /\ KeepsIssuedRewards(program')
    BY <1>5 DEF Reconfigures
  <2>2. WalletAgrees(reservations', ws, program)
    BY <1>1, LapsesKeeps
  <2>3. Offered(reservations', ws, program')
    BY <2>1 DEF KeepsIssuedRewards, Offered
  <2>4. QED
    BY <2>1, <2>2, <2>3 DEF WalletAgrees
<1>6. QED
  BY <1>2, <1>3, <1>4, <1>5, QuietWallet

LEMMA AccrualAgrees ==
  ASSUME Good, WalletAgrees(reservations, issuedRewards, program),
         NEW k, NEW m \in Members, NEW o \in Orders, NEW f \in Facts, PostAccrual(k, m, o, f)
  PROVE  WalletAgrees(reservations', issuedRewards', program')
<1> DEFINE rs     == reservations
           ws     == issuedRewards
           b0     == MetricBook(m)
           bps    == EarningMultiplierBps(program, b0, m, members[m].membership, now)
           n      == Len(program.units)
           es     == [i \in 1..n |-> AccrualEntry(m, o, f, program.units[i], bps)]
           a      == AddLedger(b0, es)
           b1     == StampSweep(a, m)
           cycles == NewCycles(b1, m)
           stamps == {StampId(m, c) : c \in cycles}
<1>0. /\ Numbered(ws) /\ Claims(rs, ws) /\ Offered(rs, ws, program) /\ program \in Programs
      /\ IsFiniteSet(DOMAIN ws) /\ now \in Nat
  BY GoodParts DEF WalletAgrees, WalletOK
<1>1. /\ issuedRewards' = [i \in DOMAIN ws \cup stamps |-> IF i \in stamps THEN StampReward(m) ELSE ws[i]]
      /\ program' = program
  BY DEF PostAccrual
<1>2. reservations' = Lapsed
  BY AccrualPosts
<1>3. Sound(b0)
  BY GoodParts, ExpirePointLotsSound DEF MetricBook, Balance
<1> HIDE DEF b0
<1>4. bps \in Int
  BY <1>0, <1>3, EarningMultiplierType DEF Sound
<1> HIDE DEF bps
<1>5. n \in Nat /\ \A i \in 1..n : program.units[i] \in UnitSet(program) /\ program.units[i] \in Units
  BY <1>0, UnitsType
<1>6. IsSeq(es) /\ Len(es) = n
  BY <1>5, FunctionIsSeq
<1>7. ASSUME NEW i \in 1..Len(es) PROVE IsEntry(es[i])
  <2> DEFINE u == program.units[i]
  <2>1. u \in UnitSet(program) /\ u \in Units /\ es[i] = AccrualEntry(m, o, f, u, bps)
    BY <1>5, <1>6
  <2> HIDE DEF u, es
  <2>2. AccrualAmount(program, u, f, bps) \in Int /\ LotExpiry(program, u, now) \in Int
    BY <1>0, <1>4, <2>1, AccrualAmountType, LotExpiryType
  <2>3. QED
    BY <2>1, <2>2 DEF AccrualEntry, IsEntry, EntryOps, NoExpiry
<1> HIDE DEF es
<1>8. Sound(a)
  BY <1>3, <1>6, <1>7, AddLedgerSound
<1> HIDE DEF a
<1>9. Sound(b1)
  BY <1>8, ExpirePointLotsSound DEF StampSweep, Balance
<1> HIDE DEF b1
<1>10. /\ IssuedCycles(m) = Cardinality(StampIds(ws, m)) /\ IssuedCycles(m) \in Nat
       /\ program.visit # None => EligibleCycles(b1, m) \in Int
  BY <1>9, CyclesType DEF IssuedCycles, StampIds
<1>11. PICK last \in Int : cycles = (Cardinality(StampIds(ws, m)) + 1)..last
                           /\ (cycles # {} => program.visit # None)
  <2>1. CASE program.visit = None
    <3>1. cycles = {}
      BY <2>1 DEF NewCycles
    <3>2. (Cardinality(StampIds(ws, m)) + 1)..0 = {}
      BY <1>10
    <3>3. 0 \in Int
      OBVIOUS
    <3>4. QED
      BY <3>1, <3>2, <3>3
  <2>2. CASE program.visit # None
    <3>1. cycles = (Cardinality(StampIds(ws, m)) + 1)..EligibleCycles(b1, m)
      BY <1>10, <2>2 DEF NewCycles
    <3>2. QED
      BY <1>10, <2>2, <3>1
  <2>3. QED
    BY <2>1, <2>2
<1> HIDE DEF cycles
<1>12. stamps = {<<m, c>> : c \in (Cardinality(StampIds(ws, m)) + 1)..last}
  BY <1>11 DEF StampId
<1>13. ASSUME NEW i \in stamps PROVE i \notin DOMAIN ws
  <2>1. PICK c \in (Cardinality(StampIds(ws, m)) + 1)..last : i = <<m, c>>
    BY <1>12
  <2>2. c \in Nat /\ c > Cardinality(StampIds(ws, m))
    BY <1>10, <2>1
  <2>3. QED
    BY <1>0, <2>1, <2>2, StampsAreNew
<1>14. StampReward(m).status = "issued" /\ StampReward(m).reward = program.visit.reward
  BY DEF StampReward
<1>15. stamps # {} => program.visit.reward \in DOMAIN program.rewards
  BY <1>0, <1>11, ProgramAssumption DEF AssertProgram, CardValid
<1>16. /\ DOMAIN issuedRewards' = DOMAIN ws \cup stamps
       /\ \A i \in stamps : issuedRewards'[i] = StampReward(m)
       /\ \A i \in DOMAIN ws : issuedRewards'[i] = ws[i]
  BY <1>1, <1>13
<1>17. Numbered(issuedRewards')
  BY <1>0, <1>12, <1>16, NumberedStamps
<1> HIDE DEF stamps
<1>18. Issues(ws, issuedRewards')
  BY <1>14, <1>16 DEF Issues
<1>19. Claims(rs, issuedRewards')
  BY <1>0, <1>18, ClaimsIssue
<1>20. Offered(rs, issuedRewards', program)
  BY <1>0, <1>14, <1>15, <1>16 DEF Offered
<1>21. WalletAgrees(rs, issuedRewards', program)
  BY <1>17, <1>19, <1>20 DEF WalletAgrees
<1>22. QED
  BY <1>1, <1>2, <1>21, LapsedLapses, LapsesKeeps

LEMMA HoldAgrees ==
  ASSUME Good, WalletAgrees(reservations, issuedRewards, program),
         NEW k, NEW m, NEW rd, NEW rw, NEW o, NEW i, NEW b, AddReservation(k, m, rd, rw, o, i, b),
         i # None => /\ i \in DOMAIN issuedRewards /\ issuedRewards[i].status = "issued"
                     /\ HeldBy(reservations, i) = {},
         UNCHANGED <<program, issuedRewards>>
  PROVE  WalletAgrees(reservations', issuedRewards', program')
<1>1. AddsHold(reservations, reservations', i)
  BY HoldAdded
<1>2. Claims(reservations', issuedRewards)
  BY <1>1, ClaimsHold DEF WalletAgrees
<1>3. NamesKept(reservations, reservations')
  BY <1>1 DEF AddsHold, LapsesOne, NamesKept
<1>4. Offered(reservations', issuedRewards, program)
  BY <1>3, OfferedKept DEF WalletAgrees
<1>5. QED
  BY <1>2, <1>4 DEF WalletAgrees

LEMMA SettleAgrees ==
  ASSUME Good, WalletAgrees(reservations, issuedRewards, program),
         NEW r \in DOMAIN reservations, NEW s \in {"captured", "reversed"},
         Settles(reservations, reservations', r, s),
         reservations[r].status \in {"reserved", "captured"},
         SettlesReward(issuedRewards, issuedRewards', reservations[r].issued, s), program' = program
  PROVE  WalletAgrees(reservations', issuedRewards', program')
<1>0. /\ Numbered(issuedRewards) /\ Claims(reservations, issuedRewards)
      /\ Offered(reservations, issuedRewards, program) /\ None \notin DOMAIN issuedRewards
  BY NoneNotIssued DEF WalletAgrees
<1>1. Numbered(issuedRewards')
  BY <1>0, NumberedSame DEF SettlesReward
<1>2. Takes(reservations[r]) \/ reservations[r].issued = None
  BY DEF Takes
<1>3. Claims(reservations', issuedRewards')
  BY <1>0, <1>2, ClaimsSettle
<1>4. NamesKept(reservations, reservations')
  BY DEF Settles, LapsesOne, NamesKept
<1>5. /\ DOMAIN issuedRewards' = DOMAIN issuedRewards
      /\ \A j \in DOMAIN issuedRewards :
        issuedRewards'[j].status = "issued"
          => \/ issuedRewards[j].status = "issued" /\ issuedRewards'[j].reward = issuedRewards[j].reward
             \/ \E q \in DOMAIN reservations : reservations[q].issued = j
  BY DEF SettlesReward
<1>6. Offered(reservations', issuedRewards', program)
  BY <1>0, <1>4, <1>5, OfferedKept
<1>7. QED
  BY <1>1, <1>3, <1>6 DEF WalletAgrees

WalletNow == WalletAgrees(reservations, issuedRewards, program)

LEMMA WalletNext ==
  ASSUME Good, WalletNow, Next
  PROVE  WalletAgrees(reservations', issuedRewards', program')
<1>0. /\ WalletAgrees(reservations, issuedRewards, program) /\ Claims(reservations, issuedRewards)
      /\ \A i \in DOMAIN issuedRewards : IsIssued(issuedRewards[i])
  BY GoodParts DEF WalletNow, WalletAgrees, WalletOK
<1>1. CASE QuietCall
  BY <1>0, <1>1, QuietAgrees
<1>2. ASSUME NEW k, NEW m \in Members, NEW o \in Orders, NEW f \in Facts, PostAccrual(k, m, o, f)
      PROVE  WalletAgrees(reservations', issuedRewards', program')
  BY <1>0, <1>2, AccrualAgrees
<1>3. ASSUME NEW k, NEW m \in Members, NEW rd, NEW rw, NEW o, Reserve(k, m, rd, rw, o)
      PROVE  WalletAgrees(reservations', issuedRewards', program')
  <2> DEFINE b == Balance(book, m, program.rewards[rw].unit)
  <2>1. AddReservation(k, m, rd, rw, o, None, b) /\ UNCHANGED <<program, issuedRewards>>
    BY <1>3 DEF Reserve
  <2> HIDE DEF b
  <2>2. QED
    BY <1>0, <2>1, HoldAgrees
<1>4. ASSUME NEW k, NEW m \in Members, NEW rd, NEW rw, NEW o, NEW i \in DOMAIN issuedRewards,
             ReserveIssued(k, m, rd, rw, o, i)
      PROVE  WalletAgrees(reservations', issuedRewards', program')
  <2>1. /\ AddReservation(k, m, rd, rw, o, i, book) /\ UNCHANGED <<program, issuedRewards>>
        /\ ExpiredIssued(i).status = "issued" /\ HeldBy(reservations, i) = {}
    BY <1>4 DEF ReserveIssued
  <2>2. issuedRewards[i].status = "issued"
    BY <2>1, ExpiredDrops
  <2>3. QED
    BY <1>0, <2>1, <2>2, HoldAgrees
<1>5. ASSUME NEW i \in DOMAIN issuedRewards, NEW st, NEW s, st = IF s = "captured" THEN "redeemed" ELSE "issued",
             issuedRewards' = [issuedRewards EXCEPT ![i].status = st]
      PROVE  SettlesReward(issuedRewards, issuedRewards', i, s)
  <2>1. [issuedRewards[i] EXCEPT !.status = st].status = st
    BY <1>0 DEF IsIssued
  <2>2. QED
    BY <1>5, <2>1 DEF SettlesReward
<1>6. ASSUME NEW k, NEW r \in DOMAIN reservations, Capture(k, r)
      PROVE  WalletAgrees(reservations', issuedRewards', program')
  <2> DEFINE i == reservations[r].issued
  <2>1. reservations[r].status = "reserved" /\ Settles(reservations, reservations', r, "captured")
    BY <1>6, HoldSettled DEF Capture, LiveHold, Statuses
  <2>2. /\ program' = program
        /\ issuedRewards' = IF i = None THEN issuedRewards
                            ELSE [issuedRewards EXCEPT ![i].status = "redeemed"]
    BY <1>6 DEF Capture
  <2>3. i # None => i \in DOMAIN issuedRewards
    BY <1>0, <2>1 DEF Claims, Takes
  <2>4. SettlesReward(issuedRewards, issuedRewards', i, "captured")
    <3>1. CASE i = None
      BY <2>2, <3>1 DEF SettlesReward
    <3>2. CASE i # None
      BY <1>5, <2>2, <2>3, <3>2
    <3>3. QED
      BY <3>1, <3>2
  <2>5. QED
    BY <1>0, <2>1, <2>2, <2>4, SettleAgrees
<1>7. ASSUME NEW k, NEW r \in DOMAIN reservations, ReverseHold(k, r)
      PROVE  WalletAgrees(reservations', issuedRewards', program')
  <2>1. reservations[r].status = "reserved" /\ Settles(reservations, reservations', r, "reversed")
    BY <1>7, HoldSettled DEF ReverseHold, LiveHold, Statuses
  <2>2. program' = program /\ issuedRewards' = issuedRewards
    BY <1>7 DEF ReverseHold
  <2>3. SettlesReward(issuedRewards, issuedRewards', reservations[r].issued, "reversed")
    BY <1>0, <2>1, <2>2 DEF Claims, Takes, SettlesReward
  <2>4. QED
    BY <1>0, <2>1, <2>2, <2>3, SettleAgrees
<1>8. ASSUME NEW k, NEW r \in DOMAIN reservations, ReverseCapture(k, r)
      PROVE  WalletAgrees(reservations', issuedRewards', program')
  <2> DEFINE i == reservations[r].issued
  <2>1. reservations[r].status = "captured" /\ Settles(reservations, reservations', r, "reversed")
    BY <1>8, HoldSettled DEF ReverseCapture, Statuses
  <2>2. /\ program' = program
        /\ issuedRewards' = IF i # None /\ issuedRewards[i].status = "redeemed"
                            THEN [issuedRewards EXCEPT ![i].status = "issued"]
                            ELSE issuedRewards
    BY <1>8 DEF ReverseCapture
  <2>3. i # None => i \in DOMAIN issuedRewards /\ issuedRewards[i].status = "redeemed"
    BY <1>0, <2>1 DEF Claims, Takes
  <2>4. SettlesReward(issuedRewards, issuedRewards', i, "reversed")
    <3>1. CASE i = None
      BY <2>2, <3>1 DEF SettlesReward
    <3>2. CASE i # None
      BY <1>5, <2>2, <2>3, <3>2
    <3>3. QED
      BY <3>1, <3>2
  <2>5. QED
    BY <1>0, <2>1, <2>2, <2>4, SettleAgrees
<1>9. ASSUME NEW k, NEW m \in Members, NEW x \in AdjustmentIds, NEW o \in Orders, NEW a \in OrderAdjustments,
             AdjustOrder(k, m, x, o, a)
      PROVE  WalletAgrees(reservations', issuedRewards', program')
  <2>1. reservations' = Lapsed
    BY <1>9, AdjustOrderPosts
  <2>2. issuedRewards' = issuedRewards /\ program' = program
    BY <1>9 DEF AdjustOrder
  <2>3. QED
    BY <1>0, <2>1, <2>2, LapsedLapses, LapsesKeeps
<1>10. ASSUME NEW k, NEW m \in Members, NEW x \in AdjustmentIds, NEW a \in ManualAdjustments,
              PostManualAdjustment(k, m, x, a)
       PROVE  WalletAgrees(reservations', issuedRewards', program')
  <2>1. reservations' = Lapsed
    BY <1>10, ManualPosts
  <2>2. issuedRewards' = issuedRewards /\ program' = program
    BY <1>10 DEF PostManualAdjustment
  <2>3. QED
    BY <1>0, <2>1, <2>2, LapsedLapses, LapsesKeeps
<1>11. QED
  BY <1>1, <1>2, <1>3, <1>4, <1>6, <1>7, <1>8, <1>9, <1>10, Calls

(* The wallet and the reservations agree in every state. *)
LEMMA AlwaysAgrees == Spec => []WalletNow
<1>1. Init => WalletNow
  <2> SUFFICES ASSUME Init PROVE WalletNow
    OBVIOUS
  <2>1. reservations = <<>> /\ issuedRewards = <<>>
    BY DEF Init
  <2>2. DOMAIN reservations = {} /\ DOMAIN issuedRewards = {}
    BY <2>1
  <2>3. QED
    BY <2>2 DEF WalletNow, WalletAgrees, Numbered, Claims, Offered
<1>2. Good /\ WalletNow /\ [Next]_vars => WalletNow'
  <2> SUFFICES ASSUME Good, WalletNow, [Next]_vars PROVE WalletNow'
    OBVIOUS
  <2>1. CASE UNCHANGED vars
    <3>1. reservations' = reservations /\ issuedRewards' = issuedRewards /\ program' = program
      BY <2>1 DEF vars, walletVars
    <3>2. WalletAgrees(reservations', issuedRewards', program')
      BY <3>1 DEF WalletNow
    <3>3. QED
      BY <3>2 DEF WalletNow, WalletAgrees, Numbered, StampIds, Claims, Takes, Offered
  <2>2. CASE Next
    <3>1. WalletAgrees(reservations', issuedRewards', program')
      BY <2>2, WalletNext
    <3>2. QED
      BY <3>1 DEF WalletNow, WalletAgrees, Numbered, StampIds, Claims, Takes, Offered
  <2>3. QED
    BY <2>1, <2>2
<1>3. QED
  BY <1>1, <1>2, AlwaysGood, PTL DEF Spec

(* While a reservation holds an issued reward the reward stays issued: it  *)
(* does not expire, is not cancelled and is not redeemed under another     *)
(* reservation, so capture never fails after it changed the status.        *)
THEOREM HeldRewardsClaimable == Spec => []HeldRewardClaimable
<1>1. WalletNow => HeldRewardClaimable
  BY DEF WalletNow, WalletAgrees, Claims, Takes, HeldRewardClaimable
<1>2. QED
  BY <1>1, AlwaysAgrees, PTL

(* An issued reward buys one redemption: at most one reservation takes it, *)
(* and it is redeemed exactly while that reservation is captured (reserve, *)
(* capture, reverse, cancelIssuedReward).                                  *)
THEOREM IssuedRewardsUsedOnce == Spec => []IssuedRewardUsedOnce
<1>1. WalletNow => IssuedRewardUsedOnce
  <2> SUFFICES ASSUME WalletNow, NEW i \in DOMAIN issuedRewards
               PROVE  LET taken == {r \in DOMAIN reservations :
                                      /\ reservations[r].issued = i
                                      /\ reservations[r].status \in {"reserved", "captured"}}
                      IN  /\ Cardinality(taken) <= 1
                          /\ issuedRewards[i].status = "redeemed"
                               <=> \E r \in taken : reservations[r].status = "captured"
    BY DEF IssuedRewardUsedOnce
  <2> DEFINE taken == {r \in DOMAIN reservations :
                         /\ reservations[r].issued = i
                         /\ reservations[r].status \in {"reserved", "captured"}}
  <2>1. i # None /\ Claims(reservations, issuedRewards)
    BY NoneNotIssued DEF WalletNow, WalletAgrees
  <2>2. \A q, r \in taken : q = r
    BY <2>1 DEF Claims, Takes
  <2>3. issuedRewards[i].status = "redeemed" <=> \E r \in taken : reservations[r].status = "captured"
    <3>1. \A r \in DOMAIN reservations : reservations[r].issued = i /\ reservations[r].status = "captured"
            => issuedRewards[i].status = "redeemed"
      BY <2>1 DEF Claims, Takes
    <3>2. issuedRewards[i].status = "redeemed" =>
            \E r \in DOMAIN reservations : reservations[r].issued = i /\ reservations[r].status = "captured"
      BY <2>1 DEF Claims
    <3>3. QED
      BY <3>1, <3>2
  <2> HIDE DEF taken
  <2>4. Cardinality(taken) <= 1
    BY <2>2, AtMostOne
  <2>5. QED
    BY <2>3, <2>4 DEF taken
<1>2. QED
  BY <1>1, AlwaysAgrees, PTL

(* An issued reward nobody claimed is still in the catalog, whichever      *)
(* programs were published since (reconfigureProgram).                     *)
THEOREM IssuedRewardsOffered == Spec => []IssuedRewardOffered
<1>1. WalletNow => IssuedRewardOffered
  BY DEF WalletNow, WalletAgrees, Offered, IssuedRewardOffered
<1>2. QED
  BY <1>1, AlwaysAgrees, PTL

-------------------------------------------------------------------------------
(* Point lots *)

LotsNow == LotsGood(book, Len(reservations))

(* Two sequences with the same places have the same length. *)
LEMMA SameLength ==
  ASSUME NEW a \in Nat, NEW b \in Nat, 1..a = 1..b
  PROVE  a = b
<1>1. a <= b
  <2>1. CASE a = 0
    BY <2>1
  <2>2. CASE a # 0
    <3>1. a \in 1..a
      BY <2>2
    <3>2. QED
      BY <3>1
  <2>3. QED
    BY <2>1, <2>2
<1>2. b <= a
  <2>1. CASE b = 0
    BY <2>1
  <2>2. CASE b # 0
    <3>1. b \in 1..b
      BY <2>2
    <3>2. QED
      BY <3>1
  <2>3. QED
    BY <2>1, <2>2
<1>3. QED
  BY <1>1, <1>2

LEMMA LotsNext ==
  ASSUME Good, LotsNow, Next
  PROVE  LotsGood(book', Len(reservations'))
<1> DEFINE n == Len(reservations)
<1>0. /\ Sound(book) /\ LotsGood(book, n)
      /\ n \in Nat /\ DOMAIN reservations = 1..n
  BY GoodParts, HoldsAre DEF LotsNow
<1>1. ReservationsOK(reservations')
  <2>1. TypeOK'
    BY NextGood DEF Kept, Good
  <2>2. QED
    BY <2>1 DEF TypeOK
<1>2. DOMAIN reservations' = 1..Len(reservations') /\ Len(reservations') \in Nat
  BY <1>1, ReservationsDomain
<1>3. ASSUME DOMAIN reservations' = DOMAIN reservations PROVE Len(reservations') = n
  BY <1>0, <1>2, <1>3, SameLength
<1> HIDE DEF n
<1>4. ASSUME KeepsLots(book, book'), DOMAIN reservations' = DOMAIN reservations
      PROVE  LotsGood(book', Len(reservations'))
  BY <1>0, <1>3, <1>4 DEF KeepsLots
<1>5. CASE QuietCall
  BY <1>4, <1>5, QuietCalls DEF QuietStep, OnlyExpires, Lapses
<1>l. DOMAIN Lapsed = DOMAIN reservations
  BY DEF Lapsed
<1>6. ASSUME NEW k, NEW m \in Members, NEW o \in Orders, NEW f \in Facts, PostAccrual(k, m, o, f)
      PROVE  LotsGood(book', Len(reservations'))
  BY <1>4, <1>6, <1>l, AccrualPosts
<1>7. ASSUME NEW i, NEW k, NEW m, NEW rd, NEW rw, NEW o, NEW b, OnlyExpires(book, b),
             AddReservation(k, m, rd, rw, o, i, b)
      PROVE  LotsGood(book', Len(reservations'))
  <2>1. book' = ExpirePointLots(b, {m}, UnitSet(program), now)
    BY <1>7 DEF AddReservation, Balances
  <2>2. OnlyExpires(b, book')
    BY <1>7, <2>1, ExpiryOnlyExpires DEF OnlyExpires
  <2>3. OnlyExpires(book, book')
    BY <1>0, <1>7, <2>2, ExpiresTwice
  <2>4. DOMAIN reservations' = DOMAIN reservations \cup {n + 1}
    BY <1>7, HoldAdded DEF AddsHold, n
  <2>5. DOMAIN reservations' = 1..(n + 1) /\ n + 1 \in Nat
    BY <1>0, <2>4 DEF n
  <2>6. Len(reservations') = n + 1
    BY <1>2, <2>5, SameLength
  <2>7. LotsGood(book', n) /\ Sound(book')
    BY <1>0, <2>3 DEF OnlyExpires, KeepsLots
  <2>8. LotsGood(book', n + 1)
    BY <1>0, <2>7, ReserveKeepsLots
  <2>9. QED
    BY <2>6, <2>8
<1>8. ASSUME NEW k, NEW m \in Members, NEW rd, NEW rw, NEW o, Reserve(k, m, rd, rw, o)
      PROVE  LotsGood(book', Len(reservations'))
  <2> DEFINE b == Balance(book, m, program.rewards[rw].unit)
  <2>1. AddReservation(k, m, rd, rw, o, None, b)
    BY <1>8 DEF Reserve
  <2>2. OnlyExpires(book, b)
    BY <1>0, ExpiryOnlyExpires DEF Balance
  <2> HIDE DEF b
  <2>3. QED
    BY <1>7, <2>1, <2>2
<1>9. ASSUME NEW k, NEW m \in Members, NEW rd, NEW rw, NEW o, NEW i, ReserveIssued(k, m, rd, rw, o, i)
      PROVE  LotsGood(book', Len(reservations'))
  BY <1>0, <1>7, <1>9, SameExpires DEF ReserveIssued
<1>10. ASSUME NEW k, NEW r \in DOMAIN reservations, Capture(k, r)
       PROVE  LotsGood(book', Len(reservations'))
  <2>1. DOMAIN reservations' = DOMAIN reservations
    BY <1>10, <1>l DEF Capture
  <2>2. LotsGood(book', n)
    BY <1>0, <1>10, CapturePosts DEF n
  <2>3. QED
    BY <1>3, <2>1, <2>2
<1>11. ASSUME NEW k, NEW r \in DOMAIN reservations, ReverseHold(k, r)
       PROVE  LotsGood(book', Len(reservations'))
  <2>1. OnlyExpires(book, book')
    BY <1>0, <1>11, ExpiryOnlyExpires DEF ReverseHold, Balances
  <2>2. DOMAIN reservations' = DOMAIN reservations
    BY <1>11, <1>l DEF ReverseHold
  <2>3. QED
    BY <1>4, <2>1, <2>2 DEF OnlyExpires
<1>12. ASSUME NEW k, NEW r \in DOMAIN reservations, ReverseCapture(k, r)
       PROVE  LotsGood(book', Len(reservations'))
  <2>1. DOMAIN reservations' = DOMAIN reservations
    BY <1>12, <1>l DEF ReverseCapture
  <2>2. QED
    BY <1>4, <1>12, <2>1, ReversalPosts
<1>13. ASSUME NEW k, NEW m \in Members, NEW x \in AdjustmentIds, NEW o \in Orders, NEW a \in OrderAdjustments,
              AdjustOrder(k, m, x, o, a)
       PROVE  LotsGood(book', Len(reservations'))
  BY <1>4, <1>13, <1>l, AdjustOrderPosts DEF Adds
<1>14. ASSUME NEW k, NEW m \in Members, NEW x \in AdjustmentIds, NEW a \in ManualAdjustments,
              PostManualAdjustment(k, m, x, a)
       PROVE  LotsGood(book', Len(reservations'))
  BY <1>4, <1>14, <1>l, ManualPosts
<1>15. QED
  BY <1>5, <1>6, <1>8, <1>9, <1>10, <1>11, <1>12, <1>13, <1>14, Calls

(* No point of a lot is used twice: what is left of it, what captured      *)
(* redemptions hold of it and what expired from it never exceed the entry  *)
(* that opened it, in whatever order captures, reversals and sweeps come   *)
(* (consumePointLots, restorePointLots, expirePointLots).                  *)
THEOREM LotsNeverOverspent == Spec => []LotsConserved
<1>1. Init => LotsNow
  <2> SUFFICES ASSUME Init PROVE LotsNow
    OBVIOUS
  <2>1. book.ledger = <<>> /\ DOMAIN book.lots = {} /\ DOMAIN book.consumptions = {}
    BY DEF Init, EmptyBook
  <2>2. Len(book.ledger) = 0
    BY <2>1
  <2>3. QED
    BY <2>1, <2>2 DEF LotsNow, LotsGood, ExpiresLots
<1>2. Good /\ LotsNow /\ [Next]_vars => LotsNow'
  <2> SUFFICES ASSUME Good, LotsNow, [Next]_vars PROVE LotsNow'
    OBVIOUS
  <2>1. LotsGood(book', Len(reservations')) => LotsNow'
    BY DEF LotsNow, LotsGood, ExpiresLots, LotUse, ConsumedAmounts, ExpiredAmounts
  <2>2. CASE UNCHANGED vars
    BY <2>1, <2>2 DEF vars, walletVars, LotsNow
  <2>3. CASE Next
    BY <2>1, <2>3, LotsNext
  <2>4. QED
    BY <2>2, <2>3
<1>3. LotsNow => LotsConserved
  BY DEF LotsNow, LotsGood, LotUse, ConsumedAmounts, ExpiredAmounts, LotsConserved, Consumed,
         ExpiredFrom, Ledger
<1>4. QED
  BY <1>1, <1>2, <1>3, AlwaysGood, PTL DEF Spec

-------------------------------------------------------------------------------
(* What an order holds *)

OfOrder(e, o, u) == e.order = o /\ e.op \in {"accrual", "adjustment"} /\ e.unit = u

OrderAmounts(l, o, u) ==
  [i \in 1..Len(l) |-> IF OfOrder(l[i], o, u) THEN l[i].amount ELSE 0]

AddedAmounts(b, c, o, u) ==
  [i \in 1..(Len(c.ledger) - Len(b.ledger)) |->
     IF OfOrder(c.ledger[Len(b.ledger) + i], o, u) THEN c.ledger[Len(b.ledger) + i].amount ELSE 0]

LEMMA OrderAmountsType ==
  ASSUME NEW b, Sound(b), NEW o, NEW u
  PROVE  LET q == OrderAmounts(b.ledger, o, u)
         IN  /\ q \in Seq(Int) /\ Len(q) = Len(b.ledger)
             /\ OrderNet(b.ledger, o, u) = Total(q) /\ OrderNet(b.ledger, o, u) \in Int
<1> DEFINE q == OrderAmounts(b.ledger, o, u)
<1>1. Len(b.ledger) \in Nat /\ \A i \in 1..Len(b.ledger) : b.ledger[i].amount \in Int
  BY SoundLen DEF Sound, IsBook, IsEntry
<1>2. q \in [1..Len(b.ledger) -> Int]
  BY <1>1 DEF OrderAmounts
<1>3. OrderNet(b.ledger, o, u) = Total(q)
  BY DEF OrderNet, OrderAmounts, OfOrder
<1> HIDE DEF q
<1>4. q \in Seq(Int) /\ Len(q) = Len(b.ledger)
  BY <1>1, <1>2
<1>5. QED
  BY <1>3, <1>4, TotalType DEF q

(* What an order holds grows by what is added to the ledger. *)
LEMMA OrderNetGrows ==
  ASSUME NEW b, NEW c, Sound(b), Sound(c), Continues(b, c), NEW o, NEW u
  PROVE  LET q == AddedAmounts(b, c, o, u)
         IN  /\ q \in Seq(Int) /\ Len(q) = Len(c.ledger) - Len(b.ledger)
             /\ OrderNet(c.ledger, o, u) = OrderNet(b.ledger, o, u) + Total(q)
<1> DEFINE n == Len(b.ledger)
           A == OrderAmounts(b.ledger, o, u)
           B == AddedAmounts(b, c, o, u)
           C == OrderAmounts(c.ledger, o, u)
<1>1. /\ n \in Nat /\ Len(c.ledger) \in Nat /\ n <= Len(c.ledger)
      /\ \A i \in 1..n : c.ledger[i] = b.ledger[i]
      /\ \A i \in 1..Len(c.ledger) : c.ledger[i].amount \in Int
  BY SoundLen DEF Continues, Sound, IsBook, IsEntry
<1>2. /\ A \in Seq(Int) /\ Len(A) = n /\ OrderNet(b.ledger, o, u) = Total(A)
      /\ C \in Seq(Int) /\ Len(C) = Len(c.ledger) /\ OrderNet(c.ledger, o, u) = Total(C)
  BY OrderAmountsType
<1>3. ASSUME NEW i \in 1..(Len(c.ledger) - n) PROVE n + i \in 1..Len(c.ledger)
  BY <1>1
<1> DEFINE d == Len(c.ledger) - n
<1>4. d \in Nat /\ B \in [1..d -> Int]
  <2>1. \A i \in 1..d : B[i] \in Int
    BY <1>1, <1>3 DEF AddedAmounts
  <2>2. B = [i \in 1..d |-> B[i]]
    BY DEF AddedAmounts
  <2> HIDE DEF B
  <2>3. B \in [1..d -> Int]
    BY <2>1, <2>2
  <2>4. d \in Nat
    BY <1>1
  <2>5. QED
    BY <2>3, <2>4
<1>5. \A i \in 1..n : C[i] = A[i]
  BY <1>1 DEF OrderAmounts
<1>6. \A i \in 1..d : C[n + i] = B[i]
  BY <1>3 DEF OrderAmounts, AddedAmounts
<1>d. n + d = Len(c.ledger)
  BY <1>1
<1> HIDE DEF A, B, C, n, d
<1>7. B \in Seq(Int) /\ Len(B) = d
  BY <1>4
<1>8. Total(C) = Total(A) + Total(B)
  <2>1. /\ A \in Seq(Int) /\ B \in Seq(Int) /\ C \in Seq(Int) /\ Len(C) = Len(A) + Len(B)
        /\ \A i \in 1..Len(A) : C[i] = A[i]
        /\ \A i \in 1..Len(B) : C[Len(A) + i] = B[i]
    BY <1>2, <1>5, <1>6, <1>7, <1>d
  <2>2. QED
    BY <2>1, TotalSplit
<1>9. QED
  BY <1>2, <1>7, <1>8 DEF B, n, d

LEMMA OrderNetSame ==
  ASSUME NEW b, NEW c, Sound(b), Sound(c), Continues(b, c), NEW o, NEW u,
         \A i \in (Len(b.ledger) + 1)..Len(c.ledger) : ~OfOrder(c.ledger[i], o, u)
  PROVE  OrderNet(c.ledger, o, u) = OrderNet(b.ledger, o, u)
<1> DEFINE q == AddedAmounts(b, c, o, u)
<1>1. /\ q \in Seq(Int) /\ Len(q) = Len(c.ledger) - Len(b.ledger)
      /\ OrderNet(c.ledger, o, u) = OrderNet(b.ledger, o, u) + Total(q)
  BY OrderNetGrows
<1>2. Len(b.ledger) \in Nat /\ Len(c.ledger) \in Nat
  BY SoundLen
<1>3. ASSUME NEW i \in 1..(Len(c.ledger) - Len(b.ledger)) PROVE q[i] = 0
  <2>1. Len(b.ledger) + i \in (Len(b.ledger) + 1)..Len(c.ledger)
    BY <1>2
  <2>2. QED
    BY <2>1 DEF AddedAmounts
<1> HIDE DEF q
<1>4. Total(q) = 0
  BY <1>1, <1>3, TotalZero
<1>5. OrderNet(b.ledger, o, u) \in Int
  BY OrderAmountsType
<1>6. QED
  BY <1>1, <1>4, <1>5

(* Among the entries that were added to b, the one at p is the only one of *)
(* the order in the unit.                                                  *)
OneOfOrder(b, c, p, o, u) ==
  /\ p \in (Len(b.ledger) + 1)..Len(c.ledger) /\ OfOrder(c.ledger[p], o, u)
  /\ \A i \in (Len(b.ledger) + 1)..Len(c.ledger) : i # p => ~OfOrder(c.ledger[i], o, u)

LEMMA OrderNetOne ==
  ASSUME NEW b, NEW c, Sound(b), Sound(c), Continues(b, c), NEW o, NEW u, NEW p, OneOfOrder(b, c, p, o, u)
  PROVE  OrderNet(c.ledger, o, u) = OrderNet(b.ledger, o, u) + c.ledger[p].amount
<1> DEFINE q == AddedAmounts(b, c, o, u)
           n == Len(b.ledger)
<1>0. /\ p \in (n + 1)..Len(c.ledger) /\ OfOrder(c.ledger[p], o, u)
      /\ \A i \in (n + 1)..Len(c.ledger) : i # p => ~OfOrder(c.ledger[i], o, u)
  BY DEF OneOfOrder
<1>1. /\ q \in Seq(Int) /\ Len(q) = Len(c.ledger) - n
      /\ OrderNet(c.ledger, o, u) = OrderNet(b.ledger, o, u) + Total(q)
  BY OrderNetGrows
<1>2. n \in Nat /\ Len(c.ledger) \in Nat
  BY SoundLen
<1>3. p - n \in 1..(Len(c.ledger) - n) /\ n + (p - n) = p
  BY <1>0, <1>2
<1>4. q[p - n] = c.ledger[p].amount
  BY <1>0, <1>3 DEF AddedAmounts
<1>5. ASSUME NEW i \in 1..(Len(c.ledger) - n), i # p - n PROVE q[i] = 0
  <2>1. n + i \in (n + 1)..Len(c.ledger) /\ n + i # p
    BY <1>0, <1>2, <1>3, <1>5
  <2>2. QED
    BY <1>0, <2>1 DEF AddedAmounts
<1> HIDE DEF q, n
<1>6. Total(q) = q[p - n]
  <2> DEFINE k == p - n
  <2>1. k \in 1..Len(q) /\ \A i \in 1..Len(q) : i # k => q[i] = 0
    BY <1>1, <1>3, <1>5
  <2> HIDE DEF k
  <2>2. Total(q) = q[k]
    BY <1>1, <2>1, TotalSingle
  <2>3. QED
    BY <2>2 DEF k
<1>7. QED
  BY <1>1, <1>4, <1>6

(* What the record of an accrual names: its entries, and all of them. *)
Recorded(l, acc) ==
  /\ \A o \in DOMAIN acc : \A i \in 1..Len(acc[o].entries) :
       /\ acc[o].entries[i] \in 1..Len(l)
       /\ l[acc[o].entries[i]].op = "accrual" /\ l[acc[o].entries[i]].order = o
  /\ \A j \in 1..Len(l) : l[j].op = "accrual" =>
       \E i \in 1..Len(acc[l[j].order].entries) : acc[l[j].order].entries[i] = j

(* An accrued order holds its accrual and the adjustments since. *)
LEMMA OrderHolds ==
  ASSUME Good, AccruedAs(book.ledger, accruals), Recorded(book.ledger, accruals),
         NEW o \in DOMAIN accruals, NEW u
  PROVE  /\ OriginalAmount(o, u) \in Int /\ PriorAdjustments(book.ledger, o, u) \in Int
         /\ OrderNet(book.ledger, o, u) = OriginalAmount(o, u) + PriorAdjustments(book.ledger, o, u)
<1> DEFINE l == book.ledger
           n == Len(book.ledger)
           p == [i \in 1..n |-> IF l[i].order = o /\ l[i].op = "adjustment" /\ l[i].unit = u
                                THEN l[i].amount ELSE 0]
           q == OrderAmounts(l, o, u)
<1>1. Sound(book) /\ n \in Nat /\ \A i \in 1..n : l[i].amount \in Int
  BY GoodParts, SoundLen DEF Sound, IsBook, IsEntry
<1>2. q \in Seq(Int) /\ Len(q) = n /\ OrderNet(l, o, u) = Total(q) /\ Total(q) \in Int
  BY <1>1, OrderAmountsType
<1>3. p \in [1..n -> Int] /\ PriorAdjustments(l, o, u) = Total(p)
  BY <1>1 DEF PriorAdjustments
<1>4. \A i \in 1..n : /\ ~(OfOrder(l[i], o, u) /\ l[i].op = "accrual") => q[i] = p[i]
                      /\ OfOrder(l[i], o, u) /\ l[i].op = "accrual" => q[i] = l[i].amount /\ p[i] = 0
  BY DEF OrderAmounts, OfOrder
<1> HIDE DEF p, q
<1>5. p \in Seq(Int) /\ Len(p) = n
  BY <1>1, <1>3
<1>6. Total(p) \in Int
  BY <1>5, TotalType
<1>7. CASE OriginalEntries(o, u) = {}
  <2>1. ASSUME NEW i \in 1..n, OfOrder(l[i], o, u), l[i].op = "accrual" PROVE FALSE
    <3>1. PICK j \in 1..Len(accruals[o].entries) : accruals[o].entries[j] = i
      BY <2>1 DEF Recorded, OfOrder
    <3>2. j \in OriginalEntries(o, u)
      BY <2>1, <3>1 DEF OriginalEntries, Accrued, OfOrder
    <3>3. QED
      BY <1>7, <3>2
  <2>2. \A i \in 1..n : q[i] = p[i]
    BY <1>4, <2>1
  <2>3. q = p
    BY <1>2, <1>5, <2>2, SeqEqual
  <2>4. OriginalAmount(o, u) = 0
    BY <1>7 DEF OriginalAmount
  <2>5. QED
    BY <1>2, <1>3, <1>6, <2>3, <2>4
<1>8. CASE OriginalEntries(o, u) # {}
  <2> DEFINE j == CHOOSE i \in OriginalEntries(o, u) : TRUE
             k == accruals[o].entries[j]
  <2>1. j \in OriginalEntries(o, u)
    BY <1>8
  <2>a. \A i \in OriginalEntries(o, u) : i \in 1..Len(accruals[o].entries) /\ l[accruals[o].entries[i]].unit = u
    BY DEF OriginalEntries, Accrued
  <2>2. j \in 1..Len(accruals[o].entries) /\ l[k].unit = u
    BY <2>1, <2>a, Zenon
  <2>3. OriginalAmount(o, u) = l[k].amount
    BY <1>8 DEF OriginalAmount
  <2> HIDE DEF j
  <2>4. k \in 1..n /\ l[k].op = "accrual" /\ l[k].order = o
    BY <2>2 DEF Recorded
  <2> HIDE DEF k
  <2>5. OfOrder(l[k], o, u) /\ q[k] = l[k].amount /\ p[k] = 0
    BY <1>4, <2>2, <2>4 DEF OfOrder
  <2>6. ASSUME NEW i \in 1..n, i # k PROVE q[i] = p[i]
    <3>1. ~(OfOrder(l[i], o, u) /\ l[i].op = "accrual")
      BY <2>2, <2>4, <2>6 DEF AccruedAs, OfOrder
    <3>2. QED
      BY <1>4, <3>1
  <2>7. Total(q) - q[k] = Total(p) - p[k]
    BY <1>2, <1>5, <2>4, <2>6, TotalUpdate
  <2>8. l[k].amount \in Int
    BY <1>1, <2>4
  <2>9. QED
    BY <1>2, <1>3, <1>6, <2>3, <2>5, <2>7, <2>8
<1>9. QED
  BY <1>7, <1>8

LEMMA RecordedKept ==
  ASSUME NEW b, NEW c, Sound(b), NoAccrual(b, c), NEW acc, Recorded(b.ledger, acc)
  PROVE  Recorded(c.ledger, acc)
<1>1. Len(b.ledger) \in Nat /\ Len(c.ledger) \in Nat
  BY SoundLen DEF NoAccrual
<1>2. \A i \in 1..Len(b.ledger) : i \in 1..Len(c.ledger) /\ c.ledger[i] = b.ledger[i]
  BY <1>1 DEF NoAccrual, Continues
<1>3. \A i \in 1..Len(c.ledger) : c.ledger[i].op = "accrual" => i \in 1..Len(b.ledger)
  BY <1>1 DEF NoAccrual
<1>4. ASSUME NEW o \in DOMAIN acc, NEW i \in 1..Len(acc[o].entries)
      PROVE  /\ acc[o].entries[i] \in 1..Len(c.ledger)
             /\ c.ledger[acc[o].entries[i]].op = "accrual" /\ c.ledger[acc[o].entries[i]].order = o
  BY <1>2, <1>4 DEF Recorded
<1>5. ASSUME NEW j \in 1..Len(c.ledger), c.ledger[j].op = "accrual"
      PROVE  \E i \in 1..Len(acc[c.ledger[j].order].entries) : acc[c.ledger[j].order].entries[i] = j
  <2>1. j \in 1..Len(b.ledger) /\ c.ledger[j] = b.ledger[j]
    BY <1>2, <1>3, <1>5
  <2>2. QED
    BY <1>5, <2>1 DEF Recorded
<1>6. QED
  BY <1>4, <1>5 DEF Recorded

LEMMA RecordedByPost ==
  ASSUME NEW b, NEW c, Sound(b), Sound(c), Continues(b, c), NEW acc,
         AccruedAs(b.ledger, acc), Recorded(b.ledger, acc),
         NEW o, o \notin DOMAIN acc, NEW us, Len(us) \in Nat,
         NEW s \in Nat, AccrualRow(b, c, o, us, s), NEW rec, rec.entries = [i \in 1..Len(us) |-> s + i]
  PROVE  Recorded(c.ledger, Put(acc, o, rec))
<1> DEFINE new == Put(acc, o, rec)
<1>1. Len(b.ledger) \in Nat /\ Len(c.ledger) \in Nat
  BY SoundLen
<1>2. \A i \in 1..Len(b.ledger) : i \in 1..Len(c.ledger) /\ c.ledger[i] = b.ledger[i]
  BY <1>1 DEF Continues
<1>3. /\ DOMAIN new = DOMAIN acc \cup {o} /\ new[o] = rec
      /\ \A x \in DOMAIN acc : new[x] = acc[x]
  BY DEF Put
<1>e. Len(rec.entries) = Len(us)
  BY FunctionIsSeq
<1> HIDE DEF new
<1>4. ASSUME NEW x \in DOMAIN new, NEW i \in 1..Len(new[x].entries)
      PROVE  /\ new[x].entries[i] \in 1..Len(c.ledger)
             /\ c.ledger[new[x].entries[i]].op = "accrual" /\ c.ledger[new[x].entries[i]].order = x
  <2>1. CASE x \in DOMAIN acc
    <3>1. new[x] = acc[x] /\ i \in 1..Len(acc[x].entries)
      BY <1>3, <1>4, <2>1
    <3> DEFINE k == acc[x].entries[i]
    <3>2. k \in 1..Len(b.ledger) /\ b.ledger[k].op = "accrual" /\ b.ledger[k].order = x
      BY <2>1, <3>1 DEF Recorded
    <3>3. k \in 1..Len(c.ledger) /\ c.ledger[k] = b.ledger[k]
      BY <1>2, <3>2
    <3>4. QED
      BY <3>1, <3>2, <3>3
  <2>2. CASE x = o
    <3>1. i \in 1..Len(us) /\ new[x].entries[i] = s + i
      BY <1>3, <1>4, <1>e, <2>2
    <3>2. s + i \in 1..Len(c.ledger)
      BY <1>1, <3>1 DEF AccrualRow
    <3>3. QED
      BY <2>2, <3>1, <3>2 DEF AccrualRow
  <2>3. QED
    BY <1>3, <2>1, <2>2
<1>5. ASSUME NEW j \in 1..Len(c.ledger), c.ledger[j].op = "accrual"
      PROVE  \E i \in 1..Len(new[c.ledger[j].order].entries) : new[c.ledger[j].order].entries[i] = j
  <2>1. CASE j <= Len(b.ledger)
    <3>1. j \in 1..Len(b.ledger) /\ c.ledger[j] = b.ledger[j]
      BY <1>1, <1>2, <2>1
    <3>2. b.ledger[j].order \in DOMAIN acc
      BY <1>5, <3>1 DEF AccruedAs
    <3>3. \E i \in 1..Len(acc[b.ledger[j].order].entries) : acc[b.ledger[j].order].entries[i] = j
      BY <1>5, <3>1 DEF Recorded
    <3>4. QED
      BY <1>3, <3>1, <3>2, <3>3
  <2>2. CASE j > Len(b.ledger)
    <3>0. j \in (Len(b.ledger) + 1)..Len(c.ledger)
      BY <1>1, <2>2
    <3>1. j \in (s + 1)..(s + Len(us))
      BY <1>5, <3>0 DEF AccrualRow
    <3>2. j - s \in 1..Len(us) /\ s + (j - s) = j
      BY <3>1
    <3>3. c.ledger[j].order = o
      <4> DEFINE q == j - s
      <4>1. q \in 1..Len(us) /\ s + q = j
        BY <3>2
      <4> HIDE DEF q
      <4>2. c.ledger[s + q].order = o
        BY <4>1 DEF AccrualRow
      <4>3. QED
        BY <4>1, <4>2
    <3>4. rec.entries[j - s] = j
      BY <3>2
    <3>5. QED
      BY <1>3, <1>e, <3>2, <3>3, <3>4
  <2>3. QED
    BY <1>1, <2>1, <2>2
<1>6. Recorded(c.ledger, new)
  BY <1>4, <1>5 DEF Recorded
<1>7. QED
  BY <1>6 DEF new

RecordedNow == AccruedNow /\ Recorded(book.ledger, accruals)

LEMMA RecordedNext ==
  ASSUME Good, RecordedNow, Next
  PROVE  Recorded(book'.ledger, accruals')
<1>0. Sound(book) /\ AccruedAs(book.ledger, accruals) /\ Recorded(book.ledger, accruals)
  BY GoodParts DEF RecordedNow, AccruedNow
<1>1. ASSUME NEW k, NEW m \in Members, NEW o \in Orders, NEW f \in Facts, PostAccrual(k, m, o, f)
      PROVE  Recorded(book'.ledger, accruals')
  <2> DEFINE us == program.units
  <2>1. PICK s \in Nat : AccrualRow(book, book', o, us, s) /\ AccrualKeptAs(k, o, us, s)
    BY <1>1, AccrualPosts
  <2>2. PICK rec : accruals' = Put(accruals, o, rec) /\ rec.entries = [i \in 1..Len(us) |-> s + i]
    BY <2>1 DEF AccrualKeptAs
  <2>3. o \notin DOMAIN accruals
    BY <1>1 DEF PostAccrual, Accrued
  <2>4. Len(us) \in Nat /\ Sound(book') /\ Continues(book, book')
    BY <1>1, GoodParts, UnitsType, AccrualPosts
  <2> HIDE DEF us
  <2>5. Recorded(book'.ledger, Put(accruals, o, rec))
    BY <1>0, <2>1, <2>2, <2>3, <2>4, RecordedByPost
  <2>6. QED
    BY <2>2, <2>5
<1>2. CASE \E k : \E m \in Members, o \in Orders, f \in Facts : PostAccrual(k, m, o, f)
  BY <1>1, <1>2
<1>3. CASE ~ \E k : \E m \in Members, o \in Orders, f \in Facts : PostAccrual(k, m, o, f)
  <2>1. accruals' = accruals
    BY <1>3, OtherCalls DEF PostAccrualAgain, EraseMember, RecordsKept, factVars
  <2>2. NoAccrual(book, book')
    BY <1>3, OthersPostNoAccrual
  <2>3. QED
    BY <1>0, <2>1, <2>2, RecordedKept
<1>4. QED
  BY <1>2, <1>3

LEMMA RecordedAlways == Spec => []RecordedNow
<1>1. Init => RecordedNow
  <2> SUFFICES ASSUME Init PROVE RecordedNow
    OBVIOUS
  <2>1. book.ledger = <<>> /\ DOMAIN idempotency = {} /\ DOMAIN accruals = {}
    BY DEF Init, EmptyBook
  <2>2. Len(book.ledger) = 0
    BY <2>1
  <2>3. QED
    BY <2>1, <2>2 DEF RecordedNow, Recorded, AccruedNow, AccruedAs, AnsweredAs
<1>2. Good /\ RecordedNow /\ [Next]_vars => RecordedNow'
  <2> SUFFICES ASSUME Good, RecordedNow, [Next]_vars PROVE RecordedNow'
    OBVIOUS
  <2>1. CASE UNCHANGED vars
    BY <2>1 DEF vars, factVars, RecordedNow, Recorded, AccruedNow, AccruedAs, AnsweredAs, Answers
  <2>2. CASE Next
    <3>1. AccruedAs(book'.ledger, accruals') /\ AnsweredAs(idempotency', accruals')
      BY <2>2, AccruedNext DEF RecordedNow
    <3>2. Recorded(book'.ledger, accruals')
      BY <2>2, RecordedNext
    <3>3. QED
      BY <3>1, <3>2 DEF RecordedNow, Recorded, AccruedNow, AccruedAs, AnsweredAs, Answers
  <2>3. QED
    BY <2>1, <2>2
<1>3. QED
  BY <1>1, <1>2, AlwaysGood, PTL DEF Spec

(* What an adjustment of an accrued order takes is within what it holds.   *)
LEMMA AdjustmentWithinNet ==
  ASSUME Good, RecordedNow, NEW o \in DOMAIN accruals, NEW u \in UnitSet(program),
         NEW a \in OrderAdjustments, NEW bps \in Int
  PROVE  LET amount == AdjustmentAmount(o, u, a, bps)
         IN  amount < 0 => OrderNet(book.ledger, o, u) + amount >= 0
<1> DEFINE amount == AdjustmentAmount(o, u, a, bps)
           raw    == RawAdjustment(o, u, a, bps)
           held   == OriginalAmount(o, u)
           prior  == PriorAdjustments(book.ledger, o, u)
           left   == NonNegative(held + prior)
<1>1. held \in Int /\ prior \in Int /\ OrderNet(book.ledger, o, u) = held + prior
  BY OrderHolds DEF RecordedNow, AccruedNow
<1>2. amount \in Int
  BY GoodParts, AdjustmentAmountType DEF AccrualsOK
<1>3. amount = IF raw < 0 /\ raw < -left THEN -left ELSE raw
  BY DEF AdjustmentAmount, Accrued
<1>4. left = IF held + prior < 0 THEN 0 ELSE held + prior
  BY DEF NonNegative
<1> HIDE DEF amount, raw, held, prior, left
<1>5. amount < 0 => held + prior + amount >= 0
  <2>1. CASE raw < 0 /\ raw < -left
    BY <1>1, <1>3, <1>4, <2>1
  <2>2. CASE ~(raw < 0 /\ raw < -left)
    <3>1. amount = raw /\ raw \in Int /\ left \in Int
      BY <1>1, <1>2, <1>3, <1>4, <2>2
    <3>2. raw < 0 => raw >= -left
      BY <2>2, <3>1
    <3>3. held + prior \in Int
      BY <1>1
    <3>4. QED
      BY <1>4, <3>1, <3>2, <3>3
  <2>3. QED
    BY <2>1, <2>2
<1>6. QED
  BY <1>1, <1>5 DEF amount

LEMMA ExpiriesKeepNet ==
  ASSUME NEW b, NEW c, Sound(b), OnlyExpires(b, c), NEW o, NEW u
  PROVE  OrderNet(c.ledger, o, u) = OrderNet(b.ledger, o, u)
<1>1. \A i \in (Len(b.ledger) + 1)..Len(c.ledger) : ~OfOrder(c.ledger[i], o, u)
  BY DEF OnlyExpires, OfOrder
<1>2. QED
  BY <1>1, OrderNetSame DEF OnlyExpires

LEMMA PostKeepsNet ==
  ASSUME NEW b, NEW c, Sound(b), NEW e, PostsOne(b, c, e), e.op \notin {"accrual", "adjustment"},
         NEW o, NEW u
  PROVE  OrderNet(c.ledger, o, u) = OrderNet(b.ledger, o, u)
<1>1. \A i \in (Len(b.ledger) + 1)..Len(c.ledger) : ~OfOrder(c.ledger[i], o, u)
  BY DEF PostsOne, OfOrder
<1>2. QED
  BY <1>1, OrderNetSame DEF PostsOne

LEMMA AccrualKeepsNet ==
  ASSUME Good, NEW k, NEW m \in Members, NEW p \in Orders, NEW f \in Facts, PostAccrual(k, m, p, f),
         NEW o \in DOMAIN accruals, NEW u
  PROVE  OrderNet(book'.ledger, o, u) = OrderNet(book.ledger, o, u)
<1> DEFINE us == program.units
<1>1. /\ Sound(book) /\ Sound(book') /\ Continues(book, book')
      /\ o \in Orders /\ o # None /\ o # p
  BY GoodParts, AccrualPosts, IdAssumption DEF AccrualsOK, PostAccrual, Accrued
<1>2. PICK s \in Nat : AccrualRow(book, book', p, us, s)
  BY AccrualPosts
<1>3. Len(us) \in Nat
  BY GoodParts, UnitsType
<1> HIDE DEF us
<1>4. ASSUME NEW i \in (Len(book.ledger) + 1)..Len(book'.ledger) PROVE ~OfOrder(book'.ledger[i], o, u)
  <2>1. CASE i \in (s + 1)..(s + Len(us))
    <3> DEFINE q == i - s
    <3>1. q \in 1..Len(us) /\ s + q = i
      BY <1>3, <2>1
    <3> HIDE DEF q
    <3>2. book'.ledger[s + q].order = p
      BY <1>2, <3>1 DEF AccrualRow
    <3>3. QED
      BY <1>1, <3>1, <3>2 DEF OfOrder
  <2>2. CASE i \notin (s + 1)..(s + Len(us))
    <3>1. /\ book'.ledger[i].op \in {"adjustment", "expiration"}
          /\ book'.ledger[i].op = "adjustment" => book'.ledger[i].order = None
      BY <1>2, <1>4, <2>2 DEF AccrualRow
    <3>2. QED
      BY <1>1, <3>1 DEF OfOrder
  <2>3. QED
    BY <2>1, <2>2
<1>5. QED
  BY <1>1, <1>4, OrderNetSame

LEMMA AdjustmentOfThis ==
  ASSUME Good, RecordedNow, NEW o \in DOMAIN accruals, NEW a \in OrderAdjustments, NEW s \in Nat,
         NEW bps \in Int, AdjustmentRow(book, book', o, a, bps, s),
         Sound(book'), Continues(book, book'), NEW u,
         OrderNet(book'.ledger, o, u) < OrderNet(book.ledger, o, u)
  PROVE  OrderNet(book'.ledger, o, u) >= 0
<1> DEFINE us == program.units
           n  == Len(us)
<1>1. Sound(book) /\ program \in Programs
  BY GoodParts
<1>2. /\ n \in Nat /\ DOMAIN us = 1..n /\ \A i \in 1..n : us[i] \in UnitSet(program)
      /\ \A i, j \in 1..n : us[i] = us[j] => i = j
  <2>1. n \in Nat /\ DOMAIN us = 1..n /\ \A i \in 1..n : us[i] \in UnitSet(program)
    BY <1>1, UnitsType
  <2>2. \A i, j \in DOMAIN us : us[i] = us[j] => i = j
    BY <1>1, ProgramAssumption DEF AssertProgram, UnitsValid
  <2>3. QED
    BY <2>1, <2>2
<1>3. /\ Len(book.ledger) <= s /\ s + n <= Len(book'.ledger)
      /\ Len(book.ledger) \in Nat /\ Len(book'.ledger) \in Nat
  BY <1>1, SoundLen DEF AdjustmentRow
<1>4. ASSUME NEW i \in 1..n
      PROVE  /\ book'.ledger[s + i].op = "adjustment" /\ book'.ledger[s + i].order = o
             /\ book'.ledger[s + i].unit = us[i]
             /\ book'.ledger[s + i].amount = AdjustmentAmount(o, us[i], a, bps)
  BY DEF AdjustmentRow
<1>5. \A i \in (Len(book.ledger) + 1)..Len(book'.ledger) :
        i \in (s + 1)..(s + n) \/ book'.ledger[i].op = "expiration"
  BY DEF AdjustmentRow
<1> HIDE DEF us, n
<1>6. ASSUME NEW i \in (Len(book.ledger) + 1)..Len(book'.ledger), OfOrder(book'.ledger[i], o, u)
      PROVE  \E j \in 1..n : i = s + j /\ us[j] = u
  <2> DEFINE j == i - s
  <2>1. i \in (s + 1)..(s + n)
    BY <1>5, <1>6 DEF OfOrder
  <2>2. j \in 1..n /\ s + j = i
    BY <1>2, <2>1
  <2> HIDE DEF j
  <2>3. us[j] = u
    BY <1>4, <1>6, <2>2 DEF OfOrder
  <2>4. QED
    BY <2>2, <2>3
<1>7. PICK j \in 1..n : us[j] = u
  <2>1. CASE \A i \in (Len(book.ledger) + 1)..Len(book'.ledger) : ~OfOrder(book'.ledger[i], o, u)
    <3>1. OrderNet(book'.ledger, o, u) = OrderNet(book.ledger, o, u)
      <4>1. Sound(book) /\ Sound(book') /\ Continues(book, book')
        BY <1>1
      <4>2. QED
        BY <2>1, <4>1, OrderNetSame
    <3>2. OrderNet(book.ledger, o, u) \in Int
      BY <1>1, OrderAmountsType
    <3>3. QED
      BY <3>1, <3>2
  <2>2. QED
    BY <1>6, <2>1
<1> DEFINE p == s + j
<1>8. p \in (Len(book.ledger) + 1)..Len(book'.ledger)
  BY <1>2, <1>3, <1>7
<1>9. OfOrder(book'.ledger[p], o, u) /\ book'.ledger[p].amount = AdjustmentAmount(o, u, a, bps)
  BY <1>4, <1>7 DEF OfOrder
<1>10. ASSUME NEW i \in (Len(book.ledger) + 1)..Len(book'.ledger), i # p
       PROVE  ~OfOrder(book'.ledger[i], o, u)
  BY <1>2, <1>6, <1>7, <1>10
<1> HIDE DEF p
<1>11. OrderNet(book'.ledger, o, u) = OrderNet(book.ledger, o, u) + AdjustmentAmount(o, u, a, bps)
  <2>1. Sound(book) /\ Sound(book') /\ Continues(book, book') /\ OneOfOrder(book, book', p, o, u)
    BY <1>1, <1>8, <1>9, <1>10 DEF OneOfOrder
  <2>2. OrderNet(book'.ledger, o, u) = OrderNet(book.ledger, o, u) + book'.ledger[p].amount
    BY <2>1, OrderNetOne
  <2>3. QED
    BY <1>9, <2>2
<1>12. u \in UnitSet(program)
  BY <1>2, <1>7
<1>13. AdjustmentAmount(o, u, a, bps) \in Int /\ OrderNet(book.ledger, o, u) \in Int
  BY <1>1, <1>12, GoodParts, AdjustmentAmountType, OrderAmountsType DEF AccrualsOK
<1>14. AdjustmentAmount(o, u, a, bps) < 0 => OrderNet(book.ledger, o, u) + AdjustmentAmount(o, u, a, bps) >= 0
  BY <1>12, AdjustmentWithinNet
<1>15. QED
  BY <1>11, <1>13, <1>14

LEMMA ClawbackStep ==
  ASSUME Good, RecordedNow, Next, NEW o \in DOMAIN accruals, NEW u,
         OrderNet(book'.ledger, o, u) < OrderNet(book.ledger, o, u)
  PROVE  OrderNet(book'.ledger, o, u) >= 0
<1>0. Sound(book) /\ OrderNet(book.ledger, o, u) \in Int
  BY GoodParts, OrderAmountsType
<1>1. ASSUME OrderNet(book'.ledger, o, u) = OrderNet(book.ledger, o, u) PROVE FALSE
  BY <1>0, <1>1
<1>2. ASSUME OnlyExpires(book, book') PROVE FALSE
  BY <1>0, <1>1, <1>2, ExpiriesKeepNet
<1>3. ASSUME NEW e, PostsOne(book, book', e), e.op \notin {"accrual", "adjustment"} PROVE FALSE
  BY <1>0, <1>1, <1>3, PostKeepsNet
<1>4. CASE QuietCall
  BY <1>2, <1>4, QuietCalls DEF QuietStep
<1>5. ASSUME NEW k, NEW m \in Members, NEW p \in Orders, NEW f \in Facts, PostAccrual(k, m, p, f) PROVE FALSE
  BY <1>1, <1>5, AccrualKeepsNet
<1>6. ASSUME NEW i, NEW k, NEW m, NEW rd, NEW rw, NEW p, NEW b, OnlyExpires(book, b),
             AddReservation(k, m, rd, rw, p, i, b)
      PROVE  FALSE
  <2>1. book' = ExpirePointLots(b, {m}, UnitSet(program), now)
    BY <1>6 DEF AddReservation, Balances
  <2>2. OnlyExpires(b, book')
    BY <1>6, <2>1, ExpiryOnlyExpires DEF OnlyExpires
  <2>3. QED
    BY <1>0, <1>2, <1>6, <2>2, ExpiresTwice
<1>7. ASSUME NEW k, NEW m \in Members, NEW rd, NEW rw, NEW p, Reserve(k, m, rd, rw, p) PROVE FALSE
  <2> DEFINE b == Balance(book, m, program.rewards[rw].unit)
  <2>1. AddReservation(k, m, rd, rw, p, None, b)
    BY <1>7 DEF Reserve
  <2>2. OnlyExpires(book, b)
    BY <1>0, ExpiryOnlyExpires DEF Balance
  <2> HIDE DEF b
  <2>3. QED
    BY <1>6, <2>1, <2>2
<1>8. ASSUME NEW k, NEW m \in Members, NEW rd, NEW rw, NEW p, NEW i, ReserveIssued(k, m, rd, rw, p, i) PROVE FALSE
  BY <1>0, <1>6, <1>8, SameExpires DEF ReserveIssued
<1>9. ASSUME NEW k, NEW r \in DOMAIN reservations, Capture(k, r) PROVE FALSE
  <2> DEFINE e == RedemptionEntry(r, "redemption", -reservations[r].cost)
  <2>1. e.op = "redemption"
    BY DEF RedemptionEntry
  <2>2. OnlyExpires(book, book') \/ PostsOne(book, book', e)
    BY <1>9, CapturePosts
  <2> HIDE DEF e
  <2>3. QED
    BY <1>2, <1>3, <2>1, <2>2
<1>10. ASSUME NEW k, NEW r \in DOMAIN reservations, ReverseHold(k, r) PROVE FALSE
  BY <1>0, <1>2, <1>10, ExpiryOnlyExpires DEF ReverseHold, Balances
<1>11. ASSUME NEW k, NEW r \in DOMAIN reservations, ReverseCapture(k, r) PROVE FALSE
  <2> DEFINE e == RedemptionEntry(r, "reversal", reservations[r].cost)
  <2>1. e.op = "reversal"
    BY DEF RedemptionEntry
  <2>2. OnlyExpires(book, book') \/ PostsOne(book, book', e)
    BY <1>11, ReversalPosts
  <2> HIDE DEF e
  <2>3. QED
    BY <1>2, <1>3, <2>1, <2>2
<1>12. ASSUME NEW k, NEW m \in Members, NEW x \in AdjustmentIds, NEW p \in Orders,
              NEW a \in OrderAdjustments, AdjustOrder(k, m, x, p, a)
       PROVE  OrderNet(book'.ledger, o, u) >= 0
  <2>1. Adds(book, book', {"adjustment", "expiration"}, {p})
    BY <1>12, AdjustOrderPosts
  <2>2. PICK s \in Nat, bps \in Int : AdjustmentRow(book, book', p, a, bps, s)
    BY <1>12, AdjustOrderPosts
  <2>3. p = o
    <3>1. SUFFICES ASSUME o # p PROVE FALSE
      OBVIOUS
    <3>2. OrderNet(book'.ledger, o, u) = OrderNet(book.ledger, o, u)
      <4>1. \A i \in (Len(book.ledger) + 1)..Len(book'.ledger) : ~OfOrder(book'.ledger[i], o, u)
        BY <2>1, <3>1 DEF Adds, OfOrder
      <4>2. Sound(book') /\ Continues(book, book')
        BY <2>1 DEF Adds
      <4>3. QED
        BY <1>0, <4>1, <4>2, OrderNetSame
    <3>3. QED
      BY <1>1, <3>2
  <2>4. QED
    BY <2>1, <2>2, <2>3, AdjustmentOfThis DEF Adds
<1>13. ASSUME NEW k, NEW m \in Members, NEW x \in AdjustmentIds, NEW a \in ManualAdjustments,
              PostManualAdjustment(k, m, x, a)
       PROVE  FALSE
  <2> DEFINE e == ManualEntry(m, x, a)
  <2>1. e.op = "manual"
    BY DEF ManualEntry
  <2>2. PostsOne(book, book', e)
    BY <1>13, ManualPosts
  <2> HIDE DEF e
  <2>3. QED
    BY <1>3, <2>1, <2>2
<1>14. QED
  BY <1>4, <1>5, <1>7, <1>8, <1>9, <1>10, <1>11, <1>12, <1>13, Calls

(* A call that takes from an accrued order leaves it with no less than     *)
(* nothing: refunds and voids never claw back more of a unit than the      *)
(* order's accrual and earlier adjustments left there (adjustOrder).       *)
THEOREM ClawbackLimited == Spec => ClawbackWithinEarnings
<1>1. Good /\ RecordedNow /\ [Next]_vars =>
        [\A o \in DOMAIN accruals, u \in Units :
           OrderNet(book'.ledger, o, u) < OrderNet(book.ledger, o, u)
             => OrderNet(book'.ledger, o, u) >= 0]_vars
  <2> SUFFICES ASSUME Good, RecordedNow, Next
               PROVE  \A o \in DOMAIN accruals, u \in Units :
                        OrderNet(book'.ledger, o, u) < OrderNet(book.ledger, o, u)
                          => OrderNet(book'.ledger, o, u) >= 0
    OBVIOUS
  <2>1. QED
    BY ClawbackStep
<1>2. QED
  BY <1>1, AlwaysGood, RecordedAlways, PTL DEF ClawbackWithinEarnings, Spec

-------------------------------------------------------------------------------
(* Balances in accounts that the program no longer has.  Entries raise an  *)
(* account of the program, of a member that is enrolled, and nothing else: *)
(* a reversal is one of a reservation, whose member was enrolled.          *)

Enrolled(ms, x) == ms[x].status # None

NoStray(ms, p, b) ==
  \A x \in Members, u \in Units :
    ~Enrolled(ms, x) \/ u \notin UnitSet(p) => b.points[x][u] <= 0
HeldByEnrolled(ms, rs) == \A r \in DOMAIN rs : Enrolled(ms, rs[r].member)
StrayNow == NoStray(members, program, book) /\ HeldByEnrolled(members, reservations)

(* Nobody is forgotten, and only a reconfiguration changes the program. *)
LEMMA OrdersLeaveMembers ==
  ASSUME AccrualStep \/ RedemptionStep \/ AdjustmentStep
  PROVE  members' = members /\ program' = program
<1>1. ASSUME NEW k, NEW m, NEW o, NEW f, PostAccrual(k, m, o, f) \/ PostAccrualAgain(k, m, o, f)
      PROVE  members' = members /\ program' = program
  BY <1>1 DEF PostAccrual, PostAccrualAgain, memberVars
<1>2. ASSUME NEW k, NEW m, NEW rd, NEW rw, NEW o, Reserve(k, m, rd, rw, o)
      PROVE  members' = members /\ program' = program
  BY <1>2 DEF Reserve, memberVars
<1>3. ASSUME NEW k, NEW m, NEW rd, NEW rw, NEW o, NEW i,
             ReserveIssued(k, m, rd, rw, o, i) \/ ReserveAgain(k, m, rd, rw, o, i)
      PROVE  members' = members /\ program' = program
  BY <1>3 DEF ReserveIssued, ReserveAgain, memberVars
<1>4. ASSUME NEW k, NEW r, Capture(k, r) \/ ReverseHold(k, r) \/ ReverseCapture(k, r)
      PROVE  members' = members /\ program' = program
  BY <1>4 DEF Capture, ReverseHold, ReverseCapture, memberVars
<1>5. ASSUME NEW k, NEW r, NEW op, NEW st, SettleAgain(k, r, op, st)
      PROVE  members' = members /\ program' = program
  BY <1>5 DEF SettleAgain, memberVars
<1>6. ASSUME NEW r, NEW m, NEW u, RejectOverdueReservation(r) \/ RejectLowBalance(m, u)
      PROVE  members' = members /\ program' = program
  BY <1>6 DEF RejectOverdueReservation, RejectLowBalance, memberVars
<1>7. ASSUME NEW k, NEW m, NEW x, NEW o, NEW a, AdjustOrder(k, m, x, o, a) \/ AdjustOrderAgain(k, m, x, o, a)
      PROVE  members' = members /\ program' = program
  BY <1>7 DEF AdjustOrder, AdjustOrderAgain, memberVars
<1>8. ASSUME NEW k, NEW m, NEW x, NEW a, PostManualAdjustment(k, m, x, a) \/ PostManualAdjustmentAgain(k, m, x, a)
      PROVE  members' = members /\ program' = program
  BY <1>8 DEF PostManualAdjustment, PostManualAdjustmentAgain, memberVars
<1>9. ASSUME NEW m, NEW us, RejectAdjustment(m, us) PROVE members' = members /\ program' = program
  BY <1>9 DEF RejectAdjustment, memberVars
<1>10. CASE AccrualStep
  BY <1>1, <1>10 DEF AccrualStep
<1>11. CASE RedemptionStep
  BY <1>2, <1>3, <1>4, <1>5, <1>6, <1>11 DEF RedemptionStep
<1>12. CASE AdjustmentStep
  BY <1>7, <1>8, <1>9, <1>12 DEF AdjustmentStep
<1>13. QED
  BY <1>10, <1>11, <1>12

LEMMA StaysEnrolled ==
  ASSUME Good, Next, NEW x \in Members, Enrolled(members, x)
  PROVE  Enrolled(members', x)
<1>0. MembersOK(members)
  BY GoodParts
<1>1. CASE members' = members
  BY <1>1 DEF Enrolled
<1>2. ASSUME NEW m \in Members, NEW rec, rec.status # None, members' = [members EXCEPT ![m] = rec]
      PROVE  Enrolled(members', x)
  BY <1>0, <1>2 DEF Enrolled, MembersOK
<1>3. ASSUME NEW m \in Members, NEW k, NEW i, Enroll(k, i, m) PROVE Enrolled(members', x)
  <2> DEFINE rec == [status |-> "active", identity |-> i, membership |-> None]
  <2>1. members' = [members EXCEPT ![m] = rec] /\ rec.status # None
    BY <1>3, IdAssumption DEF Enroll
  <2> HIDE DEF rec
  <2>2. QED
    BY <1>2, <2>1
<1>4. ASSUME NEW m \in Members, CancelMember(m) PROVE Enrolled(members', x)
  BY <1>0, <1>4, IdAssumption DEF CancelMember, Enrolled, MembersOK
<1>5. ASSUME NEW m \in Members, EraseMember(m) PROVE Enrolled(members', x)
  BY <1>0, <1>5, IdAssumption DEF EraseMember, Enrolled, MembersOK
<1>6. ASSUME NEW m \in Members, NEW v, SetMemberMembership(m, v) PROVE Enrolled(members', x)
  BY <1>0, <1>6 DEF SetMemberMembership, Enrolled, MembersOK
<1>7. CASE MemberStep
  BY <1>1, <1>3, <1>4, <1>5, <1>6, <1>7
     DEF MemberStep, Lookup, EnrollAgain, InspectMemberErasure, memberVars
<1>8. CASE Tick \/ ReadStep \/ IssueStep
  BY <1>1, <1>8 DEF Tick, ReadStep, GetAccount, ListLedger, ListIssuedRewards, Evaluate, GetProgram,
     GetLedger, Inspect, IssueStep, IssueReward, IssueRewardAgain, CancelIssuedReward,
     RejectOverdueReward, memberVars
<1>9. CASE AccrualStep \/ RedemptionStep \/ AdjustmentStep
  BY <1>1, <1>9, OrdersLeaveMembers
<1>10. CASE ProgramStep
  BY <1>1, <1>10 DEF ProgramStep, ReconfigureProgram, RejectReconfigure, memberVars
<1>11. QED
  BY <1>7, <1>8, <1>9, <1>10 DEF Next

LEMMA ProgramStays ==
  ASSUME Next, ~\E p : ReconfigureProgram(p)
  PROVE  program' = program
<1>1. CASE Tick \/ ReadStep \/ IssueStep \/ MemberStep
  BY <1>1 DEF Tick, ReadStep, GetAccount, ListLedger, ListIssuedRewards, Evaluate, GetProgram,
     GetLedger, Inspect, IssueStep, IssueReward, IssueRewardAgain, CancelIssuedReward,
     RejectOverdueReward, MemberStep, Lookup, Enroll, EnrollAgain, CancelMember, EraseMember,
     InspectMemberErasure, SetMemberMembership
<1>2. CASE ProgramStep
  BY <1>2 DEF ProgramStep, RejectReconfigure
<1>3. CASE AccrualStep \/ RedemptionStep \/ AdjustmentStep
  BY <1>3, OrdersLeaveMembers
<1>4. QED
  BY <1>1, <1>2, <1>3 DEF Next

(* A call that credits one enrolled member in accounts of the program, and *)
(* leaves the reservations with their members. *)
LEMMA StrayKept ==
  ASSUME Good, StrayNow, Next, program' = program, NEW m, Enrolled(members, m),
         Credits(book, book', m, UnitSet(program)),
         \A r \in DOMAIN reservations' :
           Enrolled(members, reservations'[r].member) /\ reservations'[r].member \in Members
  PROVE  StrayNow'
<1>1. NoStray(members', program', book')
  <2> SUFFICES ASSUME NEW x \in Members, NEW u \in Units, ~Enrolled(members', x) \/ u \notin UnitSet(program)
               PROVE  book'.points[x][u] <= 0
    BY DEF NoStray
  <2>1. ~Enrolled(members, x) \/ u \notin UnitSet(program)
    BY StaysEnrolled
  <2>2. book.points[x][u] <= 0 /\ ~(x = m /\ u \in UnitSet(program))
    BY <2>1 DEF StrayNow, NoStray
  <2>3. book.points[x][u] \in Int /\ book'.points[x][u] \in Int
    <3>1. Sound(book) /\ Good'
      BY GoodParts, NextGood DEF Kept
    <3>2. IsBook(book)'
      BY <3>1 DEF Good, TypeOK
    <3>3. QED
      BY <3>1, <3>2 DEF Sound, IsBook
  <2>4. QED
    BY <2>2, <2>3 DEF Credits
<1>2. HeldByEnrolled(members', reservations')
  BY StaysEnrolled DEF HeldByEnrolled
<1>3. QED
  BY <1>1, <1>2 DEF StrayNow, NoStray, HeldByEnrolled, Enrolled

(* The members of the reservations. *)
Holders(rs) == \A r \in DOMAIN rs : Enrolled(members, rs[r].member) /\ rs[r].member \in Members

LEMMA HoldersNow == ASSUME Good, StrayNow PROVE Holders(reservations)
BY HoldsAre DEF StrayNow, HeldByEnrolled, Holders, IsReservation

LEMMA HoldersLapse ==
  ASSUME NEW rs, Holders(rs), NEW new, Lapses(rs, new)
  PROVE  Holders(new)
BY DEF Holders, Lapses

LEMMA HoldersSettle ==
  ASSUME Good, Holders(reservations), NEW r \in DOMAIN reservations, NEW s,
         reservations' = [Lapsed EXCEPT ![r].status = s]
  PROVE  Holders(reservations')
<1>1. Holders(Lapsed) /\ DOMAIN Lapsed = DOMAIN reservations
  BY LapsedLapses, HoldersLapse DEF Lapses
<1>2. IsReservation(Lapsed[r])
  BY <1>1, LapsedOK, ReservationsDomain DEF ReservationsOK
<1> DEFINE x == [Lapsed[r] EXCEPT !.status = s]
<1>3. x.member = Lapsed[r].member
  BY <1>2, StatusSet
<1>4. /\ DOMAIN reservations' = DOMAIN Lapsed /\ reservations'[r] = x
      /\ \A q \in DOMAIN Lapsed \ {r} : reservations'[q] = Lapsed[q]
  BY <1>1
<1> HIDE DEF x
<1>5. QED
  BY <1>1, <1>3, <1>4 DEF Holders

LEMMA HoldersAdd ==
  ASSUME Good, Holders(reservations), NEW k, NEW m \in Members, Enrolled(members, m), NEW rd, NEW rw,
         NEW o, NEW i, NEW b, AddReservation(k, m, rd, rw, o, i, b)
  PROVE  Holders(reservations')
<1> DEFINE res == [redemption |-> rd, member |-> m, reward |-> rw, issued |-> i, order |-> o,
                   status |-> "reserved", unit |-> program.rewards[rw].unit,
                   cost |-> IF i = None THEN program.rewards[rw].cost ELSE 0,
                   expires |-> now + program.ttl]
<1>1. Holders(Lapsed)
  BY LapsedLapses, HoldersLapse
<1>2. reservations' = Append(Lapsed, res) /\ res.member = m
  BY DEF AddReservation
<1> HIDE DEF res
<1>3. IsSeq(Lapsed) /\ DOMAIN Lapsed = 1..Len(Lapsed) /\ Len(Lapsed) \in Nat
  BY LapsedOK, ReservationsDomain DEF ReservationsOK
<1> DEFINE V == {Lapsed[j] : j \in DOMAIN Lapsed} \cup {res}
<1>4. Lapsed \in Seq(V) /\ res \in V
  BY <1>3, SeqMonotonic DEF IsSeq
<1> HIDE DEF V
<1>5. /\ DOMAIN reservations' = 1..(Len(Lapsed) + 1) /\ reservations'[Len(Lapsed) + 1] = res
      /\ \A q \in 1..Len(Lapsed) : reservations'[q] = Lapsed[q]
  <2>1. /\ reservations' \in Seq(V) /\ Len(reservations') = Len(Lapsed) + 1
        /\ \A q \in 1..Len(Lapsed) : reservations'[q] = Lapsed[q]
        /\ reservations'[Len(Lapsed) + 1] = res
    BY <1>2, <1>4, AppendProperties
  <2>2. QED
    BY <2>1
<1>6. QED
  BY <1>1, <1>2, <1>3, <1>5 DEF Holders

(* Which accounts each call raises. *)
LEMMA EntryCredits ==
  ASSUME NEW b, Sound(b), NEW e, IsEntry(e), NEW m, NEW us, e.amount <= 0 \/ (e.member = m /\ e.unit \in us)
  PROVE  Credits(b, AddLedger(b, <<e>>), m, us)
<1> DEFINE es == <<e>>
<1>1. IsSeq(es) /\ Len(es) = 1 /\ es[1] = e /\ \A i \in 1..Len(es) : IsEntry(es[i])
  BY OneSeq
<1> HIDE DEF es
<1>2. \A i \in 1..Len(es) : es[i].amount <= 0 \/ (es[i].member = m /\ es[i].unit \in us)
  BY <1>1
<1>3. Credits(b, AddLedger(b, es), m, us)
  BY <1>1, <1>2, AddLedgerCredits
<1>4. QED
  BY <1>3 DEF es

(* A book that was swept, whose lots have changed, then credited, then     *)
(* swept again.                                                            *)
LEMMA CreditedBetweenSweeps ==
  ASSUME NEW a, Sound(a), NEW b, OnlyExpires(a, b), NEW b1, Sound(b1), b1.points = b.points,
         NEW c, Sound(c), NEW m, NEW us, Credits(b1, c, m, us), NEW d, OnlyExpires(c, d)
  PROVE  Credits(a, d, m, us)
<1>1. Sound(b) /\ Sound(d) /\ Credits(a, b, m, us) /\ Credits(c, d, m, us)
  BY LowersCredits DEF OnlyExpires
<1>2. Credits(a, b1, m, us)
  BY <1>1 DEF Credits
<1>3. Credits(a, c, m, us)
  BY <1>2, CreditsTwice
<1>4. QED
  BY <1>1, <1>3, CreditsTwice

LEMMA ManualCredits ==
  ASSUME Good, NEW k, NEW m \in Members, NEW x \in AdjustmentIds, NEW a \in ManualAdjustments,
         PostManualAdjustment(k, m, x, a)
  PROVE  Credits(book, book', m, UnitSet(program)) /\ reservations' = Lapsed
<1> DEFINE b0 == Balance(book, m, a.unit)
           d  == Debit(a.unit, -a.amount)
           c  == ConsumePointLots(b0, m, d, None)
           b1 == IF a.amount > 0 THEN b0 ELSE c
           e  == ManualEntry(m, x, a)
           b2 == AddLedger(b1, <<e>>)
<1>0. Sound(book) /\ now \in Nat /\ program \in Programs
  BY GoodParts
<1>1. book' = ExpirePointLots(b2, {m}, UnitSet(program), now) /\ reservations' = Lapsed
  BY DEF PostManualAdjustment, ReportBalances, Balances
<1>2. a.amount \in Int /\ a.expires \in Nat /\ a.unit \in UnitSet(program) /\ a.unit \in Units
  BY <1>0, RequestAssumption, ProgramAssumption
     DEF PostManualAdjustment, ManualAllowed, AssertProgram, UnitsValid
<1>3. LotExpiry(program, a.unit, now) \in Int
  BY <1>0, <1>2, LotExpiryType
<1>4. IsEntry(e) /\ e.member = m /\ e.unit \in UnitSet(program)
  BY <1>2, <1>3 DEF ManualEntry, IsEntry, EntryOps, NoExpiry
<1>5. d \in [Units -> Int]
  BY <1>2, DebitType
<1>6. OnlyExpires(book, b0) /\ Sound(b0)
  BY <1>0, ExpiryOnlyExpires DEF OnlyExpires, Balance
<1> HIDE DEF b0, d, e
<1>7. Sound(c) /\ c.points = b0.points
  BY <1>5, <1>6, ConsumePointLotsSound, LotsKeepBalances
<1> HIDE DEF c
<1>8. Sound(b1) /\ b1.points = b0.points
  BY <1>6, <1>7
<1> HIDE DEF b1
<1>9. Sound(b2) /\ Credits(b1, b2, m, UnitSet(program))
  BY <1>4, <1>8, OneSeq, AddLedgerSound, EntryCredits
<1> HIDE DEF b2
<1>10. OnlyExpires(b2, book')
  BY <1>1, <1>9, ExpiryOnlyExpires
<1>11. QED
  BY <1>0, <1>1, <1>6, <1>8, <1>9, <1>10, CreditedBetweenSweeps

LEMMA AdjustOrderCredits ==
  ASSUME Good, NEW k, NEW m \in Members, NEW x \in AdjustmentIds, NEW o \in Orders,
         NEW a \in OrderAdjustments, AdjustOrder(k, m, x, o, a)
  PROVE  Credits(book, book', m, UnitSet(program)) /\ reservations' = Lapsed
<1> DEFINE b0     == ExpirePointLots(book, {m}, Units, now)
           bps    == AdjustmentBps(b0, m, o)
           amount == [u \in Units |-> IF u \in UnitSet(program)
                                      THEN AdjustmentAmount(o, u, a, bps) ELSE 0]
           debit  == [u \in Units |-> NonNegative(-amount[u])]
           es     == [i \in 1..Len(program.units) |->
                        AdjustmentEntry(m, x, o, program.units[i], amount[program.units[i]])]
           b1     == ConsumePointLots(b0, m, debit, None)
           b2     == AddLedger(b1, es)
<1>0. Sound(book) /\ now \in Nat /\ program \in Programs
  BY GoodParts
<1>1. OnlyExpires(book, b0) /\ Sound(b0)
  BY <1>0, ExpiryOnlyExpires DEF OnlyExpires
<1>2. book' = ExpirePointLots(b2, {m}, UnitSet(program), now) /\ reservations' = Lapsed
  BY DEF AdjustOrder, ReportBalances, Balances
<1>3. bps \in Int
  <2> HIDE DEF b0
  <2>1. QED
    BY <1>1, AdjustmentBpsType
<1> HIDE DEF b0, bps
<1>4. amount \in [Units -> Int]
  BY <1>3, AdjustmentAmountType
<1> HIDE DEF amount
<1>5. debit \in [Units -> Int]
  BY <1>4 DEF NonNegative
<1>6. Len(program.units) \in Nat /\ \A i \in 1..Len(program.units) : program.units[i] \in UnitSet(program) /\ program.units[i] \in Units
  BY <1>0, UnitsType
<1>7. IsSeq(es) /\ Len(es) = Len(program.units)
  BY <1>6, FunctionIsSeq
<1>8. ASSUME NEW i \in 1..Len(es)
      PROVE  IsEntry(es[i]) /\ es[i].member = m /\ es[i].unit \in UnitSet(program)
  <2>1. /\ program.units[i] \in UnitSet(program) /\ program.units[i] \in Units
        /\ es[i] = AdjustmentEntry(m, x, o, program.units[i], amount[program.units[i]])
    BY <1>6, <1>7
  <2>2. amount[program.units[i]] \in Int /\ LotExpiry(program, program.units[i], now) \in Int
    BY <1>0, <1>4, <2>1, LotExpiryType
  <2> HIDE DEF es
  <2>3. QED
    BY <2>1, <2>2 DEF AdjustmentEntry, IsEntry, EntryOps, NoExpiry
<1> HIDE DEF debit, es
<1>9. Sound(b1) /\ b1.points = b0.points
  BY <1>1, <1>5, ConsumePointLotsSound, LotsKeepBalances
<1> HIDE DEF b1
<1>10. Sound(b2) /\ Credits(b1, b2, m, UnitSet(program))
  BY <1>7, <1>8, <1>9, AddLedgerSound, AddLedgerCredits
<1> HIDE DEF b2
<1>11. OnlyExpires(b2, book')
  BY <1>2, <1>10, ExpiryOnlyExpires
<1>12. QED
  BY <1>0, <1>1, <1>2, <1>9, <1>10, <1>11, CreditedBetweenSweeps

LEMMA CaptureCredits ==
  ASSUME Good, NEW k, NEW r \in DOMAIN reservations, Capture(k, r), NEW m
  PROVE  Credits(book, book', m, UnitSet(program))
<1> DEFINE res == reservations[r]
           b0  == Balance(book, res.member, res.unit)
           d   == Debit(res.unit, res.cost)
           e   == RedemptionEntry(r, "redemption", -res.cost)
           b1  == ConsumePointLots(b0, res.member, d, r)
           b2  == AddLedger(b1, <<e>>)
           b3  == IF res.cost = 0 THEN b0 ELSE b2
<1>0. Sound(book)
  BY GoodParts
<1>1. book' = ExpirePointLots(b3, {res.member}, UnitSet(program), now)
  BY DEF Capture, Balances
<1>2. res.cost \in Nat
  BY HoldsAre DEF IsReservation
<1>3. d \in [Units -> Int] /\ IsEntry(e) /\ e.amount <= 0
  BY <1>2, DebitType, RedemptionEntryOK DEF EntryOps, RedemptionEntry
<1>4. OnlyExpires(book, b0) /\ Sound(b0)
  BY <1>0, ExpiryOnlyExpires DEF OnlyExpires, Balance
<1> HIDE DEF b0, d, e
<1>5. Sound(b1) /\ b1.points = b0.points
  BY <1>3, <1>4, ConsumePointLotsSound, LotsKeepBalances
<1> HIDE DEF b1
<1>6. Sound(b2) /\ Credits(b1, b2, m, UnitSet(program))
  BY <1>3, <1>5, OneSeq, AddLedgerSound, EntryCredits
<1> HIDE DEF b2
<1>7. CASE res.cost = 0
  <2>1. OnlyExpires(b0, book')
    BY <1>1, <1>4, <1>7, ExpiryOnlyExpires
  <2>2. OnlyExpires(book, book')
    BY <1>0, <1>4, <2>1, ExpiresTwice
  <2>3. QED
    BY <2>2, LowersCredits DEF OnlyExpires
<1>8. CASE res.cost # 0
  <2>1. OnlyExpires(b2, book')
    BY <1>1, <1>6, <1>8, ExpiryOnlyExpires
  <2>2. QED
    BY <1>0, <1>4, <1>5, <1>6, <2>1, CreditedBetweenSweeps
<1>9. QED
  BY <1>7, <1>8

LEMMA ReversalCredits ==
  ASSUME Good, NEW k, NEW r \in DOMAIN reservations, ReverseCapture(k, r)
  PROVE  Credits(book, book', reservations[r].member, UnitSet(program))
<1> DEFINE res == reservations[r]
           m   == res.member
           e   == RedemptionEntry(r, "reversal", res.cost)
           b1  == RestorePointLots(book, r)
           b2  == AddLedger(b1, <<e>>)
           b3  == Balance(b2, res.member, res.unit)
           b4  == IF res.cost = 0 THEN book ELSE b3
<1>0. Sound(book)
  BY GoodParts
<1>1. book' = ExpirePointLots(b4, {res.member}, UnitSet(program), now)
  BY DEF ReverseCapture, Balances
<1>2. res.cost \in Nat /\ res.unit \in UnitSet(program)
  BY HoldsAre DEF IsReservation, ReverseCapture
<1>3. IsEntry(e) /\ e.member = m /\ e.unit \in UnitSet(program)
  BY <1>2, RedemptionEntryOK DEF EntryOps, RedemptionEntry
<1>4. Sound(b1) /\ b1.points = book.points
  BY <1>0, RestorePointLotsSound, LotsKeepBalances
<1> HIDE DEF b1, e
<1>5. Sound(b2) /\ Credits(b1, b2, m, UnitSet(program))
  BY <1>3, <1>4, OneSeq, AddLedgerSound, EntryCredits
<1> HIDE DEF b2
<1>6. CASE res.cost = 0
  <2>1. OnlyExpires(book, book')
    BY <1>0, <1>1, <1>6, ExpiryOnlyExpires
  <2>2. QED
    BY <2>1, LowersCredits DEF OnlyExpires
<1>7. CASE res.cost # 0
  <2>1. OnlyExpires(b2, b3) /\ Sound(b3)
    BY <1>5, ExpiryOnlyExpires DEF Balance, OnlyExpires
  <2> HIDE DEF b3
  <2>2. OnlyExpires(b3, book')
    BY <1>1, <1>7, <2>1, ExpiryOnlyExpires
  <2>3. OnlyExpires(b2, book')
    BY <1>5, <2>1, <2>2, ExpiresTwice
  <2>4. QED
    BY <1>0, <1>4, <1>5, <2>3, SameExpires, CreditedBetweenSweeps
<1>8. QED
  BY <1>6, <1>7

LEMMA AccrualCredits ==
  ASSUME Good, NEW k, NEW m \in Members, NEW o \in Orders, NEW f \in Facts, PostAccrual(k, m, o, f)
  PROVE  Credits(book, book', m, UnitSet(program))
<1> DEFINE us     == UnitSet(program)
           b0     == MetricBook(m)
           bps    == EarningMultiplierBps(program, b0, m, members[m].membership, now)
           n      == Len(program.units)
           es     == [i \in 1..n |-> AccrualEntry(m, o, f, program.units[i], bps)]
           a      == AddLedger(b0, es)
           b1     == StampSweep(a, m)
           cycles == NewCycles(b1, m)
           b2     == ResetStamps(b1, m, cycles)
<1>0. now \in Nat /\ program \in Programs /\ Sound(book)
  BY GoodParts
<1>1. book' = ExpirePointLots(b2, {m}, us, now)
  BY DEF PostAccrual, ReportBalances, Balances
<1>2. OnlyExpires(book, b0) /\ Sound(b0)
  <2>1. OnlyExpires(book, b0)
    BY <1>0, SameExpires, ExpiryOnlyExpires DEF MetricBook, Balance
  <2>2. QED
    BY <2>1 DEF OnlyExpires
<1> HIDE DEF b0
<1>3. bps \in Int
  BY <1>0, <1>2, EarningMultiplierType DEF Sound
<1> HIDE DEF bps
<1>4. n \in Nat /\ \A i \in 1..n : program.units[i] \in UnitSet(program) /\ program.units[i] \in Units
  BY <1>0, UnitsType
<1>5. IsSeq(es) /\ Len(es) = n
  BY <1>4, FunctionIsSeq
<1>6. ASSUME NEW i \in 1..Len(es) PROVE IsEntry(es[i]) /\ es[i].member = m /\ es[i].unit \in us
  <2> DEFINE u == program.units[i]
  <2>1. u \in UnitSet(program) /\ u \in Units /\ es[i] = AccrualEntry(m, o, f, u, bps)
    BY <1>4, <1>5
  <2> HIDE DEF u, es
  <2>2. AccrualAmount(program, u, f, bps) \in Int /\ LotExpiry(program, u, now) \in Int
    BY <1>0, <1>3, <2>1, AccrualAmountType, LotExpiryType
  <2>3. QED
    BY <2>1, <2>2 DEF AccrualEntry, IsEntry, EntryOps, NoExpiry
<1> HIDE DEF es, us
<1>7. Sound(a) /\ Credits(b0, a, m, us)
  BY <1>2, <1>5, <1>6, AddLedgerSound, AddLedgerCredits
<1> HIDE DEF a
<1>8. OnlyExpires(a, b1) /\ Sound(b1)
  <2>1. OnlyExpires(a, b1)
    BY <1>7, SameExpires, ExpiryOnlyExpires DEF StampSweep, Balance
  <2>2. QED
    BY <2>1 DEF OnlyExpires
<1> HIDE DEF b1
<1>9. IsFiniteSet(cycles)
  BY <1>8, CyclesFinite
<1> HIDE DEF cycles
<1>10. Sound(b2) /\ Credits(b1, b2, m, us)
  <2> DEFINE rs == [i \in 1..Cardinality(cycles) |-> ResetEntry(m, StampId(m, IssuedCycles(m) + i))]
  <2>1. Sound(b2)
    BY <1>8, <1>9, ResetStampsSound
  <2>2. CASE program.visit = None \/ ~program.visit.reset
    BY <1>8, <2>1, <2>2, SameLowers, LowersCredits DEF ResetStamps
  <2>3. CASE ~(program.visit = None \/ ~program.visit.reset)
    <3>1. b2 = AddLedger(b1, rs)
      BY <2>3 DEF ResetStamps
    <3>2. Cardinality(cycles) \in Nat
      BY <1>9, FS_CardinalityType
    <3>3. IsSeq(rs) /\ Len(rs) = Cardinality(cycles)
      BY <3>2, FunctionIsSeq
    <3>4. program.visit.threshold \in Nat /\ program.visit.unit \in Units
      BY <1>0, <2>3, ProgramAssumption DEF AssertProgram, CardValid, UnitsValid
    <3>5. ASSUME NEW i \in 1..Len(rs) PROVE IsEntry(rs[i]) /\ rs[i].amount <= 0
      <4>1. rs[i] = ResetEntry(m, StampId(m, IssuedCycles(m) + i))
        BY <3>3
      <4> HIDE DEF rs
      <4>2. QED
        BY <3>4, <4>1 DEF ResetEntry, IsEntry, EntryOps, NoExpiry
    <3> HIDE DEF rs, b2
    <3>6. QED
      BY <1>8, <2>1, <3>1, <3>3, <3>5, AddLedgerCredits
  <2>4. QED
    BY <2>2, <2>3
<1> HIDE DEF b2
<1>11. OnlyExpires(b2, book')
  BY <1>1, <1>10, ExpiryOnlyExpires
<1>12. Sound(book') /\ Credits(book, b0, m, us) /\ Credits(a, b1, m, us) /\ Credits(b2, book', m, us)
  BY <1>2, <1>8, <1>11, LowersCredits DEF OnlyExpires
<1>13. Credits(book, a, m, us)
  BY <1>0, <1>2, <1>7, <1>12, CreditsTwice
<1>14. Credits(book, b2, m, us)
  BY <1>0, <1>7, <1>8, <1>10, <1>12, <1>13, CreditsTwice
<1>15. Credits(book, book', m, us)
  BY <1>0, <1>10, <1>12, <1>14, CreditsTwice
<1>16. QED
  BY <1>15 DEF us

(* An account is dropped only when every balance in it is zero. *)
LEMMA ReconfigureStray ==
  ASSUME Good, StrayNow, NEW p, ReconfigureProgram(p)
  PROVE  StrayNow'
<1> DEFINE removed == UnitSet(program) \ UnitSet(p)
<1>1. /\ book' = ExpirePointLots(book, Known, removed, now) /\ program' = p /\ members' = members
      /\ reservations' \in {reservations, Lapsed}
      /\ \A m \in Known, u \in removed : book'.points[m][u] = 0
  BY DEF ReconfigureProgram, memberVars, AccountsEmpty
<1>2. Sound(book) /\ Sound(book') /\ Lowers(book, book')
  BY <1>1, GoodParts, ExpirePointLotsSound, ExpireLowers
<1>3. NoStray(members, p, book')
  <2> SUFFICES ASSUME NEW x \in Members, NEW u \in Units, ~Enrolled(members, x) \/ u \notin UnitSet(p)
               PROVE  book'.points[x][u] <= 0
    BY DEF NoStray
  <2>1. book'.points[x][u] \in Int /\ book.points[x][u] \in Int /\ book'.points[x][u] <= book.points[x][u]
    BY <1>2 DEF Sound, IsBook, Lowers
  <2>2. CASE ~Enrolled(members, x) \/ u \notin UnitSet(program)
    BY <2>1, <2>2 DEF StrayNow, NoStray
  <2>3. CASE Enrolled(members, x) /\ u \in UnitSet(program)
    <3>1. x \in Known /\ u \in removed
      BY <2>3 DEF Known, Enrolled
    <3>2. book'.points[x][u] = 0
      BY <1>1, <3>1
    <3>3. QED
      BY <3>2
  <2>4. QED
    BY <2>2, <2>3
<1>4. Holders(reservations')
  BY <1>1, HoldersNow, HoldersLapse, LapsedLapses
<1>5. QED
  BY <1>1, <1>3, <1>4 DEF StrayNow, NoStray, HeldByEnrolled, Holders, Enrolled

LEMMA StrayStep ==
  ASSUME Good, StrayNow, Next
  PROVE  StrayNow'
<1>0. Sound(book) /\ Holders(reservations) /\ Holders(Lapsed)
  BY GoodParts, HoldersNow, HoldersLapse, LapsedLapses
<1>a. \A m : Active(m) => Enrolled(members, m)
  BY IdAssumption DEF Active, Enrolled
<1>1. CASE \E p : ReconfigureProgram(p)
  BY <1>1, ReconfigureStray
<1>2. ASSUME program' = program, NEW m, Enrolled(members, m),
             Credits(book, book', m, UnitSet(program)), Holders(reservations')
      PROVE  StrayNow'
  BY <1>2, StrayKept DEF Holders
<1>3. ASSUME program' = program, Lowers(book, book'), Holders(reservations') PROVE StrayNow'
  <2>1. NoStray(members', program', book')
    <3> SUFFICES ASSUME NEW x \in Members, NEW u \in Units, ~Enrolled(members', x) \/ u \notin UnitSet(program)
                 PROVE  book'.points[x][u] <= 0
      BY <1>3 DEF NoStray
    <3>1. ~Enrolled(members, x) \/ u \notin UnitSet(program)
      BY StaysEnrolled
    <3>2. book.points[x][u] <= 0 /\ book'.points[x][u] <= book.points[x][u]
      BY <1>3, <3>1 DEF StrayNow, NoStray, Lowers
    <3>3. IsBook(book) /\ IsBook(book')
      BY <1>0, NextGood DEF Sound, Kept, Good, TypeOK
    <3>4. book.points[x][u] \in Int /\ book'.points[x][u] \in Int
      BY <3>3 DEF IsBook
    <3>5. QED
      BY <3>2, <3>4
  <2>2. HeldByEnrolled(members', reservations')
    BY <1>3, StaysEnrolled DEF HeldByEnrolled, Holders
  <2>3. QED
    BY <2>1, <2>2 DEF StrayNow, NoStray, HeldByEnrolled, Enrolled
<1>4. CASE ~\E p : ReconfigureProgram(p)
  <2>0. program' = program
    BY <1>4, ProgramStays
  <2>1. CASE QuietCall
    <3>1. OnlyExpires(book, book') /\ Lapses(reservations, reservations')
      BY <2>1, QuietCalls DEF QuietStep
    <3>2. QED
      BY <1>0, <1>3, <2>0, <3>1, HoldersLapse DEF OnlyExpires
  <2>2. ASSUME NEW k, NEW m \in Members, NEW o \in Orders, NEW f \in Facts, PostAccrual(k, m, o, f)
        PROVE  StrayNow'
    <3>1. Active(m) /\ reservations' = Lapsed
      BY <2>2 DEF PostAccrual, ReportBalances
    <3>2. QED
      BY <1>0, <1>a, <1>2, <2>0, <2>2, <3>1, AccrualCredits
  <2>3. ASSUME NEW i, NEW k, NEW m \in Members, Active(m), NEW rd, NEW rw, NEW o, NEW b, OnlyExpires(book, b),
               AddReservation(k, m, rd, rw, o, i, b)
        PROVE  StrayNow'
    <3>1. book' = ExpirePointLots(b, {m}, UnitSet(program), now)
      BY <2>3 DEF AddReservation, Balances
    <3>2. OnlyExpires(b, book')
      BY <2>3, <3>1, ExpiryOnlyExpires DEF OnlyExpires
    <3>3. OnlyExpires(book, book')
      BY <1>0, <2>3, <3>2, ExpiresTwice
    <3>4. Holders(reservations')
      BY <1>0, <1>a, <2>3, HoldersAdd
    <3>5. QED
      BY <1>3, <2>0, <3>3, <3>4 DEF OnlyExpires
  <2>4. ASSUME NEW k, NEW m \in Members, NEW rd, NEW rw, NEW o, Reserve(k, m, rd, rw, o) PROVE StrayNow'
    <3> DEFINE b == Balance(book, m, program.rewards[rw].unit)
    <3>1. AddReservation(k, m, rd, rw, o, None, b) /\ Active(m)
      BY <2>4 DEF Reserve, Redeemable
    <3>2. OnlyExpires(book, b)
      BY <1>0, ExpiryOnlyExpires DEF Balance
    <3> HIDE DEF b
    <3>3. QED
      BY <2>3, <3>1, <3>2
  <2>5. ASSUME NEW k, NEW m \in Members, NEW rd, NEW rw, NEW o, NEW i, ReserveIssued(k, m, rd, rw, o, i)
        PROVE  StrayNow'
    BY <1>0, <2>3, <2>5, SameExpires DEF ReserveIssued, Redeemable
  <2>6. ASSUME NEW k, NEW r \in DOMAIN reservations, Capture(k, r) PROVE StrayNow'
    <3>1. reservations' = [Lapsed EXCEPT ![r].status = "captured"]
      BY <2>6 DEF Capture
    <3>2. Holders(reservations')
      BY <1>0, <3>1, HoldersSettle
    <3>3. Credits(book, book', reservations[r].member, UnitSet(program))
      BY <2>6, CaptureCredits
    <3>4. QED
      BY <1>0, <1>2, <2>0, <3>2, <3>3 DEF Holders
  <2>7. ASSUME NEW k, NEW r \in DOMAIN reservations, ReverseHold(k, r) PROVE StrayNow'
    <3>1. reservations' = [Lapsed EXCEPT ![r].status = "reversed"]
      BY <2>7 DEF ReverseHold
    <3>2. Holders(reservations')
      BY <1>0, <3>1, HoldersSettle
    <3>3. OnlyExpires(book, book')
      BY <1>0, <2>7, ExpiryOnlyExpires DEF ReverseHold, Balances
    <3>4. QED
      BY <1>3, <2>0, <3>2, <3>3 DEF OnlyExpires
  <2>8. ASSUME NEW k, NEW r \in DOMAIN reservations, ReverseCapture(k, r) PROVE StrayNow'
    <3>1. reservations' = [Lapsed EXCEPT ![r].status = "reversed"]
      BY <2>8 DEF ReverseCapture
    <3>2. Holders(reservations')
      BY <1>0, <3>1, HoldersSettle
    <3>3. Credits(book, book', reservations[r].member, UnitSet(program))
      BY <2>8, ReversalCredits
    <3>4. QED
      BY <1>0, <1>2, <2>0, <3>2, <3>3 DEF Holders
  <2>9. ASSUME NEW k, NEW m \in Members, NEW x \in AdjustmentIds, NEW o \in Orders, NEW a \in OrderAdjustments,
               AdjustOrder(k, m, x, o, a)
        PROVE  StrayNow'
    <3>1. Active(m)
      BY <2>9 DEF AdjustOrder
    <3>2. QED
      BY <1>0, <1>a, <1>2, <2>0, <2>9, <3>1, AdjustOrderCredits
  <2>10. ASSUME NEW k, NEW m \in Members, NEW x \in AdjustmentIds, NEW a \in ManualAdjustments,
                PostManualAdjustment(k, m, x, a)
         PROVE  StrayNow'
    <3>1. Active(m)
      BY <2>10 DEF PostManualAdjustment
    <3>2. QED
      BY <1>0, <1>a, <1>2, <2>0, <2>10, <3>1, ManualCredits
  <2>11. QED
    BY <2>1, <2>2, <2>4, <2>5, <2>6, <2>7, <2>8, <2>9, <2>10, Calls
<1>5. QED
  BY <1>1, <1>4

(* No points are stranded in an account the program dropped.               *)
THEOREM NothingIsStranded == Spec => []NothingStranded
<1>1. Init => StrayNow
  <2> SUFFICES ASSUME Init PROVE StrayNow
    OBVIOUS
  <2>1. \A x \in Members, u \in Units : book.points[x][u] = 0
    BY DEF Init, EmptyBook
  <2>2. DOMAIN reservations = {}
    BY DEF Init
  <2>3. QED
    BY <2>1, <2>2 DEF StrayNow, NoStray, HeldByEnrolled
<1>2. Good /\ StrayNow /\ [Next]_vars => StrayNow'
  <2>1. CASE UNCHANGED vars
    BY <2>1 DEF vars, memberVars, walletVars, StrayNow, NoStray, HeldByEnrolled, Enrolled
  <2>2. CASE Next
    BY <2>2, StrayStep
  <2>3. QED
    BY <2>1, <2>2
<1>3. StrayNow => NothingStranded
  BY DEF StrayNow, NoStray, NothingStranded
<1>4. QED
  BY <1>1, <1>2, <1>3, AlwaysGood, PTL DEF Spec
===============================================================================
