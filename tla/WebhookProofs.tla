----------------------------- MODULE WebhookProofs -----------------------------
(***************************************************************************)
(* What the webhook dispatcher promises, proved for every set of events,   *)
(* subscriptions and URLs and every number of attempts, writes and stops.  *)
(***************************************************************************)
EXTENDS WebhookDispatcher, FiniteSetTheorems, WellFoundedInduction, NaturalsInduction, TLAPS

LEMMA DeliveriesFinite == IsFiniteSet(Deliveries)
<1>1. IsFiniteSet(Events) /\ IsFiniteSet(Urls)
  BY WebhookAssumption
<1>2. QED
  BY <1>1, FS_Product DEF Deliveries

(* A finite set has a sequence of its elements. *)
LEMMA SeqOfAll ==
  ASSUME NEW S, IsFiniteSet(S)
  PROVE  /\ Cardinality(S) \in Nat
         /\ SeqOf(S) \in [1..Cardinality(S) -> S]
         /\ \A x \in S : \E i \in 1..Cardinality(S) : SeqOf(S)[i] = x
<1>1. Cardinality(S) \in Nat
  BY FS_CardinalityType
<1>2. PICK q : q \in Bijection(1..Cardinality(S), S)
  BY FS_CardinalityType DEF ExistsBijection
<1>3. /\ q \in [1..Cardinality(S) -> S]
      /\ \A x \in S : \E i \in DOMAIN q : q[i] = x
  BY <1>2 DEF Bijection, Injection, Surjection
<1>4. /\ SeqOf(S) \in [1..Cardinality(S) -> S]
      /\ \A x \in S : \E i \in DOMAIN SeqOf(S) : SeqOf(S)[i] = x
  BY <1>3 DEF SeqOf
<1>5. QED
  BY <1>1, <1>4

(* Puts and Removes are about the deliveries of S and no others. *)
LEMMA PutsOf ==
  ASSUME NEW S, IsFiniteSet(S)
  PROVE  /\ Len(Puts(S)) \in Nat /\ DOMAIN Puts(S) = 1..Len(Puts(S))
         /\ \A i \in DOMAIN Puts(S) : \E x \in S : Puts(S)[i] = Put(x)
         /\ \A x \in S : \E i \in DOMAIN Puts(S) : Puts(S)[i] = Put(x)
  BY SeqOfAll DEF Puts

LEMMA RemovesOf ==
  ASSUME NEW S, IsFiniteSet(S)
  PROVE  /\ Len(Removes(S)) \in Nat /\ DOMAIN Removes(S) = 1..Len(Removes(S))
         /\ \A i \in DOMAIN Removes(S) : \E x \in S : Removes(S)[i] = Remove(x)
         /\ \A x \in S : \E i \in DOMAIN Removes(S) : Removes(S)[i] = Remove(x)
  BY SeqOfAll DEF Removes

LEMMA FiniteDeliveries ==
  ASSUME NEW S \in SUBSET Deliveries
  PROVE  IsFiniteSet(S)
BY DeliveriesFinite, FS_Subset

LEMMA SubscriptionParts ==
  ASSUME NEW x \in Subscriptions
  PROVE  /\ x.id \in SubscriptionIds /\ x.url \in Urls
         /\ \E v \in Values(x.id) : v.url = x.url
BY DEF Subscriptions, Urls

(* A sequence of writes and what is appended to it. *)
LEMMA WritesAppended ==
  ASSUME NEW V, NEW p \in Seq(V), NEW q \in Seq(V)
  PROVE  /\ p \o q \in Seq(V)
         /\ Len(p) \in Nat /\ Len(q) \in Nat /\ DOMAIN p = 1..Len(p) /\ DOMAIN q = 1..Len(q)
         /\ DOMAIN (p \o q) = 1..(Len(p) + Len(q))
         /\ \A i \in 1..Len(p) : (p \o q)[i] = p[i]
         /\ \A i \in 1..Len(q) : (p \o q)[Len(p) + i] = q[i]
OBVIOUS
-------------------------------------------------------------------------------
(* Where the writes lead *)

(* Writes that remove nothing of d and put nothing of d change nothing for *)
(* it; a put without a removal leaves it in, a removal without a put out.  *)
LEMMA AfterOthers ==
  ASSUME NEW V, NEW p \in Seq(V), NEW q \in Seq(V), NEW j, NEW d,
         \A i \in DOMAIN q : q[i] # Put(d) /\ q[i] # Remove(d)
  PROVE  AfterWrites(j, p \o q, d) <=> AfterWrites(j, p, d)
<1>1. /\ Len(p) \in Nat /\ Len(q) \in Nat /\ DOMAIN p = 1..Len(p) /\ DOMAIN q = 1..Len(q)
      /\ DOMAIN (p \o q) = 1..(Len(p) + Len(q))
      /\ \A i \in 1..Len(p) : (p \o q)[i] = p[i]
      /\ \A i \in 1..Len(q) : (p \o q)[Len(p) + i] = q[i]
  BY WritesAppended
<1>2. \A i \in 1..(Len(p) + Len(q)) : i \notin 1..Len(p) => i - Len(p) \in 1..Len(q) /\ (p \o q)[i] = q[i - Len(p)]
  BY <1>1
<1>3. \A i \in DOMAIN (p \o q) : i \in DOMAIN p \/ ((p \o q)[i] # Put(d) /\ (p \o q)[i] # Remove(d))
  BY <1>1, <1>2
<1>4. DOMAIN p \subseteq DOMAIN (p \o q) /\ \A i \in DOMAIN p : (p \o q)[i] = p[i]
  BY <1>1
<1>5. QED
  BY <1>1, <1>3, <1>4 DEF AfterWrites

LEMMA AfterPut ==
  ASSUME NEW V, NEW p \in Seq(V), NEW q \in Seq(V), NEW j, NEW d,
         \A i \in DOMAIN q : q[i] # Remove(d),
         NEW n \in DOMAIN q, q[n] = Put(d)
  PROVE  AfterWrites(j, p \o q, d)
<1>1. /\ Len(p) \in Nat /\ Len(q) \in Nat /\ DOMAIN p = 1..Len(p) /\ DOMAIN q = 1..Len(q)
      /\ DOMAIN (p \o q) = 1..(Len(p) + Len(q))
      /\ \A i \in 1..Len(q) : (p \o q)[Len(p) + i] = q[i]
  BY WritesAppended
<1>2. Len(p) + n \in DOMAIN (p \o q) /\ (p \o q)[Len(p) + n] = Put(d)
  BY <1>1
<1>3. ASSUME NEW k \in DOMAIN (p \o q), k > Len(p) + n PROVE (p \o q)[k] # Remove(d)
  <2>1. k - Len(p) \in 1..Len(q)
    BY <1>1, <1>3
  <2>2. QED
    BY <1>1, <2>1
<1>4. QED
  BY <1>2, <1>3 DEF AfterWrites

LEMMA AfterRemove ==
  ASSUME NEW V, NEW p \in Seq(V), NEW q \in Seq(V), NEW j, NEW d,
         \A i \in DOMAIN q : q[i] # Put(d),
         NEW n \in DOMAIN q, q[n] = Remove(d)
  PROVE  ~AfterWrites(j, p \o q, d)
<1>1. /\ Len(p) \in Nat /\ Len(q) \in Nat /\ DOMAIN p = 1..Len(p) /\ DOMAIN q = 1..Len(q)
      /\ DOMAIN (p \o q) = 1..(Len(p) + Len(q))
      /\ \A i \in 1..Len(q) : (p \o q)[Len(p) + i] = q[i]
  BY WritesAppended
<1>2. Len(p) + n \in DOMAIN (p \o q) /\ (p \o q)[Len(p) + n] = Remove(d)
  BY <1>1
<1>3. ASSUME NEW i \in DOMAIN (p \o q), (p \o q)[i] = Put(d) PROVE i < Len(p) + n
  <2>1. i \in 1..Len(p) \/ i - Len(p) \in 1..Len(q)
    BY <1>1
  <2>2. CASE i - Len(p) \in 1..Len(q)
    BY <1>1, <1>3, <2>2
  <2>3. QED
    BY <1>1, <2>1, <2>2
<1>4. QED
  BY <1>1, <1>2, <1>3 DEF AfterWrites

(* The first write, once done, is in the journal. *)
LEMMA AfterFirst ==
  ASSUME NEW V, NEW p \in Seq(V), p # <<>>, NEW j, NEW k, NEW d,
         Head(p) = Put(d) => d \in k,
         Head(p) = Remove(d) => d \notin k,
         Head(p) # Put(d) /\ Head(p) # Remove(d) => (d \in j <=> d \in k)
  PROVE  AfterWrites(k, Tail(p), d) <=> AfterWrites(j, p, d)
<1>1. /\ Len(p) \in Nat /\ Len(p) > 0 /\ DOMAIN p = 1..Len(p) /\ Head(p) = p[1]
      /\ DOMAIN Tail(p) = 1..(Len(p) - 1)
      /\ \A i \in 1..(Len(p) - 1) : Tail(p)[i] = p[i + 1]
  OBVIOUS
<1>2. \A i \in 2..Len(p) : i - 1 \in 1..(Len(p) - 1) /\ Tail(p)[i - 1] = p[i]
  BY <1>1
<1>3. Put(d) # Remove(d)
  BY DEF Put, Remove
<1> DEFINE Free(q) == \A i \in DOMAIN q : q[i] # Remove(d)
           Last1(q, i) == q[i] = Put(d) /\ \A m \in DOMAIN q : m > i => q[m] # Remove(d)
<1>4. Free(Tail(p)) <=> \A i \in 2..Len(p) : p[i] # Remove(d)
  BY <1>1, <1>2
<1>5. \A i \in 1..(Len(p) - 1) : Last1(Tail(p), i) <=> Last1(p, i + 1)
  <2>1. ASSUME NEW i \in 1..(Len(p) - 1), Last1(Tail(p), i) PROVE Last1(p, i + 1)
    <3>1. ASSUME NEW m \in DOMAIN p, m > i + 1 PROVE p[m] # Remove(d)
      <4>1. m \in 2..Len(p) /\ m - 1 > i
        BY <1>1, <3>1
      <4>2. QED
        BY <1>1, <1>2, <2>1, <4>1
    <3>2. QED
      BY <1>1, <2>1, <3>1
  <2>2. ASSUME NEW i \in 1..(Len(p) - 1), Last1(p, i + 1) PROVE Last1(Tail(p), i)
    BY <1>1, <2>2
  <2>3. QED
    BY <2>1, <2>2
<1>6. Last1(p, 1) <=> Head(p) = Put(d) /\ Free(Tail(p))
  BY <1>1, <1>2, <1>4
<1>7. Free(p) <=> Head(p) # Remove(d) /\ Free(Tail(p))
  BY <1>1, <1>2, <1>4
<1>8. (\E i \in DOMAIN p : Last1(p, i)) <=> Last1(p, 1) \/ \E i \in DOMAIN Tail(p) : Last1(Tail(p), i)
  <2>1. \A i \in DOMAIN p : i = 1 \/ i - 1 \in 1..(Len(p) - 1)
    BY <1>1
  <2>2. \A i \in 1..(Len(p) - 1) : i + 1 \in DOMAIN p
    BY <1>1
  <2>3. ASSUME NEW i \in DOMAIN p, Last1(p, i), i # 1 PROVE Last1(Tail(p), i - 1)
    <3>1. i - 1 \in 1..(Len(p) - 1) /\ (i - 1) + 1 = i
      BY <1>1, <2>3
    <3> HIDE DEF Last1
    <3>2. QED
      BY <1>5, <2>3, <3>1
  <2> HIDE DEF Last1
  <2>4. 1 \in DOMAIN p
    BY <1>1
  <2>5. QED
    BY <1>1, <1>5, <2>1, <2>2, <2>3, <2>4
<1>9. /\ AfterWrites(j, p, d) <=> (d \in j /\ Free(p)) \/ \E i \in DOMAIN p : Last1(p, i)
      /\ AfterWrites(k, Tail(p), d) <=> (d \in k /\ Free(Tail(p))) \/ \E i \in DOMAIN Tail(p) : Last1(Tail(p), i)
  BY DEF AfterWrites
<1> HIDE DEF Free, Last1
<1>10. QED
  BY <1>3, <1>6, <1>7, <1>8, <1>9
-------------------------------------------------------------------------------
(* The inductive invariant.  A delivery counts as safe once its put is     *)
(* done and no removal of it is waiting; it then is in the journal and in  *)
(* the store, and the writes that are waiting leave it there.              *)
Durable ==
  /\ safe \subseteq stored.outbox
  /\ up => \A d \in safe : d \in journal /\ \A i \in DOMAIN writes : writes[i] # Remove(d)

Inv == Shape /\ OutboxCatchesUp /\ Durable

OnlyPuts(q, S) ==
  /\ \A i \in DOMAIN q : q[i].op \in {"put", "remove"} => \E x \in S : q[i] = Put(x)
  /\ \A x \in S : \E i \in DOMAIN q : q[i] = Put(x)

OnlyRemoves(q, S) ==
  /\ \A i \in DOMAIN q : q[i].op \in {"put", "remove"} => \E x \in S : q[i] = Remove(x)
  /\ \A x \in S : \E i \in DOMAIN q : q[i] = Remove(x)

LEMMA WriteForms ==
  ASSUME NEW d, NEW x
  PROVE  /\ Put(d).op = "put" /\ Remove(d).op = "remove"
         /\ Put(d) # Remove(x)
         /\ (Put(d) = Put(x) \/ Remove(d) = Remove(x)) => d = x
         /\ SaveHistory(x).op = "history" /\ SaveSubscriptions(x).op = "subscriptions"
BY DEF Put, Remove, SaveHistory, SaveSubscriptions

(* A step that puts the deliveries of S and appends the writes for it. *)
LEMMA InvByPuts ==
  ASSUME Inv, up, NEW S \in SUBSET Deliveries, NEW q \in Seq(AllWrites), OnlyPuts(q, S),
         writes' = writes \o q, queued' = queued \cup S,
         journal' = journal, stored' = stored, safe' = safe
  PROVE  OutboxCatchesUp' /\ Durable'
<1>1. writes \in Seq(AllWrites)
  BY DEF Inv, Shape
<1>2. \A d, i : i \in DOMAIN q => q[i] # Remove(d)
  BY DEF OnlyPuts, Put, Remove
<1>3. ASSUME NEW d \in Deliveries PROVE d \in queued' <=> AfterWrites(journal', writes', d)
  <2>1. CASE d \in S
    <3>1. PICK n \in DOMAIN q : q[n] = Put(d)
      BY <2>1 DEF OnlyPuts
    <3>2. AfterWrites(journal, writes \o q, d)
      BY <1>1, <1>2, <3>1, AfterPut
    <3>3. QED
      BY <2>1, <3>2
  <2>2. CASE d \notin S
    <3>1. \A i \in DOMAIN q : q[i] # Put(d)
      BY <2>2 DEF OnlyPuts, Put, Remove
    <3>2. AfterWrites(journal, writes \o q, d) <=> AfterWrites(journal, writes, d)
      BY <1>1, <1>2, <3>1, AfterOthers
    <3>3. QED
      BY <2>2, <3>2 DEF Inv, OutboxCatchesUp
  <2>3. QED
    BY <2>1, <2>2
<1>4. ASSUME NEW d \in safe, NEW i \in DOMAIN (writes \o q) PROVE (writes \o q)[i] # Remove(d)
  <2>1. /\ Len(writes) \in Nat /\ Len(q) \in Nat
        /\ DOMAIN writes = 1..Len(writes) /\ DOMAIN q = 1..Len(q)
        /\ DOMAIN (writes \o q) = 1..(Len(writes) + Len(q))
        /\ \A k \in 1..Len(writes) : (writes \o q)[k] = writes[k]
        /\ \A k \in 1..Len(q) : (writes \o q)[Len(writes) + k] = q[k]
    BY <1>1, WritesAppended
  <2>2. CASE i \in 1..Len(writes)
    BY <2>1, <2>2 DEF Inv, Durable
  <2>3. CASE i - Len(writes) \in 1..Len(q)
    BY <1>2, <2>1, <2>3
  <2>4. QED
    BY <2>1, <2>2, <2>3
<1>5. Durable'
  BY <1>4 DEF Inv, Durable
<1>6. QED
  BY <1>3, <1>5 DEF OutboxCatchesUp

(* A step that takes the deliveries of S out of the queue. *)
LEMMA InvByRemoves ==
  ASSUME Inv, up, NEW S \in SUBSET Deliveries, NEW q \in Seq(AllWrites), OnlyRemoves(q, S),
         writes' = writes \o q, queued' = queued \ S,
         journal' = journal, stored' = stored, safe' = safe \ S
  PROVE  OutboxCatchesUp' /\ Durable'
<1>1. writes \in Seq(AllWrites)
  BY DEF Inv, Shape
<1>2. \A d, i : i \in DOMAIN q => q[i] # Put(d)
  BY DEF OnlyRemoves, Put, Remove
<1>3. ASSUME NEW d \in Deliveries PROVE d \in queued' <=> AfterWrites(journal', writes', d)
  <2>1. CASE d \in S
    <3>1. PICK n \in DOMAIN q : q[n] = Remove(d)
      BY <2>1 DEF OnlyRemoves
    <3>2. ~AfterWrites(journal, writes \o q, d)
      BY <1>1, <1>2, <3>1, AfterRemove
    <3>3. QED
      BY <2>1, <3>2
  <2>2. CASE d \notin S
    <3>1. \A i \in DOMAIN q : q[i] # Remove(d)
      BY <2>2 DEF OnlyRemoves, Put, Remove
    <3>2. AfterWrites(journal, writes \o q, d) <=> AfterWrites(journal, writes, d)
      BY <1>1, <1>2, <3>1, AfterOthers
    <3>3. QED
      BY <2>2, <3>2 DEF Inv, OutboxCatchesUp
  <2>3. QED
    BY <2>1, <2>2
<1>4. ASSUME NEW d \in safe \ S, NEW i \in DOMAIN (writes \o q) PROVE (writes \o q)[i] # Remove(d)
  <2>1. /\ Len(writes) \in Nat /\ Len(q) \in Nat
        /\ DOMAIN writes = 1..Len(writes) /\ DOMAIN q = 1..Len(q)
        /\ DOMAIN (writes \o q) = 1..(Len(writes) + Len(q))
        /\ \A k \in 1..Len(writes) : (writes \o q)[k] = writes[k]
        /\ \A k \in 1..Len(q) : (writes \o q)[Len(writes) + k] = q[k]
    BY <1>1, WritesAppended
  <2>2. CASE i \in 1..Len(writes)
    BY <2>1, <2>2 DEF Inv, Durable
  <2>3. CASE i - Len(writes) \in 1..Len(q)
    <3>1. \A k \in DOMAIN q : q[k] # Remove(d)
      BY DEF OnlyRemoves, Put, Remove
    <3>2. QED
      BY <2>1, <2>3, <3>1
  <2>4. QED
    BY <2>1, <2>2, <2>3
<1>5. Durable'
  BY <1>4 DEF Inv, Durable
<1>6. QED
  BY <1>3, <1>5 DEF OutboxCatchesUp
-------------------------------------------------------------------------------
(* The shape of the state is kept. *)

LEMMA WritesTyped ==
  /\ \A d \in Deliveries : Put(d) \in AllWrites /\ Remove(d) \in AllWrites
  /\ \A h \in Seq(Records) : SaveHistory(h) \in AllWrites
  /\ \A s \in Seq(Subscriptions) : SaveSubscriptions(s) \in AllWrites
BY DEF Put, Remove, SaveHistory, SaveSubscriptions, AllWrites

LEMMA PutsTyped ==
  ASSUME NEW S \in SUBSET Deliveries
  PROVE  Puts(S) \in Seq(AllWrites) /\ Removes(S) \in Seq(AllWrites)
<1>1. IsFiniteSet(S)
  BY FiniteDeliveries
<1>2. /\ Cardinality(S) \in Nat
      /\ \A i \in 1..Cardinality(S) : SeqOf(S)[i] \in Deliveries
  BY <1>1, SeqOfAll
<1>3. /\ Puts(S) \in [1..Cardinality(S) -> AllWrites]
      /\ Removes(S) \in [1..Cardinality(S) -> AllWrites]
  BY <1>2, WritesTyped DEF Puts, Removes
<1>4. QED
  BY <1>2, <1>3

LEMMA RecordedTyped ==
  ASSUME Shape, NEW d \in Deliveries, NEW status \in {"delivered", "failed"}
  PROVE  Recorded(d, status) \in Seq(Records)
<1> DEFINE h == Append(history, [delivery |-> d, status |-> status])
<1>1. h \in Seq(Records)
  BY DEF Shape, Records
<1> HIDE DEF h
<1>2. Len(h) \in Nat /\ HistoryLimit \in Nat
  BY <1>1, WebhookAssumption
<1>3. Len(h) > HistoryLimit => SubSeq(h, Len(h) - HistoryLimit + 1, Len(h)) \in Seq(Records)
  BY <1>1, <1>2
<1>4. QED
  BY <1>1, <1>3 DEF Recorded, h

LEMMA EmittedTyped ==
  ASSUME Shape, NEW e \in Events
  PROVE  {<<e, subscriptions[i].url>> : i \in Wanting(e)} \subseteq Deliveries
<1>1. \A i \in DOMAIN subscriptions : subscriptions[i] \in Subscriptions
  BY DEF Shape
<1>2. \A i \in DOMAIN subscriptions : subscriptions[i].url \in Urls
  BY <1>1, SubscriptionParts
<1>3. QED
  BY <1>2 DEF Wanting, Deliveries

LEMMA AtFound ==
  ASSUME NEW s, Has(s)
  PROVE  At(s) \in DOMAIN subscriptions /\ subscriptions[At(s)].id = s
BY DEF Has, At

LEMMA UpsertTyped ==
  ASSUME Shape, NEW s \in SubscriptionIds, NEW v \in Values(s), UpsertSubscription(s, v)
  PROVE  subscriptions' \in Seq(Subscriptions)
<1> DEFINE sub == [id |-> s, url |-> v.url, active |-> v.active, events |-> v.events]
<1>1. sub \in Subscriptions
  BY DEF Subscriptions
<1>2. subscriptions \in Seq(Subscriptions)
  BY DEF Shape
<1>3. subscriptions' = IF Has(s) THEN [subscriptions EXCEPT ![At(s)] = sub] ELSE Append(subscriptions, sub)
  BY DEF UpsertSubscription
<1> HIDE DEF sub
<1>4. CASE Has(s)
  BY <1>1, <1>2, <1>3, <1>4, AtFound
<1>5. CASE ~Has(s)
  BY <1>1, <1>2, <1>3, <1>5
<1>6. QED
  BY <1>4, <1>5

LEMMA RemoveTyped ==
  ASSUME Shape, NEW s \in SubscriptionIds, RemoveSubscription(s)
  PROVE  subscriptions' \in Seq(Subscriptions)
<1>1. subscriptions \in Seq(Subscriptions) /\ At(s) \in 1..Len(subscriptions) /\ Len(subscriptions) \in Nat
  BY AtFound DEF Shape, RemoveSubscription
<1>2. subscriptions' = SubSeq(subscriptions, 1, At(s) - 1) \o SubSeq(subscriptions, At(s) + 1, Len(subscriptions))
  BY DEF RemoveSubscription
<1>3. /\ SubSeq(subscriptions, 1, At(s) - 1) \in Seq(Subscriptions)
      /\ SubSeq(subscriptions, At(s) + 1, Len(subscriptions)) \in Seq(Subscriptions)
  BY <1>1
<1>4. QED
  BY <1>2, <1>3
-------------------------------------------------------------------------------
(* Every step keeps the invariant. *)

LEMMA PutsOnly ==
  ASSUME NEW S \in SUBSET Deliveries
  PROVE  OnlyPuts(Puts(S), S) /\ OnlyRemoves(Removes(S), S)
<1>1. IsFiniteSet(S)
  BY FiniteDeliveries
<1>2. OnlyPuts(Puts(S), S)
  BY <1>1, PutsOf DEF OnlyPuts
<1>3. OnlyRemoves(Removes(S), S)
  BY <1>1, RemovesOf DEF OnlyRemoves
<1>4. QED
  BY <1>2, <1>3

LEMMA OnePut ==
  ASSUME NEW d \in Deliveries
  PROVE  /\ <<Put(d)>> \in Seq(AllWrites) /\ OnlyPuts(<<Put(d)>>, {d})
         /\ Append(writes, Put(d)) = writes \o <<Put(d)>>
BY WritesTyped DEF OnlyPuts

LEMMA EmitInv ==
  ASSUME Inv, NEW e \in Events, Emit(e)
  PROVE  Inv'
<1> DEFINE ds == {<<e, subscriptions[i].url>> : i \in Wanting(e)}
<1>1. ds \in SUBSET Deliveries
  BY EmittedTyped DEF Inv
<1>2. /\ up /\ queued' = queued \cup ds /\ writes' = writes \o Puts(ds)
      /\ UNCHANGED <<up, subscriptions, history, journal, stored, crashes, safe>>
  BY DEF Emit, Room
<1> HIDE DEF ds
<1>3. Puts(ds) \in Seq(AllWrites) /\ OnlyPuts(Puts(ds), ds)
  BY <1>1, PutsTyped, PutsOnly
<1>4. Shape'
  BY <1>1, <1>2, <1>3 DEF Inv, Shape
<1>5. OutboxCatchesUp' /\ Durable'
  BY <1>1, <1>2, <1>3, InvByPuts
<1>6. QED
  BY <1>4, <1>5 DEF Inv

LEMMA RetryInv ==
  ASSUME Inv, NEW d \in Deliveries, RetryDelivery(d)
  PROVE  Inv'
<1>1. /\ up /\ queued' = queued \cup {d} /\ writes' = writes \o <<Put(d)>>
      /\ UNCHANGED <<up, subscriptions, history, journal, stored, crashes, safe>>
  BY OnePut DEF RetryDelivery, Room, promises
<1>2. <<Put(d)>> \in Seq(AllWrites) /\ OnlyPuts(<<Put(d)>>, {d})
  BY OnePut
<1>3. Shape'
  BY <1>1, <1>2 DEF Inv, Shape
<1>4. OutboxCatchesUp' /\ Durable'
  BY <1>1, <1>2, InvByPuts
<1>5. QED
  BY <1>3, <1>4 DEF Inv

LEMMA ReplayInv ==
  ASSUME Inv, NEW d \in Deliveries, ReplayDelivery(d)
  PROVE  Inv'
<1>1. /\ up /\ queued' = queued \cup {d} /\ writes' = writes \o <<Put(d)>>
      /\ UNCHANGED <<up, subscriptions, history, journal, stored, crashes, safe>>
  BY OnePut DEF ReplayDelivery, Room
<1>2. <<Put(d)>> \in Seq(AllWrites) /\ OnlyPuts(<<Put(d)>>, {d})
  BY OnePut
<1>3. Shape'
  BY <1>1, <1>2 DEF Inv, Shape
<1>4. OutboxCatchesUp' /\ Durable'
  BY <1>1, <1>2, InvByPuts
<1>5. QED
  BY <1>3, <1>4 DEF Inv

(* Other writes do not concern the outbox. *)
LEMMA OtherWrite ==
  ASSUME NEW w \in AllWrites, w.op \notin {"put", "remove"}
  PROVE  /\ <<w>> \in Seq(AllWrites) /\ OnlyPuts(<<w>>, {}) /\ OnlyRemoves(<<w>>, {})
         /\ Append(writes, w) = writes \o <<w>>
BY DEF OnlyPuts, OnlyRemoves

LEMMA UpsertInv ==
  ASSUME Inv, NEW s \in SubscriptionIds, NEW v \in Values(s), UpsertSubscription(s, v)
  PROVE  Inv'
<1>1. subscriptions' \in Seq(Subscriptions)
  BY UpsertTyped DEF Inv
<1> DEFINE w == SaveSubscriptions(subscriptions')
<1>2. w \in AllWrites /\ w.op \notin {"put", "remove"}
  BY <1>1, WritesTyped DEF SaveSubscriptions
<1>3. /\ up /\ writes' = Append(writes, w)
      /\ UNCHANGED <<up, queued, history, journal, stored, crashes, safe>>
  BY DEF UpsertSubscription, Room
<1> HIDE DEF w
<1>4. <<w>> \in Seq(AllWrites) /\ OnlyPuts(<<w>>, {}) /\ writes' = writes \o <<w>>
  BY <1>2, <1>3, OtherWrite
<1>5. Shape'
  BY <1>1, <1>3, <1>4 DEF Inv, Shape
<1>6. queued' = queued \cup {}
  BY <1>3
<1>7. OutboxCatchesUp' /\ Durable'
  BY <1>3, <1>4, <1>6, InvByPuts
<1>8. QED
  BY <1>5, <1>7 DEF Inv

LEMMA RemoveInv ==
  ASSUME Inv, NEW s \in SubscriptionIds, RemoveSubscription(s)
  PROVE  Inv'
<1>1. subscriptions' \in Seq(Subscriptions)
  BY RemoveTyped DEF Inv
<1> DEFINE w == SaveSubscriptions(subscriptions')
           gone == {d \in queued : d[2] = subscriptions[At(s)].url}
<1>2. w \in AllWrites /\ w.op \notin {"put", "remove"}
  BY <1>1, WritesTyped DEF SaveSubscriptions
<1>3. /\ up /\ writes' = writes \o Append(Removes(gone), w)
      /\ queued' = queued \ gone /\ safe' = safe \ gone
      /\ UNCHANGED <<up, history, journal, stored, crashes>>
  BY DEF RemoveSubscription, Room
<1>4. gone \in SUBSET Deliveries
  BY DEF Inv, Shape
<1> HIDE DEF w, gone
<1>5. Removes(gone) \in Seq(AllWrites) /\ OnlyRemoves(Removes(gone), gone)
  BY <1>4, PutsTyped, PutsOnly
<1>6. Append(Removes(gone), w) \in Seq(AllWrites)
  BY <1>2, <1>5
<1>7. OnlyRemoves(Append(Removes(gone), w), gone)
  <2>1. /\ Len(Removes(gone)) \in Nat /\ DOMAIN Removes(gone) = 1..Len(Removes(gone))
        /\ DOMAIN Append(Removes(gone), w) = 1..(Len(Removes(gone)) + 1)
        /\ \A i \in 1..Len(Removes(gone)) : Append(Removes(gone), w)[i] = Removes(gone)[i]
        /\ Append(Removes(gone), w)[Len(Removes(gone)) + 1] = w
    BY <1>2, <1>5
  <2>2. \A i \in DOMAIN Append(Removes(gone), w) : i \in 1..Len(Removes(gone)) \/ i = Len(Removes(gone)) + 1
    BY <2>1
  <2>3. 1..Len(Removes(gone)) \subseteq DOMAIN Append(Removes(gone), w)
    BY <2>1
  <2>4. QED
    BY <1>2, <1>5, <2>1, <2>2, <2>3 DEF OnlyRemoves
<1>8. Shape'
  BY <1>1, <1>3, <1>6 DEF Inv, Shape
<1>9. OutboxCatchesUp' /\ Durable'
  BY <1>3, <1>4, <1>6, <1>7, InvByRemoves
<1>10. QED
  BY <1>8, <1>9 DEF Inv

LEMMA DeliverInv ==
  ASSUME Inv, NEW d \in Deliveries, Deliver(d)
  PROVE  Inv'
<1>1. /\ up /\ queued' = queued \ {d} /\ history' = Recorded(d, "delivered")
      /\ writes' = writes \o (<<Remove(d)>> \o <<SaveHistory(history')>>)
      /\ safe' = safe \ {d} /\ UNCHANGED <<up, subscriptions, journal, stored, crashes>>
  BY DEF Deliver, Acknowledged
<1>2. history' \in Seq(Records)
  BY <1>1, RecordedTyped DEF Inv
<1> DEFINE w == SaveHistory(history')
           q == <<Remove(d)>> \o <<w>>
<1>3. w \in AllWrites /\ w.op \notin {"put", "remove"} /\ Remove(d) \in AllWrites
  BY <1>2, WritesTyped DEF SaveHistory
<1>4. writes' = writes \o q
  BY <1>1
<1> HIDE DEF w
<1>5. q \in Seq(AllWrites) /\ Len(q) = 2 /\ q[1] = Remove(d) /\ q[2] = w
  <2>1. <<Remove(d)>> \in Seq(AllWrites) /\ <<w>> \in Seq(AllWrites)
    BY <1>3
  <2>2. QED
    BY <2>1, WritesAppended
<1>6. OnlyRemoves(q, {d})
  <2>1. DOMAIN q = {1, 2}
    BY <1>5
  <2>2. QED
    BY <1>3, <1>5, <2>1 DEF OnlyRemoves
<1> HIDE DEF q
<1>7. Shape'
  <2>1. writes' \in Seq(AllWrites)
    BY <1>4, <1>5, WritesAppended DEF Inv, Shape
  <2>2. queued' \subseteq Deliveries /\ safe' \subseteq Deliveries
    BY <1>1 DEF Inv, Shape
  <2>3. UNCHANGED <<up, subscriptions, journal, stored>>
    BY <1>1
  <2>4. QED
    BY <1>2, <2>1, <2>2, <2>3 DEF Inv, Shape
<1>8. OutboxCatchesUp' /\ Durable'
  BY <1>1, <1>4, <1>5, <1>6, InvByRemoves
<1>9. QED
  BY <1>7, <1>8 DEF Inv

LEMMA FailInv ==
  ASSUME Inv, NEW d \in Deliveries, Fail(d)
  PROVE  Inv'
<1> DEFINE S == IF Advances(d) THEN {d} ELSE {}
           puts == IF Advances(d) THEN <<Put(d)>> ELSE <<>>
           w == SaveHistory(history')
<1>1. /\ up /\ queued' = queued \cup S
      /\ \/ history' = Recorded(d, "failed") /\ writes' = writes \o (puts \o <<w>>)
         \/ history' = history /\ writes' = writes \o puts
      /\ UNCHANGED <<up, subscriptions, journal, stored, crashes, safe>>
  BY DEF Fail, promises
<1>2. history' \in Seq(Records)
  BY <1>1, RecordedTyped DEF Inv, Shape
<1>3. w \in AllWrites /\ w.op \notin {"put", "remove"} /\ Put(d) \in AllWrites
  BY <1>2, WritesTyped DEF SaveHistory
<1> HIDE DEF w
<1>4. S \in SUBSET Deliveries
  OBVIOUS
<1>5. /\ puts \in Seq(AllWrites) /\ OnlyPuts(puts, S)
      /\ puts \o <<w>> \in Seq(AllWrites) /\ OnlyPuts(puts \o <<w>>, S)
  <2>1. CASE Advances(d)
    <3>1. S = {d} /\ puts = <<Put(d)>> /\ puts \in Seq(AllWrites) /\ <<w>> \in Seq(AllWrites)
      BY <2>1, <1>3
    <3>2. /\ puts \o <<w>> \in Seq(AllWrites) /\ DOMAIN (puts \o <<w>>) = {1, 2}
          /\ (puts \o <<w>>)[1] = Put(d) /\ (puts \o <<w>>)[2] = w
      BY <3>1, WritesAppended
    <3>3. QED
      BY <1>3, <3>1, <3>2 DEF OnlyPuts
  <2>2. CASE ~Advances(d)
    <3>1. S = {} /\ puts = <<>> /\ puts \o <<w>> = <<w>>
      BY <2>2, <1>3
    <3>2. QED
      BY <1>3, <3>1 DEF OnlyPuts
  <2>3. QED
    BY <2>1, <2>2
<1> HIDE DEF S, puts
<1>6. PICK q \in Seq(AllWrites) : OnlyPuts(q, S) /\ writes' = writes \o q
  BY <1>1, <1>5
<1>7. Shape'
  BY <1>1, <1>2, <1>4, <1>6 DEF Inv, Shape
<1>8. OutboxCatchesUp' /\ Durable'
  BY <1>1, <1>4, <1>6, InvByPuts
<1>9. QED
  BY <1>7, <1>8 DEF Inv

LEMMA NextAttemptInv ==
  ASSUME Inv, NEW d \in Deliveries, NextAttempt(d)
  PROVE  Inv'
<1>1. /\ up /\ UNCHANGED <<up, subscriptions, history, journal, stored, crashes, safe>>
      /\ \/ queued' = queued \cup {d} /\ writes' = writes \o <<Put(d)>>
         \/ UNCHANGED <<queued, writes>>
  BY OnePut DEF NextAttempt, promises
<1>2. <<Put(d)>> \in Seq(AllWrites) /\ OnlyPuts(<<Put(d)>>, {d})
  BY OnePut
<1>3. CASE UNCHANGED <<queued, writes>>
  BY <1>1, <1>3 DEF Inv, Shape, OutboxCatchesUp, Durable, AfterWrites
<1>4. CASE queued' = queued \cup {d} /\ writes' = writes \o <<Put(d)>>
  <2>1. Shape'
    BY <1>1, <1>2, <1>4 DEF Inv, Shape
  <2>2. OutboxCatchesUp' /\ Durable'
    BY <1>1, <1>2, <1>4, InvByPuts
  <2>3. QED
    BY <2>1, <2>2 DEF Inv
<1>5. QED
  BY <1>1, <1>3, <1>4

LEMMA WriteInv ==
  ASSUME Inv, NEW ok \in BOOLEAN, Write(ok)
  PROVE  Inv'
<1> DEFINE w == Head(writes)
<1>1. /\ up /\ writes # <<>> /\ writes' = Tail(writes) /\ journal' = JournalAfter(w)
      /\ stored' = IF ok THEN Saved(w) ELSE stored
      /\ safe' = IF ok /\ w.op = "put" THEN IF StaysPut(w.of) THEN safe \cup {w.of} ELSE safe ELSE safe
      /\ UNCHANGED <<up, subscriptions, queued, history>>
  BY DEF Write, memory
<1>2. writes \in Seq(AllWrites) /\ w \in AllWrites /\ Tail(writes) \in Seq(AllWrites)
  BY <1>1 DEF Inv, Shape
<1>3. /\ Len(writes) \in Nat /\ Len(writes) > 0 /\ DOMAIN writes = 1..Len(writes) /\ w = writes[1]
      /\ DOMAIN Tail(writes) = 1..(Len(writes) - 1)
      /\ \A i \in 1..(Len(writes) - 1) : Tail(writes)[i] = writes[i + 1] /\ i + 1 \in 2..Len(writes)
  BY <1>1, <1>2
<1> HIDE DEF w
<1>4. /\ w.op = "put" => w.of \in Deliveries /\ w = Put(w.of) /\ journal' = journal \cup {w.of}
      /\ w.op = "remove" => w.of \in Deliveries /\ w = Remove(w.of) /\ journal' = journal \ {w.of}
      /\ w.op \notin {"put", "remove"} => journal' = journal
  BY <1>1, <1>2 DEF JournalAfter, AllWrites, Put, Remove
<1>5. /\ w.op = "history" => w.of \in Seq(Records)
      /\ w.op = "subscriptions" => w.of \in Seq(Subscriptions)
      /\ w.op \in {"put", "remove", "history", "subscriptions"}
  BY <1>2 DEF AllWrites
<1>6. journal' \subseteq Deliveries
  BY <1>4 DEF Inv, Shape
<1>7. /\ stored' \in [outbox : SUBSET Deliveries, history : Seq(Records),
                      subscriptions : Seq(Subscriptions), configured : BOOLEAN]
      /\ stored'.outbox \in {stored.outbox, journal'}
      /\ ok /\ w.op = "put" => stored'.outbox = journal'
      /\ w.op \notin {"put", "remove"} => stored'.outbox = stored.outbox
  <2>1. stored \in [outbox : SUBSET Deliveries, history : Seq(Records),
                      subscriptions : Seq(Subscriptions), configured : BOOLEAN]
    BY DEF Inv, Shape
  <2>2. CASE ~ok
    BY <1>1, <2>1, <2>2
  <2>3. CASE ok /\ w.op \in {"put", "remove"}
    BY <1>1, <1>6, <2>1, <2>3 DEF Saved
  <2>4. CASE ok /\ w.op = "history"
    BY <1>1, <1>5, <2>1, <2>4 DEF Saved
  <2>5. CASE ok /\ w.op = "subscriptions"
    BY <1>1, <1>5, <2>1, <2>5 DEF Saved
  <2>6. QED
    BY <1>5, <2>2, <2>3, <2>4, <2>5
<1>8. safe' \subseteq Deliveries
  BY <1>1, <1>4 DEF Inv, Shape
<1>9. Shape'
  BY <1>1, <1>2, <1>6, <1>7, <1>8 DEF Inv, Shape
<1>10. ASSUME NEW d \in Deliveries PROVE d \in queued' <=> AfterWrites(journal', writes', d)
  <2>1. /\ w = Put(d) => d \in journal'
        /\ w = Remove(d) => d \notin journal'
        /\ w # Put(d) /\ w # Remove(d) => (d \in journal <=> d \in journal')
    BY <1>4, <1>5 DEF Put, Remove
  <2>2. AfterWrites(journal', Tail(writes), d) <=> AfterWrites(journal, writes, d)
    BY <1>1, <1>2, <2>1, AfterFirst DEF w
  <2>3. QED
    BY <1>1, <2>2 DEF Inv, OutboxCatchesUp
<1>11. ASSUME NEW d \in safe'
       PROVE  /\ d \in stored'.outbox /\ d \in journal'
              /\ \A i \in DOMAIN writes' : writes'[i] # Remove(d)
  <2>1. CASE d \in safe
    <3>1. d \in stored.outbox /\ d \in journal /\ \A i \in DOMAIN writes : writes[i] # Remove(d)
      BY <1>1, <2>1 DEF Inv, Durable
    <3>2. w # Remove(d)
      BY <1>3, <3>1
    <3>3. d \in journal'
      BY <1>4, <1>5, <3>1, <3>2
    <3>4. \A i \in 1..(Len(writes) - 1) : writes[i + 1] # Remove(d)
      BY <1>3, <3>1
    <3>5. QED
      BY <1>1, <1>3, <1>7, <3>1, <3>3, <3>4
  <2>2. CASE d \notin safe
    <3>1. ok /\ w.op = "put" /\ d = w.of /\ StaysPut(d)
      BY <1>1, <1>11, <2>2
    <3>2. d \in journal' /\ d \in stored'.outbox
      BY <1>4, <1>7, <3>1
    <3>3. QED
      BY <1>1, <1>3, <3>1, <3>2 DEF StaysPut
  <2>3. QED
    BY <2>1, <2>2
<1>12. OutboxCatchesUp' /\ Durable'
  BY <1>10, <1>11 DEF OutboxCatchesUp, Durable
<1>13. QED
  BY <1>9, <1>12 DEF Inv

LEMMA EmptyTyped == \A X : <<>> \in Seq(X)
OBVIOUS

LEMMA CrashInv ==
  ASSUME Inv, Crash
  PROVE  Inv'
<1>1. /\ up' = FALSE /\ subscriptions' = <<>> /\ queued' = {} /\ history' = <<>>
      /\ writes' = <<>> /\ journal' = {} /\ stored' = stored /\ safe' = safe
  BY DEF Crash
<1>2. Shape'
  BY <1>1, EmptyTyped DEF Inv, Shape
<1>3. OutboxCatchesUp' /\ Durable'
  BY <1>1 DEF Inv, OutboxCatchesUp, Durable
<1>4. QED
  BY <1>2, <1>3 DEF Inv

LEMMA StartInv ==
  ASSUME Inv, Start
  PROVE  Inv'
<1> DEFINE subs == IF stored.configured THEN stored.subscriptions ELSE BootSubscriptions
           ds == Resumable(subs)
           w == SaveSubscriptions(subs)
           q == <<w>> \o Puts(ds)
<1>1. /\ up' = TRUE /\ subscriptions' = subs /\ queued' = stored.outbox
      /\ journal' = stored.outbox /\ history' = stored.history
      /\ writes' = q /\ stored' = stored /\ safe' = safe
  BY DEF Start, promises
<1>2. subs \in Seq(Subscriptions)
  BY WebhookAssumption DEF Inv, Shape
<1>3. ds \in SUBSET Deliveries /\ ds \subseteq stored.outbox
  BY DEF Inv, Shape, Resumable
<1>4. w \in AllWrites /\ w.op \notin {"put", "remove"}
  BY <1>2, WritesTyped DEF SaveSubscriptions
<1> HIDE DEF subs, ds, w
<1>5. Puts(ds) \in Seq(AllWrites) /\ OnlyPuts(Puts(ds), ds)
  BY <1>3, PutsTyped, PutsOnly
<1>6. q \in Seq(AllWrites)
  BY <1>4, <1>5
<1>7. \A i \in DOMAIN q : \/ q[i].op \notin {"put", "remove"}
                          \/ \E x \in ds : q[i] = Put(x)
  <2>1. /\ Len(Puts(ds)) \in Nat /\ DOMAIN Puts(ds) = 1..Len(Puts(ds))
        /\ DOMAIN q = 1..(1 + Len(Puts(ds))) /\ q[1] = w
        /\ \A i \in 1..Len(Puts(ds)) : q[1 + i] = Puts(ds)[i]
    BY <1>4, <1>5
  <2>2. \A i \in DOMAIN q : i = 1 \/ (i - 1 \in 1..Len(Puts(ds)) /\ q[i] = Puts(ds)[i - 1])
    BY <2>1
  <2>3. QED
    BY <1>4, <1>5, <2>1, <2>2 DEF OnlyPuts
<1>8. Shape'
  BY <1>1, <1>2, <1>6 DEF Inv, Shape
<1> HIDE DEF q
<1>9. \A d, i : i \in DOMAIN q => q[i] # Remove(d)
  BY <1>7 DEF Put, Remove
<1>10. \A d, i : i \in DOMAIN q /\ q[i] = Put(d) => d \in stored.outbox
  BY <1>3, <1>7 DEF Put, Remove
<1>11. OutboxCatchesUp'
  BY <1>1, <1>9, <1>10 DEF OutboxCatchesUp, AfterWrites
<1>12. Durable'
  BY <1>1, <1>9 DEF Inv, Durable
<1>13. QED
  BY <1>8, <1>11, <1>12 DEF Inv

LEMMA StepInv ==
  ASSUME Inv, [Next]_vars
  PROVE  Inv'
<1>1. CASE Call
  <2>1. CASE \E e \in Events : Emit(e)
    BY <2>1, EmitInv
  <2>2. CASE \E d \in Deliveries : RetryDelivery(d) \/ ReplayDelivery(d)
    BY <2>2, RetryInv, ReplayInv
  <2>3. CASE \E s \in SubscriptionIds : \E v \in Values(s) : UpsertSubscription(s, v)
    BY <2>3, UpsertInv
  <2>4. CASE \E s \in SubscriptionIds : RemoveSubscription(s)
    BY <2>4, RemoveInv
  <2>5. QED
    BY <1>1, <2>1, <2>2, <2>3, <2>4 DEF Call
<1>2. CASE \E d \in Deliveries : Delivery(d)
  BY <1>2, DeliverInv, FailInv, NextAttemptInv DEF Delivery
<1>3. CASE \E ok \in BOOLEAN : Write(ok)
  BY <1>3, WriteInv
<1>4. CASE Crash
  BY <1>4, CrashInv
<1>5. CASE Start
  BY <1>5, StartInv
<1>6. CASE UNCHANGED vars
  BY <1>6 DEF Inv, Shape, OutboxCatchesUp, Durable, AfterWrites, vars, memory, promises
<1>7. QED
  BY <1>1, <1>2, <1>3, <1>4, <1>5, <1>6 DEF Next

LEMMA InitInv == Init => Inv
<1> SUFFICES ASSUME Init PROVE Inv
  OBVIOUS
<1>1. Shape
  BY EmptyTyped DEF Init, Shape
<1>2. OutboxCatchesUp /\ Durable
  BY DEF Init, OutboxCatchesUp, Durable
<1>3. QED
  BY <1>1, <1>2 DEF Inv

(* The outbox catches up with the queue, for every set of events, ids and  *)
(* URLs, every number of attempts and every number of crashes: the chain   *)
(* of writes of persist ends where the queue of the dispatcher is.         *)
THEOREM OutboxCorrect == Spec => []OutboxCatchesUp
<1>1. Spec => []Inv
  BY InitInv, StepInv, PTL DEF Spec
<1>2. Inv => OutboxCatchesUp
  BY DEF Inv
<1>3. QED
  BY <1>1, <1>2, PTL
-------------------------------------------------------------------------------
(* At least once.  Removing a subscription drops what is queued for its    *)
(* URL, so a delivery is safe from other subscriptions only when no two    *)
(* subscription ids are ever given one URL.                                *)
OwnUrls ==
  \A s, t \in SubscriptionIds :
    (\E v \in Values(s), w \in Values(t) : v.url = w.url) => s = t

(* What is owed is queued, or in the store while the process is down, and  *)
(* is for a URL of its own subscription.                                   *)
Owing ==
  /\ \A x \in owed : x[2] \in SubscriptionIds /\ \E v \in Values(x[2]) : v.url = x[1][2]
  /\ up => \A x \in owed : x[1] \in queued
  /\ ~up => \A x \in owed : x[1] \in safe

LEMMA FirstFound ==
  ASSUME NEW S \in SUBSET Nat, S # {}
  PROVE  First(S) \in S
<1>1. PICK x \in S : \A y \in S : ~(<<y, x>> \in OpToRel(<, Nat))
  BY WFMin, NatLessThanWellFounded
<1>2. ASSUME NEW y \in S PROVE x <= y
  <2>1. ~(y < x)
    BY <1>1 DEF OpToRel
  <2>2. x \in Nat /\ y \in Nat
    OBVIOUS
  <2>3. QED
    BY <2>1, <2>2
<1>3. QED
  BY <1>2 DEF First

LEMMA ServerFound ==
  ASSUME Shape, NEW d, Serving(subscriptions, d[2]) # {}
  PROVE  /\ ServerOf(subscriptions, d) \in SubscriptionIds
         /\ \E v \in Values(ServerOf(subscriptions, d)) : v.url = d[2]
         /\ \E i \in DOMAIN subscriptions : subscriptions[i].url = d[2]
<1> DEFINE i == First(Serving(subscriptions, d[2]))
<1>1. Serving(subscriptions, d[2]) \in SUBSET Nat
  BY DEF Serving, Shape
<1>2. i \in Serving(subscriptions, d[2])
  BY <1>1, FirstFound
<1>3. i \in DOMAIN subscriptions /\ subscriptions[i].url = d[2] /\ subscriptions[i] \in Subscriptions
  BY <1>2 DEF Serving, Shape
<1>4. QED
  BY <1>3, SubscriptionParts DEF ServerOf

LEMMA StepOwing ==
  ASSUME OwnUrls, Inv, Owing, [Next]_vars
  PROVE  Owing'
<1>1. ASSUME NEW e \in Events, Emit(e) PROVE Owing'
  <2>1. /\ up /\ up' = up
        /\ queued' = queued \cup {<<e, subscriptions[i].url>> : i \in Wanting(e)}
        /\ owed' = owed \cup {<<<<e, subscriptions[i].url>>, subscriptions[i].id>> : i \in Wanting(e)}
    BY <1>1 DEF Emit, Room
  <2>2. \A i \in Wanting(e) : subscriptions[i] \in Subscriptions
    BY DEF Inv, Shape, Wanting
  <2>3. \A i \in Wanting(e) : /\ subscriptions[i].id \in SubscriptionIds
                              /\ \E v \in Values(subscriptions[i].id) : v.url = subscriptions[i].url
    BY <2>2, SubscriptionParts
  <2>4. QED
    BY <2>1, <2>3 DEF Owing
<1>2. ASSUME NEW d \in Deliveries, RetryDelivery(d) PROVE Owing'
  BY <1>2 DEF Owing, RetryDelivery, Room, promises
<1>3. ASSUME NEW d \in Deliveries, ReplayDelivery(d) PROVE Owing'
  <2>1. /\ up /\ up' = up /\ queued' = queued \cup {d}
        /\ owed' = owed \cup {<<d, ServerOf(subscriptions, d)>>}
        /\ Serving(subscriptions, d[2]) # {}
    BY <1>3 DEF ReplayDelivery, Room
  <2>2. /\ ServerOf(subscriptions, d) \in SubscriptionIds
        /\ \E v \in Values(ServerOf(subscriptions, d)) : v.url = d[2]
    BY <2>1, ServerFound DEF Inv
  <2>3. QED
    BY <2>1, <2>2 DEF Owing
<1>4. ASSUME NEW s \in SubscriptionIds, NEW v \in Values(s), UpsertSubscription(s, v) PROVE Owing'
  <2>1. up /\ up' = up /\ queued' = queued /\ owed' \subseteq owed
    BY <1>4 DEF UpsertSubscription, Room
  <2>2. QED
    BY <2>1 DEF Owing
<1>5. ASSUME NEW s \in SubscriptionIds, RemoveSubscription(s) PROVE Owing'
  <2>1. /\ up /\ up' = up /\ Has(s)
        /\ queued' = queued \ {d \in queued : d[2] = subscriptions[At(s)].url}
        /\ owed' = {x \in owed : x[2] # s}
    BY <1>5 DEF RemoveSubscription, Room
  <2>2. subscriptions[At(s)] \in Subscriptions /\ subscriptions[At(s)].id = s
    BY <2>1, AtFound DEF Inv, Shape
  <2>3. \E v \in Values(s) : v.url = subscriptions[At(s)].url
    BY <2>2, SubscriptionParts
  <2>4. ASSUME NEW x \in owed' PROVE x[1] \in queued'
    <3>1. x \in owed /\ x[2] # s /\ x[1] \in queued
      BY <2>1, <2>4 DEF Owing
    <3>2. x[1][2] # subscriptions[At(s)].url
      BY <2>3, <3>1 DEF Owing, OwnUrls
    <3>3. QED
      BY <2>1, <3>1, <3>2
  <2>5. QED
    BY <2>1, <2>4 DEF Owing
<1>6. ASSUME NEW d \in Deliveries, Deliver(d) PROVE Owing'
  <2>1. up /\ up' = up /\ queued' = queued \ {d} /\ owed' = {x \in owed : x[1] # d}
    BY <1>6 DEF Deliver
  <2>2. QED
    BY <2>1 DEF Owing
<1>7. ASSUME NEW d \in Deliveries, Fail(d) \/ NextAttempt(d) PROVE Owing'
  <2>1. up /\ up' = up /\ queued \subseteq queued' /\ owed' = owed
    BY <1>7 DEF Fail, NextAttempt, promises
  <2>2. QED
    BY <2>1 DEF Owing
<1>8. ASSUME NEW ok \in BOOLEAN, Write(ok) PROVE Owing'
  BY <1>8 DEF Owing, Write, memory
<1>9. CASE Crash
  <2>1. up' = FALSE /\ owed' = {x \in owed : x[1] \in safe} /\ safe' = safe
    BY <1>9 DEF Crash
  <2>2. QED
    BY <2>1 DEF Owing
<1>10. CASE Start
  <2>1. ~up /\ up' /\ queued' = stored.outbox /\ owed' = owed
    BY <1>10 DEF Start, promises
  <2>2. QED
    BY <2>1 DEF Owing, Inv, Durable
<1>11. CASE UNCHANGED vars
  BY <1>11 DEF Owing, vars, memory, promises
<1>12. QED
  BY <1>1, <1>2, <1>3, <1>4, <1>5, <1>6, <1>7, <1>8, <1>9, <1>10, <1>11
  DEF Next, Call, Delivery

(* When no two subscriptions are given one URL, what was emitted or        *)
(* replayed stays queued or in flight until it is delivered or its         *)
(* subscription is removed, and a crash loses nothing that was stored.     *)
THEOREM AtLeastOnceCorrect ==
  ASSUME OwnUrls
  PROVE  Spec => []AtLeastOnce
<1>1. Init => Inv /\ Owing
  <2>1. Init => Owing
    BY DEF Init, Owing
  <2>2. QED
    BY <2>1, InitInv
<1>2. Inv /\ Owing /\ [Next]_vars => (Inv /\ Owing)'
  BY StepInv, StepOwing
<1>3. Inv /\ Owing => AtLeastOnce
  BY DEF Owing, AtLeastOnce
<1>4. QED
  BY <1>1, <1>2, <1>3, PTL DEF Spec

(* What is removed with its subscription does not come back: no step of    *)
(* the running process queues a delivery to a URL nobody has.              *)
THEOREM RemovalHolds == Spec => RemovedStaysRemoved
<1> DEFINE Kept == up => \A d \in queued' \ queued :
                           \E i \in DOMAIN subscriptions' : subscriptions'[i].url = d[2]
<1>1. ASSUME Inv, [Next]_vars PROVE [Kept]_vars
  <2>1. ASSUME NEW e \in Events, Emit(e) PROVE Kept
    <3>1. /\ subscriptions' = subscriptions
          /\ queued' = queued \cup {<<e, subscriptions[i].url>> : i \in Wanting(e)}
      BY <2>1 DEF Emit
    <3>2. QED
      BY <3>1 DEF Wanting
  <2>2. ASSUME NEW d \in Deliveries, RetryDelivery(d) PROVE Kept
    BY <2>2 DEF RetryDelivery
  <2>3. ASSUME NEW d \in Deliveries, ReplayDelivery(d) PROVE Kept
    <3>1. /\ queued' = queued \cup {d} /\ subscriptions' = subscriptions
          /\ Serving(subscriptions, d[2]) # {}
      BY <2>3 DEF ReplayDelivery
    <3>2. QED
      BY <1>1, <3>1, ServerFound DEF Inv
  <2>4. ASSUME NEW s \in SubscriptionIds, NEW v \in Values(s), UpsertSubscription(s, v) PROVE Kept
    BY <2>4 DEF UpsertSubscription
  <2>5. ASSUME NEW s \in SubscriptionIds, RemoveSubscription(s) PROVE Kept
    BY <2>5 DEF RemoveSubscription
  <2>6. ASSUME NEW d \in Deliveries, Deliver(d) PROVE Kept
    BY <2>6 DEF Deliver
  <2>7. ASSUME NEW d \in Deliveries, Fail(d) \/ NextAttempt(d) PROVE Kept
    <3>1. /\ subscriptions' = subscriptions
          /\ queued' = queued \/ (queued' = queued \cup {d} /\ DeliveryState(d) # "removed")
      BY <2>7 DEF Fail, NextAttempt, Advances
    <3>2. DeliveryState(d) # "removed" => \E i \in DOMAIN subscriptions : subscriptions[i].url = d[2]
      BY DEF DeliveryState, Configured
    <3>3. QED
      BY <3>1, <3>2
  <2>8. ASSUME NEW ok \in BOOLEAN, Write(ok) PROVE Kept
    BY <2>8 DEF Write, memory
  <2>9. CASE Crash
    BY <2>9 DEF Crash
  <2>10. CASE Start
    BY <2>10 DEF Start
  <2>11. QED
    BY <1>1, <2>1, <2>2, <2>3, <2>4, <2>5, <2>6, <2>7, <2>8, <2>9, <2>10
    DEF Next, Call, Delivery
<1>2. Spec => []Inv
  BY InitInv, StepInv, PTL DEF Spec
<1>3. QED
  BY <1>1, <1>2, PTL DEF Spec, RemovedStaysRemoved
===============================================================================
