--------------------------- MODULE WebhookDispatcher ---------------------------
(***************************************************************************)
(* The webhook dispatcher of packages/server/src/webhooks.ts with the      *)
(* three journals behind it: webhook-outbox.ts, webhook-history.ts and     *)
(* webhook-subscriptions.ts.                                               *)
(*                                                                         *)
(* The calls of the dispatcher are synchronous.  What they want stored is  *)
(* appended to a chain of writes (persist) that runs behind them, one      *)
(* write at a time.  Every delivery in flight is an asynchronous function  *)
(* that waits for the receiver or for its backoff; in between, calls,      *)
(* other deliveries and writes run, and the process may stop.              *)
(*                                                                         *)
(* A delivery is an event and the URL it goes to, as its id is a hash of   *)
(* the two.  The outbox entry of a delivery also counts attempts and keeps *)
(* the last error; here it is only there or not, so the put of a new       *)
(* attempt right after the put of the entry is one write.  Signatures and  *)
(* secrets are left out: rotateSecret is an upsert of the same values.     *)
(***************************************************************************)
EXTENDS Integers, Sequences, FiniteSets

CONSTANTS
  Events,          \* the events that may be emitted, again and again
  SubscriptionIds,
  Values(_),       \* subscription id -> the [url, active, events] it may be given
  BootSubscriptions,  \* subscriptions configured at the first start
  MaxAttempts,     \* attempts in one delivery cycle
  HistoryLimit,    \* completed deliveries kept
  MaxCrashes,      \* bound: how often the process stops
  MaxWrites        \* bound: no call is made while this many writes are waiting

Urls == UNION {{v.url : v \in Values(s)} : s \in SubscriptionIds}
Deliveries == Events \X Urls
Subscriptions == UNION {{[id |-> s, url |-> v.url, active |-> v.active, events |-> v.events] :
                           v \in Values(s)} : s \in SubscriptionIds}

(* The ids, events and URLs in use are finitely many. *)
ASSUME WebhookAssumption ==
  /\ IsFiniteSet(Events) /\ IsFiniteSet(Urls)
  /\ MaxAttempts \in Nat \ {0} /\ HistoryLimit \in Nat /\ MaxCrashes \in Nat /\ MaxWrites \in Nat
  /\ BootSubscriptions \in Seq(Subscriptions)

VARIABLES
  up,              \* the process runs
  subscriptions,   \* sequence of [id, url, active, events]
  queued,          \* the deliveries in the queue
  pending,         \* delivery in flight -> [id, attempt, posting]
  history,         \* sequence of completed [delivery, status]
  writes,          \* persistTail: the writes not yet done
  journal,         \* the entries in the memory of the outbox journal
  stored,          \* [outbox, history, subscriptions, configured] in the state stores
  crashes,
  owed, safe       \* what was promised: see AtLeastOnce

memory == <<subscriptions, queued, pending, history>>
promises == <<owed, safe>>
vars == <<up, memory, writes, journal, stored, crashes, promises>>

Init ==
  /\ up = FALSE
  /\ subscriptions = <<>> /\ queued = {} /\ pending = <<>> /\ history = <<>>
  /\ writes = <<>> /\ journal = {}
  /\ stored = [outbox |-> {}, history |-> <<>>, subscriptions |-> <<>>, configured |-> FALSE]
  /\ crashes = 0
  /\ owed = {} /\ safe = {}

Put(d) == [op |-> "put", of |-> d]
Remove(d) == [op |-> "remove", of |-> d]
SaveHistory(h) == [op |-> "history", of |-> h]
SaveSubscriptions(s) == [op |-> "subscriptions", of |-> s]

Room == up /\ Len(writes) <= MaxWrites

(* The ids of subscriptions are unique. *)
Has(s) == \E i \in DOMAIN subscriptions : subscriptions[i].id = s
Configured(s, u) == \E i \in DOMAIN subscriptions : subscriptions[i].id = s /\ subscriptions[i].url = u
At(s) == CHOOSE i \in DOMAIN subscriptions : subscriptions[i].id = s

(* The id of the first active subscription with the URL, as find returns it. *)
Serving(subs, u) == {i \in DOMAIN subs : subs[i].url = u /\ subs[i].active}
First(is) == CHOOSE i \in is : \A j \in is : i <= j
ServerOf(subs, d) == subs[First(Serving(subs, d[2]))].id

(* A loop over deliveries that stores or removes each, in some order. *)
SeqOf(S) == CHOOSE q \in [1..Cardinality(S) -> S] : \A x \in S : \E i \in DOMAIN q : q[i] = x
Puts(S) == [i \in 1..Cardinality(S) |-> Put(SeqOf(S)[i])]
Removes(S) == [i \in 1..Cardinality(S) |-> Remove(SeqOf(S)[i])]

(* schedule: a delivery that is not in flight starts its first attempt at  *)
(* once, on behalf of subscription id.                                     *)
Attempt(id, n) == [id |-> id, attempt |-> n, posting |-> TRUE]
Scheduled(started) ==
  [d \in DOMAIN pending \cup DOMAIN started |->
     IF d \in DOMAIN pending THEN pending[d] ELSE Attempt(started[d], 1)]
Without(d) == [x \in DOMAIN pending \ {d} |-> pending[x]]
-------------------------------------------------------------------------------
(* emit: once for each active subscription to the event.  Subscriptions    *)
(* with the same URL share a delivery, and the first of them starts it.    *)
Wanting(e) == {i \in DOMAIN subscriptions : subscriptions[i].active /\ e \in subscriptions[i].events}

Emit(e) ==
  LET ds == {<<e, subscriptions[i].url>> : i \in Wanting(e)}
      started == [d \in ds |-> subscriptions[First({i \in Wanting(e) : subscriptions[i].url = d[2]})].id]
  IN  /\ Room
      /\ queued' = queued \cup ds
      /\ pending' = Scheduled(started)
      /\ writes' = writes \o Puts(ds)
      /\ owed' = owed \cup {<<<<e, subscriptions[i].url>>, subscriptions[i].id>> : i \in Wanting(e)}
      /\ UNCHANGED <<up, subscriptions, history, journal, stored, crashes, safe>>

(* retryDelivery, which changes nothing when the delivery is in flight *)
RetryDelivery(d) ==
  /\ Room
  /\ d \in queued /\ Serving(subscriptions, d[2]) # {}
  /\ d \notin DOMAIN pending
  /\ pending' = Scheduled([x \in {d} |-> ServerOf(subscriptions, d)])
  /\ writes' = Append(writes, Put(d))
  /\ UNCHANGED <<up, subscriptions, queued, history, journal, stored, crashes, promises>>

(* replayDelivery of a completed delivery *)
ReplayDelivery(d) ==
  /\ Room
  /\ \E i \in DOMAIN history : history[i].delivery = d
  /\ Serving(subscriptions, d[2]) # {}
  /\ queued' = queued \cup {d}
  /\ pending' = Scheduled([x \in {d} |-> ServerOf(subscriptions, d)])
  /\ writes' = Append(writes, Put(d))
  /\ owed' = owed \cup {<<d, ServerOf(subscriptions, d)>>}
  /\ UNCHANGED <<up, subscriptions, history, journal, stored, crashes, safe>>
-------------------------------------------------------------------------------
(* upsertSubscription and rotateSecret.  What is queued for another URL of *)
(* the subscription stays in the queue.                                    *)
UpsertSubscription(s, v) ==
  LET sub == [id |-> s, url |-> v.url, active |-> v.active, events |-> v.events]
  IN  /\ Room
      /\ subscriptions' = IF Has(s) THEN [subscriptions EXCEPT ![At(s)] = sub]
                          ELSE Append(subscriptions, sub)
      /\ writes' = Append(writes, SaveSubscriptions(subscriptions'))
      /\ owed' = {x \in owed : x[2] = s => x[1][2] = v.url}
      /\ UNCHANGED <<up, queued, pending, history, journal, stored, crashes, safe>>

(* removeSubscription drops what is queued for its URL.  A delivery in     *)
(* flight finds out when its attempt ends.                                 *)
RemoveSubscription(s) ==
  LET gone == {d \in queued : d[2] = subscriptions[At(s)].url}
  IN  /\ Room
      /\ Has(s)
      /\ subscriptions' = SubSeq(subscriptions, 1, At(s) - 1)
                          \o SubSeq(subscriptions, At(s) + 1, Len(subscriptions))
      /\ queued' = queued \ gone
      /\ writes' = writes \o Append(Removes(gone), SaveSubscriptions(subscriptions'))
      /\ owed' = {x \in owed : x[2] # s}
      /\ safe' = safe \ gone
      /\ UNCHANGED <<up, pending, history, journal, stored, crashes>>
-------------------------------------------------------------------------------
(* deliver *)

(* subscriptionDeliveryState of the subscription a delivery d was          *)
(* scheduled for: it may have been paused, removed or given another URL.   *)
DeliveryState(d) ==
  IF ~Configured(pending[d].id, d[2]) THEN "removed"
  ELSE IF subscriptions[At(pending[d].id)].active THEN "active" ELSE "paused"

(* advance: the entry is put back, unless the subscription was removed. *)
AdvancesAlways(d) == TRUE
Advances(d) == DeliveryState(d) # "removed"

(* record *)
Recorded(d, status) ==
  LET h == Append(history, [delivery |-> d, status |-> status])
  IN  IF Len(h) > HistoryLimit THEN SubSeq(h, Len(h) - HistoryLimit + 1, Len(h)) ELSE h

(* The receiver answers with a 2xx status.  The entry leaves the queue,    *)
(* whatever has become of the subscription.                                *)
AcknowledgedUnstored(d) == <<>>
Acknowledged(d) == <<Remove(d)>>

Deliver(d) ==
  /\ up /\ d \in DOMAIN pending /\ pending[d].posting
  /\ queued' = queued \ {d}
  /\ history' = Recorded(d, "delivered")
  /\ writes' = writes \o (Acknowledged(d) \o <<SaveHistory(history')>>)
  /\ pending' = Without(d)
  /\ owed' = {x \in owed : x[1] # d}
  /\ safe' = safe \ {d}
  /\ UNCHANGED <<up, subscriptions, journal, stored, crashes>>

(* The attempt fails: another status, a network error, the timeout, or an  *)
(* address that is not safe.  After the last attempt the delivery stays in *)
(* the queue for a retry or the next start.                                *)
Last(n) == n >= MaxAttempts

Fail(d) ==
  LET p == pending[d]
  IN  /\ up /\ d \in DOMAIN pending /\ p.posting
      /\ queued' = IF Advances(d) THEN queued \cup {d} ELSE queued
      /\ LET puts == IF Advances(d) THEN <<Put(d)>> ELSE <<>>
         IN  IF DeliveryState(d) = "active" /\ Last(p.attempt)
             THEN /\ history' = Recorded(d, "failed")
                  /\ writes' = writes \o (puts \o <<SaveHistory(history')>>)
             ELSE writes' = writes \o puts /\ UNCHANGED history
      /\ pending' = IF DeliveryState(d) = "active" /\ ~Last(p.attempt)
                    THEN [pending EXCEPT ![d].posting = FALSE] ELSE Without(d)
      /\ UNCHANGED <<up, subscriptions, journal, stored, crashes, promises>>

FollowingSame(n) == n
Following(n) == n + 1

(* The backoff is over: the next attempt, unless the subscription is no    *)
(* longer active.                                                          *)
NextAttempt(d) ==
  /\ up /\ d \in DOMAIN pending /\ ~pending[d].posting
  /\ IF DeliveryState(d) = "active"
     THEN /\ queued' = queued \cup {d}
          /\ writes' = Append(writes, Put(d))
          /\ pending' = [pending EXCEPT ![d] = Attempt(@.id, Following(@.attempt))]
     ELSE pending' = Without(d) /\ UNCHANGED <<queued, writes>>
  /\ UNCHANGED <<up, subscriptions, history, journal, stored, crashes, promises>>
-------------------------------------------------------------------------------
(* persist and the journals: the first write runs.  The outbox journal     *)
(* changes its map before it saves the whole of it, so that a save that    *)
(* fails is made up for by the next one; the removal of an absent entry    *)
(* saves nothing.                                                          *)
JournalAfter(w) ==
  CASE w.op = "put" -> journal \cup {w.of}
    [] w.op = "remove" -> journal \ {w.of}
    [] OTHER -> journal

SavedBefore(w) ==
  CASE w.op \in {"put", "remove"} -> [stored EXCEPT !.outbox = journal]
    [] w.op = "history" -> [stored EXCEPT !.history = w.of]
    [] OTHER -> [stored EXCEPT !.subscriptions = w.of, !.configured = TRUE]
Saved(w) ==
  CASE w.op \in {"put", "remove"} -> [stored EXCEPT !.outbox = IF w.op = "remove" /\ w.of \notin journal
                                                              THEN @ ELSE JournalAfter(w)]
    [] w.op = "history" -> [stored EXCEPT !.history = w.of]
    [] OTHER -> [stored EXCEPT !.subscriptions = w.of, !.configured = TRUE]

(* A put counts as safe when no later write takes it back. *)
StaysPut(d) == /\ d \in queued
               /\ \A i \in 2..Len(writes) : writes[i] # Remove(d)

Write(ok) ==
  LET w == Head(writes)
  IN  /\ up /\ writes # <<>>
      /\ writes' = Tail(writes)
      /\ journal' = JournalAfter(w)
      /\ stored' = IF ok THEN Saved(w) ELSE stored
      /\ safe' = IF ok /\ w.op = "put" THEN IF StaysPut(w.of) THEN safe \cup {w.of} ELSE safe
                 ELSE safe
      /\ UNCHANGED <<up, memory, crashes, owed>>

(* The process stops; what was only in memory is gone. *)
Crash ==
  /\ up /\ crashes < MaxCrashes
  /\ up' = FALSE /\ crashes' = crashes + 1
  /\ subscriptions' = <<>> /\ queued' = {} /\ pending' = <<>> /\ history' = <<>>
  /\ writes' = <<>> /\ journal' = {}
  /\ owed' = {x \in owed : x[1] \in safe}
  /\ UNCHANGED <<stored, safe>>

(* create and resumePending at the start of the platform: subscriptions    *)
(* that were stored take precedence over the configured ones, the queue is *)
(* what the outbox holds, and what has an active subscription is retried.  *)
ResumableNone(subs) == {}
Resumable(subs) == {d \in stored.outbox : Serving(subs, d[2]) # {}}

Start ==
  LET subs == IF stored.configured THEN stored.subscriptions ELSE BootSubscriptions
      ds   == Resumable(subs)
  IN  /\ ~up /\ up' = TRUE
      /\ subscriptions' = subs
      /\ queued' = stored.outbox /\ journal' = stored.outbox
      /\ history' = stored.history
      /\ pending' = [d \in ds |-> Attempt(ServerOf(subs, d), 1)]
      /\ writes' = <<SaveSubscriptions(subs)>> \o Puts(ds)
      /\ UNCHANGED <<stored, crashes, promises>>

Call ==
  \/ \E e \in Events : Emit(e)
  \/ \E d \in Deliveries : RetryDelivery(d) \/ ReplayDelivery(d)
  \/ \E s \in SubscriptionIds : \/ \E v \in Values(s) : UpsertSubscription(s, v)
                                \/ RemoveSubscription(s)

Delivery(d) == Deliver(d) \/ Fail(d) \/ NextAttempt(d)

Next == \/ Call
        \/ \E d \in Deliveries : Delivery(d)
        \/ \E ok \in BOOLEAN : Write(ok)
        \/ Crash
        \/ Start

(* The receiver answers or the request times out, the backoff timer fires, *)
(* the writes are done, and a process that stopped is started again.       *)
Fairness == /\ \A d \in Deliveries : WF_vars(Delivery(d))
            /\ WF_vars(\E ok \in BOOLEAN : Write(ok))
            /\ WF_vars(Start)

Spec == Init /\ [][Next]_vars /\ Fairness
-------------------------------------------------------------------------------
(* Properties *)

Records == [delivery : Deliveries, status : {"delivered", "failed"}]
AllWrites == [op : {"put", "remove"}, of : Deliveries]
             \cup [op : {"history"}, of : Seq(Records)]
             \cup [op : {"subscriptions"}, of : Seq(Subscriptions)]

(* The shape of the state, which the invariants below are proved from. *)
Shape ==
  /\ up \in BOOLEAN
  /\ subscriptions \in Seq(Subscriptions)
  /\ queued \subseteq Deliveries /\ journal \subseteq Deliveries
  /\ history \in Seq(Records)
  /\ writes \in Seq(AllWrites)
  /\ stored \in [outbox : SUBSET Deliveries, history : Seq(Records),
                 subscriptions : Seq(Subscriptions), configured : BOOLEAN]
  /\ safe \subseteq Deliveries

(* The writes behind the dispatcher lead where its memory is: when they    *)
(* are done, the outbox journal holds exactly the queued deliveries, in    *)
(* whichever order emits, answers, failures, retries and removals came.    *)
AfterWrites(j, ws, d) ==
  \/ d \in j /\ \A i \in DOMAIN ws : ws[i] # Remove(d)
  \/ \E i \in DOMAIN ws : ws[i] = Put(d) /\ \A k \in DOMAIN ws : k > i => ws[k] # Remove(d)

OutboxCatchesUp == up => \A d \in Deliveries : d \in queued <=> AfterWrites(journal, writes, d)

(* docs/webhook-delivery.md: "Delivery is at-least-once".  What was        *)
(* emitted or replayed for a subscription is queued or in flight until the *)
(* receiver has answered with a 2xx status or the subscription is removed  *)
(* or given another URL; a crash loses only what had not reached the       *)
(* store.                                                                  *)
AtLeastOnce ==
  up => \A x \in owed :
    Configured(x[2], x[1][2]) => x[1] \in queued \cup DOMAIN pending

(* docs/webhook-delivery.md: "Deleting a receiver also removes its pending *)
(* deliveries".  They do not come back: while the process runs, nothing    *)
(* enters the queue for a URL that no subscription has, not even by an     *)
(* attempt that was in flight when the subscription was removed.           *)
RemovedStaysRemoved ==
  [][up => \A d \in queued' \ queued :
             \E i \in DOMAIN subscriptions' : subscriptions'[i].url = d[2]]_vars

(* Every delivery cycle ends, so that flush returns: the attempts are      *)
(* counted, and a request that is not answered times out.                  *)
CycleEnds == \A d \in Deliveries : d \in DOMAIN pending ~> d \notin DOMAIN pending

(* docs/webhook-delivery.md: "A normal server restart reloads and retries  *)
(* them".  A stored delivery to an active subscription is attempted after  *)
(* the next start until it is acknowledged or dropped, has failed as often *)
(* as one cycle allows, or its receiver has been paused.                   *)
Settled(d) ==
  /\ up /\ d \notin DOMAIN pending
  /\ \/ d \notin queued
     \/ \E i \in DOMAIN history : history[i] = [delivery |-> d, status |-> "failed"]
     \/ Serving(subscriptions, d[2]) = {}

RestartRetries ==
  \A d \in Deliveries :
    (/\ ~up /\ d \in stored.outbox
     /\ stored.configured /\ Serving(stored.subscriptions, d[2]) # {}) ~> Settled(d)
===============================================================================
