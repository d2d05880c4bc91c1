# A TLA+ model of the Loyalty Interchange Protocol implementation

This directory holds a verification project for the repository: TLA+ modules
that model its stateful parts, TLC configurations that check them on small
instances, and TLAPS proofs of the most important results for every instance.
`PROJECT.json` is the index: components, runs, mutants, the map from every
definition to the source lines it translates, findings, hazards and theorems.

Paths below are relative to the root of the repository.

## 1. The system and its parts

A merchant's systems talk to a loyalty *platform* over HTTP. The platform is
one Node process (or several replicas over Postgres) built around a synchronous
in-memory *engine*; services around the engine keep documents of their own in
state stores. A hosted control plane (`apps/cloud`) creates and runs platforms
for tenants.

| Component | State | Operations | Interacts with |
|---|---|---|---|
| Reference engine `packages/reference/src/engine.ts` | members, identity index, ledger, balances, point lots, reservations, issued rewards, accruals, adjustments, idempotency cache, program | enroll, lookup, cancel, erase, evaluate, accrue, issue, list and cancel rewards, reserve, capture, reverse, adjust, reconfigure | called by everything; no I/O of its own |
| Webhook dispatcher `packages/server/src/webhook*.ts` | subscriptions, queue, deliveries in flight, history, chain of writes | emit, deliver with retries, retry, replay, upsert, remove, resume | events of the engine; receivers; state stores |
| Platform and storage `packages/server/src/platform.ts`, `evented-engine.ts`, `packages/storage*` | stored engine with a revision, advisory lock of the tenant, documents with revisions | load, run an operation in a transaction, commit, emit events; save a document | all services |
| Program management `program-management.ts` | draft, active program, history of 20 | save draft, validate, publish, roll back; reconcile at startup | asks campaigns and memberships, publishes into the engine |
| Memberships, campaigns, engagement `memberships.ts`, `campaigns.ts`, `engagement.ts` | a document each; schedulers | grant, change, lapse; segments, campaigns, runs; connectors, message jobs | await engine operations and providers, then write their document |
| Customer data `customer-data.ts` | profiles, events, imports | upsert, ingest, import | engine operations |
| Access control `access-control.ts` | users, API keys | authenticate, create, rotate, revoke | HTTP server, credential operations |
| HTTP server `server.ts` | requests in progress, rate limit, write freeze | authenticate, authorize, limit, run | every service |
| Cloud organizations `apps/cloud/src/{service,server,billing,*-repository}.ts` | organizations, members, invitations, projects, subscriptions, usage | create, invite, accept, change, check out, meter | repositories, provisioning |
| Cloud operators `operator-service.ts`, `postgres-operators.ts` | operators, keys | bootstrap, create, update, rotate, revoke | HTTP server of the cloud |
| Cloud customers `customer-*.ts` | accounts, identities, consent, memberships | sign in, edit, link, enrol, delete | tenant platforms |
| Cloud provisioning `provisioning.ts`, `tenant-onboarding.ts`, `remote-attach.ts` | jobs with leases and attempts, status of environments | claim, complete, fail, retry, attach, suspend, resume | data planes |
| Data planes `managed-data-plane.ts`, `data-plane-provisioner.ts` | runtimes; SQLite and credentials files | start once, stop, request; backup, restore, rotate | platforms |
| Credential operations `credential-operations.ts`, `credential-operation-store.ts` | operations by idempotency key | claim, issue, record, complete, fail, recover, replay, expire | access control of an environment |
| Customer resolver `packages/identity/src/directory.ts` | customers of an application, their identities and members | resolve, link, delete | enrols and cancels members at a platform |
| Wallet `apps/wallet/src/server.ts` | pending logins, sessions, cached discovery | sign in, sign out, forward | identity provider, customer API of the cloud |
| Locations, reports, telemetry, migration, token verification, SDK, MCP, adapters, admin | little or none | translate, read, display | see section 6 |

### What is hard here

* **Lazy expiry in the engine.** No timer runs. Point lots, reservations and
  issued rewards expire when some call comes across them, and a call that is
  rejected keeps the expirations it made.
* **Retries.** Every mutating call has an idempotency key *and* a business id; a
  caller that lost its key comes back with another.
* **Long legal sequences.** Partial refunds after tier changes, programs that
  drop accounts while holds are open, identities that are freed and taken again.
* **Read, await, write.** Every service reads its memory, awaits an engine
  operation, a provider or a save, and writes. The change is visible in memory
  before it is stored, and stays there when the save is refused.
* **Two stores and no common transaction.** A run of a campaign, an import or a publish
  changes the engine and a document one after the other; the process may stop
  in between, and startup has to make sense of it.
* **Leases and single flights.** A worker of the control plane may be slow
  rather than dead; a start of a runtime may end after a suspension.

The hazards are listed at their lines in `PROJECT.json`; each names the
properties that would catch it, or says why none does.

### What makes each component correct

* Engine: a balance is the sum of its ledger; the ledger is append-only; no lot is used
  twice; a redemption is debited and credited at most once; an issued reward buys one
  redemption; an order earns once and a refund never takes back more than it earned; an
  erased member cannot be linked; a program change strands no balance.
* Dispatcher: the stored outbox follows the queue; delivery is at least once; what was
  removed stays removed; every cycle ends; a restart retries what was stored.
* Platform: what was answered is stored, and an event tells only of what was stored.
* Program management: startup always knows the program the engine was saved under.
* Memberships, campaigns, messages, imports: what is expired lapses, what is due runs, a
  run is reported once, a completed job was delivered, an imported profile is stored.
* Access: no key reaches wider than its maker; an answered change of keys is durable; a
  write that arrives after a freeze or a revocation is refused.
* Cloud: an idempotency key stands for one credential; one first operator; usage is
  counted once; a deleted customer leaves no personal data; an environment settles; no
  platform runs unseen; a restore leaves files that belong together.
* Resolver and wallet: a principal stands for one customer and one member, whatever is
  retried; one login makes one session, and the limits hold.

## 2. Modules

| Module | Models | Extends |
|---|---|---|
| `LedgerBook` | `addLedger`, `consumePointLots`, `restorePointLots`, `expirePointLots` as pure operators | |
| `ProgramRules` | eligible spend, amounts, tiers, reward windows, validation | `LedgerBook` |
| `LoyaltyEngine`, `EngineProperties` | class `LoyaltyEngine`, and what it promises | `ProgramRules` |
| `WebhookDispatcher` | class `WebhookDispatcher` and its journals | |
| `Common`, `JsonStateStore` | a document in memory, its saves and their revisions | |
| `Platform` | `executeEngineOperation` over Postgres | `JsonStateStore` |
| `MembershipService`, `CampaignService`, `CustomerData` | the services of those names | `Platform` |
| `EngagementService` | message jobs | `CampaignService` |
| `ProgramManagement` | drafts, publishing, startup | `MembershipService`, `CampaignService` |
| `ProtocolRequests` | requests on two instances, events, reports | `ProgramManagement` |
| `AccessControl` | users and keys of a tenant | `JsonStateStore` |
| `HttpServer` | the request handler | `Common` |
| `Tenant` | the composition of the services of a tenant | all of these |
| `CloudOrganizations`, `CloudOperators`, `CloudCustomers`, `LocalDataPlane` | the directories of the control plane and the file-backed data plane | `Common` |
| `CloudProvisioning`, `ManagedDataPlane` | the job queue; runtimes started once | `Common` |
| `CustomerResolver`, `WalletServer` | the resolver of an application; the backend of the wallet | `Common` |
| `CredentialIssuance` | abstract: one credential for an idempotency key | |
| `CredentialOperations` | the detailed one, over the keys of an environment | `AccessControl` |
| `MC*` | instances for TLC | |
| `LedgerBookProofs`, `EngineProofs`, `EngineHistoryProofs` | proofs about the engine | `LoyaltyEngine`, `EngineProperties` |
| `WebhookProofs` | proofs about the dispatcher | `WebhookDispatcher` |
| `TenantProofs` | proofs about the composition of a tenant | `Tenant` |
| `CredentialProofs` | proofs about keys and credentials, and the refinement | `CredentialOperations` |
| `CloudAccountProofs` | proofs about operators, customers and the usage of organizations | `CloudOrganizations`, `CloudOperators`, `CloudCustomers` |
| `CloudServiceProofs` | proofs about resolver, wallet and both data planes | those modules |

### The engine

Every public method of the engine is synchronous, so one call is one action.
A method that first looks for an earlier call with the same business id is two
actions: the first call, and `...Again` (for example `PostAccrual` and
`PostAccrualAgain`). The replay of an idempotency key and a rejected call without
effect are stuttering steps. A rejected call *with* an effect (the expirations it
made before it threw) is an action: `RejectOverdueReward`,
`RejectOverdueReservation`, `RejectLowBalance`, `RejectAdjustment`,
`RejectReconfigure`.

| Variable | In the code |
|---|---|
| `now` | the clock, `this.now()`; it only moves between calls |
| `program` | `this.program` |
| `members`, `identityIndex` | `members`, `identityIndex` |
| `book.ledger`, `.points`, `.lots`, `.consumptions` | `ledger`, `points`, `pointLots`, `lotConsumptions` |
| `reservations`, `byRedemption` | `reservations`, `reservationsByRedemption` |
| `issuedRewards` | `issuedRewards` with their artifacts |
| `accruals`, `adjustments` | accruals by order with the multiplier, adjustments by id |
| `idempotency` | the cache of responses |

Ledger entry ids and reservation ids are positions. Instants are ticks.
A request fingerprint is the tuple of the facts that are compared. Lists that are
sorted in the code are sets where no property sees the order; the order in which lots
are consumed (by expiry, then age) is kept. Left out: the wording of errors, the
catalog view with prices and funding split, schema checks of requests (requests in the
model have passed them), `exportState` and `replaceState` (a copy of the whole state,
which `Platform` takes as one value).

### The dispatcher

The dispatcher's own calls are synchronous; `deliver` is an asynchronous function
per delivery that waits for the receiver or for the backoff; `persist` is a chain of
writes. So the actions are the calls (`Emit`, `RetryDelivery`,
`ReplayDelivery`, `UpsertSubscription`, `RemoveSubscription`), the end of an
attempt (`Deliver`, `Fail`), the end of a backoff (`NextAttempt`), the next
write, which may fail (`Write`), and the stop and start of the process (`Crash`,
`Start`). A delivery is the pair of event and URL because its id is a
hash of the two. `owed` and `safe` are history variables: what has been promised
to whom, and what has reached the store; no guard reads them. Left out: signatures and
secrets (`rotateSecret` is an upsert of the same values), retry policies of single
subscriptions (all use `MaxAttempts`), attempt counts and error texts of outbox entries.
The few microtasks between the end of `deliver` and the removal of the delivery from
`pending` are one step with it.

### A tenant's services

`JsonStateStore` is what all documents of the services have in common. A change is
effective in memory at once and a copy of the document is *sent* to the store with the revision the
service holds; the store *stores* it when the revision is still the stored one, or *refuses* it (also
because the database failed); then the caller *returns* with the new revision or an
error. The three steps are separate actions, so two callers of one service overlap in
every order. A revision is only ever compared with the stored one, so it is reduced to
the truth of that comparison.

`Platform` has one engine row, an advisory lock and an engine in memory for each
instance. `Begins` takes the lock, loads the row and runs the operation in
memory; `Commits` stores it; `RollsBack` releases the lock and leaves the memory as it
is, as the code does. The services read the memory of the `Main` instance without the lock. Of the engine the
services see members, issued rewards, memberships and program; the accounts are in
`LoyaltyEngine`.

An asynchronous method of a service is one action for each stretch between awaits; the
stage of each caller (`running`, `sending`, `publishing`, `calls`...) is
the await it is at. A scheduler is a caller that starts by itself; membership sweeps overlap because
their timer does not wait (`Sweeps`). `ProgramBoot` is the reconciliation at
startup. Publish refuses a draft that is not valid, with its issues stored, and one that is valid and not compatible
(another currency or id), with nothing stored; one publish is in progress at a time. `refusals` is a history variable: how
many intents were refused since the engine last had the active program. `HttpServer` models the chain of lookups each family of routes makes, its
guards and its awaits; what an operation does is in the module of its service.

`Tenant` composes them. A stop (`Crash`) stops all of them. Each behaviour is about one
group of services that share state (`turn`): requests, publishing (with memberships
and campaigns, which it asks), memberships, campaigns, engagement (with campaigns, whose segments
it reads), customers, access, http. The others rest in their initial
state. This is a bound of the runs like the number of callers: what two groups could do to one
another beyond the pairs named here is a transaction on the shared engine, and to a
group that is one more holder of the lock, which `Traffic` and the second caller of the
group already are. A publish in the middle of a membership sweep, for instance, is not explored.

### The control plane

Every method of a cloud service authorizes and reads first and then runs a transaction.
`CloudOrganizations`, `CloudOperators` and `CloudCustomers` have an action for each of
the two, with another caller's steps in between, and a rollback. The Postgres and the memory
repository differ in what they check again inside the transaction: `Pg...` and
`Mem...` operators, chosen by the initial state.

`CloudProvisioning` is the queue: a job is pending, running under a lease, or over; time
is what it does to a job (`BackoffEnds`, `LeaseExpires`). `ManagedDataPlane` adds the
runtimes of each instance; `platforms` remembers every start until nobody refers
to it, so that a start that ends late is still seen. `LocalDataPlane` has the files of one
environment; each rename and removal of a restore, of its error path as well, is a step of its own that may fail.
A runtime is *stopped*, *running*, or *closed* but still registered: a close that fails puts it back
(`SuspendFails`), and a rotation that ends after a suspend registers the runtime it began with
(`outlived`). A close is one step, and a start that writes the
credentials file again writes what it read from it.

`CustomerResolver` and `WalletServer` are clients of these services. Each await of a call is a stage of its
seeker or tab; the platform's enrolment is external and answers a repeated key with the same member; any call may
fail, and an enrolment may be carried out and its answer lost. The wallet's lifetimes are ticks and its limits constants.

`CredentialOperations` follows an operation from claim to hand-over with a stop between any two
steps. `Issuance == INSTANCE CredentialIssuance WITH credential <- ..., given <- handed`
maps it to the abstract specification: the credential of an intent is the recorded key of an
operation that is issued, and everything before, the revocation of what an interrupted
attempt had recorded included, is a stutter.

## 3. Runs

| Run | What it shows | States |
|---|---|---|
| `EngineRedeem` | two orders and two redemptions of points that expire, or of two issued rewards: the shape, `BalanceMatchesLedger`, `LotsConserved`, `RedemptionSettledOnce`, `HeldRewardClaimable`, `IssuedRewardUsedOnce` | 0.6 M |
| `EngineRetry` | every call comes back under a second key: `AccruedOnce` | 1.0 M |
| `EngineRefund` | refunds, corrections and manual adjustments in any order, with rounding or with tiers and memberships that change: `ClawbackWithinEarnings`, `RefundUsesOriginalMultiplier`, `LedgerAppendOnly` | 0.5 M |
| `EngineProgram` | three programs published over one another while two members earn, hold and redeem; stamp cards; erasure and enrolment: `NothingStranded`, `IssuedRewardOffered`, `StampRewardsEarned`, `ErasedUnlinkable` | 0.5 M |
| `WebhookDelivery` | a receiver that is paused, moved, removed and added while deliveries are in flight, writes fail and the process stops twice: `OutboxCatchesUp`, `AtLeastOnce`, `RemovedStaysRemoved`, `CycleEnds`, `RestartRetries` | 0.1 M |
| `Tenant` | the services of a tenant with refused saves, rolled back transactions and a stop: `CommittedKept`, `StartupKnowsProgram`, `RunsReportOnce`, `CompletedDelivered`, `ImportsCommitted`, `ScopeNeverWidens`, `LateWritesRefused` | 5.3 M |
| `TenantTimers` | the schedulers: an expired membership lapses (`ExpiredLapses`), a campaign that is due runs (`DueCampaignRuns`) | 0.1 M |
| `CloudDirectory` | organizations, operators, customers, files, the resolver and the wallet, with two callers each: `UsageMatchesEvents`, `BootstrapOnce`, `RotationNeverExtends`, `AccountsResolveOnce`, `DeletedProfileCleared`, `RestoreWhole`, `ResolvesToOne`, `LoginTakenOnce` | 0.8 M |
| `CloudProvisioning` | two instances provision, start, suspend and resume an environment: `EnvironmentSettles`, `NoOrphanPlatform` | 1.1 M |
| `CloudCredentials` | two credentials asked for more than once, with two payloads and stops, beside the tenant's own changes of keys: `ImplementsIssuance`, `AnsweredDurable` | 0.9 M |

Only `WebhookDelivery` checks deadlock. The other runs say `CHECK_DEADLOCK FALSE`: their
clocks, ids and requests are bounded, and a server nobody calls may stop.

Two runs end in a violation, each on one property that quotes a document:

| Run | Property | What happens |
|---|---|---|
| `MembershipLapse` | `ExpiredLapses` | The sweep decides from the engine in memory. After the transaction of a lapse was rolled back, the memory still says *lapsed*, so no later sweep looks at the member; until some other operation reloads the engine, the stored membership stays active. `TenantTimers` shows that such an operation is enough. |
| `StartupRetarget` | `PublishedOffersRewards` | A publish saves its intent before it asks campaigns and engine. After a stop in between, startup takes the saved program over without asking, and drops a reward that is still in use. |

### Bounds, and why they are enough

* Engine. `MaxTime` bounds the clock at four ticks or fewer. A lot and a hold live for two
  ticks and an issued reward for one or two, so every order of the three expiries and the
  calls around them occurs. Two orders and two redemptions let two lots, two holds and one
  reversal compete. Two idempotency keys per business id: the first call and a retry that
  lost its key. Amounts are one to three units at two points for three units of spend, the
  smallest rate at which rounding shows, and a card of two stamps with three stamps an order, so
  that one order fills more than one card. Programs in different currencies partition
  a run into families that do not meet (an order is only accepted in the program's currency);
  `ProgramScenario` bounds each family of `EngineProgram` by itself: programs that follow
  one another need one order and one redemption, stamp cards three orders and no
  redemption, guests no orders. Ids with one key each are interchangeable, hence the symmetry of `EngineRedeem`.
* Dispatcher. One event and one subscription that can take two URLs are enough for an
  attempt in flight to meet a pause, a move, a removal and a return; `MaxAttempts = 2`
  gives one backoff; two crashes give a crash after a restart; `MaxWrites = 1` blocks new
  *calls* while two or more writes wait (a call itself may append several).
* Tenant. Two callers of each service, one stop (`MaxCrashes = 1`: it
  separates a before from an after), one campaign with a member in its holdout, a job with
  one delivery that may be skipped and one that may not, two attempts for each. Two
  programs that can be published, of which one drops a reward and a plan, one that is not valid and one that is
  valid and not compatible; two drafts and
  rollbacks beside the campaigns give a publish followed by another or by a rollback. Without campaigns, where memberships are
  what refuses a program, there are three (`PublishScenario`), and since two revisions are kept the
  history is cut, also after a refused intent. The bound in `StartupKnowsProgram` is tight: with `refusals <= HistoryLimit` the
  run fails. Five attempts of a message are two (`MaxAttempts`): one that
  fails and one that is the last.
* Cloud. Two concurrent callers per directory, and as many ids as they can use. In `MCCloudDirectory` no action of one
  component reads or writes the state of another one, so an invariant of one holds in the
  composition when it holds while the others rest; `Accounts` and `Others` explore just these behaviours. Three calls
  of the resolver are a resolution, its retry and a deletion; in the wallet one login and one session at most
  (`MaxPending`, `MaxSessions`) bring two tabs to both limits.
  Repository and mode are fixed by the initial state. In `CloudProvisioning` one environment, because jobs
  of different environments share only the worker; two instances, because a rollout overlaps
  an old and a new one; four names for starts, since a name is used again once nobody
  refers to it. `Overlaps = {0, 2}` asks for an overlap that would outlive the key.

### Fairness

The engine has no liveness property: nothing happens in it without a call.

* Dispatcher: weak fairness of the steps of each delivery (the request has a timeout,
  the backoff is a timer), of the chain of writes (promises settle; a write may still fail)
  and of the start (the process is restarted). None of calls, of success of a write or of a 2xx answer.
* Tenant: weak fairness of the timers (`setInterval`) and of the steps of what was begun
  (promises settle, with an answer or an error). Strong fairness of the commit of
  a sweep and of a scheduled run: a database that refuses the same transaction every time it is tried
  lets nothing happen. `Spec` adds weak fairness of `Traffic`, that some request loads the engine now
  and then; `IdleSpec` does not, and there `ExpiredLapses` fails.
* Provisioning: weak fairness of the workers, of time (a lease runs out, a backoff ends),
  of starts (they succeed or fail) and of the restart of an instance. None of success.

Stops are bounded everywhere, or nothing could be promised.

### Mutants

Every property of every passing run has a mutant: an operator next to the original
that changes it the way a plausible bug would (`LoadedStale`, `IntendedForgetful`,
`RotationTermsUncapped`, `RecoverableAny`...), under which TLC finds the property violated.

## 4. Proofs

| Theorem | States |
|---|---|
| `EngineProofs!TypeCorrect` | `Spec => []TypeOK` |
| `EngineProofs!BalanceCorrect` | `Spec => []BalanceMatchesLedger` |
| `EngineProofs!LedgerImmutable` | `Spec => LedgerAppendOnly` |
| `EngineHistoryProofs!SettlesOnce` | `Spec => []RedemptionSettledOnce` |
| `EngineHistoryProofs!OrdersAccrueOnce` | `Spec => []AccruedOnce` |
| `EngineHistoryProofs!HeldRewardsClaimable` | `Spec => []HeldRewardClaimable` |
| `EngineHistoryProofs!IssuedRewardsUsedOnce` | `Spec => []IssuedRewardUsedOnce` |
| `EngineHistoryProofs!IssuedRewardsOffered` | `Spec => []IssuedRewardOffered` |
| `EngineHistoryProofs!ErasureHolds` | `Spec => []ErasedUnlinkable` |
| `EngineHistoryProofs!LotsNeverOverspent` | `Spec => []LotsConserved` |
| `EngineHistoryProofs!ClawbackLimited` | `Spec => ClawbackWithinEarnings` |
| `EngineHistoryProofs!NothingIsStranded` | `Spec => []NothingStranded` |
| `WebhookProofs!OutboxCorrect` | `Spec => []OutboxCatchesUp` |
| `WebhookProofs!AtLeastOnceCorrect` | `OwnUrls` implies `Spec => []AtLeastOnce` |
| `WebhookProofs!RemovalHolds` | `Spec => RemovedStaysRemoved` |
| `TenantProofs!CommitsAreKept` | `Spec => []CommittedKept` |
| `TenantProofs!CampaignReportsOnce` | `Spec => []RunsReportOnce` |
| `TenantProofs!CompletedMeansDelivered` | `Spec => []CompletedDelivered` |
| `TenantProofs!ReportedImportsCommitted` | `Spec => []ImportsCommitted` |
| `TenantProofs!FrozenWritesRefused` | `Spec => []LateWritesRefused` |
| `TenantProofs!StartupFindsProgram` | `Spec => []StartupKnowsProgram` |
| `CredentialProofs!AnswersAreDurable` | `Spec => []AnsweredDurable` |
| `CredentialProofs!ScopesNeverWiden` | `Spec => []ScopeNeverWidens` |
| `CredentialProofs!IssuesOneCredential` | `Spec => ImplementsIssuance`, the refinement |
| `CloudAccountProofs!FirstOperatorOnce` | `OperatorsSpec => []BootstrapOnce` |
| `CloudAccountProofs!RotationsBounded` | `OperatorsSpec => []RotationNeverExtends` |
| `CloudAccountProofs!LoginsResolveOnce` | `CustomersSpec => []AccountsResolveOnce` |
| `CloudAccountProofs!DeletionClears` | `CustomersSpec => []DeletedProfileCleared` |
| `CloudAccountProofs!UsageIsWhatWasReported` | `OrganizationsSpec => []UsageMatchesEvents` |
| `CloudServiceProofs!PrincipalResolvesToOne` | `ResolverSpec => []ResolvesToOne` |
| `CloudServiceProofs!OneSessionOfALogin` | `WalletSpec => []LoginTakenOnce` |
| `CloudServiceProofs!RestoresWhole` | `"rm" \notin FailingFiles` implies `LocalSpec => []RestoreWhole` |
| `CloudServiceProofs!NoPlatformLeftBehind` | `Spec => []NoOrphanPlatform` |

The assumptions on the constants are named in the modules that declare them, and TLC
evaluates them on the runs. Apart from types of bounds they say:

* `ProgramAssumption`: programs are valid and published over valid ones; `RequestAssumption`:
  amounts are integers as the schemas demand.
* `IdAssumption`, `AccessAssumption`, `CredentialAssumption`, `HttpAssumption`, `LocalAssumption`,
  `OperatorsAssumption`, `PlaneAssumption`, `LockAssumption`: values of different kinds differ
  (`None` from every id, the scrubbed identity from every identity, the id of a stamp reward from
  every other one, the root key from the keys of people), and each call waits for a save of its own.
* `PlatformAssumption`: the first program is a program, and every program has its offers and plans.
* `OrganizationsAssumption`: the plan everyone starts with is one of the plans, and each has a limit.
* `WebhookAssumption`: events and URLs are finitely many and the boot subscriptions well formed.

**Engine, the book.** The inductive invariant `Good` is `TypeOK`
and `BalanceMatchesLedger` together: the balance only stays right because entries are
well formed and lots never negative, and the types of amounts rest on the ledger's.
`LedgerBookProofs` shows once that a sum over
a concatenation is the sum of the sums (by induction on the length, through the least
counterexample), and from it that `AddLedger`, `ConsumePointLots`,
`RestorePointLots` and `ExpirePointLots` each keep a good book good and only append
(`Continues`). `EngineProofs` then shows that each action moves the book by such
operators, one lemma per group of actions, and that the rest of the state keeps its shape.

**Engine, histories.** `EngineHistoryProofs` adds what the theorems need on top of `Good`,
each part inductive with it. Erasure: the index and the cached answers agree with the
members (`Linked`). Redemptions: the entries of the ledger that name a redemption are exactly those
its status stands for (`Settled`), so that appending entries of another kind or another redemption disturbs nothing.
Accruals: an order has a record exactly when the ledger has its entries, and the answers
remembered under its keys are those entries (`AccruedAs`, `AnsweredAs`). Issued rewards: a reservation that is open holds
a reward that is issued, and a redeemed one has one captured reservation that took it
(`Claims`); expiry and cancellation pass over what is held. Lots: what captured redemptions
consumed of a lot, what expired of it and what is left add up to no more than the entry that opened it
(`LotsGood`); a capture moves from the last to the first, an expiry to the second, and a reversal
gives back only what the capture had recorded. Refunds: the accrual entries of an order are
those its record names (`Recorded`), and an adjustment appends one entry per unit, capped at what those and the
earlier adjustments left (`AdjustmentRow`), so a unit that loses ends no lower than zero. Dropped accounts: an operation for a
member raises no balance but that member's, in accounts of the program (`Credits`, `Lowers`), the member of
a hold is enrolled, and an account is only dropped when every enrolled member's balance in it is zero, so
nobody has a positive balance outside the program (`StrayNow`).

**Dispatcher.** `OutboxCatchesUp` is almost inductive: with the shape of
the state it survives every step because a step either appends puts and adds the same
deliveries to the queue (`InvByPuts`), or appends removals and takes them out
(`InvByRemoves`), or does the first write (`AfterFirst`). `Durable` (a safe
delivery is in the store and in the journal, and no waiting write removes it) is what
a crash and a start need. `AtLeastOnceCorrect` adds `Owing`: what is owed is
queued, and stored while the process is down. It needs `OwnUrls`, that no two
subscription ids are ever given one URL; without it the statement is false (section 5).

**Tenant.** All six theorems are about `Tenant!Spec`, the composition, so every action of
every service is shown harmless to the invariant of each. They share two groups of lemmas. `EngineGood`: the
stored engine only grows, and the memory of whoever holds the lock extends the row, so a
commit loses nothing. The document lemmas (`ChangedFacts`, `StoredFacts`, `RefusedFacts`,
`ReturnedFacts`, `ReloadedFacts`): whatever holds of the memory, the row and the states on
their way to the store (`States`) holds after each step of a save, since none makes a state that was not
one of them. On these stand `RequestsGood` (a request that waits for its commit has its effect in
the memory that will be stored), `ImportsGood`, `EngagementGood` (every copy of a job, those
that runs hold across a wait included, tells only of messages that were taken) and `CampaignsGood`
(a run reports what it added to the engine, so two runs report disjoint sets).
`HttpGood` says of each request what it still has to be refused for.
`ProgramGood` bounds how deep the engine's program can be in each copy of the document that is or may still be
stored: no more revisions down than intents were refused, and one more for the intent in progress. A cut of the history takes the oldest,
so it leaves that program there while fewer intents in a row were refused than revisions are kept. Drafts leave the history
alone; an intent pushes the program down by one, and either its save is refused (which counts), or it is put back, or
its commit makes the new program the engine's. From the stored intent on, every such copy has
the new program active, and the program of whoever holds the lock is the stored one. The condition
`refusals < HistoryLimit` is part of the property and not of the theorem's assumptions: a
publish whose first save is refused still moves the history in memory, and twenty of these in a row push the engine's program
out of it (section 5).

**Access control and credentials.** `AccessGood`: the row is `Below` the memory (no key is lost, no
revocation taken back), and a save that would be accepted is between the two; an answered key is in the row.
`IssuanceGood` adds what a record of an operation and each flight may rely on. The refinement maps each
operation to its state and to the keys that were handed over; the initial state maps to the initial one,
and each action to a step of `CredentialIssuance` or a stutter.

**Control plane.** What a caller read before a wait is still true when it is used, or the
transaction reads again: operators are never removed and a lineage keeps the expiry it was granted
(`OperatorsGood`), a report counts just the events that are new and records them in the same
transaction (`OrganizationsGood`, with sums over finite sets in `SumOf`), customers keep their row
(`CustomersGood`), a link never changes and a customer gets no second wallet (`ResolverGood`), a login state is in one place only (`WalletGood`), the files moved aside and
those moved in add up to two whole sets at every step of a restore (`LocalGood`), and a start that has a
platform is registered or known to whoever closes it (`PlaneGood`).
`RestoresWhole` needs `"rm" \notin FailingFiles`, that no removal of a file moved aside fails; section 5 says what
happens otherwise. `RestoreWhole` itself leaves out a restore that was disturbed (`torn`): by a stop, by another
operation, or by a second failure, of the error path.

**Only model-checked.** Liveness under fairness (`CycleEnds`, `RestartRetries`, `ExpiredLapses`, `DueCampaignRuns`,
`EnvironmentSettles`) is out of the prover's reach. `StampRewardsEarned` and
`RefundUsesOriginalMultiplier` are true of the programs and ids of their runs and not of all: the code counts a card's
rewards by an id prefix that a namesake shares, a program with another threshold counts
the same stamps anew, and a full refund takes back what its own delta is worth at the rates of the day, which is the
whole accrual only when the delta is the order's spend and the rates are still those.

## 5. What the code does that a reader may not expect

Besides the two findings, modelling came across behaviour that differs from a document, or
that no document decides. The models take these steps; no run is about them.

* A hold does not reserve lots: points that expire before the capture are gone, and the
  capture is rejected (`packages/reference/src/engine.ts:2215`, `spec/lifecycle.md:37`).
* A program may drop an account with zero balances although a captured redemption was paid from
  it; its reversal then fails (`engine.ts:372`, `spec/core.md:67`). And it may drop one with lots still open, when a
  refund below zero has been earned back: they expire later, into a negative balance of an account that is gone
  (`engine.ts:2215`).
* The reset of a stamp card does not consume lots, so spent stamps expire again
  (`engine.ts:1926`, `spec/account-experience.md:43`). Rewards of a card are counted by an id
  prefix that another member's id may share (`engine.ts:1896`).
* Two subscriptions with one URL share their deliveries: removing one drops what the other is
  owed (`packages/server/src/webhooks.ts:406`, `docs/webhook-delivery.md:83`).
* A publish whose first save is refused leaves its program and the longer history in memory; after 20 of these in a row the
  next save stores a document that does not know the engine's program, and startup fails (`program-management.ts:388`, `:403`).
* A restore whose last removal fails deletes the database it restored, the old one being gone already
  (`data-plane-provisioner.ts:622`). An error path that fails in turn leaves the files half-way (`:624`).
* A close that fails, and a rotation that ends after a suspend or a backup stopped the runtime, leave a closed runtime
  registered (`data-plane-provisioner.ts:463`, `:694`): to suspend it is an error, and so are resume, backup and restore until the
  process starts again.
* Two publishes that overlap: the error path of one puts back a document older than both
  (`program-management.ts:407`).
* A report may be made of an engine of one revision and a program of another
  (`platform.ts:500`, `docs/postgres.md:93`).
* A renewal granted while a sweep or a change of status waits is lapsed or overwritten (`memberships.ts:138`, `:155`).
* A campaign paused while its run waits is completed by the run (`campaigns.ts:490`), and a
  campaign set active after its start is never picked up by the scheduler
  (`docs/reference-platform.md:186`).
* A message job that was running at a stop, or whose save was refused, stays *running*, and the
  scheduler does not take it up again (`engagement.ts:413`, `:499`).
* A write that was past its lookups when the freeze or the revocation came is carried out; the session of a
  revoked key goes on until its next lookup (`server.ts:2546`).
* The guard for the last platform administrator is only asked for when the operator was active at the first
  read (`apps/cloud/src/operator-service.ts:254`, `docs/cloud.md:302`).
* A stop between the issue of a merchant key and its record leaves a live key that nobody knows
  (`credential-operations.ts:421`), so there may be more than one standing merchant key
  (`managed-data-plane.ts:354`). A runtime may outlive the status *suspended* for a while (`managed-data-plane.ts:215`).
* The protection of an owner's membership is checked on a read before the transaction that
  changes it (`apps/cloud/src/service.ts:267`); consent set during a deletion stays granted (`docs/cloud-customer-identity.md:107`).
* A resolution that waits for the enrolment while its customer is deleted links the member afterwards, and that member is
  not cancelled (`packages/identity/src/directory.ts:305`, `:241`). A wallet request that reads its body while
  the session is signed out is still forwarded (`apps/wallet/src/server.ts:428`).
* A refund that arrives before the accrual of its order is not clamped (`engine.ts:982`).
* On SQLite, events are emitted before the state is saved.

## 6. Not modelled

* The SQLite platform: one process and one file, the same services with a save in place
  of a transaction. Location records: one document with one save per change, like those that
  are modelled.
* Location reports, dashboards and lists: they only read.
* `migration.ts` and the migration of members copy a stopped tenant or repeat calls that are idempotent by
  key; the telemetry heartbeat is a request that changes nothing.
* Verification of tokens, signatures, encryption, outbound address checks: cryptography and parsing; their answer is a choice.
* SDK, MCP, adapters, protocol schemas: they translate requests. The admin application is a user interface.
* Audit logs, metrics, text of errors, SQL and its migrations, container commands.

## 7. Running

```
tlc -workers 2 -config EngineRedeem.cfg MCEngine
tlc -workers 2 -config WebhookDelivery.cfg MCWebhook
tlc -workers 2 -config Tenant.cfg MCTenant
tlc -workers 2 -config CloudDirectory.cfg MCCloudDirectory
tlc -workers 2 -config CloudProvisioning.cfg MCCloudProvisioning
tlc -workers 2 -config CloudCredentials.cfg MCCredentials
tlapm LedgerBookProofs.tla
tlapm EngineProofs.tla
tlapm EngineHistoryProofs.tla
tlapm WebhookProofs.tla
tlapm TenantProofs.tla
tlapm CredentialProofs.tla
tlapm CloudAccountProofs.tla
tlapm CloudServiceProofs.tla
```
