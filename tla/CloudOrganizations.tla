-------------------------- MODULE CloudOrganizations --------------------------
(* Organizations of the cloud control plane: memberships, invitations,     *)
(* projects, the billing subscription and metered usage.  A method of the  *)
(* service authorizes its caller and reads what it needs (an Ask action),  *)
(* and then runs one repository transaction (a Commit action); calls of    *)
(* other clients run in between.  Each project stands for its one          *)
(* environment, whose provisioning is modelled in CloudProvisioning.       *)
EXTENDS Common, FiniteSetsExt

CONSTANTS Users,       \* verified subjects
          EmailOf,     \* [Users -> email claims]
          Admins,      \* subjects that are platform-admin operators
          ScopeOf,     \* [Users -> organizations of an org-scoped operator]
          Orgs, Slugs, Projects, Invitations,
          GrantRoles,  \* roles other than owner that are granted
          HardLimit,   \* [plan -> hard limit of the metric]
          FreePlan,    \* the default plan
          Stripe,      \* subscription ids of the billing provider
          UsageKeys, Quantities, Months,
          Callers,     \* calls that may be in progress at once
          Repositories, \* {"postgres", "memory"}
          MaxDay,      \* bound on the clock
          MaxCalls     \* bound on the transactions of a behaviour

Plans == DOMAIN HardLimit

(* The hard limit of a plan and the quantity of an event are counts, and   *)
(* the default plan is one of the plans.                                   *)
ASSUME OrganizationsAssumption ==
  /\ HardLimit \in [Plans -> Nat] /\ FreePlan \in Plans
  /\ Quantities \subseteq Nat

VARIABLES repository,  \* the repository in use
          day,         \* the clock
          orgs,        \* organization -> slug
          members,     \* <<organization, user>> -> [role, active]
          invitations, \* id -> [org, email, role, expires, accepted]
          projects,    \* project -> [org, slug]
          subscriptions, \* organization -> [plan, status, bound]
          checkouts,   \* checkouts opened at the provider: <<organization, plan>>
          usageEvents, \* <<project, key>> -> [month, quantity]
          usageCounters, \* <<project, month>> -> quantity
          asks,        \* the call each caller has in progress
          served       \* transactions so far

organizationState == <<orgs, members, invitations, projects, subscriptions, checkouts,
                       usageEvents, usageCounters>>
organizationVars == <<repository, day, organizationState, asks, served>>

Quiet == [op |-> "none"]
managementRoles == {"owner", "admin"}
billingRoles == {"owner", "admin", "billing"}

-------------------------------------------------------------------------------
(* requiredMembership: a platform-admin acts as owner everywhere, an       *)
(* org-scoped operator at least as admin in its scope, anyone else by its  *)
(* stored membership.                                                      *)
VirtualRole(u, o) == IF u \in Admins THEN "owner" ELSE IF o \in ScopeOf[u] THEN "admin" ELSE None
MembershipRole(u, o) ==
  LET virtual == VirtualRole(u, o)
      stored  == <<o, u>> \in DOMAIN members /\ members[<<o, u>>].active
  IN  IF u \notin Admins /\ stored /\ (virtual = None \/ members[<<o, u>>].role = "owner")
      THEN members[<<o, u>>].role ELSE virtual
RequireRole(u, o, roles) == MembershipRole(u, o) \in roles

SlugTaken(s) == \E o \in DOMAIN orgs : orgs[o] = s
ProjectSlugTaken(o, s) == \E p \in DOMAIN projects : projects[p].org = o /\ projects[p].slug = s

(* A call that passed its checks waits for its transaction. *)
Ask(c, call) ==
  /\ asks[c] = Quiet
  /\ served < MaxCalls
  /\ asks' = [asks EXCEPT ![c] = call]
  /\ UNCHANGED <<repository, day, organizationState, served>>

(* createOrganization *)
AskOrganization(c) ==
  \E u \in Users, s \in Slugs :
    ~SlugTaken(s) /\ Ask(c, [op |-> "organization", user |-> u, slug |-> s])

(* updateMember: the membership of an owner is refused. *)
AskMember(c) ==
  \E u, t \in Users, o \in DOMAIN orgs, r \in GrantRoles \cup {None}, a \in BOOLEAN \cup {None} :
    /\ RequireRole(u, o, managementRoles)
    /\ r # None \/ a # None
    /\ <<o, t>> \in DOMAIN members /\ members[<<o, t>>].role # "owner"
    /\ Ask(c, [op |-> "member", at |-> <<o, t>>, role |-> r, active |-> a])

(* inviteMember *)
AskInvitation(c) ==
  \E u, t \in Users, o \in DOMAIN orgs, r \in GrantRoles, e \in 1 .. MaxDay + 1 :
    /\ RequireRole(u, o, managementRoles)
    /\ e > day
    /\ Ask(c, [op |-> "invitation", org |-> o, email |-> EmailOf[t], role |-> r, expires |-> e])

(* createProject *)
AskProject(c) ==
  \E u \in Users, o \in DOMAIN orgs, s \in Slugs :
    /\ RequireRole(u, o, managementRoles)
    /\ ~ProjectSlugTaken(o, s)
    /\ Ask(c, [op |-> "project", org |-> o, slug |-> s])

(* recordUsage: the plan's hard limit is read before the transaction. *)
AskUsage(c) ==
  \E u \in Users, p \in DOMAIN projects, k \in UsageKeys, q \in Quantities, m \in Months :
    LET o == projects[p].org IN
    /\ RequireRole(u, o, managementRoles)
    /\ subscriptions[o].status = "active"
    /\ Ask(c, [op |-> "usage", project |-> p, key |-> k, quantity |-> q, month |-> m,
               limit |-> HardLimit[subscriptions[o].plan]])

(* createBillingCheckout: only a priced plan has a checkout. *)
CreateBillingCheckout(c) ==
  /\ \E u \in Users, o \in DOMAIN orgs, p \in Plans \ {FreePlan} :
       /\ RequireRole(u, o, billingRoles)
       /\ <<o, p>> \notin checkouts
       /\ checkouts' = checkouts \cup {<<o, p>>}
  /\ asks[c] = Quiet
  /\ UNCHANGED <<repository, day, orgs, members, invitations, projects, subscriptions,
                 usageEvents, usageCounters, asks, served>>

(* persistBillingUpdate: the subscription of another checkout is refused.  *)
BindingAllows(o, x) == subscriptions[o].bound \in {None, x}
BillingUpdate(o, p, x, s) ==
  [op |-> "billing", org |-> o, to |-> [plan |-> p, status |-> s, bound |-> x]]

(* applyBillingWebhook: the provider reports a subscription of a checkout, *)
(* in any order and more than once.                                        *)
SubscriptionStatus == {"active", "past_due", "cancelled"}
AskBillingWebhook(c) ==
  \E ck \in checkouts, x \in Stripe, s \in SubscriptionStatus :
    BindingAllows(ck[1], x) /\ Ask(c, BillingUpdate(ck[1], ck[2], x, s))

(* cancelBillingSubscription: cancelled at the provider first, then        *)
(* persisted from a second read.                                           *)
AskCancel(c) ==
  \E u \in Users, o \in DOMAIN orgs :
    /\ RequireRole(u, o, billingRoles)
    /\ subscriptions[o].bound # None
    /\ Ask(c, [op |-> "cancelled", org |-> o, was |-> subscriptions[o]])
PersistCancel(c) ==
  /\ asks[c].op = "cancelled"
  /\ LET o == asks[c].org
         was == asks[c].was
     IN  asks' = [asks EXCEPT ![c] =
           IF BindingAllows(o, was.bound)
           THEN BillingUpdate(o, was.plan, was.bound, "cancelled") ELSE Quiet]
  /\ UNCHANGED <<repository, day, organizationState, served>>

-------------------------------------------------------------------------------
(* The transactions.  The memory repository awaits its own slug lookup     *)
(* before it inserts, so an insert of another call may come in between:    *)
(* there the check is the one made when the call was asked.                *)
AddOrganization(o, call) ==
  /\ orgs' = Put(orgs, o, call.slug)
  /\ members' = Put(members, <<o, call.user>>, [role |-> "owner", active |-> TRUE])
  /\ subscriptions' = Put(subscriptions, o, [plan |-> FreePlan, status |-> "active", bound |-> None])
  /\ UNCHANGED <<invitations, projects, checkouts, usageEvents, usageCounters>>
PgCreateOrganization(call) ==
  ~SlugTaken(call.slug) /\ \E o \in Orgs \ DOMAIN orgs : AddOrganization(o, call)
MemCreateOrganization(call) == \E o \in Orgs \ DOMAIN orgs : AddOrganization(o, call)

(* updateMembership: no condition but that the row exists. *)
PgUpdateMembership(call) ==
  /\ members' = [members EXCEPT ![call.at] =
       [role |-> IF call.role = None THEN @.role ELSE call.role,
        active |-> IF call.active = None THEN @.active ELSE call.active]]
  /\ UNCHANGED <<orgs, invitations, projects, subscriptions, checkouts, usageEvents, usageCounters>>

(* createInvitation: one invitation that nobody accepted for each email. *)
PgCreateInvitation(call) ==
  /\ ~\E i \in DOMAIN invitations :
        invitations[i].org = call.org /\ invitations[i].email = call.email /\ ~invitations[i].accepted
  /\ \E i \in Invitations \ DOMAIN invitations :
       invitations' = Put(invitations, i,
         [org |-> call.org, email |-> call.email, role |-> call.role,
          expires |-> call.expires, accepted |-> FALSE])
  /\ UNCHANGED <<orgs, members, projects, subscriptions, checkouts, usageEvents, usageCounters>>

AddProject(p, call) ==
  /\ projects' = Put(projects, p, [org |-> call.org, slug |-> call.slug])
  /\ UNCHANGED <<orgs, members, invitations, subscriptions, checkouts, usageEvents, usageCounters>>
PgCreateProject(call) ==
  ~ProjectSlugTaken(call.org, call.slug) /\ \E p \in Projects \ DOMAIN projects : AddProject(p, call)
MemCreateProject(call) == \E p \in Projects \ DOMAIN projects : AddProject(p, call)

PgReplaceSubscription(call) ==
  /\ subscriptions' = [subscriptions EXCEPT ![call.org] = call.to]
  /\ UNCHANGED <<orgs, members, invitations, projects, checkouts, usageEvents, usageCounters>>

(* recordUsage, under an advisory lock: a key counts once, and the counter *)
(* stays within the limit the call read.                                   *)
Used(p, m) == IF <<p, m>> \in DOMAIN usageCounters THEN usageCounters[<<p, m>>] ELSE 0
PgRecordUsageRepeated(call) ==  \* mutant: the key of an event is not checked
  LET p == call.project
      m == call.month
  IN  /\ Used(p, m) + call.quantity <= call.limit
      /\ usageEvents' = Put(usageEvents, <<p, call.key>>, [month |-> m, quantity |-> call.quantity])
      /\ usageCounters' = Put(usageCounters, <<p, m>>, Used(p, m) + call.quantity)
      /\ UNCHANGED <<orgs, members, invitations, projects, subscriptions, checkouts>>
PgRecordUsage(call) ==
  LET p == call.project
      m == call.month
  IN  /\ <<p, call.key>> \notin DOMAIN usageEvents
      /\ Used(p, m) + call.quantity <= call.limit
      /\ usageEvents' = Put(usageEvents, <<p, call.key>>, [month |-> m, quantity |-> call.quantity])
      /\ usageCounters' = Put(usageCounters, <<p, m>>, Used(p, m) + call.quantity)
      /\ UNCHANGED <<orgs, members, invitations, projects, subscriptions, checkouts>>

(* The other methods of the memory repository check and change in one step *)
(* without an await, which is what the transactions do.                    *)
MemUpdateMembership(call) == PgUpdateMembership(call)
MemCreateInvitation(call) == PgCreateInvitation(call)
MemReplaceSubscription(call) == PgReplaceSubscription(call)
MemRecordUsage(call) == PgRecordUsage(call)

Transaction(call) ==
  \/ /\ repository = "postgres"
     /\ \/ call.op = "organization" /\ PgCreateOrganization(call)
        \/ call.op = "member" /\ PgUpdateMembership(call)
        \/ call.op = "invitation" /\ PgCreateInvitation(call)
        \/ call.op = "project" /\ PgCreateProject(call)
        \/ call.op = "billing" /\ PgReplaceSubscription(call)
        \/ call.op = "usage" /\ PgRecordUsage(call)
  \/ /\ repository = "memory"
     /\ \/ call.op = "organization" /\ MemCreateOrganization(call)
        \/ call.op = "member" /\ MemUpdateMembership(call)
        \/ call.op = "invitation" /\ MemCreateInvitation(call)
        \/ call.op = "project" /\ MemCreateProject(call)
        \/ call.op = "billing" /\ MemReplaceSubscription(call)
        \/ call.op = "usage" /\ MemRecordUsage(call)

(* A call commits; or it answers a conflict, a duplicate or an exceeded    *)
(* limit, or its connection fails, and it is rolled back.                  *)
CommitCall(c) ==
  /\ asks[c] # Quiet /\ asks[c].op # "cancelled"
  /\ \/ Transaction(asks[c])
     \/ UNCHANGED organizationState
  /\ asks' = [asks EXCEPT ![c] = Quiet]
  /\ served' = served + 1
  /\ UNCHANGED <<repository, day>>

(* acceptInvitation is one transaction that locks the invitation: the      *)
(* membership of whoever holds the email is inserted, or overwritten.      *)
PgAcceptInvitation(i, u) ==
  LET it == invitations[i]
  IN  /\ ~it.accepted /\ it.expires > day /\ it.email = EmailOf[u]
      /\ members' = Put(members, <<it.org, u>>, [role |-> it.role, active |-> TRUE])
      /\ invitations' = [invitations EXCEPT ![i].accepted = TRUE]
MemAcceptInvitation(i, u) == PgAcceptInvitation(i, u)
AcceptInvitation ==
  /\ served < MaxCalls
  /\ \E i \in DOMAIN invitations, u \in Users :
       \/ repository = "postgres" /\ PgAcceptInvitation(i, u)
       \/ repository = "memory" /\ MemAcceptInvitation(i, u)
  /\ served' = served + 1
  /\ UNCHANGED <<repository, day, orgs, projects, subscriptions, checkouts, usageEvents,
                 usageCounters, asks>>

NextDay ==
  /\ day < MaxDay
  /\ day' = day + 1
  /\ UNCHANGED <<repository, organizationState, asks, served>>

OrganizationsInit ==
  /\ repository \in Repositories
  /\ day = 0
  /\ orgs = << >> /\ members = << >> /\ invitations = << >> /\ projects = << >>
  /\ subscriptions = << >> /\ checkouts = {} /\ usageEvents = << >> /\ usageCounters = << >>
  /\ asks = [c \in Callers |-> Quiet]
  /\ served = 0

OrganizationsNext ==
  \/ NextDay \/ AcceptInvitation
  \/ \E c \in Callers :
       \/ AskOrganization(c) \/ AskMember(c) \/ AskInvitation(c) \/ AskProject(c) \/ AskUsage(c)
       \/ CreateBillingCheckout(c) \/ AskBillingWebhook(c) \/ AskCancel(c) \/ PersistCancel(c)
       \/ CommitCall(c)

OrganizationsSpec == OrganizationsInit /\ [][OrganizationsNext]_organizationVars

-------------------------------------------------------------------------------
(* Usage reported concurrently, twice, late or while the plan changes: the *)
(* counter of a month is the sum of the events that were stored for it,    *)
(* and never above what some plan allows.                                  *)
UsageMatchesEvents ==
  \A p \in DOMAIN projects, m \in Months :
    /\ Used(p, m) = MapThenSumSet(LAMBDA e : usageEvents[e].quantity,
                                 {e \in DOMAIN usageEvents : e[1] = p /\ usageEvents[e].month = m})
    /\ \E plan \in Plans : Used(p, m) <= HardLimit[plan]
===============================================================================
