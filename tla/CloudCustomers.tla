---------------------------- MODULE CloudCustomers ----------------------------
(* Managed customer accounts of one tenant: sign-in through an external    *)
(* identity provider, profile, consent, linked identities, the loyalty     *)
(* membership and account deletion.  Every request first resolves its      *)
(* token to a customer, reads the customer, and then writes: other         *)
(* requests run between the steps.                                         *)
EXTENDS Common

CONSTANTS Logins,       \* (issuer, subject) pairs of the identity providers
          CustomerIds,  \* ids makeCustomerId returns
          MemberIds,    \* member ids of the loyalty program
          Visitors,     \* requests that may be in progress at once
          Databases     \* {"postgres", "memory"}: the repository in use

VARIABLES database,     \* the repository in use
          customers,    \* id -> [status, profile]
          identities,   \* login -> [customer, active]
          consents,     \* id -> status, for one purpose
          memberships,  \* id -> member, for one program
          enrolled,     \* member the loyalty provider gave to an idempotency key (a customer)
          visits        \* the request each visitor has in progress

accountState == <<customers, identities, consents, memberships, enrolled>>
customerVars == <<database, accountState, visits>>

Operations == {"updateProfile", "setConsent", "linkIdentity", "enroll", "delete"}
Nobody == [stage |-> "idle"]
Active(id) == customers[id].status = "active"
FreshCustomers == CustomerIds \ DOMAIN customers

-------------------------------------------------------------------------------
(* verifySession and assertVerifiedIdentity: the login a token stands for. *)
(* A token that is refused, or a provider that is down, ends the request.  *)
VerifySession == Logins

Identify(v) ==
  /\ visits[v] = Nobody
  /\ \E l \in VerifySession, o \in Operations :
       visits' = [visits EXCEPT ![v] = [stage |-> "resolve", login |-> l, op |-> o]]
  /\ UNCHANGED <<database, accountState>>

(* A resolved session is refused when the account is deleted or the        *)
(* identity disabled.                                                      *)
Session(v, id, active) ==
  visits' = [visits EXCEPT ![v] =
    IF active THEN [stage |-> "session", op |-> visits[v].op, id |-> id] ELSE Nobody]

CreateCustomer(id, l) ==
  /\ customers' = Put(customers, id, [status |-> "active", profile |-> "verified"])
  /\ identities' = Put(identities, l, [customer |-> id, active |-> TRUE])
Resolved(v, l) ==
  LET i == identities[l]
  IN  Session(v, i.customer, i.active /\ Active(i.customer))

(* resolveOrCreate in memory is one step. *)
MemResolveOrCreate(v) ==
  LET l == visits[v].login
  IN  \/ l \in DOMAIN identities /\ Resolved(v, l) /\ UNCHANGED accountState
      \/ /\ l \notin DOMAIN identities
         /\ \E id \in FreshCustomers : CreateCustomer(id, l) /\ Session(v, id, TRUE)
         /\ UNCHANGED <<consents, memberships, enrolled>>

(* On Postgres the identity is looked up, and an unknown one is inserted   *)
(* with its customer by a later transaction; a unique violation rolls both *)
(* back and reads what the other request inserted.                         *)
PgIdentityByKey(v) ==
  LET l == visits[v].login
  IN  /\ \/ l \in DOMAIN identities /\ Resolved(v, l)
         \/ l \notin DOMAIN identities /\ visits' = [visits EXCEPT ![v].stage = "insert"]
      /\ UNCHANGED accountState
PgResolveOrCreateOrphaned(v) ==  \* mutant: the customer is not rolled back
  LET l == visits[v].login
  IN  /\ visits[v].stage = "insert"
      /\ \E id \in FreshCustomers :
           /\ customers' = Put(customers, id, [status |-> "active", profile |-> "verified"])
           /\ identities' = IF l \in DOMAIN identities THEN identities
                            ELSE Put(identities, l, [customer |-> id, active |-> TRUE])
           /\ Session(v, id, TRUE)
      /\ UNCHANGED <<database, consents, memberships, enrolled>>
PgResolveOrCreate(v) ==
  LET l == visits[v].login
  IN  /\ visits[v].stage = "insert"
      /\ \/ /\ l \notin DOMAIN identities
            /\ \E id \in FreshCustomers : CreateCustomer(id, l) /\ Session(v, id, TRUE)
         \/ l \in DOMAIN identities /\ Resolved(v, l) /\ UNCHANGED <<customers, identities>>
      /\ UNCHANGED <<database, consents, memberships, enrolled>>

Resolve(v) ==
  /\ visits[v].stage = "resolve"
  /\ \/ database = "memory" /\ MemResolveOrCreate(v)
     \/ database = "postgres" /\ PgIdentityByKey(v)
  /\ UNCHANGED database

-------------------------------------------------------------------------------
(* activeCustomer, or customerForSession for a deletion, and what the      *)
(* operation reads before it writes.  enrollLoyalty returns a membership   *)
(* that exists.                                                            *)
ActiveCustomer(id) == Active(id)
Read(v) ==
  /\ visits[v].stage = "session"
  /\ LET id == visits[v].id
         op == visits[v].op
         go == op = "delete" \/ (ActiveCustomer(id) /\ ~(op = "enroll" /\ id \in DOMAIN memberships))
     IN  visits' = [visits EXCEPT ![v] =
           IF go THEN [stage |-> "write", op |-> op, id |-> id, status |-> customers[id].status]
           ELSE Nobody]
  /\ UNCHANGED <<database, accountState>>

Writing(v, op) == visits[v].stage = "write" /\ visits[v].op = op
Finish(v) == visits' = [visits EXCEPT ![v] = Nobody] /\ UNCHANGED database

(* replaceProfile: on Postgres only of an active customer. *)
MemReplaceProfile(id) == customers' = [customers EXCEPT ![id].profile = "edited"]
PgReplaceProfileOfAny(id) == MemReplaceProfile(id)  \* mutant: no condition on the status
PgReplaceProfile(id) ==
  customers' = IF Active(id) THEN [customers EXCEPT ![id].profile = "edited"] ELSE customers
UpdateProfile(v) ==
  /\ Writing(v, "updateProfile")
  /\ \/ database = "postgres" /\ PgReplaceProfile(visits[v].id)
     \/ database = "memory" /\ MemReplaceProfile(visits[v].id)
  /\ Finish(v)
  /\ UNCHANGED <<identities, consents, memberships, enrolled>>

(* setConsent asks for no status.  The memory repository answers this and  *)
(* the next two operations like Postgres.                                  *)
PgSetConsent(id, s) == consents' = Put(consents, id, s)
MemSetConsent(id, s) == PgSetConsent(id, s)
SetConsent(v) ==
  /\ Writing(v, "setConsent")
  /\ \E s \in {"granted", "denied", "withdrawn"} :
       \/ database = "postgres" /\ PgSetConsent(visits[v].id, s)
       \/ database = "memory" /\ MemSetConsent(visits[v].id, s)
  /\ Finish(v)
  /\ UNCHANGED <<customers, identities, memberships, enrolled>>

(* linkIdentity: a second verified login; one that is linked already keeps *)
(* its customer.                                                           *)
PgLinkIdentity(id, l) ==
  identities' = IF l \in DOMAIN identities THEN identities
                ELSE Put(identities, l, [customer |-> id, active |-> TRUE])
MemLinkIdentity(id, l) == PgLinkIdentity(id, l)
LinkIdentity(v) ==
  /\ Writing(v, "linkIdentity")
  /\ \E l \in VerifySession :
       \/ database = "postgres" /\ PgLinkIdentity(visits[v].id, l)
       \/ database = "memory" /\ MemLinkIdentity(visits[v].id, l)
  /\ Finish(v)
  /\ UNCHANGED <<customers, consents, memberships, enrolled>>

(* The loyalty provider answers a repeated idempotency key with the member *)
(* it gave before; it may be unavailable.                                  *)
LoyaltyEnroll(v) ==
  LET id == visits[v].id
  IN  /\ Writing(v, "enroll")
      /\ \/ /\ \E m \in IF id \in DOMAIN enrolled THEN {enrolled[id]} ELSE MemberIds :
                 enrolled' = Put(enrolled, id, m)
            /\ visits' = [visits EXCEPT ![v].stage = "bind"]
         \/ visits' = [visits EXCEPT ![v] = Nobody] /\ UNCHANGED enrolled
      /\ UNCHANGED <<database, customers, identities, consents, memberships>>

(* bindLoyaltyMembership: the first membership of a customer stays, and a  *)
(* member belongs to one customer.                                         *)
PgBindLoyaltyMembership(id, m) ==
  LET taken == id \in DOMAIN memberships \/ \E c \in DOMAIN memberships : memberships[c] = m
  IN  memberships' = IF taken THEN memberships ELSE Put(memberships, id, m)
MemBindLoyaltyMembership(id, m) == PgBindLoyaltyMembership(id, m)
BindLoyaltyMembership(v) ==
  LET id == visits[v].id
  IN  /\ visits[v].stage = "bind"
      /\ \/ database = "postgres" /\ PgBindLoyaltyMembership(id, enrolled[id])
         \/ database = "memory" /\ MemBindLoyaltyMembership(id, enrolled[id])
      /\ Finish(v)
      /\ UNCHANGED <<customers, identities, consents, enrolled>>

(* deleteCustomer, one transaction; memberships are retained.  Deletion at *)
(* the providers follows and changes nothing here.                         *)
PgDeleteCustomer(id) ==
  /\ customers' = [customers EXCEPT ![id] = [status |-> "deleted", profile |-> None]]
  /\ identities' = [l \in DOMAIN identities |->
       IF identities[l].customer = id THEN [identities[l] EXCEPT !.active = FALSE]
       ELSE identities[l]]
  /\ consents' = [c \in DOMAIN consents |-> IF c = id THEN "withdrawn" ELSE consents[c]]
MemDeleteCustomer(id) ==  \* nothing more of one that another visit deleted meanwhile
  IF customers[id].status = "deleted" THEN UNCHANGED <<customers, identities, consents>>
  ELSE PgDeleteCustomer(id)
DeleteAccount(v) ==
  /\ Writing(v, "delete")
  /\ \/ visits[v].status = "deleted" /\ UNCHANGED <<customers, identities, consents>>
     \/ visits[v].status # "deleted" /\ database = "postgres" /\ PgDeleteCustomer(visits[v].id)
     \/ visits[v].status # "deleted" /\ database = "memory" /\ MemDeleteCustomer(visits[v].id)
  /\ Finish(v)
  /\ UNCHANGED <<memberships, enrolled>>

CustomersInit ==
  /\ database \in Databases
  /\ customers = << >> /\ identities = << >> /\ consents = << >>
  /\ memberships = << >> /\ enrolled = << >>
  /\ visits = [v \in Visitors |-> Nobody]

CustomersNext ==
  \E v \in Visitors :
    \/ Identify(v) \/ Resolve(v) \/ PgResolveOrCreate(v) \/ Read(v)
    \/ UpdateProfile(v) \/ SetConsent(v) \/ LinkIdentity(v)
    \/ LoyaltyEnroll(v) \/ BindLoyaltyMembership(v) \/ DeleteAccount(v)

CustomersSpec == CustomersInit /\ [][CustomersNext]_customerVars

-------------------------------------------------------------------------------
(* Two first sign-ins with the same login at the same time leave one       *)
(* customer and no orphan, and a member id never ends up with two          *)
(* customers.                                                              *)
AccountsResolveOnce ==
  /\ \A l \in DOMAIN identities : identities[l].customer \in DOMAIN customers
  /\ \A c \in DOMAIN customers : \E l \in DOMAIN identities : identities[l].customer = c
  /\ \A c, d \in DOMAIN memberships : memberships[c] = memberships[d] => c = d

(* docs/cloud-customer-identity.md:107 "clears profile PII": on Postgres a *)
(* profile that was being edited does not come back after the account was  *)
(* deleted, and a deleted account stays deleted.                           *)
DeletedProfileCleared ==
  database = "postgres" =>
    \A c \in DOMAIN customers : customers[c].status = "deleted" => customers[c].profile = None
===============================================================================
