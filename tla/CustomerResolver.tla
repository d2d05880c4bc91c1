---------------------------- MODULE CustomerResolver ----------------------------
(* The identity package: a principal that an identity provider has         *)
(* authenticated is resolved to one customer of the application, and the   *)
(* customer to one member of the loyalty program.  Every call of the       *)
(* repository and of the platform is awaited, so that resolutions, links   *)
(* and deletions of one customer overlap; each may fail and be repeated.   *)
(* One tenant and one program.                                             *)
EXTENDS Common

CONSTANTS Persons,   \* (issuer, subject) pairs
          DirectoryIds, \* the ids the application makes for customers
          WalletIds,    \* the ids the platform makes for members
          Seekers,      \* calls in progress at once
          MaxSeeks      \* bound on the calls of a behaviour

VARIABLES directory,    \* [customers: id -> status, links: principal -> id, members: id -> member]
          wallets,      \* the platform: member -> [customer: its external identity, active]
          seeks,        \* the call of each seeker
          resolutions,  \* {<<principal, id, member>>} that were answered
          sought

resolverState == <<directory, wallets, resolutions>>
resolverVars == <<resolverState, seeks, sought>>
NotSeeking == [stage |-> "idle"]
Seeks(c, stage) == seeks[c].stage = stage
Seek(c, call) == seeks' = [seeks EXCEPT ![c] = call]
NewIds == DirectoryIds \ DOMAIN directory.customers

-------------------------------------------------------------------------------
(* resolveOrCreateCustomer: the customer and the link of its identity are  *)
(* made in one operation of the repository.                                *)
Begun(c) == seeks[c] = NotSeeking /\ sought < MaxSeeks /\ sought' = sought + 1
CreatedFor(p, id) ==
  [directory EXCEPT !.customers = Put(@, id, "active"), !.links = Put(@, p, id)]
ResolveOrCreateAlways(p, id) ==  \* mutant: the identity is not looked up
  id \in NewIds /\ directory' = CreatedFor(p, id)
ResolveOrCreate(p, id) ==
  \/ p \in DOMAIN directory.links /\ id = directory.links[p] /\ UNCHANGED directory
  \/ p \notin DOMAIN directory.links /\ id \in NewIds /\ directory' = CreatedFor(p, id)
ResolvePerson(c) ==
  /\ Begun(c)
  /\ \E p \in Persons, id \in DirectoryIds :
       /\ ResolveOrCreate(p, id)
       /\ Seek(c, IF directory'.customers[id] = "deleted" THEN NotSeeking
                  ELSE [stage |-> "lookup", principal |-> p, id |-> id])
  /\ UNCHANGED <<wallets, resolutions>>

(* The member the customer is linked to, or an enrolment under a key that  *)
(* is made of the customer: a repeated one is answered with the member.    *)
Answered(c, m) == resolutions' = resolutions \cup {<<seeks[c].principal, seeks[c].id, m>>}
MemberLink(c) ==
  LET id == seeks[c].id IN
  /\ Seeks(c, "lookup")
  /\ \/ /\ id \in DOMAIN directory.members
        /\ Answered(c, directory.members[id]) /\ Seek(c, NotSeeking)
     \/ /\ id \notin DOMAIN directory.members
        /\ Seek(c, [seeks[c] EXCEPT !.stage = "enroll"]) /\ UNCHANGED resolutions
  /\ UNCHANGED <<directory, wallets, sought>>
WalletOf(id) == {m \in DOMAIN wallets : wallets[m].customer = id}
LipEnroll(id, m) ==
  \/ m \in WalletOf(id) /\ UNCHANGED wallets
  \/ /\ WalletOf(id) = {} /\ m \in WalletIds \ DOMAIN wallets
     /\ wallets' = Put(wallets, m, [customer |-> id, active |-> TRUE])
EnrollMember(c) ==  \* the answer arrives or is lost
  /\ Seeks(c, "enroll")
  /\ \E m \in WalletIds :
       /\ LipEnroll(seeks[c].id, m)
       /\ \/ Seek(c, [stage |-> "link", principal |-> seeks[c].principal, id |-> seeks[c].id, member |-> m])
          \/ Seek(c, NotSeeking)
  /\ UNCHANGED <<directory, resolutions, sought>>
LinkMember(c) ==  \* the status of the customer is not looked at; another member is an error
  LET id == seeks[c].id
      m == seeks[c].member
  IN  /\ Seeks(c, "link")
      /\ id \in DOMAIN directory.members => directory.members[id] = m
      /\ directory' = [directory EXCEPT !.members = Put(@, id, m)]
      /\ Answered(c, m)
      /\ Seek(c, NotSeeking)
      /\ UNCHANGED <<wallets, sought>>

(* linkIdentity: another principal for an active customer.                 *)
LinkExternalIdentity(c) ==
  /\ Begun(c)
  /\ \E p \in Persons, id \in DOMAIN directory.customers :
       /\ directory.customers[id] = "active"
       /\ p \notin DOMAIN directory.links
       /\ directory' = [directory EXCEPT !.links = Put(@, p, id)]
  /\ UNCHANGED <<wallets, resolutions, seeks>>

(* deleteCustomer: the members linked at the start are cancelled after the *)
(* customer was marked.                                                    *)
MemberLinksForCustomer(c) ==
  /\ Begun(c)
  /\ \E id \in DOMAIN directory.customers :
       Seek(c, [stage |-> "mark", id |-> id,
                left |-> {directory.members[i] : i \in DOMAIN directory.members \cap {id}}])
  /\ UNCHANGED resolverState
MarkCustomerDeleted(c) ==
  /\ Seeks(c, "mark")
  /\ directory' = [directory EXCEPT !.customers[seeks[c].id] = "deleted"]
  /\ Seek(c, [stage |-> "cancel", left |-> seeks[c].left])
  /\ UNCHANGED <<wallets, resolutions, sought>>
CancelMember(c) ==
  /\ Seeks(c, "cancel")
  /\ \/ \E m \in seeks[c].left :
          /\ wallets' = [wallets EXCEPT ![m].active = FALSE]
          /\ Seek(c, [seeks[c] EXCEPT !.left = @ \ {m}]) \/ Seek(c, NotSeeking)
     \/ seeks[c].left = {} /\ Seek(c, NotSeeking) /\ UNCHANGED wallets
  /\ UNCHANGED <<directory, resolutions, sought>>

(* A call of the repository or of the platform fails, or finds a conflict. *)
SeekFails(c) == seeks[c] # NotSeeking /\ Seek(c, NotSeeking) /\ UNCHANGED <<resolverState, sought>>

ResolverInit ==
  /\ directory = [customers |-> << >>, links |-> << >>, members |-> << >>]
  /\ wallets = << >> /\ resolutions = {} /\ sought = 0
  /\ seeks = [c \in Seekers |-> NotSeeking]
ResolverNext ==
  \E c \in Seekers :
    \/ ResolvePerson(c) \/ MemberLink(c) \/ EnrollMember(c) \/ LinkMember(c) \/ LinkExternalIdentity(c)
    \/ MemberLinksForCustomer(c) \/ MarkCustomerDeleted(c) \/ CancelMember(c) \/ SeekFails(c)
ResolverSpec == ResolverInit /\ [][ResolverNext]_resolverVars

-------------------------------------------------------------------------------
(* directory.ts:250 "one stable customer and one program-scoped LIP        *)
(* member": however resolutions, links, deletions, lost answers and        *)
(* retries overlap, a principal is always answered with one customer, a    *)
(* customer with one member and a member to one customer, who has no other.*)
ResolvesToOne ==
  /\ \A x, y \in resolutions : (x[1] = y[1] => x[2] = y[2]) /\ (x[2] = y[2] <=> x[3] = y[3])
  /\ \A x \in resolutions : WalletOf(x[2]) = {x[3]}
===============================================================================
