----------------------------- MODULE AccessControl -----------------------------
(* Users and API keys of a tenant, one document of the state store.  Calls *)
(* overlap, and each authentication by key is a change that is saved.      *)
EXTENDS JsonStateStore

CONSTANTS KeyIds,     \* ids of API keys
          People,     \* who holds the secrets of keys
          Locations,  \* location ids a scope may list
          Reach,      \* [People -> scope of what they were given]
          Tenants,    \* requests of the tenant in progress at once
          Flights,    \* saves of other components (see CredentialOperations)
          TenantOps,  \* the requests the tenant makes
          Horizon,    \* bound on the clock
          MaxRequests \* bound on the requests of a behaviour

ASSUME AccessAssumption ==
  /\ Horizon \in Nat /\ MaxRequests \in Nat
  /\ "root" \notin People  \* the holder of the key the tenant was set up with

VARIABLES clock,
          access,     \* the document of the service: [keys, users]
          requests,   \* the request each tenant caller has in progress
          promised,   \* keys whose creation was answered
          withdrawn,  \* keys whose revocation was answered
          made        \* requests so far

answers == <<promised, withdrawn>>
accessVars == <<clock, access, requests, answers, made>>

Never == Horizon + 9                  \* a key without expires_at
Anywhere == Locations \cup {"other"}  \* no allowed_location_ids
Scopes == {Anywhere} \cup (SUBSET Locations \ {{}})
Rest == [stage |-> "idle"]
Keys(s) == DOMAIN s.keys
Live(s, k) == s.keys[k].active /\ s.keys[k].expires > clock
State == access.memory
UsedKeys == Keys(State) \cup Keys(access.row) \cup promised
FreshKeys ==  \* one id nobody has used: ids are random, so which one is taken makes no difference
  IF KeyIds \subseteq UsedKeys THEN {} ELSE {CHOOSE k \in KeyIds : k \notin UsedKeys}

-------------------------------------------------------------------------------
(* The changes of the state, as functions of it. *)
CreateApiKey(s, k, who, scope, expires) ==
  [s EXCEPT !.keys = Put(@, k, [active |-> TRUE, expires |-> expires, scope |-> scope, holder |-> who])]

(* rotateApiKey: the replacement inherits the expiry, the old key keeps    *)
(* the earlier of its own and the end of the overlap.                      *)
Rotatable(s, k) == k \in Keys(s) /\ Live(s, k)
RotateApiKey(s, k, new, who, overlap) ==
  LET old == s.keys[k]
      end == IF old.expires < clock + overlap THEN old.expires ELSE clock + overlap
  IN  CreateApiKey([s EXCEPT !.keys[k].expires = end], new, who, old.scope, old.expires)

RevokeApiKey(s, k) == [s EXCEPT !.keys[k].active = FALSE]
UpsertUser(s, u, scope, active) ==
  [s EXCEPT !.users = Put(@, u, [active |-> active, scope |-> scope])]

(* assertWithinPrincipalScope: a grant stays inside the scope of whoever   *)
(* grants it.                                                              *)
AssertWithinPrincipalScopeNothing(creator, scope) == TRUE  \* mutant: not checked
AssertWithinPrincipalScope(creator, scope) == scope \subseteq creator

-------------------------------------------------------------------------------
(* save, what the store makes of it, and the caller that waited for it. *)
SaveState(p, new) == access.saves[p] = NoSave /\ access' = Changed(access, p, new)
StoreSave(p) ==
  /\ Sent(access, p)
  /\ \/ Current(access, p) /\ access' = Stored(access, p)
     \/ access' = Refused(access, p)
  /\ UNCHANGED <<clock, requests, answers, made>>
SaveAnswered(p) == Succeeds(access, p) /\ access' = Returned(access, p)
SaveRefused(p) == Fails(access, p) /\ access' = Returned(access, p)

-------------------------------------------------------------------------------
(* A request of the tenant.  authenticate by a live key notes its use and  *)
(* saves; the root key and the session of a user are not saved.            *)
Requests(t, r) == requests' = [requests EXCEPT ![t] = r]
Authenticate(t) ==
  /\ requests[t] = Rest /\ made < MaxRequests
  /\ \E k \in Keys(State) :
       /\ Live(State, k)
       /\ Requests(t, [stage |-> "authenticating", who |-> State.keys[k].holder,
                       scope |-> State.keys[k].scope])
  /\ SaveState(t, State)
  /\ made' = made + 1
  /\ UNCHANGED <<clock, answers>>
PrincipalForUser(t) ==
  /\ requests[t] = Rest /\ made < MaxRequests
  /\ \/ Requests(t, [stage |-> "authorized", who |-> "root", scope |-> Anywhere])
     \/ \E u \in DOMAIN State.users :
          /\ State.users[u].active
          /\ Requests(t, [stage |-> "authorized", who |-> u, scope |-> State.users[u].scope])
  /\ made' = made + 1
  /\ UNCHANGED <<clock, access, answers>>
Authenticated(t) ==
  /\ requests[t].stage = "authenticating"
  /\ \/ SaveAnswered(t) /\ Requests(t, [requests[t] EXCEPT !.stage = "authorized"])
     \/ SaveRefused(t) /\ Requests(t, Rest)
  /\ UNCHANGED <<clock, answers, made>>

(* The operation of an authorized request; it is answered with its save. *)
Authorized(t, op) == requests[t].stage = "authorized" /\ op \in TenantOps
Operates(t, op, new, what) ==
  /\ SaveState(t, new)
  /\ Requests(t, [stage |-> "writing", op |-> op, what |-> what])
  /\ UNCHANGED <<clock, answers, made>>
TenantCreates(t) ==
  Authorized(t, "create") /\ \E k \in FreshKeys, scope \in Scopes :
    /\ AssertWithinPrincipalScope(requests[t].scope, scope)
    /\ Operates(t, "create", CreateApiKey(State, k, requests[t].who, scope, Never), k)
TenantRotates(t) ==
  Authorized(t, "rotate") /\ \E k \in Keys(State), new \in FreshKeys, overlap \in {0, 1} :
    /\ Rotatable(State, k)
    /\ AssertWithinPrincipalScope(requests[t].scope, State.keys[k].scope)
    /\ Operates(t, "rotate", RotateApiKey(State, k, new, requests[t].who, overlap), new)
TenantRevokes(t) ==
  Authorized(t, "revoke") /\ \E k \in Keys(State) :
    State.keys[k].active /\ Operates(t, "revoke", RevokeApiKey(State, k), k)
TenantUpserts(t) ==
  Authorized(t, "user") /\ \E u \in People, scope \in Scopes, active \in BOOLEAN :
    /\ AssertWithinPrincipalScope(requests[t].scope, scope)
    /\ scope \subseteq Reach[u]  \* who is given an account
    /\ Operates(t, "user", UpsertUser(State, u, scope, active), u)
TenantAnswered(t) ==
  LET op == requests[t].op
      what == requests[t].what
  IN  /\ requests[t].stage = "writing"
      /\ \/ /\ SaveAnswered(t)
            /\ promised' = IF op \in {"create", "rotate"} THEN promised \cup {what} ELSE promised
            /\ withdrawn' = IF op = "revoke" THEN withdrawn \cup {what} ELSE withdrawn
         \/ SaveRefused(t) /\ UNCHANGED answers
      /\ Requests(t, Rest)
      /\ UNCHANGED <<clock, made>>

TenantStep(t) ==
  \/ Authenticate(t) \/ PrincipalForUser(t) \/ Authenticated(t) \/ StoreSave(t)
  \/ TenantCreates(t) \/ TenantRotates(t) \/ TenantRevokes(t) \/ TenantUpserts(t) \/ TenantAnswered(t)

(* The process stops, and create loads what was stored. *)
Reload ==
  /\ access' = Reloaded(access)
  /\ requests' = [t \in Tenants |-> Rest]
  /\ UNCHANGED <<clock, answers, made>>

Hour ==
  /\ clock < Horizon
  /\ clock' = clock + 1
  /\ UNCHANGED <<access, requests, answers, made>>

AccessInit(keys) ==
  /\ clock = 0
  /\ access = NewDocument([keys |-> keys, users |-> << >>], Tenants \cup Flights)
  /\ requests = [t \in Tenants |-> Rest]
  /\ promised = DOMAIN keys /\ withdrawn = {} /\ made = 0

-------------------------------------------------------------------------------
(* Whatever overlaps with it, and if the process stops right after: a key  *)
(* whose creation was answered is stored, and a key whose revocation was   *)
(* answered is revoked in memory and in the store.                         *)
AnsweredDurable ==
  \A s \in {State, access.row} :
    /\ promised \subseteq Keys(s)
    /\ \A k \in withdrawn : ~s.keys[k].active

(* No sequence of creations, rotations and accounts gives somebody who was *)
(* given a location scope a key that reaches beyond it.                    *)
ScopeNeverWidens ==
  \A k \in Keys(State) :
    State.keys[k].holder \in People => State.keys[k].scope \subseteq Reach[State.keys[k].holder]
===============================================================================
