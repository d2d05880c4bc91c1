---------------------------- MODULE CloudOperators ----------------------------
(* The operator directory of the cloud control plane: who may manage the   *)
(* platform, the API keys they hold, and how the first one is created.     *)
(* A request is three steps, as the service awaits between them: it is     *)
(* authenticated, it is authorized and reads what it is about, and its one *)
(* repository transaction commits.  Operators are named by their subject,  *)
(* which is unique and never removed.                                      *)
EXTENDS Common

CONSTANTS Subjects,   \* subjects an operator may be created for
          Keys,       \* operator API key ids
          Clients,    \* requests that may be in progress at once
          Modes,      \* {"shared", "oidc"}: the server has an API key or an authenticator
          Bootstrappers, \* bootstrapSubjects: OIDC subjects that may create the first operator
          Expiries,   \* expires_at an operator key may be asked with
          Overlaps,   \* overlap_seconds of a rotation
          MaxTime     \* bound on the clock

ASSUME OperatorsAssumption ==
  /\ MaxTime \in Nat
  /\ Overlaps \subseteq Nat
  /\ Expiries \subseteq Nat
  /\ None # "platform-admin"
  /\ Bootstrappers \subseteq Subjects

(* A key without expires_at. *)
Forever == MaxTime + 100

VARIABLES mode,       \* how the server authenticates
          now,        \* the clock
          operators,  \* lip_cloud_operators: subject -> [role, active, first]
          keys,       \* lip_cloud_operator_api_keys: key -> [of, active, expires, granted]
          calls       \* the request each client has in progress

operatorVars == <<mode, now, operators, keys, calls>>

Roles == {"platform-admin", "org-scoped"}
ActiveAdmins == {s \in DOMAIN operators : operators[s].active /\ operators[s].role = "platform-admin"}
Usable(k) == keys[k].active /\ keys[k].expires > now

(* What a request may ask for. *)
Requests ==
       [op : {"create"}, subject : Subjects, role : Roles, expires : Expiries]
  \cup [op : {"update"}, subject : Subjects, active : BOOLEAN]
  \cup [op : {"createKey"}, subject : Subjects, expires : Expiries]
  \cup [op : {"rotate"}, subject : Subjects, key : Keys, overlap : Overlaps, expires : Expiries \cup {None}]
  \cup [op : {"revoke"}, subject : Subjects, key : Keys]

Idle == [stage |-> "idle"]

-------------------------------------------------------------------------------
(* authenticate: the operator a live key belongs to.  The store surfaces   *)
(* neither a dead key nor a key of an inactive operator.                   *)
OperatorByApiKeyHash(k) ==
  IF k \in DOMAIN keys /\ Usable(k) /\ operators[keys[k].of].active THEN {keys[k].of} ELSE {}
Authenticate(k) == OperatorByApiKeyHash(k)

PrincipalFor(s) == [subject |-> s, role |-> operators[s].role, bootstrap |-> FALSE]

(* operatorForSubject and the bootstrap allowlist: who a verified OIDC     *)
(* subject is.                                                             *)
OidcPrincipal(s) ==
  LET active == s \in DOMAIN operators /\ operators[s].active
  IN  [subject |-> s,
       role |-> IF active THEN operators[s].role ELSE None,
       bootstrap |-> ~active /\ s \in Bootstrappers /\ operators = << >>]

(* The shared key, which only the route that creates an operator accepts. *)
IsOperatorBootstrap(req) == req.op = "create"
Gateway == [subject |-> "gateway", role |-> None, bootstrap |-> TRUE]

(* principal: the identities a request can be made under. *)
Principals ==
       {PrincipalFor(s) : s \in UNION {Authenticate(k) : k \in DOMAIN keys}}
  \cup {OidcPrincipal(s) : s \in IF mode = "oidc" THEN Subjects ELSE {}}
  \cup {g \in {Gateway} : mode = "shared" /\ operators = << >>}

Arrive(c) ==
  /\ calls[c] = Idle
  /\ \E who \in Principals :
       calls' = [calls EXCEPT ![c] = [stage |-> "authenticated", who |-> who]]
  /\ UNCHANGED <<mode, now, operators, keys>>

-------------------------------------------------------------------------------
(* authorizeOperatorManagement: a platform-admin, or a bootstrap           *)
(* credential that creates the first operator as a platform-admin (an OIDC *)
(* subject only for itself).                                               *)
MayBootstrap(who, req) ==
  /\ IsOperatorBootstrap(req)
  /\ who.bootstrap
  /\ operators = << >>
  /\ req.role = "platform-admin"
  /\ who = Gateway \/ who.subject = req.subject
AuthorizeOperatorManagement(who, req) == who.role = "platform-admin" \/ MayBootstrap(who, req)

(* assertFutureExpiry *)
FutureExpiry(e) == e > now

(* rotateOperatorKey: the key must be live, and an explicit expiry may     *)
(* shorten its life and never extend it.                                   *)
Rotatable(req) ==
  /\ req.key \in DOMAIN keys /\ keys[req.key].of = req.subject
  /\ Usable(req.key)
  /\ req.expires = None \/ (FutureExpiry(req.expires) /\ req.expires <= keys[req.key].expires)
Earlier(a, b) == IF a < b THEN a ELSE b
RotationTermsUncapped(req) ==  \* mutant: the overlap may outlive the old key
  [expires |-> IF req.expires = None THEN keys[req.key].expires ELSE req.expires,
   replaced |-> now + req.overlap]
RotationTerms(req) ==
  [expires |-> IF req.expires = None THEN keys[req.key].expires ELSE req.expires,
   replaced |-> Earlier(keys[req.key].expires, now + req.overlap)]

(* What the service computes from its reads and hands to the transaction. *)
CreateTerms(who) == [bootstrap |-> who.role # "platform-admin"]
UpdateTerms(req) ==
  [guard |-> ~req.active /\ operators[req.subject].active
                         /\ operators[req.subject].role = "platform-admin"]
Terms(who, req) ==
  CASE req.op = "create" -> CreateTerms(who)
    [] req.op = "update" -> UpdateTerms(req)
    [] req.op = "rotate" -> RotationTerms(req)
    [] OTHER             -> << >>

RequiredOperator(req) == req.op # "create" => req.subject \in DOMAIN operators
Permitted(req) ==
  CASE req.op \in {"create", "createKey"} -> FutureExpiry(req.expires)
    [] req.op = "rotate" -> Rotatable(req)
    [] req.op = "revoke" -> req.key \in DOMAIN keys /\ keys[req.key].of = req.subject
                                                    /\ keys[req.key].active
    [] OTHER             -> TRUE

Look(c) ==
  /\ calls[c].stage = "authenticated"
  /\ \E req \in Requests :
       LET who == calls[c].who
       IN  calls' = [calls EXCEPT ![c] =
             IF AuthorizeOperatorManagement(who, req) /\ RequiredOperator(req) /\ Permitted(req)
             THEN [stage |-> "ready", req |-> req, terms |-> Terms(who, req)]
             ELSE Idle]
  /\ UNCHANGED <<mode, now, operators, keys>>

-------------------------------------------------------------------------------
(* The transactions.  MintKey is a key inserted with the operator it       *)
(* belongs to; granted remembers the latest expiry its lineage may have.   *)
MintKey(s, e, g) == [of |-> s, active |-> TRUE, expires |-> e, granted |-> g]
FreshKeys == Keys \ DOMAIN keys

PgCreateOperatorUncounted(req, terms) ==  \* mutant: no count in the transaction
  /\ req.subject \notin DOMAIN operators
  /\ \E k \in FreshKeys :
       /\ operators' = Put(operators, req.subject, [role |-> req.role, active |-> TRUE,
                                                    first |-> terms.bootstrap])
       /\ keys' = Put(keys, k, MintKey(req.subject, req.expires, req.expires))

(* createOperator: a bootstrap counts the operators under a lock; the      *)
(* subject is unique.                                                      *)
PgCreateOperator(req, terms) ==
  /\ terms.bootstrap => operators = << >>
  /\ req.subject \notin DOMAIN operators
  /\ \E k \in FreshKeys :
       /\ operators' = Put(operators, req.subject, [role |-> req.role, active |-> TRUE,
                                                    first |-> terms.bootstrap])
       /\ keys' = Put(keys, k, MintKey(req.subject, req.expires, req.expires))

(* updateOperator: with the guard, the last active platform-admin is kept. *)
PgUpdateOperator(req, terms) ==
  /\ ~(terms.guard /\ ActiveAdmins = {req.subject})
  /\ operators' = [operators EXCEPT ![req.subject].active = req.active]
  /\ UNCHANGED keys

PgCreateOperatorApiKey(req) ==
  /\ \E k \in FreshKeys : keys' = Put(keys, k, MintKey(req.subject, req.expires, req.expires))
  /\ UNCHANGED operators

PgRotateOperatorApiKey(req, terms) ==
  /\ \E k \in FreshKeys :
       keys' = Put([keys EXCEPT ![req.key].expires = terms.replaced], k,
                      MintKey(req.subject, terms.expires, keys[req.key].granted))
  /\ UNCHANGED operators

PgRevokeOperatorApiKey(req) ==
  /\ keys' = [keys EXCEPT ![req.key].active = FALSE]
  /\ UNCHANGED operators

OperatorTransaction(req, terms) ==
  \/ req.op = "create" /\ PgCreateOperator(req, terms)
  \/ req.op = "update" /\ PgUpdateOperator(req, terms)
  \/ req.op = "createKey" /\ PgCreateOperatorApiKey(req)
  \/ req.op = "rotate" /\ PgRotateOperatorApiKey(req, terms)
  \/ req.op = "revoke" /\ PgRevokeOperatorApiKey(req)

(* The transaction commits, or its connection fails and it rolls back. *)
Commit(c) ==
  /\ calls[c].stage = "ready"
  /\ OperatorTransaction(calls[c].req, calls[c].terms)
  /\ calls' = [calls EXCEPT ![c] = Idle]
  /\ UNCHANGED <<mode, now>>
Rollback(c) ==
  /\ calls[c].stage = "ready"
  /\ calls' = [calls EXCEPT ![c] = Idle]
  /\ UNCHANGED <<mode, now, operators, keys>>

Tick ==
  /\ now < MaxTime
  /\ now' = now + 1
  /\ UNCHANGED <<mode, operators, keys, calls>>

OperatorsInit ==
  /\ mode \in Modes
  /\ now = 0
  /\ operators = << >>
  /\ keys = << >>
  /\ calls = [c \in Clients |-> Idle]

OperatorsNext ==
  \/ Tick
  \/ \E c \in Clients : Arrive(c) \/ Look(c) \/ Commit(c) \/ Rollback(c)

OperatorsSpec == OperatorsInit /\ [][OperatorsNext]_operatorVars

-------------------------------------------------------------------------------
(* Requests that read an empty directory at the same time create one first *)
(* operator between them, and it is a platform-admin: every other operator *)
(* was created by a platform-admin.                                        *)
BootstrapOnce ==
  operators # << >> =>
    \E s \in DOMAIN operators :
      /\ operators[s].first /\ operators[s].role = "platform-admin"
      /\ \A t \in DOMAIN operators \ {s} : ~operators[t].first

(* However rotations, revocations and the clock interleave, no key outlives*)
(* the expiry that the first key of its lineage was given.                 *)
RotationNeverExtends == \A k \in DOMAIN keys : keys[k].expires <= keys[k].granted
===============================================================================
