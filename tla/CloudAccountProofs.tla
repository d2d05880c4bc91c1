--------------------------- MODULE CloudAccountProofs ---------------------------
(***************************************************************************)
(* Proofs about the accounts of the cloud control plane, for every set of  *)
(* subjects, keys, logins and requests in progress: one first operator,    *)
(* rotations that extend no key, one customer for a login, deleted         *)
(* profiles that stay cleared, and usage counters that are the sum of the  *)
(* events an organization reported.                                        *)
(***************************************************************************)
EXTENDS CloudOrganizations, CloudOperators, CloudCustomers, FiniteSetTheorems, WellFoundedInduction,
        TLAPS

-------------------------------------------------------------------------------
(* Operators.  What a request has read stays true until its transaction:   *)
(* an operator is never removed, and the expiry its lineage was granted    *)
(* never changes.                                                          *)

OperatorRecords == [role : Roles, active : BOOLEAN, first : BOOLEAN]
KeyRecords == [of : Subjects, active : BOOLEAN, expires : Nat, granted : Nat]

(* A principal that is a platform-admin was one when it was authenticated. *)
Identified(who) == who.role = "platform-admin" => operators # << >>

(* What a transaction is handed: a rotation never promises more than the   *)
(* lineage of the key was granted.                                         *)
Prepared(req, terms) ==
  /\ req \in Requests
  /\ req.op # "create" => req.subject \in DOMAIN operators
  /\ req.op = "create" => /\ terms.bootstrap \in BOOLEAN
                          /\ terms.bootstrap => req.role = "platform-admin"
                          /\ ~terms.bootstrap => operators # << >>
  /\ req.op = "rotate" => /\ req.key \in DOMAIN keys
                          /\ terms.expires \in Nat /\ terms.expires <= keys[req.key].granted
                          /\ terms.replaced \in Nat /\ terms.replaced <= keys[req.key].granted

CallGood(x) ==
  /\ x.stage = "authenticated" => Identified(x.who)
  /\ x.stage = "ready" => Prepared(x.req, x.terms)

(* The state apart from the requests. *)
StoreGood ==
  /\ now \in Nat
  /\ operators \in [DOMAIN operators -> OperatorRecords]
  /\ keys \in [DOMAIN keys -> KeyRecords]
  /\ \A k \in DOMAIN keys : keys[k].of \in DOMAIN operators
  /\ RotationNeverExtends
  /\ BootstrapOnce

OperatorsGood ==
  /\ StoreGood
  /\ DOMAIN calls = Clients /\ calls = [c \in Clients |-> calls[c]]
  /\ \A c \in Clients : CallGood(calls[c])

(* The requests by their operation. *)
LEMMA RequestShape ==
  ASSUME NEW req \in Requests
  PROVE  /\ req.subject \in Subjects
         /\ req.op \in {"create", "update", "createKey", "rotate", "revoke"}
         /\ req.op = "create" => req.role \in Roles /\ req.expires \in Nat
         /\ req.op = "update" => req.active \in BOOLEAN
         /\ req.op = "createKey" => req.expires \in Nat
         /\ req.op = "rotate" => req.overlap \in Nat /\ req.expires \in Nat \cup {None}
BY OperatorsAssumption DEF Requests

(* A request in another slot keeps what it read. *)
LEMMA CallsKept ==
  ASSUME OperatorsGood,
         operators # << >> => operators' # << >>,
         DOMAIN operators \subseteq DOMAIN operators',
         DOMAIN keys \subseteq DOMAIN keys',
         \A k \in DOMAIN keys : keys'[k].granted = keys[k].granted,
         NEW c \in Clients
  PROVE  CallGood(calls[c]) /\ (calls'[c] = calls[c] => CallGood(calls[c])')
<1>1. CallGood(calls[c])
  BY DEF OperatorsGood, StoreGood
<1>2. calls'[c] = calls[c] => CallGood(calls[c])'
  <2> SUFFICES ASSUME calls'[c] = calls[c] PROVE CallGood(calls[c])'
    OBVIOUS
  <2>1. calls[c].stage = "authenticated" => Identified(calls[c].who)'
    BY <1>1 DEF CallGood, Identified
  <2>2. calls[c].stage = "ready" => Prepared(calls[c].req, calls[c].terms)'
    BY <1>1 DEF CallGood, Prepared
  <2>3. QED
    BY <2>1, <2>2 DEF CallGood
<1>3. QED
  BY <1>1, <1>2

(* A step that serves the request of c and leaves the store alone. *)
LEMMA CallStep ==
  ASSUME OperatorsGood, NEW c \in Clients, NEW x,
         calls' = [calls EXCEPT ![c] = x], CallGood(x),
         UNCHANGED <<now, operators, keys>>
  PROVE  OperatorsGood'
<1>1. StoreGood'
  BY DEF OperatorsGood, StoreGood, RotationNeverExtends, BootstrapOnce
<1>2. DOMAIN calls' = Clients /\ calls' = [d \in Clients |-> calls'[d]]
  BY DEF OperatorsGood, StoreGood
<1>3. ASSUME NEW d \in Clients PROVE CallGood(calls[d])'
  <2>1. CallGood(calls[d]) /\ CallGood(x) /\ calls'[d] \in {calls[d], x}
    BY DEF OperatorsGood, StoreGood
  <2>2. CallGood(calls'[d])
    BY <2>1
  <2>3. QED
    BY <2>2 DEF CallGood, Identified, Prepared
<1>4. QED
  BY <1>1, <1>2, <1>3 DEF OperatorsGood, StoreGood

LEMMA IdleGood == CallGood(Idle)
BY DEF CallGood, Idle

LEMMA ArriveGood ==
  ASSUME OperatorsGood, NEW c \in Clients, Arrive(c)
  PROVE  OperatorsGood'
<1>1. PICK who \in Principals :
        calls' = [calls EXCEPT ![c] = [stage |-> "authenticated", who |-> who]]
  BY DEF Arrive
<1>2. UNCHANGED <<now, operators, keys>>
  BY DEF Arrive
<1>3. who.role = "platform-admin" => operators # << >>
  <2>1. CASE \E k \in DOMAIN keys : \E s \in Authenticate(k) : who = PrincipalFor(s)
    BY <2>1 DEF OperatorsGood, StoreGood
  <2>2. CASE \E s \in Subjects : who = OidcPrincipal(s)
    BY <2>2, OperatorsAssumption DEF OidcPrincipal
  <2>3. CASE who = Gateway
    BY <2>3, OperatorsAssumption DEF Gateway
  <2>4. QED
    BY <2>1, <2>2, <2>3 DEF Principals
<1>4. CallGood([stage |-> "authenticated", who |-> who])
  BY <1>3 DEF CallGood, Identified
<1>5. QED
  BY <1>1, <1>2, <1>4, CallStep

LEMMA LookGood ==
  ASSUME OperatorsGood, NEW c \in Clients, Look(c)
  PROVE  OperatorsGood'
<1> DEFINE who == calls[c].who
<1>1. PICK req \in Requests :
        calls' = [calls EXCEPT ![c] =
             IF AuthorizeOperatorManagement(who, req) /\ RequiredOperator(req) /\ Permitted(req)
             THEN [stage |-> "ready", req |-> req, terms |-> Terms(who, req)]
             ELSE Idle]
  BY DEF Look
<1>2. UNCHANGED <<now, operators, keys>> /\ calls[c].stage = "authenticated"
  BY DEF Look
<1>3. ASSUME AuthorizeOperatorManagement(who, req), RequiredOperator(req), Permitted(req)
      PROVE  Prepared(req, Terms(who, req))
  <2>1. Identified(who)
    BY <1>2 DEF OperatorsGood, StoreGood, CallGood
  <2>2. ASSUME req.op = "create"
        PROVE  /\ Terms(who, req).bootstrap = (who.role # "platform-admin")
               /\ who.role # "platform-admin" => req.role = "platform-admin"
    BY <1>3, <2>2 DEF Terms, CreateTerms, AuthorizeOperatorManagement, MayBootstrap
  <2>3. req.op # "create" => req.subject \in DOMAIN operators
    BY <1>3 DEF RequiredOperator
  <2>4. ASSUME req.op = "rotate"
        PROVE  /\ req.key \in DOMAIN keys
               /\ Terms(who, req).expires \in Nat
               /\ Terms(who, req).expires <= keys[req.key].granted
               /\ Terms(who, req).replaced \in Nat
               /\ Terms(who, req).replaced <= keys[req.key].granted
    <3>1. Rotatable(req) /\ Terms(who, req) = RotationTerms(req)
      BY <1>3, <2>4 DEF Permitted, Terms
    <3>2. req.key \in DOMAIN keys
      BY <3>1 DEF Rotatable
    <3>3. /\ keys[req.key].expires \in Nat /\ keys[req.key].granted \in Nat
          /\ keys[req.key].expires <= keys[req.key].granted /\ now \in Nat
      BY <3>2 DEF OperatorsGood, StoreGood, KeyRecords, RotationNeverExtends
    <3>4. req.overlap \in Nat /\ req.expires \in Nat \cup {None}
      BY <2>4, RequestShape
    <3>5. RotationTerms(req).expires \in Nat /\ RotationTerms(req).expires <= keys[req.key].expires
      BY <3>1, <3>3, <3>4 DEF RotationTerms, Rotatable
    <3>6. RotationTerms(req).replaced \in Nat /\ RotationTerms(req).replaced <= keys[req.key].expires
      BY <3>3, <3>4 DEF RotationTerms, Earlier
    <3>7. QED
      BY <3>1, <3>2, <3>3, <3>5, <3>6
  <2>5. QED
    <3>1. req.op = "create" => Terms(who, req).bootstrap \in BOOLEAN
      BY <2>2, Zenon
    <3>2. QED
      BY <2>1, <2>2, <2>3, <2>4, <3>1 DEF Prepared, Identified
<1>4. PICK x : calls' = [calls EXCEPT ![c] = x] /\ CallGood(x)
  <2>1. CASE AuthorizeOperatorManagement(who, req) /\ RequiredOperator(req) /\ Permitted(req)
    <3>1. CallGood([stage |-> "ready", req |-> req, terms |-> Terms(who, req)])
      BY <1>3, <2>1 DEF CallGood
    <3>2. QED
      BY <1>1, <2>1, <3>1
  <2>2. CASE ~(AuthorizeOperatorManagement(who, req) /\ RequiredOperator(req) /\ Permitted(req))
    BY <1>1, <2>2, IdleGood
  <2>3. QED
    BY <2>1, <2>2
<1>5. QED
  BY <1>2, <1>4, CallStep

(* A transaction that keeps the store good and what the other requests     *)
(* read.                                                                   *)
LEMMA TransactionStep ==
  ASSUME OperatorsGood, NEW c \in Clients,
         calls' = [calls EXCEPT ![c] = Idle], StoreGood',
         operators # << >> => operators' # << >>,
         DOMAIN operators \subseteq DOMAIN operators',
         DOMAIN keys \subseteq DOMAIN keys',
         \A k \in DOMAIN keys : keys'[k].granted = keys[k].granted
  PROVE  OperatorsGood'
<1>1. DOMAIN calls' = Clients /\ calls' = [d \in Clients |-> calls'[d]]
  BY DEF OperatorsGood, StoreGood
<1>2. ASSUME NEW d \in Clients PROVE CallGood(calls[d])'
  <2>1. CASE d = c
    <3>1. calls'[d] = Idle
      BY <2>1 DEF OperatorsGood, StoreGood
    <3>2. QED
      BY <3>1 DEF CallGood, Idle
  <2>2. CASE d # c
    <3>1. calls'[d] = calls[d]
      BY <2>2 DEF OperatorsGood, StoreGood
    <3>2. QED
      BY <3>1, CallsKept
  <2>3. QED
    BY <2>1, <2>2
<1>3. QED
  BY <1>1, <1>2 DEF OperatorsGood, StoreGood

LEMMA MintGood ==
  ASSUME OperatorsGood, NEW k \in FreshKeys, NEW s \in Subjects, NEW e \in Nat, NEW g \in Nat, e <= g,
         keys' = Put(keys, k, MintKey(s, e, g)),
         DOMAIN operators \subseteq DOMAIN operators', s \in DOMAIN operators'
  PROVE  /\ DOMAIN keys \subseteq DOMAIN keys'
         /\ \A j \in DOMAIN keys : keys'[j] = keys[j]
         /\ keys' \in [DOMAIN keys' -> KeyRecords]
         /\ \A j \in DOMAIN keys' : keys'[j].of \in DOMAIN operators'
         /\ RotationNeverExtends'
<1>1. k \notin DOMAIN keys
  BY DEF FreshKeys
<1>2. /\ DOMAIN keys' = DOMAIN keys \cup {k} /\ keys'[k] = MintKey(s, e, g)
      /\ \A j \in DOMAIN keys : keys'[j] = keys[j]
      /\ keys' = [j \in DOMAIN keys' |-> keys'[j]]
  BY <1>1 DEF Put
<1>3. MintKey(s, e, g) \in KeyRecords /\ MintKey(s, e, g).of = s
      /\ MintKey(s, e, g).expires = e /\ MintKey(s, e, g).granted = g
  BY DEF MintKey, KeyRecords
<1>4. \A j \in DOMAIN keys : keys[j] \in KeyRecords /\ keys[j].of \in DOMAIN operators
                             /\ keys[j].expires <= keys[j].granted
  BY DEF OperatorsGood, StoreGood, RotationNeverExtends
<1>5. \A j \in DOMAIN keys' : keys'[j] \in KeyRecords /\ keys'[j].of \in DOMAIN operators'
                             /\ keys'[j].expires <= keys'[j].granted
  BY <1>2, <1>3, <1>4
<1>6. QED
  BY <1>2, <1>5 DEF RotationNeverExtends

LEMMA CommitGood ==
  ASSUME OperatorsGood, NEW c \in Clients, Commit(c)
  PROVE  OperatorsGood'
<1> DEFINE req == calls[c].req
           terms == calls[c].terms
<1>1. calls' = [calls EXCEPT ![c] = Idle] /\ now' = now /\ OperatorTransaction(req, terms)
  BY DEF Commit
<1>2. Prepared(req, terms) /\ req \in Requests
  BY DEF Commit, OperatorsGood, StoreGood, CallGood, Prepared
<1> HIDE DEF req, terms
<1>3. CASE req.op = "create" /\ PgCreateOperator(req, terms)
  <2>1. PICK k \in FreshKeys :
          /\ operators' = Put(operators, req.subject, [role |-> req.role, active |-> TRUE,
                                                       first |-> terms.bootstrap])
          /\ keys' = Put(keys, k, MintKey(req.subject, req.expires, req.expires))
    BY <1>3 DEF PgCreateOperator
  <2>2. req.subject \notin DOMAIN operators /\ (terms.bootstrap => operators = << >>)
    BY <1>3 DEF PgCreateOperator
  <2>3. req.subject \in Subjects /\ req.role \in Roles /\ req.expires \in Nat
    BY <1>2, <1>3, RequestShape
  <2>4. /\ terms.bootstrap \in BOOLEAN /\ (terms.bootstrap => req.role = "platform-admin")
        /\ ~terms.bootstrap => operators # << >>
    BY <1>2, <1>3 DEF Prepared
  <2> DEFINE o == [role |-> req.role, active |-> TRUE, first |-> terms.bootstrap]
  <2>5. o \in OperatorRecords /\ o.first = terms.bootstrap /\ o.role = req.role
    BY <2>3, <2>4 DEF OperatorRecords
  <2>6. /\ DOMAIN operators' = DOMAIN operators \cup {req.subject}
        /\ operators'[req.subject] = o
        /\ \A s \in DOMAIN operators : operators'[s] = operators[s]
        /\ operators' = [s \in DOMAIN operators' |-> operators'[s]]
    BY <2>1, <2>2 DEF Put
  <2> HIDE DEF o
  <2>7. operators' \in [DOMAIN operators' -> OperatorRecords]
    BY <2>5, <2>6 DEF OperatorsGood, StoreGood
  <2>8. BootstrapOnce'
    <3>1. CASE terms.bootstrap
      <4>1. DOMAIN operators = {}
        BY <2>2, <3>1
      <4>2. DOMAIN operators' = {req.subject}
        BY <4>1, <2>6
      <4>3. QED
        BY <4>2, <2>4, <2>5, <2>6, <3>1 DEF BootstrapOnce
    <3>2. CASE ~terms.bootstrap
      <4>1. PICK s \in DOMAIN operators : 
              /\ operators[s].first /\ operators[s].role = "platform-admin"
              /\ \A t \in DOMAIN operators \ {s} : ~operators[t].first
        BY <2>4, <3>2 DEF OperatorsGood, StoreGood, BootstrapOnce
      <4>2. QED
        BY <4>1, <2>5, <2>6, <3>2 DEF BootstrapOnce
    <3>3. QED
      BY <3>1, <3>2
  <2>9. operators' # << >>
    BY <2>6
  <2>10. req.expires <= req.expires
    BY <2>3
  <2>11. /\ DOMAIN keys \subseteq DOMAIN keys' /\ \A j \in DOMAIN keys : keys'[j] = keys[j]
         /\ keys' \in [DOMAIN keys' -> KeyRecords] /\ RotationNeverExtends'
         /\ \A j \in DOMAIN keys' : keys'[j].of \in DOMAIN operators'
    BY <2>1, <2>3, <2>6, <2>10, MintGood
  <2>12. StoreGood'
    BY <1>1, <2>7, <2>8, <2>11 DEF StoreGood, OperatorsGood
  <2>13. QED
    BY <1>1, <2>6, <2>9, <2>11, <2>12, TransactionStep
<1>4. CASE req.op = "update" /\ PgUpdateOperator(req, terms)
  <2>1. operators' = [operators EXCEPT ![req.subject].active = req.active] /\ keys' = keys
    BY <1>4 DEF PgUpdateOperator
  <2>2. req.active \in BOOLEAN /\ req.subject \in DOMAIN operators
    BY <1>2, <1>4, RequestShape DEF Prepared
  <2>3. /\ DOMAIN operators' = DOMAIN operators
        /\ operators' \in [DOMAIN operators -> OperatorRecords]
        /\ \A s \in DOMAIN operators : /\ operators'[s].first = operators[s].first
                                       /\ operators'[s].role = operators[s].role
    BY <2>1, <2>2 DEF OperatorsGood, StoreGood, OperatorRecords
  <2>4. operators' # << >> /\ operators # << >>
    BY <2>2, <2>3
  <2>5. StoreGood'
    BY <1>1, <2>1, <2>3, <2>4 DEF StoreGood, OperatorsGood, RotationNeverExtends, BootstrapOnce
  <2>6. QED
    BY <1>1, <2>1, <2>3, <2>4, <2>5, TransactionStep
<1>5. CASE req.op = "createKey" /\ PgCreateOperatorApiKey(req)
  <2>1. operators' = operators
        /\ \E k \in FreshKeys : keys' = Put(keys, k, MintKey(req.subject, req.expires, req.expires))
    BY <1>5 DEF PgCreateOperatorApiKey
  <2>2. req.subject \in Subjects /\ req.expires \in Nat /\ req.subject \in DOMAIN operators
    BY <1>2, <1>5, RequestShape DEF Prepared
  <2>3. req.expires <= req.expires
    BY <2>2
  <2>4. /\ DOMAIN keys \subseteq DOMAIN keys' /\ \A j \in DOMAIN keys : keys'[j] = keys[j]
        /\ keys' \in [DOMAIN keys' -> KeyRecords] /\ RotationNeverExtends'
        /\ \A j \in DOMAIN keys' : keys'[j].of \in DOMAIN operators'
    BY <2>1, <2>2, <2>3, MintGood
  <2>5. StoreGood'
    BY <1>1, <2>1, <2>4 DEF StoreGood, OperatorsGood, BootstrapOnce
  <2>6. QED
    BY <1>1, <2>1, <2>4, <2>5, TransactionStep
<1>6. CASE req.op = "rotate" /\ PgRotateOperatorApiKey(req, terms)
  <2> DEFINE old == [keys EXCEPT ![req.key].expires = terms.replaced]
             g == keys[req.key].granted
  <2>1. PICK k \in FreshKeys : keys' = Put(old, k, MintKey(req.subject, terms.expires, g))
    BY <1>6 DEF PgRotateOperatorApiKey
  <2>2. /\ req.key \in DOMAIN keys /\ req.subject \in DOMAIN operators
        /\ terms.expires \in Nat /\ terms.expires <= g
        /\ terms.replaced \in Nat /\ terms.replaced <= g
    BY <1>2, <1>6 DEF Prepared
  <2>3. req.subject \in Subjects /\ operators' = operators
    BY <1>2, <1>6, RequestShape DEF PgRotateOperatorApiKey
  <2>4. g \in Nat
    BY <2>2 DEF OperatorsGood, StoreGood, KeyRecords
  <2>5. /\ DOMAIN old = DOMAIN keys
        /\ \A j \in DOMAIN keys : /\ old[j] \in KeyRecords /\ old[j].of = keys[j].of
                                  /\ old[j].granted = keys[j].granted
                                  /\ old[j].expires <= old[j].granted
    BY <2>2 DEF OperatorsGood, StoreGood, KeyRecords, RotationNeverExtends
  <2>6. MintKey(req.subject, terms.expires, g) \in KeyRecords
        /\ MintKey(req.subject, terms.expires, g).expires = terms.expires
        /\ MintKey(req.subject, terms.expires, g).granted = g
        /\ MintKey(req.subject, terms.expires, g).of = req.subject
    BY <2>2, <2>3, <2>4 DEF MintKey, KeyRecords
  <2> HIDE DEF old, g
  <2>7. /\ DOMAIN keys' = DOMAIN keys \cup {k} /\ keys' = [j \in DOMAIN keys' |-> keys'[j]]
        /\ keys'[k] = MintKey(req.subject, terms.expires, g)
        /\ \A j \in DOMAIN keys : keys'[j] = old[j]
    BY <2>1, <2>5 DEF Put, FreshKeys
  <2>8. \A j \in DOMAIN keys' : keys'[j] \in KeyRecords /\ keys'[j].of \in DOMAIN operators
                                /\ keys'[j].expires <= keys'[j].granted
    BY <2>2, <2>5, <2>6, <2>7 DEF OperatorsGood, StoreGood
  <2>9. StoreGood'
    BY <1>1, <2>3, <2>7, <2>8 DEF StoreGood, OperatorsGood, RotationNeverExtends, BootstrapOnce
  <2>10. QED
    BY <1>1, <2>3, <2>5, <2>7, <2>9, TransactionStep
<1>7. CASE req.op = "revoke" /\ PgRevokeOperatorApiKey(req)
  <2>1. keys' = [keys EXCEPT ![req.key].active = FALSE] /\ operators' = operators
    BY <1>7 DEF PgRevokeOperatorApiKey
  <2>2. /\ DOMAIN keys' = DOMAIN keys /\ keys' \in [DOMAIN keys -> KeyRecords]
        /\ \A j \in DOMAIN keys : /\ keys'[j].of = keys[j].of /\ keys'[j].granted = keys[j].granted
                                  /\ keys'[j].expires = keys[j].expires
    BY <2>1 DEF OperatorsGood, StoreGood, KeyRecords
  <2>3. StoreGood'
    BY <1>1, <2>1, <2>2 DEF StoreGood, OperatorsGood, RotationNeverExtends, BootstrapOnce
  <2>4. QED
    BY <1>1, <2>1, <2>2, <2>3, TransactionStep
<1>8. QED
  BY <1>1, <1>3, <1>4, <1>5, <1>6, <1>7 DEF OperatorTransaction

LEMMA OperatorsGoodStep == OperatorsGood /\ [OperatorsNext]_operatorVars => OperatorsGood'
<1> SUFFICES ASSUME OperatorsGood, [OperatorsNext]_operatorVars PROVE OperatorsGood'
  OBVIOUS
<1>1. ASSUME NEW c \in Clients, Rollback(c) PROVE OperatorsGood'
  BY <1>1, IdleGood, CallStep DEF Rollback
<1>2. CASE Tick
  BY <1>2 DEF Tick, OperatorsGood, StoreGood, RotationNeverExtends, BootstrapOnce, CallGood, Identified, Prepared
<1>3. CASE UNCHANGED operatorVars
  BY <1>3 DEF operatorVars, OperatorsGood, StoreGood, RotationNeverExtends, BootstrapOnce, CallGood, Identified,
              Prepared
<1>4. QED
  BY <1>1, <1>2, <1>3, ArriveGood, LookGood, CommitGood DEF OperatorsNext

LEMMA OperatorsGoodInit == OperatorsInit => OperatorsGood
<1> SUFFICES ASSUME OperatorsInit PROVE OperatorsGood
  OBVIOUS
<1>1. DOMAIN operators = {} /\ DOMAIN keys = {} /\ operators = << >> /\ now = 0
      /\ keys = << >>
  BY DEF OperatorsInit
<1>2. StoreGood
  BY <1>1 DEF StoreGood, BootstrapOnce, RotationNeverExtends
<1>3. DOMAIN calls = Clients /\ calls = [c \in Clients |-> calls[c]]
      /\ \A c \in Clients : calls[c] = Idle
  BY DEF OperatorsInit
<1>4. QED
  BY <1>2, <1>3, IdleGood DEF StoreGood, OperatorsGood

LEMMA AlwaysOperatorsGood == OperatorsSpec => []OperatorsGood
BY OperatorsGoodInit, OperatorsGoodStep, PTL DEF OperatorsSpec

(* Requests that overlap while the directory is empty create one first     *)
(* operator between them, a platform-admin (authorizeOperatorManagement    *)
(* and createOperator).                                                    *)
THEOREM FirstOperatorOnce == OperatorsSpec => []BootstrapOnce
<1>1. OperatorsGood => BootstrapOnce
  BY DEF OperatorsGood, StoreGood
<1>2. QED
  BY <1>1, AlwaysOperatorsGood, PTL

(* No key outlives what the first key of its lineage was granted,          *)
(* whichever rotations overlap (rotateOperatorKey and                      *)
(* rotateOperatorApiKey).                                                  *)
THEOREM RotationsBounded == OperatorsSpec => []RotationNeverExtends
<1>1. OperatorsGood => RotationNeverExtends
  BY DEF OperatorsGood, StoreGood
<1>2. QED
  BY <1>1, AlwaysOperatorsGood, PTL

-------------------------------------------------------------------------------
(* Customers.  A visit that has resolved its session holds a customer that *)
(* exists: no customer is removed, a deleted one keeps its row.            *)

CustomerRecords == [status : {"active", "deleted"}, profile : {"verified", "edited", None}]
IdentityRecords == [customer : CustomerIds, active : BOOLEAN]

VisitGood(x) ==
  /\ "stage" \in DOMAIN x
  /\ x.stage \in {"session", "write", "bind"} => "id" \in DOMAIN x /\ x.id \in DOMAIN customers
VisitKept(x) ==
  /\ "stage" \in DOMAIN x
  /\ x.stage \in {"session", "write", "bind"} => "id" \in DOMAIN x /\ x.id \in DOMAIN customers'

AccountsGood ==
  /\ DOMAIN customers \subseteq CustomerIds
  /\ customers \in [DOMAIN customers -> CustomerRecords]
  /\ identities \in [DOMAIN identities -> IdentityRecords]
  /\ AccountsResolveOnce
  /\ DeletedProfileCleared

CustomersGood ==
  /\ AccountsGood
  /\ DOMAIN visits = Visitors /\ visits = [v \in Visitors |-> visits[v]]
  /\ \A v \in Visitors : VisitGood(visits[v])

(* A step of one visit that keeps the accounts good and every customer. *)
LEMMA VisitStep ==
  ASSUME CustomersGood, NEW v \in Visitors, NEW x, visits' = [visits EXCEPT ![v] = x],
         AccountsGood', DOMAIN customers \subseteq DOMAIN customers', VisitKept(x)
  PROVE  CustomersGood'
<1>1. DOMAIN visits' = Visitors /\ visits' = [w \in Visitors |-> visits'[w]]
  BY DEF CustomersGood
<1>2. ASSUME NEW w \in Visitors PROVE VisitGood(visits[w])'
  <2>1. VisitGood(visits[w]) /\ visits'[w] = IF w = v THEN x ELSE visits[w]
    BY DEF CustomersGood
  <2>2. QED
    BY <2>1 DEF VisitGood, VisitKept
<1>3. QED
  BY <1>1, <1>2 DEF CustomersGood

LEMMA NobodyGood == VisitGood(Nobody) /\ VisitKept(Nobody)
BY DEF VisitGood, VisitKept, Nobody

(* A step that leaves the accounts alone. *)
LEMMA AccountsSame ==
  ASSUME CustomersGood, UNCHANGED <<customers, identities, memberships, database>>
  PROVE  AccountsGood' /\ DOMAIN customers \subseteq DOMAIN customers'
BY DEF CustomersGood, AccountsGood, AccountsResolveOnce, DeletedProfileCleared

(* A login that is known belongs to a customer. *)
LEMMA ResolvedGood ==
  ASSUME CustomersGood, NEW v \in Visitors, NEW l \in DOMAIN identities, Resolved(v, l),
         UNCHANGED <<customers, identities, memberships, database>>
  PROVE  CustomersGood'
<1>1. identities[l].customer \in DOMAIN customers
  BY DEF CustomersGood, AccountsGood, AccountsResolveOnce
<1> DEFINE x == [stage |-> "session", op |-> visits[v].op, id |-> identities[l].customer]
<1>2. visits' = [visits EXCEPT ![v] = x] \/ visits' = [visits EXCEPT ![v] = Nobody]
  BY DEF Resolved, Session
<1>3. VisitKept(x)
  BY <1>1 DEF VisitKept
<1> HIDE DEF x
<1>4. QED
  BY <1>2, <1>3, NobodyGood, AccountsSame, VisitStep

(* A login that is not known gets a customer of its own. *)
LEMMA CreatedGood ==
  ASSUME CustomersGood, NEW v \in Visitors, NEW l, l \notin DOMAIN identities,
         NEW id \in FreshCustomers, CreateCustomer(id, l), Session(v, id, TRUE),
         UNCHANGED <<memberships, database>>
  PROVE  CustomersGood'
<1> DEFINE r == [status |-> "active", profile |-> "verified"]
           i == [customer |-> id, active |-> TRUE]
           x == [stage |-> "session", op |-> visits[v].op, id |-> id]
<1>1. id \in CustomerIds /\ id \notin DOMAIN customers
  BY DEF FreshCustomers
<1>2. /\ DOMAIN customers' = DOMAIN customers \cup {id} /\ customers'[id] = r
      /\ \A c \in DOMAIN customers : customers'[c] = customers[c]
      /\ customers' = [c \in DOMAIN customers' |-> customers'[c]]
  BY <1>1 DEF CreateCustomer, Put
<1>3. /\ DOMAIN identities' = DOMAIN identities \cup {l} /\ identities'[l] = i
      /\ \A k \in DOMAIN identities : identities'[k] = identities[k]
      /\ identities' = [k \in DOMAIN identities' |-> identities'[k]]
  BY DEF CreateCustomer, Put
<1>4. r \in CustomerRecords /\ r.status # "deleted" /\ i \in IdentityRecords /\ i.customer = id
  BY <1>1 DEF CustomerRecords, IdentityRecords
<1>5. visits' = [visits EXCEPT ![v] = x] /\ VisitKept(x)
  BY <1>2 DEF Session, VisitGood, VisitKept
<1> HIDE DEF r, i, x
<1>6. DOMAIN customers' \subseteq CustomerIds /\ customers' \in [DOMAIN customers' -> CustomerRecords]
  BY <1>1, <1>2, <1>4 DEF CustomersGood, AccountsGood
<1>7. identities' \in [DOMAIN identities' -> IdentityRecords]
  BY <1>3, <1>4 DEF CustomersGood, AccountsGood
<1>8. AccountsResolveOnce'
  <2>1. \A k \in DOMAIN identities' : identities'[k].customer \in DOMAIN customers'
    BY <1>2, <1>3, <1>4 DEF CustomersGood, AccountsGood, AccountsResolveOnce
  <2>2. ASSUME NEW c \in DOMAIN customers' PROVE \E k \in DOMAIN identities' : identities'[k].customer = c
    BY <1>2, <1>3, <1>4 DEF CustomersGood, AccountsGood, AccountsResolveOnce
  <2>3. QED
    BY <2>1, <2>2 DEF CustomersGood, AccountsGood, AccountsResolveOnce
<1>9. DeletedProfileCleared'
  BY <1>2, <1>4 DEF CustomersGood, AccountsGood, DeletedProfileCleared
<1>10. AccountsGood'
  BY <1>6, <1>7, <1>8, <1>9 DEF AccountsGood
<1>11. QED
  BY <1>2, <1>5, <1>10, VisitStep

LEMMA ResolveGood ==
  ASSUME CustomersGood, NEW v \in Visitors, Resolve(v) \/ PgResolveOrCreate(v)
  PROVE  CustomersGood'
<1> DEFINE l == visits[v].login
<1>1. CASE Resolve(v) /\ database = "memory"
  BY <1>1, ResolvedGood, CreatedGood DEF Resolve, MemResolveOrCreate, accountState
<1>2. CASE Resolve(v) /\ database = "postgres"
  <2>1. CASE l \in DOMAIN identities /\ Resolved(v, l) /\ UNCHANGED accountState
    BY <1>2, <2>1, ResolvedGood DEF Resolve, accountState
  <2>2. CASE visits' = [visits EXCEPT ![v].stage = "insert"] /\ UNCHANGED accountState
    <3>1. visits' = [visits EXCEPT ![v] = [visits[v] EXCEPT !.stage = "insert"]]
      BY <2>2
    <3>2. VisitKept([visits[v] EXCEPT !.stage = "insert"])
      BY DEF VisitGood, VisitKept, CustomersGood
    <3>3. QED
      BY <1>2, <2>2, <3>1, <3>2, AccountsSame, VisitStep DEF Resolve, accountState
  <2>3. QED
    BY <1>2, <2>1, <2>2 DEF Resolve, PgIdentityByKey
<1>3. CASE PgResolveOrCreate(v)
  BY <1>3, ResolvedGood, CreatedGood DEF PgResolveOrCreate
<1>4. QED
  BY <1>1, <1>2, <1>3 DEF Resolve

(* Reading, and the operations that leave customers and identities alone. *)
LEMMA OtherVisitsGood ==
  ASSUME CustomersGood, NEW v \in Visitors,
         Identify(v) \/ Read(v) \/ SetConsent(v) \/ LoyaltyEnroll(v)
  PROVE  CustomersGood'
<1>1. UNCHANGED <<customers, identities, memberships, database>>
  BY DEF Identify, Read, SetConsent, LoyaltyEnroll, Finish, accountState
<1>2. VisitGood(visits[v])
  BY DEF CustomersGood
<1>3. PICK x : visits' = [visits EXCEPT ![v] = x] /\ VisitKept(x)
  <2>1. CASE Identify(v)
    <3>1. PICK l \in VerifySession, o \in Operations :
            visits' = [visits EXCEPT ![v] = [stage |-> "resolve", login |-> l, op |-> o]]
      BY <2>1 DEF Identify
    <3>2. VisitKept([stage |-> "resolve", login |-> l, op |-> o])
      BY DEF VisitKept
    <3>3. QED
      BY <3>1, <3>2
  <2>2. CASE Read(v)
    <3> DEFINE x == [stage |-> "write", op |-> visits[v].op, id |-> visits[v].id,
                     status |-> customers[visits[v].id].status]
    <3>1. VisitKept(x)
      BY <1>1, <1>2, <2>2 DEF VisitGood, VisitKept, Read
    <3>2. visits' = [visits EXCEPT ![v] = x] \/ visits' = [visits EXCEPT ![v] = Nobody]
      BY <2>2 DEF Read
    <3> HIDE DEF x
    <3>3. QED
      BY <3>1, <3>2, NobodyGood
  <2>3. CASE SetConsent(v)
    BY <2>3, NobodyGood DEF SetConsent, Finish
  <2>4. CASE LoyaltyEnroll(v)
    <3>1. \/ visits' = [visits EXCEPT ![v] = [visits[v] EXCEPT !.stage = "bind"]]
          \/ visits' = [visits EXCEPT ![v] = Nobody]
      BY <2>4 DEF LoyaltyEnroll
    <3>2. VisitKept([visits[v] EXCEPT !.stage = "bind"])
      BY <1>1, <1>2, <2>4 DEF VisitGood, VisitKept, LoyaltyEnroll, Writing
    <3>3. QED
      BY <3>1, <3>2, NobodyGood
  <2>5. QED
    BY <2>1, <2>2, <2>3, <2>4
<1>4. QED
  BY <1>1, <1>3, AccountsSame, VisitStep

LEMMA WriteId ==
  ASSUME CustomersGood, NEW v \in Visitors, visits[v].stage \in {"write", "bind"}
  PROVE  visits[v].id \in DOMAIN customers
BY DEF CustomersGood, VisitGood

(* A profile is written to a customer that is active, or in memory, of     *)
(* which nothing is claimed.                                               *)
LEMMA UpdateProfileGood ==
  ASSUME CustomersGood, NEW v \in Visitors, UpdateProfile(v)
  PROVE  CustomersGood'
<1> DEFINE id == visits[v].id
<1>1. id \in DOMAIN customers
  BY WriteId DEF UpdateProfile, Writing
<1>2. /\ visits' = [visits EXCEPT ![v] = Nobody]
      /\ UNCHANGED <<identities, memberships, database>>
  BY DEF UpdateProfile, Finish
<1>3. /\ DOMAIN customers' = DOMAIN customers
      /\ customers' \in [DOMAIN customers -> CustomerRecords]
      /\ database = "postgres" =>
           \A c \in DOMAIN customers : customers'[c] = customers[c] \/ customers'[c].status = "active"
  <2>1. \A c \in DOMAIN customers : customers[c] \in CustomerRecords
    BY DEF CustomersGood, AccountsGood
  <2>2. CASE customers' = customers
    BY <2>2 DEF CustomersGood, AccountsGood
  <2>3. CASE /\ customers' = [customers EXCEPT ![id].profile = "edited"]
             /\ database = "postgres" => customers[id].status = "active"
    BY <1>1, <2>1, <2>3 DEF CustomersGood, AccountsGood, CustomerRecords
  <2>4. QED
    BY <2>2, <2>3 DEF UpdateProfile, PgReplaceProfile, MemReplaceProfile, Active
<1>4. AccountsGood'
  BY <1>2, <1>3 DEF CustomersGood, AccountsGood, AccountsResolveOnce, DeletedProfileCleared
<1>5. QED
  BY <1>2, <1>3, <1>4, NobodyGood, VisitStep

LEMMA LinkIdentityGood ==
  ASSUME CustomersGood, NEW v \in Visitors, LinkIdentity(v)
  PROVE  CustomersGood'
<1> DEFINE id == visits[v].id
<1>1. id \in DOMAIN customers
  BY WriteId DEF LinkIdentity, Writing
<1>2. /\ visits' = [visits EXCEPT ![v] = Nobody]
      /\ UNCHANGED <<customers, memberships, database>>
  BY DEF LinkIdentity, Finish
<1>3. PICK l : identities' = IF l \in DOMAIN identities THEN identities
                             ELSE Put(identities, l, [customer |-> id, active |-> TRUE])
  BY DEF LinkIdentity, PgLinkIdentity, MemLinkIdentity
<1>4. AccountsGood'
  <2>1. CASE l \in DOMAIN identities
    BY <1>2, <1>3, <2>1, AccountsSame
  <2>2. CASE l \notin DOMAIN identities
    <3> DEFINE i == [customer |-> id, active |-> TRUE]
    <3>1. i \in IdentityRecords /\ i.customer = id
      BY <1>1 DEF IdentityRecords, CustomersGood, AccountsGood
    <3>2. /\ DOMAIN identities' = DOMAIN identities \cup {l} /\ identities'[l] = i
          /\ \A k \in DOMAIN identities : identities'[k] = identities[k]
          /\ identities' = [k \in DOMAIN identities' |-> identities'[k]]
      BY <1>3, <2>2 DEF Put
    <3> HIDE DEF i
    <3>3. identities' \in [DOMAIN identities' -> IdentityRecords]
      BY <3>1, <3>2 DEF CustomersGood, AccountsGood
    <3>4. AccountsResolveOnce'
      BY <1>1, <1>2, <3>1, <3>2 DEF CustomersGood, AccountsGood, AccountsResolveOnce
    <3>5. QED
      BY <1>2, <3>3, <3>4 DEF CustomersGood, AccountsGood, DeletedProfileCleared
  <2>3. QED
    BY <2>1, <2>2
<1>5. QED
  BY <1>2, <1>4, NobodyGood, VisitStep

LEMMA BindGood ==
  ASSUME CustomersGood, NEW v \in Visitors, BindLoyaltyMembership(v)
  PROVE  CustomersGood'
<1> DEFINE id == visits[v].id
           m == enrolled[id]
<1>1. /\ visits' = [visits EXCEPT ![v] = Nobody]
      /\ UNCHANGED <<customers, identities, database>>
  BY DEF BindLoyaltyMembership, Finish
<1>2. \/ memberships' = memberships
      \/ /\ \A c \in DOMAIN memberships : memberships[c] # m
         /\ id \notin DOMAIN memberships /\ memberships' = Put(memberships, id, m)
  BY DEF BindLoyaltyMembership, PgBindLoyaltyMembership, MemBindLoyaltyMembership
<1>3. \A c, d \in DOMAIN memberships' : memberships'[c] = memberships'[d] => c = d
  <2>1. CASE memberships' = memberships
    BY <2>1 DEF CustomersGood, AccountsGood, AccountsResolveOnce
  <2>2. CASE /\ \A c \in DOMAIN memberships : memberships[c] # m
             /\ id \notin DOMAIN memberships /\ memberships' = Put(memberships, id, m)
    <3>1. /\ DOMAIN memberships' = DOMAIN memberships \cup {id} /\ memberships'[id] = m
          /\ \A c \in DOMAIN memberships : memberships'[c] = memberships[c]
      BY <2>2 DEF Put
    <3>2. QED
      BY <2>2, <3>1 DEF CustomersGood, AccountsGood, AccountsResolveOnce
  <2>3. QED
    BY <1>2, <2>1, <2>2
<1>4. AccountsGood'
  BY <1>1, <1>3 DEF CustomersGood, AccountsGood, AccountsResolveOnce, DeletedProfileCleared
<1>5. QED
  BY <1>1, <1>4, NobodyGood, VisitStep

LEMMA DeleteGood ==
  ASSUME CustomersGood, NEW v \in Visitors, DeleteAccount(v)
  PROVE  CustomersGood'
<1> DEFINE id == visits[v].id
<1>1. id \in DOMAIN customers
  BY WriteId DEF DeleteAccount, Writing
<1>2. visits' = [visits EXCEPT ![v] = Nobody] /\ UNCHANGED <<memberships, database>>
  BY DEF DeleteAccount, Finish
<1>3. \/ UNCHANGED <<customers, identities>>
      \/ PgDeleteCustomer(id)
  BY DEF DeleteAccount, MemDeleteCustomer
<1>4. CASE UNCHANGED <<customers, identities>>
  BY <1>2, <1>4, AccountsSame, NobodyGood, VisitStep
<1>5. CASE PgDeleteCustomer(id)
  <2> DEFINE r == [status |-> "deleted", profile |-> None]
  <2>1. r \in CustomerRecords /\ r.profile = None
    BY DEF CustomerRecords
  <2>2. /\ DOMAIN customers' = DOMAIN customers /\ customers'[id] = r
        /\ \A c \in DOMAIN customers \ {id} : customers'[c] = customers[c]
        /\ customers' = [c \in DOMAIN customers |-> customers'[c]]
    BY <1>1, <1>5 DEF PgDeleteCustomer, CustomersGood, AccountsGood
  <2> HIDE DEF r
  <2>3. /\ DOMAIN identities' = DOMAIN identities
        /\ identities' = [l \in DOMAIN identities |-> identities'[l]]
        /\ \A l \in DOMAIN identities : \/ identities'[l] = identities[l]
                                        \/ identities'[l] = [identities[l] EXCEPT !.active = FALSE]
    BY <1>5 DEF PgDeleteCustomer
  <2>4. ASSUME NEW l \in DOMAIN identities
        PROVE  /\ identities'[l] \in IdentityRecords
               /\ identities'[l].customer = identities[l].customer
    <3>1. identities[l] \in IdentityRecords
      BY DEF CustomersGood, AccountsGood
    <3>2. QED
      BY <2>3, <3>1 DEF IdentityRecords
  <2>5. customers' \in [DOMAIN customers' -> CustomerRecords]
    BY <2>1, <2>2 DEF CustomersGood, AccountsGood
  <2>6. identities' \in [DOMAIN identities' -> IdentityRecords]
    BY <2>3, <2>4
  <2>7. AccountsResolveOnce'
    BY <1>2, <2>2, <2>3, <2>4 DEF CustomersGood, AccountsGood, AccountsResolveOnce
  <2>8. DeletedProfileCleared'
    BY <1>2, <2>1, <2>2 DEF CustomersGood, AccountsGood, DeletedProfileCleared
  <2>9. AccountsGood'
    BY <2>2, <2>5, <2>6, <2>7, <2>8 DEF CustomersGood, AccountsGood
  <2>10. QED
    BY <1>2, <2>2, <2>9, NobodyGood, VisitStep
<1>6. QED
  BY <1>3, <1>4, <1>5

LEMMA CustomersGoodInit == CustomersInit => CustomersGood
<1> SUFFICES ASSUME CustomersInit PROVE CustomersGood
  OBVIOUS
<1>1. /\ customers = << >> /\ identities = << >> /\ memberships = << >>
      /\ DOMAIN customers = {} /\ DOMAIN identities = {} /\ DOMAIN memberships = {}
  BY DEF CustomersInit
<1>2. AccountsGood
  BY <1>1 DEF AccountsGood, AccountsResolveOnce, DeletedProfileCleared
<1>3. DOMAIN visits = Visitors /\ visits = [v \in Visitors |-> visits[v]]
      /\ \A v \in Visitors : visits[v] = Nobody
  BY DEF CustomersInit
<1>4. QED
  BY <1>2, <1>3, NobodyGood DEF CustomersGood

LEMMA CustomersGoodStep == CustomersGood /\ [CustomersNext]_customerVars => CustomersGood'
<1> SUFFICES ASSUME CustomersGood, [CustomersNext]_customerVars PROVE CustomersGood'
  OBVIOUS
<1>1. CASE UNCHANGED customerVars
  BY <1>1 DEF customerVars, accountState, CustomersGood, AccountsGood, AccountsResolveOnce,
              DeletedProfileCleared, VisitGood
<1>2. QED
  BY <1>1, ResolveGood, OtherVisitsGood, UpdateProfileGood, LinkIdentityGood, BindGood, DeleteGood
  DEF CustomersNext

LEMMA AlwaysCustomersGood == CustomersSpec => []CustomersGood
BY CustomersGoodInit, CustomersGoodStep, PTL DEF CustomersSpec

(* First sign-ins that overlap leave one customer for a login, no customer *)
(* without one, and no member with two (resolveOrCreate and                *)
(* bindLoyaltyMembership).                                                 *)
THEOREM LoginsResolveOnce == CustomersSpec => []AccountsResolveOnce
<1>1. CustomersGood => AccountsResolveOnce
  BY DEF CustomersGood, AccountsGood
<1>2. QED
  BY <1>1, AlwaysCustomersGood, PTL

(* On Postgres an edit that overlaps the deletion of the account leaves no *)
(* profile behind (replaceProfile and deleteCustomer).                     *)
THEOREM DeletionClears == CustomersSpec => []DeletedProfileCleared
<1>1. CustomersGood => DeletedProfileCleared
  BY DEF CustomersGood, AccountsGood
<1>2. QED
  BY <1>1, AlwaysCustomersGood, PTL

-------------------------------------------------------------------------------
(* Sums over a finite set of usage events: that the fold over the set has  *)
(* a value, and that it does not matter in which order the events are      *)
(* taken.                                                                  *)

(* A set of subsets of T that has each subset whose proper subsets it has  *)
(* has them all.                                                           *)
LEMMA SubsetInduction ==
  ASSUME NEW T, IsFiniteSet(T), NEW Q \in SUBSET SUBSET T,
         \A S \in SUBSET T : (\A R \in SUBSET S : R # S => R \in Q) => S \in Q
  PROVE  Q = SUBSET T
<1> DEFINE W == (SUBSET T) \ Q
           D == FiniteSubsetsOf(T)
           L == StrictSubsetOrdering(T)
<1>1. SUFFICES ASSUME W # {} PROVE FALSE
  OBVIOUS
<1>2. W \subseteq D
  BY FS_Subset DEF FiniteSubsetsOf
<1>3. IsWellFoundedOn(L, D)
  BY FS_StrictSubsetOrderingWellFounded
<1> HIDE DEF W, D, L
<1>4. PICK S \in W : \A R \in W : ~(<<R, S>> \in L)
  BY <1>1, <1>2, <1>3, WFMin
<1> USE DEF W
<1>5. ASSUME NEW R \in SUBSET S, R # S PROVE R \in Q
  BY <1>4, <1>5 DEF StrictSubsetOrdering, L
<1>6. QED
  BY <1>4, <1>5

Some(s) == CHOOSE x \in s : TRUE
Counted(events, S) == IsFiniteSet(S) /\ \A e \in S : events[e].quantity \in Int

(* h gives each subset of S the sum of its events. *)
Summing(h, events, S) ==
  h = [s \in SUBSET S |-> IF s = {} THEN 0 ELSE events[Some(s)].quantity + h[s \ {Some(s)}]]
SumOf(events, S) == (CHOOSE h : Summing(h, events, S))[S]

LEMMA SumOfIsSum ==
  ASSUME NEW events, NEW S
  PROVE  MapThenSumSet(LAMBDA e : events[e].quantity, S) = SumOf(events, S)
BY DEF MapThenSumSet, MapThenFoldSet, SumOf, Summing, Some

LEMMA SummingAt ==
  ASSUME NEW events, NEW S, NEW h, Summing(h, events, S), NEW s \in SUBSET S
  PROVE  h[s] = IF s = {} THEN 0 ELSE events[Some(s)].quantity + h[s \ {Some(s)}]
BY DEF Summing

(* S has a sum, and it is what every map of sums says of S. *)
Summed(events, S) ==
  /\ \E h : Summing(h, events, S)
  /\ \A T, h : S \subseteq T /\ Summing(h, events, T) => h[S] = SumOf(events, S)
  /\ SumOf(events, S) =
       IF S = {} THEN 0 ELSE events[Some(S)].quantity + SumOf(events, S \ {Some(S)})

LEMMA SumsExist ==
  ASSUME NEW events, NEW S, \A R \in SUBSET S : R # S => Summed(events, R)
  PROVE  Summed(events, S)
<1> DEFINE H == [s \in SUBSET S |-> IF s = S
                   THEN IF S = {} THEN 0 ELSE events[Some(S)].quantity + SumOf(events, S \ {Some(S)})
                   ELSE SumOf(events, s)]
<1>1. ASSUME NEW s, s # {} PROVE Some(s) \in s
  BY <1>1 DEF Some
<1>2. ASSUME NEW s \in SUBSET S
      PROVE  H[s] = IF s = {} THEN 0 ELSE events[Some(s)].quantity + H[s \ {Some(s)}]
  <2>1. CASE s = {}
    BY <2>1 DEF Summed
  <2>2. CASE s # {}
    <3>1. s \ {Some(s)} \in SUBSET S /\ s \ {Some(s)} # S
      BY <1>1, <2>2
    <3>2. H[s \ {Some(s)}] = SumOf(events, s \ {Some(s)})
      BY <3>1
    <3>3. H[s] = events[Some(s)].quantity + SumOf(events, s \ {Some(s)})
      BY <2>2 DEF Summed
    <3>4. QED
      BY <2>2, <3>2, <3>3
  <2>3. QED
    BY <2>1, <2>2
<1>3. Summing(H, events, S)
  <2>1. H = [s \in SUBSET S |-> H[s]]
    OBVIOUS
  <2> HIDE DEF H
  <2>2. QED
    BY <1>2, <2>1 DEF Summing
<1> HIDE DEF H
<1> DEFINE rest == S \ {Some(S)}
<1>4. ASSUME NEW T, NEW h, S \subseteq T, Summing(h, events, T)
      PROVE  h[S] = IF S = {} THEN 0 ELSE events[Some(S)].quantity + SumOf(events, rest)
  <2>1. h[S] = IF S = {} THEN 0 ELSE events[Some(S)].quantity + h[rest]
    BY <1>4, SummingAt
  <2>2. S # {} => rest \in SUBSET S /\ rest # S
    BY <1>1
  <2> HIDE DEF rest
  <2>3. S # {} => h[rest] = SumOf(events, rest)
    BY <1>4, <2>2 DEF Summed
  <2>4. QED
    BY <2>1, <2>3
<1>5. Summing(CHOOSE h : Summing(h, events, S), events, S)
  BY <1>3
<1>6. SumOf(events, S) = IF S = {} THEN 0 ELSE events[Some(S)].quantity + SumOf(events, rest)
  <2> DEFINE g == CHOOSE h : Summing(h, events, S)
  <2>1. SumOf(events, S) = g[S] /\ Summing(g, events, S)
    BY <1>5 DEF SumOf
  <2> HIDE DEF g, rest
  <2>2. QED
    BY <1>4, <2>1
<1>7. QED
  BY <1>3, <1>4, <1>6 DEF Summed

LEMMA AllSummed ==
  ASSUME NEW events, NEW S, IsFiniteSet(S)
  PROVE  Summed(events, S)
<1> DEFINE Q == {R \in SUBSET S : Summed(events, R)}
<1>1. ASSUME NEW T \in SUBSET S, \A R \in SUBSET T : R # T => R \in Q PROVE T \in Q
  BY <1>1, SumsExist
<1>2. Q \in SUBSET SUBSET S
  OBVIOUS
<1> HIDE DEF Q
<1>3. Q = SUBSET S
  BY <1>1, <1>2, SubsetInduction
<1>4. QED
  BY <1>3 DEF Q

(* What the sum of the events of a set is. *)
LEMMA SumOfNone == ASSUME NEW events PROVE SumOf(events, {}) = 0
BY AllSummed, FS_EmptySet DEF Summed

LEMMA SumOfRest ==
  ASSUME NEW events, NEW S, IsFiniteSet(S), S # {}
  PROVE  /\ Some(S) \in S
         /\ SumOf(events, S) = events[Some(S)].quantity + SumOf(events, S \ {Some(S)})
<1>1. Some(S) \in S
  BY DEF Some
<1>2. QED
  BY <1>1, AllSummed DEF Summed

LEMMA SumOfType ==
  ASSUME NEW events, NEW S, Counted(events, S)
  PROVE  SumOf(events, S) \in Int
<1> DEFINE Q == {R \in SUBSET S : SumOf(events, R) \in Int}
<1>1. ASSUME NEW T \in SUBSET S, \A R \in SUBSET T : R # T => R \in Q PROVE SumOf(events, T) \in Int
  <2>1. CASE T = {}
    BY <2>1, SumOfNone
  <2>2. CASE T # {}
    <3> DEFINE rest == T \ {Some(T)}
    <3>1. IsFiniteSet(T)
      BY FS_Subset DEF Counted
    <3>2. Some(T) \in T /\ SumOf(events, T) = events[Some(T)].quantity + SumOf(events, rest)
      BY <2>2, <3>1, SumOfRest
    <3>3. rest \in SUBSET T /\ rest # T
      BY <3>2
    <3> HIDE DEF rest
    <3>4. SumOf(events, rest) \in Int
      BY <1>1, <3>3
    <3>5. events[Some(T)].quantity \in Int
      BY <3>2 DEF Counted
    <3>6. QED
      BY <3>2, <3>4, <3>5
  <2>3. QED
    BY <2>1, <2>2
<1>2. Q \in SUBSET SUBSET S /\ \A T \in SUBSET S : SumOf(events, T) \in Int => T \in Q
  OBVIOUS
<1>3. \A T \in SUBSET S : (\A R \in SUBSET T : R # T => R \in Q) => T \in Q
  BY <1>1, <1>2
<1> HIDE DEF Q
<1>4. Q = SUBSET S
  BY <1>2, <1>3, SubsetInduction DEF Counted
<1>5. QED
  BY <1>4 DEF Q

(* The sum is the same in whichever order the events are taken. *)
LEMMA SumOfWithout ==
  ASSUME NEW events, NEW S, Counted(events, S), NEW x \in S
  PROVE  SumOf(events, S) = events[x].quantity + SumOf(events, S \ {x})
<1> DEFINE Splits(T) == \A y \in T : SumOf(events, T) = events[y].quantity + SumOf(events, T \ {y})
           Q == {R \in SUBSET S : Splits(R)}
<1>1. ASSUME NEW T \in SUBSET S, \A R \in SUBSET T : R # T => R \in Q, NEW y \in T
      PROVE  SumOf(events, T) = events[y].quantity + SumOf(events, T \ {y})
  <2> DEFINE p    == Some(T)
             both == (T \ {p}) \ {y}
  <2>1. IsFiniteSet(T) /\ T # {} /\ IsFiniteSet(T \ {p}) /\ IsFiniteSet(both) /\ IsFiniteSet(T \ {y})
    <3>1. IsFiniteSet(T)
      BY FS_Subset DEF Counted
    <3>2. QED
      BY <3>1, FS_Subset
  <2>2. p \in T /\ SumOf(events, T) = events[p].quantity + SumOf(events, T \ {p})
    BY <2>1, SumOfRest
  <2> HIDE DEF p
  <2>3. CASE p = y
    BY <2>2, <2>3
  <2>4. CASE p # y
    <3>1. T \ {p} \in Q /\ T \ {y} \in Q /\ y \in T \ {p} /\ p \in T \ {y} /\ (T \ {y}) \ {p} = both
      BY <1>1, <2>2, <2>4
    <3>2. /\ SumOf(events, T \ {p}) = events[y].quantity + SumOf(events, both)
          /\ SumOf(events, T \ {y}) = events[p].quantity + SumOf(events, both)
      BY <3>1
    <3>3. events[y].quantity \in Int /\ events[p].quantity \in Int
      BY <2>2 DEF Counted
    <3>4. SumOf(events, both) \in Int
      <4>1. Counted(events, both)
        BY <2>1 DEF Counted
      <4>2. QED
        BY <4>1, SumOfType
    <3>5. QED
      BY <2>2, <3>2, <3>3, <3>4
  <2>5. QED
    BY <2>3, <2>4
<1>2. Q \in SUBSET SUBSET S /\ \A T \in SUBSET S : Splits(T) => T \in Q
  OBVIOUS
<1>3. \A T \in SUBSET S : (\A R \in SUBSET T : R # T => R \in Q) => T \in Q
  BY <1>1, <1>2
<1> HIDE DEF Q
<1>4. Q = SUBSET S
  BY <1>2, <1>3, SubsetInduction DEF Counted
<1>5. QED
  BY <1>4 DEF Q

LEMMA SumOfSame ==
  ASSUME NEW f, NEW g, NEW S, IsFiniteSet(S), \A e \in S : f[e].quantity = g[e].quantity
  PROVE  SumOf(f, S) = SumOf(g, S)
<1> DEFINE Q == {R \in SUBSET S : SumOf(f, R) = SumOf(g, R)}
<1>1. ASSUME NEW T \in SUBSET S, \A R \in SUBSET T : R # T => R \in Q
      PROVE  SumOf(f, T) = SumOf(g, T)
  <2>1. CASE T = {}
    BY <2>1, SumOfNone
  <2>2. CASE T # {}
    <3> DEFINE rest == T \ {Some(T)}
    <3>1. IsFiniteSet(T)
      BY FS_Subset
    <3>2. /\ Some(T) \in T
          /\ SumOf(f, T) = f[Some(T)].quantity + SumOf(f, rest)
          /\ SumOf(g, T) = g[Some(T)].quantity + SumOf(g, rest)
      BY <2>2, <3>1, SumOfRest
    <3>3. rest \in SUBSET T /\ rest # T
      BY <3>2
    <3> HIDE DEF rest
    <3>4. SumOf(f, rest) = SumOf(g, rest)
      BY <1>1, <3>3
    <3>5. QED
      BY <3>2, <3>4
  <2>3. QED
    BY <2>1, <2>2
<1>2. Q \in SUBSET SUBSET S /\ \A T \in SUBSET S : SumOf(f, T) = SumOf(g, T) => T \in Q
  OBVIOUS
<1>3. \A T \in SUBSET S : (\A R \in SUBSET T : R # T => R \in Q) => T \in Q
  BY <1>1, <1>2
<1> HIDE DEF Q
<1>4. Q = SUBSET S
  BY <1>2, <1>3, SubsetInduction
<1>5. QED
  BY <1>4 DEF Q

-------------------------------------------------------------------------------
(* Organizations.  A call reads the limit of the plan before its           *)
(* transaction, which may come after the plan changed: the counter stays   *)
(* within the limit of some plan, and is the sum of the stored events.     *)
EventsOf(events, p, m) == {e \in DOMAIN events : e[1] = p /\ events[e].month = m}
UsedIn(counters, p, m) == IF <<p, m>> \in DOMAIN counters THEN counters[<<p, m>>] ELSE 0
Allowed(n) == \E plan \in Plans : n <= HardLimit[plan]

UsageGood(events, counters) ==
  /\ Counted(events, DOMAIN events)
  /\ \A p, m : /\ UsedIn(counters, p, m) = SumOf(events, EventsOf(events, p, m))
               /\ Allowed(UsedIn(counters, p, m))

(* What a call in progress has read of the organizations `known'. *)
AskGood(call, known) ==
  /\ call.op = "usage" => call.quantity \in Nat /\ \E plan \in Plans : call.limit = HardLimit[plan]
  /\ call.op = "billing" => call.to.plan \in Plans
  /\ call.op = "cancelled" => call.was.plan \in Plans
  /\ call.op = "project" => call.org \in known

PlansGood ==
  /\ DOMAIN orgs \subseteq DOMAIN subscriptions
  /\ \A o \in DOMAIN subscriptions : subscriptions[o].plan \in Plans
  /\ \A p \in DOMAIN projects : projects[p].org \in DOMAIN subscriptions
  /\ \A ck \in checkouts : ck[2] \in Plans

AsksGood(calling, known) == DOMAIN calling = Callers /\ \A c \in Callers : AskGood(calling[c], known)

OrganizationsGood ==
  PlansGood /\ UsageGood(usageEvents, usageCounters) /\ AsksGood(asks, DOMAIN subscriptions)

LEMMA UsageStep ==
  ASSUME NEW events, NEW counters, UsageGood(events, counters),
         NEW p, NEW k, <<p, k>> \notin DOMAIN events, NEW m, NEW q \in Nat,
         NEW plan \in Plans, UsedIn(counters, p, m) + q <= HardLimit[plan]
  PROVE  UsageGood(Put(events, <<p, k>>, [month |-> m, quantity |-> q]),
                   Put(counters, <<p, m>>, UsedIn(counters, p, m) + q))
<1> DEFINE x  == <<p, k>>
           es == Put(events, x, [month |-> m, quantity |-> q])
           cs == Put(counters, <<p, m>>, UsedIn(counters, p, m) + q)
<1>1. /\ DOMAIN es = DOMAIN events \cup {x} /\ es[x].month = m /\ es[x].quantity = q
      /\ \A e \in DOMAIN events : es[e] = events[e]
  BY DEF Put
<1>2. /\ UsedIn(cs, p, m) = UsedIn(counters, p, m) + q
      /\ \A r, n : <<r, n>> # <<p, m>> => UsedIn(cs, r, n) = UsedIn(counters, r, n)
  BY DEF Put, UsedIn
<1>3. x[1] = p /\ x \notin DOMAIN events
  OBVIOUS
<1> HIDE DEF x, es, cs
<1>4. Counted(es, DOMAIN es)
  <2>1. IsFiniteSet(DOMAIN events \cup {x})
    BY FS_AddElement DEF UsageGood, Counted
  <2>2. QED
    BY <1>1, <2>1 DEF UsageGood, Counted
<1>5. ASSUME NEW r, NEW n
      PROVE  /\ IsFiniteSet(EventsOf(events, r, n)) /\ IsFiniteSet(EventsOf(es, r, n))
             /\ Counted(es, EventsOf(es, r, n))
             /\ SumOf(es, EventsOf(events, r, n)) = SumOf(events, EventsOf(events, r, n))
  <2>1. IsFiniteSet(EventsOf(events, r, n)) /\ IsFiniteSet(EventsOf(es, r, n))
    BY <1>4, FS_Subset DEF EventsOf, UsageGood, Counted
  <2>2. Counted(es, EventsOf(es, r, n))
    BY <1>4, <2>1 DEF Counted, EventsOf
  <2>3. \A e \in EventsOf(events, r, n) : es[e].quantity = events[e].quantity
    BY <1>1 DEF EventsOf
  <2>4. QED
    BY <2>1, <2>2, <2>3, SumOfSame
<1>6. ASSUME NEW r, NEW n
      PROVE  UsedIn(cs, r, n) = SumOf(es, EventsOf(es, r, n)) /\ Allowed(UsedIn(cs, r, n))
  <2>1. UsedIn(counters, r, n) = SumOf(events, EventsOf(events, r, n)) /\ Allowed(UsedIn(counters, r, n))
    BY DEF UsageGood
  <2>2. CASE r = p /\ n = m
    <3>1. EventsOf(es, p, m) = EventsOf(events, p, m) \cup {x} /\ x \notin EventsOf(events, p, m)
      BY <1>1, <1>3 DEF EventsOf
    <3>2. x \in EventsOf(es, p, m) /\ EventsOf(es, p, m) \ {x} = EventsOf(events, p, m)
      BY <3>1
    <3>3. SumOf(es, EventsOf(es, p, m)) = q + SumOf(es, EventsOf(events, p, m))
      BY <1>1, <1>5, <3>2, SumOfWithout
    <3>4. SumOf(events, EventsOf(events, p, m)) \in Int
      <4>1. Counted(events, EventsOf(events, p, m))
        <5>1. \A e \in DOMAIN events : events[e].quantity \in Int
          BY DEF UsageGood, Counted
        <5>2. EventsOf(events, p, m) \subseteq DOMAIN events
          BY DEF EventsOf
        <5>3. QED
          BY <1>5, <5>1, <5>2 DEF Counted
      <4>2. QED
        BY <4>1, SumOfType
    <3>5. UsedIn(cs, p, m) = SumOf(es, EventsOf(es, p, m))
      BY <1>2, <1>5, <2>1, <2>2, <3>3, <3>4
    <3>6. Allowed(UsedIn(cs, p, m))
      BY <1>2 DEF Allowed
    <3>7. QED
      BY <2>2, <3>5, <3>6
  <2>3. CASE ~(r = p /\ n = m)
    <3>1. EventsOf(es, r, n) = EventsOf(events, r, n)
      BY <1>1, <1>3, <2>3 DEF EventsOf
    <3>2. UsedIn(cs, r, n) = UsedIn(counters, r, n)
      BY <1>2, <2>3
    <3>3. QED
      BY <1>5, <2>1, <3>1, <3>2
  <2>4. QED
    BY <2>2, <2>3
<1>7. UsageGood(es, cs)
  BY <1>4, <1>6 DEF UsageGood
<1>8. QED
  BY <1>7 DEF es, cs, x

LEMMA GoodAgain ==
  ASSUME PlansGood', UsageGood(usageEvents', usageCounters'), AsksGood(asks', DOMAIN subscriptions')
  PROVE  OrganizationsGood'
<1>1. UsageGood(usageEvents, usageCounters)'
  <2>1. Counted(usageEvents, DOMAIN usageEvents)'
    BY DEF UsageGood, Counted
  <2>2. ASSUME NEW p, NEW m
        PROVE  /\ (UsedIn(usageCounters, p, m) = SumOf(usageEvents, EventsOf(usageEvents, p, m)))'
               /\ Allowed(UsedIn(usageCounters, p, m))'
    <3>1. SumOf(usageEvents, EventsOf(usageEvents, p, m))' = SumOf(usageEvents', EventsOf(usageEvents', p, m))
      BY Zenon DEF SumOf, Summing, Some, EventsOf
    <3>2. UsedIn(usageCounters, p, m)' = UsedIn(usageCounters', p, m)
      BY DEF UsedIn
    <3>3. Allowed(UsedIn(usageCounters, p, m))' = Allowed(UsedIn(usageCounters', p, m))
      BY DEF UsedIn, Allowed
    <3>4. QED
      BY <3>1, <3>2, <3>3 DEF UsageGood
  <2>3. QED
    BY <2>1, <2>2 DEF UsageGood
<1>2. AsksGood(asks, DOMAIN subscriptions)'
  BY DEF AsksGood, AskGood
<1>3. QED
  BY <1>1, <1>2 DEF OrganizationsGood

(* A call that is asked, or goes on, when what it read is good. *)
LEMMA AskStep ==
  ASSUME OrganizationsGood, NEW c \in Callers, NEW call, AskGood(call, DOMAIN subscriptions),
         asks' = [asks EXCEPT ![c] = call], UNCHANGED organizationState
  PROVE  OrganizationsGood'
<1>1. AsksGood(asks', DOMAIN subscriptions)
  BY DEF OrganizationsGood, AsksGood
<1>2. PlansGood'
  BY DEF OrganizationsGood, PlansGood, organizationState
<1>3. QED
  BY <1>1, <1>2, GoodAgain DEF OrganizationsGood, organizationState

LEMMA RestStep ==
  ASSUME OrganizationsGood, UNCHANGED <<usageEvents, usageCounters, asks>>,
         DOMAIN subscriptions \subseteq DOMAIN subscriptions', PlansGood'
  PROVE  OrganizationsGood'
<1>1. AsksGood(asks', DOMAIN subscriptions')
  BY DEF OrganizationsGood, AsksGood, AskGood
<1>2. QED
  BY <1>1, GoodAgain DEF OrganizationsGood

(* What the transactions change. *)
LEMMA TransactionGood ==
  ASSUME OrganizationsGood, NEW call, AskGood(call, DOMAIN subscriptions), Transaction(call)
  PROVE  /\ PlansGood' /\ DOMAIN subscriptions \subseteq DOMAIN subscriptions'
         /\ UsageGood(usageEvents', usageCounters')
<1>0. PlansGood /\ UsageGood(usageEvents, usageCounters)
  BY DEF OrganizationsGood
<1>1. ASSUME UNCHANGED <<orgs, projects, subscriptions, checkouts, usageEvents, usageCounters>>
      PROVE  /\ PlansGood' /\ DOMAIN subscriptions \subseteq DOMAIN subscriptions'
             /\ UsageGood(usageEvents', usageCounters')
  BY <1>0, <1>1 DEF PlansGood
<1>2. ASSUME NEW o \in Orgs \ DOMAIN orgs, AddOrganization(o, call)
      PROVE  /\ PlansGood' /\ DOMAIN subscriptions \subseteq DOMAIN subscriptions'
             /\ UsageGood(usageEvents', usageCounters')
  <2> DEFINE new == [plan |-> FreePlan, status |-> "active", bound |-> None]
  <2>1. /\ orgs' = Put(orgs, o, call.slug) /\ subscriptions' = Put(subscriptions, o, new)
        /\ UNCHANGED <<projects, checkouts, usageEvents, usageCounters>>
    BY <1>2 DEF AddOrganization
  <2>2. new.plan \in Plans
    BY OrganizationsAssumption
  <2> HIDE DEF new
  <2>3. /\ DOMAIN orgs' = DOMAIN orgs \cup {o} /\ DOMAIN subscriptions' = DOMAIN subscriptions \cup {o}
        /\ subscriptions'[o] = new
        /\ \A x \in DOMAIN subscriptions : subscriptions'[x] \in {subscriptions[x], new}
    BY <2>1 DEF Put
  <2>4. PlansGood'
    BY <1>0, <2>1, <2>2, <2>3 DEF PlansGood
  <2>5. QED
    BY <1>0, <2>1, <2>3, <2>4
<1>3. ASSUME NEW p, AddProject(p, call), call.op = "project"
      PROVE  /\ PlansGood' /\ DOMAIN subscriptions \subseteq DOMAIN subscriptions'
             /\ UsageGood(usageEvents', usageCounters')
  <2> DEFINE new == [org |-> call.org, slug |-> call.slug]
  <2>1. /\ projects' = Put(projects, p, new)
        /\ UNCHANGED <<orgs, subscriptions, checkouts, usageEvents, usageCounters>>
    BY <1>3 DEF AddProject
  <2>2. new.org \in DOMAIN subscriptions
    BY <1>3 DEF AskGood
  <2> HIDE DEF new
  <2>3. /\ DOMAIN projects' = DOMAIN projects \cup {p}
        /\ \A x \in DOMAIN projects' : projects'[x] = new \/ (x \in DOMAIN projects /\ projects'[x] = projects[x])
    BY <2>1 DEF Put
  <2>4. PlansGood'
    BY <1>0, <2>1, <2>2, <2>3 DEF PlansGood
  <2>5. QED
    BY <1>0, <2>1, <2>4
<1>4. ASSUME PgReplaceSubscription(call), call.op = "billing"
      PROVE  /\ PlansGood' /\ DOMAIN subscriptions \subseteq DOMAIN subscriptions'
             /\ UsageGood(usageEvents', usageCounters')
  <2>1. /\ subscriptions' = [subscriptions EXCEPT ![call.org] = call.to]
        /\ UNCHANGED <<orgs, projects, checkouts, usageEvents, usageCounters>>
    BY <1>4 DEF PgReplaceSubscription
  <2>2. call.to.plan \in Plans
    BY <1>4 DEF AskGood
  <2>3. /\ DOMAIN subscriptions' = DOMAIN subscriptions
        /\ \A x \in DOMAIN subscriptions : subscriptions'[x] \in {subscriptions[x], call.to}
    BY <2>1
  <2>4. PlansGood'
    BY <1>0, <2>1, <2>2, <2>3 DEF PlansGood
  <2>5. QED
    BY <1>0, <2>1, <2>3, <2>4
<1>5. ASSUME PgRecordUsage(call), call.op = "usage"
      PROVE  /\ PlansGood' /\ DOMAIN subscriptions \subseteq DOMAIN subscriptions'
             /\ UsageGood(usageEvents', usageCounters')
  <2> DEFINE p == call.project
             m == call.month
             used == UsedIn(usageCounters, p, m)
  <2>1. /\ <<p, call.key>> \notin DOMAIN usageEvents /\ used + call.quantity <= call.limit
        /\ usageEvents' = Put(usageEvents, <<p, call.key>>, [month |-> m, quantity |-> call.quantity])
        /\ usageCounters' = Put(usageCounters, <<p, m>>, used + call.quantity)
        /\ UNCHANGED <<orgs, projects, subscriptions, checkouts>>
    BY <1>5 DEF PgRecordUsage, Used, UsedIn
  <2>2. call.quantity \in Nat /\ \E plan \in Plans : call.limit = HardLimit[plan]
    BY <1>5 DEF AskGood
  <2> HIDE DEF p, m
  <2>3. UsageGood(usageEvents', usageCounters')
    BY <1>0, <2>1, <2>2, UsageStep
  <2>4. QED
    BY <1>0, <2>1, <2>3 DEF PlansGood
<1>6. CASE call.op = "organization" /\ (PgCreateOrganization(call) \/ MemCreateOrganization(call))
  BY <1>2, <1>6 DEF PgCreateOrganization, MemCreateOrganization
<1>7. CASE call.op = "project" /\ (PgCreateProject(call) \/ MemCreateProject(call))
  BY <1>3, <1>7 DEF PgCreateProject, MemCreateProject
<1>8. CASE PgUpdateMembership(call) \/ PgCreateInvitation(call)
  BY <1>1, <1>8 DEF PgUpdateMembership, PgCreateInvitation
<1>9. QED
  BY <1>4, <1>5, <1>6, <1>7, <1>8
     DEF Transaction, MemUpdateMembership, MemCreateInvitation, MemReplaceSubscription, MemRecordUsage

LEMMA CommitCallGood ==
  ASSUME OrganizationsGood, NEW c \in Callers, CommitCall(c)
  PROVE  OrganizationsGood'
<1>1. AskGood(asks[c], DOMAIN subscriptions) /\ asks' = [asks EXCEPT ![c] = Quiet]
  BY DEF OrganizationsGood, AsksGood, CommitCall
<1>q. \A known : AskGood(Quiet, known)
  BY DEF AskGood, Quiet
<1>2. CASE UNCHANGED organizationState
  BY <1>1, <1>2, <1>q, AskStep
<1>3. CASE Transaction(asks[c])
  <2>1. /\ PlansGood' /\ DOMAIN subscriptions \subseteq DOMAIN subscriptions'
        /\ UsageGood(usageEvents', usageCounters')
    BY <1>1, <1>3, TransactionGood
  <2>2. \A d \in Callers : AskGood(asks[d], DOMAIN subscriptions')
    BY <2>1 DEF OrganizationsGood, AsksGood, AskGood
  <2>3. AsksGood(asks', DOMAIN subscriptions')
    BY <1>1, <1>q, <2>2 DEF OrganizationsGood, AsksGood
  <2>4. QED
    BY <2>1, <2>3, GoodAgain
<1>4. QED
  BY <1>2, <1>3 DEF CommitCall

LEMMA OrganizationsStep ==
  ASSUME OrganizationsGood, OrganizationsNext
  PROVE  OrganizationsGood'
<1>0. PlansGood /\ AsksGood(asks, DOMAIN subscriptions)
  BY DEF OrganizationsGood
<1>1. ASSUME NEW c \in Callers, NEW call, Ask(c, call), AskGood(call, DOMAIN subscriptions)
      PROVE  OrganizationsGood'
  BY <1>1, AskStep DEF Ask
<1>2. ASSUME UNCHANGED <<orgs, projects, subscriptions, checkouts, usageEvents, usageCounters, asks>>
      PROVE  OrganizationsGood'
  <2>1. PlansGood'
    BY <1>0, <1>2 DEF PlansGood
  <2>2. QED
    BY <1>2, <2>1, RestStep
<1>3. CASE NextDay \/ AcceptInvitation
  BY <1>2, <1>3 DEF NextDay, AcceptInvitation, organizationState
<1>4. ASSUME NEW c \in Callers, AskOrganization(c) PROVE OrganizationsGood'
  <2>1. PICK u \in Users, s \in Slugs : Ask(c, [op |-> "organization", user |-> u, slug |-> s])
    BY <1>4 DEF AskOrganization
  <2>2. AskGood([op |-> "organization", user |-> u, slug |-> s], DOMAIN subscriptions)
    BY DEF AskGood
  <2>3. QED
    BY <1>1, <2>1, <2>2
<1>5. ASSUME NEW c \in Callers, AskMember(c) PROVE OrganizationsGood'
  <2>1. PICK at, r, a : Ask(c, [op |-> "member", at |-> at, role |-> r, active |-> a])
    BY <1>5 DEF AskMember
  <2>2. AskGood([op |-> "member", at |-> at, role |-> r, active |-> a], DOMAIN subscriptions)
    BY DEF AskGood
  <2>3. QED
    BY <1>1, <2>1, <2>2
<1>6. ASSUME NEW c \in Callers, AskInvitation(c) PROVE OrganizationsGood'
  <2>1. PICK o, t, r, e :
          Ask(c, [op |-> "invitation", org |-> o, email |-> EmailOf[t], role |-> r, expires |-> e])
    BY <1>6 DEF AskInvitation
  <2>2. AskGood([op |-> "invitation", org |-> o, email |-> EmailOf[t], role |-> r, expires |-> e],
                DOMAIN subscriptions)
    BY DEF AskGood
  <2>3. QED
    BY <1>1, <2>1, <2>2
<1>7. ASSUME NEW c \in Callers, AskProject(c) PROVE OrganizationsGood'
  <2>1. PICK o \in DOMAIN orgs, s \in Slugs : Ask(c, [op |-> "project", org |-> o, slug |-> s])
    BY <1>7 DEF AskProject
  <2>2. AskGood([op |-> "project", org |-> o, slug |-> s], DOMAIN subscriptions)
    BY <1>0 DEF AskGood, PlansGood
  <2>3. QED
    BY <1>1, <2>1, <2>2
<1>8. ASSUME NEW c \in Callers, AskUsage(c) PROVE OrganizationsGood'
  <2>1. PICK p \in DOMAIN projects, k \in UsageKeys, q \in Quantities, m \in Months :
          Ask(c, [op |-> "usage", project |-> p, key |-> k, quantity |-> q, month |-> m,
                  limit |-> HardLimit[subscriptions[projects[p].org].plan]])
    BY <1>8 DEF AskUsage
  <2>2. subscriptions[projects[p].org].plan \in Plans /\ q \in Nat
    BY <1>0, OrganizationsAssumption DEF PlansGood
  <2>3. AskGood([op |-> "usage", project |-> p, key |-> k, quantity |-> q, month |-> m,
                 limit |-> HardLimit[subscriptions[projects[p].org].plan]], DOMAIN subscriptions)
    BY <2>2 DEF AskGood
  <2>4. QED
    BY <1>1, <2>1, <2>3
<1>9. ASSUME NEW c \in Callers, CreateBillingCheckout(c) PROVE OrganizationsGood'
  <2>1. PICK o, p : p \in Plans /\ checkouts' = checkouts \cup {<<o, p>>}
    BY <1>9 DEF CreateBillingCheckout
  <2>2. UNCHANGED <<orgs, projects, subscriptions, usageEvents, usageCounters, asks>>
    BY <1>9 DEF CreateBillingCheckout
  <2>3. PlansGood'
    BY <1>0, <2>1, <2>2 DEF PlansGood
  <2>4. QED
    BY <2>2, <2>3, RestStep
<1>10. ASSUME NEW o, NEW p \in Plans, NEW x, NEW s
       PROVE  AskGood(BillingUpdate(o, p, x, s), DOMAIN subscriptions)
  BY DEF AskGood, BillingUpdate
<1>11. ASSUME NEW c \in Callers, AskBillingWebhook(c) PROVE OrganizationsGood'
  <2>1. PICK ck \in checkouts, x \in Stripe, s \in SubscriptionStatus :
          Ask(c, BillingUpdate(ck[1], ck[2], x, s))
    BY <1>11 DEF AskBillingWebhook
  <2>2. ck[2] \in Plans
    BY <1>0 DEF PlansGood
  <2>3. QED
    BY <1>1, <1>10, <2>1, <2>2
<1>12. ASSUME NEW c \in Callers, AskCancel(c) PROVE OrganizationsGood'
  <2>1. PICK o \in DOMAIN orgs : Ask(c, [op |-> "cancelled", org |-> o, was |-> subscriptions[o]])
    BY <1>12 DEF AskCancel
  <2>2. AskGood([op |-> "cancelled", org |-> o, was |-> subscriptions[o]], DOMAIN subscriptions)
    BY <1>0 DEF AskGood, PlansGood
  <2>3. QED
    BY <1>1, <2>1, <2>2
<1>13. ASSUME NEW c \in Callers, PersistCancel(c) PROVE OrganizationsGood'
  <2> DEFINE next == IF BindingAllows(asks[c].org, asks[c].was.bound)
                     THEN BillingUpdate(asks[c].org, asks[c].was.plan, asks[c].was.bound, "cancelled")
                     ELSE Quiet
  <2>1. asks' = [asks EXCEPT ![c] = next] /\ UNCHANGED organizationState /\ asks[c].op = "cancelled"
    BY <1>13 DEF PersistCancel
  <2>2. asks[c].was.plan \in Plans
    BY <1>0, <2>1 DEF AsksGood, AskGood
  <2>3. AskGood(Quiet, DOMAIN subscriptions)
    BY DEF AskGood, Quiet
  <2>4. AskGood(next, DOMAIN subscriptions)
    BY <1>10, <2>2, <2>3
  <2> HIDE DEF next
  <2>5. QED
    BY <2>1, <2>4, AskStep
<1>14. QED
  BY <1>3, <1>4, <1>5, <1>6, <1>7, <1>8, <1>9, <1>11, <1>12, <1>13, CommitCallGood DEF OrganizationsNext

(* The counter of a project and month is the sum of the usage events that  *)
(* were stored for it, and within the hard limit of some plan, whatever    *)
(* was reported twice or while the plan changed (recordUsage).             *)
THEOREM UsageIsWhatWasReported == OrganizationsSpec => []UsageMatchesEvents
<1>1. OrganizationsInit => OrganizationsGood
  <2> SUFFICES ASSUME OrganizationsInit PROVE OrganizationsGood
    OBVIOUS
  <2>1. /\ DOMAIN orgs = {} /\ DOMAIN subscriptions = {} /\ DOMAIN projects = {} /\ checkouts = {}
        /\ DOMAIN usageEvents = {} /\ DOMAIN usageCounters = {} /\ asks = [c \in Callers |-> Quiet]
    BY DEF OrganizationsInit
  <2>2. PlansGood
    BY <2>1 DEF PlansGood
  <2>3. AsksGood(asks, DOMAIN subscriptions)
    BY <2>1 DEF AsksGood, AskGood, Quiet
  <2>4. Counted(usageEvents, DOMAIN usageEvents)
    BY <2>1, FS_EmptySet DEF Counted
  <2>5. ASSUME NEW p, NEW m
        PROVE  /\ UsedIn(usageCounters, p, m) = SumOf(usageEvents, EventsOf(usageEvents, p, m))
               /\ Allowed(UsedIn(usageCounters, p, m))
    <3>1. EventsOf(usageEvents, p, m) = {}
      BY <2>1 DEF EventsOf
    <3>2. UsedIn(usageCounters, p, m) = 0
      BY <2>1 DEF UsedIn
    <3>3. Allowed(0)
      BY OrganizationsAssumption DEF Allowed
    <3>4. QED
      BY <3>1, <3>2, <3>3, SumOfNone
  <2>6. QED
    BY <2>2, <2>3, <2>4, <2>5 DEF OrganizationsGood, UsageGood
<1>2. OrganizationsGood /\ [OrganizationsNext]_organizationVars => OrganizationsGood'
  <2> SUFFICES ASSUME OrganizationsGood, [OrganizationsNext]_organizationVars PROVE OrganizationsGood'
    OBVIOUS
  <2>1. CASE UNCHANGED organizationVars
    <3>1. PlansGood'
      BY <2>1 DEF organizationVars, organizationState, OrganizationsGood, PlansGood
    <3>2. QED
      BY <2>1, <3>1, RestStep DEF organizationVars, organizationState
  <2>2. QED
    BY <2>1, OrganizationsStep
<1>3. OrganizationsGood => UsageMatchesEvents
  <2> SUFFICES ASSUME OrganizationsGood, NEW p \in DOMAIN projects, NEW m \in Months
               PROVE  /\ Used(p, m) = MapThenSumSet(LAMBDA e : usageEvents[e].quantity,
                            {e \in DOMAIN usageEvents : e[1] = p /\ usageEvents[e].month = m})
                      /\ \E plan \in Plans : Used(p, m) <= HardLimit[plan]
    BY DEF UsageMatchesEvents
  <2>1. /\ UsedIn(usageCounters, p, m) = SumOf(usageEvents, EventsOf(usageEvents, p, m))
        /\ Allowed(UsedIn(usageCounters, p, m))
    BY DEF OrganizationsGood, UsageGood
  <2>2. Used(p, m) = UsedIn(usageCounters, p, m)
    BY DEF Used, UsedIn
  <2>3. MapThenSumSet(LAMBDA e : usageEvents[e].quantity, EventsOf(usageEvents, p, m))
          = SumOf(usageEvents, EventsOf(usageEvents, p, m))
    BY SumOfIsSum
  <2>4. QED
    BY <2>1, <2>2, <2>3 DEF Allowed, EventsOf
<1>4. QED
  BY <1>1, <1>2, <1>3, PTL DEF OrganizationsSpec
===============================================================================
