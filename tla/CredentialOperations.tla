-------------------------- MODULE CredentialOperations --------------------------
(* Merchant credentials of a managed environment: an operation is claimed  *)
(* under its idempotency key, a key is minted in the access control of the *)
(* environment, its id is recorded, and the encrypted handoff is stored    *)
(* with the operation for replays.  A retry after a crash revokes what was *)
(* recorded and mints again.  Requests with the same key and payload share *)
(* one flight; one process serves the environment.                         *)
EXTENDS AccessControl

CONSTANTS Intents,    \* idempotency keys
          Payloads,   \* overlap_seconds asked for: the fingerprint of a request
          MaxFlights, \* bound on the flights of a behaviour
          MaxCrashes  \* bound on the stops of a behaviour

VARIABLES operations, \* lip_cloud_credential_operations: intent -> [state, payload, key, envelope]
          flights,    \* <<intent, payload>> -> [stage, ...]
          handed,     \* intent -> keys given to callers
          flown, crashes

operationVars == <<operations, handed, flown, crashes>>
vars == <<accessVars, operationVars, flights>>

FlightIds == Intents \X Payloads

ASSUME CredentialAssumption ==
  /\ Flights = FlightIds /\ Tenants \cap FlightIds = {}  \* each call waits for its own save
  /\ None \notin KeyIds \cup {"pending", "failed", "issued"}
  /\ "merchant" \notin People
NoOperation == [state |-> None, payload |-> None, key |-> None, envelope |-> FALSE]
Landed == [stage |-> "idle"]
Stage(f, stage) == flights[f].stage = stage
Goes(f, to) == flights' = [flights EXCEPT ![f] = to]

(* What a flight leaves alone when it touches only its operation, or only  *)
(* the access control.                                                     *)
AccessKept == UNCHANGED accessVars
Holding == UNCHANGED <<operations, flown, crashes, handed>>
ServiceOnly == UNCHANGED <<clock, requests, answers, made>>

-------------------------------------------------------------------------------
(* issue and claim: the first request inserts the operation; another       *)
(* payload is refused; an issued operation is replayed while its handoff   *)
(* is kept; anything else is what a dead attempt left, and is recovered.   *)
Replay(k) == IF operations[k].envelope THEN [handed EXCEPT ![k] = @ \cup {operations[k].key}] ELSE handed
RecoverableAny(op) == op.state # None  \* mutant: an issued operation is recovered as well
Recoverable(op) == op.state \in {"pending", "failed"}
Claim(f) ==
  /\ operations[f[1]].state = None
  /\ operations' = [operations EXCEPT ![f[1]] = [@ EXCEPT !.state = "pending", !.payload = f[2]]]
Issue(f) ==
  LET k == f[1]
      op == operations[k]
  IN  /\ Stage(f, "idle") /\ flown < MaxFlights
      /\ flown' = flown + 1
      /\ \/ /\ Claim(f)
            /\ Goes(f, [stage |-> "issue", overlap |-> f[2]])
            /\ UNCHANGED handed
         \/ /\ op.state = "issued" /\ op.payload = f[2]
            /\ handed' = Replay(k)
            /\ UNCHANGED <<operations, flights>>
         \/ /\ Recoverable(op) /\ op.payload = f[2]
            /\ Goes(f, IF op.key = None THEN [stage |-> "reopen"] ELSE [stage |-> "revoke", key |-> op.key])
            /\ UNCHANGED <<operations, handed>>
      /\ AccessKept /\ UNCHANGED crashes

(* recover: revokeMerchantKey, and the operation is opened again. *)
Revoke(f) ==  \* a recorded key was answered, and so it is there (AnsweredDurable)
  LET k == flights[f].key IN
  /\ Stage(f, "revoke")
  /\ \/ State.keys[k].active
        /\ SaveState(f, RevokeApiKey(State, k)) /\ Goes(f, [stage |-> "revoking"])
     \/ ~State.keys[k].active
        /\ Goes(f, [stage |-> "reopen"]) /\ UNCHANGED access
  /\ ServiceOnly /\ Holding
Revoked(f) ==
  /\ Stage(f, "revoking")
  /\ \/ SaveAnswered(f) /\ Goes(f, [stage |-> "reopen"])
     \/ SaveRefused(f) /\ Goes(f, Landed)
  /\ ServiceOnly /\ Holding
Reopen(f) ==
  /\ Stage(f, "reopen")
  /\ operations' = [operations EXCEPT ![f[1]] = [@ EXCEPT !.state = "pending", !.key = None]]
  /\ Goes(f, [stage |-> "issue", overlap |-> 0])
  /\ AccessKept /\ UNCHANGED <<handed, flown, crashes>>

(* issueMerchantCredential: one at a time.  rotateOrAdopt rotates the      *)
(* standing key, or mints one when there is none or the rotation throws.   *)
Merchant == "merchant"
Standing == {k \in Keys(State) : State.keys[k].active /\ State.keys[k].expires = Never}
Issuing == \E f \in FlightIds : flights[f].stage \in {"rotating", "minting"}
MintsFresh(f) ==
  \E k \in FreshKeys :
    /\ SaveState(f, CreateApiKey(State, k, Merchant, Anywhere, Never))
    /\ Goes(f, [stage |-> "minting", key |-> k])
RotateOrAdopt(f) ==
  /\ Stage(f, "issue") /\ ~Issuing
  /\ \/ \E old \in Standing, k \in FreshKeys :
          /\ SaveState(f, RotateApiKey(State, old, k, Merchant, flights[f].overlap))
          /\ Goes(f, [stage |-> "rotating", key |-> k])
     \/ Standing = {} /\ MintsFresh(f)
  /\ ServiceOnly /\ Holding
RuntimeUnavailable(f) ==  \* the environment is not ready, or its runtime does not start
  /\ Stage(f, "issue") /\ ~Issuing
  /\ Goes(f, [stage |-> "fail"])
  /\ AccessKept /\ Holding
Rotated(f) ==
  /\ Stage(f, "rotating")
  /\ SaveAnswered(f) /\ Goes(f, [stage |-> "record", key |-> flights[f].key])
  /\ ServiceOnly /\ Holding
RotationRefused(f) ==  \* the exception and the next save are one step: no await is between them
  /\ Stage(f, "rotating") /\ Fails(access, f)
  /\ \E k \in FreshKeys :
       /\ access' = Changed(access, f, CreateApiKey(State, k, Merchant, Anywhere, Never))
       /\ Goes(f, [stage |-> "minting", key |-> k])
  /\ ServiceOnly /\ Holding
Minted(f) ==
  /\ Stage(f, "minting")
  /\ \/ SaveAnswered(f) /\ Goes(f, [stage |-> "record", key |-> flights[f].key])
     \/ SaveRefused(f) /\ Goes(f, [stage |-> "fail"])
  /\ ServiceOnly /\ Holding

(* mint: fail, or recordIssuedKey and then complete.  Each is a statement  *)
(* that may fail; the flight then ends with the error.                     *)
Statement(f, ops, next) ==
  /\ \/ operations' = [operations EXCEPT ![f[1]] = ops] /\ Goes(f, next)
     \/ UNCHANGED operations /\ Goes(f, Landed)
  /\ AccessKept /\ UNCHANGED <<handed, flown, crashes>>
FailOperation(f) ==
  Stage(f, "fail") /\ Statement(f, [operations[f[1]] EXCEPT !.state = "failed"], Landed)
RecordIssuedKey(f) ==
  /\ Stage(f, "record")
  /\ Statement(f, [operations[f[1]] EXCEPT !.key = flights[f].key],
               [stage |-> "complete", key |-> flights[f].key])
Complete(f) ==
  /\ Stage(f, "complete")
  /\ Statement(f, [operations[f[1]] EXCEPT !.state = "issued", !.key = flights[f].key, !.envelope = TRUE],
               [stage |-> "hand", key |-> flights[f].key])
HandOver(f) ==
  /\ Stage(f, "hand")
  /\ handed' = [handed EXCEPT ![f[1]] = @ \cup {flights[f].key}]
  /\ promised' = promised \cup {flights[f].key}
  /\ Goes(f, Landed)
  /\ UNCHANGED <<clock, access, requests, withdrawn, made, operations, flown, crashes>>

(* purgeExpiredHandoffs, a day after the issue. *)
PurgeExpiredHandoffs ==
  /\ \E k \in Intents :
       /\ operations[k].envelope /\ clock = Horizon
       /\ operations' = [operations EXCEPT ![k].envelope = FALSE]
  /\ AccessKept /\ UNCHANGED <<flights, handed, flown, crashes>>

Crash ==
  /\ crashes < MaxCrashes
  /\ crashes' = crashes + 1
  /\ Reload
  /\ flights' = [f \in FlightIds |-> Landed]
  /\ UNCHANGED <<operations, handed, flown>>

Init ==
  /\ AccessInit([k \in {} |-> None])
  /\ operations = [k \in Intents |-> NoOperation]
  /\ flights = [f \in FlightIds |-> Landed]
  /\ handed = [k \in Intents |-> {}]
  /\ flown = 0 /\ crashes = 0

FlightStep(f) ==
  \/ Issue(f) \/ Revoke(f) \/ Revoked(f) \/ Reopen(f) \/ RuntimeUnavailable(f)
  \/ RotateOrAdopt(f) \/ Rotated(f) \/ RotationRefused(f) \/ Minted(f)
  \/ FailOperation(f) \/ RecordIssuedKey(f) \/ Complete(f) \/ HandOver(f)
Next ==
  \/ \E f \in FlightIds : FlightStep(f)
  \/ \E f \in FlightIds : StoreSave(f) /\ UNCHANGED <<operationVars, flights>>
  \/ \E t \in Tenants : TenantStep(t) /\ UNCHANGED <<operationVars, flights>>
  \/ PurgeExpiredHandoffs \/ Crash
  \/ Hour /\ UNCHANGED <<operationVars, flights>>
Spec == Init /\ [][Next]_vars

-------------------------------------------------------------------------------
(* The promise of CredentialIssuance: lost answers, duplicates, crashes at *)
(* every step and two payloads under one key included, an idempotency key  *)
(* stands for one credential, and no caller is given another one.          *)
Issuance ==
  INSTANCE CredentialIssuance WITH
    credential <- [k \in Intents |->
      IF operations[k].state = "issued" THEN operations[k].key ELSE None],
    given <- handed
ImplementsIssuance == Issuance!Spec
===============================================================================
