--------------------------- MODULE CredentialIssuance ---------------------------
(* What the issuance of merchant credentials promises: one credential for  *)
(* each idempotency key, fresh, and whoever asks with that key is given    *)
(* that one or nothing.                                                    *)
CONSTANTS Intents,  \* idempotency keys
          KeyIds,   \* ids of API keys
          None

VARIABLES credential,  \* the key issued for an intent, or None
          given        \* the keys that were given to callers of an intent

Init ==
  /\ credential = [k \in Intents |-> None]
  /\ given = [k \in Intents |-> {}]

Issue(k) ==
  /\ credential[k] = None
  /\ \E id \in KeyIds :
       /\ \A other \in Intents : credential[other] # id
       /\ credential' = [credential EXCEPT ![k] = id]
  /\ UNCHANGED given
Give(k) ==
  /\ credential[k] # None
  /\ given' = [given EXCEPT ![k] = @ \cup {credential[k]}]
  /\ UNCHANGED credential

Next == \E k \in Intents : Issue(k) \/ Give(k)
Spec == Init /\ [][Next]_<<credential, given>>
===============================================================================
