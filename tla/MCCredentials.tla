----------------------------- MODULE MCCredentials -----------------------------
(* Small instances of credential issuance and access control for TLC.      *)
EXTENDS CredentialOperations

Everyone == [p \in People |-> Anywhere]
AllFlights == FlightIds
Symmetry == Permutations(Intents)
===============================================================================
