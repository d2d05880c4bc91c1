----------------------------- MODULE CustomerData -----------------------------
(* Profiles, events and imports of customers.  A profile is written inside *)
(* an engine operation, which enrols the member when it is new, and is     *)
(* effective in the memory of the service at once, whether or not the      *)
(* transaction commits; the document is saved after it.                    *)
EXTENDS Platform

CONSTANTS Imports,    \* imports, by idempotency key
          EventKeys,  \* events, by idempotency key
          Clients,    \* requests in progress at once
          MaxWrites   \* bound on the requests of a behaviour

VARIABLES customers, \* the document: [profiles, events, imports]
          writing,   \* the request of each client
          written

customerVars == <<customers, writing, written>>
Data == customers.memory
Unused == [stage |-> "idle"]
Writes(c, w) == writing' = [writing EXCEPT ![c] = w]

(* upsertProfile and importMembers; the job of a known key is answered. *)
ImportMembers(c) ==
  /\ writing[c] = Unused /\ written < MaxWrites
  /\ \E rows \in SUBSET Members \ {{}}, key \in (Imports \ DOMAIN Data.imports) \cup {None} :
       /\ key # None \/ Cardinality(rows) = 1  \* None: a single profile
       /\ Writes(c, [stage |-> "queued", key |-> key, rows |-> rows])
  /\ written' = written + 1
  /\ UNCHANGED <<customers, platformVars>>

(* upsertProfileInMemory for each row, in the engine operation. *)
UpsertProfiles(c) ==
  LET w == writing[c] IN
  /\ w.stage = "queued"
  /\ Begins(c, Main, [Loaded(Main) EXCEPT !.enrolled = @ \cup w.rows])
  /\ customers' = [customers EXCEPT !.memory.profiles = @ \cup w.rows]
  /\ Writes(c, [w EXCEPT !.stage = "committing"])
  /\ UNCHANGED <<now, crashes, written>>
ProfilesCommitted(c) ==
  /\ writing[c].stage = "committing" /\ Commits(c, Main)
  /\ Writes(c, [writing[c] EXCEPT !.stage = "committed"])
  /\ UNCHANGED <<now, crashes, customers, written>>
ProfilesRolledBackUnseen(c) ==  \* mutant: the error of the transaction is not awaited
  /\ writing[c].stage = "committing" /\ RollsBack(c, Main)
  /\ Writes(c, [writing[c] EXCEPT !.stage = "committed"])
  /\ UNCHANGED <<now, crashes, customers, written>>
ProfilesRolledBack(c) ==
  /\ writing[c].stage = "committing" /\ RollsBack(c, Main)
  /\ Writes(c, Unused)
  /\ UNCHANGED <<now, crashes, customers, written>>
ProfilesSaved(c) ==
  LET w == writing[c]
      imports == IF w.key = None THEN Data.imports ELSE Put(Data.imports, w.key, w.rows)
  IN  /\ w.stage = "committed"
      /\ customers' = Changed(customers, c, [Data EXCEPT !.imports = imports])
      /\ Writes(c, [stage |-> "saving"])
      /\ UNCHANGED <<written, platformVars>>

(* ingestEvent: the member has to exist; a known key is answered. *)
IngestEvent(c) ==
  /\ writing[c] = Unused /\ written < MaxWrites
  /\ \E key \in EventKeys \ DOMAIN Data.events, m \in Mem.enrolled :
       customers' = Changed(customers, c, [Data EXCEPT !.events = Put(@, key, m)])
  /\ Writes(c, [stage |-> "saving"])
  /\ written' = written + 1
  /\ UNCHANGED platformVars

CustomerSaveStored(c) ==
  /\ Sent(customers, c)
  /\ \/ Current(customers, c) /\ customers' = Stored(customers, c)
     \/ customers' = Refused(customers, c)
  /\ UNCHANGED <<writing, written, platformVars>>
WriteReturned(c) ==
  /\ writing[c].stage = "saving" /\ customers.saves[c].stage \in {"stored", "refused"}
  /\ customers' = Returned(customers, c)
  /\ Writes(c, Unused)
  /\ UNCHANGED <<written, platformVars>>

CustomerNext ==
  \E c \in Clients :
    \/ ImportMembers(c) \/ UpsertProfiles(c) \/ ProfilesCommitted(c) \/ ProfilesRolledBack(c)
    \/ ProfilesSaved(c) \/ IngestEvent(c) \/ CustomerSaveStored(c) \/ WriteReturned(c)

CustomerInit ==
  /\ customers = NewDocument([profiles |-> {}, events |-> << >>, imports |-> << >>], Clients)
  /\ writing = [c \in Clients |-> Unused]
  /\ written = 0
CustomerBoot ==
  /\ customers' = Reloaded(customers)
  /\ writing' = [c \in Clients |-> Unused]
  /\ UNCHANGED written

-------------------------------------------------------------------------------
(* An import that is reported, in memory or in the store, has enrolled its *)
(* members in the stored engine and its profiles are with it, although     *)
(* engine and document are two stores and the transaction of another       *)
(* request may have been rolled back after its profiles were in memory.    *)
ImportsCommitted ==
  \A s \in {Data, customers.row} : \A key \in DOMAIN s.imports :
    s.imports[key] \subseteq engine.row.enrolled \cap s.profiles
===============================================================================
