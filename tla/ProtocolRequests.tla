--------------------------- MODULE ProtocolRequests ---------------------------
(* Protocol requests on two instances of the platform, and reports that    *)
(* read the stored engine without the lock.  A request that is repeated    *)
(* under its idempotency key is answered from the engine, and publishes    *)
(* its events again under the same ids; the events of an operation are     *)
(* emitted once its transaction has committed.                             *)
EXTENDS ProgramManagement

CONSTANTS RequestKeys,   \* requests, by idempotency key
          MaxTries    \* bound on the attempts of a behaviour

VARIABLES calls,     \* request -> [stage, at: the instance]
          emitted,   \* requests whose events were emitted
          answered,  \* requests with a successful answer
          report,    \* a report in progress: what each of its queries saw
          tried

requestVars == <<calls, emitted, answered, report, tried>>
Waiting == [stage |-> "idle"]
Calls(r, call) == calls' = [calls EXCEPT ![r] = call]

(* executeEngineOperation: the operation applies the request, or finds its *)
(* recorded answer.  It may throw after it changed the engine in memory.   *)
RequestBegins(r) ==
  /\ calls[r] = Waiting /\ tried < MaxTries
  /\ tried' = tried + 1
  /\ \E i \in Instances :
       LET new == [Loaded(i) EXCEPT !.applied = @ \cup {r}] IN
       \/ /\ Begins(r, i, new)
          /\ Calls(r, [stage |-> "committing", at |-> i])
       \/ Throws(i, new) /\ UNCHANGED calls
       \/ Free /\ ~SameProgram(i) /\ UNCHANGED <<engine, calls>>  \* replaceState throws
  /\ UNCHANGED <<now, crashes, emitted, answered, report>>
RequestCommitted(r) ==
  /\ calls[r].stage = "committing"
  /\ Commits(r, calls[r].at)
  /\ Calls(r, [calls[r] EXCEPT !.stage = "committed"])
  /\ UNCHANGED <<now, crashes, emitted, answered, report, tried>>
RequestRolledBack(r) ==
  /\ calls[r].stage = "committing"
  /\ RollsBack(r, calls[r].at)
  /\ Calls(r, Waiting)
  /\ UNCHANGED <<now, crashes, emitted, answered, report, tried>>
EmitEvents(r) == emitted' = emitted \cup {r}
RequestAnswered(r) ==
  /\ calls[r].stage = "committed"
  /\ EmitEvents(r)
  /\ answered' = answered \cup {r}
  /\ Calls(r, Waiting)
  /\ UNCHANGED <<report, tried, platformVars>>

(* readEngineSnapshot: load reads the header first and the other tables    *)
(* after it, each query on what is committed by then, and the program of   *)
(* the header has to be known.                                             *)
NoReport == [stage |-> "idle"]
ReportBegins ==
  /\ report.stage \in {"idle", "done"} /\ tried < MaxTries
  /\ report' = [stage |-> "reading", header |-> engine.row]
  /\ tried' = tried + 1
  /\ UNCHANGED <<calls, emitted, answered, platformVars>>
ReportReads ==
  /\ report.stage = "reading"
  /\ report' = IF report.header.program = Mem.program \/ Known(Book, report.header.program)
               THEN [stage |-> "done", header |-> report.header, rows |-> engine.row]
               ELSE NoReport
  /\ UNCHANGED <<calls, emitted, answered, tried, platformVars>>

RequestNext ==
  /\ \/ \E r \in RequestKeys :
          RequestBegins(r) \/ RequestCommitted(r) \/ RequestRolledBack(r) \/ RequestAnswered(r)
     \/ ReportBegins \/ ReportReads
  /\ UNCHANGED <<membershipVars, campaignVars, programVars>>

RequestInit ==
  /\ calls = [r \in RequestKeys |-> Waiting]
  /\ emitted = {} /\ answered = {} /\ report = NoReport /\ tried = 0
AtInstance(i) == {r \in RequestKeys : calls[r] # Waiting /\ calls[r].at = i}
RequestBoot(i) ==
  /\ calls' = [r \in RequestKeys |-> IF r \in AtInstance(i) THEN Waiting ELSE calls[r]]
  /\ report' = IF i = Main THEN NoReport ELSE report
  /\ UNCHANGED <<emitted, answered, tried>>

-------------------------------------------------------------------------------
(* Two instances, rolled back and throwing operations, retries and stops   *)
(* included: events go out only for what the stored engine has applied,    *)
(* and stays so, and a request is not answered without its events, which a *)
(* stop after the commit had suppressed until the request was repeated.    *)
CommittedKept == answered \subseteq emitted /\ emitted \subseteq engine.row.applied
===============================================================================
