--------------------------- MODULE CloudProvisioning ---------------------------
(* How the control plane brings an environment up: the job that is queued  *)
(* with it, the worker of each instance that claims jobs under a lease,    *)
(* the retries, and the operators who attach, suspend and resume           *)
(* environments meanwhile.  Instances share the database and overlap while *)
(* a new one is rolled out; each may stop at any point.  Time is what it   *)
(* does to a job: its backoff ends, its lease runs out.                    *)
EXTENDS Common

CONSTANTS Envs,         \* environment ids
          Instances,    \* processes of the control plane
          Callers,      \* requests of operators and tenants in progress at once
          MaxAttempts,  \* attempts of a job before it fails (5 in the code)
          MaxCrashes,   \* bound on the stops of a behaviour
          MaxCalls      \* bound on the requests of a behaviour

ASSUME ProvisioningAssumption == MaxAttempts \in Nat \ {0} /\ MaxCrashes \in Nat /\ MaxCalls \in Nat

VARIABLES status,    \* lip_cloud_environments.status, None before the environment exists
          jobs,      \* its create job: [status, attempts, due, leased]
          up,        \* whether an instance runs
          worker,    \* what its worker is doing: [stage, env, attempts]
          callers,   \* the request each caller has in progress
          crashes, asked  \* stops and requests so far

queueVars == <<status, jobs>>
bounds == <<crashes, asked>>

NoJob == [status |-> None, attempts |-> 0, due |-> FALSE, leased |-> FALSE]
Free == [stage |-> "idle"]
Settled(s) == s \notin {"pending", "provisioning"}
Earliest(a, b) == IF a < b THEN a ELSE b

-------------------------------------------------------------------------------
(* createEnvironment: the environment and its job are one transaction; the *)
(* name of an environment is taken once.                                   *)
PgCreateEnvironment(e) ==
  /\ status' = [status EXCEPT ![e] = "pending"]
  /\ jobs' = [jobs EXCEPT ![e] = [status |-> "pending", attempts |-> 0, due |-> TRUE,
                                  leased |-> FALSE]]

CreateEnvironment(e) == status[e] = None /\ PgCreateEnvironment(e)

(* claimProvisioningJob: a job whose time has come, or one whose claim has *)
(* run out; no two workers claim it at once.                               *)
ClaimablePending(j) == j.status = "pending" /\ j.due  \* mutant: an expired claim is not taken over
Claimable(j) == (j.status = "pending" /\ j.due) \/ (j.status = "running" /\ ~j.leased)
ClaimProvisioningJob(i) ==
  /\ up[i] /\ worker[i] = Free
  /\ \E e \in Envs :
       LET n == Earliest(jobs[e].attempts + 1, MaxAttempts) IN
       /\ Claimable(jobs[e])
       /\ jobs' = [jobs EXCEPT ![e] = [@ EXCEPT !.status = "running", !.attempts = n, !.leased = TRUE]]
       /\ status' = [status EXCEPT ![e] = "provisioning"]
       /\ worker' = [worker EXCEPT ![i] = [stage |-> "provision", env |-> e, attempts |-> n]]
  /\ UNCHANGED <<up, callers, bounds>>

(* completeProvisioningJob: of a job that is running, whoever claimed it.  *)
CompleteProvisioningJob(e) ==
  /\ jobs[e].status = "running"
  /\ jobs' = [jobs EXCEPT ![e] = [@ EXCEPT !.status = "succeeded", !.leased = FALSE]]
  /\ status' = [status EXCEPT ![e] = "ready"]

(* failProvisioningJob: queued again with a backoff, or failed for good. *)
FailProvisioningJob(e, retry) ==
  LET exhausted == jobs[e].attempts >= MaxAttempts \/ ~retry
      s == IF exhausted THEN "failed" ELSE "pending"
  IN  /\ jobs[e].status = "running"
      /\ jobs' = [jobs EXCEPT ![e] = [@ EXCEPT !.status = s, !.due = FALSE, !.leased = FALSE]]
      /\ status' = [status EXCEPT ![e] = s]

(* runOnce after the provisioner answered.  A completion that throws, as   *)
(* the database or because the job is no longer running, is an error like  *)
(* one of the provisioner; when the failure cannot be stored either, the   *)
(* rejection of runOnce reaches nobody and ends the process (Throws).      *)
At(i, stage) == up[i] /\ worker[i].stage = stage
Finish(i) ==
  /\ At(i, "provisioned")
  /\ \/ CompleteProvisioningJob(worker[i].env) /\ worker' = [worker EXCEPT ![i] = Free]
     \/ worker' = [worker EXCEPT ![i].stage = "error"] /\ UNCHANGED queueVars
  /\ UNCHANGED <<up, callers, bounds>>
Fail(i) ==
  /\ At(i, "error")
  /\ FailProvisioningJob(worker[i].env, worker[i].attempts < MaxAttempts)
  /\ worker' = [worker EXCEPT ![i] = Free]
  /\ UNCHANGED <<up, callers, bounds>>
Throws(i) == At(i, "error") /\ jobs[worker[i].env].status # "running"

(* The backoff of a job ends, or its claim runs out while its worker is    *)
(* slow or gone.                                                           *)
BackoffEnds(e) ==
  /\ jobs[e].status = "pending" /\ ~jobs[e].due
  /\ jobs' = [jobs EXCEPT ![e].due = TRUE]
  /\ UNCHANGED <<status, up, worker, callers, bounds>>
LeaseExpires(e) ==
  /\ jobs[e].status = "running" /\ jobs[e].leased
  /\ jobs' = [jobs EXCEPT ![e].leased = FALSE]
  /\ UNCHANGED <<status, up, worker, callers, bounds>>

-------------------------------------------------------------------------------
(* A request runs in one instance and is lost when that stops. *)
Calls(c, i, call) ==
  /\ callers[c] = Free /\ asked < MaxCalls
  /\ up[i] /\ worker[i].stage # "restore"
  /\ callers' = [callers EXCEPT ![c] = call]
  /\ asked' = asked + 1
Returns(c) == callers' = [callers EXCEPT ![c] = Free]
Running(c, stage) == callers[c].stage = stage
Advances(c, stage) == callers' = [callers EXCEPT ![c].stage = stage]

(* provisionTenant: the environment is created, or found when an earlier   *)
(* run created it, and polled until it settles or the time is over.        *)
EnsureEnvironment(e) == CreateEnvironment(e) \/ (status[e] # None /\ UNCHANGED queueVars)
ProvisionTenant(c, i) ==
  \E e \in Envs :
    /\ Calls(c, i, [stage |-> "poll", env |-> e, at |-> i])
    /\ EnsureEnvironment(e)
    /\ UNCHANGED <<up, worker, crashes>>
PollEnvironment(c) ==
  /\ Running(c, "poll") /\ Returns(c)
  /\ UNCHANGED <<queueVars, up, worker, bounds>>

(* attachEnvironment: the status is checked, the host is validated, and    *)
(* the binding is written without a second look at the status.             *)
AttachEnvironment(c, i) ==
  \E e \in Envs :
    /\ status[e] \in {"pending", "ready", "failed"}
    /\ Calls(c, i, [stage |-> "attach", env |-> e, at |-> i])
    /\ UNCHANGED <<queueVars, up, worker, crashes>>
Validate == {"ready", "failed"}  \* the host answered as it should, or did not
Attached(c) ==
  /\ Running(c, "attach")
  /\ \E s \in Validate : status' = [status EXCEPT ![callers[c].env] = s]
  /\ Returns(c)
  /\ UNCHANGED <<jobs, up, worker, bounds>>

(* operateLocalEnvironment: the status is checked, the data plane operates *)
(* (see ManagedDataPlane), and the new status is written after that.       *)
OperateLocalEnvironment(c, i) ==
  \E e \in Envs, op \in {"suspend", "resume"} :
    /\ status[e] = IF op = "suspend" THEN "ready" ELSE "suspended"
    /\ Calls(c, i, [stage |-> op, env |-> e, at |-> i])
    /\ UNCHANGED <<queueVars, up, worker, crashes>>
UpdateEnvironmentStatus(c) ==
  /\ callers[c].stage \in {"suspended", "resumed"}
  /\ status' = [status EXCEPT ![callers[c].env] =
                  IF Running(c, "suspended") THEN "suspended" ELSE "ready"]
  /\ Returns(c)
  /\ UNCHANGED <<jobs, up, worker, bounds>>

ProvisioningInit ==
  /\ status = [e \in Envs |-> None]
  /\ jobs = [e \in Envs |-> NoJob]
  /\ up = [i \in Instances |-> TRUE]
  /\ worker = [i \in Instances |-> Free]
  /\ callers = [c \in Callers |-> Free]
  /\ crashes = 0 /\ asked = 0

(* The steps of the queue and of its callers that touch no data plane. *)
ControlPlaneStep ==
  \/ \E i \in Instances : ClaimProvisioningJob(i) \/ Finish(i) \/ Fail(i)
  \/ \E e \in Envs : BackoffEnds(e) \/ LeaseExpires(e)
  \/ \E c \in Callers, i \in Instances :
       ProvisionTenant(c, i) \/ AttachEnvironment(c, i) \/ OperateLocalEnvironment(c, i)
  \/ \E c \in Callers : PollEnvironment(c) \/ Attached(c) \/ UpdateEnvironmentStatus(c)
===============================================================================
