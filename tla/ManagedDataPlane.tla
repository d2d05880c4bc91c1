---------------------------- MODULE ManagedDataPlane ----------------------------
(* The data plane of the managed deployment: each instance keeps one       *)
(* runtime (engine, schedulers, webhook dispatcher) for an environment,    *)
(* started once for all who ask for it, and stopped by a suspension.       *)
EXTENDS CloudProvisioning

CONSTANT Starts  \* names for the starts of runtimes; one nobody refers to is used again

ASSUME PlaneAssumption == None \notin Starts

VARIABLES runtimes,   \* instance -> environment -> the start it is registered under, or None
          platforms   \* start -> [at, env, state], state "none" when it is over

planeVars == <<runtimes, platforms>>
vars == <<queueVars, up, worker, callers, bounds, planeVars>>

Registered(t) == runtimes[platforms[t].at][platforms[t].env] = t
Deregister(i, e) == [runtimes EXCEPT ![i][e] = None]
Over(state) == [at |-> None, env |-> None, state |-> state]

(* Whoever awaits a start has its name in the field on. *)
Awaited(t) ==
  \/ \E i \in Instances : worker[i].stage = "starting" /\ worker[i].on = t
  \/ \E c \in Callers : callers[c].stage \in {"resuming", "closing"} /\ callers[c].on = t
Unused(t) == platforms[t].state \notin {"starting", "running"} /\ ~Awaited(t)

-------------------------------------------------------------------------------
(* runtimeFor: whoever asks first starts the runtime, and the others wait  *)
(* for the same start.                                                     *)
StartOf(i, e) == IF runtimes[i][e] # None THEN runtimes[i][e] ELSE CHOOSE t \in Starts : Unused(t)
RuntimeFor(i, e) ==
  \/ runtimes[i][e] # None /\ UNCHANGED planeVars
  \/ /\ runtimes[i][e] = None
     /\ \E t \in Starts : Unused(t)
     /\ runtimes' = [runtimes EXCEPT ![i][e] = StartOf(i, e)]
     /\ platforms' = [platforms EXCEPT ![StartOf(i, e)] = [at |-> i, env |-> e, state |-> "starting"]]

(* startRuntime: the platform loads, or fails to; a failed start is        *)
(* evicted when it is still the one that is registered.                    *)
EvictedAny(t) == Deregister(platforms[t].at, platforms[t].env)  \* mutant: whoever is registered
Evicted(t) == IF Registered(t) THEN Deregister(platforms[t].at, platforms[t].env) ELSE runtimes
StartRuntime(t) ==
  /\ platforms[t].state = "starting"
  /\ \/ platforms' = [platforms EXCEPT ![t].state = "running"] /\ UNCHANGED runtimes
     \/ platforms' = [platforms EXCEPT ![t] = Over("failed")] /\ runtimes' = Evicted(t)
  /\ UNCHANGED <<queueVars, up, worker, callers, bounds>>
Ready(t) == platforms[t].state # "starting"

(* provision, called by the worker. *)
Provision(i) ==
  /\ At(i, "provision")
  /\ RuntimeFor(i, worker[i].env)
  /\ worker' = [worker EXCEPT ![i] = [stage |-> "starting", env |-> @.env, attempts |-> @.attempts,
                                      on |-> StartOf(i, @.env)]]
  /\ UNCHANGED <<queueVars, up, callers, bounds>>
Provisioned(i) ==
  /\ At(i, "starting") /\ Ready(worker[i].on)
  /\ worker' = [worker EXCEPT ![i] =
       [stage |-> IF platforms[@.on].state = "failed" THEN "error" ELSE "provisioned",
        env |-> @.env, attempts |-> @.attempts]]
  /\ UNCHANGED <<queueVars, up, callers, bounds, planeVars>>

(* handleRuntimeRequest and enrollCustomer: refused unless the record says *)
(* ready; the runtime is asked for after that read.                        *)
RuntimeForRequest(c, i) ==
  \E e \in Envs :
    /\ status[e] = "ready"
    /\ Calls(c, i, [stage |-> "request", env |-> e, at |-> i])
    /\ UNCHANGED <<queueVars, up, worker, crashes, planeVars>>
HandleRuntimeRequest(c) ==
  /\ Running(c, "request")
  /\ RuntimeFor(callers[c].at, callers[c].env) /\ Returns(c)
  /\ UNCHANGED <<queueVars, up, worker, bounds>>

(* The operations of a managed deployment.  resume provisions; an error of *)
(* the start is the answer.                                                *)
Resume(c) ==
  /\ Running(c, "resume")
  /\ RuntimeFor(callers[c].at, callers[c].env)
  /\ callers' = [callers EXCEPT ![c] = [stage |-> "resuming", env |-> @.env, at |-> @.at,
                                        on |-> StartOf(@.at, @.env)]]
  /\ UNCHANGED <<queueVars, up, worker, bounds>>
Resumed(c) ==
  /\ Running(c, "resuming") /\ Ready(callers[c].on)
  /\ IF platforms[callers[c].on].state = "failed" THEN Returns(c) ELSE Advances(c, "resumed")
  /\ UNCHANGED <<queueVars, up, worker, bounds, planeVars>>

(* suspend: the start is no longer registered, and closed once it is over. *)
Suspend(c) ==
  LET t == runtimes[callers[c].at][callers[c].env] IN
  /\ Running(c, "suspend")
  /\ IF t = None THEN Advances(c, "suspended")
     ELSE callers' = [callers EXCEPT ![c] = [stage |-> "closing", env |-> @.env, at |-> @.at, on |-> t]]
  /\ runtimes' = Deregister(callers[c].at, callers[c].env)
  /\ UNCHANGED <<queueVars, up, worker, bounds, platforms>>
(* platform.close: every service in turn, so that its timers are over,     *)
(* and the pool last; when that throws the caller gets the error.          *)
ClosePlatform(c) ==
  /\ Running(c, "closing") /\ Ready(callers[c].on)
  /\ platforms' = [platforms EXCEPT ![callers[c].on] = Over("none")]
  /\ Advances(c, "suspended") \/ Returns(c)
  /\ UNCHANGED <<queueVars, up, worker, bounds, runtimes>>

-------------------------------------------------------------------------------
(* An instance stops: a rollout, a failure, or a rejection nobody handles. *)
Stop(i) ==
  /\ up' = [up EXCEPT ![i] = FALSE]
  /\ worker' = [worker EXCEPT ![i] = Free]
  /\ callers' = [c \in Callers |->
       IF callers[c] # Free /\ callers[c].at = i THEN Free ELSE callers[c]]
  /\ runtimes' = [runtimes EXCEPT ![i] = [e \in Envs |-> None]]
  /\ platforms' = [t \in Starts |-> IF platforms[t].at = i THEN Over("none") ELSE platforms[t]]
  /\ UNCHANGED queueVars
Crash(i) ==
  /\ up[i] /\ crashes < MaxCrashes
  /\ crashes' = crashes + 1
  /\ Stop(i)
  /\ UNCHANGED asked
UnhandledRejection(i) == Throws(i) /\ Stop(i) /\ UNCHANGED bounds

(* The process is started again.  restore starts the runtime of each ready *)
(* environment and goes on when one fails; the worker and the listener     *)
(* start after it.                                                         *)
ReadyEnvironments == {e \in Envs : status[e] = "ready"}
Restart(i) ==
  /\ ~up[i]
  /\ up' = [up EXCEPT ![i] = TRUE]
  /\ worker' = [worker EXCEPT ![i] =
                  [stage |-> "restore", left |-> ReadyEnvironments]]
  /\ UNCHANGED <<queueVars, callers, bounds, planeVars>>
Waiting(i) == \E t \in Starts : platforms[t].at = i /\ platforms[t].state = "starting"
RestoreRuntime(i) ==
  /\ At(i, "restore") /\ ~Waiting(i)
  /\ \E e \in worker[i].left :
       RuntimeFor(i, e) /\ worker' = [worker EXCEPT ![i].left = @ \ {e}]
  /\ UNCHANGED <<queueVars, up, callers, bounds>>
Restored(i) ==
  /\ At(i, "restore") /\ ~Waiting(i) /\ worker[i].left = {}
  /\ worker' = [worker EXCEPT ![i] = Free]
  /\ UNCHANGED <<queueVars, up, callers, bounds, planeVars>>

Init ==
  /\ ProvisioningInit
  /\ runtimes = [i \in Instances |-> [e \in Envs |-> None]]
  /\ platforms = [t \in Starts |-> Over("none")]

InstanceStep(i) ==
  Provision(i) \/ Provisioned(i) \/ Restart(i) \/ RestoreRuntime(i) \/ Restored(i)
CallerStep(c) == HandleRuntimeRequest(c) \/ Resume(c) \/ Resumed(c) \/ Suspend(c) \/ ClosePlatform(c)

Next ==
  \/ ControlPlaneStep /\ UNCHANGED planeVars
  \/ \E t \in Starts : StartRuntime(t)
  \/ \E i \in Instances : InstanceStep(i) \/ Crash(i) \/ UnhandledRejection(i)
  \/ \E c \in Callers : CallerStep(c)
  \/ \E c \in Callers, i \in Instances : RuntimeForRequest(c, i)

(* An instance polls its queue every five seconds while it runs and is     *)
(* started again after it stopped; time goes on; what is awaited answers.  *)
(* Nobody has to ask for anything, and an instance need not stop.          *)
WorkerSteps(i) == (ClaimProvisioningJob(i) \/ Finish(i) \/ Fail(i)) /\ UNCHANGED planeVars
Time(e) == (BackoffEnds(e) \/ LeaseExpires(e)) /\ UNCHANGED planeVars
Fairness ==
  /\ \A i \in Instances :
       WF_vars(WorkerSteps(i)) /\ WF_vars(InstanceStep(i)) /\ WF_vars(UnhandledRejection(i))
  /\ \A e \in Envs : WF_vars(Time(e))
  /\ \A t \in Starts : WF_vars(StartRuntime(t))

Spec == Init /\ [][Next]_vars /\ Fairness

-------------------------------------------------------------------------------
(* What tenants poll for: however instances stop, leases run out and late  *)
(* workers report, an environment that is being provisioned ends up in a   *)
(* status that is not pending or provisioning.                             *)
EnvironmentSettles ==
  \A e \in Envs :
    (status[e] \in {"pending", "provisioning"}) ~> (status[e] \notin {None, "pending", "provisioning"})

(* managed-data-plane.ts:403 "Single-flight start": requests, a worker, a  *)
(* resume and a suspension of one environment overlap, and a platform that *)
(* runs is the registered one or is about to be closed; none is left       *)
(* behind with schedulers that nobody can stop.                            *)
NoOrphanPlatform ==
  \A t \in Starts : platforms[t].state = "running" =>
    \/ Registered(t)
    \/ \E c \in Callers : Running(c, "closing") /\ callers[c].on = t
===============================================================================
