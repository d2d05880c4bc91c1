-------------------------------- MODULE Tenant --------------------------------
(* The services of one tenant in one process, over one engine and one      *)
(* database.  Each behaviour is about one group of services that meet      *)
(* (turn); the other services rest, as they may.  The process stops at any *)
(* moment, and then all services start again from what was stored.         *)
EXTENDS ProtocolRequests, EngagementService, CustomerData, AccessControl, HttpServer

CONSTANTS Groups,   \* the groups of services to look at
          Enrolled  \* Enrolled[g]: the members at the start

(* Whoever runs a transaction on the engine; None is nobody. *)
LockCallers == RequestKeys \cup Clients \cup Runners \cup MembershipCallers \cup {Publisher}
ASSUME LockAssumption == \A c \in LockCallers, i \in Instances : <<c, i>> # None

VARIABLE turn

restingVars == <<engagementVars, customerVars, accessVars, httpVars>>
vars == <<platformVars, membershipVars, campaignVars, programVars, requestVars, restingVars, turn>>

(* What may be there at the start: memberships for the publisher to mind,  *)
(* and a second instance that runs an earlier program.                     *)
NoMemberships == [m \in Members |-> None]
ActiveMembership(m, plan) ==
  [NoMemberships EXCEPT ![m] = [plan |-> plan, status |-> "active", until |-> LastDay]]
FirstMemberships ==
  {NoMemberships} \cup
  (IF turn # "publishing" THEN {}
   ELSE {ActiveMembership(m, plan) : m \in Enrolled[turn], plan \in PlansOf[FirstProgram]})
EarlierPrograms == IF turn = "requests" THEN Valid \cap Compatible ELSE {FirstProgram}

Init ==
  /\ turn \in Groups
  /\ \E memberships \in FirstMemberships, before \in EarlierPrograms :
       PlatformInit(Enrolled[turn], memberships, before)
  /\ MembershipInit /\ CampaignInit([s \in Segments |-> Dynamic]) /\ ProgramInit /\ RequestInit
  /\ EngagementInit /\ CustomerInit /\ AccessInit(<< >>)
  /\ HttpInit(IF turn = "http" THEN BOOLEAN ELSE {FALSE})

-------------------------------------------------------------------------------
(* The process stops: every service forgets what it was doing.             *)
Crash ==
  /\ crashes < MaxCrashes /\ crashes' = crashes + 1
  /\ ProgramBoot /\ MembershipBoot /\ CampaignBoot /\ RequestBoot(Main)
  /\ EngagementBoot /\ CustomerBoot /\ Reload /\ HttpBoot
  /\ UNCHANGED <<now, turn>>

(* Another instance stops and starts: it finds the program it runs. *)
StopInstance(i) ==
  /\ crashes < MaxCrashes /\ crashes' = crashes + 1
  /\ i # Main
  /\ engine' = Restarted(i, engine.row.program)
  /\ RequestBoot(i)
  /\ UNCHANGED <<now, membershipVars, campaignVars, programVars>>

Requesting ==
  /\ turn = "requests"
  /\ RequestNext \/ \E i \in Instances : StopInstance(i)
  /\ UNCHANGED <<restingVars, turn>>
(* Of the campaigns, what brings a reward into use: one of them, and a run *)
(* (its window does not matter).                                           *)
RewardUse ==
  \/ (edits = 0 /\ UpsertCampaign({CHOOSE w \in Windows : ~Over(w, now)}))
  \/ EditReturned \/ RunCampaign \/ RunStep(Manual)
  \/ \E c \in {Author, Manual} : CampaignSaveStored(c)
Publishing ==
  /\ turn = "publishing"
  /\ ProgramNext \/ (RewardUse /\ UNCHANGED <<membershipVars, programVars>>)
  /\ UNCHANGED <<requestVars, restingVars, turn>>
Managing ==
  /\ turn = "memberships"
  /\ MembershipNext \/ ((Day \/ Traffic) /\ UNCHANGED membershipVars)
  /\ UNCHANGED <<campaignVars, programVars, requestVars, restingVars, turn>>
Campaigning ==
  /\ turn = "campaigns"
  /\ CampaignNext \/ ((Day \/ \E m \in Members : Enrol(m)) /\ UNCHANGED campaignVars)
  /\ UNCHANGED <<membershipVars, programVars, requestVars, restingVars, turn>>
Messaging ==
  /\ turn = "engagement"
  /\ EngagementNext \/ (Day /\ UNCHANGED <<campaignVars, engagementVars>>)
  /\ UNCHANGED <<membershipVars, programVars, requestVars, customerVars, accessVars, httpVars, turn>>
Importing ==
  /\ turn = "customers"
  /\ CustomerNext
  /\ UNCHANGED <<membershipVars, campaignVars, programVars, requestVars, engagementVars, accessVars,
                 httpVars, turn>>
Administering ==
  /\ turn = "access"
  /\ Hour \/ \E t \in Tenants : TenantStep(t)
  /\ UNCHANGED <<platformVars, membershipVars, campaignVars, programVars, requestVars, engagementVars,
                 customerVars, httpVars, turn>>
Serving ==
  /\ turn = "http"
  /\ HttpNext
  /\ UNCHANGED <<platformVars, membershipVars, campaignVars, programVars, requestVars, engagementVars,
                 customerVars, accessVars, turn>>

Next ==
  \/ Requesting \/ Publishing \/ Managing \/ Campaigning \/ Messaging \/ Importing \/ Administering
  \/ Serving \/ Crash

(* The timers fire and what was begun goes on or fails; the transactions   *)
(* of a sweep and of a scheduled run do not fail every time.               *)
Managed(A) == turn = "memberships" /\ A
Campaigned(A) == turn = "campaigns" /\ A
Fairness ==
  /\ \A c \in MembershipCallers : WF_membershipVars(Managed(MembershipStep(c)))
  /\ \A c \in Sweeps :
       /\ WF_membershipVars(Managed(Sweep(c) \/ SweepNext(c)))
       /\ SF_membershipVars(Managed(MembershipCommitted(c)))
  /\ \A by \in Runners :
       WF_campaignVars(Campaigned(RunStep(by) \/ CampaignSaveStored(by)))
  /\ WF_campaignVars(Campaigned(SchedulerStarts \/ SchedulerNext))
  /\ SF_campaignVars(Campaigned(RunCommitted(Scheduler)))

IdleSpec == Init /\ [][Next]_vars /\ Fairness

(* ... and requests keep coming: the engine is not left alone for ever.    *)
Spec == IdleSpec /\ WF_engine(Managed(Traffic))
===============================================================================
