---------------------------- MODULE CampaignService ----------------------------
(* Segments and reward campaigns.  A run issues the reward of a campaign   *)
(* to the members of its segment in one engine operation, and then records *)
(* the run and completes the campaign in the document of the service.      *)
(* Runs are started by the operator and by a scheduler; between the two    *)
(* halves of a run everything else goes on.                                *)
EXTENDS Platform

CONSTANTS Campaigns, Segments,
          Holdout,   \* {<<campaign, member>>} whose hash falls into the holdout
          Windows,   \* the pairs <<starts, ends>> an author chooses from, None: no ends_at
          MaxEdits,  \* bound on the edits of a behaviour
          MaxRuns    \* bound on the runs the operator starts

VARIABLES campaigns, \* the document: [segments, campaigns, runs]
          running,   \* the call of each caller
          edits, started

campaignVars == <<campaigns, running, edits, started>>
Scheduler == "scheduler"
Manual == "manual"
Author == "author"
Runners == {Scheduler, Manual}
CampaignCallers == Runners \cup {Author}
Doc == campaigns.memory
NotRunning == [stage |-> "idle"]
Runs(c, call) == running' = [running EXCEPT ![c] = call]
At(c, stage) == running[c].stage = stage

-------------------------------------------------------------------------------
(* Edits of the author: checked and changed in memory in one step, then    *)
(* saved.                                                                  *)
Edit(new) ==
  /\ campaigns.saves[Author] = NoSave /\ edits < MaxEdits
  /\ campaigns' = Changed(campaigns, Author, new)
  /\ edits' = edits + 1
  /\ UNCHANGED <<running, started, platformVars>>
EditReturned ==
  /\ Succeeds(campaigns, Author) \/ Fails(campaigns, Author)
  /\ campaigns' = Returned(campaigns, Author)
  /\ UNCHANGED <<running, edits, started, platformVars>>

(* A static segment lists members that exist; a dynamic one is a rule.     *)
Dynamic == [mode |-> "dynamic", members |-> {}]
Static(members) == [mode |-> "static", members |-> members]
UpsertSegment ==
  \E s \in Segments :
    \/ Edit([Doc EXCEPT !.segments = Put(@, s, Dynamic)])
    \/ \E members \in SUBSET Mem.enrolled \ {{}} : Edit([Doc EXCEPT !.segments = Put(@, s, Static(members))])
DeleteSegment ==
  \E s \in DOMAIN Doc.segments :
    /\ \A c \in DOMAIN Doc.campaigns : Doc.campaigns[c].segment # s
    /\ Edit([Doc EXCEPT !.segments = [t \in DOMAIN Doc.segments \ {s} |-> Doc.segments[t]]])

Over(window, at) == window[2] # None /\ window[2] <= at
UpsertCampaign(windows) ==
  \E c \in Campaigns, s \in DOMAIN Doc.segments, r \in Offers[Mem.program], window \in windows :
    LET status == IF window[1] > now THEN "scheduled"
                  ELSE IF c \in DOMAIN Doc.campaigns THEN Doc.campaigns[c].status ELSE "draft"
    IN  Edit([Doc EXCEPT !.campaigns =
                Put(@, c, [reward |-> r, segment |-> s, status |-> status, window |-> window])])
DeleteCampaign ==
  \E c \in DOMAIN Doc.campaigns :
    Edit([Doc EXCEPT !.campaigns = [d \in DOMAIN Doc.campaigns \ {c} |-> Doc.campaigns[d]]])
SetCampaignStatus ==
  \E c \in DOMAIN Doc.campaigns, status \in {"active", "paused"} :
    /\ Doc.campaigns[c].status \notin {"completed", "expired"}
    /\ Edit([Doc EXCEPT !.campaigns[c].status = status])

-------------------------------------------------------------------------------
(* runCampaign up to its first await, on the campaign and the segment of   *)
(* this moment; what the scheduler has left to do waits in the call.       *)
Ended(c) == Over(Doc.campaigns[c].window, now)
NoPass == [left |-> {}, at |-> 0]
RunStarts(by, c, pass) ==
  /\ c \in DOMAIN Doc.campaigns /\ Doc.campaigns[c].status # "paused"
  /\ \/ /\ Ended(c)
        /\ campaigns' = Changed(campaigns, by, [Doc EXCEPT !.campaigns[c].status = "expired"])
        /\ Runs(by, [stage |-> "ending"])
     \/ /\ ~Ended(c)
        /\ Runs(by, [stage |-> "queued", campaign |-> c, reward |-> Doc.campaigns[c].reward,
                     segment |-> Doc.segments[Doc.campaigns[c].segment], pass |-> pass])
        /\ UNCHANGED campaigns
RunCampaign ==
  /\ At(Manual, "idle") /\ started < MaxRuns
  /\ \E c \in Campaigns : RunStarts(Manual, c, NoPass)
  /\ started' = started + 1
  /\ UNCHANGED <<edits, platformVars>>

(* The engine operation of the run. *)
ResolveSegmentMembers(segment, state) ==
  IF segment.mode = "static" THEN segment.members ELSE state.enrolled
AlreadyIssuedBefore(c, m) == <<c, m>> \in {}  \* mutant: not looked up in the engine
AlreadyIssued(c, m) == \E i \in Loaded(Main).issued : i.campaign = c /\ i.member = m
IssuedBy(call) ==
  {m \in ResolveSegmentMembers(call.segment, Loaded(Main)) :
     /\ <<call.campaign, m>> \notin Holdout
     /\ ~AlreadyIssued(call.campaign, m)
     /\ call.reward \in Offers[Loaded(Main).program]}  \* issueReward throws: outcome failed
IssueRewards(by) ==
  LET call == running[by] IN
  /\ At(by, "queued")
  /\ Begins(by, Main, [Loaded(Main) EXCEPT !.issued = @ \cup
       {[campaign |-> call.campaign, member |-> m, reward |-> call.reward] : m \in IssuedBy(call)}])
  /\ Runs(by, [stage |-> "committing", campaign |-> call.campaign, issued |-> IssuedBy(call), pass |-> call.pass])
  /\ UNCHANGED <<now, crashes, campaigns, edits, started>>
RunCommitted(by) ==
  /\ At(by, "committing") /\ Commits(by, Main)
  /\ Runs(by, [running[by] EXCEPT !.stage = "committed"])
  /\ UNCHANGED <<now, crashes, campaigns, edits, started>>
RunRolledBackStuck(by) ==  \* mutant: the error leaves the caller marked as running
  /\ At(by, "committing") /\ RollsBack(by, Main)
  /\ Runs(by, [stage |-> "stuck"])
  /\ UNCHANGED <<now, crashes, campaigns, edits, started>>
RunRolledBack(by) ==
  /\ At(by, "committing") /\ RollsBack(by, Main)
  /\ Runs(by, NotRunning)
  /\ UNCHANGED <<now, crashes, campaigns, edits, started>>

(* The run is recorded, whatever became of the campaign meanwhile. *)
Completed(c) ==
  IF c \in DOMAIN Doc.campaigns
  THEN [Doc.campaigns EXCEPT ![c].status = "completed"] ELSE Doc.campaigns
RunRecorded(by) ==
  LET call == running[by] IN
  /\ At(by, "committed")
  /\ campaigns' = Changed(campaigns, by,
       [segments |-> Doc.segments, campaigns |-> Completed(call.campaign),
        runs |-> Append(Doc.runs, [campaign |-> call.campaign, issued |-> call.issued])])
  /\ Runs(by, [stage |-> "saving", pass |-> call.pass])
  /\ UNCHANGED <<edits, started, platformVars>>
CampaignSaveStored(by) ==
  /\ Sent(campaigns, by)
  /\ \/ Current(campaigns, by) /\ campaigns' = Stored(campaigns, by)
     \/ campaigns' = Refused(campaigns, by)
  /\ UNCHANGED <<running, edits, started, platformVars>>
RunReturned(by) ==
  /\ running[by].stage \in {"saving", "ending"}
  /\ \/ /\ Succeeds(campaigns, by) /\ At(by, "saving") /\ by = Scheduler
        /\ Runs(by, [stage |-> "next", pass |-> running[by].pass])
     \/ /\ Fails(campaigns, by) \/ At(by, "ending") \/ by = Manual
        /\ Runs(by, NotRunning)
  /\ campaigns.saves[by].stage \in {"stored", "refused"}
  /\ campaigns' = Returned(campaigns, by)
  /\ UNCHANGED <<edits, started, platformVars>>

-------------------------------------------------------------------------------
(* runDueCampaigns: over the campaigns that were scheduled when it started *)
(* (a pass over none only saves).  Passes may overlap like any two runs,   *)
(* of which the operator's is the other one here.                          *)
Scheduled == {c \in DOMAIN Doc.campaigns : Doc.campaigns[c].status = "scheduled"}
SchedulerStarts ==
  /\ At(Scheduler, "idle") /\ Scheduled # {}
  /\ Runs(Scheduler, [stage |-> "next", pass |-> [left |-> Scheduled, at |-> now]])
  /\ UNCHANGED <<campaigns, edits, started, platformVars>>
SchedulerNext ==
  LET pass == running[Scheduler].pass
      Without(c) == [pass EXCEPT !.left = @ \ {c}]
      Begun(c) == Doc.campaigns[c].window[1] <= pass.at
      Past(c) == Over(Doc.campaigns[c].window, pass.at)
  IN  /\ At(Scheduler, "next")
      /\ \/ \E c \in pass.left :
              \/ /\ c \in Scheduled /\ ~Past(c) /\ Begun(c)
                 /\ RunStarts(Scheduler, c, Without(c))
              \/ /\ c \in Scheduled /\ Past(c)
                 /\ campaigns' = [campaigns EXCEPT !.memory.campaigns[c].status = "expired"]
                 /\ Runs(Scheduler, [stage |-> "next", pass |-> Without(c)])
              \/ /\ ~(c \in Scheduled /\ (Past(c) \/ Begun(c)))
                 /\ Runs(Scheduler, [stage |-> "next", pass |-> Without(c)])
                 /\ UNCHANGED campaigns
         \/ /\ pass.left = {}
            /\ campaigns' = Changed(campaigns, Scheduler, Doc)
            /\ Runs(Scheduler, [stage |-> "ending"])
      /\ UNCHANGED <<edits, started, platformVars>>

RunStep(by) ==
  \/ IssueRewards(by) \/ RunCommitted(by) \/ RunRolledBack(by) \/ RunRecorded(by) \/ RunReturned(by)
CampaignNext ==
  \/ UpsertSegment \/ DeleteSegment \/ UpsertCampaign(Windows) \/ DeleteCampaign \/ SetCampaignStatus
  \/ EditReturned \/ RunCampaign \/ SchedulerStarts \/ SchedulerNext
  \/ \E by \in Runners : RunStep(by)
  \/ \E c \in CampaignCallers : CampaignSaveStored(c)

CampaignInit(segments) ==
  /\ campaigns = NewDocument([segments |-> segments, campaigns |-> << >>, runs |-> << >>], CampaignCallers)
  /\ running = [c \in Runners |-> NotRunning]
  /\ edits = 0 /\ started = 0
CampaignBoot ==
  /\ campaigns' = Reloaded(campaigns)
  /\ running' = [c \in Runners |-> NotRunning]
  /\ UNCHANGED <<edits, started>>

(* assertCompatibleProgram: the rewards of the saved campaigns stay. *)
CampaignsAllow(p) == \A c \in DOMAIN Doc.campaigns : Doc.campaigns[c].reward \in Offers[p]

-------------------------------------------------------------------------------
(* docs/reference-platform.md:194: whatever overlaps, fails or crashes, a  *)
(* member is reported as issued by at most one of the recorded runs of a   *)
(* campaign, and the reward it tells of is in the stored engine.           *)
ReportsOf(c, m) == {n \in DOMAIN Doc.runs : Doc.runs[n].campaign = c /\ m \in Doc.runs[n].issued}
RunsReportOnce ==
  \A c \in Campaigns, m \in Members :
    /\ Cardinality(ReportsOf(c, m)) <= 1
    /\ ReportsOf(c, m) # {} => \E i \in engine.row.issued : i.campaign = c /\ i.member = m

(* A scheduled campaign does not stay scheduled after its start: it runs,  *)
(* or it has been changed, although a pass of the scheduler ends at its    *)
(* first error and a run that was rolled back has to be started again.     *)
DueCampaign(c) == c \in Scheduled /\ Doc.campaigns[c].window[1] <= now
DueCampaignRuns == \A c \in Campaigns : DueCampaign(c) ~> ~DueCampaign(c)
===============================================================================
