--------------------------- MODULE EngagementService ---------------------------
(* Messages to the members of a segment.  A job holds one delivery for     *)
(* each member; a run of the job sends what is due one after the other and *)
(* saves the whole job after each, from the copy it took before it waited  *)
(* for the provider.  The scheduler runs one pass at a time; the operator  *)
(* may run a job next to it.                                               *)
EXTENDS CampaignService, SequencesExt

CONSTANTS Connectors, Jobs,  \* Jobs by idempotency key
          Consenting,        \* members with marketing_consent
          MaxAttempts,       \* attempts of a delivery
          MaxOrders          \* bound on the operator's requests

VARIABLES engagement, \* the document: [connectors, jobs]
          sending,    \* the run of each runner
          accepted,   \* {<<job, member>>} the provider took, by its own account
          ordered

engagementVars == <<engagement, sending, accepted, ordered>>
Desk == "desk"
Timer == "timer"
Hand == "hand"
Senders == {Timer, Hand}
Msgs == engagement.memory
Quiet == [stage |-> "idle"]
Sends(by, run) == sending' = [sending EXCEPT ![by] = run]
Sending(by, stage) == sending[by].stage = stage

-------------------------------------------------------------------------------
(* Requests of the operator, each a change and its save. *)
Order(new) ==
  /\ engagement.saves[Desk] = NoSave /\ ordered < MaxOrders
  /\ engagement' = Changed(engagement, Desk, new)
  /\ ordered' = ordered + 1
  /\ UNCHANGED <<sending, accepted>>
UpsertConnector ==
  \E c \in Connectors, active \in BOOLEAN : Order([Msgs EXCEPT !.connectors = Put(@, c, active)])
Unfinished(j) == Msgs.jobs[j].status \in {"queued", "running", "partial"}
RemoveConnector ==
  \E c \in DOMAIN Msgs.connectors :
    /\ \A j \in DOMAIN Msgs.jobs : Msgs.jobs[j].connector = c => ~Unfinished(j)
    /\ Order([Msgs EXCEPT !.connectors = [d \in DOMAIN Msgs.connectors \ {c} |-> Msgs.connectors[d]]])

(* enqueue: consent is read once, here; a repeated key answers the job. *)
Delivery(m, marketing) ==
  [status |-> IF marketing /\ m \notin Consenting THEN "skipped" ELSE "pending", attempts |-> 0, next |-> 0]
Enqueue ==
  \E j \in Jobs \ DOMAIN Msgs.jobs, c \in DOMAIN Msgs.connectors, s \in DOMAIN Doc.segments,
     marketing \in BOOLEAN :
    LET deliveries == [m \in ResolveSegmentMembers(Doc.segments[s], Mem) |-> Delivery(m, marketing)]
        none == \A m \in DOMAIN deliveries : deliveries[m].status = "skipped"
    IN  /\ Msgs.connectors[c]
        /\ Order([Msgs EXCEPT !.jobs = Put(@, j,
             [connector |-> c, deliveries |-> deliveries,
              status |-> IF none THEN "completed" ELSE "queued"])])
DeskReturned ==
  /\ engagement.saves[Desk].stage \in {"stored", "refused"}
  /\ engagement' = Returned(engagement, Desk)
  /\ UNCHANGED <<sending, accepted, ordered>>

-------------------------------------------------------------------------------
(* saveJob replaces the whole job; what follows the save is the stage. *)
SaveJob(by, j, job, run) ==
  /\ engagement' = Changed(engagement, by, [Msgs EXCEPT !.jobs[j] = job])
  /\ Sends(by, run)

(* runJob marks the job as running, whatever its status was; once that is  *)
(* saved it reads the clock (at), which decides what is due.               *)
Runnable(j) ==
  LET c == Msgs.jobs[j].connector IN c \in DOMAIN Msgs.connectors /\ Msgs.connectors[c]
JobStarts(by, j, list) ==
  /\ Runnable(j)
  /\ SaveJob(by, j, [Msgs.jobs[j] EXCEPT !.status = "running"],
             [stage |-> "saving", job |-> j, at |-> None, list |-> list,
              left |-> SetToSeq(DOMAIN Msgs.jobs[j].deliveries)])
RunJob ==
  /\ Sending(Hand, "idle") /\ ordered < MaxOrders
  /\ \E j \in DOMAIN Msgs.jobs : JobStarts(Hand, j, {})
  /\ ordered' = ordered + 1
  /\ UNCHANGED accepted

(* The next delivery that is due, on the job as it is now.  No member      *)
(* leaves the engine, so each is found.                                    *)
DueDelivery(d, at) == d.status \in {"pending", "failed"} /\ d.attempts < MaxAttempts /\ d.next <= at
DueOf(run) ==
  {i \in DOMAIN run.left : DueDelivery(Msgs.jobs[run.job].deliveries[run.left[i]], run.at)}
NextDelivery(by) ==
  LET run == sending[by]
      due == DueOf(run)
  IN  /\ Sending(by, "next")
      /\ \E first \in due :
           /\ \A i \in due : first <= i
           /\ Sends(by, [stage |-> "sending", job |-> run.job, at |-> run.at, list |-> run.list,
                         left |-> SubSeq(run.left, first + 1, Len(run.left)),
                         member |-> run.left[first], copy |-> Msgs.jobs[run.job]])
      /\ UNCHANGED <<engagement, accepted, ordered>>

(* The provider takes the message or not, and its answer arrives or is     *)
(* lost; a failure is retried later.                                       *)
WithDelivery(job, m, d) == [job EXCEPT !.deliveries[m] = d]
DeliveryAnswered(by) ==
  LET run == sending[by]
      m == run.member
      d == run.copy.deliveries[m]
      after == [stage |-> "saving", job |-> run.job, at |-> run.at, left |-> run.left, list |-> run.list]
  IN  /\ Sending(by, "sending")
      /\ \/ /\ accepted' = accepted \cup {<<run.job, m>>}
            /\ SaveJob(by, run.job, WithDelivery(run.copy, m,
                 [status |-> "delivered", attempts |-> d.attempts + 1, next |-> 0]), after)
         \/ /\ accepted' \in {accepted, accepted \cup {<<run.job, m>>}}
            /\ SaveJob(by, run.job, WithDelivery(run.copy, m,
                 [status |-> "failed", attempts |-> d.attempts + 1, next |-> now + 1]), after)
      /\ UNCHANGED ordered

(* The status of the job when the run is through its deliveries. *)
JobStatusLenient(ds) ==  \* mutant: one delivery is enough
  IF \E m \in DOMAIN ds : ds[m].status = "delivered" THEN "completed" ELSE "queued"
JobStatus(ds) ==
  LET actionable == {m \in DOMAIN ds : ds[m].status # "skipped"} IN
  IF \A m \in actionable : ds[m].status = "delivered" THEN "completed"
  ELSE IF \E m \in actionable : ds[m].status = "delivered" THEN "partial"
  ELSE IF \A m \in actionable : ds[m].attempts >= MaxAttempts THEN "failed" ELSE "queued"
JobEnds(by) ==
  LET run == sending[by]
      job == Msgs.jobs[run.job]
  IN  /\ Sending(by, "next") /\ DueOf(run) = {}
      /\ SaveJob(by, run.job, [job EXCEPT !.status = JobStatus(job.deliveries)],
                 [stage |-> "ending", list |-> run.list])
      /\ UNCHANGED <<accepted, ordered>>

EngagementSaveStored(c) ==
  /\ Sent(engagement, c)
  /\ \/ Current(engagement, c) /\ engagement' = Stored(engagement, c)
     \/ engagement' = Refused(engagement, c)
  /\ UNCHANGED <<sending, accepted, ordered>>
SendReturned(by) ==  \* an error ends the run, and the pass with it
  LET run == sending[by] IN
  /\ run.stage \in {"saving", "ending"}
  /\ \/ Fails(engagement, by) /\ Sends(by, Quiet)
     \/ Succeeds(engagement, by) /\ run.stage = "saving"
        /\ Sends(by, [stage |-> "next", job |-> run.job, at |-> IF run.at = None THEN now ELSE run.at,
                      left |-> run.left, list |-> run.list])
     \/ Succeeds(engagement, by) /\ run.stage = "ending"
        /\ Sends(by, IF by = Timer THEN [stage |-> "pass", list |-> run.list] ELSE Quiet)
  /\ engagement' = Returned(engagement, by)
  /\ UNCHANGED <<accepted, ordered>>

(* runDueJobs, guarded by its own flag. *)
DueJobs ==
  {j \in DOMAIN Msgs.jobs :
     /\ Msgs.jobs[j].status \in {"queued", "partial"}
     /\ \E m \in DOMAIN Msgs.jobs[j].deliveries : DueDelivery(Msgs.jobs[j].deliveries[m], now)}
RunDueJobs ==
  /\ Sending(Timer, "idle") /\ DueJobs # {}
  /\ Sends(Timer, [stage |-> "pass", list |-> DueJobs])
  /\ UNCHANGED <<engagement, accepted, ordered>>
PassNext ==
  LET list == sending[Timer].list IN
  /\ Sending(Timer, "pass")
  /\ \/ \E j \in list : JobStarts(Timer, j, list \ {j})
     \/ /\ list = {} \/ \E j \in list : ~Runnable(j)
        /\ Sends(Timer, Quiet) /\ UNCHANGED engagement
  /\ UNCHANGED <<accepted, ordered>>

EngagementNext ==
  /\ \/ UpsertConnector \/ RemoveConnector \/ Enqueue \/ DeskReturned \/ RunJob
     \/ RunDueJobs \/ PassNext
     \/ \E by \in Senders : NextDelivery(by) \/ DeliveryAnswered(by) \/ JobEnds(by) \/ SendReturned(by)
     \/ \E c \in Senders \cup {Desk} : EngagementSaveStored(c)
  /\ UNCHANGED <<platformVars, campaignVars>>

EngagementInit ==
  /\ engagement = NewDocument([connectors |-> << >>, jobs |-> << >>], Senders \cup {Desk})
  /\ sending = [by \in Senders |-> Quiet]
  /\ accepted = {} /\ ordered = 0
EngagementBoot ==
  /\ engagement' = Reloaded(engagement)
  /\ sending' = [by \in Senders |-> Quiet]
  /\ UNCHANGED <<accepted, ordered>>

-------------------------------------------------------------------------------
(* Overlapping runs, lost answers, refused saves and stops included: a job *)
(* that reads completed, in memory or in the store, has had every message  *)
(* that was not skipped taken by the provider, and so has every delivery   *)
(* that reads delivered.                                                   *)
CompletedDelivered ==
  \A s \in {Msgs, engagement.row} : \A j \in DOMAIN s.jobs :
    \A m \in DOMAIN s.jobs[j].deliveries :
      LET d == s.jobs[j].deliveries[m] IN
      s.jobs[j].status = "completed" \/ d.status = "delivered" => d.status = "skipped" \/ <<j, m>> \in accepted
===============================================================================
