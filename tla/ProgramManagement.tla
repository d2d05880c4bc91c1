--------------------------- MODULE ProgramManagement ---------------------------
(* Drafts, publishing and rollback of the program.  A publish saves its    *)
(* intent (the new program is the active one, the old one is kept in the   *)
(* history), then has the engine take the program over, and on an error    *)
(* puts the earlier document back.  Startup compares the program of the    *)
(* stored engine with the active one, and retargets the engine when it     *)
(* knows the program the engine was saved under.                           *)
EXTENDS MembershipService, CampaignService

CONSTANTS Valid,        \* the programs that pass validation
          Compatible,   \* those with the id, currency and primary unit of the first one
          HistoryLimit, \* revisions kept
          MaxDrafts     \* bound on the drafts of a behaviour

ASSUME PublishAssumption == HistoryLimit \in Nat /\ MaxDrafts \in Nat

VARIABLES programs,    \* the document: [active, number, history, draft]
          publishing,  \* the publish in progress
          drafted,
          refusals     \* history variable, read by no action: the intents that were
                       \* refused since the engine last had the active program

programVars == <<programs, publishing, drafted, refusals>>
Editor == "editor"
Publisher == "publisher"
Book == programs.memory
Resting == [stage |-> "idle"]
Publishes(stage) == publishing.stage = stage

-------------------------------------------------------------------------------
(* saveDraft (also of upsertReward and deleteReward), discardDraft and     *)
(* validateDraft, which stores its result with the draft.                  *)
Drafting(new) ==
  /\ programs.saves[Editor] = NoSave /\ drafted < MaxDrafts
  /\ programs' = Changed(programs, Editor, new)
  /\ drafted' = drafted + 1
  /\ UNCHANGED <<publishing, refusals>>
SaveDraft ==
  \E p \in Programs :
    LET version == (IF Book.draft = None THEN Book.number ELSE Book.draft.version) + 1
    IN  Drafting([Book EXCEPT !.draft = [version |-> version, program |-> p]])
DiscardDraft == Book.draft # None /\ Drafting([Book EXCEPT !.draft = None])
ValidateDraft == Book.draft # None /\ Drafting(Book)
DraftReturned ==
  /\ programs.saves[Editor].stage \in {"stored", "refused"}
  /\ programs' = Returned(programs, Editor)
  /\ UNCHANGED <<publishing, drafted, refusals>>

-------------------------------------------------------------------------------
(* applyPublishedProgram, up to the save of the intent. *)
Retained(history) == SubSeq(history, 1, IF Len(history) < HistoryLimit THEN Len(history) ELSE HistoryLimit)
IntendedForgetful(p) ==  \* mutant: the replaced program is not kept
  [Book EXCEPT !.active = p, !.number = @ + 1, !.draft = None]
Intended(p) ==
  [active |-> p, number |-> Book.number + 1, draft |-> None,
   history |-> Retained(<<[number |-> Book.number, program |-> Book.active]>> \o Book.history)]
ApplyPublishedProgram(p) ==
  /\ publishing' = [stage |-> "intent", program |-> p, previous |-> Book]
  /\ programs' = Changed(programs, Publisher, Intended(p))

(* publish: an invalid draft is stored with its issues and refused; one    *)
(* that is valid and not compatible is refused, and nothing is stored.     *)
Publish ==
  /\ Publishes("idle") /\ Book.draft # None
  /\ \/ Book.draft.program \in Valid \cap Compatible /\ ApplyPublishedProgram(Book.draft.program)
     \/ /\ Book.draft.program \notin Valid
        /\ programs' = Changed(programs, Publisher, Book)
        /\ publishing' = [stage |-> "ending"]
  /\ UNCHANGED <<drafted, refusals>>
Rollback ==  \* what was published once is valid and compatible
  /\ Publishes("idle") /\ drafted < MaxDrafts
  /\ \E n \in DOMAIN Book.history : ApplyPublishedProgram(Book.history[n].program)
  /\ drafted' = drafted + 1
  /\ UNCHANGED refusals

ProgramSaveStored(c) ==
  /\ Sent(programs, c)
  /\ \/ Current(programs, c) /\ programs' = Stored(programs, c)
     \/ programs' = Refused(programs, c)
  /\ UNCHANGED <<publishing, drafted, refusals>>
IntentReturned ==  \* a refused intent stays in memory
  /\ Publishes("intent")
  /\ \/ /\ Succeeds(programs, Publisher)
        /\ publishing' = [publishing EXCEPT !.stage = "applying"]
        /\ UNCHANGED refusals
     \/ Fails(programs, Publisher) /\ publishing' = Resting /\ refusals' = refusals + 1
  /\ programs' = Returned(programs, Publisher)
  /\ UNCHANGED drafted
PublishReturned ==
  /\ Publishes("ending") /\ programs.saves[Publisher].stage \in {"stored", "refused"}
  /\ programs' = Returned(programs, Publisher)
  /\ publishing' = Resting
  /\ UNCHANGED <<drafted, refusals>>

(* The publisher that platform.ts binds: campaigns, memberships and engine *)
(* have to allow the program, and the engine is saved under it.            *)
EngineAllows(p) == \A i \in Loaded(Main).issued : i.reward \in Offers[p]
Allowed(p) == CampaignsAllow(p) /\ MembershipsAllow(p) /\ EngineAllows(p)
Reverts ==
  /\ programs' = Changed(programs, Publisher, publishing.previous)
  /\ publishing' = [stage |-> "ending"]
Apply ==
  /\ Publishes("applying")
  /\ \/ /\ Allowed(publishing.program)
        /\ Begins(Publisher, Main, [Loaded(Main) EXCEPT !.program = publishing.program])
        /\ publishing' = [publishing EXCEPT !.stage = "committing"]
        /\ UNCHANGED programs
     \/ ~Allowed(publishing.program) /\ Throws(Main, Loaded(Main)) /\ Reverts
  /\ UNCHANGED <<now, crashes, drafted, refusals>>
ApplyCommitted ==
  /\ Publishes("committing") /\ Commits(Publisher, Main)
  /\ publishing' = Resting /\ refusals' = 0
  /\ UNCHANGED <<now, crashes, programs, drafted>>
ApplyRolledBack ==  \* the engine in memory is reconfigured to the program it had
  /\ Publishes("committing") /\ Holds(Publisher, Main)
  /\ engine' = [engine EXCEPT !.lock = None, !.memory[Main].program = engine.row.program]
  /\ Reverts
  /\ UNCHANGED <<now, crashes, drafted, refusals>>

DraftStep ==
  \/ SaveDraft \/ DiscardDraft \/ ValidateDraft \/ DraftReturned \/ Publish \/ Rollback
  \/ IntentReturned \/ PublishReturned \/ \E c \in {Editor, Publisher} : ProgramSaveStored(c)
ProgramNext ==
  /\ (DraftStep /\ UNCHANGED platformVars) \/ Apply \/ ApplyCommitted \/ ApplyRolledBack
  /\ UNCHANGED <<membershipVars, campaignVars>>

(* programForFingerprint *)
Known(book, p) == p = book.active \/ \E n \in DOMAIN book.history : book.history[n].program = p

ProgramInit ==
  /\ programs = NewDocument([active |-> FirstProgram, number |-> 1, history |-> << >>, draft |-> None],
                            {Editor, Publisher})
  /\ publishing = Resting /\ drafted = 0 /\ refusals = 0
ProgramBoot ==  \* startup throws when the program is unknown
  /\ Known(programs.row, engine.row.program)
  /\ engine' = Restarted(Main, programs.row.active)
  /\ programs' = Reloaded(programs)
  /\ publishing' = Resting /\ refusals' = 0
  /\ UNCHANGED drafted

-------------------------------------------------------------------------------
(* docs/reference-platform.md:59 "Startup reconciles a compatible          *)
(* interrupted publish": wherever a publish or a rollback is interrupted,  *)
(* refused or undone, the stored document still knows the program the      *)
(* stored engine was saved under, so the platform starts again: however    *)
(* often the history was cut, unless as many intents in a row were refused *)
(* as it keeps revisions, each of which pushed that program one deeper.    *)
StartupKnowsProgram ==
  refusals < HistoryLimit => Known(programs.row, engine.row.program)

(* docs/reference-platform.md:190 "Publishing rejects removal of a reward  *)
(* that still backs an active issued reward or a saved campaign": the      *)
(* engine never runs a program without them.                               *)
PublishedOffersRewards ==
  /\ \A c \in DOMAIN Doc.campaigns : Doc.campaigns[c].reward \in Offers[engine.row.program]
  /\ \A i \in engine.row.issued : i.reward \in Offers[engine.row.program]
===============================================================================
