--------------------------- MODULE MembershipService ---------------------------
(* Paid memberships: granted and changed by the operator, lapsed by a      *)
(* sweep every thirty seconds.  The membership is an attribute of the      *)
(* member in the engine; the service only stores an audit trail of its     *)
(* own.  A change reads the membership before it waits for the engine and  *)
(* then writes the whole record.                                           *)
EXTENDS Platform

CONSTANTS Sweeps,    \* sweeps in progress at once: the timer does not wait for the last one
          MaxGrants  \* bound on the grants and changes of a behaviour

VARIABLES audit,      \* the document of the service: the number of entries is left out
          membership, \* the call of each caller
          granted

membershipVars == <<audit, membership, granted>>
Operator == "operator"
MembershipCallers == {Operator} \cup Sweeps
NoCall == [stage |-> "idle"]
Turns(c, call) == membership' = [membership EXCEPT ![c] = call]
In(c, stage) == membership[c].stage = stage

(* snapshot reads the engine in memory. *)
MembershipOf(m) == Mem.memberships[m]
HasMembership(m) == MembershipOf(m) # None
Expired(m) == HasMembership(m) /\ MembershipOf(m).status = "active" /\ MembershipOf(m).until <= now

-------------------------------------------------------------------------------
(* grant: any window that ends after it starts, one in the past included. *)
Grant ==
  /\ In(Operator, "idle") /\ granted < MaxGrants
  /\ \E m \in Members, plan \in PlansOf[Mem.program], from \in 0 .. LastDay, until \in 0 .. LastDay :
       /\ until > from
       /\ Turns(Operator, [stage |-> "queued", member |-> m, todo |-> {},
                           value |-> [plan |-> plan, status |-> "active", until |-> until]])
  /\ granted' = granted + 1
  /\ UNCHANGED <<audit, platformVars>>

(* changeStatus, for the operator or for the next member of a sweep. *)
Change(c, m, status, todo) ==
  /\ HasMembership(m)
  /\ Turns(c, [stage |-> "queued", member |-> m, todo |-> todo,
               value |-> [MembershipOf(m) EXCEPT !.status = status]])
ChangeStatus ==
  /\ In(Operator, "idle") /\ granted < MaxGrants
  /\ \E m \in Members, status \in {"lapsed", "cancelled"} : Change(Operator, m, status, {})
  /\ granted' = granted + 1
  /\ UNCHANGED <<audit, platformVars>>

(* lapseExpired: over the members that were expired when it started. *)
Sweep(c) ==
  /\ In(c, "idle")
  /\ \E todo \in {{m \in Members : Expired(m)}} :
       todo # {} /\ Turns(c, [stage |-> "next", todo |-> todo])
  /\ UNCHANGED <<audit, granted, platformVars>>
SweepNext(c) ==
  /\ In(c, "next")
  /\ \/ membership[c].todo = {} /\ Turns(c, NoCall)
     \/ \E m \in membership[c].todo : Change(c, m, "lapsed", membership[c].todo \ {m})
  /\ UNCHANGED <<audit, granted, platformVars>>

-------------------------------------------------------------------------------
(* The engine operation: setMemberMembership.  An unknown member, or a     *)
(* transaction that fails, ends the call and the sweep with an error.      *)
SetMembership(c) ==
  LET call == membership[c] IN
  /\ In(c, "queued")
  /\ \/ /\ call.member \in Loaded(Main).enrolled
        /\ Begins(c, Main, [Loaded(Main) EXCEPT !.memberships[call.member] = call.value])
        /\ Turns(c, [call EXCEPT !.stage = "committing"])
     \/ /\ call.member \notin Loaded(Main).enrolled
        /\ Throws(Main, Loaded(Main))
        /\ Turns(c, NoCall)
  /\ UNCHANGED <<now, crashes, audit, granted>>
MembershipCommitted(c) ==
  /\ In(c, "committing") /\ Commits(c, Main)
  /\ Turns(c, [membership[c] EXCEPT !.stage = "committed"])
  /\ UNCHANGED <<now, crashes, audit, granted>>
MembershipRolledBackStuck(c) ==  \* mutant: the error leaves the sweep marked as running
  /\ In(c, "committing") /\ RollsBack(c, Main)
  /\ Turns(c, [stage |-> "stuck"])
  /\ UNCHANGED <<now, crashes, audit, granted>>
MembershipRolledBack(c) ==
  /\ In(c, "committing") /\ RollsBack(c, Main)
  /\ Turns(c, NoCall)
  /\ UNCHANGED <<now, crashes, audit, granted>>

(* audit: an entry is added and saved; a refused save is an error too. *)
Audit(c) ==
  /\ In(c, "committed")
  /\ audit' = Changed(audit, c, audit.memory)
  /\ Turns(c, [membership[c] EXCEPT !.stage = "auditing"])
  /\ UNCHANGED <<granted, platformVars>>
AuditStored(c) ==
  /\ Sent(audit, c)
  /\ \/ Current(audit, c) /\ audit' = Stored(audit, c)
     \/ audit' = Refused(audit, c)
  /\ UNCHANGED <<membership, granted, platformVars>>
Audited(c) ==
  /\ In(c, "auditing")
  /\ \/ /\ Succeeds(audit, c)
        /\ Turns(c, IF c \in Sweeps THEN [stage |-> "next", todo |-> membership[c].todo] ELSE NoCall)
     \/ Fails(audit, c) /\ Turns(c, NoCall)
  /\ audit' = Returned(audit, c)
  /\ UNCHANGED <<granted, platformVars>>

MembershipStep(c) ==
  \/ SetMembership(c) \/ MembershipCommitted(c) \/ MembershipRolledBack(c)
  \/ Audit(c) \/ AuditStored(c) \/ Audited(c)
MembershipNext ==
  \/ Grant \/ ChangeStatus
  \/ \E c \in Sweeps : Sweep(c) \/ SweepNext(c)
  \/ \E c \in MembershipCallers : MembershipStep(c)

MembershipInit ==
  /\ audit = NewDocument("entries", MembershipCallers)
  /\ membership = [c \in MembershipCallers |-> NoCall]
  /\ granted = 0
MembershipBoot ==
  /\ audit' = Reloaded(audit)
  /\ membership' = [c \in MembershipCallers |-> NoCall]
  /\ UNCHANGED granted

(* assertCompatibleProgram: the plans of active memberships stay. *)
MembershipsAllow(p) ==
  \A m \in Members :
    HasMembership(m) /\ MembershipOf(m).status = "active" => MembershipOf(m).plan \in PlansOf[p]

-------------------------------------------------------------------------------
(* docs/reference-platform.md:202 "expired memberships are lapsed by the   *)
(* embedded scheduler": every stored membership that has expired is        *)
(* eventually lapsed, replaced or renewed, although sweeps fail, overlap   *)
(* and read an engine that may show a lapse that was rolled back.          *)
StoredExpired(m) ==
  LET s == engine.row.memberships[m] IN s # None /\ s.status = "active" /\ s.until <= now
ExpiredLapses == \A m \in Members : StoredExpired(m) ~> ~StoredExpired(m)
===============================================================================
