---------------------------- MODULE JsonStateStore ----------------------------
(* The state a service of the platform keeps: the whole document is in     *)
(* memory, and each change of it is followed by a save of the whole        *)
(* document under the revision the service last saw.  The change is        *)
(* effective in memory at once; the save is stored, or refused because     *)
(* another save was stored since or the database failed, and only then the *)
(* caller goes on.  Revisions are only compared, and the stored one only   *)
(* grows, so a revision somebody holds is reduced to whether it is still   *)
(* the stored one.  A document is                                          *)
(*   [memory, row: the stored state, current: whether the service holds    *)
(*    the stored revision, saves: caller -> save].                         *)
EXTENDS Common

NoSave == [stage |-> "none"]

(* create: what is stored, or a first state, is loaded and saved. *)
NewDocument(state, callers) ==
  [memory |-> state, row |-> state, current |-> TRUE, saves |-> [c \in callers |-> NoSave]]
Reloaded(doc) == NewDocument(doc.row, DOMAIN doc.saves)

(* this.state = new; save() *)
Changed(doc, c, new) ==
  [doc EXCEPT !.memory = new,
              !.saves[c] = [stage |-> "sent", state |-> new, current |-> doc.current]]

(* save in the store: the revision is compared and raised in one           *)
(* transaction under a lock; every other revision is out of date then.     *)
Sent(doc, c) == doc.saves[c].stage = "sent"
CurrentAlways(doc, c) == TRUE  \* mutant: the revision is not compared
Current(doc, c) == doc.saves[c].current
OutOfDate(save) == IF save.stage \in {"sent", "stored"} THEN [save EXCEPT !.current = FALSE] ELSE save
Stored(doc, c) ==
  [memory |-> doc.memory, row |-> doc.saves[c].state, current |-> FALSE,
   saves |-> [d \in DOMAIN doc.saves |->
                IF d = c THEN [stage |-> "stored", current |-> TRUE] ELSE OutOfDate(doc.saves[d])]]
Refused(doc, c) == [doc EXCEPT !.saves[c] = [stage |-> "refused"]]

(* The caller goes on: with the new revision, or with an error. *)
Succeeds(doc, c) == doc.saves[c].stage = "stored"
Fails(doc, c) == doc.saves[c].stage = "refused"
Returned(doc, c) ==
  [doc EXCEPT !.current = IF Succeeds(doc, c) THEN doc.saves[c].current ELSE @,
              !.saves[c] = NoSave]
===============================================================================
