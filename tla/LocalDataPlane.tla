---------------------------- MODULE LocalDataPlane ----------------------------
(* The file-backed data plane: one environment with its SQLite database    *)
(* and its encrypted credentials file, the runtime that serves it, and the *)
(* operations suspend, resume, backup, restore and rotate, which overlap.  *)
(* The content of a file: where it comes from (from: "live", or the backup *)
(* it was restored from), and the merchant keys of the database or the one *)
(* merchant key of the credentials.                                        *)
EXTENDS Common

CONSTANTS Operators,   \* operations that may be in progress at once
          MerchantKeys, \* ids of merchant keys
          Backups,     \* ids of backups
          FailingFiles, \* the file operations that may fail: {"rename", "rm"} or fewer
          MaxOperations, MaxHalts  \* bounds on the operations and stops of a behaviour

(* What a database and a credentials file hold. *)
Origins == Backups \cup {"live"}
KeyStates == {"standing", "overlap", "ended"}
DatabaseFiles == [from : Origins, keys : UNION {[ks -> KeyStates] : ks \in SUBSET MerchantKeys}]
CredentialFiles == [from : Origins, key : MerchantKeys]
ASSUME LocalAssumption ==
  /\ MerchantKeys # {}
  /\ None \notin DatabaseFiles \cup CredentialFiles

VARIABLES serving,    \* the runtime: "stopped", "running", or "closed" and registered in this.running
          outlived,   \* whether the runtime of the rotation in progress was closed meanwhile
          envStatus,  \* the status the control plane stored
          files,      \* [db, cred]: content of the database and of the credentials, or None
          backups,    \* backups written: id -> [db, cred]
          doing,      \* the operation in progress of each operator
          halts, done, \* stops and operations so far
          torn        \* whether a restore was disturbed, or its error path failed in turn

localVars == <<serving, outlived, envStatus, files, backups, doing, halts, done, torn>>

Resting == [stage |-> "idle"]
Doing(c, stage) == doing[c].stage = stage
Does(c, d) == doing' = [doing EXCEPT ![c] = d]
Kept == UNCHANGED <<outlived, halts, done, torn>>
Restoring == \E c \in Operators : doing[c].stage \in {"move", "undo"}
Rotating == \E c \in Operators : Doing(c, "write")

-------------------------------------------------------------------------------
(* operateLocalEnvironment and rotateEnvironmentCredentials: suspend wants *)
(* a ready environment, resume and restore a suspended one.                *)
Begin(c) ==
  /\ Doing(c, "idle") /\ done < MaxOperations
  /\ \E op \in {"suspend", "resume", "backup", "restore", "rotate"} :
       /\ op = "suspend" => envStatus = "ready"
       /\ op \in {"resume", "restore"} => envStatus = "suspended"
       /\ Does(c, [stage |-> op])
  /\ done' = done + 1
  /\ torn' = (torn \/ Restoring)
  /\ UNCHANGED <<serving, outlived, envStatus, files, backups, halts>>
SetStatus(c) ==
  /\ doing[c].stage \in {"suspended", "resumed"}
  /\ envStatus' = IF Doing(c, "suspended") THEN "suspended" ELSE "ready"
  /\ Does(c, Resting)
  /\ UNCHANGED <<serving, files, backups>> /\ Kept

(* suspend: without a runtime an error.  A close that fails puts the       *)
(* runtime back, whose server is closed by then; to close that one again   *)
(* is an error every time.                                                 *)
Closed == outlived' = Rotating
Suspends == serving = "running" /\ serving' = "stopped" /\ Closed
SuspendFails ==
  \/ serving # "running" /\ UNCHANGED <<serving, outlived>>
  \/ serving = "running" /\ serving' = "closed" /\ Closed
LocalSuspend(c) ==
  /\ Doing(c, "suspend")
  /\ \/ Suspends /\ Does(c, [stage |-> "suspended"])
     \/ SuspendFails /\ Does(c, Resting)
  /\ UNCHANGED <<envStatus, files, backups, halts, done, torn>>

(* startRuntime: refused while one is registered and without credentials;  *)
(* a database that is missing is created.                                  *)
Startable == serving = "stopped" /\ files.cred # None
Opened == [files EXCEPT !.db = IF @ = None THEN [from |-> "live", keys |-> << >>] ELSE @]
LocalResume(c) ==
  /\ Doing(c, "resume")
  /\ \/ Startable /\ serving' = "running" /\ files' = Opened /\ Does(c, [stage |-> "resumed"])
     \/ Does(c, Resting) /\ UNCHANGED <<serving, files>>
  /\ UNCHANGED <<envStatus, backups>> /\ Kept

(* backup: a registered runtime is suspended, the files are read, and it   *)
(* is started again in the end.                                            *)
BackupStart(c) ==
  /\ Doing(c, "backup")
  /\ \/ serving = "stopped" /\ Does(c, [stage |-> "read", was |-> FALSE])
        /\ UNCHANGED <<serving, outlived>>
     \/ Suspends /\ Does(c, [stage |-> "read", was |-> TRUE])
     \/ serving # "stopped" /\ SuspendFails /\ Does(c, Resting)
  /\ UNCHANGED <<envStatus, files, backups, halts, done, torn>>
Copy(b) == [db |-> [files.db EXCEPT !.from = b], cred |-> [files.cred EXCEPT !.from = b]]
BackupRead(c) ==
  /\ Doing(c, "read")
  /\ \/ /\ files.db # None /\ files.cred # None
        /\ \E b \in Backups \ DOMAIN backups : backups' = Put(backups, b, Copy(b))
     \/ UNCHANGED backups
  /\ Does(c, IF doing[c].was THEN [stage |-> "restart"] ELSE Resting)
  /\ UNCHANGED <<serving, envStatus, files>> /\ Kept
BackupRestart(c) ==
  /\ Doing(c, "restart")
  /\ IF Startable THEN serving' = "running" /\ files' = Opened ELSE UNCHANGED <<serving, files>>
  /\ Does(c, Resting)
  /\ UNCHANGED <<envStatus, backups>> /\ Kept

-------------------------------------------------------------------------------
(* restoreBackup with force: refused while one is registered.  The current *)
(* files are moved aside (old), those of the backup are moved in, one      *)
(* rename after the other, and what was moved aside is removed.            *)
RestoreBackup(c) ==
  /\ Doing(c, "restore")
  /\ \/ \E b \in DOMAIN backups :
          /\ serving = "stopped"
          /\ Does(c, [stage |-> "move", from |-> b, step |-> 1, old |-> [db |-> None, cred |-> None]])
          /\ torn' = (torn \/ \E o \in Operators \ {c} : ~Doing(o, "idle"))
     \/ Does(c, Resting) /\ UNCHANGED torn
  /\ UNCHANGED <<serving, outlived, envStatus, files, backups, halts, done>>
Moves(c, old) ==
  Does(c, [stage |-> "move", from |-> doing[c].from, step |-> doing[c].step + 1, old |-> old])
MovesAside(c, file) ==
  /\ files' = [files EXCEPT ![file] = None]
  /\ Moves(c, [doing[c].old EXCEPT ![file] = files[file]])
MovesIn(c, file) ==
  /\ files' = [files EXCEPT ![file] = backups[doing[c].from][file]]
  /\ Moves(c, doing[c].old)
Removes(c, file) ==
  /\ \/ file = "db" /\ Moves(c, [doing[c].old EXCEPT !.db = None])
     \/ file = "cred" /\ Does(c, [stage |-> "resume"])
  /\ UNCHANGED files

RestoreStep(c) ==
  LET step == doing[c].step IN
  /\ Doing(c, "move")
  /\ \/ step = 1 /\ MovesAside(c, "db")
     \/ step = 2 /\ MovesAside(c, "cred")
     \/ step = 3 /\ MovesIn(c, "db")
     \/ step = 4 /\ MovesIn(c, "cred")
     \/ step = 5 /\ Removes(c, "db")
     \/ step = 6 /\ Removes(c, "cred")
     \/ /\ (IF step <= 4 THEN "rename" ELSE "rm") \in FailingFiles
        /\ Does(c, [stage |-> "undo", at |-> step, next |-> 1, old |-> doing[c].old])
        /\ UNCHANGED files
  /\ UNCHANGED <<serving, envStatus, backups>> /\ Kept

(* The error path of a restore that failed at a step: the database, then   *)
(* the credentials that were moved in are removed, the database, then the  *)
(* credentials that were moved aside are put back.  One of these that      *)
(* fails in turn ends it there.                                            *)
UndoneHalf(now, old, at, n) ==  \* mutant: the old database returns only where none was moved in
  [db |-> IF n = 3 /\ at <= 3 /\ old.db # None THEN old.db ELSE IF n = 1 /\ at > 3 THEN None ELSE now.db,
   cred |-> IF n = 4 /\ old.cred # None THEN old.cred ELSE IF n = 2 /\ at > 4 THEN None ELSE now.cred]
Undone(now, old, at, n) ==
  [db |-> IF n = 3 /\ old.db # None THEN old.db ELSE IF n = 1 /\ at > 3 THEN None ELSE now.db,
   cred |-> IF n = 4 /\ old.cred # None THEN old.cred ELSE IF n = 2 /\ at > 4 THEN None ELSE now.cred]
UndoStep(c) ==
  LET d == doing[c]
      after == Undone(files, d.old, d.at, d.next)
  IN
  /\ Doing(c, "undo")
  /\ \/ /\ files' = after /\ UNCHANGED torn
        /\ Does(c, IF d.next = 4 THEN Resting ELSE [d EXCEPT !.next = @ + 1])
     \/ /\ after # files /\ (IF d.next <= 2 THEN "rm" ELSE "rename") \in FailingFiles
        /\ torn' = TRUE /\ Does(c, Resting) /\ UNCHANGED files
  /\ UNCHANGED <<serving, outlived, envStatus, backups, halts, done>>

-------------------------------------------------------------------------------
(* rotateCredentials, one at a time: the pinned key is rotated when it is  *)
(* still accepted (its replacement ends when it would have ended), or the  *)
(* standing key is, or a new one is minted; the file is written after that,*)
(* and the runtime the rotation began with is registered again, also when  *)
(* it was closed meanwhile.                                                *)
KeysOf(db) == IF db = None THEN << >> ELSE db.keys
StandingKeys == {k \in DOMAIN files.db.keys : files.db.keys[k] = "standing"}
Accepted(k) == k \in DOMAIN files.db.keys /\ files.db.keys[k] # "ended"
Rotates(old, new) ==
  files' = [files EXCEPT !.db.keys = Put([@ EXCEPT ![old] = "overlap"], new, @[old])]
RotateCredentials(c) ==
  LET pinned == files.cred.key IN
  /\ Doing(c, "rotate") /\ ~Rotating
  /\ \/ /\ serving = "running" /\ files.cred # None /\ files.db # None
        /\ \E new \in MerchantKeys \ DOMAIN files.db.keys :
             /\ Does(c, [stage |-> "write", cred |-> [files.cred EXCEPT !.key = new]])
             /\ \/ Accepted(pinned) /\ Rotates(pinned, new)
                \/ ~Accepted(pinned) /\ \E old \in StandingKeys : Rotates(old, new)
                \/ /\ ~Accepted(pinned) /\ StandingKeys = {}
                   /\ files' = [files EXCEPT !.db.keys = Put(@, new, "standing")]
     \/ Does(c, Resting) /\ UNCHANGED files
  /\ UNCHANGED <<serving, envStatus, backups>> /\ Kept
WriteCredentials(c) ==
  /\ Doing(c, "write")
  /\ \/ /\ files' = [files EXCEPT !.cred = doing[c].cred]
        /\ serving' = IF outlived THEN "closed" ELSE serving
     \/ "rename" \in FailingFiles /\ UNCHANGED <<files, serving>>
  /\ outlived' = FALSE
  /\ Does(c, Resting)
  /\ UNCHANGED <<envStatus, backups, halts, done, torn>>
OverlapEnds ==
  /\ \E k \in DOMAIN KeysOf(files.db) :
       files.db.keys[k] = "overlap" /\ files' = [files EXCEPT !.db.keys[k] = "ended"]
  /\ UNCHANGED <<serving, envStatus, backups, doing>> /\ Kept

(* The process stops, and restore starts whatever has a credentials file,  *)
(* in whatever status the environment is.                                  *)
RestoreCredentialFile ==
  /\ serving' = IF files.cred # None THEN "running" ELSE "stopped"
  /\ files' = IF files.cred # None THEN Opened ELSE files
Halt ==
  /\ halts < MaxHalts
  /\ halts' = halts + 1
  /\ torn' = (torn \/ Restoring)
  /\ RestoreCredentialFile
  /\ doing' = [c \in Operators |-> Resting] /\ outlived' = FALSE
  /\ UNCHANGED <<envStatus, backups, done>>

FirstKey == CHOOSE k \in MerchantKeys : TRUE
LocalInit ==
  /\ serving = "running" /\ outlived = FALSE /\ envStatus = "ready"
  /\ files = [db |-> [from |-> "live", keys |-> [k \in {FirstKey} |-> "standing"]],
              cred |-> [from |-> "live", key |-> FirstKey]]
  /\ backups = << >>
  /\ doing = [c \in Operators |-> Resting]
  /\ halts = 0 /\ done = 0 /\ torn = FALSE

LocalNext ==
  \/ \E c \in Operators :
       \/ Begin(c) \/ SetStatus(c) \/ LocalSuspend(c) \/ LocalResume(c)
       \/ BackupStart(c) \/ BackupRead(c) \/ BackupRestart(c)
       \/ RestoreBackup(c) \/ RestoreStep(c) \/ UndoStep(c)
       \/ RotateCredentials(c) \/ WriteCredentials(c)
  \/ OverlapEnds \/ Halt
LocalSpec == LocalInit /\ [][LocalNext]_localVars

-------------------------------------------------------------------------------
(* A restore of which a rename fails leaves the environment with a         *)
(* database and credentials that belong together, those before it or those *)
(* of the backup, unless a stop, another operation or a second failure, of *)
(* its error path, disturbed it.                                           *)
RestoreWhole ==
  (~torn /\ ~Restoring) =>
    /\ files.db # None /\ files.cred # None /\ files.cred.from = files.db.from
    /\ files.cred.key \in DOMAIN files.db.keys
===============================================================================
