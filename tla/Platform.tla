------------------------------- MODULE Platform -------------------------------
(* One tenant's engine and the transactions its services run on it: every  *)
(* write goes through executeEngineOperation, which holds the advisory     *)
(* lock of the tenant, reloads the stored engine, runs the operation on    *)
(* the engine in memory, saves it and commits.  The memory of an instance  *)
(* is what the services read in between, so it shows an operation before   *)
(* it commits, and still shows one that was rolled back.                   *)
EXTENDS JsonStateStore, Sequences

CONSTANTS Instances,   \* processes of the platform
          Main,        \* the one that runs the services
          Members, Rewards, Plans,
          Programs,    \* program definitions
          Offers,      \* [Programs -> SUBSET Rewards]
          PlansOf,     \* [Programs -> SUBSET Plans]
          FirstProgram,
          LastDay,     \* bound on the clock
          MaxCrashes   \* bound on the stops of a behaviour

ASSUME PlatformAssumption ==
  /\ Main \in Instances /\ FirstProgram \in Programs
  /\ Offers \in [Programs -> SUBSET Rewards] /\ PlansOf \in [Programs -> SUBSET Plans]
  /\ LastDay \in Nat /\ MaxCrashes \in Nat

VARIABLES now,     \* the time of day, in days
          engine,  \* [row: stored state, memory: [Instances -> state], lock: <<caller, instance>> or None]
          crashes

platformVars == <<now, engine, crashes>>

(* A state of the engine: the program it was saved under (its              *)
(* fingerprint), the idempotency keys of the requests it applied, the      *)
(* enrolled members, their memberships and the rewards issued to them.     *)
FirstState(enrolled, memberships) ==
  [program |-> FirstProgram, applied |-> {}, enrolled |-> enrolled,
   memberships |-> memberships, issued |-> {}]
Mem == engine.memory[Main]

(* mutate: serialized, lockEngine, loadWithClient and replaceState, which  *)
(* throws when the instance runs another program than the stored one.      *)
Free == engine.lock = None
LoadedStale(i) == engine.memory[i]  \* mutant: the stored state is not loaded
Loaded(i) == engine.row
SameProgram(i) == engine.memory[i].program = engine.row.program
Begins(c, i, new) ==
  Free /\ SameProgram(i) /\ engine' = [engine EXCEPT !.lock = <<c, i>>, !.memory[i] = new]

(* saveWithClient and COMMIT, or ROLLBACK; the memory stays as it is. *)
Holds(c, i) == engine.lock = <<c, i>>
Commits(c, i) == Holds(c, i) /\ engine' = [engine EXCEPT !.row = engine.memory[i], !.lock = None]
RollsBack(c, i) == Holds(c, i) /\ engine' = [engine EXCEPT !.lock = None]
Throws(i, new) == Free /\ SameProgram(i) /\ engine' = [engine EXCEPT !.memory[i] = new]

(* A member joins: a request that writes the engine and nothing else.      *)
Enrol(m) ==
  /\ Free /\ SameProgram(Main) /\ m \notin engine.row.enrolled
  /\ LET new == [Loaded(Main) EXCEPT !.enrolled = @ \cup {m}]
     IN  engine' = [engine EXCEPT !.row = new, !.memory[Main] = new]
  /\ UNCHANGED <<now, crashes>>

(* Any other operation on the engine: it leaves in memory what is stored.  *)
Traffic == Throws(Main, Loaded(Main)) /\ UNCHANGED <<now, crashes>>

Day == now < LastDay /\ now' = now + 1 /\ UNCHANGED <<engine, crashes>>

(* An instance stops and starts again: a transaction it held is gone and   *)
(* its memory is the stored state, under the program it starts with.       *)
Restarted(i, program) ==
  LET row == [engine.row EXCEPT !.program = program]
  IN  [row |-> row, memory |-> [engine.memory EXCEPT ![i] = row],
       lock |-> IF ~Free /\ engine.lock[2] = i THEN None ELSE engine.lock]

(* An instance that was there before the last publish runs another program.*)
PlatformInit(enrolled, memberships, before) ==
  /\ now = 0 /\ crashes = 0
  /\ LET first == FirstState(enrolled, memberships)
         Memory(i) == IF i = Main THEN first ELSE [first EXCEPT !.program = before]
     IN  engine = [row |-> first, lock |-> None, memory |-> [i \in Instances |-> Memory(i)]]
===============================================================================
