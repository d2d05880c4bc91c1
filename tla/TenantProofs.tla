------------------------------ MODULE TenantProofs ------------------------------
(***************************************************************************)
(* Proofs about the services of a tenant, for every set of members,        *)
(* programs, requests, keys and bounds, and for every group of services.   *)
(***************************************************************************)
EXTENDS Tenant, FiniteSetTheorems, TLAPS

-------------------------------------------------------------------------------
(* The request handler.  A request knows why it has to be refused (missed) *)
(* until that changes; a write that is past its one lookup is not revoked, *)
(* and one that is past the freeze has nothing against it.                 *)

WriteRoutes == {ProtocolWrite, PlatformWrite}
Due(r) ==
  /\ r.missed \subseteq {"frozen", "revoked"}
  /\ "frozen" \in r.missed => frozen
  /\ "revoked" \in r.missed => r.cred[1] = "bearer" /\ r.cred[2] \in HttpKeys \ valid
Cleared(r) ==
  r.route \in WriteRoutes =>
    /\ r.stage = "looking" => \/ r.left = r.route.lookups
                              \/ r.left = << >> /\ "revoked" \notin r.missed
    /\ r.stage # "looking" => r.missed = {}
Shaped(r) ==
  r = [stage |-> r.stage, route |-> r.route, left |-> r.left, cred |-> r.cred, missed |-> r.missed]
RequestGood(r) == r = Vacant \/ (r.stage # "idle" /\ Shaped(r) /\ Due(r) /\ Cleared(r))
HttpGood == slots = [s \in Slots |-> slots[s]] /\ \A s \in Slots : RequestGood(slots[s])

LEMMA WriteRoute ==
  ASSUME NEW route \in WriteRoutes
  PROVE  /\ route.bearer = TRUE /\ route.freeze = TRUE /\ route.effect = "none"
         /\ route.lookups = <<"protocol:write">> \/ route.lookups = <<"platform:write">>
BY DEF WriteRoutes, ProtocolWrite, PlatformWrite, ProtocolRead, PlatformRead, Capabilities, Metrics, Open

LEMMA LookupRefusesRevoked ==
  ASSUME NEW r, Due(r), r.route \in WriteRoutes, r.left = r.route.lookups, Passes(r, Head(r.left))
  PROVE  "revoked" \notin r.missed
<1> SUFFICES ASSUME "revoked" \in r.missed PROVE FALSE
  OBVIOUS
<1>1. r.cred[1] = "bearer" /\ r.cred[2] \in HttpKeys \ valid
  BY DEF Due
<1>2. Principal(r.cred, r.route.bearer) = None
  BY <1>1, WriteRoute, HttpAssumption DEF Principal, Root
<1>3. \A permission : ~Has(None, permission)
  BY HttpAssumption DEF Has, Root
<1>4. Head(r.left) = "protocol:write" \/ Head(r.left) = "platform:write"
  <2>1. Head(<<"protocol:write">>) = "protocol:write" /\ Head(<<"platform:write">>) = "platform:write"
    OBVIOUS
  <2>2. r.left = <<"protocol:write">> \/ r.left = <<"platform:write">>
    BY WriteRoute
  <2>3. QED
    BY <2>1, <2>2
<1>5. QED
  BY <1>2, <1>3, <1>4 DEF Passes

LEMMA HttpGoodInit == Init => HttpGood
BY DEF Init, HttpInit, HttpGood, RequestGood

(* A step of one request: the others stay what they were. *)
LEMMA OneRequest ==
  ASSUME HttpGood, NEW s \in Slots, NEW r, slots' = [slots EXCEPT ![s] = r],
         UNCHANGED frozen, valid' \subseteq valid, RequestGood(r)
  PROVE  HttpGood'
<1>1. \A t \in Slots : slots'[t] = IF t = s THEN r ELSE slots[t]
  BY DEF HttpGood
<1>2. ASSUME NEW t \in Slots PROVE RequestGood(slots[t])'
  BY <1>1 DEF HttpGood, RequestGood, Due, Cleared
<1>3. QED
  BY <1>1, <1>2 DEF HttpGood

LEMMA HttpStep ==
  ASSUME HttpGood, HttpNext
  PROVE  HttpGood'
<1>1. CASE SignIn \/ Logout \/ WindowEnds
  BY <1>1 DEF SignIn, Logout, WindowEnds, HttpGood, RequestGood, Due, Cleared
<1>2. ASSUME NEW s \in Slots, Arrive(s) PROVE HttpGood'
  <2>1. PICK route \in Routes, cred \in Credentials :
          Serves(s, [stage |-> "looking", route |-> route, left |-> route.lookups, cred |-> cred,
                     missed |-> Missed(cred)])
    BY <1>2 DEF Arrive
  <2> DEFINE r == [stage |-> "looking", route |-> route, left |-> route.lookups, cred |-> cred,
                   missed |-> Missed(cred)]
  <2>2. RequestGood(r) /\ UNCHANGED <<frozen, valid>>
    BY <1>2 DEF RequestGood, Due, Cleared, Shaped, Missed, Arrive
  <2> HIDE DEF r
  <2>3. QED
    BY <2>1, <2>2, OneRequest DEF Serves, r
<1>3. ASSUME NEW s \in Slots, Lookup(s) PROVE HttpGood'
  <2> DEFINE r == slots[s]
             q == [r EXCEPT !.left = Tail(@)]
  <2>1. RequestGood(r) /\ r # Vacant /\ UNCHANGED <<frozen, valid>> /\ r.stage = "looking"
    BY <1>3 DEF Lookup, HttpGood, Busy, Vacant
  <2>a. Shaped(r)
    BY <2>1 DEF RequestGood
  <2>2. \/ Serves(s, Vacant)
        \/ Passes(r, Head(r.left)) /\ Serves(s, q) /\ r.left # << >>
    BY <1>3 DEF Lookup
  <2>3. /\ q.stage = r.stage /\ q.route = r.route /\ q.left = Tail(r.left) /\ q.cred = r.cred
        /\ q.missed = r.missed /\ Shaped(q)
    <3>1. ASSUME NEW x PROVE LET p == [r EXCEPT !.left = x]
                             IN  /\ p.stage = r.stage /\ p.route = r.route /\ p.left = x
                                 /\ p.cred = r.cred /\ p.missed = r.missed /\ Shaped(p)
      BY <2>a DEF Shaped
    <3>2. QED
      BY <3>1
  <2>4. ASSUME Passes(r, Head(r.left)), r.left # << >> PROVE RequestGood(q)
    <3>1. Due(q)
      BY <2>1, <2>3 DEF RequestGood, Due
    <3>2. CASE r.route \in WriteRoutes
      <4>1. r.left = r.route.lookups /\ "revoked" \notin r.missed
        BY <2>1, <2>4, <3>2, LookupRefusesRevoked DEF RequestGood, Cleared
      <4>2. \A x : Tail(<<x>>) = << >>
        OBVIOUS
      <4>a. r.left = <<"protocol:write">> \/ r.left = <<"platform:write">>
        BY <3>2, <4>1, WriteRoute
      <4>3. q.left = << >>
        BY <2>3, <4>a, <4>2
      <4>4. QED
        BY <2>1, <2>3, <3>1, <4>1, <4>3 DEF RequestGood, Cleared
    <3>3. CASE r.route \notin WriteRoutes
      BY <2>1, <2>3, <3>1, <3>3 DEF RequestGood, Cleared
    <3>4. QED
      BY <3>2, <3>3
  <2> HIDE DEF q
  <2>5. QED
    BY <2>1, <2>2, <2>4, OneRequest DEF Serves, RequestGood
<1>4. ASSUME NEW s \in Slots, NEW stage, stage \notin {"idle", "looking"},
             slots[s] # Vacant, slots[s].stage = "looking" => slots[s].left = << >> /\ ~(slots[s].route.freeze /\ frozen),
             Serves(s, [slots[s] EXCEPT !.stage = stage]), UNCHANGED <<frozen, valid>>
      PROVE  HttpGood'
  <2> DEFINE r == slots[s]
             q == [r EXCEPT !.stage = stage]
  <2>1. RequestGood(r) /\ Shaped(r) /\ Due(r) /\ Cleared(r)
    BY <1>4 DEF HttpGood, RequestGood
  <2>2. /\ q.stage = stage /\ q.route = r.route /\ q.left = r.left /\ q.cred = r.cred
        /\ q.missed = r.missed /\ Shaped(q)
    BY <2>1 DEF Shaped
  <2>3. Due(q)
    BY <2>1, <2>2 DEF Due
  <2>4. ASSUME r.route \in WriteRoutes PROVE r.missed = {}
    <3>1. CASE r.stage # "looking"
      BY <2>1, <2>4, <3>1 DEF Cleared
    <3>2. CASE r.stage = "looking"
      <4>a. <<"protocol:write">> # << >> /\ <<"platform:write">> # << >>
        OBVIOUS
      <4>1. r.route.lookups # << >> /\ r.route.freeze
        BY <2>4, <4>a, WriteRoute
      <4>2. "revoked" \notin r.missed /\ ~frozen
        BY <1>4, <2>1, <2>4, <3>2, <4>1 DEF Cleared
      <4>3. QED
        BY <2>1, <4>2 DEF Due
    <3>3. QED
      BY <3>1, <3>2
  <2>5. RequestGood(q)
    BY <1>4, <2>2, <2>3, <2>4 DEF RequestGood, Cleared
  <2> HIDE DEF q
  <2>6. QED
    BY <1>4, <2>5, OneRequest DEF Serves, q
<1>5. ASSUME NEW s \in Slots, Serves(s, Vacant), UNCHANGED frozen, valid' \subseteq valid PROVE HttpGood'
  BY <1>5, OneRequest DEF Serves, RequestGood
<1>6. ASSUME NEW s \in Slots, Guard(s) PROVE HttpGood'
  <2>1. /\ slots[s] # Vacant /\ slots[s].left = << >> /\ UNCHANGED <<frozen, valid>>
        /\ \/ Serves(s, Vacant)
           \/ /\ ~(slots[s].route.freeze /\ frozen)
              /\ Serves(s, [slots[s] EXCEPT !.stage = IF slots[s].route.body THEN "reading" ELSE "operating"])
    BY <1>6 DEF Guard, Busy, Vacant
  <2>2. \A b : (IF b THEN "reading" ELSE "operating") \notin {"idle", "looking"}
    OBVIOUS
  <2>3. QED
    BY <1>4, <1>5, <2>1, <2>2
<1>7. ASSUME NEW s \in Slots, ReadBody(s) \/ AdminActor(s) PROVE HttpGood'
  <2>1. /\ slots[s] # Vacant /\ slots[s].stage # "looking" /\ UNCHANGED <<frozen, valid>>
        /\ \/ Serves(s, Vacant)
           \/ Serves(s, [slots[s] EXCEPT !.stage = IF slots[s].route.actor THEN "naming" ELSE "operating"])
           \/ Serves(s, [slots[s] EXCEPT !.stage = "operating"])
    BY <1>7 DEF ReadBody, AdminActor, Busy, Vacant
  <2>2. \A b : (IF b THEN "naming" ELSE "operating") \notin {"idle", "looking"}
    OBVIOUS
  <2>3. QED
    BY <1>4, <1>5, <2>1, <2>2
<1>8. ASSUME NEW s \in Slots, Operate(s) PROVE HttpGood'
  <2>1. CASE Serves(s, Vacant) /\ UNCHANGED frozen /\ valid' \subseteq valid
    BY <1>5, <2>1
  <2>2. CASE /\ frozen' \in BOOLEAN /\ UNCHANGED valid
             /\ slots' = [(IF frozen' THEN slots ELSE Without({"frozen"})) EXCEPT ![s] = Vacant]
    <3>1. ASSUME NEW t \in Slots, t # s, slots[t] # Vacant
          PROVE  LET q == IF frozen' THEN slots[t] ELSE [slots[t] EXCEPT !.missed = @ \ {"frozen"}]
                 IN  /\ q.stage = slots[t].stage /\ q.route = slots[t].route /\ q.left = slots[t].left
                     /\ q.cred = slots[t].cred /\ Shaped(q)
                     /\ q.missed = IF frozen' THEN slots[t].missed ELSE slots[t].missed \ {"frozen"}
      BY <3>1 DEF HttpGood, RequestGood, Shaped
    <3>2. /\ \A t \in Slots : slots'[t] = IF t = s THEN Vacant
                                         ELSE IF frozen' \/ slots[t] = Vacant THEN slots[t]
                                         ELSE [slots[t] EXCEPT !.missed = @ \ {"frozen"}]
          /\ slots' = [t \in Slots |-> slots'[t]]
      <4>1. \A t \in Slots : Busy(t, "idle") <=> slots[t] = Vacant
        BY DEF HttpGood, RequestGood, Busy, Vacant
      <4>2. CASE frozen'
        BY <2>2, <4>2 DEF HttpGood
      <4>3. CASE ~frozen'
        BY <2>2, <4>1, <4>3 DEF Without
      <4>4. QED
        BY <4>2, <4>3
    <3>3. ASSUME NEW t \in Slots PROVE RequestGood(slots[t])'
      <4>1. CASE t = s \/ slots[t] = Vacant
        BY <3>2, <4>1 DEF RequestGood
      <4>2. CASE t # s /\ slots[t] # Vacant
        <5> DEFINE q == IF frozen' THEN slots[t] ELSE [slots[t] EXCEPT !.missed = @ \ {"frozen"}]
        <5>1. slots'[t] = q
          BY <3>2, <4>2
        <5>2. /\ q.stage = slots[t].stage /\ q.route = slots[t].route /\ q.left = slots[t].left
              /\ q.cred = slots[t].cred /\ Shaped(q)
              /\ q.missed = IF frozen' THEN slots[t].missed ELSE slots[t].missed \ {"frozen"}
          BY <3>1, <4>2
        <5>3. slots[t].stage # "idle" /\ Due(slots[t]) /\ Cleared(slots[t])
          BY <4>2 DEF HttpGood, RequestGood
        <5> HIDE DEF q
        <5>4. QED
          BY <2>2, <5>1, <5>2, <5>3 DEF RequestGood, Due, Cleared, Shaped
      <4>3. QED
        BY <4>1, <4>2
    <3>4. QED
      BY <3>2, <3>3 DEF HttpGood
  <2>3. QED
    BY <1>8, <2>1, <2>2 DEF Operate
<1>9. QED
  BY <1>1, <1>2, <1>3, <1>6, <1>7, <1>8 DEF HttpNext

LEMMA AlwaysHttpGood == Spec => []HttpGood
<1>1. HttpGood /\ [Next]_vars => HttpGood'
  <2> SUFFICES ASSUME HttpGood, [Next]_vars PROVE HttpGood'
    OBVIOUS
  <2>1. CASE Serving
    BY <2>1, HttpStep DEF Serving
  <2>2. CASE Crash
    BY <2>2 DEF Crash, HttpBoot, HttpGood, RequestGood
  <2>3. CASE UNCHANGED httpVars
    BY <2>3 DEF httpVars, HttpGood, RequestGood, Due, Cleared, Shaped
  <2>4. QED
    BY <2>1, <2>2, <2>3 DEF Next, vars, restingVars, Requesting, Publishing, Managing, Campaigning, Messaging,
                            Importing, Administering
<1>2. QED
  BY <1>1, HttpGoodInit, PTL DEF Spec, IdleSpec

(* A write that arrived while writes were frozen, or under a revoked key,  *)
(* is not carried out before writes are open again (server.ts): its last   *)
(* lookup and the freeze are asked after everything it waited for.         *)
THEOREM FrozenWritesRefused == Spec => []LateWritesRefused
<1>1. HttpGood => LateWritesRefused
  BY DEF HttpGood, RequestGood, Cleared, WriteRoutes, LateWritesRefused, Busy, Vacant
<1>2. QED
  BY <1>1, AlwaysHttpGood, PTL

-------------------------------------------------------------------------------
(* The engine of the platform.  What it has applied, enrolled and issued   *)
(* only grows, in the store and in the memory of the caller that holds the *)
(* lock.                                                                   *)

StateShape(s) ==
  s = [program |-> s.program, applied |-> s.applied, enrolled |-> s.enrolled,
       memberships |-> s.memberships, issued |-> s.issued]
Grown(s, t) == s.applied \subseteq t.applied /\ s.enrolled \subseteq t.enrolled /\ s.issued \subseteq t.issued
EngineShape(e) ==
  /\ e = [row |-> e.row, memory |-> e.memory, lock |-> e.lock]
  /\ e.memory = [i \in Instances |-> e.memory[i]]
  /\ StateShape(e.row) /\ \A i \in Instances : StateShape(e.memory[i])
LockGood(e) == \A c \in LockCallers, i \in Instances : e.lock = <<c, i>> => Grown(e.row, e.memory[i])
EngineGood == EngineShape(engine) /\ LockGood(engine)

(* What a transaction does to the engine, field by field. *)
LEMMA BeginsFacts ==
  ASSUME EngineGood, NEW c \in LockCallers, NEW i \in Instances, NEW new, StateShape(new),
         Grown(engine.row, new), Begins(c, i, new)
  PROVE  /\ EngineGood' /\ Free
         /\ engine'.row = engine.row /\ engine'.lock = <<c, i>> /\ engine'.memory[i] = new
<1>1. engine' = [row |-> engine.row, memory |-> [engine.memory EXCEPT ![i] = new], lock |-> <<c, i>>]
  BY DEF Begins, EngineGood, EngineShape
<1>2. /\ engine'.row = engine.row /\ engine'.lock = <<c, i>>
      /\ engine'.memory = [engine.memory EXCEPT ![i] = new]
  BY <1>1
<1>3. \A j \in Instances : engine'.memory[j] = IF j = i THEN new ELSE engine.memory[j]
  BY <1>2 DEF EngineGood, EngineShape
<1>4. engine'.memory = [j \in Instances |-> engine'.memory[j]]
  BY <1>2 DEF EngineGood, EngineShape
<1>5. EngineShape(engine')
  BY <1>1, <1>2, <1>3, <1>4 DEF EngineGood, EngineShape
<1>6. LockGood(engine')
  BY <1>2, <1>3 DEF LockGood
<1>7. QED
  BY <1>2, <1>3, <1>5, <1>6 DEF EngineGood, Begins

LEMMA CommitsFacts ==
  ASSUME EngineGood, NEW c \in LockCallers, NEW i \in Instances, Commits(c, i)
  PROVE  /\ EngineGood' /\ Grown(engine.row, engine'.row)
         /\ engine'.row = engine.memory[i] /\ engine'.lock = None /\ engine.lock = <<c, i>>
<1>1. engine' = [row |-> engine.memory[i], memory |-> engine.memory, lock |-> None] /\ engine.lock = <<c, i>>
  BY DEF Commits, Holds, EngineGood, EngineShape
<1>2. engine'.row = engine.memory[i] /\ engine'.memory = engine.memory /\ engine'.lock = None
  BY <1>1
<1>3. EngineShape(engine')
  BY <1>1, <1>2 DEF EngineGood, EngineShape
<1>4. LockGood(engine')
  BY <1>2, LockAssumption DEF LockGood
<1>5. QED
  BY <1>1, <1>2, <1>3, <1>4 DEF EngineGood, LockGood

LEMMA RollsBackFacts ==
  ASSUME EngineGood, NEW c, NEW i, RollsBack(c, i)
  PROVE  /\ EngineGood' /\ engine'.row = engine.row /\ engine'.lock = None /\ engine.lock = <<c, i>>
<1>1. engine' = [row |-> engine.row, memory |-> engine.memory, lock |-> None] /\ engine.lock = <<c, i>>
  BY DEF RollsBack, Holds, EngineGood, EngineShape
<1>2. engine'.row = engine.row /\ engine'.memory = engine.memory /\ engine'.lock = None
  BY <1>1
<1>3. EngineShape(engine') /\ LockGood(engine')
  BY <1>1, <1>2, LockAssumption DEF EngineGood, EngineShape, LockGood
<1>4. QED
  BY <1>1, <1>2, <1>3 DEF EngineGood

LEMMA ThrowsFacts ==
  ASSUME EngineGood, NEW i \in Instances, NEW new, StateShape(new), Throws(i, new)
  PROVE  EngineGood' /\ Free /\ engine'.row = engine.row /\ engine'.lock = engine.lock
<1>1. engine' = [row |-> engine.row, memory |-> [engine.memory EXCEPT ![i] = new], lock |-> engine.lock] /\ Free
  BY DEF Throws, EngineGood, EngineShape
<1>2. /\ engine'.row = engine.row /\ engine'.lock = engine.lock
      /\ engine'.memory = [engine.memory EXCEPT ![i] = new]
  BY <1>1
<1>3. \A j \in Instances : engine'.memory[j] = IF j = i THEN new ELSE engine.memory[j]
  BY <1>2 DEF EngineGood, EngineShape
<1>4. engine'.memory = [j \in Instances |-> engine'.memory[j]]
  BY <1>2 DEF EngineGood, EngineShape
<1>5. EngineShape(engine')
  BY <1>1, <1>2, <1>3, <1>4 DEF EngineGood, EngineShape
<1>6. LockGood(engine')
  BY <1>1, <1>2, LockAssumption DEF LockGood, Free
<1>7. QED
  BY <1>1, <1>2, <1>5, <1>6 DEF EngineGood

(* A stop leaves what the others hold, and changes but the program. *)
LEMMA RestartFacts ==
  ASSUME EngineGood, NEW i \in Instances, NEW program, engine' = Restarted(i, program)
  PROVE  /\ EngineGood' /\ Grown(engine.row, engine'.row) /\ Grown(engine'.row, engine.row)
         /\ \A j \in Instances \ {i} : engine'.memory[j] = engine.memory[j]
         /\ \A c \in LockCallers, j \in Instances \ {i} : engine.lock = <<c, j>> => engine'.lock = <<c, j>>
<1> DEFINE row == [engine.row EXCEPT !.program = program]
<1>1. /\ row.applied = engine.row.applied /\ row.enrolled = engine.row.enrolled
      /\ row.issued = engine.row.issued /\ StateShape(row)
  BY DEF EngineGood, EngineShape, StateShape
<1>2. /\ engine' = [row |-> engine'.row, memory |-> engine'.memory, lock |-> engine'.lock]
      /\ engine'.row = row /\ engine'.memory = [engine.memory EXCEPT ![i] = row]
      /\ engine'.lock = IF ~Free /\ engine.lock[2] = i THEN None ELSE engine.lock
  BY DEF Restarted
<1> HIDE DEF row
<1>3. /\ \A j \in Instances : engine'.memory[j] = IF j = i THEN row ELSE engine.memory[j]
      /\ engine'.memory = [j \in Instances |-> engine'.memory[j]]
  BY <1>2 DEF EngineGood, EngineShape
<1>4. EngineShape(engine')
  BY <1>1, <1>2, <1>3 DEF EngineGood, EngineShape
<1>5. LockGood(engine')
  <2> SUFFICES ASSUME NEW c \in LockCallers, NEW j \in Instances, engine'.lock = <<c, j>>
               PROVE  Grown(engine'.row, engine'.memory[j])
    BY DEF LockGood
  <2>1. engine.lock = <<c, j>> /\ j # i
    BY <1>2, LockAssumption DEF Free
  <2>2. QED
    BY <1>1, <1>2, <1>3, <2>1 DEF EngineGood, LockGood, Grown
<1>6. QED
  BY <1>1, <1>2, <1>3, <1>4, <1>5 DEF EngineGood, Grown

(* Each kind of change an operation makes to the engine it loaded. *)
LEMMA ChangesGrow ==
  ASSUME EngineGood
  PROVE  /\ StateShape(engine.row) /\ Grown(engine.row, engine.row)
         /\ \A x : LET s == [engine.row EXCEPT !.program = x]
                   IN  StateShape(s) /\ Grown(engine.row, s)
         /\ \A x : LET s == [engine.row EXCEPT !.memberships = x]
                   IN  StateShape(s) /\ Grown(engine.row, s)
         /\ \A x : LET s == [engine.row EXCEPT !.applied = engine.row.applied \cup x]
                   IN  StateShape(s) /\ Grown(engine.row, s) /\ s.applied = engine.row.applied \cup x
         /\ \A x : LET s == [engine.row EXCEPT !.enrolled = engine.row.enrolled \cup x]
                   IN  StateShape(s) /\ Grown(engine.row, s) /\ s.enrolled = engine.row.enrolled \cup x
         /\ \A x : LET s == [engine.row EXCEPT !.issued = engine.row.issued \cup x]
                   IN  StateShape(s) /\ Grown(engine.row, s) /\ s.issued = engine.row.issued \cup x
<1>1. StateShape(engine.row)
  BY DEF EngineGood, EngineShape
<1>2. ASSUME NEW x
      PROVE  /\ LET s == [engine.row EXCEPT !.program = x]
                IN  StateShape(s) /\ Grown(engine.row, s)
             /\ LET s == [engine.row EXCEPT !.memberships = x]
                IN  StateShape(s) /\ Grown(engine.row, s)
             /\ LET s == [engine.row EXCEPT !.applied = x]
                IN  StateShape(s) /\ s.applied = x /\ s.enrolled = engine.row.enrolled /\ s.issued = engine.row.issued
             /\ LET s == [engine.row EXCEPT !.enrolled = x]
                IN  StateShape(s) /\ s.applied = engine.row.applied /\ s.enrolled = x /\ s.issued = engine.row.issued
             /\ LET s == [engine.row EXCEPT !.issued = x]
                IN  StateShape(s) /\ s.applied = engine.row.applied /\ s.enrolled = engine.row.enrolled /\ s.issued = x
  BY <1>1 DEF StateShape, Grown
<1>3. QED
  BY <1>1, <1>2 DEF Grown

(* The requests of the protocol, as far as the engine looks at them. *)
RequestShape ==
  /\ calls = [r \in RequestKeys |-> calls[r]]
  /\ \A r \in RequestKeys :
       \/ calls[r] = Waiting
       \/ /\ calls[r] = [stage |-> calls[r].stage, at |-> calls[r].at]
          /\ calls[r].stage \in {"committing", "committed"} /\ calls[r].at \in Instances

LEMMA RequestShapeInit == Init => RequestShape
BY DEF Init, RequestInit, RequestShape

LEMMA RequestShapeStep == RequestShape /\ [Next]_vars => RequestShape'
<1> SUFFICES ASSUME RequestShape, [Next]_vars PROVE RequestShape'
  OBVIOUS
<1>1. ASSUME NEW r \in RequestKeys, NEW call, calls' = [calls EXCEPT ![r] = call],
             \/ call = Waiting
             \/ /\ call = [stage |-> call.stage, at |-> call.at]
                /\ call.stage \in {"committing", "committed"} /\ call.at \in Instances
      PROVE  RequestShape'
  <2>1. \A q \in RequestKeys : calls'[q] = IF q = r THEN call ELSE calls[q]
    BY <1>1 DEF RequestShape
  <2>2. QED
    BY <1>1, <2>1 DEF RequestShape
<1>2. CASE UNCHANGED calls
  BY <1>2 DEF RequestShape
<1>3. ASSUME NEW r \in RequestKeys, RequestBegins(r) PROVE RequestShape'
  BY <1>1, <1>2, <1>3 DEF RequestBegins, Calls
<1>4. ASSUME NEW r \in RequestKeys, RequestCommitted(r) PROVE RequestShape'
  <2>1. calls[r] = [stage |-> calls[r].stage, at |-> calls[r].at] /\ calls[r].at \in Instances
    BY <1>4 DEF RequestShape, RequestCommitted, Waiting
  <2> DEFINE call == [calls[r] EXCEPT !.stage = "committed"]
  <2>2. call = [stage |-> "committed", at |-> calls[r].at]
    BY <2>1
  <2>3. call.stage = "committed" /\ call.at = calls[r].at
    BY <2>2
  <2>4. calls' = [calls EXCEPT ![r] = call]
    BY <1>4 DEF RequestCommitted, Calls
  <2> HIDE DEF call
  <2>5. QED
    BY <1>1, <2>1, <2>2, <2>3, <2>4
<1>5. ASSUME NEW r \in RequestKeys, RequestRolledBack(r) \/ RequestAnswered(r) PROVE RequestShape'
  BY <1>1, <1>5 DEF RequestRolledBack, RequestAnswered, Calls
<1>6. CASE RequestNext
  BY <1>2, <1>3, <1>4, <1>5, <1>6 DEF RequestNext, ReportBegins, ReportReads
<1>7. ASSUME NEW i, RequestBoot(i) PROVE RequestShape'
  BY <1>7 DEF RequestBoot, RequestShape
<1>8. CASE Requesting
  BY <1>6, <1>7, <1>8 DEF Requesting, StopInstance
<1>9. CASE Crash
  BY <1>7, <1>9 DEF Crash
<1>10. QED
  BY <1>2, <1>8, <1>9 DEF Next, vars, requestVars, Publishing, Managing, Campaigning, Messaging, Importing,
                          Administering, Serving

(* A step of any service keeps the engine good, and its rows only grow. *)
EngineMoved == EngineGood' /\ Grown(engine.row, engine'.row)

LEMMA EngineGoodInit == Init => EngineGood
<1> SUFFICES ASSUME Init PROVE EngineGood
  OBVIOUS
<1>1. PICK memberships, before : PlatformInit(Enrolled[turn], memberships, before)
  BY DEF Init
<1> DEFINE first == FirstState(Enrolled[turn], memberships)
           Memory(i) == IF i = Main THEN first ELSE [first EXCEPT !.program = before]
<1>2. StateShape(first) /\ \A i : StateShape(Memory(i))
  BY DEF FirstState, StateShape
<1>3. engine = [row |-> first, lock |-> None, memory |-> [i \in Instances |-> Memory(i)]]
  BY <1>1 DEF PlatformInit
<1> HIDE DEF first, Memory
<1>4. /\ engine.row = first /\ engine.lock = None /\ engine.memory = [i \in Instances |-> Memory(i)]
      /\ engine = [row |-> engine.row, memory |-> engine.memory, lock |-> engine.lock]
  BY <1>3
<1>5. QED
  BY <1>2, <1>4, LockAssumption DEF EngineGood, EngineShape, LockGood

LEMMA MainIsInstance == Main \in Instances /\ \A i : Loaded(i) = engine.row
BY PlatformAssumption DEF Loaded

LEMMA RequestMoves ==
  ASSUME EngineGood, RequestShape, NEW r \in RequestKeys,
         RequestBegins(r) \/ RequestCommitted(r) \/ RequestRolledBack(r) \/ RequestAnswered(r)
  PROVE  EngineMoved
<1>1. r \in LockCallers
  BY DEF LockCallers
<1>2. CASE RequestBegins(r)
  <2>1. PICK i \in Instances :
          LET new == [engine.row EXCEPT !.applied = engine.row.applied \cup {r}]
          IN  Begins(r, i, new) \/ Throws(i, new) \/ UNCHANGED engine
    BY <1>2 DEF RequestBegins, Loaded
  <2>2. QED
    BY <1>1, <2>1, BeginsFacts, ThrowsFacts, ChangesGrow DEF EngineMoved, EngineGood
<1>3. CASE RequestCommitted(r)
  BY <1>1, <1>3, CommitsFacts DEF RequestCommitted, RequestShape, Waiting, EngineMoved
<1>4. CASE RequestRolledBack(r)
  BY <1>4, RollsBackFacts DEF RequestRolledBack, EngineMoved, Grown
<1>5. CASE RequestAnswered(r)
  BY <1>5 DEF RequestAnswered, platformVars, EngineMoved, EngineGood, Grown
<1>6. QED
  BY <1>2, <1>3, <1>4, <1>5

LEMMA CampaignMoves ==
  ASSUME EngineGood, NEW by \in Runners, RunStep(by)
  PROVE  EngineMoved
<1>1. by \in LockCallers
  BY DEF LockCallers
<1>2. CASE IssueRewards(by)
  <2>1. PICK x : Begins(by, Main, [engine.row EXCEPT !.issued = engine.row.issued \cup x])
    BY <1>2 DEF IssueRewards, Loaded
  <2>2. QED
    BY <1>1, <2>1, BeginsFacts, ChangesGrow, MainIsInstance DEF EngineMoved
<1>3. CASE RunCommitted(by)
  BY <1>1, <1>3, CommitsFacts, MainIsInstance DEF RunCommitted, EngineMoved
<1>4. CASE RunRolledBack(by)
  BY <1>4, RollsBackFacts DEF RunRolledBack, EngineMoved, Grown
<1>5. CASE RunRecorded(by) \/ RunReturned(by)
  BY <1>5 DEF RunRecorded, RunReturned, platformVars, EngineMoved, EngineGood, Grown
<1>6. QED
  BY <1>2, <1>3, <1>4, <1>5 DEF RunStep

LEMMA MembershipMoves ==
  ASSUME EngineGood, NEW c \in MembershipCallers, MembershipStep(c)
  PROVE  EngineMoved
<1>1. c \in LockCallers
  BY DEF LockCallers
<1>2. CASE SetMembership(c)
  <2>1. \/ \E x : Begins(c, Main, [engine.row EXCEPT !.memberships = x])
        \/ Throws(Main, engine.row)
    BY <1>2 DEF SetMembership, Loaded
  <2>2. QED
    BY <1>1, <2>1, BeginsFacts, ThrowsFacts, ChangesGrow, MainIsInstance DEF EngineMoved
<1>3. CASE MembershipCommitted(c)
  BY <1>1, <1>3, CommitsFacts, MainIsInstance DEF MembershipCommitted, EngineMoved
<1>4. CASE MembershipRolledBack(c)
  BY <1>4, RollsBackFacts DEF MembershipRolledBack, EngineMoved, Grown
<1>5. CASE Audit(c) \/ AuditStored(c) \/ Audited(c)
  BY <1>5 DEF Audit, AuditStored, Audited, platformVars, EngineMoved, EngineGood, Grown
<1>6. QED
  BY <1>2, <1>3, <1>4, <1>5 DEF MembershipStep

LEMMA ProgramMoves ==
  ASSUME EngineGood, Apply \/ ApplyCommitted \/ ApplyRolledBack
  PROVE  EngineMoved
<1>1. Publisher \in LockCallers
  BY DEF LockCallers
<1>2. CASE Apply
  <2>1. \/ \E x : Begins(Publisher, Main, [engine.row EXCEPT !.program = x])
        \/ Throws(Main, engine.row)
    BY <1>2 DEF Apply, Loaded
  <2>2. QED
    BY <1>1, <2>1, BeginsFacts, ThrowsFacts, ChangesGrow, MainIsInstance DEF EngineMoved
<1>3. CASE ApplyCommitted
  BY <1>1, <1>3, CommitsFacts, MainIsInstance DEF ApplyCommitted, EngineMoved
<1>4. CASE ApplyRolledBack
  <2> DEFINE new == [engine.memory[Main] EXCEPT !.program = engine.row.program]
  <2>1. StateShape(new)
    <3>1. \A t, x : StateShape(t) => StateShape([t EXCEPT !.program = x])
      BY DEF StateShape
    <3>2. StateShape(engine.memory[Main])
      BY MainIsInstance DEF EngineGood, EngineShape
    <3>3. QED
      BY <3>1, <3>2
  <2>2. engine' = [engine EXCEPT !.lock = None, !.memory[Main].program = engine.row.program]
    BY <1>4 DEF ApplyRolledBack
  <2>3. engine' = [row |-> engine.row, memory |-> [engine.memory EXCEPT ![Main] = new], lock |-> None]
    BY <2>2 DEF EngineGood, EngineShape
  <2> HIDE DEF new
  <2>4. /\ engine'.row = engine.row /\ engine'.lock = None
        /\ engine'.memory = [engine.memory EXCEPT ![Main] = new]
        /\ engine' = [row |-> engine'.row, memory |-> engine'.memory, lock |-> engine'.lock]
    BY <2>3
  <2>5. /\ \A j \in Instances : engine'.memory[j] = IF j = Main THEN new ELSE engine.memory[j]
        /\ engine'.memory = [j \in Instances |-> engine'.memory[j]]
    BY <2>4 DEF EngineGood, EngineShape
  <2>6. EngineShape(engine')
    BY <2>1, <2>4, <2>5 DEF EngineGood, EngineShape
  <2>7. LockGood(engine')
    BY <2>4, LockAssumption DEF LockGood
  <2>8. QED
    BY <2>4, <2>6, <2>7 DEF EngineMoved, EngineGood, Grown
<1>5. QED
  BY <1>2, <1>3, <1>4

LEMMA CustomerMoves ==
  ASSUME EngineGood, NEW c \in Clients,
         UpsertProfiles(c) \/ ProfilesCommitted(c) \/ ProfilesRolledBack(c)
  PROVE  EngineMoved
<1>1. c \in LockCallers
  BY DEF LockCallers
<1>2. CASE UpsertProfiles(c)
  <2>1. \E x : Begins(c, Main, [engine.row EXCEPT !.enrolled = engine.row.enrolled \cup x])
    BY <1>2 DEF UpsertProfiles, Loaded
  <2>2. QED
    BY <1>1, <2>1, BeginsFacts, ChangesGrow, MainIsInstance DEF EngineMoved
<1>3. CASE ProfilesCommitted(c)
  BY <1>1, <1>3, CommitsFacts, MainIsInstance DEF ProfilesCommitted, EngineMoved
<1>4. CASE ProfilesRolledBack(c)
  BY <1>4, RollsBackFacts DEF ProfilesRolledBack, EngineMoved, Grown
<1>5. QED
  BY <1>2, <1>3, <1>4

LEMMA OtherMoves ==
  ASSUME EngineGood, Traffic \/ Day \/ \E m \in Members : Enrol(m)
  PROVE  EngineMoved
<1>1. CASE Traffic
  BY <1>1, ThrowsFacts, ChangesGrow, MainIsInstance DEF Traffic, EngineMoved
<1>2. CASE Day
  BY <1>2 DEF Day, EngineMoved, EngineGood, Grown
<1>3. ASSUME NEW m \in Members, Enrol(m) PROVE EngineMoved
  <2> DEFINE new == [engine.row EXCEPT !.enrolled = engine.row.enrolled \cup {m}]
  <2>1. StateShape(new) /\ Grown(engine.row, new)
    BY ChangesGrow
  <2>2. engine' = [engine EXCEPT !.row = new, !.memory[Main] = new] /\ Free
    BY <1>3 DEF Enrol, Loaded
  <2> HIDE DEF new
  <2>3. engine' = [row |-> new, memory |-> [engine.memory EXCEPT ![Main] = new], lock |-> engine.lock]
    BY <2>2 DEF EngineGood, EngineShape
  <2>4. /\ engine'.row = new /\ engine'.lock = None
        /\ engine'.memory = [engine.memory EXCEPT ![Main] = new]
        /\ engine' = [row |-> engine'.row, memory |-> engine'.memory, lock |-> engine'.lock]
    BY <2>2, <2>3 DEF Free
  <2>5. /\ \A j \in Instances : engine'.memory[j] = IF j = Main THEN new ELSE engine.memory[j]
        /\ engine'.memory = [j \in Instances |-> engine'.memory[j]]
    BY <2>4 DEF EngineGood, EngineShape
  <2>6. EngineShape(engine')
    BY <2>1, <2>4, <2>5 DEF EngineGood, EngineShape
  <2>7. LockGood(engine')
    BY <2>4, LockAssumption DEF LockGood
  <2>8. QED
    BY <2>1, <2>4, <2>6, <2>7 DEF EngineMoved, EngineGood
<1>4. QED
  BY <1>1, <1>2, <1>3

LEMMA EngineStep == EngineGood /\ RequestShape /\ [Next]_vars => EngineMoved
<1> SUFFICES ASSUME EngineGood, RequestShape, [Next]_vars PROVE EngineMoved
  OBVIOUS
<1>1. CASE UNCHANGED engine
  BY <1>1 DEF EngineMoved, EngineGood, Grown
<1>2. ASSUME NEW i \in Instances, NEW program, engine' = Restarted(i, program) PROVE EngineMoved
  BY <1>2, RestartFacts DEF EngineMoved
<1>3. CASE Crash
  BY <1>2, <1>3, MainIsInstance DEF Crash, ProgramBoot
<1>4. CASE Requesting
  BY <1>1, <1>2, <1>4, RequestMoves
     DEF Requesting, RequestNext, StopInstance, ReportBegins, ReportReads, platformVars
<1>5. CASE RewardUse \/ CampaignNext
  <2>1. CASE \E by \in Runners : RunStep(by)
    BY <2>1, CampaignMoves
  <2>2. CASE UNCHANGED platformVars
    BY <1>1, <2>2 DEF platformVars
  <2>3. ASSUME NEW windows, UpsertCampaign(windows) PROVE UNCHANGED platformVars
    BY <2>3 DEF UpsertCampaign, Edit
  <2>4. QED
    BY <1>5, <2>1, <2>2, <2>3
       DEF RewardUse, CampaignNext, UpsertSegment, DeleteSegment, DeleteCampaign, SetCampaignStatus, Edit,
           EditReturned, RunCampaign, SchedulerStarts, SchedulerNext, CampaignSaveStored, Runners
<1>6. CASE Publishing
  BY <1>1, <1>5, <1>6, ProgramMoves DEF Publishing, ProgramNext, platformVars
<1>7. CASE Managing
  BY <1>1, <1>7, MembershipMoves, OtherMoves
     DEF Managing, MembershipNext, Grant, ChangeStatus, Sweep, SweepNext, platformVars
<1>8. CASE Campaigning
  BY <1>5, <1>8, OtherMoves DEF Campaigning
<1>9. CASE Messaging
  BY <1>1, <1>9 DEF Messaging, EngagementNext, Day, platformVars
<1>10. CASE Importing
  BY <1>1, <1>10, CustomerMoves
     DEF Importing, CustomerNext, ImportMembers, ProfilesSaved, IngestEvent, CustomerSaveStored, WriteReturned,
         platformVars
<1>11. QED
  BY <1>1, <1>3, <1>4, <1>6, <1>7, <1>8, <1>9, <1>10 DEF Next, Administering, Serving, vars, platformVars

LEMMA AlwaysEngineGood == Spec => [](EngineGood /\ RequestShape)
<1>1. Init => EngineGood /\ RequestShape
  BY EngineGoodInit, RequestShapeInit
<1>2. EngineGood /\ RequestShape /\ [Next]_vars => (EngineGood /\ RequestShape)'
  BY EngineStep, RequestShapeStep DEF EngineMoved
<1>3. QED
  BY <1>1, <1>2, PTL DEF Spec, IdleSpec

-------------------------------------------------------------------------------
(* Requests of the protocol.  One that waits for its commit holds the lock *)
(* of the engine, and its effect is in the memory that will be stored; one *)
(* that committed is in the stored engine.                                 *)

CallGood(r, call, e) ==
  /\ call.stage = "committing" => e.lock = <<r, call.at>> /\ r \in e.memory[call.at].applied
  /\ call.stage = "committed" => r \in e.row.applied
CallsGood == \A r \in RequestKeys : CallGood(r, calls[r], engine)
RequestsGood ==
  /\ turn # "requests" => \A r \in RequestKeys : calls[r] = Waiting
  /\ CallsGood /\ CommittedKept

LEMMA RequestsGoodInit == Init => RequestsGood
<1> SUFFICES ASSUME Init PROVE RequestsGood
  OBVIOUS
<1>1. \A r \in RequestKeys : calls[r] = Waiting
  BY DEF Init, RequestInit
<1>2. answered = {} /\ emitted = {}
  BY DEF Init, RequestInit
<1>3. QED
  BY <1>1, <1>2 DEF RequestsGood, CallsGood, CallGood, CommittedKept, Waiting

(* A request that begins finds nobody waiting for a commit. *)
LEMMA FreeNoCall ==
  ASSUME RequestsGood, RequestShape, Free
  PROVE  \A r \in RequestKeys : calls[r].stage # "committing"
<1> SUFFICES ASSUME NEW r \in RequestKeys, calls[r].stage = "committing" PROVE FALSE
  OBVIOUS
<1>1. engine.lock = <<r, calls[r].at>> /\ calls[r].at \in Instances
  BY DEF RequestsGood, CallsGood, CallGood, RequestShape, Waiting
<1>2. QED
  BY <1>1, LockAssumption DEF Free, LockCallers

LEMMA RequestsStep ==
  ASSUME RequestsGood, RequestShape, EngineGood, EngineMoved, NEW r \in RequestKeys,
         RequestBegins(r) \/ RequestCommitted(r) \/ RequestRolledBack(r) \/ RequestAnswered(r)
  PROVE  CallsGood' /\ CommittedKept'
<1> USE DEF LockCallers
<1>1. Grown(engine.row, engine'.row)
  BY DEF EngineMoved
<1>2. ASSUME UNCHANGED <<emitted, answered>> PROVE CommittedKept'
  BY <1>1, <1>2 DEF RequestsGood, CommittedKept, Grown
<1>3. ASSUME NEW call, calls' = [calls EXCEPT ![r] = call], CallGood(r, call, engine'),
             \A q \in RequestKeys \ {r} : calls[q].stage # "committing"
      PROVE  CallsGood'
  <2>1. \A q \in RequestKeys : calls'[q] = IF q = r THEN call ELSE calls[q]
    BY <1>3 DEF RequestShape
  <2>2. \A q \in RequestKeys : CallGood(q, calls'[q], engine')
    BY <1>1, <1>3, <2>1 DEF RequestsGood, CallsGood, CallGood, Grown
  <2>3. QED
    BY <2>2 DEF CallsGood
<1>4. CASE RequestBegins(r)
  <2>1. PICK i \in Instances :
          LET new == [engine.row EXCEPT !.applied = engine.row.applied \cup {r}]
          IN  \/ Begins(r, i, new) /\ calls' = [calls EXCEPT ![r] = [stage |-> "committing", at |-> i]]
              \/ Throws(i, new) /\ UNCHANGED calls
              \/ UNCHANGED <<engine, calls>>
    BY <1>4 DEF RequestBegins, Loaded, Calls
  <2> DEFINE new == [engine.row EXCEPT !.applied = engine.row.applied \cup {r}]
  <2>2. StateShape(new) /\ Grown(engine.row, new) /\ r \in new.applied
    BY ChangesGrow
  <2> HIDE DEF new
  <2>3. CASE Begins(r, i, new) /\ calls' = [calls EXCEPT ![r] = [stage |-> "committing", at |-> i]]
    <3>1. Free /\ engine'.lock = <<r, i>> /\ engine'.memory[i] = new
      BY <2>2, <2>3, BeginsFacts
    <3>2. CallGood(r, [stage |-> "committing", at |-> i], engine')
      BY <2>2, <3>1 DEF CallGood
    <3>3. QED
      BY <1>2, <1>3, <1>4, <2>3, <3>1, <3>2, FreeNoCall DEF RequestBegins
  <2>4. CASE Throws(i, new) /\ UNCHANGED calls
    <3>1. Free /\ engine'.row = engine.row
      BY <2>2, <2>4, ThrowsFacts
    <3>2. QED
      BY <1>2, <1>4, <2>4, <3>1, FreeNoCall DEF RequestBegins, RequestsGood, CallsGood, CallGood
  <2>5. CASE UNCHANGED <<engine, calls>>
    BY <1>2, <1>4, <2>5 DEF RequestBegins, RequestsGood, CallsGood, CallGood
  <2>6. QED
    BY <2>1, <2>3, <2>4, <2>5 DEF new
<1>5. CASE RequestCommitted(r) \/ RequestRolledBack(r)
  <2>1. /\ calls[r].stage = "committing"
        /\ calls[r] = [stage |-> calls[r].stage, at |-> calls[r].at] /\ calls[r].at \in Instances
    BY <1>5 DEF RequestCommitted, RequestRolledBack, RequestShape, Waiting
  <2>2. engine.lock = <<r, calls[r].at>> /\ r \in engine.memory[calls[r].at].applied
    BY <2>1 DEF RequestsGood, CallsGood, CallGood
  <2>3. \A q \in RequestKeys \ {r} : calls[q].stage # "committing"
    BY <2>2 DEF RequestsGood, CallsGood, CallGood
  <2>4. CASE RequestCommitted(r)
    <3> DEFINE call == [calls[r] EXCEPT !.stage = "committed"]
    <3>1. call.stage = "committed"
      BY <2>1
    <3>2. engine'.row = engine.memory[calls[r].at] /\ calls' = [calls EXCEPT ![r] = call]
      BY <2>1, <2>4, CommitsFacts DEF RequestCommitted, Calls
    <3> HIDE DEF call
    <3>3. CallGood(r, call, engine')
      BY <2>2, <3>1, <3>2 DEF CallGood
    <3>4. QED
      BY <1>2, <1>3, <2>3, <2>4, <3>2, <3>3 DEF RequestCommitted
  <2>5. CASE RequestRolledBack(r)
    BY <1>2, <1>3, <2>3, <2>5 DEF RequestRolledBack, Calls, Waiting, CallGood
  <2>6. QED
    BY <1>5, <2>4, <2>5
<1>6. CASE RequestAnswered(r)
  <2>1. UNCHANGED engine /\ r \in engine.row.applied
    BY <1>6 DEF RequestAnswered, platformVars, RequestsGood, CallsGood, CallGood
  <2>2. \A q \in RequestKeys : calls'[q] = IF q = r THEN Waiting ELSE calls[q]
    BY <1>6 DEF RequestAnswered, Calls, RequestShape
  <2>3. CallsGood'
    BY <2>1, <2>2 DEF RequestsGood, CallsGood, CallGood, Waiting
  <2>4. CommittedKept'
    BY <1>6, <2>1 DEF RequestAnswered, EmitEvents, RequestsGood, CommittedKept
  <2>5. QED
    BY <2>3, <2>4
<1>7. QED
  BY <1>4, <1>5, <1>6

LEMMA RequestsBoot ==
  ASSUME RequestsGood, RequestShape, EngineGood, NEW i \in Instances, NEW program,
         engine' = Restarted(i, program), RequestBoot(i)
  PROVE  CallsGood' /\ CommittedKept'
<1> USE DEF LockCallers
<1>1. /\ Grown(engine.row, engine'.row)
      /\ \A j \in Instances \ {i} : engine'.memory[j] = engine.memory[j]
      /\ \A c \in LockCallers, j \in Instances \ {i} : engine.lock = <<c, j>> => engine'.lock = <<c, j>>
  BY RestartFacts
<1>2. CommittedKept'
  BY <1>1 DEF RequestBoot, RequestsGood, CommittedKept, Grown
<1>3. ASSUME NEW r \in RequestKeys PROVE CallGood(r, calls'[r], engine')
  <2>1. calls'[r] = IF calls[r] # Waiting /\ calls[r].at = i THEN Waiting ELSE calls[r]
    BY DEF RequestBoot, AtInstance
  <2>2. CASE calls'[r] = Waiting
    BY <2>2 DEF CallGood, Waiting
  <2>3. CASE calls'[r] # Waiting
    <3>1. calls'[r] = calls[r] /\ calls[r].at \in Instances \ {i}
      BY <2>1, <2>3 DEF RequestShape
    <3>2. QED
      BY <1>1, <3>1 DEF RequestsGood, CallsGood, CallGood, Grown
  <2>4. QED
    BY <2>2, <2>3
<1>4. QED
  BY <1>2, <1>3 DEF CallsGood

LEMMA RequestsGoodStep == RequestsGood /\ RequestShape /\ EngineGood /\ [Next]_vars => RequestsGood'
<1> SUFFICES ASSUME RequestsGood, RequestShape, EngineGood, [Next]_vars PROVE RequestsGood'
  OBVIOUS
<1>1. EngineMoved
  BY EngineStep
<1>2. CASE UNCHANGED requestVars /\ turn # "requests" /\ UNCHANGED turn
  BY <1>1, <1>2 DEF requestVars, RequestsGood, CallsGood, CallGood, CommittedKept, EngineMoved, Grown, Waiting
<1>3. CASE UNCHANGED <<requestVars, engine, turn>>
  BY <1>3 DEF requestVars, RequestsGood, CallsGood, CallGood, CommittedKept
<1>4. CASE Requesting
  <2>1. turn = "requests" /\ turn' = turn
    BY <1>4 DEF Requesting
  <2>2. CASE \E r \in RequestKeys :
               RequestBegins(r) \/ RequestCommitted(r) \/ RequestRolledBack(r) \/ RequestAnswered(r)
    BY <1>1, <2>1, <2>2, RequestsStep DEF RequestsGood
  <2>3. CASE ReportBegins \/ ReportReads
    BY <2>1, <2>3 DEF ReportBegins, ReportReads, platformVars, RequestsGood, CallsGood, CallGood, CommittedKept
  <2>4. CASE \E i \in Instances : StopInstance(i)
    BY <2>1, <2>4, RequestsBoot DEF StopInstance, RequestsGood
  <2>5. QED
    BY <1>4, <2>2, <2>3, <2>4 DEF Requesting, RequestNext
<1>5. CASE Crash
  <2>1. CallsGood' /\ CommittedKept' /\ turn' = turn
    BY <1>5, RequestsBoot, MainIsInstance DEF Crash, ProgramBoot
  <2>2. turn # "requests" => \A r \in RequestKeys : calls'[r] = Waiting
    BY <1>5 DEF Crash, RequestBoot, RequestsGood
  <2>3. QED
    BY <2>1, <2>2 DEF RequestsGood
<1>6. QED
  BY <1>2, <1>3, <1>4, <1>5 DEF Next, vars, platformVars, Publishing, Managing, Campaigning, Messaging, Importing,
                                Administering, Serving

(* Two instances, operations that throw or are rolled back, retries and    *)
(* stops: events go out only for what the stored engine has applied, and   *)
(* nothing is answered without its events (platform.ts).                   *)
THEOREM CommitsAreKept == Spec => []CommittedKept
<1>1. RequestsGood => CommittedKept
  BY DEF RequestsGood
<1>2. QED
  BY <1>1, RequestsGoodInit, RequestsGoodStep, AlwaysEngineGood, PTL DEF Spec, IdleSpec

-------------------------------------------------------------------------------
(* The document of a service, and every state of it that is in memory, is  *)
(* stored or is on its way to the store.                                   *)

SaveShape(v) ==
  \/ v = NoSave \/ v = [stage |-> "refused"] \/ v = [stage |-> "stored", current |-> v.current]
  \/ v = [stage |-> "sent", state |-> v.state, current |-> v.current]
DocShape(doc, callers) ==
  /\ doc = [memory |-> doc.memory, row |-> doc.row, current |-> doc.current, saves |-> doc.saves]
  /\ doc.saves = [c \in callers |-> doc.saves[c]]
  /\ \A c \in callers : SaveShape(doc.saves[c])
States(doc) ==
  {doc.memory, doc.row} \cup
  {doc.saves[c].state : c \in {d \in DOMAIN doc.saves : doc.saves[d].stage = "sent"}}

LEMMA NewDocumentFacts ==
  ASSUME NEW state, NEW callers
  PROVE  LET doc == NewDocument(state, callers)
         IN  DocShape(doc, callers) /\ States(doc) = {state} /\ doc.memory = state
BY DEF NewDocument, DocShape, States, SaveShape, NoSave

LEMMA ReloadedFacts ==
  ASSUME NEW callers, NEW doc, DocShape(doc, callers)
  PROVE  /\ DocShape(Reloaded(doc), callers) /\ States(Reloaded(doc)) \subseteq States(doc)
         /\ Reloaded(doc).memory = doc.row
<1>1. Reloaded(doc) = NewDocument(doc.row, callers)
  BY DEF Reloaded, DocShape
<1>2. QED
  BY <1>1, NewDocumentFacts DEF States

(* One save is replaced, or the memory and a save. *)
LEMMA SaveFacts ==
  ASSUME NEW callers, NEW doc, DocShape(doc, callers), NEW memory, NEW row, NEW current, NEW c \in callers, NEW v,
         SaveShape(v), {memory, row} \subseteq States(doc) \cup {memory}, v.stage = "sent" => v.state = memory
  PROVE  LET d == [memory |-> memory, row |-> row, current |-> current, saves |-> [doc.saves EXCEPT ![c] = v]]
         IN  DocShape(d, callers) /\ States(d) \subseteq States(doc) \cup {memory} /\ d.memory = memory
<1> DEFINE d == [memory |-> memory, row |-> row, current |-> current, saves |-> [doc.saves EXCEPT ![c] = v]]
<1>1. /\ d = [memory |-> d.memory, row |-> d.row, current |-> d.current, saves |-> d.saves]
      /\ d.memory = memory /\ d.row = row /\ d.saves = [doc.saves EXCEPT ![c] = v]
  OBVIOUS
<1> HIDE DEF d
<1>2. \A b \in callers : d.saves[b] = IF b = c THEN v ELSE doc.saves[b]
  BY <1>1 DEF DocShape
<1>3. d.saves = [b \in callers |-> d.saves[b]]
  BY <1>1 DEF DocShape
<1>4. DocShape(d, callers)
  BY <1>1, <1>2, <1>3 DEF DocShape
<1>5. States(d) \subseteq States(doc) \cup {memory}
  <2> SUFFICES ASSUME NEW s \in States(d) PROVE s \in States(doc) \cup {memory}
    OBVIOUS
  <2>1. CASE s = d.memory \/ s = d.row
    BY <1>1, <2>1
  <2>2. ASSUME NEW b \in callers, d.saves[b].stage = "sent", s = d.saves[b].state PROVE s \in States(doc) \cup {memory}
    <3>1. CASE b = c
      BY <1>2, <2>2, <3>1
    <3>2. CASE b # c
      <4>1. b \in DOMAIN doc.saves /\ doc.saves[b].stage = "sent" /\ s = doc.saves[b].state
        BY <1>2, <2>2, <3>2 DEF DocShape
      <4>2. QED
        BY <4>1 DEF States
    <3>3. QED
      BY <3>1, <3>2
  <2>3. DOMAIN d.saves = callers
    BY <1>3
  <2>4. QED
    BY <2>1, <2>2, <2>3 DEF States
<1>6. QED
  BY <1>1, <1>4, <1>5 DEF d

LEMMA ChangedFacts ==
  ASSUME NEW callers, NEW doc, DocShape(doc, callers), NEW c \in callers, NEW new
  PROVE  LET d == Changed(doc, c, new)
         IN  DocShape(d, callers) /\ States(d) \subseteq States(doc) \cup {new} /\ d.memory = new
<1> DEFINE v == [stage |-> "sent", state |-> new, current |-> doc.current]
<1>2. SaveShape(v) /\ v.state = new /\ Changed(doc, c, new) = [doc EXCEPT !.memory = new, !.saves[c] = v]
  BY DEF SaveShape, Changed
<1> HIDE DEF v
<1>1. Changed(doc, c, new) =
        [memory |-> new, row |-> doc.row, current |-> doc.current, saves |-> [doc.saves EXCEPT ![c] = v]]
  BY <1>2 DEF DocShape
<1>3. {new, doc.row} \subseteq States(doc) \cup {new}
  BY DEF States
<1>4. QED
  BY <1>1, <1>2, <1>3, SaveFacts

LEMMA RefusedFacts ==
  ASSUME NEW callers, NEW doc, DocShape(doc, callers), NEW c \in callers
  PROVE  /\ DocShape(Refused(doc, c), callers) /\ States(Refused(doc, c)) \subseteq States(doc)
         /\ Refused(doc, c).memory = doc.memory
<1> DEFINE v == [stage |-> "refused"]
<1>1. Refused(doc, c) =
        [memory |-> doc.memory, row |-> doc.row, current |-> doc.current, saves |-> [doc.saves EXCEPT ![c] = v]]
  BY DEF Refused, DocShape
<1>2. SaveShape(v) /\ v.stage # "sent"
  BY DEF SaveShape
<1> HIDE DEF v
<1>3. {doc.memory, doc.row} \subseteq States(doc)
  BY DEF States
<1>4. QED
  BY <1>1, <1>2, <1>3, SaveFacts

LEMMA ReturnedFacts ==
  ASSUME NEW callers, NEW doc, DocShape(doc, callers), NEW c \in callers
  PROVE  /\ DocShape(Returned(doc, c), callers) /\ States(Returned(doc, c)) \subseteq States(doc)
         /\ Returned(doc, c).memory = doc.memory
<1> DEFINE current == IF Succeeds(doc, c) THEN doc.saves[c].current ELSE doc.current
<1>a. Returned(doc, c) = [doc EXCEPT !.current = current, !.saves[c] = NoSave]
  BY DEF Returned
<1> HIDE DEF current
<1>1. Returned(doc, c) =
        [memory |-> doc.memory, row |-> doc.row, current |-> current, saves |-> [doc.saves EXCEPT ![c] = NoSave]]
  BY <1>a DEF DocShape
<1>2. SaveShape(NoSave) /\ NoSave.stage # "sent"
  BY DEF SaveShape, NoSave
<1>3. {doc.memory, doc.row} \subseteq States(doc)
  BY DEF States
<1> DEFINE d == [memory |-> doc.memory, row |-> doc.row, current |-> current,
                 saves |-> [doc.saves EXCEPT ![c] = NoSave]]
<1>4. DocShape(d, callers) /\ States(d) \subseteq States(doc) \cup {doc.memory} /\ d.memory = doc.memory
  BY <1>2, <1>3, SaveFacts
<1> HIDE DEF d
<1>5. QED
  BY <1>1, <1>3, <1>4 DEF d

LEMMA StoredFacts ==
  ASSUME NEW callers, NEW doc, DocShape(doc, callers), NEW c \in callers, Sent(doc, c)
  PROVE  /\ DocShape(Stored(doc, c), callers) /\ States(Stored(doc, c)) \subseteq States(doc)
         /\ Stored(doc, c).memory = doc.memory
<1> DEFINE saves == [d \in callers |->
                       IF d = c THEN [stage |-> "stored", current |-> TRUE] ELSE OutOfDate(doc.saves[d])]
           e == [memory |-> doc.memory, row |-> doc.saves[c].state, current |-> FALSE, saves |-> saves]
<1>a. DOMAIN doc.saves = callers
  BY DEF DocShape
<1>1. Stored(doc, c) = e
  BY <1>a DEF Stored
<1>2. ASSUME NEW d \in callers
      PROVE  /\ SaveShape(OutOfDate(doc.saves[d]))
             /\ OutOfDate(doc.saves[d]).stage = "sent" => /\ doc.saves[d].stage = "sent"
                                                          /\ OutOfDate(doc.saves[d]).state = doc.saves[d].state
  <2>1. SaveShape(doc.saves[d])
    BY DEF DocShape
  <2> DEFINE v == doc.saves[d]
  <2>2. CASE v = NoSave \/ v = [stage |-> "refused"]
    BY <2>1, <2>2 DEF OutOfDate, NoSave
  <2>3. CASE v = [stage |-> "stored", current |-> v.current]
    <3>0. \A x : OutOfDate([stage |-> "stored", current |-> x]) = [stage |-> "stored", current |-> FALSE]
      BY DEF OutOfDate
    <3>1. OutOfDate(v) = [stage |-> "stored", current |-> FALSE]
      BY <2>3, <3>0
    <3>2. QED
      BY <3>1 DEF SaveShape
  <2>4. CASE v = [stage |-> "sent", state |-> v.state, current |-> v.current]
    <3>0. \A x, y : OutOfDate([stage |-> "sent", state |-> y, current |-> x]) =
                      [stage |-> "sent", state |-> y, current |-> FALSE]
      BY DEF OutOfDate
    <3>1. OutOfDate(v) = [stage |-> "sent", state |-> v.state, current |-> FALSE]
      BY <2>4, <3>0
    <3>2. QED
      BY <2>4, <3>1 DEF SaveShape
  <2>5. QED
    BY <2>1, <2>2, <2>3, <2>4 DEF SaveShape
<1>3. [stage |-> "stored", current |-> TRUE].stage # "sent" /\ SaveShape([stage |-> "stored", current |-> TRUE])
  BY DEF SaveShape
<1>4. /\ e = [memory |-> e.memory, row |-> e.row, current |-> e.current, saves |-> e.saves]
      /\ e.memory = doc.memory /\ e.row = doc.saves[c].state /\ e.saves = saves
      /\ saves = [d \in callers |-> saves[d]]
  OBVIOUS
<1>5. \A d \in callers : /\ SaveShape(saves[d])
                         /\ saves[d].stage = "sent" => doc.saves[d].stage = "sent" /\ saves[d].state = doc.saves[d].state
  BY <1>2, <1>3
<1> HIDE DEF e, saves
<1>6. DocShape(e, callers)
  BY <1>4, <1>5 DEF DocShape
<1>7. doc.saves[c].state \in States(doc) /\ doc.memory \in States(doc)
  BY DEF States, DocShape, Sent
<1>8. States(e) \subseteq States(doc)
  BY <1>4, <1>5, <1>7 DEF States, DocShape
<1>9. QED
  BY <1>1, <1>4, <1>6, <1>8

-------------------------------------------------------------------------------
(* Customer data.  The rows of a request that waits for its commit are in  *)
(* the memory of the engine that will be stored, and in the profiles; once *)
(* it committed they are in the stored engine.                             *)

DataShape(s) == s = [profiles |-> s.profiles, events |-> s.events, imports |-> s.imports]
Imported(s, enrolled) ==
  DataShape(s) /\ \A key \in DOMAIN s.imports : s.imports[key] \subseteq enrolled \cap s.profiles
WriteShape(w) ==
  \/ w = Unused \/ w = [stage |-> "saving"]
  \/ w = [stage |-> w.stage, key |-> w.key, rows |-> w.rows] /\ w.stage \in {"queued", "committing", "committed"}
WriteGood(c, w, profiles, e) ==
  /\ w.stage = "committing" => w.rows \subseteq profiles /\ e.lock = <<c, Main>> /\ w.rows \subseteq e.memory[Main].enrolled
  /\ w.stage = "committed" => w.rows \subseteq profiles /\ w.rows \subseteq e.row.enrolled
DocumentGood == DocShape(customers, Clients) /\ \A s \in States(customers) : Imported(s, engine.row.enrolled)
WritingGood ==
  /\ writing = [c \in Clients |-> writing[c]]
  /\ \A c \in Clients : WriteShape(writing[c]) /\ WriteGood(c, writing[c], Data.profiles, engine)
ImportsGood ==
  /\ DocumentGood /\ WritingGood
  /\ turn # "customers" => \A c \in Clients : writing[c] = Unused

LEMMA ImportsGoodInit == Init => ImportsGood
<1> SUFFICES ASSUME Init PROVE ImportsGood
  OBVIOUS
<1> DEFINE first == [profiles |-> {}, events |-> << >>, imports |-> << >>]
<1>1. customers = NewDocument(first, Clients) /\ writing = [c \in Clients |-> Unused]
  BY DEF Init, CustomerInit
<1>2. DataShape(first) /\ first.imports = << >> /\ DOMAIN first.imports = {}
  BY DEF DataShape
<1>3. Imported(first, engine.row.enrolled)
  BY <1>2 DEF Imported
<1> HIDE DEF first
<1>4. DocumentGood
  BY <1>1, <1>3, NewDocumentFacts DEF DocumentGood
<1>5. \A c \in Clients : writing[c] = Unused /\ WriteShape(Unused)
  BY <1>1 DEF WriteShape
<1>6. QED
  BY <1>1, <1>4, <1>5 DEF ImportsGood, WritingGood, WriteGood, Unused

(* What has been imported stays so in an engine that has grown. *)
LEMMA ImportedGrows ==
  ASSUME NEW s, NEW e, NEW f, e \subseteq f, Imported(s, e)
  PROVE  Imported(s, f)
BY DEF Imported

LEMMA DocumentKept ==
  ASSUME DocumentGood, Grown(engine.row, engine'.row), DocShape(customers', Clients),
         \A s \in States(customers') : s \in States(customers) \/ Imported(s, engine'.row.enrolled)
  PROVE  DocumentGood'
<1>1. \A s \in States(customers') : Imported(s, engine'.row.enrolled)
  BY ImportedGrows DEF DocumentGood, Grown
<1>2. QED
  BY <1>1 DEF DocumentGood

(* One request goes on; another that waits for its commit keeps the lock.  *)
LEMMA OneWrite ==
  ASSUME WritingGood, NEW c \in Clients, NEW w, writing' = [writing EXCEPT ![c] = w], WriteShape(w),
         Grown(engine.row, engine'.row), Data.profiles \subseteq Data'.profiles,
         WriteGood(c, w, Data'.profiles, engine'),
         \A d \in Clients \ {c} : writing[d].stage = "committing" => UNCHANGED engine
  PROVE  WritingGood'
<1>1. \A d \in Clients : writing'[d] = IF d = c THEN w ELSE writing[d]
  BY DEF WritingGood
<1>2. writing' = [d \in Clients |-> writing'[d]]
  BY DEF WritingGood
<1>3. ASSUME NEW d \in Clients PROVE WriteShape(writing'[d]) /\ WriteGood(d, writing'[d], Data'.profiles, engine')
  <2>1. CASE d = c
    BY <1>1, <2>1
  <2>2. CASE d # c
    <3>1. writing'[d] = writing[d] /\ WriteShape(writing[d]) /\ WriteGood(d, writing[d], Data.profiles, engine)
      BY <1>1, <2>2 DEF WritingGood
    <3>2. CASE writing[d].stage = "committing"
      BY <2>2, <3>1, <3>2 DEF WriteGood
    <3>3. CASE writing[d].stage # "committing"
      BY <3>1, <3>3 DEF WriteGood, Grown
    <3>4. QED
      BY <3>2, <3>3
  <2>3. QED
    BY <2>1, <2>2
<1>4. QED
  BY <1>2, <1>3 DEF WritingGood

LEMMA LockedWrites ==
  ASSUME WritingGood
  PROVE  /\ Free => \A d \in Clients : writing[d].stage # "committing"
         /\ \A c \in Clients : engine.lock = <<c, Main>> => \A d \in Clients \ {c} : writing[d].stage # "committing"
BY LockAssumption, MainIsInstance DEF WritingGood, WriteGood, Free, LockCallers

LEMMA ImportsStep ==
  ASSUME ImportsGood, EngineGood, NEW c \in Clients,
         \/ ImportMembers(c) \/ UpsertProfiles(c) \/ ProfilesCommitted(c) \/ ProfilesRolledBack(c)
         \/ ProfilesSaved(c) \/ IngestEvent(c) \/ CustomerSaveStored(c) \/ WriteReturned(c)
  PROVE  DocumentGood' /\ WritingGood'
<1>0. /\ DocumentGood /\ WritingGood /\ c \in LockCallers /\ WriteShape(writing[c])
      /\ WriteGood(c, writing[c], Data.profiles, engine) /\ Grown(engine.row, engine.row)
      /\ Data \in States(customers) /\ customers.row \in States(customers)
  BY DEF ImportsGood, LockCallers, WritingGood, Grown, States, Data
<1>1. CASE ImportMembers(c)
  <2>1. PICK key, rows : Writes(c, [stage |-> "queued", key |-> key, rows |-> rows])
    BY <1>1 DEF ImportMembers
  <2> DEFINE w == [stage |-> "queued", key |-> key, rows |-> rows]
  <2>2. WriteShape(w) /\ w.stage = "queued"
    BY DEF WriteShape
  <2> HIDE DEF w
  <2>3. UNCHANGED <<customers, engine>> /\ writing' = [writing EXCEPT ![c] = w]
    BY <1>1, <2>1 DEF ImportMembers, platformVars, Writes, w
  <2>4. WritingGood'
    BY <1>0, <2>2, <2>3, OneWrite DEF WriteGood, Data
  <2>5. QED
    BY <1>0, <2>3, <2>4 DEF DocumentGood
<1>2. CASE UpsertProfiles(c)
  <2> DEFINE w == writing[c]
             v == [w EXCEPT !.stage = "committing"]
             new == [engine.row EXCEPT !.enrolled = engine.row.enrolled \cup w.rows]
             data == [Data EXCEPT !.profiles = Data.profiles \cup w.rows]
  <2>1. /\ w.stage = "queued" /\ Begins(c, Main, new)
        /\ customers' = [customers EXCEPT !.memory.profiles = customers.memory.profiles \cup w.rows]
        /\ writing' = [writing EXCEPT ![c] = v]
    BY <1>2 DEF UpsertProfiles, Writes, Loaded
  <2>2. w = [stage |-> w.stage, key |-> w.key, rows |-> w.rows]
    BY <1>0, <2>1 DEF WriteShape, Unused
  <2>3. v.stage = "committing" /\ v.rows = w.rows /\ WriteShape(v)
    BY <2>2 DEF WriteShape
  <2>4. StateShape(new) /\ Grown(engine.row, new) /\ new.enrolled = engine.row.enrolled \cup w.rows
    BY ChangesGrow
  <2>5. /\ DataShape(data) /\ data.profiles = Data.profiles \cup w.rows /\ data.imports = Data.imports
    <3>1. \A x : LET d == [Data EXCEPT !.profiles = x] IN DataShape(d) /\ d.profiles = x /\ d.imports = Data.imports
      BY <1>0 DEF DocumentGood, Imported, DataShape
    <3>2. QED
      BY <3>1
  <2>6. /\ customers' = [memory |-> data, row |-> customers.row, current |-> customers.current,
                         saves |-> customers.saves]
    <3>1. customers = [memory |-> customers.memory, row |-> customers.row, current |-> customers.current,
                       saves |-> customers.saves]
      BY <1>0 DEF DocumentGood, DocShape
    <3>2. QED
      BY <2>1, <3>1 DEF Data
  <2> HIDE DEF v, new, data
  <2>7. /\ customers'.memory = data /\ customers'.row = customers.row /\ customers'.saves = customers.saves
        /\ customers' = [memory |-> customers'.memory, row |-> customers'.row, current |-> customers'.current,
                         saves |-> customers'.saves]
    BY <2>6
  <2>8. DocShape(customers', Clients) /\ States(customers') \subseteq States(customers) \cup {data}
    BY <1>0, <2>7 DEF DocumentGood, DocShape, States
  <2>9. /\ engine'.row = engine.row /\ engine'.lock = <<c, Main>> /\ engine'.memory[Main] = new /\ Free
    BY <1>0, <2>1, <2>4, BeginsFacts, MainIsInstance
  <2>10. Imported(data, engine'.row.enrolled)
    BY <1>0, <2>5, <2>9 DEF DocumentGood, Imported
  <2>11. Data' = data
    BY <2>7 DEF Data
  <2>12. WriteGood(c, v, Data'.profiles, engine')
    BY <2>3, <2>4, <2>5, <2>9, <2>11 DEF WriteGood
  <2>13. WritingGood'
    BY <1>0, <2>1, <2>3, <2>5, <2>9, <2>11, <2>12, OneWrite, LockedWrites
  <2>14. DocumentGood'
    BY <1>0, <2>8, <2>9, <2>10, DocumentKept
  <2>15. QED
    BY <2>13, <2>14
<1>3. CASE ProfilesCommitted(c) \/ ProfilesRolledBack(c)
  <2> DEFINE w == writing[c]
             v == [w EXCEPT !.stage = "committed"]
  <2>1. w.stage = "committing" /\ UNCHANGED customers
    BY <1>3 DEF ProfilesCommitted, ProfilesRolledBack
  <2>2. w = [stage |-> w.stage, key |-> w.key, rows |-> w.rows]
    BY <1>0, <2>1 DEF WriteShape, Unused
  <2>3. v.stage = "committed" /\ v.rows = w.rows /\ WriteShape(v)
    BY <2>2 DEF WriteShape
  <2>4. /\ w.rows \subseteq Data.profiles /\ engine.lock = <<c, Main>>
        /\ w.rows \subseteq engine.memory[Main].enrolled
    BY <1>0, <2>1 DEF WriteGood
  <2> HIDE DEF v
  <2>5. UNCHANGED Data /\ \A d \in Clients \ {c} : writing[d].stage # "committing"
    BY <1>0, <2>1, <2>4, LockedWrites DEF Data
  <2>6. CASE ProfilesCommitted(c)
    <3>1. /\ Grown(engine.row, engine'.row) /\ engine'.row = engine.memory[Main]
          /\ writing' = [writing EXCEPT ![c] = v]
      BY <1>0, <2>6, CommitsFacts, MainIsInstance DEF ProfilesCommitted, Writes, v
    <3>2. WriteGood(c, v, Data'.profiles, engine')
      BY <2>3, <2>4, <2>5, <3>1 DEF WriteGood
    <3>3. WritingGood'
      BY <1>0, <2>3, <2>5, <3>1, <3>2, OneWrite
    <3>4. QED
      BY <1>0, <2>1, <3>1, <3>3, DocumentKept DEF DocumentGood
  <2>7. CASE ProfilesRolledBack(c)
    <3>1. engine'.row = engine.row /\ writing' = [writing EXCEPT ![c] = Unused]
      BY <2>7, RollsBackFacts DEF ProfilesRolledBack, Writes
    <3>2. WriteShape(Unused) /\ WriteGood(c, Unused, Data'.profiles, engine')
      BY DEF WriteShape, WriteGood, Unused
    <3>3. WritingGood'
      BY <1>0, <2>5, <3>1, <3>2, OneWrite
    <3>4. QED
      BY <1>0, <2>1, <3>1, <3>3, DocumentKept DEF DocumentGood
  <2>8. QED
    BY <1>3, <2>6, <2>7
<1>4. ASSUME NEW w, writing' = [writing EXCEPT ![c] = w], w = Unused \/ w = [stage |-> "saving"], UNCHANGED engine,
             Data'.profiles = Data.profiles
      PROVE  WritingGood'
  <2>1. WriteShape(w) /\ WriteGood(c, w, Data'.profiles, engine')
    BY <1>4 DEF WriteShape, WriteGood, Unused
  <2>2. QED
    BY <1>0, <1>4, <2>1, OneWrite
<1>5. ASSUME NEW new, customers' = Changed(customers, c, new), Imported(new, engine.row.enrolled),
             new.profiles = Data.profiles, UNCHANGED engine, writing' = [writing EXCEPT ![c] = [stage |-> "saving"]]
      PROVE  DocumentGood' /\ WritingGood'
  <2>1. /\ DocShape(customers', Clients) /\ States(customers') \subseteq States(customers) \cup {new}
        /\ customers'.memory = new
    BY <1>0, <1>5, ChangedFacts DEF DocumentGood
  <2>2. DocumentGood'
    BY <1>0, <1>5, <2>1, DocumentKept
  <2>3. QED
    BY <1>4, <1>5, <2>1, <2>2 DEF Data
<1>6. CASE ProfilesSaved(c)
  <2> DEFINE w == writing[c]
             imports == IF w.key = None THEN Data.imports ELSE Put(Data.imports, w.key, w.rows)
             new == [Data EXCEPT !.imports = imports]
  <2>1. /\ w.stage = "committed" /\ customers' = Changed(customers, c, new) /\ UNCHANGED engine
        /\ writing' = [writing EXCEPT ![c] = [stage |-> "saving"]]
    BY <1>6 DEF ProfilesSaved, Writes, platformVars
  <2>2. w.rows \subseteq engine.row.enrolled \cap Data.profiles
    BY <1>0, <2>1 DEF WriteGood
  <2>3. \A key \in DOMAIN imports : imports[key] \subseteq engine.row.enrolled \cap Data.profiles
    BY <1>0, <2>2 DEF DocumentGood, Imported, Put
  <2> HIDE DEF imports
  <2>4. DataShape(new) /\ new.profiles = Data.profiles /\ new.imports = imports
    BY <1>0 DEF DocumentGood, Imported, DataShape
  <2> HIDE DEF new
  <2>5. QED
    BY <1>5, <2>1, <2>3, <2>4 DEF Imported
<1>7. CASE IngestEvent(c)
  <2>1. PICK events : customers' = Changed(customers, c, [Data EXCEPT !.events = events])
    BY <1>7 DEF IngestEvent
  <2> DEFINE new == [Data EXCEPT !.events = events]
  <2>2. DataShape(new) /\ new.profiles = Data.profiles /\ new.imports = Data.imports
    BY <1>0 DEF DocumentGood, Imported, DataShape
  <2> HIDE DEF new
  <2>3. Imported(new, engine.row.enrolled)
    BY <1>0, <2>2 DEF DocumentGood, Imported
  <2>4. UNCHANGED engine /\ writing' = [writing EXCEPT ![c] = [stage |-> "saving"]]
    BY <1>7 DEF IngestEvent, Writes, platformVars
  <2>5. QED
    BY <1>5, <2>1, <2>2, <2>3, <2>4 DEF new
<1>8. ASSUME DocShape(customers', Clients), States(customers') \subseteq States(customers),
             customers'.memory = customers.memory, UNCHANGED engine
      PROVE  DocumentGood' /\ Data' = Data
  BY <1>0, <1>8, DocumentKept DEF Data
<1>9. CASE CustomerSaveStored(c)
  <2>1. customers' = Stored(customers, c) \/ customers' = Refused(customers, c)
    BY <1>9 DEF CustomerSaveStored
  <2>2. DocumentGood' /\ Data' = Data
    BY <1>0, <1>8, <1>9, <2>1, StoredFacts, RefusedFacts DEF CustomerSaveStored, platformVars, DocumentGood
  <2>3. QED
    BY <1>0, <1>9, <2>2 DEF CustomerSaveStored, platformVars, WritingGood
<1>10. CASE WriteReturned(c)
  <2>1. customers' = Returned(customers, c) /\ UNCHANGED engine /\ writing' = [writing EXCEPT ![c] = Unused]
    BY <1>10 DEF WriteReturned, platformVars, Writes
  <2>2. DocumentGood' /\ Data' = Data
    BY <1>0, <1>8, <2>1, ReturnedFacts DEF DocumentGood
  <2>3. QED
    BY <1>4, <2>1, <2>2
<1>11. QED
  BY <1>1, <1>2, <1>3, <1>6, <1>7, <1>9, <1>10

LEMMA ImportsGoodStep == ImportsGood /\ RequestShape /\ EngineGood /\ [Next]_vars => ImportsGood'
<1> SUFFICES ASSUME ImportsGood, RequestShape, EngineGood, [Next]_vars PROVE ImportsGood'
  OBVIOUS
<1>1. Grown(engine.row, engine'.row)
  BY EngineStep DEF EngineMoved
<1>2. CASE UNCHANGED <<customerVars, turn>> /\ (turn # "customers" \/ UNCHANGED engine)
  <2>1. UNCHANGED <<customers, writing, turn>> /\ Data' = Data
    BY <1>2 DEF customerVars, Data
  <2>2. DocumentGood'
    BY <1>1, <2>1, DocumentKept DEF ImportsGood, DocumentGood
  <2>3. WritingGood'
    <3>1. CASE UNCHANGED engine
      BY <2>1, <3>1 DEF ImportsGood, WritingGood
    <3>2. CASE turn # "customers"
      BY <2>1, <3>2 DEF ImportsGood, WritingGood, WriteGood, Unused
    <3>3. QED
      BY <1>2, <3>1, <3>2
  <2>4. QED
    BY <2>1, <2>2, <2>3 DEF ImportsGood
<1>3. CASE Importing
  BY <1>3, ImportsStep DEF Importing, CustomerNext, ImportsGood
<1>4. CASE Crash
  <2>1. customers' = Reloaded(customers) /\ writing' = [c \in Clients |-> Unused]
    BY <1>4 DEF Crash, CustomerBoot
  <2>2. DocumentGood'
    BY <1>1, <2>1, ReloadedFacts, DocumentKept DEF ImportsGood, DocumentGood
  <2>3. QED
    BY <2>1, <2>2 DEF ImportsGood, WritingGood, WriteShape, WriteGood, Unused
<1>5. QED
  BY <1>2, <1>3, <1>4 DEF Next, vars, restingVars, platformVars, Requesting, Publishing, Managing, Campaigning,
                          Messaging, Administering, Serving

(* An import that is reported, in memory or in the store, has enrolled its *)
(* members in the stored engine, and its profiles are with it, whatever    *)
(* fails, is refused or stops in between (customer-data.ts).               *)
THEOREM ReportedImportsCommitted == Spec => []ImportsCommitted
<1>1. ImportsGood => ImportsCommitted
  BY DEF ImportsGood, DocumentGood, Imported, States, ImportsCommitted, Data
<1>2. QED
  BY <1>1, ImportsGoodInit, ImportsGoodStep, AlwaysEngineGood, PTL DEF Spec, IdleSpec

-------------------------------------------------------------------------------
(* Messages.  Every copy of a job, in memory, stored, on its way to the    *)
(* store or held by a run that waits for the provider, tells only of       *)
(* messages that were taken.                                               *)

Told(j, job, m, taken) ==
  job.status = "completed" \/ job.deliveries[m].status = "delivered" =>
    job.deliveries[m].status = "skipped" \/ <<j, m>> \in taken
JobGood(j, job, taken) ==
  /\ job = [connector |-> job.connector, deliveries |-> job.deliveries, status |-> job.status]
  /\ job.deliveries = [m \in DOMAIN job.deliveries |-> job.deliveries[m]]
  /\ \A m \in DOMAIN job.deliveries : Told(j, job, m, taken)
MessagesGood(s, taken) ==
  /\ s = [connectors |-> s.connectors, jobs |-> s.jobs]
  /\ s.jobs = [j \in DOMAIN s.jobs |-> s.jobs[j]]
  /\ \A j \in DOMAIN s.jobs : JobGood(j, s.jobs[j], taken)
Unsent(job, m) == m \in DOMAIN job.deliveries => job.deliveries[m].status \in {"pending", "failed"}
RunGood(run, jobs, taken) ==
  /\ run.stage # "idle" => run.list \subseteq jobs
  /\ run.stage \in {"saving", "next"} => run.job \in jobs
  /\ run.stage = "sending" =>
       run.job \in jobs /\ JobGood(run.job, run.copy, taken) /\ Unsent(run.copy, run.member)
MessageCallers == Senders \cup {Desk}
MessagesKept ==
  DocShape(engagement, MessageCallers) /\ \A s \in States(engagement) : MessagesGood(s, accepted)
SendingGood ==
  /\ sending = [by \in Senders |-> sending[by]]
  /\ \A by \in Senders : RunGood(sending[by], DOMAIN Msgs.jobs, accepted)
EngagementGood == MessagesKept /\ SendingGood

LEMMA EngagementGoodInit == Init => EngagementGood
<1> SUFFICES ASSUME Init PROVE EngagementGood
  OBVIOUS
<1> DEFINE first == [connectors |-> << >>, jobs |-> << >>]
<1>1. engagement = NewDocument(first, MessageCallers) /\ sending = [by \in Senders |-> Quiet]
  BY DEF Init, EngagementInit, MessageCallers
<1>2. first = [connectors |-> first.connectors, jobs |-> first.jobs] /\ first.jobs = << >>
  OBVIOUS
<1>3. DOMAIN first.jobs = {} /\ first.jobs = [j \in DOMAIN first.jobs |-> first.jobs[j]]
  BY <1>2
<1>4. MessagesGood(first, accepted)
  BY <1>2, <1>3 DEF MessagesGood
<1> HIDE DEF first
<1>5. MessagesKept
  BY <1>1, <1>4, NewDocumentFacts DEF MessagesKept
<1>6. QED
  BY <1>1, <1>5 DEF EngagementGood, SendingGood, RunGood, Quiet

(* What was taken stays so. *)
LEMMA TakenGrows ==
  ASSUME NEW taken, NEW more, taken \subseteq more
  PROVE  /\ \A j, job : JobGood(j, job, taken) => JobGood(j, job, more)
         /\ \A s : MessagesGood(s, taken) => MessagesGood(s, more)
<1>1. \A j, job : JobGood(j, job, taken) => JobGood(j, job, more)
  BY DEF JobGood, Told
<1>2. QED
  BY <1>1 DEF MessagesGood

LEMMA MessagesStay ==
  ASSUME MessagesKept, accepted \subseteq accepted', DocShape(engagement', MessageCallers),
         \A s \in States(engagement') : s \in States(engagement) \/ MessagesGood(s, accepted')
  PROVE  MessagesKept'
<1>1. \A s \in States(engagement') : MessagesGood(s, accepted')
  BY TakenGrows DEF MessagesKept
<1>2. QED
  BY <1>1 DEF MessagesKept

LEMMA OneRun ==
  ASSUME SendingGood, NEW by \in Senders, NEW run, sending' = [sending EXCEPT ![by] = run],
         accepted \subseteq accepted', DOMAIN Msgs.jobs \subseteq DOMAIN Msgs'.jobs,
         RunGood(run, DOMAIN Msgs'.jobs, accepted')
  PROVE  SendingGood'
<1>1. /\ \A b \in Senders : sending'[b] = IF b = by THEN run ELSE sending[b]
      /\ sending' = [b \in Senders |-> sending'[b]]
  BY DEF SendingGood
<1>2. ASSUME NEW b \in Senders PROVE RunGood(sending'[b], DOMAIN Msgs'.jobs, accepted')
  BY <1>1, TakenGrows DEF SendingGood, RunGood
<1>3. QED
  BY <1>1, <1>2 DEF SendingGood

LEMMA RunsStay ==
  ASSUME SendingGood, UNCHANGED sending, accepted \subseteq accepted', DOMAIN Msgs.jobs \subseteq DOMAIN Msgs'.jobs
  PROVE  SendingGood'
<1>1. \A by \in Senders : RunGood(sending[by], DOMAIN Msgs'.jobs, accepted')
  BY TakenGrows DEF SendingGood, RunGood
<1>2. QED
  BY <1>1 DEF SendingGood

(* A document with one more job, or with a job replaced by a good one. *)
LEMMA PutJob ==
  ASSUME NEW s, NEW taken, MessagesGood(s, taken), NEW j, NEW job, JobGood(j, job, taken)
  PROVE  LET new == [s EXCEPT !.jobs = Put(s.jobs, j, job)]
         IN  MessagesGood(new, taken) /\ DOMAIN s.jobs \subseteq DOMAIN new.jobs
<1> DEFINE jobs == Put(s.jobs, j, job)
           new == [s EXCEPT !.jobs = jobs]
<1>1. /\ DOMAIN jobs = DOMAIN s.jobs \cup {j} /\ jobs = [k \in DOMAIN jobs |-> jobs[k]]
      /\ \A k \in DOMAIN jobs : jobs[k] = IF k = j THEN job ELSE s.jobs[k]
  BY DEF Put
<1> HIDE DEF jobs
<1>2. new = [connectors |-> new.connectors, jobs |-> new.jobs] /\ new.jobs = jobs
  BY DEF MessagesGood
<1> HIDE DEF new
<1>3. QED
  BY <1>1, <1>2 DEF MessagesGood, new, jobs

LEMMA ReplaceJob ==
  ASSUME NEW s, NEW taken, MessagesGood(s, taken), NEW j, NEW job, JobGood(j, job, taken)
  PROVE  LET new == [s EXCEPT !.jobs[j] = job]
         IN  MessagesGood(new, taken) /\ DOMAIN new.jobs = DOMAIN s.jobs
<1> DEFINE jobs == [s.jobs EXCEPT ![j] = job]
           new == [s EXCEPT !.jobs[j] = job]
<1>1. /\ DOMAIN jobs = DOMAIN s.jobs /\ jobs = [k \in DOMAIN jobs |-> jobs[k]]
      /\ \A k \in DOMAIN jobs : jobs[k] = IF k = j THEN job ELSE s.jobs[k]
  BY DEF MessagesGood
<1>2. new = [connectors |-> new.connectors, jobs |-> new.jobs] /\ new.jobs = jobs
  BY DEF MessagesGood
<1> HIDE DEF jobs, new
<1>3. QED
  BY <1>1, <1>2 DEF MessagesGood, new

(* The changes a run makes to a job. *)
LEMMA StatusGood ==
  ASSUME NEW j, NEW job, NEW taken, JobGood(j, job, taken), NEW status,
         status = "completed" => \A m \in DOMAIN job.deliveries : job.deliveries[m].status \in {"skipped", "delivered"}
  PROVE  JobGood(j, [job EXCEPT !.status = status], taken)
<1> DEFINE new == [job EXCEPT !.status = status]
<1>1. /\ new = [connector |-> new.connector, deliveries |-> new.deliveries, status |-> new.status]
      /\ new.deliveries = job.deliveries /\ new.status = status
  BY DEF JobGood
<1> HIDE DEF new
<1>2. QED
  BY <1>1 DEF JobGood, Told, new

LEMMA DeliveryGood ==
  ASSUME NEW j, NEW job, NEW taken, JobGood(j, job, taken), NEW m, NEW d, Unsent(job, m),
         d.status = "failed" \/ (d.status = "delivered" /\ <<j, m>> \in taken)
  PROVE  JobGood(j, WithDelivery(job, m, d), taken)
<1> DEFINE new == [job EXCEPT !.deliveries[m] = d]
           ds == [job.deliveries EXCEPT ![m] = d]
<1>1. /\ DOMAIN ds = DOMAIN job.deliveries /\ ds = [k \in DOMAIN ds |-> ds[k]]
      /\ \A k \in DOMAIN ds : ds[k] = IF k = m THEN d ELSE job.deliveries[k]
  BY DEF JobGood
<1>2. /\ new = [connector |-> new.connector, deliveries |-> new.deliveries, status |-> new.status]
      /\ new.deliveries = ds /\ new.status = job.status
  BY DEF JobGood
<1> HIDE DEF new, ds
<1>3. ASSUME NEW k \in DOMAIN new.deliveries PROVE Told(j, new, k, taken)
  <2>1. k \in DOMAIN job.deliveries /\ Told(j, job, k, taken)
    BY <1>1, <1>2, <1>3 DEF JobGood
  <2>2. CASE k = m
    BY <1>1, <1>2, <2>1, <2>2 DEF Told, Unsent
  <2>3. CASE k # m
    BY <1>1, <1>2, <2>1, <2>3 DEF Told
  <2>4. QED
    BY <2>2, <2>3
<1>4. JobGood(j, new, taken)
  BY <1>1, <1>2, <1>3 DEF JobGood
<1>5. QED
  BY <1>4 DEF WithDelivery, new

LEMMA MessagesChanged ==
  ASSUME MessagesKept, NEW c \in MessageCallers, NEW new, engagement' = Changed(engagement, c, new),
         accepted \subseteq accepted', MessagesGood(new, accepted')
  PROVE  MessagesKept' /\ Msgs' = new
<1>1. /\ DocShape(engagement', MessageCallers) /\ States(engagement') \subseteq States(engagement) \cup {new}
      /\ engagement'.memory = new
  BY ChangedFacts DEF MessagesKept
<1>2. QED
  BY <1>1, MessagesStay DEF Msgs

LEMMA JobSaved ==
  ASSUME EngagementGood, NEW by \in Senders, NEW j, NEW job, NEW run, SaveJob(by, j, job, run),
         accepted \subseteq accepted', JobGood(j, job, accepted'), RunGood(run, DOMAIN Msgs.jobs, accepted')
  PROVE  EngagementGood'
<1> DEFINE new == [Msgs EXCEPT !.jobs[j] = job]
<1>1. Msgs \in States(engagement) /\ by \in MessageCallers
  BY DEF Msgs, States, MessageCallers
<1>2. MessagesGood(Msgs, accepted')
  BY <1>1, TakenGrows DEF EngagementGood, MessagesKept
<1>3. MessagesGood(new, accepted') /\ DOMAIN new.jobs = DOMAIN Msgs.jobs
  BY <1>2, ReplaceJob
<1>4. engagement' = Changed(engagement, by, new) /\ sending' = [sending EXCEPT ![by] = run]
  BY DEF SaveJob, Sends
<1> HIDE DEF new
<1>5. MessagesKept' /\ Msgs' = new
  BY <1>1, <1>3, <1>4, MessagesChanged DEF EngagementGood
<1>6. SendingGood'
  BY <1>3, <1>4, <1>5, OneRun DEF EngagementGood
<1>7. QED
  BY <1>5, <1>6 DEF EngagementGood

LEMMA OrderGood ==
  ASSUME EngagementGood, NEW new, Order(new), MessagesGood(new, accepted), DOMAIN Msgs.jobs \subseteq DOMAIN new.jobs
  PROVE  EngagementGood'
<1>1. /\ Desk \in MessageCallers /\ UNCHANGED <<sending, accepted>>
      /\ engagement' = Changed(engagement, Desk, new)
  BY DEF Order, MessageCallers
<1>2. MessagesKept' /\ Msgs' = new
  BY <1>1, MessagesChanged DEF EngagementGood
<1>3. QED
  BY <1>1, <1>2, RunsStay DEF EngagementGood

LEMMA MessagesInMemory ==
  ASSUME EngagementGood
  PROVE  MessagesGood(Msgs, accepted) /\ \A j \in DOMAIN Msgs.jobs : JobGood(j, Msgs.jobs[j], accepted)
BY DEF EngagementGood, MessagesKept, States, Msgs, MessagesGood

LEMMA StartGood ==
  ASSUME EngagementGood, NEW by \in Senders, NEW j \in DOMAIN Msgs.jobs, NEW list, JobStarts(by, j, list),
         list \subseteq DOMAIN Msgs.jobs, UNCHANGED accepted
  PROVE  EngagementGood'
<1> DEFINE job == [Msgs.jobs[j] EXCEPT !.status = "running"]
<1>1. PICK left : SaveJob(by, j, job, [stage |-> "saving", job |-> j, at |-> None, list |-> list, left |-> left])
  BY DEF JobStarts
<1> DEFINE run == [stage |-> "saving", job |-> j, at |-> None, list |-> list, left |-> left]
<1>2. RunGood(run, DOMAIN Msgs.jobs, accepted)
  BY DEF RunGood
<1>3. JobGood(j, job, accepted)
  BY MessagesInMemory, StatusGood
<1> HIDE DEF job, run
<1>4. QED
  BY <1>1, <1>2, <1>3, JobSaved DEF run

LEMMA EnqueueGood ==
  ASSUME EngagementGood, Enqueue
  PROVE  EngagementGood'
<1>1. PICK j, c, s, marketing :
        LET deliveries == [m \in ResolveSegmentMembers(Doc.segments[s], Mem) |-> Delivery(m, marketing)]
            none == \A m \in DOMAIN deliveries : deliveries[m].status = "skipped"
        IN  Order([Msgs EXCEPT !.jobs = Put(@, j,
              [connector |-> c, deliveries |-> deliveries,
               status |-> IF none THEN "completed" ELSE "queued"])])
  BY DEF Enqueue
<1> DEFINE members == ResolveSegmentMembers(Doc.segments[s], Mem)
           deliveries == [m \in members |-> Delivery(m, marketing)]
           none == \A m \in DOMAIN deliveries : deliveries[m].status = "skipped"
           status == IF none THEN "completed" ELSE "queued"
<1>a. Order([Msgs EXCEPT !.jobs = Put(Msgs.jobs, j,
               [connector |-> c, deliveries |-> deliveries, status |-> status])])
  BY <1>1
<1>b. /\ DOMAIN deliveries = members /\ deliveries = [m \in DOMAIN deliveries |-> deliveries[m]]
      /\ \A m \in members : deliveries[m] = Delivery(m, marketing)
  OBVIOUS
<1>c. status = "completed" => \A m \in DOMAIN deliveries : deliveries[m].status = "skipped"
  OBVIOUS
<1> HIDE DEF members, deliveries, status
<1> DEFINE job == [connector |-> c, deliveries |-> deliveries, status |-> status]
           new == [Msgs EXCEPT !.jobs = Put(Msgs.jobs, j, job)]
<1>2. /\ job = [connector |-> job.connector, deliveries |-> job.deliveries, status |-> job.status]
      /\ job.deliveries = deliveries /\ job.status = status
  OBVIOUS
<1>3. \A m \in DOMAIN deliveries : deliveries[m].status # "delivered"
  BY <1>b DEF Delivery
<1> HIDE DEF job
<1>4. JobGood(j, job, accepted)
  BY <1>b, <1>c, <1>2, <1>3 DEF JobGood, Told
<1>5. MessagesGood(new, accepted) /\ DOMAIN Msgs.jobs \subseteq DOMAIN new.jobs
  BY <1>4, MessagesInMemory, PutJob
<1> HIDE DEF new
<1>6. QED
  BY <1>a, <1>5, OrderGood DEF new, job

LEMMA EngagementStep ==
  ASSUME EngagementGood, EngagementNext
  PROVE  EngagementGood'
<1>1. ASSUME NEW x, Order([Msgs EXCEPT !.connectors = x]) PROVE EngagementGood'
  <2> DEFINE new == [Msgs EXCEPT !.connectors = x]
  <2>1. MessagesGood(Msgs, accepted)
    BY MessagesInMemory
  <2>2. new = [connectors |-> new.connectors, jobs |-> new.jobs] /\ new.jobs = Msgs.jobs
    BY <2>1 DEF MessagesGood
  <2> HIDE DEF new
  <2>3. MessagesGood(new, accepted)
    BY <2>1, <2>2 DEF MessagesGood
  <2>4. QED
    BY <1>1, <2>2, <2>3, OrderGood DEF new
<1>2. CASE UpsertConnector \/ RemoveConnector
  BY <1>1, <1>2 DEF UpsertConnector, RemoveConnector
<1>3. CASE Enqueue
  BY <1>3, EnqueueGood
<1>4. ASSUME UNCHANGED accepted, DocShape(engagement', MessageCallers), States(engagement') \subseteq States(engagement),
             engagement'.memory = engagement.memory
      PROVE  MessagesKept' /\ Msgs' = Msgs
  BY <1>4, MessagesStay DEF EngagementGood, Msgs
<1>5. CASE DeskReturned
  <2>1. Desk \in MessageCallers /\ UNCHANGED <<accepted, sending>>
    BY <1>5 DEF DeskReturned, MessageCallers
  <2>2. MessagesKept' /\ Msgs' = Msgs
    BY <1>4, <1>5, <2>1, ReturnedFacts DEF DeskReturned, EngagementGood, MessagesKept
  <2>3. QED
    BY <2>1, <2>2, RunsStay DEF EngagementGood
<1>6. ASSUME NEW c \in MessageCallers, EngagementSaveStored(c) PROVE EngagementGood'
  <2>1. UNCHANGED <<accepted, sending>> /\ (engagement' = Stored(engagement, c) \/ engagement' = Refused(engagement, c))
    BY <1>6 DEF EngagementSaveStored
  <2>2. MessagesKept' /\ Msgs' = Msgs
    BY <1>4, <1>6, <2>1, StoredFacts, RefusedFacts DEF EngagementSaveStored, EngagementGood, MessagesKept
  <2>3. QED
    BY <2>1, <2>2, RunsStay DEF EngagementGood
<1>7. CASE RunJob
  BY <1>7, StartGood DEF RunJob, Senders
<1>8. ASSUME NEW by \in Senders, NEW run, sending' = [sending EXCEPT ![by] = run],
             run.stage \notin {"saving", "next", "sending"}, run.stage # "idle" => run.list \subseteq DOMAIN Msgs.jobs,
             UNCHANGED <<engagement, accepted>>
      PROVE  EngagementGood'
  <2>1. RunGood(run, DOMAIN Msgs'.jobs, accepted')
    BY <1>8 DEF RunGood, Msgs
  <2>2. SendingGood'
    BY <1>8, <2>1, OneRun DEF EngagementGood, Msgs
  <2>3. QED
    BY <1>8, <2>2 DEF EngagementGood, MessagesKept
<1>9. CASE RunDueJobs
  <2> DEFINE run == [stage |-> "pass", list |-> DueJobs]
  <2>1. run.stage = "pass" /\ run.list \subseteq DOMAIN Msgs.jobs
    BY DEF DueJobs
  <2> HIDE DEF run
  <2>2. QED
    BY <1>8, <1>9, <2>1 DEF RunDueJobs, Sends, Senders, run
<1>10. CASE PassNext
  <2>1. Timer \in Senders /\ sending[Timer].list \subseteq DOMAIN Msgs.jobs /\ UNCHANGED accepted
    BY <1>10 DEF PassNext, Sending, EngagementGood, SendingGood, RunGood, Senders
  <2>2. CASE Sends(Timer, Quiet) /\ UNCHANGED engagement
    BY <1>8, <2>1, <2>2 DEF Sends, Quiet
  <2>3. CASE \E j \in sending[Timer].list : JobStarts(Timer, j, sending[Timer].list \ {j})
    BY <2>1, <2>3, StartGood
  <2>4. QED
    BY <1>10, <2>2, <2>3 DEF PassNext
<1>11. ASSUME NEW by \in Senders, NextDelivery(by) PROVE EngagementGood'
  <2> DEFINE old == sending[by]
  <2>1. PICK first \in DueOf(old) :
          Sends(by, [stage |-> "sending", job |-> old.job, at |-> old.at, list |-> old.list,
                     left |-> SubSeq(old.left, first + 1, Len(old.left)),
                     member |-> old.left[first], copy |-> Msgs.jobs[old.job]])
    BY <1>11 DEF NextDelivery
  <2> DEFINE run == [stage |-> "sending", job |-> old.job, at |-> old.at, list |-> old.list,
                     left |-> SubSeq(old.left, first + 1, Len(old.left)),
                     member |-> old.left[first], copy |-> Msgs.jobs[old.job]]
  <2>2. /\ run.stage = "sending" /\ run.job = old.job /\ run.list = old.list
        /\ run.member = old.left[first] /\ run.copy = Msgs.jobs[old.job]
    OBVIOUS
  <2>3. old.job \in DOMAIN Msgs.jobs /\ old.list \subseteq DOMAIN Msgs.jobs /\ UNCHANGED <<engagement, accepted>>
    BY <1>11 DEF NextDelivery, Sending, EngagementGood, SendingGood, RunGood
  <2>4. Unsent(Msgs.jobs[old.job], old.left[first])
    BY DEF DueOf, DueDelivery, Unsent
  <2> HIDE DEF run
  <2>5. RunGood(run, DOMAIN Msgs'.jobs, accepted')
    BY <2>2, <2>3, <2>4, MessagesInMemory DEF RunGood, Msgs
  <2>6. SendingGood'
    BY <2>1, <2>3, <2>5, OneRun DEF EngagementGood, Msgs, Sends, run
  <2>7. QED
    BY <2>3, <2>6 DEF EngagementGood, MessagesKept
<1>12. ASSUME NEW by \in Senders, DeliveryAnswered(by) PROVE EngagementGood'
  <2> DEFINE run == sending[by]
             m == run.member
             d == run.copy.deliveries[m]
             after == [stage |-> "saving", job |-> run.job, at |-> run.at, left |-> run.left, list |-> run.list]
  <2>1. /\ run.job \in DOMAIN Msgs.jobs /\ run.list \subseteq DOMAIN Msgs.jobs
        /\ JobGood(run.job, run.copy, accepted) /\ Unsent(run.copy, m)
    BY <1>12 DEF DeliveryAnswered, Sending, EngagementGood, SendingGood, RunGood
  <2>2. accepted \subseteq accepted'
    BY <1>12 DEF DeliveryAnswered
  <2>3. JobGood(run.job, run.copy, accepted')
    BY <2>1, <2>2, TakenGrows
  <2>4. RunGood(after, DOMAIN Msgs.jobs, accepted')
    BY <2>1 DEF RunGood
  <2>5. PICK new : /\ SaveJob(by, run.job, WithDelivery(run.copy, m, new), after)
                   /\ new.status = "failed" \/ (new.status = "delivered" /\ <<run.job, m>> \in accepted')
    <3>1. \A n, t : /\ [status |-> "failed", attempts |-> n, next |-> t].status = "failed"
                    /\ [status |-> "delivered", attempts |-> n, next |-> t].status = "delivered"
      OBVIOUS
    <3>2. CASE /\ accepted' = accepted \cup {<<run.job, m>>}
               /\ SaveJob(by, run.job, WithDelivery(run.copy, m,
                    [status |-> "delivered", attempts |-> d.attempts + 1, next |-> 0]), after)
      BY <3>1, <3>2
    <3>3. CASE SaveJob(by, run.job, WithDelivery(run.copy, m,
                    [status |-> "failed", attempts |-> d.attempts + 1, next |-> now + 1]), after)
      BY <3>1, <3>3
    <3>4. QED
      BY <1>12, <3>2, <3>3 DEF DeliveryAnswered
  <2> HIDE DEF after
  <2>6. JobGood(run.job, WithDelivery(run.copy, m, new), accepted')
    BY <2>1, <2>3, <2>5, DeliveryGood
  <2>7. QED
    BY <2>2, <2>4, <2>5, <2>6, JobSaved
<1>13. ASSUME NEW by \in Senders, JobEnds(by) PROVE EngagementGood'
  <2> DEFINE run == sending[by]
             job == Msgs.jobs[run.job]
             after == [stage |-> "ending", list |-> run.list]
             status == JobStatus(job.deliveries)
  <2>1. /\ run.job \in DOMAIN Msgs.jobs /\ run.list \subseteq DOMAIN Msgs.jobs /\ UNCHANGED accepted
        /\ SaveJob(by, run.job, [job EXCEPT !.status = status], after)
    BY <1>13 DEF JobEnds, Sending, EngagementGood, SendingGood, RunGood
  <2>2. RunGood(after, DOMAIN Msgs.jobs, accepted)
    BY <2>1 DEF RunGood
  <2>3. status = "completed" => \A m \in DOMAIN job.deliveries : job.deliveries[m].status \in {"skipped", "delivered"}
    BY DEF JobStatus
  <2>4. JobGood(run.job, job, accepted)
    BY <2>1, MessagesInMemory
  <2> HIDE DEF after, status, job
  <2>5. JobGood(run.job, [job EXCEPT !.status = status], accepted)
    BY <2>3, <2>4, StatusGood
  <2>6. QED
    BY <2>1, <2>2, <2>5, JobSaved
<1>14. ASSUME NEW by \in Senders, SendReturned(by) PROVE EngagementGood'
  <2> DEFINE old == sending[by]
  <2>1. /\ old.stage \in {"saving", "ending"} /\ UNCHANGED accepted /\ engagement' = Returned(engagement, by)
        /\ old.list \subseteq DOMAIN Msgs.jobs /\ by \in MessageCallers
    BY <1>14 DEF SendReturned, EngagementGood, SendingGood, RunGood, MessageCallers
  <2>2. MessagesKept' /\ Msgs' = Msgs
    BY <1>4, <2>1, ReturnedFacts DEF EngagementGood, MessagesKept
  <2>3. ASSUME NEW run, sending' = [sending EXCEPT ![by] = run], RunGood(run, DOMAIN Msgs.jobs, accepted)
        PROVE  EngagementGood'
    BY <2>1, <2>2, <2>3, OneRun DEF EngagementGood
  <2>4. CASE Sends(by, Quiet)
    BY <2>3, <2>4 DEF Sends, Quiet, RunGood
  <2>5. CASE Sends(by, [stage |-> "pass", list |-> old.list])
    <3>1. RunGood([stage |-> "pass", list |-> old.list], DOMAIN Msgs.jobs, accepted)
      BY <2>1 DEF RunGood
    <3>2. QED
      BY <2>3, <2>5, <3>1 DEF Sends
  <2>6. ASSUME NEW at, old.stage = "saving",
               Sends(by, [stage |-> "next", job |-> old.job, at |-> at, left |-> old.left, list |-> old.list])
        PROVE  EngagementGood'
    <3> DEFINE run == [stage |-> "next", job |-> old.job, at |-> at, left |-> old.left, list |-> old.list]
    <3>1. old.job \in DOMAIN Msgs.jobs
      BY <2>6 DEF EngagementGood, SendingGood, RunGood
    <3>2. run.stage = "next" /\ run.job = old.job /\ run.list = old.list
      OBVIOUS
    <3> HIDE DEF run
    <3>3. RunGood(run, DOMAIN Msgs.jobs, accepted)
      BY <2>1, <3>1, <3>2 DEF RunGood
    <3>4. QED
      BY <2>3, <2>6, <3>3 DEF Sends, run
  <2>7. QED
    <3>1. \/ Sends(by, Quiet) \/ Sends(by, [stage |-> "pass", list |-> old.list])
          \/ /\ old.stage = "saving"
             /\ Sends(by, [stage |-> "next", job |-> old.job, at |-> IF old.at = None THEN now ELSE old.at,
                           left |-> old.left, list |-> old.list])
      BY <1>14 DEF SendReturned
    <3>2. QED
      BY <2>4, <2>5, <2>6, <3>1
<1>15. QED
  BY <1>2, <1>3, <1>5, <1>6, <1>7, <1>9, <1>10, <1>11, <1>12, <1>13, <1>14 DEF EngagementNext, MessageCallers

LEMMA AlwaysEngagementGood == Spec => []EngagementGood
<1>1. EngagementGood /\ [Next]_vars => EngagementGood'
  <2> SUFFICES ASSUME EngagementGood, [Next]_vars PROVE EngagementGood'
    OBVIOUS
  <2>1. CASE UNCHANGED engagementVars
    BY <2>1 DEF engagementVars, EngagementGood, MessagesKept, SendingGood, Msgs
  <2>2. CASE Messaging
    BY <2>1, <2>2, EngagementStep DEF Messaging
  <2>3. CASE Crash
    <3>1. /\ engagement' = Reloaded(engagement) /\ UNCHANGED accepted
          /\ sending' = [by \in Senders |-> Quiet]
      BY <2>3 DEF Crash, EngagementBoot
    <3>2. MessagesKept'
      BY <3>1, ReloadedFacts, MessagesStay DEF EngagementGood, MessagesKept
    <3>3. QED
      BY <3>1, <3>2 DEF EngagementGood, SendingGood, RunGood, Quiet
  <2>4. QED
    BY <2>1, <2>2, <2>3 DEF Next, vars, restingVars, Requesting, Publishing, Managing, Campaigning, Importing,
                            Administering, Serving
<1>2. QED
  BY <1>1, EngagementGoodInit, PTL DEF Spec, IdleSpec

(* Overlapping runs, lost answers, refused saves and stops: a job that     *)
(* reads completed, in memory or in the store, has had every message that  *)
(* was not skipped taken by the provider (engagement.ts).                  *)
THEOREM CompletedMeansDelivered == Spec => []CompletedDelivered
<1>1. EngagementGood => CompletedDelivered
  BY DEF EngagementGood, MessagesKept, MessagesGood, JobGood, Told, States, CompletedDelivered, Msgs
<1>2. QED
  BY <1>1, AlwaysEngagementGood, PTL

-------------------------------------------------------------------------------
(* Campaigns.  A run that waits for its commit holds the lock, and issues  *)
(* what the stored engine has not; between its commit and its record,      *)
(* nobody else has reported or will report what it issued.                 *)

Listed(s) == s \in Seq({s[n] : n \in DOMAIN s})
Given(issued, c, m) == \E i \in issued : i.campaign = c /\ i.member = m
Reports(runs, n, c, m) == runs[n].campaign = c /\ m \in runs[n].issued
Once(runs) == \A n, k \in DOMAIN runs : \A c, m : Reports(runs, n, c, m) /\ Reports(runs, k, c, m) => n = k
Backed(runs, issued) == \A n \in DOMAIN runs : \A c, m : Reports(runs, n, c, m) => Given(issued, c, m)
ReportsGood(s, issued) ==
  /\ s = [segments |-> s.segments, campaigns |-> s.campaigns, runs |-> s.runs]
  /\ Listed(s.runs) /\ Once(s.runs) /\ Backed(s.runs, issued)
CampaignsKept ==
  DocShape(campaigns, CampaignCallers) /\ \A s \in States(campaigns) : ReportsGood(s, engine.row.issued)

Issues(call, c, m) == call.campaign = c /\ m \in call.issued
RunShape(call) ==
  call.stage \in {"committing", "committed"} =>
    call = [stage |-> call.stage, campaign |-> call.campaign, issued |-> call.issued, pass |-> call.pass]
Unstored(by, call, e) ==
  call.stage = "committing" =>
    /\ e.lock = <<by, Main>>
    /\ \A c, m : Issues(call, c, m) => Given(e.memory[Main].issued, c, m) /\ ~Given(e.row.issued, c, m)
Unreported(call, runs, e) ==
  call.stage = "committed" =>
    \A c, m : Issues(call, c, m) => Given(e.row.issued, c, m) /\ \A n \in DOMAIN runs : ~Reports(runs, n, c, m)
Apart(x, y) == x.stage = "committed" /\ y.stage = "committed" => \A c, m : ~(Issues(x, c, m) /\ Issues(y, c, m))
RunningGood ==
  /\ running = [by \in Runners |-> running[by]]
  /\ \A by \in Runners : /\ RunShape(running[by]) /\ Unstored(by, running[by], engine)
                         /\ Unreported(running[by], Doc.runs, engine)
  /\ \A by, other \in Runners : by # other => Apart(running[by], running[other])
CampaignsGood ==
  /\ CampaignsKept /\ RunningGood
  /\ turn \notin {"campaigns", "publishing"} => \A by \in Runners : running[by] = NotRunning

LEMMA CampaignsGoodInit == Init => CampaignsGood
<1> SUFFICES ASSUME Init PROVE CampaignsGood
  OBVIOUS
<1> DEFINE segments == [s \in Segments |-> Dynamic]
           first == [segments |-> segments, campaigns |-> << >>, runs |-> << >>]
<1>1. campaigns = NewDocument(first, CampaignCallers) /\ running = [by \in Runners |-> NotRunning]
  BY DEF Init, CampaignInit
<1> HIDE DEF segments
<1>2. first = [segments |-> first.segments, campaigns |-> first.campaigns, runs |-> first.runs] /\ first.runs = << >>
  OBVIOUS
<1> HIDE DEF first
<1>3. Listed(first.runs) /\ DOMAIN first.runs = {}
  BY <1>2 DEF Listed
<1>4. ReportsGood(first, engine.row.issued)
  BY <1>2, <1>3 DEF ReportsGood, Once, Backed
<1>5. CampaignsKept
  BY <1>1, <1>4, NewDocumentFacts DEF CampaignsKept
<1>6. QED
  BY <1>1, <1>5 DEF CampaignsGood, RunningGood, RunShape, Unstored, Unreported, Apart, NotRunning

(* What was issued stays so. *)
LEMMA ReportsGrow ==
  ASSUME NEW s, NEW issued, NEW more, issued \subseteq more, ReportsGood(s, issued)
  PROVE  ReportsGood(s, more)
BY DEF ReportsGood, Backed, Given

LEMMA CampaignsStay ==
  ASSUME CampaignsKept, Grown(engine.row, engine'.row), DocShape(campaigns', CampaignCallers),
         \A s \in States(campaigns') : s \in States(campaigns) \/ ReportsGood(s, engine'.row.issued)
  PROVE  CampaignsKept'
<1>1. \A s \in States(campaigns') : ReportsGood(s, engine'.row.issued)
  BY ReportsGrow DEF CampaignsKept, Grown
<1>2. QED
  BY <1>1 DEF CampaignsKept

(* The record of a run that nobody has reported. *)
LEMMA AppendReport ==
  ASSUME NEW runs, Listed(runs), Once(runs), NEW issued, Backed(runs, issued), NEW x,
         \A c, m : x.campaign = c /\ m \in x.issued =>
                     Given(issued, c, m) /\ \A n \in DOMAIN runs : ~Reports(runs, n, c, m)
  PROVE  /\ Listed(Append(runs, x)) /\ Once(Append(runs, x)) /\ Backed(Append(runs, x), issued)
         /\ \A n \in DOMAIN Append(runs, x) : \A c, m :
              Reports(Append(runs, x), n, c, m) => \/ n \in DOMAIN runs /\ Reports(runs, n, c, m)
                                                   \/ x.campaign = c /\ m \in x.issued
<1> DEFINE more == Append(runs, x)
           S == {runs[n] : n \in DOMAIN runs} \cup {x}
<1>1. runs \in Seq(S) /\ x \in S /\ Len(runs) \in Nat /\ DOMAIN runs = 1..Len(runs)
  BY DEF Listed
<1>2. /\ more \in Seq(S) /\ Len(more) = Len(runs) + 1 /\ DOMAIN more = 1..(Len(runs) + 1)
      /\ \A n \in DOMAIN runs : more[n] = runs[n]
      /\ more[Len(runs) + 1] = x
  BY <1>1
<1> HIDE DEF S, more
<1>3. Listed(more)
  <2>1. \A n \in 1..Len(more) : more[n] \in {more[k] : k \in DOMAIN more}
    BY <1>1, <1>2
  <2>2. more \in Seq({more[k] : k \in DOMAIN more})
    BY <1>1, <1>2, <2>1
  <2>3. QED
    BY <2>2 DEF Listed
<1>4. \A n \in DOMAIN more : n \in DOMAIN runs \/ n = Len(runs) + 1
  BY <1>1, <1>2
<1>5. \A n \in DOMAIN more : \A c, m :
        Reports(more, n, c, m) => \/ n \in DOMAIN runs /\ Reports(runs, n, c, m)
                                  \/ n = Len(runs) + 1 /\ x.campaign = c /\ m \in x.issued
  BY <1>2, <1>4 DEF Reports
<1>6. Once(more)
  BY <1>5 DEF Once
<1>7. Backed(more, issued)
  BY <1>5 DEF Backed
<1>8. QED
  BY <1>3, <1>5, <1>6, <1>7 DEF more

LEMMA OneRunner ==
  ASSUME RunningGood, NEW by \in Runners, NEW call, running' = [running EXCEPT ![by] = call],
         RunShape(call), Unstored(by, call, engine'), Unreported(call, Doc'.runs, engine'),
         \A b \in Runners \ {by} : /\ running[b].stage = "committing" => UNCHANGED engine
                                   /\ Unreported(running[b], Doc'.runs, engine')
                                   /\ Apart(call, running[b])
  PROVE  RunningGood'
<1>1. /\ \A b \in Runners : running'[b] = IF b = by THEN call ELSE running[b]
      /\ running' = [b \in Runners |-> running'[b]]
  BY DEF RunningGood
<1>2. ASSUME NEW b \in Runners
      PROVE  /\ RunShape(running'[b]) /\ Unstored(b, running'[b], engine')
             /\ Unreported(running'[b], Doc'.runs, engine')
  <2>1. CASE b = by
    BY <1>1, <2>1
  <2>2. CASE b # by
    BY <1>1, <2>2 DEF RunningGood, Unstored
  <2>3. QED
    BY <2>1, <2>2
<1>3. ASSUME NEW b \in Runners, NEW d \in Runners, b # d PROVE Apart(running'[b], running'[d])
  <2>1. \A x, y : Apart(x, y) => Apart(y, x)
    BY DEF Apart
  <2>2. QED
    BY <1>1, <1>3, <2>1 DEF RunningGood
<1>4. QED
  BY <1>1, <1>2, <1>3 DEF RunningGood

(* While the rows grow and the reports stay, so does what waits for them.  *)
LEMMA StillUnreported ==
  ASSUME RunningGood, Grown(engine.row, engine'.row), Doc'.runs = Doc.runs
  PROVE  \A by \in Runners : Unreported(running[by], Doc'.runs, engine')
BY DEF RunningGood, Unreported, Grown, Given

LEMMA QuietRunner ==
  ASSUME RunningGood, NEW by \in Runners, NEW call, running' = [running EXCEPT ![by] = call],
         call.stage \notin {"committing", "committed"}, Grown(engine.row, engine'.row), Doc'.runs = Doc.runs,
         \A b \in Runners \ {by} : running[b].stage = "committing" => UNCHANGED engine
  PROVE  RunningGood'
<1>1. RunShape(call) /\ Unstored(by, call, engine') /\ Unreported(call, Doc'.runs, engine')
  BY DEF RunShape, Unstored, Unreported
<1>2. \A b \in Runners : Apart(call, running[b]) /\ Unreported(running[b], Doc'.runs, engine')
  BY StillUnreported DEF Apart
<1>3. QED
  BY <1>1, <1>2, OneRunner

LEMMA RunnersStay ==
  ASSUME RunningGood, UNCHANGED running, Grown(engine.row, engine'.row), Doc'.runs = Doc.runs,
         \A b \in Runners : running[b].stage = "committing" => UNCHANGED engine
  PROVE  RunningGood'
<1>1. \A by \in Runners : Unreported(running[by], Doc'.runs, engine')
  BY StillUnreported
<1>2. \A by \in Runners : Unstored(by, running[by], engine')
  BY DEF RunningGood, Unstored
<1>3. QED
  BY <1>1, <1>2 DEF RunningGood

LEMMA LockedRuns ==
  ASSUME RunningGood
  PROVE  /\ Free => \A b \in Runners : running[b].stage # "committing"
         /\ \A c : engine.lock = <<c, Main>> => \A b \in Runners : running[b].stage = "committing" => b = c
<1>1. \A b \in Runners : running[b].stage = "committing" => engine.lock = <<b, Main>>
  BY DEF RunningGood, Unstored
<1>2. \A b \in Runners : <<b, Main>> # None
  BY LockAssumption, MainIsInstance DEF LockCallers
<1>3. \A b, c : <<b, Main>> = <<c, Main>> => b = c
  OBVIOUS
<1>4. QED
  BY <1>1, <1>2, <1>3 DEF Free

LEMMA CampaignsChanged ==
  ASSUME CampaignsKept, NEW c \in CampaignCallers, NEW new, campaigns' = Changed(campaigns, c, new),
         Grown(engine.row, engine'.row), ReportsGood(new, engine'.row.issued)
  PROVE  CampaignsKept' /\ Doc' = new
<1>1. /\ DocShape(campaigns', CampaignCallers) /\ States(campaigns') \subseteq States(campaigns) \cup {new}
      /\ campaigns'.memory = new
  BY ChangedFacts DEF CampaignsKept
<1>2. QED
  BY <1>1, CampaignsStay DEF Doc

LEMMA DocGood == CampaignsKept => ReportsGood(Doc, engine.row.issued)
BY DEF CampaignsKept, States, Doc

(* A change of segments or campaigns leaves the reports alone. *)
LEMMA SameRuns ==
  ASSUME CampaignsKept
  PROVE  /\ \A x : LET new == [Doc EXCEPT !.segments = x]
                   IN  ReportsGood(new, engine.row.issued) /\ new.runs = Doc.runs
         /\ \A x : LET new == [Doc EXCEPT !.campaigns = x]
                   IN  ReportsGood(new, engine.row.issued) /\ new.runs = Doc.runs
         /\ \A c, x : LET new == [Doc EXCEPT !.campaigns[c].status = x]
                      IN  ReportsGood(new, engine.row.issued) /\ new.runs = Doc.runs
<1>1. ReportsGood(Doc, engine.row.issued)
  BY DocGood
<1>2. ASSUME NEW x
      PROVE  /\ LET new == [Doc EXCEPT !.segments = x]
                IN  /\ new = [segments |-> new.segments, campaigns |-> new.campaigns, runs |-> new.runs]
                    /\ new.runs = Doc.runs
             /\ LET new == [Doc EXCEPT !.campaigns = x]
                IN  /\ new = [segments |-> new.segments, campaigns |-> new.campaigns, runs |-> new.runs]
                    /\ new.runs = Doc.runs
  BY <1>1 DEF ReportsGood
<1>3. ASSUME NEW c, NEW x
      PROVE  LET new == [Doc EXCEPT !.campaigns[c].status = x]
             IN  /\ new = [segments |-> new.segments, campaigns |-> new.campaigns, runs |-> new.runs]
                 /\ new.runs = Doc.runs
  BY <1>1 DEF ReportsGood
<1>4. \A new : /\ new = [segments |-> new.segments, campaigns |-> new.campaigns, runs |-> new.runs]
               /\ new.runs = Doc.runs
               => ReportsGood(new, engine.row.issued)
  BY <1>1 DEF ReportsGood
<1>5. QED
  BY <1>2, <1>3, <1>4

(* A change of the document that leaves the engine and the reports alone.  *)
LEMMA EditGood ==
  ASSUME CampaignsGood, NEW c \in CampaignCallers, NEW new, campaigns' = Changed(campaigns, c, new),
         ReportsGood(new, engine.row.issued), new.runs = Doc.runs, UNCHANGED engine
  PROVE  CampaignsKept' /\ Doc'.runs = Doc.runs /\ Grown(engine.row, engine'.row)
<1>1. Grown(engine.row, engine'.row)
  BY DEF Grown
<1>2. QED
  BY <1>1, CampaignsChanged DEF CampaignsGood

LEMMA AuthorGood ==
  ASSUME CampaignsGood,
         \/ UpsertSegment \/ DeleteSegment \/ DeleteCampaign \/ SetCampaignStatus \/ EditReturned
         \/ \E windows : UpsertCampaign(windows)
         \/ \E c \in CampaignCallers : CampaignSaveStored(c)
  PROVE  CampaignsKept' /\ RunningGood'
<1>1. CampaignsKept /\ RunningGood
  BY DEF CampaignsGood
<1>2. ASSUME UNCHANGED <<running, engine>>, CampaignsKept', Doc'.runs = Doc.runs PROVE RunningGood'
  BY <1>1, <1>2, RunnersStay DEF Grown
<1>3. ASSUME NEW new, Edit(new), ReportsGood(new, engine.row.issued), new.runs = Doc.runs
      PROVE  CampaignsKept' /\ RunningGood'
  <2>1. /\ Author \in CampaignCallers /\ UNCHANGED <<running, engine>>
        /\ campaigns' = Changed(campaigns, Author, new)
    BY <1>3 DEF Edit, platformVars, CampaignCallers
  <2>2. QED
    BY <1>2, <1>3, <2>1, EditGood
<1>4. CASE UpsertSegment \/ DeleteSegment
  <2>1. \E x : Edit([Doc EXCEPT !.segments = x])
    BY <1>4 DEF UpsertSegment, DeleteSegment
  <2>2. QED
    BY <1>1, <1>3, <2>1, SameRuns
<1>5. ASSUME DeleteCampaign \/ \E windows : UpsertCampaign(windows) PROVE CampaignsKept' /\ RunningGood'
  <2>1. \E x : Edit([Doc EXCEPT !.campaigns = x])
    BY <1>5 DEF DeleteCampaign, UpsertCampaign
  <2>2. QED
    BY <1>1, <1>3, <2>1, SameRuns
<1>6. CASE SetCampaignStatus
  <2>1. \E c, x : Edit([Doc EXCEPT !.campaigns[c].status = x])
    BY <1>6 DEF SetCampaignStatus
  <2>2. QED
    BY <1>1, <1>3, <2>1, SameRuns
<1>7. ASSUME DocShape(campaigns', CampaignCallers), States(campaigns') \subseteq States(campaigns),
             campaigns'.memory = campaigns.memory, UNCHANGED <<running, engine>>
      PROVE  CampaignsKept' /\ RunningGood'
  <2>1. CampaignsKept' /\ Doc' = Doc
    BY <1>1, <1>7, CampaignsStay DEF Doc, Grown
  <2>2. QED
    BY <1>2, <1>7, <2>1
<1>8. CASE EditReturned
  <2>1. /\ Author \in CampaignCallers /\ UNCHANGED <<running, engine>>
        /\ campaigns' = Returned(campaigns, Author)
    BY <1>8 DEF EditReturned, platformVars, CampaignCallers
  <2>2. QED
    BY <1>1, <1>7, <2>1, ReturnedFacts DEF CampaignsKept
<1>9. ASSUME NEW c \in CampaignCallers, CampaignSaveStored(c) PROVE CampaignsKept' /\ RunningGood'
  <2>1. /\ UNCHANGED <<running, engine>> /\ Sent(campaigns, c)
        /\ campaigns' = Stored(campaigns, c) \/ campaigns' = Refused(campaigns, c)
    BY <1>9 DEF CampaignSaveStored, platformVars
  <2>2. QED
    BY <1>1, <1>7, <2>1, StoredFacts, RefusedFacts DEF CampaignsKept
<1>10. QED
  BY <1>4, <1>5, <1>6, <1>8, <1>9

(* The operator and the scheduler start runs. *)
LEMMA StartsGood ==
  ASSUME CampaignsGood, RunCampaign \/ SchedulerStarts \/ SchedulerNext
  PROVE  CampaignsKept' /\ RunningGood'
<1>1. CampaignsKept /\ RunningGood /\ Runners \subseteq CampaignCallers
  BY DEF CampaignsGood, CampaignCallers
<1>2. UNCHANGED engine /\ Grown(engine.row, engine'.row)
  BY DEF RunCampaign, SchedulerStarts, SchedulerNext, platformVars, Grown
<1>3. ASSUME NEW by \in Runners, NEW call, Runs(by, call), call.stage \notin {"committing", "committed"},
             Doc'.runs = Doc.runs
      PROVE  RunningGood'
  BY <1>1, <1>2, <1>3, QuietRunner DEF Runs
<1>4. UNCHANGED campaigns => CampaignsKept' /\ Doc'.runs = Doc.runs
  BY <1>1, <1>2 DEF CampaignsKept, Doc
<1>5. ASSUME NEW by \in Runners, NEW c, NEW pass, RunStarts(by, c, pass)
      PROVE  CampaignsKept' /\ RunningGood'
  <2>1. CASE /\ campaigns' = Changed(campaigns, by, [Doc EXCEPT !.campaigns[c].status = "expired"])
             /\ Runs(by, [stage |-> "ending"])
    <3>1. CampaignsKept' /\ Doc'.runs = Doc.runs
      BY <1>1, <1>2, <2>1, EditGood, SameRuns
    <3>2. QED
      BY <1>3, <2>1, <3>1
  <2>2. CASE /\ Runs(by, [stage |-> "queued", campaign |-> c, reward |-> Doc.campaigns[c].reward,
                          segment |-> Doc.segments[Doc.campaigns[c].segment], pass |-> pass])
             /\ UNCHANGED campaigns
    <3> DEFINE call == [stage |-> "queued", campaign |-> c, reward |-> Doc.campaigns[c].reward,
                        segment |-> Doc.segments[Doc.campaigns[c].segment], pass |-> pass]
    <3>1. call.stage = "queued"
      OBVIOUS
    <3> HIDE DEF call
    <3>2. QED
      BY <1>3, <1>4, <2>2, <3>1 DEF call
  <2>3. QED
    BY <1>5, <2>1, <2>2 DEF RunStarts
<1>6. CASE RunCampaign
  BY <1>5, <1>6 DEF RunCampaign, Runners
<1>7. \A pass : [stage |-> "next", pass |-> pass].stage = "next"
  OBVIOUS
<1>8. CASE SchedulerStarts
  <2>1. \E pass : Runs(Scheduler, [stage |-> "next", pass |-> pass]) /\ UNCHANGED campaigns
    BY <1>8 DEF SchedulerStarts
  <2>2. QED
    BY <1>3, <1>4, <1>7, <2>1 DEF Runners
<1>9. CASE SchedulerNext
  <2>1. CASE \E c, pass : RunStarts(Scheduler, c, pass)
    BY <1>5, <2>1 DEF Runners
  <2>2. ASSUME NEW pass, Runs(Scheduler, [stage |-> "next", pass |-> pass]), UNCHANGED campaigns
        PROVE  CampaignsKept' /\ RunningGood'
    BY <1>3, <1>4, <1>7, <2>2 DEF Runners
  <2>3. ASSUME NEW c, NEW pass, Runs(Scheduler, [stage |-> "next", pass |-> pass]),
               campaigns' = [campaigns EXCEPT !.memory.campaigns[c].status = "expired"]
        PROVE  CampaignsKept' /\ RunningGood'
    <3> DEFINE new == [Doc EXCEPT !.campaigns[c].status = "expired"]
    <3>1. ReportsGood(new, engine.row.issued) /\ new.runs = Doc.runs
      BY <1>1, SameRuns
    <3>2. campaigns' = [memory |-> new, row |-> campaigns.row, current |-> campaigns.current,
                        saves |-> campaigns.saves]
      <4>1. campaigns = [memory |-> campaigns.memory, row |-> campaigns.row, current |-> campaigns.current,
                         saves |-> campaigns.saves]
        BY <1>1 DEF CampaignsKept, DocShape
      <4>2. QED
        BY <2>3, <4>1 DEF Doc
    <3> HIDE DEF new
    <3>3. /\ campaigns'.memory = new /\ campaigns'.row = campaigns.row /\ campaigns'.saves = campaigns.saves
          /\ campaigns' = [memory |-> campaigns'.memory, row |-> campaigns'.row, current |-> campaigns'.current,
                           saves |-> campaigns'.saves]
      BY <3>2
    <3>4. DocShape(campaigns', CampaignCallers) /\ States(campaigns') \subseteq States(campaigns) \cup {new}
      BY <1>1, <3>3 DEF CampaignsKept, DocShape, States
    <3>5. CampaignsKept'
      BY <1>1, <1>2, <3>1, <3>4, CampaignsStay
    <3>6. Doc'.runs = Doc.runs
      BY <3>1, <3>3 DEF Doc
    <3>7. QED
      BY <1>3, <1>7, <2>3, <3>5, <3>6 DEF Runners
  <2>4. CASE campaigns' = Changed(campaigns, Scheduler, Doc) /\ Runs(Scheduler, [stage |-> "ending"])
    <3>1. CampaignsKept' /\ Doc'.runs = Doc.runs
      BY <1>1, <1>2, <2>4, EditGood, DocGood DEF Runners
    <3>2. QED
      BY <1>3, <2>4, <3>1 DEF Runners
  <2>5. QED
    BY <1>9, <2>1, <2>2, <2>3, <2>4 DEF SchedulerNext
<1>10. QED
  BY <1>6, <1>8, <1>9

(* A run issues, commits or is rolled back, is recorded and returns. *)
LEMMA IssueGood ==
  ASSUME CampaignsGood, EngineGood, NEW by \in Runners, IssueRewards(by)
  PROVE  CampaignsKept' /\ RunningGood'
<1> DEFINE old == running[by]
           x == {[campaign |-> old.campaign, member |-> m, reward |-> old.reward] : m \in IssuedBy(old)}
           new == [engine.row EXCEPT !.issued = engine.row.issued \cup x]
           call == [stage |-> "committing", campaign |-> old.campaign, issued |-> IssuedBy(old), pass |-> old.pass]
<1>1. CampaignsKept /\ RunningGood /\ by \in LockCallers
  BY DEF CampaignsGood, LockCallers
<1>2. Begins(by, Main, new) /\ running' = [running EXCEPT ![by] = call] /\ UNCHANGED campaigns
  BY DEF IssueRewards, Loaded, Runs
<1>3. StateShape(new) /\ Grown(engine.row, new) /\ new.issued = engine.row.issued \cup x
  BY ChangesGrow
<1> HIDE DEF new
<1>4. Free /\ engine'.row = engine.row /\ engine'.lock = <<by, Main>> /\ engine'.memory[Main] = new
  BY <1>1, <1>2, <1>3, BeginsFacts, MainIsInstance
<1>5. /\ call.stage = "committing" /\ call.campaign = old.campaign /\ call.issued = IssuedBy(old)
      /\ call = [stage |-> call.stage, campaign |-> call.campaign, issued |-> call.issued, pass |-> call.pass]
  OBVIOUS
<1> HIDE DEF call
<1>6. \A c, m : Issues(call, c, m) => Given(engine'.memory[Main].issued, c, m) /\ ~Given(engine'.row.issued, c, m)
  <2> SUFFICES ASSUME NEW c, NEW m, Issues(call, c, m)
               PROVE  Given(new.issued, c, m) /\ ~Given(engine.row.issued, c, m)
    BY <1>4
  <2>1. c = old.campaign /\ m \in IssuedBy(old)
    BY <1>5 DEF Issues
  <2>2. ~Given(engine.row.issued, c, m)
    BY <2>1 DEF IssuedBy, AlreadyIssued, Loaded, Given
  <2> DEFINE i == [campaign |-> old.campaign, member |-> m, reward |-> old.reward]
  <2>3. i.campaign = c /\ i.member = m /\ i \in x
    BY <2>1
  <2>4. QED
    BY <1>3, <2>2, <2>3 DEF Given
<1>7. RunShape(call) /\ Unstored(by, call, engine') /\ Unreported(call, Doc'.runs, engine')
  BY <1>4, <1>5, <1>6 DEF RunShape, Unstored, Unreported
<1>8. Grown(engine.row, engine'.row) /\ Doc'.runs = Doc.runs
  BY <1>2, <1>4 DEF Grown, Doc
<1>9. \A b \in Runners : /\ running[b].stage # "committing" /\ Apart(call, running[b])
                         /\ Unreported(running[b], Doc'.runs, engine')
  BY <1>1, <1>4, <1>5, <1>8, LockedRuns, StillUnreported DEF Apart
<1>10. RunningGood'
  BY <1>1, <1>2, <1>7, <1>9, OneRunner
<1>11. CampaignsKept'
  BY <1>1, <1>2, <1>4 DEF CampaignsKept
<1>12. QED
  BY <1>10, <1>11

LEMMA CommitGood ==
  ASSUME CampaignsGood, EngineGood, NEW by \in Runners, RunCommitted(by) \/ RunRolledBack(by)
  PROVE  CampaignsKept' /\ RunningGood'
<1> DEFINE old == running[by]
           call == [old EXCEPT !.stage = "committed"]
<1>1. /\ CampaignsKept /\ RunningGood /\ by \in LockCallers /\ old.stage = "committing"
      /\ UNCHANGED campaigns /\ Doc'.runs = Doc.runs
  BY DEF CampaignsGood, LockCallers, RunCommitted, RunRolledBack, At, Doc
<1>2. /\ engine.lock = <<by, Main>>
      /\ old = [stage |-> old.stage, campaign |-> old.campaign, issued |-> old.issued, pass |-> old.pass]
      /\ \A c, m : Issues(old, c, m) => Given(engine.memory[Main].issued, c, m) /\ ~Given(engine.row.issued, c, m)
  BY <1>1 DEF RunningGood, RunShape, Unstored
<1>3. \A b \in Runners \ {by} : running[b].stage # "committing"
  BY <1>1, <1>2, LockedRuns
<1>4. CASE RunRolledBack(by)
  <2>1. engine'.row = engine.row /\ running' = [running EXCEPT ![by] = NotRunning]
    BY <1>4, RollsBackFacts DEF RunRolledBack, Runs
  <2>2. RunningGood'
    BY <1>1, <1>3, <2>1, QuietRunner DEF NotRunning, Grown
  <2>3. QED
    BY <1>1, <2>1, <2>2 DEF CampaignsKept
<1>5. CASE RunCommitted(by)
  <2>1. /\ engine'.row = engine.memory[Main] /\ Grown(engine.row, engine'.row)
        /\ running' = [running EXCEPT ![by] = call]
    BY <1>1, <1>5, CommitsFacts, MainIsInstance DEF RunCommitted, Runs
  <2>2. /\ call.stage = "committed" /\ call.campaign = old.campaign /\ call.issued = old.issued
        /\ call = [stage |-> call.stage, campaign |-> call.campaign, issued |-> call.issued, pass |-> call.pass]
    BY <1>2
  <2> HIDE DEF call
  <2>3. \A c, m : Issues(call, c, m) => Given(engine'.row.issued, c, m) /\ ~Given(engine.row.issued, c, m)
    BY <1>2, <2>1, <2>2 DEF Issues
  <2>4. Unreported(call, Doc'.runs, engine')
    BY <1>1, <2>3, DocGood DEF Unreported, ReportsGood, Backed
  <2>5. ASSUME NEW b \in Runners, b # by PROVE Apart(call, running[b])
    BY <1>1, <2>3 DEF Apart, RunningGood, Unreported
  <2>6. RunShape(call) /\ Unstored(by, call, engine')
    BY <2>2 DEF RunShape, Unstored
  <2>7. \A b \in Runners : Unreported(running[b], Doc'.runs, engine')
    BY <1>1, <2>1, StillUnreported
  <2>8. RunningGood'
    BY <1>1, <1>3, <2>1, <2>4, <2>5, <2>6, <2>7, OneRunner
  <2>9. CampaignsKept'
    BY <1>1, <2>1, CampaignsStay DEF CampaignsKept
  <2>10. QED
    BY <2>8, <2>9
<1>6. QED
  BY <1>4, <1>5

LEMMA RecordGood ==
  ASSUME CampaignsGood, NEW by \in Runners, RunRecorded(by)
  PROVE  CampaignsKept' /\ RunningGood'
<1> DEFINE old == running[by]
           x == [campaign |-> old.campaign, issued |-> old.issued]
           runs == Append(Doc.runs, x)
           new == [segments |-> Doc.segments, campaigns |-> Completed(old.campaign), runs |-> runs]
           call == [stage |-> "saving", pass |-> old.pass]
<1>1. /\ CampaignsKept /\ RunningGood /\ by \in CampaignCallers /\ old.stage = "committed" /\ UNCHANGED engine
      /\ Grown(engine.row, engine'.row)
  BY DEF CampaignsGood, CampaignCallers, RunRecorded, At, platformVars, Grown
<1>2. campaigns' = Changed(campaigns, by, new) /\ running' = [running EXCEPT ![by] = call]
  BY DEF RunRecorded, Runs
<1>3. x.campaign = old.campaign /\ x.issued = old.issued /\ call.stage = "saving"
  OBVIOUS
<1>4. \A c, m : x.campaign = c /\ m \in x.issued =>
                  Given(engine.row.issued, c, m) /\ \A n \in DOMAIN Doc.runs : ~Reports(Doc.runs, n, c, m)
  BY <1>1, <1>3 DEF RunningGood, Unreported, Issues
<1> HIDE DEF x, call
<1>5. ReportsGood(Doc, engine.row.issued)
  BY <1>1, DocGood
<1>6. /\ Listed(runs) /\ Once(runs) /\ Backed(runs, engine.row.issued)
      /\ \A n \in DOMAIN runs : \A c, m :
           Reports(runs, n, c, m) => \/ n \in DOMAIN Doc.runs /\ Reports(Doc.runs, n, c, m)
                                     \/ x.campaign = c /\ m \in x.issued
  BY <1>4, <1>5, AppendReport DEF ReportsGood
<1> HIDE DEF runs
<1>8. new.runs = runs /\ new = [segments |-> new.segments, campaigns |-> new.campaigns, runs |-> new.runs]
  OBVIOUS
<1> HIDE DEF new
<1>9. ReportsGood(new, engine'.row.issued)
  BY <1>1, <1>6, <1>8 DEF ReportsGood
<1>10. CampaignsKept' /\ Doc' = new
  BY <1>1, <1>2, <1>9, CampaignsChanged
<1>11. RunShape(call) /\ Unstored(by, call, engine') /\ Unreported(call, Doc'.runs, engine')
  BY <1>3 DEF RunShape, Unstored, Unreported
<1>12. ASSUME NEW b \in Runners, b # by PROVE Unreported(running[b], Doc'.runs, engine') /\ Apart(call, running[b])
  <2>1. Apart(call, running[b]) /\ Unreported(running[b], Doc.runs, engine) /\ Apart(old, running[b])
    BY <1>1, <1>3, <1>12 DEF Apart, RunningGood
  <2>2. QED
    BY <1>1, <1>3, <1>6, <1>8, <1>10, <2>1 DEF Unreported, Apart, Issues
<1>13. QED
  BY <1>1, <1>2, <1>10, <1>11, <1>12, OneRunner

LEMMA ReturnGood ==
  ASSUME CampaignsGood, NEW by \in Runners, RunReturned(by)
  PROVE  CampaignsKept' /\ RunningGood'
<1>1. /\ CampaignsKept /\ RunningGood /\ by \in CampaignCallers /\ UNCHANGED engine
      /\ Grown(engine.row, engine'.row) /\ campaigns' = Returned(campaigns, by)
  BY DEF CampaignsGood, CampaignCallers, RunReturned, platformVars, Grown
<1>2. CampaignsKept' /\ Doc' = Doc
  BY <1>1, ReturnedFacts, CampaignsStay DEF CampaignsKept, Doc
<1>3. PICK call : running' = [running EXCEPT ![by] = call] /\ call.stage \in {"next", "idle"}
  <2>1. \A pass : [stage |-> "next", pass |-> pass].stage = "next"
    OBVIOUS
  <2>2. NotRunning.stage = "idle"
    BY DEF NotRunning
  <2>3. \/ \E pass : Runs(by, [stage |-> "next", pass |-> pass])
        \/ Runs(by, NotRunning)
    BY DEF RunReturned
  <2>4. QED
    BY <2>1, <2>2, <2>3 DEF Runs
<1>4. QED
  BY <1>1, <1>2, <1>3, QuietRunner

LEMMA CampaignsStep ==
  ASSUME CampaignsGood, EngineGood, CampaignNext \/ RewardUse
  PROVE  CampaignsKept' /\ RunningGood'
<1>1. CASE \E by \in Runners : RunStep(by)
  BY <1>1, IssueGood, CommitGood, RecordGood, ReturnGood DEF RunStep
<1>2. CASE RunCampaign \/ SchedulerStarts \/ SchedulerNext
  BY <1>2, StartsGood
<1>3. CASE \/ UpsertSegment \/ DeleteSegment \/ DeleteCampaign \/ SetCampaignStatus \/ EditReturned
           \/ \E windows : UpsertCampaign(windows)
           \/ \E c \in CampaignCallers : CampaignSaveStored(c)
  BY <1>3, AuthorGood
<1>4. QED
  BY <1>1, <1>2, <1>3 DEF CampaignNext, RewardUse, Runners, CampaignCallers

LEMMA CampaignsGoodStep == CampaignsGood /\ RequestShape /\ EngineGood /\ [Next]_vars => CampaignsGood'
<1> SUFFICES ASSUME CampaignsGood, RequestShape, EngineGood, [Next]_vars PROVE CampaignsGood'
  OBVIOUS
<1>1. Grown(engine.row, engine'.row) /\ CampaignsKept /\ RunningGood
  BY EngineStep DEF EngineMoved, CampaignsGood
<1>2. ASSUME UNCHANGED <<campaignVars, turn>>,
             \A by \in Runners : running[by].stage = "committing" => UNCHANGED engine
      PROVE  CampaignsGood'
  <2>1. UNCHANGED <<campaigns, running>> /\ Doc'.runs = Doc.runs
    BY <1>2 DEF campaignVars, Doc
  <2>2. CampaignsKept'
    BY <1>1, <2>1, CampaignsStay DEF CampaignsKept
  <2>3. RunningGood'
    BY <1>1, <1>2, <2>1, RunnersStay
  <2>4. QED
    BY <1>2, <2>1, <2>2, <2>3 DEF CampaignsGood
<1>3. CASE UNCHANGED <<campaignVars, turn>> /\ turn \notin {"campaigns", "publishing"}
  <2>1. \A by \in Runners : running[by].stage # "committing"
    BY <1>3 DEF CampaignsGood, NotRunning
  <2>2. QED
    BY <1>2, <1>3, <2>1
<1>4. CASE UNCHANGED <<campaignVars, engine, turn>>
  BY <1>2, <1>4
<1>5. CASE Campaigning
  <2>1. turn' = turn /\ turn = "campaigns"
    BY <1>5 DEF Campaigning
  <2>2. CASE CampaignNext
    BY <2>1, <2>2, CampaignsStep DEF CampaignsGood
  <2>3. CASE Day /\ UNCHANGED campaignVars
    BY <1>4, <2>1, <2>3 DEF Day
  <2>4. CASE (\E m \in Members : Enrol(m)) /\ UNCHANGED campaignVars
    <3>1. \A by \in Runners : running[by].stage # "committing"
      BY <1>1, <2>4, LockedRuns DEF Enrol
    <3>2. QED
      BY <1>2, <2>1, <2>4, <3>1
  <2>5. QED
    BY <1>5, <2>2, <2>3, <2>4 DEF Campaigning
<1>6. CASE Publishing
  <2>1. turn' = turn /\ turn = "publishing"
    BY <1>6 DEF Publishing
  <2>2. CASE RewardUse
    BY <2>1, <2>2, CampaignsStep DEF CampaignsGood
  <2>3. CASE ProgramNext
    <3>1. UNCHANGED campaignVars
      BY <2>3 DEF ProgramNext
    <3>2. CASE UNCHANGED platformVars
      BY <1>4, <2>1, <3>1, <3>2 DEF platformVars
    <3>3. CASE Apply \/ ApplyCommitted \/ ApplyRolledBack
      <4>1. Free \/ engine.lock = <<Publisher, Main>>
        BY <3>3 DEF Apply, Begins, Throws, ApplyCommitted, ApplyRolledBack, Commits, Holds
      <4>2. \A by \in Runners : running[by].stage # "committing"
        BY <1>1, <4>1, LockedRuns DEF Runners, Scheduler, Manual, Publisher
      <4>3. QED
        BY <1>2, <2>1, <3>1, <4>2
    <3>4. QED
      BY <2>3, <3>2, <3>3 DEF ProgramNext
  <2>4. QED
    BY <1>6, <2>2, <2>3 DEF Publishing
<1>7. CASE Crash
  <2>1. campaigns' = Reloaded(campaigns) /\ running' = [by \in Runners |-> NotRunning]
    BY <1>7 DEF Crash, CampaignBoot
  <2>2. CampaignsKept'
    BY <1>1, <2>1, ReloadedFacts, CampaignsStay DEF CampaignsKept
  <2>3. QED
    BY <2>1, <2>2 DEF CampaignsGood, RunningGood, RunShape, Unstored, Unreported, Apart, NotRunning
<1>8. CASE Requesting \/ Managing
  <2>1. UNCHANGED <<campaignVars, turn>> /\ turn \notin {"campaigns", "publishing"}
    BY <1>8 DEF Requesting, RequestNext, StopInstance, Managing
  <2>2. QED
    BY <1>3, <2>1
<1>9. CASE Messaging \/ Importing \/ Administering \/ Serving
  <2>1. UNCHANGED <<campaignVars, turn>> /\ turn \notin {"campaigns", "publishing"}
    BY <1>9 DEF Messaging, EngagementNext, Importing, Administering, Serving
  <2>2. QED
    BY <1>3, <2>1
<1>10. CASE UNCHANGED vars
  BY <1>4, <1>10 DEF vars, platformVars
<1>11. QED
  BY <1>5, <1>6, <1>7, <1>8, <1>9, <1>10 DEF Next

(* Whatever overlaps, fails or stops, a member is reported as issued by at *)
(* most one of the recorded runs of a campaign, and the reward it tells of *)
(* is in the stored engine (campaigns.ts).                                 *)
THEOREM CampaignReportsOnce == Spec => []RunsReportOnce
<1>1. CampaignsGood => RunsReportOnce
  <2> SUFFICES ASSUME CampaignsGood, NEW c \in Campaigns, NEW m \in Members
               PROVE  /\ Cardinality(ReportsOf(c, m)) <= 1
                      /\ ReportsOf(c, m) # {} => \E i \in engine.row.issued : i.campaign = c /\ i.member = m
    BY DEF RunsReportOnce
  <2>1. Once(Doc.runs) /\ Backed(Doc.runs, engine.row.issued)
    BY DocGood DEF CampaignsGood, ReportsGood
  <2>2. ReportsOf(c, m) = {n \in DOMAIN Doc.runs : Reports(Doc.runs, n, c, m)}
    BY DEF ReportsOf, Reports
  <2>3. CASE ReportsOf(c, m) = {}
    BY <2>3, FS_EmptySet
  <2>4. ASSUME NEW n \in ReportsOf(c, m)
        PROVE  ReportsOf(c, m) = {n} /\ \E i \in engine.row.issued : i.campaign = c /\ i.member = m
    BY <2>1, <2>2, <2>4 DEF Once, Backed, Given
  <2>5. ASSUME NEW n \in ReportsOf(c, m) PROVE Cardinality(ReportsOf(c, m)) <= 1
    <3>1. Cardinality({n}) = 1
      BY FS_Singleton
    <3>2. QED
      BY <2>4, <2>5, <3>1
  <2>6. QED
    BY <2>3, <2>4, <2>5
<1>2. QED
  BY <1>1, CampaignsGoodInit, CampaignsGoodStep, AlwaysEngineGood, PTL DEF Spec, IdleSpec

-------------------------------------------------------------------------------
(* The document of the programs.  The program the stored engine was saved  *)
(* under is the active one of a state of the document, or one of its       *)
(* history.  Only an intent pushes it down there, and only a refused one   *)
(* leaves it so; a commit and a start bring it up to the active one again. *)

Revisions == [number : Nat, program : Programs]
Books == [active : Programs, number : Nat, history : Seq(Revisions),
          draft : {None} \cup [version : Nat, program : Programs]]
Reaches(book, p, n) ==
  \/ n = 0 /\ book.active = p
  \/ n \in 1..Len(book.history) /\ book.history[n].program = p
Fits(p, d) == {book \in Books : \E n \in 0..d : Reaches(book, p, n)}
Aimed(p) == {book \in Books : book.active = p}

LEMMA FitsKnow ==
  ASSUME NEW p, NEW d \in Nat, NEW book \in Fits(p, d)
  PROVE  Known(book, p)
<1>1. PICK n \in 0..d : Reaches(book, p, n)
  BY DEF Fits
<1>2. book.history \in Seq(Revisions)
  BY DEF Fits, Books
<1>3. DOMAIN book.history = 1..Len(book.history)
  BY <1>2
<1>4. QED
  BY <1>1, <1>3 DEF Reaches, Known

LEMMA AimedFits ==
  ASSUME NEW q, NEW d \in Nat
  PROVE  Aimed(q) \subseteq Fits(q, d)
<1>1. 0 \in 0..d
  OBVIOUS
<1>2. QED
  BY <1>1 DEF Aimed, Fits, Reaches

LEMMA MoreFits ==
  ASSUME NEW p, NEW d \in Nat
  PROVE  Fits(p, d) \subseteq Fits(p, d + 1)
<1>1. 0..d \subseteq 0..(d + 1)
  OBVIOUS
<1>2. QED
  BY <1>1 DEF Fits

(* What a draft does: the program is as deep as it was. *)
LEMMA DraftFits ==
  ASSUME NEW book \in Books, NEW draft \in {None} \cup [version : Nat, program : Programs]
  PROVE  /\ [book EXCEPT !.draft = draft] \in Books /\ [book EXCEPT !.draft = draft].active = book.active
         /\ \A p, d : book \in Fits(p, d) => [book EXCEPT !.draft = draft] \in Fits(p, d)
<1> DEFINE new == [book EXCEPT !.draft = draft]
<1>1. new \in Books /\ new.active = book.active /\ new.history = book.history
  BY DEF Books
<1> HIDE DEF new
<1>2. ASSUME NEW p, NEW n, Reaches(book, p, n) PROVE Reaches(new, p, n)
  BY <1>1, <1>2 DEF Reaches
<1>3. ASSUME NEW p, NEW d, book \in Fits(p, d) PROVE new \in Fits(p, d)
  BY <1>1, <1>2, <1>3 DEF Fits
<1>4. QED
  BY <1>1, <1>3 DEF new

(* Publishing pushes what was active onto the history, which keeps it as   *)
(* long as it is not deeper than the limit.                                *)
LEMMA IntendedFits ==
  ASSUME Book \in Books, NEW q \in Programs
  PROVE  /\ Intended(q) \in Aimed(q)
         /\ \A p : \A d \in Nat : Book \in Fits(p, d) /\ d < HistoryLimit => Intended(q) \in Fits(p, d + 1)
<1> DEFINE revision == [number |-> Book.number, program |-> Book.active]
           history == <<revision>> \o Book.history
           kept == IF Len(history) < HistoryLimit THEN Len(history) ELSE HistoryLimit
<1>1. /\ Book.number \in Nat /\ Book.active \in Programs /\ Book.history \in Seq(Revisions)
      /\ revision \in Revisions /\ revision.program = Book.active
  BY DEF Books, Revisions
<1> HIDE DEF revision
<1>2. /\ history \in Seq(Revisions) /\ Len(history) = Len(Book.history) + 1 /\ history[1] = revision
      /\ \A k \in 1..Len(Book.history) : history[k + 1] = Book.history[k]
  BY <1>1
<1>3. kept \in 0..Len(history) /\ \A n \in Nat : n <= Len(history) /\ n <= HistoryLimit => n <= kept
  BY <1>2, PublishAssumption
<1> HIDE DEF history, kept
<1>4. /\ SubSeq(history, 1, kept) \in Seq(Revisions) /\ Len(SubSeq(history, 1, kept)) = kept
      /\ \A k \in 1..kept : SubSeq(history, 1, kept)[k] = history[k]
  BY <1>2, <1>3
<1>5. Intended(q) = [active |-> q, number |-> Book.number + 1, draft |-> None,
                     history |-> SubSeq(history, 1, kept)]
  BY DEF Intended, Retained, history, kept, revision
<1>6. Intended(q) \in Books /\ Intended(q).active = q /\ Intended(q).history = SubSeq(history, 1, kept)
  BY <1>1, <1>4, <1>5 DEF Books
<1>7. ASSUME NEW p, NEW d \in Nat, Book \in Fits(p, d), d < HistoryLimit PROVE Intended(q) \in Fits(p, d + 1)
  <2>1. PICK n \in 0..d : Reaches(Book, p, n)
    BY <1>7 DEF Fits
  <2>2. n + 1 \in 1..Len(history) /\ history[n + 1].program = p
    <3>1. CASE n = 0 /\ Book.active = p
      BY <1>1, <1>2, <3>1
    <3>2. CASE n \in 1..Len(Book.history) /\ Book.history[n].program = p
      BY <1>1, <1>2, <3>2
    <3>3. QED
      BY <2>1, <3>1, <3>2 DEF Reaches
  <2>3. n + 1 \in 0..(d + 1) /\ n + 1 <= HistoryLimit
    BY <1>7, PublishAssumption
  <2>4. n + 1 \in 1..kept /\ SubSeq(history, 1, kept)[n + 1].program = p
    BY <1>2, <1>3, <1>4, <2>2, <2>3
  <2>5. QED
    BY <1>4, <1>6, <2>3, <2>4 DEF Fits, Reaches
<1>8. QED
  BY <1>6, <1>7 DEF Aimed

(* The states of a document that may still be stored: a save whose         *)
(* revision is out of date will be refused.                                *)
Within(doc, S) ==
  /\ doc.memory \in S /\ doc.row \in S
  /\ \A c \in DOMAIN doc.saves : Sent(doc, c) /\ Current(doc, c) => doc.saves[c].state \in S

LEMMA WithinMore ==
  ASSUME NEW doc, NEW S, NEW T, Within(doc, S), S \subseteq T
  PROVE  Within(doc, T)
BY DEF Within

(* One save is replaced, or the memory and a save. *)
LEMMA SaveWithin ==
  ASSUME NEW callers, NEW doc, DocShape(doc, callers), NEW S, Within(doc, S), NEW memory \in S, NEW row \in S,
         NEW current, NEW c \in callers, NEW v, v.stage = "sent" => v.state \in S
  PROVE  Within([memory |-> memory, row |-> row, current |-> current, saves |-> [doc.saves EXCEPT ![c] = v]], S)
<1> DEFINE d == [memory |-> memory, row |-> row, current |-> current, saves |-> [doc.saves EXCEPT ![c] = v]]
<1>1. d.memory = memory /\ d.row = row /\ d.saves = [doc.saves EXCEPT ![c] = v]
  OBVIOUS
<1> HIDE DEF d
<1>2. DOMAIN doc.saves = callers
  BY DEF DocShape
<1>3. /\ DOMAIN d.saves = callers
      /\ \A b \in callers : d.saves[b] = IF b = c THEN v ELSE doc.saves[b]
  BY <1>1, <1>2
<1>4. ASSUME NEW b \in callers, Sent(d, b), Current(d, b) PROVE d.saves[b].state \in S
  BY <1>2, <1>3, <1>4 DEF Sent, Current, Within
<1>5. Within(d, S)
  BY <1>1, <1>3, <1>4 DEF Within
<1>6. QED
  BY <1>5 DEF d

LEMMA ChangedWithin ==
  ASSUME NEW callers, NEW doc, DocShape(doc, callers), NEW S, Within(doc, S), NEW c \in callers, NEW new \in S
  PROVE  Within(Changed(doc, c, new), S)
<1> DEFINE v == [stage |-> "sent", state |-> new, current |-> doc.current]
<1>1. v.state = new /\ Changed(doc, c, new) = [doc EXCEPT !.memory = new, !.saves[c] = v]
  BY DEF Changed
<1> HIDE DEF v
<1>2. Changed(doc, c, new) =
        [memory |-> new, row |-> doc.row, current |-> doc.current, saves |-> [doc.saves EXCEPT ![c] = v]]
  BY <1>1 DEF DocShape
<1>3. doc.row \in S /\ (v.stage = "sent" => v.state \in S)
  BY <1>1 DEF Within
<1>4. QED
  BY <1>2, <1>3, SaveWithin

LEMMA RefusedWithin ==
  ASSUME NEW callers, NEW doc, DocShape(doc, callers), NEW S, Within(doc, S), NEW c \in callers
  PROVE  Within(Refused(doc, c), S)
<1> DEFINE v == [stage |-> "refused"]
<1>1. Refused(doc, c) =
        [memory |-> doc.memory, row |-> doc.row, current |-> doc.current, saves |-> [doc.saves EXCEPT ![c] = v]]
  BY DEF Refused, DocShape
<1>2. v.stage # "sent" /\ doc.memory \in S /\ doc.row \in S
  BY DEF Within
<1> HIDE DEF v
<1>3. QED
  BY <1>1, <1>2, SaveWithin

LEMMA ReturnedWithin ==
  ASSUME NEW callers, NEW doc, DocShape(doc, callers), NEW S, Within(doc, S), NEW c \in callers
  PROVE  Within(Returned(doc, c), S)
<1> DEFINE current == IF Succeeds(doc, c) THEN doc.saves[c].current ELSE doc.current
<1>1. Returned(doc, c) = [doc EXCEPT !.current = current, !.saves[c] = NoSave]
  BY DEF Returned
<1> HIDE DEF current
<1>2. Returned(doc, c) =
        [memory |-> doc.memory, row |-> doc.row, current |-> current, saves |-> [doc.saves EXCEPT ![c] = NoSave]]
  BY <1>1 DEF DocShape
<1>3. NoSave.stage # "sent" /\ doc.memory \in S /\ doc.row \in S
  BY DEF Within, NoSave
<1>4. QED
  BY <1>2, <1>3, SaveWithin

(* What is stored puts every other save out of date. *)
LEMMA StoredWithin ==
  ASSUME NEW callers, NEW doc, DocShape(doc, callers), NEW S, NEW c \in callers, Sent(doc, c),
         doc.memory \in S, doc.saves[c].state \in S
  PROVE  Within(Stored(doc, c), S)
<1> DEFINE d == Stored(doc, c)
<1>1. DOMAIN doc.saves = callers
  BY DEF DocShape
<1>2. /\ d.memory = doc.memory /\ d.row = doc.saves[c].state
      /\ d.saves = [b \in callers |->
                      IF b = c THEN [stage |-> "stored", current |-> TRUE] ELSE OutOfDate(doc.saves[b])]
  BY <1>1 DEF Stored
<1>3. ASSUME NEW b \in callers, Sent(d, b) PROVE ~Current(d, b)
  <2>1. d.saves[b] = IF b = c THEN [stage |-> "stored", current |-> TRUE] ELSE OutOfDate(doc.saves[b])
    BY <1>2
  <2>2. [stage |-> "stored", current |-> TRUE].stage # "sent"
    OBVIOUS
  <2>3. d.saves[b] = OutOfDate(doc.saves[b]) /\ OutOfDate(doc.saves[b]).stage = "sent" /\ SaveShape(doc.saves[b])
    BY <1>3, <2>1, <2>2 DEF Sent, DocShape
  <2> DEFINE v == doc.saves[b]
  <2>4. v.stage = "sent" /\ v = [stage |-> "sent", state |-> v.state, current |-> v.current]
    <3>0. \A x : [stage |-> "stored", current |-> x].stage = "stored"
      OBVIOUS
    <3>1. \A x : OutOfDate([stage |-> "stored", current |-> x]) = [stage |-> "stored", current |-> FALSE]
      BY DEF OutOfDate
    <3>2. v # NoSave /\ v # [stage |-> "refused"]
      BY <2>3 DEF OutOfDate, NoSave
    <3>3. v # [stage |-> "stored", current |-> v.current]
      BY <2>3, <3>0, <3>1
    <3>4. v = [stage |-> "sent", state |-> v.state, current |-> v.current]
      BY <2>3, <3>2, <3>3 DEF SaveShape
    <3>5. QED
      BY <3>4
  <2>5. \A x, y : OutOfDate([stage |-> "sent", state |-> y, current |-> x]).current = FALSE
    BY DEF OutOfDate
  <2>6. d.saves[b].current = FALSE
    BY <2>3, <2>4, <2>5
  <2>7. QED
    BY <2>6 DEF Current
<1>4. DOMAIN d.saves = callers
  BY <1>2
<1> HIDE DEF d
<1>5. Within(d, S)
  BY <1>2, <1>3, <1>4 DEF Within
<1>6. QED
  BY <1>5 DEF d

LEMMA ReloadedWithin ==
  ASSUME NEW doc, NEW S, doc.row \in S
  PROVE  Within(Reloaded(doc), S)
BY DEF Within, Reloaded, NewDocument, Sent, NoSave

(* A publish: from the moment its intent is stored whatever may still be   *)
(* stored has its program active.                                          *)
ProgramCallers == {Editor, Publisher}
Carries == {"intent", "applying", "committing"}
PublishShape(pub) ==
  \/ pub = Resting \/ pub = [stage |-> "ending"]
  \/ pub = [stage |-> pub.stage, program |-> pub.program, previous |-> pub.previous] /\ pub.stage \in Carries
Accepted(pub, doc) ==
  pub.stage \in {"applying", "committing"} \/ (pub.stage = "intent" /\ Succeeds(doc, Publisher))
PublishGood(pub, doc) ==
  /\ PublishShape(pub)
  /\ pub.stage \in Carries => pub.previous \in Books /\ doc.memory \in Aimed(pub.program)
  /\ pub.stage = "intent" /\ Sent(doc, Publisher) => doc.saves[Publisher].state \in Aimed(pub.program)
  /\ Accepted(pub, doc) => Within(doc, Aimed(pub.program))
BooksGood(doc) == DocShape(doc, ProgramCallers) /\ Within(doc, Books)

(* How deep program p may be: as deep as intents were refused, and one     *)
(* deeper wherever the intent of the moment is.  When it fails, the        *)
(* publisher puts back what was there before it.                           *)
InReach(pub, doc, p, r) ==
  /\ Within(doc, Fits(p, r + 1))
  /\ IF pub.stage \in Carries THEN pub.previous \in Fits(p, r) ELSE doc.memory \in Fits(p, r)
Stands(pub, doc, p, r) ==
  /\ r \in Nat /\ BooksGood(doc) /\ PublishGood(pub, doc)
  /\ r < HistoryLimit => InReach(pub, doc, p, r)

(* Whoever holds the lock of the engine has in memory the program that is  *)
(* stored; the publisher has its own.                                      *)
LocksFollow(t, e, pub) ==
  \A c \in LockCallers, i \in Instances :
    e.lock = <<c, i>> =>
      /\ t # "requests" => i = Main
      /\ IF t = "publishing" /\ c = Publisher
         THEN pub.stage = "committing" /\ e.memory[i].program = pub.program
         ELSE e.memory[i].program = e.row.program
ProgramGood ==
  /\ Stands(publishing, programs, engine.row.program, refusals)
  /\ LocksFollow(turn, engine, publishing)
  /\ turn # "publishing" => programs.row.active = engine.row.program

LEMMA NobodyFollows ==
  ASSUME NEW t, NEW e, NEW pub, e.lock = None
  PROVE  LocksFollow(t, e, pub)
BY LockAssumption DEF LocksFollow

(* An operation that does not publish keeps the program. *)
EngineKept == engine'.row.program = engine.row.program /\ LocksFollow(turn, engine', publishing)

LEMMA BeginsKeeps ==
  ASSUME EngineGood, NEW c \in LockCallers, NEW i \in Instances, NEW new, StateShape(new),
         Grown(engine.row, new), Begins(c, i, new), new.program = engine.row.program,
         turn = "requests" \/ i = Main, turn # "publishing" \/ c # Publisher
  PROVE  EngineKept
<1>1. engine'.row = engine.row /\ engine'.lock = <<c, i>> /\ engine'.memory[i] = new
  BY BeginsFacts
<1>2. ASSUME NEW b \in LockCallers, NEW j \in Instances, engine'.lock = <<b, j>> PROVE b = c /\ j = i
  BY <1>1, <1>2
<1>3. QED
  BY <1>1, <1>2 DEF EngineKept, LocksFollow

LEMMA CommitsKeeps ==
  ASSUME EngineGood, LocksFollow(turn, engine, publishing), NEW c \in LockCallers, NEW i \in Instances,
         Commits(c, i), turn # "publishing" \/ c # Publisher
  PROVE  EngineKept
<1>1. engine'.row = engine.memory[i] /\ engine'.lock = None /\ engine.lock = <<c, i>>
  BY CommitsFacts
<1>2. engine.memory[i].program = engine.row.program
  BY <1>1 DEF LocksFollow
<1>3. QED
  BY <1>1, <1>2, NobodyFollows DEF EngineKept

LEMMA RollsBackKeeps ==
  ASSUME EngineGood, NEW c, NEW i, RollsBack(c, i)
  PROVE  EngineKept
<1>1. engine'.row = engine.row /\ engine'.lock = None
  BY RollsBackFacts
<1>2. QED
  BY <1>1, NobodyFollows DEF EngineKept

LEMMA ThrowsKeeps ==
  ASSUME EngineGood, NEW i \in Instances, NEW new, StateShape(new), Throws(i, new)
  PROVE  EngineKept
<1>1. engine'.row = engine.row /\ engine'.lock = None
  BY ThrowsFacts DEF Free
<1>2. QED
  BY <1>1, NobodyFollows DEF EngineKept

LEMMA SameEngineKeeps ==
  ASSUME LocksFollow(turn, engine, publishing), UNCHANGED engine
  PROVE  EngineKept
BY DEF EngineKept, LocksFollow

(* A start of an instance finds the lock free or held by another one. *)
LEMMA RestartKeeps ==
  ASSUME EngineGood, LocksFollow(turn, engine, publishing), NEW i \in Instances,
         engine' = Restarted(i, engine.row.program)
  PROVE  EngineKept
<1> DEFINE row == [engine.row EXCEPT !.program = engine.row.program]
<1>1. row.program = engine.row.program
  BY DEF EngineGood, EngineShape, StateShape
<1>2. /\ engine'.row = row
      /\ engine'.lock = IF ~Free /\ engine.lock[2] = i THEN None ELSE engine.lock
  BY DEF Restarted
<1> HIDE DEF row
<1>3. \A j \in Instances \ {i} : engine'.memory[j] = engine.memory[j]
  BY RestartFacts
<1>4. ASSUME NEW c \in LockCallers, NEW j \in Instances, engine'.lock = <<c, j>>
      PROVE  engine.lock = <<c, j>> /\ j # i
  BY <1>2, <1>4, LockAssumption DEF Free
<1>5. QED
  BY <1>1, <1>2, <1>3, <1>4 DEF EngineKept, LocksFollow

LEMMA ChangesKeepProgram ==
  ASSUME EngineGood
  PROVE  /\ \A x : [engine.row EXCEPT !.memberships = x].program = engine.row.program
         /\ \A x : [engine.row EXCEPT !.applied = x].program = engine.row.program
         /\ \A x : [engine.row EXCEPT !.enrolled = x].program = engine.row.program
         /\ \A x : [engine.row EXCEPT !.issued = x].program = engine.row.program
<1>1. StateShape(engine.row)
  BY DEF EngineGood, EngineShape
<1>2. QED
  BY <1>1 DEF StateShape

LEMMA RequestKeeps ==
  ASSUME EngineGood, RequestShape, LocksFollow(turn, engine, publishing), turn = "requests",
         NEW r \in RequestKeys,
         RequestBegins(r) \/ RequestCommitted(r) \/ RequestRolledBack(r) \/ RequestAnswered(r)
  PROVE  EngineKept
<1>1. r \in LockCallers
  BY DEF LockCallers
<1>2. CASE RequestBegins(r)
  <2>1. PICK i \in Instances :
          LET new == [engine.row EXCEPT !.applied = engine.row.applied \cup {r}]
          IN  Begins(r, i, new) \/ Throws(i, new) \/ UNCHANGED engine
    BY <1>2 DEF RequestBegins, Loaded
  <2> DEFINE new == [engine.row EXCEPT !.applied = engine.row.applied \cup {r}]
  <2>2. StateShape(new) /\ Grown(engine.row, new) /\ new.program = engine.row.program
    BY ChangesGrow, ChangesKeepProgram
  <2>3. Begins(r, i, new) \/ Throws(i, new) \/ UNCHANGED engine
    BY <2>1
  <2> HIDE DEF new
  <2>4. QED
    BY <1>1, <2>2, <2>3, BeginsKeeps, ThrowsKeeps, SameEngineKeeps
<1>3. CASE RequestCommitted(r)
  BY <1>1, <1>3, CommitsKeeps DEF RequestCommitted, RequestShape, Waiting
<1>4. CASE RequestRolledBack(r)
  BY <1>4, RollsBackKeeps DEF RequestRolledBack
<1>5. CASE RequestAnswered(r)
  BY <1>5, SameEngineKeeps DEF RequestAnswered, platformVars
<1>6. QED
  BY <1>2, <1>3, <1>4, <1>5

LEMMA CampaignKeeps ==
  ASSUME EngineGood, LocksFollow(turn, engine, publishing), NEW by \in Runners, RunStep(by)
  PROVE  EngineKept
<1>1. by \in LockCallers /\ by # Publisher
  BY DEF LockCallers, Runners, Scheduler, Manual, Publisher
<1>2. CASE IssueRewards(by)
  <2>1. PICK x : Begins(by, Main, [engine.row EXCEPT !.issued = engine.row.issued \cup x])
    BY <1>2 DEF IssueRewards, Loaded
  <2> DEFINE new == [engine.row EXCEPT !.issued = engine.row.issued \cup x]
  <2>2. StateShape(new) /\ Grown(engine.row, new) /\ new.program = engine.row.program
    BY ChangesGrow, ChangesKeepProgram
  <2>3. Begins(by, Main, new)
    BY <2>1
  <2> HIDE DEF new
  <2>4. QED
    BY <1>1, <2>2, <2>3, BeginsKeeps, MainIsInstance
<1>3. CASE RunCommitted(by)
  BY <1>1, <1>3, CommitsKeeps, MainIsInstance DEF RunCommitted
<1>4. CASE RunRolledBack(by)
  BY <1>4, RollsBackKeeps DEF RunRolledBack
<1>5. CASE RunRecorded(by) \/ RunReturned(by)
  BY <1>5, SameEngineKeeps DEF RunRecorded, RunReturned, platformVars
<1>6. QED
  BY <1>2, <1>3, <1>4, <1>5 DEF RunStep

LEMMA MembershipKeeps ==
  ASSUME EngineGood, LocksFollow(turn, engine, publishing), turn = "memberships",
         NEW c \in MembershipCallers, MembershipStep(c)
  PROVE  EngineKept
<1>1. c \in LockCallers
  BY DEF LockCallers
<1>2. CASE SetMembership(c)
  <2>1. \/ \E x : Begins(c, Main, [engine.row EXCEPT !.memberships = x])
        \/ Throws(Main, engine.row)
    BY <1>2 DEF SetMembership, Loaded
  <2>2. ASSUME NEW x, Begins(c, Main, [engine.row EXCEPT !.memberships = x]) PROVE EngineKept
    <3> DEFINE new == [engine.row EXCEPT !.memberships = x]
    <3>1. StateShape(new) /\ Grown(engine.row, new) /\ new.program = engine.row.program
      BY ChangesGrow, ChangesKeepProgram
    <3>2. Begins(c, Main, new)
      BY <2>2
    <3> HIDE DEF new
    <3>3. QED
      BY <1>1, <3>1, <3>2, BeginsKeeps, MainIsInstance
  <2>3. QED
    BY <2>1, <2>2, ThrowsKeeps, ChangesGrow, MainIsInstance
<1>3. CASE MembershipCommitted(c)
  BY <1>1, <1>3, CommitsKeeps, MainIsInstance DEF MembershipCommitted
<1>4. CASE MembershipRolledBack(c)
  BY <1>4, RollsBackKeeps DEF MembershipRolledBack
<1>5. CASE Audit(c) \/ AuditStored(c) \/ Audited(c)
  BY <1>5, SameEngineKeeps DEF Audit, AuditStored, Audited, platformVars
<1>6. QED
  BY <1>2, <1>3, <1>4, <1>5 DEF MembershipStep

LEMMA CustomerKeeps ==
  ASSUME EngineGood, LocksFollow(turn, engine, publishing), turn = "customers", NEW c \in Clients,
         UpsertProfiles(c) \/ ProfilesCommitted(c) \/ ProfilesRolledBack(c)
  PROVE  EngineKept
<1>1. c \in LockCallers
  BY DEF LockCallers
<1>2. CASE UpsertProfiles(c)
  <2>1. PICK x : Begins(c, Main, [engine.row EXCEPT !.enrolled = engine.row.enrolled \cup x])
    BY <1>2 DEF UpsertProfiles, Loaded
  <2> DEFINE new == [engine.row EXCEPT !.enrolled = engine.row.enrolled \cup x]
  <2>2. StateShape(new) /\ Grown(engine.row, new) /\ new.program = engine.row.program
    BY ChangesGrow, ChangesKeepProgram
  <2>3. Begins(c, Main, new)
    BY <2>1
  <2> HIDE DEF new
  <2>4. QED
    BY <1>1, <2>2, <2>3, BeginsKeeps, MainIsInstance
<1>3. CASE ProfilesCommitted(c)
  BY <1>1, <1>3, CommitsKeeps, MainIsInstance DEF ProfilesCommitted
<1>4. CASE ProfilesRolledBack(c)
  BY <1>4, RollsBackKeeps DEF ProfilesRolledBack
<1>5. QED
  BY <1>2, <1>3, <1>4

LEMMA OtherKeeps ==
  ASSUME EngineGood, LocksFollow(turn, engine, publishing), Traffic \/ Day \/ \E m \in Members : Enrol(m)
  PROVE  EngineKept
<1>1. CASE Traffic
  BY <1>1, ThrowsKeeps, ChangesGrow, MainIsInstance DEF Traffic
<1>2. CASE Day
  BY <1>2, SameEngineKeeps DEF Day
<1>3. ASSUME NEW m \in Members, Enrol(m) PROVE EngineKept
  <2> DEFINE new == [engine.row EXCEPT !.enrolled = engine.row.enrolled \cup {m}]
  <2>1. new.program = engine.row.program
    BY ChangesKeepProgram
  <2>2. engine' = [engine EXCEPT !.row = new, !.memory[Main] = new] /\ Free
    BY <1>3 DEF Enrol, Loaded
  <2> HIDE DEF new
  <2>3. engine' = [row |-> new, memory |-> [engine.memory EXCEPT ![Main] = new], lock |-> engine.lock]
    BY <2>2 DEF EngineGood, EngineShape
  <2>4. engine'.row = new /\ engine'.lock = None
    BY <2>2, <2>3 DEF Free
  <2>5. QED
    BY <2>1, <2>4, NobodyFollows DEF EngineKept
<1>4. QED
  BY <1>1, <1>2, <1>3

(* A step of the groups without a publisher, or of their campaigns. *)
LEMMA QuietStep ==
  ASSUME EngineGood, RequestShape, LocksFollow(turn, engine, publishing),
         \/ Requesting \/ Managing \/ Campaigning \/ Messaging \/ Importing \/ Administering \/ Serving
         \/ turn = "publishing" /\ RewardUse /\ UNCHANGED <<programVars, turn>>
         \/ UNCHANGED vars
  PROVE  EngineKept /\ UNCHANGED <<programs, publishing, refusals, turn>>
<1>1. CASE UNCHANGED <<engine, programVars, turn>>
  BY <1>1, SameEngineKeeps DEF programVars
<1>2. CASE Requesting
  <2>1. turn = "requests" /\ UNCHANGED <<programs, publishing, refusals, turn>>
    BY <1>2 DEF Requesting, RequestNext, StopInstance, programVars
  <2>2. ASSUME NEW i \in Instances, StopInstance(i) PROVE EngineKept
    BY <2>2, RestartKeeps DEF StopInstance
  <2>3. CASE RequestNext
    BY <2>1, <2>3, RequestKeeps, SameEngineKeeps DEF RequestNext, ReportBegins, ReportReads, platformVars
  <2>4. QED
    BY <1>2, <2>1, <2>2, <2>3 DEF Requesting
<1>3. ASSUME RewardUse \/ CampaignNext PROVE EngineKept
  <2>1. CASE \E by \in Runners : RunStep(by)
    BY <2>1, CampaignKeeps
  <2>2. CASE UNCHANGED platformVars
    BY <2>2, SameEngineKeeps DEF platformVars
  <2>3. ASSUME NEW windows, UpsertCampaign(windows) PROVE UNCHANGED platformVars
    BY <2>3 DEF UpsertCampaign, Edit
  <2>4. QED
    BY <1>3, <2>1, <2>2, <2>3
       DEF RewardUse, CampaignNext, UpsertSegment, DeleteSegment, DeleteCampaign, SetCampaignStatus, Edit,
           EditReturned, RunCampaign, SchedulerStarts, SchedulerNext, CampaignSaveStored, Runners
<1>4. CASE turn = "publishing" /\ RewardUse /\ UNCHANGED <<programVars, turn>>
  BY <1>3, <1>4 DEF programVars
<1>5. CASE Managing
  <2>1. turn = "memberships" /\ UNCHANGED <<programs, publishing, refusals, turn>>
    BY <1>5 DEF Managing, programVars
  <2>2. CASE MembershipNext
    BY <2>1, <2>2, MembershipKeeps, SameEngineKeeps
       DEF MembershipNext, Grant, ChangeStatus, Sweep, SweepNext, platformVars
  <2>3. CASE Day
    BY <2>1, <2>3, SameEngineKeeps DEF Day
  <2>4. CASE Traffic
    BY <2>1, <2>4, ThrowsKeeps, ChangesGrow, MainIsInstance DEF Traffic
  <2>5. QED
    BY <1>5, <2>1, <2>2, <2>3, <2>4 DEF Managing
<1>6. CASE Campaigning
  <2>1. UNCHANGED <<programs, publishing, refusals, turn>>
    BY <1>6 DEF Campaigning, programVars
  <2>2. QED
    BY <1>3, <1>6, <2>1, OtherKeeps DEF Campaigning
<1>7. CASE Messaging
  <2>1. UNCHANGED <<engine, programVars, turn>>
    BY <1>7 DEF Messaging, EngagementNext, Day, platformVars
  <2>2. QED
    BY <1>1, <2>1
<1>8. CASE Importing
  <2>1. turn = "customers" /\ UNCHANGED <<programs, publishing, refusals, turn>>
    BY <1>8 DEF Importing, programVars
  <2>2. QED
    BY <1>8, <2>1, CustomerKeeps, SameEngineKeeps
       DEF Importing, CustomerNext, ImportMembers, ProfilesSaved, IngestEvent, CustomerSaveStored, WriteReturned,
           platformVars
<1>9. CASE Administering \/ Serving \/ UNCHANGED vars
  BY <1>1, <1>9 DEF Administering, Serving, vars, platformVars
<1>10. QED
  BY <1>2, <1>4, <1>5, <1>6, <1>7, <1>8, <1>9

(* What one save leaves to the other caller. *)
LEMMA OtherSave ==
  ASSUME NEW doc, DocShape(doc, ProgramCallers), NEW c \in ProgramCallers
  PROVE  /\ \A new : /\ Changed(doc, c, new).row = doc.row
                     /\ Changed(doc, c, new).saves[c].stage = "sent"
                     /\ Changed(doc, c, new).saves[c].state = new
                     /\ \A b \in ProgramCallers \ {c} : Changed(doc, c, new).saves[b] = doc.saves[b]
         /\ \A b \in ProgramCallers \ {c} : /\ Returned(doc, c).saves[b] = doc.saves[b]
                                            /\ Refused(doc, c).saves[b] = doc.saves[b]
                                            /\ Stored(doc, c).saves[b] = OutOfDate(doc.saves[b])
         /\ Refused(doc, c).saves[c].stage = "refused"
         /\ Stored(doc, c).saves[c].stage = "stored"
<1>1. /\ DOMAIN doc.saves = ProgramCallers
      /\ doc = [memory |-> doc.memory, row |-> doc.row, current |-> doc.current, saves |-> doc.saves]
  BY DEF DocShape
<1>2. ASSUME NEW v
      PROVE  /\ [doc.saves EXCEPT ![c] = v][c] = v
             /\ \A b \in ProgramCallers \ {c} : [doc.saves EXCEPT ![c] = v][b] = doc.saves[b]
  BY <1>1
<1>3. ASSUME NEW new
      PROVE  /\ Changed(doc, c, new).row = doc.row
             /\ Changed(doc, c, new).saves =
                  [doc.saves EXCEPT ![c] = [stage |-> "sent", state |-> new, current |-> doc.current]]
  BY <1>1 DEF Changed
<1>4. /\ Returned(doc, c).saves = [doc.saves EXCEPT ![c] = NoSave]
      /\ Refused(doc, c).saves = [doc.saves EXCEPT ![c] = [stage |-> "refused"]]
  BY <1>1 DEF Returned, Refused
<1>5. Stored(doc, c).saves =
        [b \in ProgramCallers |-> IF b = c THEN [stage |-> "stored", current |-> TRUE] ELSE OutOfDate(doc.saves[b])]
  BY <1>1 DEF Stored
<1>6. ASSUME NEW new
      PROVE  /\ Changed(doc, c, new).saves[c] = [stage |-> "sent", state |-> new, current |-> doc.current]
             /\ \A b \in ProgramCallers \ {c} : Changed(doc, c, new).saves[b] = doc.saves[b]
  <2> DEFINE v == [stage |-> "sent", state |-> new, current |-> doc.current]
  <2>1. Changed(doc, c, new).saves = [doc.saves EXCEPT ![c] = v]
    BY <1>3
  <2> HIDE DEF v
  <2>2. /\ Changed(doc, c, new).saves[c] = v
        /\ \A b \in ProgramCallers \ {c} : Changed(doc, c, new).saves[b] = doc.saves[b]
    BY <1>2, <2>1
  <2>3. QED
    BY <2>2 DEF v
<1>7. ASSUME NEW b \in ProgramCallers \ {c}
      PROVE  /\ Returned(doc, c).saves[b] = doc.saves[b] /\ Refused(doc, c).saves[b] = doc.saves[b]
             /\ Stored(doc, c).saves[b] = OutOfDate(doc.saves[b])
  BY <1>2, <1>4, <1>5
<1>8. Refused(doc, c).saves[c] = [stage |-> "refused"] /\ Stored(doc, c).saves[c] = [stage |-> "stored", current |-> TRUE]
  BY <1>2, <1>4, <1>5
<1>9. ASSUME NEW new
      PROVE  /\ Changed(doc, c, new).row = doc.row
             /\ Changed(doc, c, new).saves[c].stage = "sent" /\ Changed(doc, c, new).saves[c].state = new
  <2> DEFINE v == [stage |-> "sent", state |-> new, current |-> doc.current]
  <2>1. v.stage = "sent" /\ v.state = new
    OBVIOUS
  <2>2. Changed(doc, c, new).saves[c] = v
    BY <1>6
  <2>3. Changed(doc, c, new).row = doc.row
    BY <1>3
  <2> HIDE DEF v
  <2>4. QED
    BY <2>1, <2>2, <2>3
<1>10. Refused(doc, c).saves[c].stage = "refused" /\ Stored(doc, c).saves[c].stage = "stored"
  BY <1>8
<1>11. QED
  BY <1>6, <1>7, <1>9, <1>10

LEMMA OutOfDateFacts ==
  ASSUME NEW v, SaveShape(v)
  PROVE  /\ OutOfDate(v).stage = v.stage
         /\ v.stage = "sent" => OutOfDate(v).state = v.state
<1>1. CASE v = NoSave \/ v = [stage |-> "refused"]
  BY <1>1 DEF OutOfDate, NoSave
<1>2. CASE v = [stage |-> "stored", current |-> v.current]
  <2>1. \A x : OutOfDate([stage |-> "stored", current |-> x]).stage = "stored"
    BY DEF OutOfDate
  <2>2. v.stage = "stored"
    BY <1>2
  <2>3. QED
    BY <1>2, <2>1, <2>2
<1>3. CASE v = [stage |-> "sent", state |-> v.state, current |-> v.current]
  <2>1. \A x, y : LET w == OutOfDate([stage |-> "sent", state |-> y, current |-> x])
                  IN  w.stage = "sent" /\ w.state = y
    BY DEF OutOfDate
  <2>2. v.stage = "sent"
    BY <1>3
  <2>3. QED
    BY <1>3, <2>1, <2>2
<1>4. QED
  BY <1>1, <1>2, <1>3 DEF SaveShape

(* Nothing is expected of the document when no publish goes on. *)
LEMMA NoPublishGood ==
  ASSUME NEW pub, pub = Resting \/ pub = [stage |-> "ending"], NEW doc
  PROVE  PublishGood(pub, doc) /\ pub.stage \notin Carries
<1>1. pub.stage = "idle" \/ pub.stage = "ending"
  BY DEF Resting
<1>2. QED
  BY <1>1 DEF PublishGood, PublishShape, Accepted, Carries

(* What a step of drafting and publishing does, for whatever program the   *)
(* stored engine has; only the publisher goes on from a commit.            *)
DraftMoved(p) ==
  /\ Stands(publishing', programs', p, refusals')
  /\ UNCHANGED publishing \/ publishing.stage # "committing"

(* A step that sends one more state to the store. *)
LEMMA ChangedBooks ==
  ASSUME BooksGood(programs), NEW c \in ProgramCallers, NEW new \in Books, programs' = Changed(programs, c, new)
  PROVE  /\ BooksGood(programs') /\ programs'.memory = new
         /\ \A S : Within(programs, S) /\ new \in S => Within(programs', S)
<1>1. DocShape(programs, ProgramCallers)
  BY DEF BooksGood
<1>2. DocShape(programs', ProgramCallers) /\ programs'.memory = new
  BY <1>1, ChangedFacts
<1>3. ASSUME NEW S, Within(programs, S), new \in S PROVE Within(programs', S)
  BY <1>1, <1>3, ChangedWithin
<1>4. QED
  BY <1>2, <1>3 DEF BooksGood

LEMMA DraftingGood ==
  ASSUME NEW p, Stands(publishing, programs, p, refusals),
         NEW new, Drafting(new), new \in Books, new.active = Book.active,
         \A d : Book \in Fits(p, d) => new \in Fits(p, d)
  PROVE  DraftMoved(p)
<1>1. programs' = Changed(programs, Editor, new) /\ publishing' = publishing /\ refusals' = refusals
  BY DEF Drafting
<1>2. /\ Editor \in ProgramCallers /\ Publisher \in ProgramCallers \ {Editor} /\ DocShape(programs, ProgramCallers)
      /\ BooksGood(programs) /\ PublishGood(publishing, programs) /\ refusals \in Nat
  BY DEF ProgramCallers, Editor, Publisher, BooksGood, Stands
<1>3. /\ BooksGood(programs') /\ programs'.memory = new
      /\ \A S : Within(programs, S) /\ new \in S => Within(programs', S)
  BY <1>1, <1>2, ChangedBooks
<1>4. programs'.saves[Publisher] = programs.saves[Publisher]
  BY <1>1, <1>2, OtherSave
<1>5. ASSUME publishing.stage \in Carries
      PROVE  publishing.previous \in Books /\ new \in Aimed(publishing.program)
  BY <1>2, <1>5 DEF PublishGood, Aimed, Book
<1>6. ASSUME Accepted(publishing, programs') PROVE Within(programs', Aimed(publishing.program))
  <2>1. Accepted(publishing, programs) /\ publishing.stage \in Carries
    BY <1>4, <1>6 DEF Accepted, Succeeds, Carries
  <2>2. Within(programs, Aimed(publishing.program))
    BY <1>2, <2>1 DEF PublishGood
  <2>3. QED
    BY <1>3, <1>5, <2>1, <2>2
<1>7. PublishGood(publishing', programs')
  BY <1>1, <1>2, <1>3, <1>4, <1>5, <1>6 DEF PublishGood, Sent
<1>8. ASSUME refusals < HistoryLimit PROVE InReach(publishing', programs', p, refusals)
  <2>1. InReach(publishing, programs, p, refusals)
    BY <1>8 DEF Stands
  <2>2. Book \in Fits(p, refusals + 1)
    BY <2>1 DEF InReach, Within, Book
  <2>3. Within(programs', Fits(p, refusals + 1))
    BY <1>3, <2>1, <2>2 DEF InReach
  <2>4. publishing.stage \notin Carries => new \in Fits(p, refusals)
    BY <2>1 DEF InReach, Book
  <2>5. QED
    BY <1>1, <1>3, <2>1, <2>3, <2>4 DEF InReach
<1>9. QED
  BY <1>1, <1>2, <1>3, <1>7, <1>8 DEF DraftMoved, Stands

(* A step that adds no state to those that may still be stored. *)
LEMMA NoneAdded ==
  ASSUME NEW p, Stands(publishing, programs, p, refusals),
         DocShape(programs', ProgramCallers), programs'.memory = programs.memory,
         \A S : Within(programs, S) => Within(programs', S)
  PROVE  /\ BooksGood(programs')
         /\ refusals < HistoryLimit => InReach(publishing, programs', p, refusals)
<1>1. BooksGood(programs')
  BY DEF Stands, BooksGood
<1>2. ASSUME refusals < HistoryLimit PROVE InReach(publishing, programs', p, refusals)
  BY <1>2 DEF Stands, InReach
<1>3. QED
  BY <1>1, <1>2

(* A save of either caller is stored or refused. *)
LEMMA SaveGood ==
  ASSUME NEW p, Stands(publishing, programs, p, refusals), NEW c \in ProgramCallers, ProgramSaveStored(c)
  PROVE  DraftMoved(p)
<1> DEFINE q == publishing.program
<1>1. /\ DocShape(programs, ProgramCallers) /\ PublishGood(publishing, programs) /\ refusals \in Nat
      /\ Sent(programs, c) /\ publishing' = publishing /\ refusals' = refusals
      /\ Publisher \in ProgramCallers /\ DOMAIN programs.saves = ProgramCallers
  BY DEF ProgramSaveStored, BooksGood, ProgramCallers, DocShape, Stands
<1>2. ASSUME DocShape(programs', ProgramCallers), programs'.memory = programs.memory,
             \A S : Within(programs, S) => Within(programs', S), PublishGood(publishing, programs')
      PROVE  DraftMoved(p)
  <2>1. /\ BooksGood(programs')
        /\ refusals < HistoryLimit => InReach(publishing, programs', p, refusals)
    BY <1>2, NoneAdded
  <2>2. QED
    BY <1>1, <1>2, <2>1 DEF DraftMoved, Stands
<1>3. ASSUME Current(programs, c), programs' = Stored(programs, c) PROVE DraftMoved(p)
  <2>1. DocShape(programs', ProgramCallers) /\ programs'.memory = programs.memory
    BY <1>1, <1>3, StoredFacts
  <2>2. ASSUME NEW S, programs.memory \in S, programs.saves[c].state \in S PROVE Within(programs', S)
    BY <1>1, <1>3, <2>2, StoredWithin
  <2>3. ASSUME NEW S, Within(programs, S) PROVE Within(programs', S)
    <3>1. programs.memory \in S /\ programs.saves[c].state \in S
      BY <1>1, <1>3, <2>3 DEF Within
    <3>2. QED
      BY <2>2, <3>1
  <2>4. ASSUME c = Publisher PROVE PublishGood(publishing, programs')
    <3>1. programs'.saves[Publisher].stage = "stored"
      BY <1>1, <1>3, <2>4, OtherSave
    <3>2. ASSUME Accepted(publishing, programs') PROVE Within(programs', Aimed(q))
      <4>1. CASE publishing.stage = "intent"
        <5>1. programs.memory \in Aimed(q) /\ programs.saves[c].state \in Aimed(q)
          BY <1>1, <2>4, <4>1 DEF PublishGood, Carries
        <5>2. QED
          BY <2>2, <5>1
      <4>2. CASE publishing.stage \in {"applying", "committing"}
        BY <1>1, <2>3, <4>2 DEF PublishGood, Accepted
      <4>3. QED
        BY <3>2, <4>1, <4>2 DEF Accepted
    <3>3. QED
      BY <1>1, <2>1, <3>1, <3>2 DEF PublishGood, Sent
  <2>5. ASSUME c # Publisher PROVE PublishGood(publishing, programs')
    <3>1. programs'.saves[Publisher] = OutOfDate(programs.saves[Publisher]) /\ SaveShape(programs.saves[Publisher])
      BY <1>1, <1>3, <2>5, OtherSave DEF DocShape
    <3>2. /\ programs'.saves[Publisher].stage = programs.saves[Publisher].stage
          /\ Sent(programs', Publisher) => /\ Sent(programs, Publisher)
                                           /\ programs'.saves[Publisher].state = programs.saves[Publisher].state
      BY <3>1, OutOfDateFacts DEF Sent
    <3>3. Accepted(publishing, programs') => Accepted(publishing, programs)
      BY <3>2 DEF Accepted, Succeeds
    <3>4. QED
      BY <1>1, <2>1, <2>3, <3>2, <3>3 DEF PublishGood
  <2>6. QED
    BY <1>2, <2>1, <2>3, <2>4, <2>5
<1>4. ASSUME programs' = Refused(programs, c) PROVE DraftMoved(p)
  <2>1. DocShape(programs', ProgramCallers) /\ programs'.memory = programs.memory
    BY <1>1, <1>4, RefusedFacts
  <2>2. /\ Sent(programs', Publisher) => /\ Sent(programs, Publisher)
                                         /\ programs'.saves[Publisher].state = programs.saves[Publisher].state
        /\ Succeeds(programs', Publisher) => Succeeds(programs, Publisher)
    <3>1. CASE c = Publisher
      BY <1>1, <1>4, <3>1, OtherSave DEF Sent, Succeeds
    <3>2. CASE c # Publisher
      BY <1>1, <1>4, <3>2, OtherSave DEF Sent, Succeeds
    <3>3. QED
      BY <3>1, <3>2
  <2>3. Accepted(publishing, programs') => Accepted(publishing, programs)
    BY <2>2 DEF Accepted
  <2>4. ASSUME NEW S, Within(programs, S) PROVE Within(programs', S)
    BY <1>1, <1>4, <2>4, RefusedWithin
  <2>5. PublishGood(publishing, programs')
    BY <1>1, <2>1, <2>2, <2>3, <2>4 DEF PublishGood
  <2>6. QED
    BY <1>2, <2>1, <2>4, <2>5
<1>5. QED
  BY <1>3, <1>4 DEF ProgramSaveStored

(* A caller goes on after its save: a refused intent leaves its state in   *)
(* memory, which is one more refusal.                                      *)
LEMMA ProgramReturnGood ==
  ASSUME NEW p, Stands(publishing, programs, p, refusals), DraftReturned \/ IntentReturned \/ PublishReturned
  PROVE  DraftMoved(p)
<1>1. /\ DocShape(programs, ProgramCallers) /\ PublishGood(publishing, programs) /\ refusals \in Nat
      /\ Editor \in ProgramCallers /\ Publisher \in ProgramCallers \ {Editor}
  BY DEF Stands, BooksGood, ProgramCallers, Editor, Publisher
<1>2. ASSUME NEW c \in ProgramCallers, programs' = Returned(programs, c)
      PROVE  /\ BooksGood(programs') /\ programs'.memory = programs.memory
             /\ \A S : Within(programs, S) => Within(programs', S)
             /\ refusals < HistoryLimit => InReach(publishing, programs', p, refusals)
  <2>1. DocShape(programs', ProgramCallers) /\ programs'.memory = programs.memory
    BY <1>1, <1>2, ReturnedFacts
  <2>2. ASSUME NEW S, Within(programs, S) PROVE Within(programs', S)
    BY <1>1, <1>2, <2>2, ReturnedWithin
  <2>3. QED
    BY <2>1, <2>2, NoneAdded
<1>3. CASE DraftReturned
  <2>1. programs' = Returned(programs, Editor) /\ publishing' = publishing /\ refusals' = refusals
    BY <1>3 DEF DraftReturned
  <2>2. programs'.saves[Publisher] = programs.saves[Publisher]
    BY <1>1, <2>1, OtherSave
  <2>3. PublishGood(publishing, programs')
    BY <1>1, <1>2, <2>1, <2>2 DEF PublishGood, Accepted, Sent, Succeeds
  <2>4. QED
    BY <1>1, <1>2, <2>1, <2>3 DEF DraftMoved, Stands
<1>4. CASE IntentReturned
  <2>1. programs' = Returned(programs, Publisher) /\ publishing.stage = "intent"
    BY <1>4 DEF IntentReturned, Publishes
  <2>2. CASE publishing' = Resting /\ refusals' = refusals + 1
    <3>1. PublishGood(publishing', programs') /\ publishing'.stage \notin Carries
      BY <2>2, NoPublishGood
    <3>2. ASSUME refusals' < HistoryLimit PROVE InReach(publishing', programs', p, refusals')
      <4>1. refusals < HistoryLimit /\ refusals + 1 \in Nat
        BY <1>1, <2>2, <3>2, PublishAssumption
      <4>2. Within(programs', Fits(p, refusals + 1))
        BY <1>1, <1>2, <2>1, <4>1 DEF InReach
      <4>3. Within(programs', Fits(p, refusals + 1 + 1)) /\ programs'.memory \in Fits(p, refusals + 1)
        <5>1. Fits(p, refusals + 1) \subseteq Fits(p, refusals + 1 + 1)
          BY <4>1, MoreFits
        <5>2. QED
          BY <4>2, <5>1, WithinMore DEF Within
      <4>4. QED
        BY <2>2, <3>1, <4>3 DEF InReach
    <3>3. refusals' \in Nat
      BY <1>1, <2>2
    <3>4. QED
      BY <1>1, <1>2, <2>1, <3>1, <3>2, <3>3 DEF DraftMoved, Stands
  <2>3. CASE /\ Succeeds(programs, Publisher) /\ publishing' = [publishing EXCEPT !.stage = "applying"]
             /\ refusals' = refusals
    <3> DEFINE q == publishing.program
               previous == publishing.previous
    <3>1. publishing = [stage |-> publishing.stage, program |-> q, previous |-> previous]
      BY <1>1, <2>1 DEF PublishGood, PublishShape, Resting
    <3>2. publishing' = [stage |-> "applying", program |-> q, previous |-> previous]
      BY <2>3, <3>1
    <3>3. previous \in Books /\ programs.memory \in Aimed(q) /\ Within(programs, Aimed(q))
      BY <1>1, <2>1, <2>3 DEF PublishGood, Accepted, Carries
    <3>4. refusals < HistoryLimit => previous \in Fits(p, refusals) /\ Within(programs', Fits(p, refusals + 1))
      BY <1>1, <1>2, <2>1 DEF InReach, Carries
    <3> HIDE DEF q, previous
    <3>5. publishing'.stage = "applying" /\ publishing'.program = q /\ publishing'.previous = previous
      BY <3>2
    <3>6. PublishGood(publishing', programs')
      BY <1>1, <1>2, <2>1, <3>2, <3>3, <3>5 DEF PublishGood, PublishShape, Carries
    <3>7. refusals < HistoryLimit => InReach(publishing', programs', p, refusals)
      BY <3>4, <3>5 DEF InReach, Carries
    <3>8. QED
      BY <1>1, <1>2, <2>1, <2>3, <3>6, <3>7 DEF DraftMoved, Stands
  <2>4. QED
    BY <1>4, <2>2, <2>3 DEF IntentReturned
<1>5. CASE PublishReturned
  <2>1. /\ programs' = Returned(programs, Publisher) /\ publishing.stage = "ending" /\ publishing' = Resting
        /\ refusals' = refusals
    BY <1>5 DEF PublishReturned, Publishes
  <2>2. PublishGood(publishing', programs') /\ publishing'.stage \notin Carries
    BY <2>1, NoPublishGood
  <2>3. refusals < HistoryLimit => InReach(publishing', programs', p, refusals)
    BY <1>1, <1>2, <2>1, <2>2 DEF InReach, Carries
  <2>4. QED
    BY <1>1, <1>2, <2>1, <2>2, <2>3 DEF DraftMoved, Stands
<1>6. QED
  BY <1>3, <1>4, <1>5

(* A publish begins: the intent is on its way to the store. *)
LEMMA IntentGood ==
  ASSUME NEW p, Stands(publishing, programs, p, refusals), publishing.stage = "idle",
         NEW q \in Programs, ApplyPublishedProgram(q), refusals' = refusals
  PROVE  DraftMoved(p)
<1>1. /\ Book \in Books /\ Publisher \in ProgramCallers /\ DocShape(programs, ProgramCallers)
      /\ BooksGood(programs) /\ refusals \in Nat /\ publishing.stage \notin Carries
  BY DEF Stands, BooksGood, Within, ProgramCallers, Book, Carries
<1>2. /\ publishing' = [stage |-> "intent", program |-> q, previous |-> Book]
      /\ programs' = Changed(programs, Publisher, Intended(q))
  BY DEF ApplyPublishedProgram
<1>3. Intended(q) \in Aimed(q) /\ Intended(q) \in Books
  BY <1>1, IntendedFits DEF Aimed
<1>4. publishing'.stage = "intent" /\ publishing'.program = q /\ publishing'.previous = Book
  BY <1>2
<1>5. /\ BooksGood(programs') /\ programs'.memory = Intended(q)
      /\ \A S : Within(programs, S) /\ Intended(q) \in S => Within(programs', S)
  BY <1>1, <1>2, <1>3, ChangedBooks
<1>6. programs'.saves[Publisher].stage = "sent" /\ programs'.saves[Publisher].state = Intended(q)
  BY <1>1, <1>2, OtherSave
<1>7. ~Accepted(publishing', programs')
  BY <1>4, <1>6 DEF Accepted, Succeeds
<1>8. PublishShape(publishing')
  BY <1>2, <1>4 DEF PublishShape, Carries
<1>9. PublishGood(publishing', programs')
  BY <1>1, <1>3, <1>4, <1>5, <1>6, <1>7, <1>8 DEF PublishGood
<1>10. ASSUME refusals < HistoryLimit PROVE InReach(publishing', programs', p, refusals)
  <2>1. Within(programs, Fits(p, refusals + 1)) /\ Book \in Fits(p, refusals)
    BY <1>1, <1>10 DEF Stands, InReach, Book
  <2>2. Intended(q) \in Fits(p, refusals + 1)
    BY <1>1, <1>10, <2>1, IntendedFits
  <2>3. QED
    BY <1>4, <1>5, <2>1, <2>2 DEF InReach, Carries
<1>11. QED
  BY <1>1, <1>5, <1>9, <1>10 DEF DraftMoved, Stands

LEMMA DraftStepGood ==
  ASSUME NEW p, Stands(publishing, programs, p, refusals), DraftStep
  PROVE  DraftMoved(p)
<1>1. Book \in Books /\ Publisher \in ProgramCallers /\ Editor \in ProgramCallers
  BY DEF Stands, BooksGood, Within, ProgramCallers, Book
<1>2. /\ Book.active \in Programs /\ Book.number \in Nat
      /\ Book.draft \in {None} \cup [version : Nat, program : Programs] /\ Book.history \in Seq(Revisions)
  BY <1>1 DEF Books
<1>a. ASSUME NEW draft \in {None} \cup [version : Nat, program : Programs],
             Drafting([Book EXCEPT !.draft = draft])
      PROVE  DraftMoved(p)
  <2> DEFINE new == [Book EXCEPT !.draft = draft]
  <2>1. new \in Books /\ new.active = Book.active /\ \A d : Book \in Fits(p, d) => new \in Fits(p, d)
    BY <1>1, DraftFits
  <2>2. Drafting(new)
    BY <1>a
  <2> HIDE DEF new
  <2>3. QED
    BY <2>1, <2>2, DraftingGood
<1>3. CASE SaveDraft
  <2>1. PICK q \in Programs :
          LET version == (IF Book.draft = None THEN Book.number ELSE Book.draft.version) + 1
          IN  Drafting([Book EXCEPT !.draft = [version |-> version, program |-> q]])
    BY <1>3 DEF SaveDraft
  <2> DEFINE version == (IF Book.draft = None THEN Book.number ELSE Book.draft.version) + 1
             draft == [version |-> version, program |-> q]
  <2>2. version \in Nat
    BY <1>2
  <2>3. draft \in {None} \cup [version : Nat, program : Programs] /\ Drafting([Book EXCEPT !.draft = draft])
    BY <2>1, <2>2
  <2> HIDE DEF draft
  <2>4. QED
    BY <1>a, <2>3
<1>4. CASE DiscardDraft
  BY <1>a, <1>4 DEF DiscardDraft
<1>5. CASE ValidateDraft
  BY <1>1, <1>5, DraftingGood DEF ValidateDraft
<1>6. CASE Publish
  <2>1. publishing.stage = "idle" /\ Book.draft # None /\ refusals' = refusals
    BY <1>6 DEF Publish, Publishes
  <2>2. CASE ApplyPublishedProgram(Book.draft.program)
    <3>1. Book.draft.program \in Programs
      BY <1>2, <2>1
    <3>2. QED
      BY <2>1, <2>2, <3>1, IntentGood
  <2>3. CASE programs' = Changed(programs, Publisher, Book) /\ publishing' = [stage |-> "ending"]
    <3>1. /\ BooksGood(programs') /\ programs'.memory = Book
          /\ \A S : Within(programs, S) /\ Book \in S => Within(programs', S)
      BY <1>1, <2>3, ChangedBooks DEF Stands
    <3>2. PublishGood(publishing', programs') /\ publishing'.stage \notin Carries
      BY <2>3, NoPublishGood
    <3>3. ASSUME refusals < HistoryLimit PROVE InReach(publishing', programs', p, refusals)
      <4>1. Within(programs, Fits(p, refusals + 1)) /\ Book \in Fits(p, refusals + 1) /\ Book \in Fits(p, refusals)
        BY <2>1, <3>3 DEF Stands, InReach, Within, Book, Carries
      <4>2. QED
        BY <3>1, <3>2, <4>1 DEF InReach
    <3>4. QED
      BY <2>1, <3>1, <3>2, <3>3 DEF DraftMoved, Stands
  <2>4. QED
    BY <1>6, <2>2, <2>3 DEF Publish
<1>7. CASE Rollback
  <2>1. PICK n \in DOMAIN Book.history : ApplyPublishedProgram(Book.history[n].program)
    BY <1>7 DEF Rollback
  <2>2. Book.history[n].program \in Programs
    <3>1. Book.history[n] \in Revisions
      BY <1>2
    <3>2. QED
      BY <3>1 DEF Revisions
  <2>3. publishing.stage = "idle" /\ refusals' = refusals
    BY <1>7 DEF Rollback, Publishes
  <2>4. QED
    BY <2>1, <2>2, <2>3, IntentGood
<1>8. CASE DraftReturned \/ IntentReturned \/ PublishReturned
  BY <1>8, ProgramReturnGood
<1>9. ASSUME NEW c \in ProgramCallers, ProgramSaveStored(c) PROVE DraftMoved(p)
  BY <1>9, SaveGood
<1>10. QED
  BY <1>3, <1>4, <1>5, <1>6, <1>7, <1>8, <1>9 DEF DraftStep, ProgramCallers

(* The publisher has the engine take the program over, or puts the         *)
(* document back.                                                          *)
LEMMA RevertGood ==
  ASSUME NEW p, Stands(publishing, programs, p, refusals), publishing.stage \in Carries, Reverts,
         refusals' = refusals
  PROVE  Stands(publishing', programs', p, refusals')
<1>1. publishing.previous \in Books /\ Publisher \in ProgramCallers /\ BooksGood(programs) /\ refusals \in Nat
  BY DEF Stands, PublishGood, ProgramCallers
<1>2. programs' = Changed(programs, Publisher, publishing.previous) /\ publishing' = [stage |-> "ending"]
  BY DEF Reverts
<1>3. /\ BooksGood(programs') /\ programs'.memory = publishing.previous
      /\ \A S : Within(programs, S) /\ publishing.previous \in S => Within(programs', S)
  BY <1>1, <1>2, ChangedBooks
<1>4. PublishGood(publishing', programs') /\ publishing'.stage \notin Carries
  BY <1>2, NoPublishGood
<1>5. ASSUME refusals < HistoryLimit PROVE InReach(publishing', programs', p, refusals)
  <2>1. Within(programs, Fits(p, refusals + 1)) /\ publishing.previous \in Fits(p, refusals)
    BY <1>5 DEF Stands, InReach
  <2>2. publishing.previous \in Fits(p, refusals + 1)
    BY <1>1, <2>1, MoreFits
  <2>3. QED
    BY <1>3, <1>4, <2>1, <2>2 DEF InReach
<1>6. QED
  BY <1>1, <1>3, <1>4, <1>5 DEF Stands

LEMMA ApplyGood ==
  ASSUME EngineGood, ProgramGood, turn = "publishing", turn' = turn, Apply
  PROVE  ProgramGood'
<1> DEFINE p == engine.row.program
           q == publishing.program
<1>1. /\ Stands(publishing, programs, p, refusals) /\ refusals' = refusals
      /\ refusals \in Nat /\ BooksGood(programs) /\ PublishGood(publishing, programs)
      /\ publishing.stage = "applying"
  BY DEF ProgramGood, Apply, Publishes, Stands
<1>2. Publisher \in LockCallers
  BY DEF LockCallers
<1>3. CASE /\ Begins(Publisher, Main, [Loaded(Main) EXCEPT !.program = publishing.program])
           /\ publishing' = [publishing EXCEPT !.stage = "committing"]
           /\ UNCHANGED programs
  <2> DEFINE new == [engine.row EXCEPT !.program = q]
             previous == publishing.previous
  <2>1. StateShape(new) /\ Grown(engine.row, new) /\ new.program = q
    <3>1. StateShape(new) /\ Grown(engine.row, new)
      BY ChangesGrow
    <3>2. StateShape(engine.row)
      BY ChangesGrow
    <3>3. new.program = q
      BY <3>2 DEF StateShape
    <3>4. QED
      BY <3>1, <3>3
  <2>2. Begins(Publisher, Main, new)
    BY <1>3 DEF Loaded
  <2>3. publishing = [stage |-> publishing.stage, program |-> q, previous |-> previous]
    BY <1>1 DEF PublishGood, PublishShape, Resting
  <2>4. publishing' = [stage |-> "committing", program |-> q, previous |-> previous]
    BY <1>3, <2>3
  <2>5. /\ previous \in Books /\ programs.memory \in Aimed(q) /\ Within(programs, Aimed(q))
        /\ refusals < HistoryLimit => previous \in Fits(p, refusals) /\ Within(programs, Fits(p, refusals + 1))
    BY <1>1 DEF PublishGood, Accepted, Carries, Stands, InReach
  <2> HIDE DEF new, p, q, previous
  <2>6. engine'.row = engine.row /\ engine'.lock = <<Publisher, Main>> /\ engine'.memory[Main] = new
    BY <1>2, <2>1, <2>2, BeginsFacts, MainIsInstance
  <2>7. publishing'.stage = "committing" /\ publishing'.program = q /\ publishing'.previous = previous
    BY <2>4
  <2>8. Stands(publishing', programs', p, refusals')
    <3>1. PublishGood(publishing', programs')
      BY <1>3, <2>4, <2>5, <2>7 DEF PublishGood, PublishShape, Carries
    <3>2. refusals < HistoryLimit => InReach(publishing', programs', p, refusals)
      BY <1>3, <2>5, <2>7 DEF InReach, Carries
    <3>3. QED
      BY <1>1, <1>3, <3>1, <3>2 DEF Stands
  <2>9. LocksFollow("publishing", engine', publishing')
    <3>1. ASSUME NEW c \in LockCallers, NEW i \in Instances, engine'.lock = <<c, i>> PROVE c = Publisher /\ i = Main
      BY <2>6, <3>1
    <3>2. QED
      BY <2>1, <2>6, <2>7, <3>1 DEF LocksFollow
  <2>10. QED
    BY <2>6, <2>8, <2>9 DEF ProgramGood, p
<1>4. CASE Throws(Main, Loaded(Main)) /\ Reverts
  <2>1. engine'.row = engine.row /\ engine'.lock = None
    BY <1>4, ThrowsFacts, ChangesGrow, MainIsInstance DEF Free
  <2>2. Stands(publishing', programs', p, refusals')
    BY <1>1, <1>4, RevertGood DEF Carries
  <2>3. LocksFollow(turn, engine', publishing')
    BY <2>1, NobodyFollows
  <2>4. QED
    BY <2>1, <2>2, <2>3 DEF ProgramGood
<1>5. QED
  BY <1>3, <1>4 DEF Apply

(* After the commit the program is the active one wherever it counts. *)
LEMMA ApplyCommittedGood ==
  ASSUME EngineGood, ProgramGood, turn = "publishing", turn' = turn, ApplyCommitted
  PROVE  ProgramGood'
<1> DEFINE q == publishing.program
<1>1. /\ programs' = programs /\ BooksGood(programs) /\ PublishGood(publishing, programs)
      /\ publishing.stage = "committing" /\ publishing' = Resting /\ refusals' = 0 /\ Publisher \in LockCallers
  BY DEF ProgramGood, Stands, ApplyCommitted, Publishes, LockCallers
<1>2. engine'.row = engine.memory[Main] /\ engine'.lock = None /\ engine.lock = <<Publisher, Main>>
  BY <1>1, CommitsFacts, MainIsInstance DEF ApplyCommitted
<1>3. engine'.row.program = q
  <2>1. LocksFollow("publishing", engine, publishing)
    BY DEF ProgramGood
  <2>2. engine.memory[Main].program = publishing.program
    BY <1>1, <1>2, <2>1, MainIsInstance DEF LocksFollow
  <2>3. QED
    BY <1>2, <2>2
<1>4. Within(programs, Aimed(q))
  BY <1>1 DEF PublishGood, Accepted
<1> HIDE DEF q
<1>5. InReach(publishing', programs', q, 0)
  <2>1. Aimed(q) \subseteq Fits(q, 0) /\ Aimed(q) \subseteq Fits(q, 0 + 1)
    BY AimedFits
  <2>2. Within(programs, Fits(q, 0 + 1)) /\ programs.memory \in Fits(q, 0)
    BY <1>4, <2>1, WithinMore DEF Within
  <2>3. QED
    BY <1>1, <2>2, NoPublishGood DEF InReach
<1>6. Stands(publishing', programs', q, refusals')
  BY <1>1, <1>5, NoPublishGood DEF Stands
<1>7. LocksFollow(turn, engine', publishing')
  BY <1>2, NobodyFollows
<1>8. QED
  BY <1>3, <1>6, <1>7 DEF ProgramGood

LEMMA ApplyRolledBackGood ==
  ASSUME EngineGood, ProgramGood, turn = "publishing", turn' = turn, ApplyRolledBack
  PROVE  ProgramGood'
<1> DEFINE p == engine.row.program
<1>1. /\ Stands(publishing, programs, p, refusals) /\ refusals' = refusals
      /\ publishing.stage = "committing" /\ Reverts
  BY DEF ProgramGood, ApplyRolledBack, Publishes
<1>2. engine'.row = engine.row /\ engine'.lock = None
  <2>1. engine' = [engine EXCEPT !.lock = None, !.memory[Main].program = engine.row.program]
    BY DEF ApplyRolledBack
  <2>2. engine = [row |-> engine.row, memory |-> engine.memory, lock |-> engine.lock]
    BY DEF EngineGood, EngineShape
  <2>3. QED
    BY <2>1, <2>2
<1>3. Stands(publishing', programs', p, refusals')
  BY <1>1, RevertGood DEF Carries
<1>4. LocksFollow(turn, engine', publishing')
  BY <1>2, NobodyFollows
<1>5. QED
  BY <1>2, <1>3, <1>4 DEF ProgramGood

(* A start retargets the stored engine to the active program. *)
LEMMA ProgramBootGood ==
  ASSUME EngineGood, ProgramGood, turn' = turn, ProgramBoot
  PROVE  ProgramGood'
<1> DEFINE p == engine.row.program
           q == programs.row.active
           row == [engine.row EXCEPT !.program = q]
<1>1. /\ BooksGood(programs) /\ programs' = Reloaded(programs) /\ publishing' = Resting /\ refusals' = 0
      /\ engine' = Restarted(Main, q) /\ LocksFollow(turn, engine, publishing)
      /\ turn # "publishing" => q = p
  BY DEF ProgramGood, Stands, ProgramBoot
<1>2. engine'.row = row /\ engine'.lock = IF ~Free /\ engine.lock[2] = Main THEN None ELSE engine.lock
  BY <1>1 DEF Restarted
<1>3. StateShape(engine.row)
  BY DEF EngineGood, EngineShape
<1>4. engine'.row.program = q
  BY <1>2, <1>3 DEF StateShape
<1> HIDE DEF row
<1>5. programs'.row = programs.row /\ programs'.memory = programs.row /\ DocShape(programs', ProgramCallers)
  BY <1>1, ReloadedFacts DEF BooksGood, Reloaded, NewDocument
<1>6. programs.row \in Books /\ programs.row \in Aimed(q)
  BY <1>1 DEF BooksGood, Within, Aimed
<1>7. BooksGood(programs')
  BY <1>1, <1>5, <1>6, ReloadedWithin DEF BooksGood
<1>8. InReach(publishing', programs', q, 0)
  <2>1. programs.row \in Fits(q, 0) /\ programs.row \in Fits(q, 0 + 1)
    BY <1>6, AimedFits
  <2>2. Within(programs', Fits(q, 0 + 1))
    BY <1>1, <2>1, ReloadedWithin
  <2>3. QED
    BY <1>1, <1>5, <2>1, <2>2, NoPublishGood DEF InReach
<1>9. Stands(publishing', programs', q, refusals')
  BY <1>1, <1>7, <1>8, NoPublishGood DEF Stands
<1>10. LocksFollow(turn, engine', publishing')
  <2>1. CASE turn = "publishing"
    <3>1. ASSUME NEW c \in LockCallers, NEW i \in Instances, engine'.lock = <<c, i>> PROVE FALSE
      <4>1. engine.lock = <<c, i>> /\ i # Main
        BY <1>2, <3>1, LockAssumption DEF Free
      <4>2. QED
        BY <1>1, <2>1, <4>1 DEF LocksFollow
    <3>2. QED
      BY <3>1 DEF LocksFollow
  <2>2. CASE turn # "publishing"
    <3>1. LocksFollow(turn, engine', publishing)
      BY <1>1, <2>2, RestartKeeps, MainIsInstance DEF EngineKept
    <3>2. QED
      BY <2>2, <3>1 DEF LocksFollow
  <2>3. QED
    BY <2>1, <2>2
<1>11. QED
  BY <1>4, <1>5, <1>9, <1>10 DEF ProgramGood

LEMMA ProgramGoodInit == Init => ProgramGood
<1> SUFFICES ASSUME Init PROVE ProgramGood
  OBVIOUS
<1> DEFINE first == [active |-> FirstProgram, number |-> 1, history |-> << >>, draft |-> None]
<1>1. /\ programs = NewDocument(first, ProgramCallers) /\ publishing = Resting /\ refusals = 0
  BY DEF Init, ProgramInit, ProgramCallers
<1>2. engine.row.program = FirstProgram /\ engine.lock = None
  BY DEF Init, PlatformInit, FirstState
<1>3. first \in Books /\ first.active = FirstProgram
  BY PlatformAssumption DEF Books
<1> HIDE DEF first
<1>4. first \in Fits(FirstProgram, 0) /\ first \in Fits(FirstProgram, 0 + 1)
  BY <1>3, AimedFits DEF Aimed
<1>5. /\ programs.memory = first /\ programs.row = first
      /\ programs.saves = [c \in ProgramCallers |-> NoSave]
  BY <1>1 DEF NewDocument
<1>6. BooksGood(programs) /\ Within(programs, Fits(FirstProgram, 0 + 1))
  BY <1>1, <1>3, <1>4, <1>5, NewDocumentFacts DEF BooksGood, Within, Sent, NoSave
<1>7. InReach(publishing, programs, FirstProgram, 0)
  BY <1>1, <1>4, <1>5, <1>6, NoPublishGood DEF InReach
<1>8. Stands(publishing, programs, FirstProgram, refusals)
  BY <1>1, <1>6, <1>7, NoPublishGood DEF Stands
<1>9. LocksFollow(turn, engine, publishing)
  BY <1>2, NobodyFollows
<1>10. QED
  BY <1>2, <1>3, <1>5, <1>8, <1>9 DEF ProgramGood

LEMMA ProgramGoodStep == ProgramGood /\ RequestShape /\ EngineGood /\ [Next]_vars => ProgramGood'
<1> SUFFICES ASSUME ProgramGood, RequestShape, EngineGood, [Next]_vars PROVE ProgramGood'
  OBVIOUS
<1>1. LocksFollow(turn, engine, publishing)
  BY DEF ProgramGood
<1>2. ASSUME EngineKept, UNCHANGED <<programs, publishing, refusals, turn>> PROVE ProgramGood'
  BY <1>2 DEF ProgramGood, EngineKept
<1>3. CASE Publishing
  <2>1. turn' = turn /\ turn = "publishing"
    BY <1>3 DEF Publishing
  <2>2. CASE RewardUse /\ UNCHANGED programVars
    BY <1>1, <1>2, <2>1, <2>2, QuietStep
  <2>3. CASE DraftStep /\ UNCHANGED platformVars
    <3>1. DraftMoved(engine.row.program)
      BY <2>3, DraftStepGood DEF ProgramGood
    <3>2. engine' = engine
      BY <2>3 DEF platformVars
    <3>3. LocksFollow("publishing", engine', publishing')
      <4>1. CASE UNCHANGED publishing
        BY <1>1, <2>1, <3>2, <4>1
      <4>2. CASE publishing.stage # "committing"
        BY <1>1, <2>1, <3>2, <4>2 DEF LocksFollow
      <4>3. QED
        BY <3>1, <4>1, <4>2 DEF DraftMoved
    <3>4. QED
      BY <2>1, <3>1, <3>2, <3>3 DEF ProgramGood, DraftMoved
  <2>4. CASE Apply \/ ApplyCommitted \/ ApplyRolledBack
    BY <2>1, <2>4, ApplyGood, ApplyCommittedGood, ApplyRolledBackGood
  <2>5. QED
    BY <1>3, <2>2, <2>3, <2>4 DEF Publishing, ProgramNext
<1>4. CASE Crash
  BY <1>4, ProgramBootGood DEF Crash
<1>5. CASE ~Publishing /\ ~Crash
  BY <1>1, <1>2, <1>5, QuietStep DEF Next
<1>6. QED
  BY <1>3, <1>4, <1>5

(* Wherever a publish or a rollback is interrupted, refused or undone, and *)
(* however often the history was cut, the stored document still knows the  *)
(* program the stored engine was saved under (program-management.ts): of   *)
(* all that can happen only refused intents push that program down for     *)
(* good, and it takes as many of them in a row as revisions are kept.      *)
THEOREM StartupFindsProgram == Spec => []StartupKnowsProgram
<1>1. ProgramGood => StartupKnowsProgram
  <2> SUFFICES ASSUME ProgramGood, refusals < HistoryLimit PROVE Known(programs.row, engine.row.program)
    BY DEF StartupKnowsProgram
  <2>1. programs.row \in Fits(engine.row.program, refusals + 1) /\ refusals + 1 \in Nat
    BY DEF ProgramGood, Stands, InReach, Within
  <2>2. QED
    BY <2>1, FitsKnow
<1>2. QED
  BY <1>1, ProgramGoodStep, ProgramGoodInit, AlwaysEngineGood, PTL DEF Spec, IdleSpec
===============================================================================
