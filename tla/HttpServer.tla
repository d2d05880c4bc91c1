------------------------------ MODULE HttpServer ------------------------------
(* The request handler of a tenant: who is calling is looked up once or    *)
(* several times, each an await; then writes of the protocol and of the    *)
(* platform pass the write freeze and the rate limit, the body is read,    *)
(* and the operation runs.  Requests overlap, keys are revoked and the     *)
(* freeze is switched while others wait.  The operations themselves belong *)
(* to the other services; the ones that change what the handler looks at   *)
(* are done here.  The audit entry written after an answer is left out.    *)
EXTENDS Common, Sequences

CONSTANTS Slots,       \* requests in progress at once
          HttpKeys,    \* API keys of the tenant
          Rights,      \* [HttpKeys -> set of permissions]
          ScopedKeys,  \* the keys with allowed_location_ids
          RateLimit,   \* requests of one window
          MaxArrivals  \* bound on the requests of a behaviour

ASSUME HttpAssumption ==
  /\ ScopedKeys \subseteq HttpKeys /\ HttpKeys \cap {None, "root"} = {} /\ None # "root"
  /\ RateLimit \in Nat \ {0} /\ MaxArrivals \in Nat

VARIABLES valid,     \* keys that authenticate
          sessions,  \* principals with an admin session
          frozen,
          count,     \* requests counted in the window
          slots,     \* the request of each slot
          arrivals

httpVars == <<valid, sessions, frozen, count, slots, arrivals>>
Root == "root"
Vacant == [stage |-> "idle"]
Serves(s, r) == slots' = [slots EXCEPT ![s] = r]
Busy(s, stage) == slots[s].stage = stage

-------------------------------------------------------------------------------
(* Routes, by what stands between them and their operation: the lookups in *)
(* their order, each with the permission it demands ("any": none,          *)
(* "unscoped": no location scope either), the write freeze, the rate       *)
(* limit, a body, and a last lookup of the actor after the body.           *)
Open ==
  [lookups |-> << >>, bearer |-> FALSE, freeze |-> FALSE, limit |-> FALSE, body |-> FALSE,
   actor |-> FALSE, effect |-> "none"]
Metrics == [Open EXCEPT !.lookups = <<"protocol:read">>, !.bearer = TRUE]
Capabilities == [Metrics EXCEPT !.limit = TRUE]
ProtocolRead == [Capabilities EXCEPT !.body = TRUE]
ProtocolWrite == [ProtocolRead EXCEPT !.lookups = <<"protocol:write">>, !.freeze = TRUE]
PlatformRead == [Capabilities EXCEPT !.lookups = <<"platform:read">>]
PlatformWriteThawed ==  \* mutant: the freeze is asked for the protocol only
  [PlatformRead EXCEPT !.lookups = <<"platform:write">>, !.body = TRUE]
PlatformWrite == [PlatformRead EXCEPT !.lookups = <<"platform:write">>, !.freeze = TRUE, !.body = TRUE]
AdminRead == [Open EXCEPT !.lookups = <<"unscoped", "admin:read">>]
AdminCall == [Open EXCEPT !.lookups = <<"admin:read", "admin:write">>, !.body = TRUE]
AdminWrite == [AdminCall EXCEPT !.actor = TRUE]

(* The routes of each resource. *)
Bootstrap == [Open EXCEPT !.lookups = <<"any">>]
PlatformMarketing == PlatformWrite  \* segments and campaigns
PlatformImports == PlatformWrite    \* connectors and imports
SnapshotRead == AdminRead
Analytics == AdminRead
EngagementWrite == AdminCall
AccessWrite ==  \* whoever calls is looked up once more, and its permission asked for once more
  [AdminCall EXCEPT !.lookups = <<"admin:read", "access:manage", "access:manage">>, !.effect = "revoke"]
MembershipWrite == AdminWrite
LocationRead == [Open EXCEPT !.lookups = <<"admin:read", "any">>]
LocationWrite == [AdminWrite EXCEPT !.lookups = <<"admin:read", "any", "admin:write">>]
CampaignWrite == AdminCall
CampaignRun == AdminWrite
MemberInspection == [AdminCall EXCEPT !.lookups = <<"admin:read">>]
MemberErasure == AdminCall
Maintenance == [AdminCall EXCEPT !.effect = "freeze"]
WebhookHealth == AdminRead
WebhookWrite == AdminCall
ProgramDraft == AdminWrite
ProgramRelease == [AdminWrite EXCEPT !.lookups = <<"admin:read", "program:publish">>]
Routes ==
  {Open, Metrics, Capabilities, ProtocolRead, ProtocolWrite, PlatformRead, PlatformWrite,
   PlatformMarketing, PlatformImports, Bootstrap, SnapshotRead, Analytics, EngagementWrite, AccessWrite,
   MembershipWrite, LocationRead, LocationWrite, CampaignWrite, CampaignRun, MemberInspection,
   MemberErasure, Maintenance, WebhookHealth, WebhookWrite, ProgramDraft, ProgramRelease}

-------------------------------------------------------------------------------
(* bearerPrincipal and adminPrincipal: a key counts while it is valid, a   *)
(* session as long as the process remembers it.                            *)
Credentials == ({"bearer", "session"} \X (HttpKeys \cup {Root})) \cup {<<"none", None>>}
Principal(cred, bearer) ==
  IF \/ cred[1] = "bearer" /\ cred[2] \in valid \cup {Root}
     \/ cred[1] = "session" /\ cred[2] \in sessions /\ ~bearer
  THEN cred[2] ELSE None
Has(p, permission) == p = Root \/ (p \in HttpKeys /\ permission \in Rights[p])
Passes(r, permission) ==
  LET p == Principal(r.cred, r.route.bearer) IN
  CASE permission = "any"      -> TRUE
    [] permission = "unscoped" -> p \notin ScopedKeys
    [] permission \in {"platform:read", "platform:write"} -> Has(p, permission) /\ p \notin ScopedKeys
    [] OTHER -> Has(p, permission)

-------------------------------------------------------------------------------
(* A request arrives; missed notes why it has to be refused if nothing     *)
(* changes: writes are frozen, or its key is no longer valid.              *)
Missed(cred) ==
  (IF frozen THEN {"frozen"} ELSE {}) \cup
  (IF cred[1] = "bearer" /\ cred[2] \in HttpKeys \ valid THEN {"revoked"} ELSE {})
Arrive(s) ==
  /\ slots[s] = Vacant /\ arrivals < MaxArrivals
  /\ \E route \in Routes, cred \in Credentials :
       Serves(s, [stage |-> "looking", route |-> route, left |-> route.lookups, cred |-> cred,
                  missed |-> Missed(cred)])
  /\ arrivals' = arrivals + 1
  /\ UNCHANGED <<valid, sessions, frozen, count>>

(* One lookup and its await; a refusal is an answer. *)
Lookup(s) ==
  LET r == slots[s] IN
  /\ Busy(s, "looking") /\ r.left # << >>
  /\ \/ Passes(r, Head(r.left)) /\ Serves(s, [r EXCEPT !.left = Tail(@)])
     \/ ~Passes(r, Head(r.left)) /\ Serves(s, Vacant)
  /\ UNCHANGED <<valid, sessions, frozen, count, arrivals>>

(* The freeze, protocolWriteGuard and enforceRateLimit, in one step after  *)
(* the last lookup; denied is the answer of the host's own guard.          *)
Guard(s) ==
  LET r == slots[s] IN
  /\ Busy(s, "looking") /\ r.left = << >>
  /\ \E denied \in IF r.route = ProtocolWrite THEN BOOLEAN ELSE {FALSE} :
       LET shut == (r.route.freeze /\ frozen) \/ denied
           limited == r.route.limit /\ ~shut
       IN  /\ count' = IF limited /\ count <= RateLimit THEN count + 1 ELSE count
           /\ \/ /\ shut \/ (limited /\ count >= RateLimit)
                 /\ Serves(s, Vacant)
              \/ /\ ~shut /\ ~(limited /\ count >= RateLimit)
                 /\ Serves(s, [r EXCEPT !.stage = IF r.route.body THEN "reading" ELSE "operating"])
  /\ UNCHANGED <<valid, sessions, frozen, arrivals>>

(* readBody: too large, broken off or invalid, or a request to carry out.  *)
ReadBody(s) ==
  /\ Busy(s, "reading")
  /\ \/ Serves(s, Vacant)
     \/ Serves(s, [slots[s] EXCEPT !.stage = IF slots[s].route.actor THEN "naming" ELSE "operating"])
  /\ UNCHANGED <<valid, sessions, frozen, count, arrivals>>
AdminActor(s) ==  \* an actor that is not found is recorded as unknown
  /\ Busy(s, "naming")
  /\ Serves(s, [slots[s] EXCEPT !.stage = "operating"])
  /\ UNCHANGED <<valid, sessions, frozen, count, arrivals>>

(* The operation and its answer.  setWriteFrozen(false) also opens the     *)
(* writes of the requests that wait.                                       *)
Without(why) == [t \in Slots |-> IF Busy(t, "idle") THEN slots[t] ELSE [slots[t] EXCEPT !.missed = @ \ why]]
Operate(s) ==
  LET effect == slots[s].route.effect IN
  /\ Busy(s, "operating")
  /\ \/ effect = "none" /\ Serves(s, Vacant) /\ UNCHANGED <<valid, frozen>>
     \/ /\ effect = "freeze" /\ frozen' \in BOOLEAN
        /\ slots' = [(IF frozen' THEN slots ELSE Without({"frozen"})) EXCEPT ![s] = Vacant]
        /\ UNCHANGED valid
     \/ /\ effect = "revoke" /\ \E k \in HttpKeys : valid' = valid \ {k}
        /\ Serves(s, Vacant) /\ UNCHANGED frozen
  /\ UNCHANGED <<sessions, count, arrivals>>

(* The session route looks its key up after the body; logout forgets the   *)
(* session.  Both answer in the step in which they change the sessions.    *)
SignIn ==
  /\ arrivals < MaxArrivals
  /\ \E p \in valid \cup {Root} : Has(p, "admin:read") /\ sessions' = sessions \cup {p}
  /\ arrivals' = arrivals + 1
  /\ UNCHANGED <<valid, frozen, count, slots>>
Logout ==
  /\ arrivals < MaxArrivals
  /\ \E p \in sessions : sessions' = sessions \ {p}
  /\ arrivals' = arrivals + 1
  /\ UNCHANGED <<valid, frozen, count, slots>>

(* The window of the limiter ends; the next request starts another.        *)
WindowEnds ==
  /\ count > 0 /\ count' = 0
  /\ UNCHANGED <<valid, sessions, frozen, slots, arrivals>>

HttpNext ==
  \/ SignIn \/ Logout \/ WindowEnds
  \/ \E s \in Slots :
       Arrive(s) \/ Lookup(s) \/ Guard(s) \/ ReadBody(s) \/ AdminActor(s) \/ Operate(s)
HttpInit(freeze) ==  \* started with or without --write-freeze
  /\ valid = HttpKeys /\ sessions = {} /\ frozen \in freeze /\ count = 0
  /\ slots = [s \in Slots |-> Vacant] /\ arrivals = 0
HttpBoot ==  \* sessions, the freeze and the window are of the process
  /\ sessions' = {} /\ frozen' \in BOOLEAN /\ count' = 0
  /\ slots' = [s \in Slots |-> Vacant]
  /\ UNCHANGED <<valid, arrivals>>

-------------------------------------------------------------------------------
(* docs/reference-platform.md:171 "While frozen, any /lip/v1 request       *)
(* classified as a protocol write ... receives 503", and platform writes   *)
(* with it: a write that arrived while writes were frozen, or under a key  *)
(* that was already revoked, is never carried out before writes are open   *)
(* again, however its lookups interleave with those of other requests.     *)
LateWritesRefused ==
  \A s \in Slots : Busy(s, "operating") /\ slots[s].route \in {ProtocolWrite, PlatformWrite} =>
                     slots[s].missed = {}
===============================================================================
