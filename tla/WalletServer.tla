------------------------------ MODULE WalletServer ------------------------------
(* The backend of the reference wallet: sign-in with an identity provider, *)
(* sessions and the requests it forwards to the customer API.  A sign-in   *)
(* leaves a pending login for its state; the callback takes the login and  *)
(* then waits for the provider several times before the session is made.   *)
(* The demo mode, which answers synthetic data, and the page are left out. *)
EXTENDS Common

CONSTANTS States,      \* the values of state, in the cookies of browsers
          SessionIds,  \* ids of sessions
          Tabs,        \* requests in progress at once
          LoginTtl, SessionTtl,     \* ticks until a login and a session expire
          MaxPending, MaxSessions,  \* MAX_PENDING_LOGINS, MAX_SESSIONS
          LastTick     \* bound on the clock

ASSUME WalletAssumption == MaxPending \in Nat /\ MaxSessions \in Nat

VARIABLES tick,       \* Date.now()
          discovered, \* discoveryCache is filled
          logins,     \* pending: state -> expiry
          sessions,   \* session id -> [state: of its login, expires]
          tabs,       \* the request in each tab
          issued,     \* the states browsers were given
          made        \* {<<state, session id>>}: the sessions that were made

walletVars == <<tick, discovered, logins, sessions, tabs, issued, made>>
Blank == [stage |-> "idle"]
Waits(b, stage) == tabs[b].stage = stage
Shows(b, request) == tabs' = [tabs EXCEPT ![b] = request]

(* pruneExpired *)
PrunedLogins == [s \in {x \in DOMAIN logins : logins[x] > tick} |-> logins[s]]
PrunedSessions == [i \in {x \in DOMAIN sessions : sessions[x].expires > tick} |-> sessions[i]]

-------------------------------------------------------------------------------
(* discovery: nothing is waited for when the document is cached; then is   *)
(* where the request goes on.                                              *)
Discovery(b, then) ==
  Shows(b, IF discovered THEN then ELSE [stage |-> "discovery", then |-> then])
DiscoveryAnswered(b) ==
  /\ Waits(b, "discovery")
  /\ \/ discovered' = TRUE /\ Shows(b, tabs[b].then)
     \/ Shows(b, Blank) /\ UNCHANGED discovered
  /\ UNCHANGED <<tick, logins, sessions, issued, made>>

(* GET /auth/login *)
Login(b) ==
  /\ tabs[b] = Blank /\ issued # States
  /\ Discovery(b, [stage |-> "login"])
  /\ UNCHANGED <<tick, discovered, logins, sessions, issued, made>>
LoginIssued(b) ==
  /\ Waits(b, "login")
  /\ \/ /\ Cardinality(DOMAIN PrunedLogins) < MaxPending
        /\ \E s \in States \ issued :
             logins' = Put(PrunedLogins, s, tick + LoginTtl) /\ issued' = issued \cup {s}
     \/ /\ Cardinality(DOMAIN PrunedLogins) >= MaxPending
        /\ logins' = PrunedLogins /\ UNCHANGED issued
  /\ sessions' = PrunedSessions
  /\ Shows(b, Blank)
  /\ UNCHANGED <<tick, discovered, made>>

(* GET /auth/callback with a state the browser was given, which takes the  *)
(* login; a reload sends it again.                                         *)
LoginOf(s) == s \in DOMAIN logins /\ logins[s] > tick
CallbackKeeping(b) ==  \* mutant: the login stays until it expires
  /\ tabs[b] = Blank
  /\ \E s \in issued : LoginOf(s) /\ Discovery(b, [stage |-> "token", state |-> s])
  /\ UNCHANGED <<tick, discovered, logins, sessions, issued, made>>
Callback(b) ==
  /\ tabs[b] = Blank
  /\ \E s \in issued :
       /\ LoginOf(s)
       /\ logins' = [x \in DOMAIN logins \ {s} |-> logins[x]]
       /\ Discovery(b, [stage |-> "token", state |-> s])
  /\ UNCHANGED <<tick, discovered, sessions, issued, made>>

(* The exchange of the code and the keys of the provider: an answer, or    *)
(* the end of the request.                                                 *)
AfterAnswer == [token |-> "keys", keys |-> "verify"]
ProviderAnswered(b) ==
  /\ tabs[b].stage \in DOMAIN AfterAnswer
  /\ Shows(b, [tabs[b] EXCEPT !.stage = AfterAnswer[@]]) \/ Shows(b, Blank)
  /\ UNCHANGED <<tick, discovered, logins, sessions, issued, made>>

(* The token is verified and its nonce is that of the login, or not. *)
SessionMade(b) ==
  \E i \in SessionIds \ {x[2] : x \in made} :
    /\ sessions' = Put(PrunedSessions, i, [state |-> tabs[b].state, expires |-> tick + SessionTtl])
    /\ made' = made \cup {<<tabs[b].state, i>>}
Verified(b) ==
  /\ Waits(b, "verify")
  /\ \/ /\ Cardinality(DOMAIN PrunedSessions) < MaxSessions /\ SessionMade(b)
        /\ logins' = PrunedLogins
     \/ /\ Cardinality(DOMAIN PrunedSessions) >= MaxSessions
        /\ sessions' = PrunedSessions /\ logins' = PrunedLogins /\ UNCHANGED made
     \/ UNCHANGED <<sessions, logins, made>>
  /\ Shows(b, Blank)
  /\ UNCHANGED <<tick, discovered, issued>>

-------------------------------------------------------------------------------
(* POST /auth/logout *)
Logout(b) ==
  /\ tabs[b] = Blank
  /\ \E i \in DOMAIN sessions : sessions' = [j \in DOMAIN sessions \ {i} |-> sessions[j]]
  /\ UNCHANGED <<tick, discovered, logins, tabs, issued, made>>

(* The /api routes: the session is looked up once.  A write reads its body *)
(* then, and the request is forwarded with the token of the session, also  *)
(* when it was signed out meanwhile.                                       *)
ActiveSession(b) ==
  /\ tabs[b] = Blank
  /\ logins' = PrunedLogins /\ sessions' = PrunedSessions
  /\ \E x \in made, stage \in {"body", "forwarded"} :
       Shows(b, IF x[2] \in DOMAIN PrunedSessions THEN [stage |-> stage] ELSE Blank)
  /\ UNCHANGED <<tick, discovered, issued, made>>
CloudRequest(b) ==
  /\ Waits(b, "body")
  /\ Shows(b, [stage |-> "forwarded"]) \/ Shows(b, Blank)
  /\ UNCHANGED <<tick, discovered, logins, sessions, issued, made>>
CloudAnswered(b) ==
  /\ Waits(b, "forwarded") /\ Shows(b, Blank)
  /\ UNCHANGED <<tick, discovered, logins, sessions, issued, made>>

TimePasses ==
  /\ tick < LastTick /\ tick' = tick + 1
  /\ UNCHANGED <<discovered, logins, sessions, tabs, issued, made>>

WalletInit ==
  /\ tick = 0 /\ discovered = FALSE
  /\ logins = << >> /\ sessions = << >> /\ issued = {} /\ made = {}
  /\ tabs = [b \in Tabs |-> Blank]
WalletNext ==
  \/ TimePasses
  \/ \E b \in Tabs :
       \/ Login(b) \/ DiscoveryAnswered(b) \/ LoginIssued(b) \/ Callback(b) \/ ProviderAnswered(b)
       \/ Verified(b) \/ Logout(b) \/ ActiveSession(b) \/ CloudRequest(b) \/ CloudAnswered(b)
WalletSpec == WalletInit /\ [][WalletNext]_walletVars

-------------------------------------------------------------------------------
(* A callback that is sent again while the first one waits for the         *)
(* provider, or later, makes no second session of its login; and however   *)
(* many requests wait, no more logins and sessions are kept than the       *)
(* limits of the server allow.                                             *)
LoginTakenOnce ==
  /\ \A x, y \in made : x[1] = y[1] => x = y
  /\ Cardinality(DOMAIN logins) <= MaxPending /\ Cardinality(DOMAIN sessions) <= MaxSessions
===============================================================================
