---------------------------- MODULE CredentialProofs ----------------------------
(***************************************************************************)
(* Proofs about CredentialOperations and the access control under it, for  *)
(* every set of keys, people, scopes, idempotency keys and requests: what  *)
(* was answered is stored, no scope widens, and one credential is issued   *)
(* for an idempotency key.                                                 *)
(***************************************************************************)
EXTENDS CredentialOperations, TLAPS

-------------------------------------------------------------------------------
(* A state of the service: its shape, and the scopes people were given.    *)

KeyShape(x) ==
  /\ x = [active |-> x.active, expires |-> x.expires, scope |-> x.scope, holder |-> x.holder]
  /\ x.active \in BOOLEAN
Shape(s) ==
  /\ s = [keys |-> s.keys, users |-> s.users]
  /\ s.keys = [k \in Keys(s) |-> s.keys[k]]
  /\ \A k \in Keys(s) : KeyShape(s.keys[k])
Scoped(s) ==
  /\ \A k \in Keys(s) : s.keys[k].holder \in People => s.keys[k].scope \subseteq Reach[s.keys[k].holder]
  /\ \A u \in DOMAIN s.users : u \in People /\ s.users[u].scope \subseteq Reach[u]
Fine(s) == Shape(s) /\ Scoped(s)

(* What no change of the service takes back: a key, and its revocation.    *)
Ended(s, k) == k \in Keys(s) /\ ~s.keys[k].active
Below(s, t) == Keys(s) \subseteq Keys(t) /\ \A k : Ended(s, k) => Ended(t, k)

LEMMA BelowIsOrder ==
  /\ \A s : Below(s, s)
  /\ \A s, t, u : Below(s, t) /\ Below(t, u) => Below(s, u)
BY DEF Below

LEMMA CreateFine ==
  ASSUME NEW s, Fine(s), NEW k, k \notin Keys(s), NEW who, NEW scope, NEW expires,
         who \in People => scope \subseteq Reach[who]
  PROVE  LET t == CreateApiKey(s, k, who, scope, expires)
         IN  Fine(t) /\ Below(s, t) /\ k \in Keys(t)
<1> DEFINE t == CreateApiKey(s, k, who, scope, expires)
           x == [active |-> TRUE, expires |-> expires, scope |-> scope, holder |-> who]
<1>1. s = [keys |-> s.keys, users |-> s.users]
  BY DEF Fine, Shape
<1>2. /\ t.keys = Put(s.keys, k, x) /\ t.users = s.users
      /\ t = [keys |-> t.keys, users |-> t.users]
  BY <1>1 DEF CreateApiKey
<1>3. KeyShape(x) /\ x.holder = who /\ x.scope = scope
  BY DEF KeyShape
<1> HIDE DEF t, x
<1>4. /\ Keys(t) = Keys(s) \cup {k} /\ t.keys[k] = x
      /\ \A j \in Keys(s) : t.keys[j] = s.keys[j]
      /\ t.keys = [j \in Keys(t) |-> t.keys[j]]
  BY <1>2 DEF Keys, Put
<1>5. Shape(t)
  BY <1>2, <1>3, <1>4 DEF Fine, Shape
<1>6. Scoped(t)
  BY <1>2, <1>3, <1>4 DEF Fine, Scoped
<1>7. Below(s, t)
  BY <1>4 DEF Below, Ended
<1>8. QED
  BY <1>4, <1>5, <1>6, <1>7 DEF Fine, t

LEMMA RotateFine ==
  ASSUME NEW s, Fine(s), NEW old \in Keys(s), NEW k, k \notin Keys(s), NEW who, NEW overlap,
         who \in People => s.keys[old].scope \subseteq Reach[who]
  PROVE  LET t == RotateApiKey(s, old, k, who, overlap)
         IN  Fine(t) /\ Below(s, t) /\ k \in Keys(t)
<1> DEFINE end == IF s.keys[old].expires < clock + overlap THEN s.keys[old].expires ELSE clock + overlap
           u == [s EXCEPT !.keys[old].expires = end]
           x == [s.keys[old] EXCEPT !.expires = end]
<1>1. RotateApiKey(s, old, k, who, overlap) =
        CreateApiKey(u, k, who, s.keys[old].scope, s.keys[old].expires)
  BY DEF RotateApiKey
<1> HIDE DEF end
<1>2. /\ s = [keys |-> s.keys, users |-> s.users]
      /\ s.keys = [j \in Keys(s) |-> s.keys[j]]
      /\ KeyShape(s.keys[old])
  BY DEF Fine, Shape
<1>3. /\ u.keys = [s.keys EXCEPT ![old] = x] /\ u.users = s.users
      /\ u = [keys |-> u.keys, users |-> u.users]
  BY <1>2
<1>4. KeyShape(x) /\ x.active = s.keys[old].active /\ x.scope = s.keys[old].scope
      /\ x.holder = s.keys[old].holder
  BY <1>2 DEF KeyShape
<1> HIDE DEF u, x
<1>5. /\ Keys(u) = Keys(s) /\ u.keys = [j \in Keys(u) |-> u.keys[j]]
      /\ \A j \in Keys(s) : u.keys[j] = IF j = old THEN x ELSE s.keys[j]
  BY <1>2, <1>3 DEF Keys
<1>6. Fine(u)
  <2>1. Shape(u)
    BY <1>3, <1>4, <1>5 DEF Fine, Shape
  <2>2. Scoped(u)
    BY <1>3, <1>4, <1>5 DEF Fine, Scoped
  <2>3. QED
    BY <2>1, <2>2 DEF Fine
<1>7. Below(s, u)
  BY <1>4, <1>5 DEF Below, Ended
<1> DEFINE t == CreateApiKey(u, k, who, s.keys[old].scope, s.keys[old].expires)
<1>8. Fine(t) /\ Below(u, t) /\ k \in Keys(t)
  BY <1>5, <1>6, CreateFine
<1> HIDE DEF t
<1>9. Below(s, t)
  BY <1>7, <1>8, BelowIsOrder
<1>10. QED
  BY <1>1, <1>8, <1>9 DEF t

LEMMA RevokeFine ==
  ASSUME NEW s, Fine(s), NEW k \in Keys(s)
  PROVE  LET t == RevokeApiKey(s, k)
         IN  Fine(t) /\ Below(s, t) /\ Ended(t, k)
<1>a. PICK b : b = FALSE /\ RevokeApiKey(s, k) = [s EXCEPT !.keys[k].active = b]
  BY DEF RevokeApiKey
<1> DEFINE t == [s EXCEPT !.keys[k].active = b]
           x == [s.keys[k] EXCEPT !.active = b]
<1>1. /\ s = [keys |-> s.keys, users |-> s.users]
      /\ s.keys = [j \in Keys(s) |-> s.keys[j]]
      /\ KeyShape(s.keys[k])
  BY DEF Fine, Shape
<1>2. /\ t.keys = [s.keys EXCEPT ![k] = x] /\ t.users = s.users
      /\ t = [keys |-> t.keys, users |-> t.users]
      /\ x.active = b /\ x.scope = s.keys[k].scope /\ x.holder = s.keys[k].holder
      /\ x = [active |-> x.active, expires |-> x.expires, scope |-> x.scope, holder |-> x.holder]
  BY <1>1 DEF Keys, KeyShape
<1> HIDE DEF t, x
<1>3. KeyShape(x) /\ ~x.active
  BY <1>a, <1>2 DEF KeyShape
<1>4. /\ Keys(t) = Keys(s) /\ t.keys = [j \in Keys(t) |-> t.keys[j]]
      /\ \A j \in Keys(s) : t.keys[j] = IF j = k THEN x ELSE s.keys[j]
  BY <1>1, <1>2 DEF Keys
<1>5. Shape(t)
  BY <1>2, <1>3, <1>4 DEF Fine, Shape
<1>6. Scoped(t)
  BY <1>2, <1>3, <1>4 DEF Fine, Scoped
<1>7. Below(s, t) /\ Ended(t, k)
  BY <1>3, <1>4 DEF Below, Ended
<1>8. QED
  BY <1>a, <1>5, <1>6, <1>7 DEF Fine, t

(* The revocation of a key that is not there changes nothing. *)
LEMMA RevokeNone ==
  ASSUME NEW s, Fine(s), NEW k, k \notin Keys(s)
  PROVE  Fine(RevokeApiKey(s, k)) /\ Below(s, RevokeApiKey(s, k))
<1>1. PICK b : b = FALSE /\ RevokeApiKey(s, k) = [s EXCEPT !.keys[k].active = b]
  BY DEF RevokeApiKey
<1> DEFINE t == [s EXCEPT !.keys[k].active = b]
<1>2. s = [keys |-> s.keys, users |-> s.users] /\ s.keys = [j \in Keys(s) |-> s.keys[j]]
  BY DEF Fine, Shape
<1>3. t = s
  <2>1. t = [keys |-> [s.keys EXCEPT ![k].active = b], users |-> s.users]
    BY <1>2
  <2>2. [s.keys EXCEPT ![k].active = b] = s.keys
    BY <1>2 DEF Keys
  <2> HIDE DEF t
  <2>3. QED
    BY <1>2, <2>1, <2>2
<1> HIDE DEF t
<1>4. QED
  BY <1>1, <1>3, BelowIsOrder DEF t

LEMMA UpsertFine ==
  ASSUME NEW s, Fine(s), NEW u \in People, NEW scope, scope \subseteq Reach[u], NEW active
  PROVE  LET t == UpsertUser(s, u, scope, active)
         IN  Fine(t) /\ Below(s, t)
<1> DEFINE t == UpsertUser(s, u, scope, active)
           x == [active |-> active, scope |-> scope]
<1>1. s = [keys |-> s.keys, users |-> s.users]
  BY DEF Fine, Shape
<1>2. /\ t.keys = s.keys /\ t.users = Put(s.users, u, x) /\ x.scope = scope
      /\ t = [keys |-> t.keys, users |-> t.users]
  BY <1>1 DEF UpsertUser
<1> HIDE DEF t, x
<1>3. /\ DOMAIN t.users = DOMAIN s.users \cup {u} /\ t.users[u] = x
      /\ \A v \in DOMAIN s.users \ {u} : t.users[v] = s.users[v]
  BY <1>2 DEF Put
<1>4. Keys(t) = Keys(s)
  BY <1>2 DEF Keys
<1>5. Shape(t)
  BY <1>2, <1>4 DEF Fine, Shape
<1>6. Scoped(t)
  BY <1>2, <1>3, <1>4 DEF Fine, Scoped
<1>7. Below(s, t)
  BY <1>2, <1>4 DEF Below, Ended
<1>8. QED
  BY <1>5, <1>6, <1>7 DEF Fine, t

-------------------------------------------------------------------------------
(* The document of the service.  Every save in progress holds a state that *)
(* memory has gone beyond, and one that would be stored holds all that is  *)
(* in the row.                                                             *)

Callers == Tenants \cup FlightIds
SaveShape(v) ==
  /\ v.stage = "sent" => v = [stage |-> "sent", state |-> v.state, current |-> v.current]
  /\ v.stage = "stored" => v = [stage |-> "stored", current |-> v.current]
SaveGood(v, row, memory) ==
  /\ SaveShape(v)
  /\ v.stage = "sent" => /\ Fine(v.state) /\ Below(v.state, memory)
                         /\ v.current => Below(row, v.state)
DocShape(d) ==
  /\ d = [memory |-> d.memory, row |-> d.row, current |-> d.current, saves |-> d.saves]
  /\ DOMAIN d.saves = Callers /\ d.saves = [p \in Callers |-> d.saves[p]]
DocGood(d) ==
  /\ DocShape(d)
  /\ Fine(d.memory) /\ Fine(d.row) /\ Below(d.row, d.memory)
  /\ \A p \in Callers : SaveGood(d.saves[p], d.row, d.memory)

(* The save of p carries the key k, or its end; once it is stored, the row *)
(* does.                                                                   *)
HasIn(d, p, k) ==
  /\ d.saves[p].stage = "sent" => k \in Keys(d.saves[p].state)
  /\ d.saves[p].stage = "stored" => k \in Keys(d.row)
EndsIn(d, p, k) ==
  /\ d.saves[p].stage = "sent" => Ended(d.saves[p].state, k)
  /\ d.saves[p].stage = "stored" => Ended(d.row, k)
Carried(d, e, p) ==
  \A k : (HasIn(d, p, k) => HasIn(e, p, k)) /\ (EndsIn(d, p, k) => EndsIn(e, p, k))

LEMMA ChangedIs ==
  ASSUME NEW d, DocShape(d), NEW p \in Callers, NEW new
  PROVE  LET e == Changed(d, p, new)
             v == [stage |-> "sent", state |-> new, current |-> d.current]
         IN  /\ DocShape(e) /\ e.memory = new /\ e.row = d.row
             /\ e.saves[p] = v /\ SaveShape(v) /\ v.stage = "sent" /\ v.state = new
             /\ v.current = d.current
             /\ \A q \in Callers \ {p} : e.saves[q] = d.saves[q]
<1> DEFINE e == Changed(d, p, new)
           v == [stage |-> "sent", state |-> new, current |-> d.current]
<1>1. d = [memory |-> d.memory, row |-> d.row, current |-> d.current, saves |-> d.saves]
  BY DEF DocShape
<1>2. /\ e = [memory |-> e.memory, row |-> e.row, current |-> e.current, saves |-> e.saves]
      /\ e.memory = new /\ e.row = d.row /\ e.saves = [d.saves EXCEPT ![p] = v]
  <2> DEFINE g == [d EXCEPT !.memory = new]
  <2>1. g = [memory |-> new, row |-> d.row, current |-> d.current, saves |-> d.saves]
    BY <1>1
  <2>2. e = [g EXCEPT !.saves[p] = v]
    BY DEF Changed
  <2> HIDE DEF e, g
  <2>3. QED
    BY <2>1, <2>2
<1>3. SaveShape(v) /\ v.stage = "sent" /\ v.state = new /\ v.current = d.current
  BY DEF SaveShape
<1> HIDE DEF e, v
<1>4. /\ DOMAIN e.saves = Callers /\ e.saves = [q \in Callers |-> e.saves[q]]
      /\ e.saves[p] = v /\ \A q \in Callers \ {p} : e.saves[q] = d.saves[q]
  BY <1>2 DEF DocShape
<1>5. QED
  BY <1>2, <1>3, <1>4 DEF DocShape, e, v

LEMMA ChangedGood ==
  ASSUME NEW d, DocGood(d), NEW p \in Callers, NEW new, Fine(new), Below(d.memory, new)
  PROVE  LET e == Changed(d, p, new)
         IN  /\ DocGood(e) /\ e.memory = new /\ e.row = d.row
             /\ \A q \in Callers \ {p} : Carried(d, e, q)
             /\ \A k : (k \in Keys(new) => HasIn(e, p, k)) /\ (Ended(new, k) => EndsIn(e, p, k))
<1> DEFINE e == Changed(d, p, new)
           v == [stage |-> "sent", state |-> new, current |-> d.current]
<1>1. /\ DocShape(e) /\ e.memory = new /\ e.row = d.row
      /\ e.saves[p] = v /\ SaveShape(v) /\ v.stage = "sent" /\ v.state = new
      /\ \A q \in Callers \ {p} : e.saves[q] = d.saves[q]
  BY ChangedIs DEF DocGood
<1> HIDE DEF e, v
<1>2. Fine(d.row) /\ Below(d.row, new)
  BY BelowIsOrder DEF DocGood
<1>3. SaveGood(e.saves[p], e.row, e.memory)
  BY <1>1, <1>2, BelowIsOrder DEF SaveGood
<1>4. ASSUME NEW q \in Callers \ {p}
      PROVE  SaveGood(e.saves[q], e.row, e.memory) /\ Carried(d, e, q)
  <2>1. SaveGood(d.saves[q], d.row, d.memory)
    BY DEF DocGood
  <2>2. SaveGood(e.saves[q], e.row, e.memory)
    BY <1>1, <2>1, BelowIsOrder DEF SaveGood
  <2>3. QED
    BY <1>1, <2>2 DEF Carried, HasIn, EndsIn
<1>5. DocGood(e)
  BY <1>1, <1>2, <1>3, <1>4 DEF DocGood
<1>6. \A k : (k \in Keys(new) => HasIn(e, p, k)) /\ (Ended(new, k) => EndsIn(e, p, k))
  BY <1>1 DEF HasIn, EndsIn
<1>7. QED
  BY <1>1, <1>4, <1>5, <1>6 DEF e

LEMMA OutOfDateIs ==
  ASSUME NEW v, SaveShape(v)
  PROVE  LET w == OutOfDate(v)
         IN  /\ SaveShape(w) /\ w.stage = v.stage
             /\ v.stage = "sent" => w.state = v.state /\ ~w.current
<1>1. PICK b : b = FALSE /\ OutOfDate(v) =
        IF v.stage \in {"sent", "stored"} THEN [v EXCEPT !.current = b] ELSE v
  BY DEF OutOfDate
<1> DEFINE w == [v EXCEPT !.current = b]
<1>2. CASE v.stage = "sent"
  <2>1. /\ w = [stage |-> "sent", state |-> w.state, current |-> w.current]
        /\ w.state = v.state /\ w.stage = "sent" /\ w.current = b
    BY <1>2 DEF SaveShape
  <2> HIDE DEF w
  <2>2. QED
    BY <1>1, <1>2, <2>1 DEF SaveShape, w
<1>3. CASE v.stage = "stored"
  <2>1. w = [stage |-> "stored", current |-> w.current] /\ w.stage = "stored"
    BY <1>3 DEF SaveShape
  <2> HIDE DEF w
  <2>2. QED
    BY <1>1, <1>3, <2>1 DEF SaveShape, w
<1>4. CASE v.stage \notin {"sent", "stored"}
  BY <1>1, <1>4
<1>5. QED
  BY <1>2, <1>3, <1>4

LEMMA StoredGood ==
  ASSUME NEW d, DocGood(d), NEW p \in Callers, Sent(d, p), Current(d, p)
  PROVE  LET e == Stored(d, p)
         IN  /\ DocGood(e) /\ e.memory = d.memory /\ Below(d.row, e.row)
             /\ \A q \in Callers : Carried(d, e, q)
<1> DEFINE e == Stored(d, p)
           v == [stage |-> "stored", current |-> TRUE]
<1>1. d = [memory |-> d.memory, row |-> d.row, current |-> d.current, saves |-> d.saves]
      /\ DOMAIN d.saves = Callers
  BY DEF DocGood, DocShape
<1>2. /\ e = [memory |-> e.memory, row |-> e.row, current |-> e.current, saves |-> e.saves]
      /\ e.memory = d.memory /\ e.row = d.saves[p].state
      /\ e.saves = [q \in Callers |-> IF q = p THEN v ELSE OutOfDate(d.saves[q])]
  BY <1>1 DEF Stored
<1>3. SaveShape(v) /\ v.stage = "stored"
  BY DEF SaveShape
<1> HIDE DEF e, v
<1>4. /\ DocShape(e) /\ e.saves[p] = v
      /\ \A q \in Callers \ {p} : e.saves[q] = OutOfDate(d.saves[q])
  BY <1>2 DEF DocShape
<1>5. SaveGood(d.saves[p], d.row, d.memory) /\ d.saves[p].stage = "sent" /\ d.saves[p].current
  BY DEF DocGood, Sent, Current
<1>6. Fine(e.row) /\ Below(e.row, e.memory) /\ Below(d.row, e.row)
  BY <1>2, <1>5 DEF SaveGood
<1>7. SaveGood(e.saves[p], e.row, e.memory) /\ Carried(d, e, p)
  BY <1>2, <1>3, <1>4, <1>5 DEF SaveGood, Carried, HasIn, EndsIn
<1>8. ASSUME NEW q \in Callers \ {p}
      PROVE  SaveGood(e.saves[q], e.row, e.memory) /\ Carried(d, e, q)
  <2>1. SaveGood(d.saves[q], d.row, d.memory)
    BY DEF DocGood
  <2>2. /\ SaveShape(e.saves[q]) /\ e.saves[q].stage = d.saves[q].stage
        /\ d.saves[q].stage = "sent" => e.saves[q].state = d.saves[q].state /\ ~e.saves[q].current
    BY <1>4, <2>1, OutOfDateIs DEF SaveGood
  <2>3. SaveGood(e.saves[q], e.row, e.memory)
    BY <1>2, <2>1, <2>2 DEF SaveGood
  <2>4. QED
    BY <1>6, <2>2, <2>3 DEF Carried, HasIn, EndsIn, Below
<1>9. DocGood(e)
  BY <1>2, <1>4, <1>6, <1>7, <1>8 DEF DocGood
<1>10. QED
  BY <1>2, <1>6, <1>7, <1>8, <1>9 DEF e

(* A save that is refused, or whose caller goes on, carries nothing more. *)
LEMMA SlotGood ==
  ASSUME NEW d, DocGood(d), NEW p \in Callers, NEW v, v.stage \in {"refused", "none"}, NEW e, DocShape(e),
         e.memory = d.memory, e.row = d.row, e.saves = [d.saves EXCEPT ![p] = v]
  PROVE  DocGood(e) /\ \A q \in Callers : Carried(d, e, q)
<1>1. e.saves[p] = v /\ \A q \in Callers \ {p} : e.saves[q] = d.saves[q]
  BY DEF DocGood, DocShape
<1>2. ASSUME NEW q \in Callers PROVE SaveGood(e.saves[q], e.row, e.memory) /\ Carried(d, e, q)
  <2>1. CASE q = p
    BY <1>1, <2>1 DEF SaveGood, SaveShape, Carried, HasIn, EndsIn
  <2>2. CASE q # p
    BY <1>1, <2>2 DEF DocGood, Carried, HasIn, EndsIn
  <2>3. QED
    BY <2>1, <2>2
<1>3. QED
  BY <1>2 DEF DocGood

LEMMA RefusedGood ==
  ASSUME NEW d, DocGood(d), NEW p \in Callers
  PROVE  LET e == Refused(d, p)
         IN  DocGood(e) /\ e.memory = d.memory /\ e.row = d.row /\ \A q \in Callers : Carried(d, e, q)
<1> DEFINE e == Refused(d, p)
           v == [stage |-> "refused"]
<1>1. d = [memory |-> d.memory, row |-> d.row, current |-> d.current, saves |-> d.saves]
      /\ DOMAIN d.saves = Callers
  BY DEF DocGood, DocShape
<1>2. /\ e = [memory |-> e.memory, row |-> e.row, current |-> e.current, saves |-> e.saves]
      /\ e.memory = d.memory /\ e.row = d.row /\ e.saves = [d.saves EXCEPT ![p] = v]
  BY <1>1 DEF Refused
<1>3. v.stage = "refused"
  OBVIOUS
<1> HIDE DEF e, v
<1>4. DocShape(e)
  BY <1>1, <1>2 DEF DocShape
<1>5. QED
  BY <1>2, <1>3, <1>4, SlotGood DEF e

LEMMA ReturnedGood ==
  ASSUME NEW d, DocGood(d), NEW p \in Callers
  PROVE  LET e == Returned(d, p)
         IN  DocGood(e) /\ e.memory = d.memory /\ e.row = d.row /\ \A q \in Callers : Carried(d, e, q)
<1> DEFINE c == IF Succeeds(d, p) THEN d.saves[p].current ELSE d.current
           e == [d EXCEPT !.current = c, !.saves[p] = NoSave]
<1>1. d = [memory |-> d.memory, row |-> d.row, current |-> d.current, saves |-> d.saves]
      /\ DOMAIN d.saves = Callers
  BY DEF DocGood, DocShape
<1>2. Returned(d, p) = e
  BY DEF Returned
<1> HIDE DEF c
<1>3. /\ e = [memory |-> e.memory, row |-> e.row, current |-> e.current, saves |-> e.saves]
      /\ e.memory = d.memory /\ e.row = d.row /\ e.saves = [d.saves EXCEPT ![p] = NoSave]
  <2> DEFINE g == [d EXCEPT !.current = c]
  <2>1. g = [memory |-> d.memory, row |-> d.row, current |-> c, saves |-> d.saves]
    BY <1>1
  <2>2. e = [g EXCEPT !.saves[p] = NoSave]
    OBVIOUS
  <2> HIDE DEF e, g
  <2>3. QED
    BY <2>1, <2>2
<1>4. NoSave.stage = "none"
  BY DEF NoSave
<1> HIDE DEF e
<1>5. DocShape(e)
  BY <1>1, <1>3 DEF DocShape
<1>6. QED
  BY <1>2, <1>3, <1>4, <1>5, SlotGood

LEMMA NewDocumentGood ==
  ASSUME NEW s, Fine(s)
  PROVE  LET e == NewDocument(s, Callers)
         IN  DocGood(e) /\ e.memory = s /\ e.row = s
<1> DEFINE e == NewDocument(s, Callers)
<1>1. /\ e = [memory |-> e.memory, row |-> e.row, current |-> e.current, saves |-> e.saves]
      /\ e.memory = s /\ e.row = s /\ e.saves = [p \in Callers |-> NoSave]
  BY DEF NewDocument
<1>2. NoSave.stage = "none"
  BY DEF NoSave
<1> HIDE DEF e
<1>3. DocShape(e)
  BY <1>1 DEF DocShape
<1>4. \A p \in Callers : SaveGood(e.saves[p], e.row, e.memory)
  BY <1>1, <1>2 DEF SaveGood, SaveShape
<1>5. DocGood(e)
  BY <1>1, <1>3, <1>4, BelowIsOrder DEF DocGood
<1>6. QED
  BY <1>1, <1>5 DEF e

-------------------------------------------------------------------------------
(* What the answers, the requests and the flights count on: a key that was *)
(* answered, or that a flight records, is in the row; one that is being    *)
(* made is in the save its caller waits for.                               *)

MintStages == {"rotating", "minting"}
KeyStages == {"record", "complete", "hand"}

RequestGood(d, t, r) ==
  /\ "stage" \in DOMAIN r
  /\ r.stage \in {"authenticating", "authorized"} =>
       {"who", "scope"} \subseteq DOMAIN r /\ (r.who \in People => r.scope \subseteq Reach[r.who])
  /\ r.stage = "writing" /\ r.op \in {"create", "rotate"} => HasIn(d, t, r.what)
  /\ r.stage = "writing" /\ r.op = "revoke" => EndsIn(d, t, r.what)
FlightGood(d, f, g) ==
  /\ g.stage \in MintStages => g.key \in KeyIds /\ g.key \in Keys(d.memory) /\ HasIn(d, f, g.key)
  /\ g.stage \in KeyStages => g.key \in KeyIds /\ g.key \in Keys(d.row)
AnswersGood(d, p, w) == p \subseteq Keys(d.row) /\ \A k \in w : Ended(d.row, k)

AccessGood ==
  /\ DocGood(access)
  /\ AnswersGood(access, promised, withdrawn)
  /\ DOMAIN requests = Tenants /\ requests = [t \in Tenants |-> requests[t]]
  /\ \A t \in Tenants : RequestGood(access, t, requests[t])
  /\ DOMAIN flights = FlightIds /\ flights = [f \in FlightIds |-> flights[f]]
  /\ \A f \in FlightIds : FlightGood(access, f, flights[f])

LEMMA AccessGoodPrimed ==
  ASSUME DocGood(access'), AnswersGood(access', promised', withdrawn'),
         DOMAIN requests' = Tenants, requests' = [t \in Tenants |-> requests'[t]],
         \A t \in Tenants : RequestGood(access', t, requests'[t]),
         DOMAIN flights' = FlightIds, flights' = [f \in FlightIds |-> flights'[f]],
         \A f \in FlightIds : FlightGood(access', f, flights'[f])
  PROVE  AccessGood'
<1>1. DocGood(access)'
  BY DEF DocGood, DocShape, Callers, FlightIds, Fine, Shape, Scoped, KeyShape, Below, Ended, Keys,
         SaveGood, SaveShape
<1>2. AnswersGood(access, promised, withdrawn)'
  BY DEF AnswersGood, Keys, Ended
<1>3. ASSUME NEW t \in Tenants PROVE RequestGood(access, t, requests[t])'
  BY DEF RequestGood, HasIn, EndsIn, Ended, Keys
<1>4. ASSUME NEW f \in FlightIds PROVE FlightGood(access, f, flights[f])'
  BY DEF FlightGood, HasIn, Keys, MintStages, KeyStages
<1>5. QED
  BY <1>1, <1>2, <1>3, <1>4 DEF AccessGood, FlightIds

(* A step keeps AccessGood when the document grows, and every request and  *)
(* flight either waits for the save it waited for, or is good as it is.    *)
Grown == DocGood(access') /\ Below(access.row, access'.row) /\ Below(access.memory, access'.memory)

LEMMA GrownStep ==
  ASSUME AccessGood, Grown,
         \A k \in promised' : k \in promised \/ k \in Keys(access'.row),
         \A k \in withdrawn' : k \in withdrawn \/ Ended(access'.row, k),
         DOMAIN requests' = Tenants, requests' = [t \in Tenants |-> requests'[t]],
         \A t \in Tenants : \/ requests'[t] = requests[t] /\ Carried(access, access', t)
                            \/ RequestGood(access', t, requests'[t]),
         DOMAIN flights' = FlightIds, flights' = [f \in FlightIds |-> flights'[f]],
         \A f \in FlightIds : \/ flights'[f] = flights[f] /\ Carried(access, access', f)
                              \/ FlightGood(access', f, flights'[f])
  PROVE  AccessGood'
<1>1. AnswersGood(access', promised', withdrawn')
  BY DEF AccessGood, AnswersGood, Grown, Below
<1>2. ASSUME NEW t \in Tenants PROVE RequestGood(access', t, requests'[t])
  <2>1. CASE requests'[t] = requests[t] /\ Carried(access, access', t)
    <3>1. RequestGood(access, t, requests[t])
      BY DEF AccessGood
    <3>2. QED
      BY <2>1, <3>1 DEF RequestGood, Carried
  <2>2. QED
    BY <2>1
<1>3. ASSUME NEW f \in FlightIds PROVE FlightGood(access', f, flights'[f])
  <2>1. CASE flights'[f] = flights[f] /\ Carried(access, access', f)
    <3>1. FlightGood(access, f, flights[f])
      BY DEF AccessGood
    <3>2. QED
      BY <2>1, <3>1 DEF FlightGood, Carried, Grown, Below
  <2>2. QED
    BY <2>1
<1>4. DocGood(access')
  BY DEF Grown
<1>5. QED
  BY <1>1, <1>2, <1>3, <1>4, AccessGoodPrimed

LEMMA CallersApart == \A t \in Tenants, f \in FlightIds : t # f /\ t \in Callers /\ f \in Callers
BY CredentialAssumption DEF Callers

(* The steps of the document. *)
LEMMA DocSame ==
  ASSUME AccessGood, UNCHANGED access
  PROVE  Grown /\ \A q \in Callers : Carried(access, access', q)
BY BelowIsOrder DEF AccessGood, Grown, Carried

LEMMA DocChanged ==
  ASSUME AccessGood, NEW p \in Callers, NEW new, Fine(new), Below(State, new),
         access' = Changed(access, p, new)
  PROVE  /\ Grown /\ \A q \in Callers \ {p} : Carried(access, access', q)
         /\ access'.memory = new
         /\ \A k : (k \in Keys(new) => HasIn(access', p, k)) /\ (Ended(new, k) => EndsIn(access', p, k))
<1>1. DocGood(access) /\ Below(access.memory, new)
  BY DEF AccessGood, State
<1>2. /\ DocGood(access') /\ access'.memory = new /\ access'.row = access.row
      /\ \A q \in Callers \ {p} : Carried(access, access', q)
      /\ \A k : (k \in Keys(new) => HasIn(access', p, k)) /\ (Ended(new, k) => EndsIn(access', p, k))
  BY <1>1, ChangedGood
<1>3. QED
  BY <1>1, <1>2, BelowIsOrder DEF Grown

LEMMA DocStored ==
  ASSUME AccessGood, NEW p \in Callers,
         \/ Sent(access, p) /\ Current(access, p) /\ access' = Stored(access, p)
         \/ access' = Refused(access, p)
         \/ access' = Returned(access, p)
  PROVE  Grown /\ \A q \in Callers : Carried(access, access', q)
<1>1. DocGood(access)
  BY DEF AccessGood
<1>2. /\ DocGood(access') /\ \A q \in Callers : Carried(access, access', q)
      /\ access'.memory = access.memory /\ (access'.row = access.row \/ Below(access.row, access'.row))
  BY <1>1, StoredGood, RefusedGood, ReturnedGood
<1>3. QED
  BY <1>2, BelowIsOrder DEF Grown

(* A flight that carries no key is good; so is a request that rests. *)
LEMMA NoKeyGood ==
  ASSUME NEW d, NEW f, NEW g, g.stage \notin MintStages \cup KeyStages
  PROVE  FlightGood(d, f, g)
BY DEF FlightGood
LEMMA RestRequestGood == \A d, t : RequestGood(d, t, Rest)
BY DEF RequestGood, Rest

LEMMA TenantMoves ==
  ASSUME AccessGood, Grown, NEW t \in Tenants, NEW r, requests' = [requests EXCEPT ![t] = r],
         RequestGood(access', t, r), \A q \in Callers \ {t} : Carried(access, access', q),
         UNCHANGED flights,
         \A k \in promised' : k \in promised \/ k \in Keys(access'.row),
         \A k \in withdrawn' : k \in withdrawn \/ Ended(access'.row, k)
  PROVE  AccessGood'
<1>1. /\ DOMAIN requests' = Tenants /\ requests' = [u \in Tenants |-> requests'[u]]
      /\ \A u \in Tenants : requests'[u] = IF u = t THEN r ELSE requests[u]
  BY DEF AccessGood
<1>2. \A u \in Tenants : \/ requests'[u] = requests[u] /\ Carried(access, access', u)
                         \/ RequestGood(access', u, requests'[u])
  BY <1>1 DEF Callers
<1>3. \A f \in FlightIds : flights'[f] = flights[f] /\ Carried(access, access', f)
  BY CallersApart
<1>4. DOMAIN flights' = FlightIds /\ flights' = [f \in FlightIds |-> flights'[f]]
  BY DEF AccessGood
<1>5. QED
  BY <1>1, <1>2, <1>3, <1>4, GrownStep

LEMMA FlightMoves ==
  ASSUME AccessGood, Grown, NEW f \in FlightIds, NEW g, flights' = [flights EXCEPT ![f] = g],
         FlightGood(access', f, g), \A q \in Callers \ {f} : Carried(access, access', q),
         UNCHANGED <<requests, withdrawn>>,
         \A k \in promised' : k \in promised \/ k \in Keys(access'.row)
  PROVE  AccessGood'
<1>1. /\ DOMAIN flights' = FlightIds /\ flights' = [h \in FlightIds |-> flights'[h]]
      /\ \A h \in FlightIds : flights'[h] = IF h = f THEN g ELSE flights[h]
  BY DEF AccessGood
<1>2. \A h \in FlightIds : \/ flights'[h] = flights[h] /\ Carried(access, access', h)
                           \/ FlightGood(access', h, flights'[h])
  BY <1>1 DEF Callers
<1>3. \A t \in Tenants : requests'[t] = requests[t] /\ Carried(access, access', t)
  BY CallersApart
<1>4. DOMAIN requests' = Tenants /\ requests' = [t \in Tenants |-> requests'[t]]
  BY DEF AccessGood
<1>5. \A k \in withdrawn' : k \in withdrawn \/ Ended(access'.row, k)
  OBVIOUS
<1>6. QED
  BY <1>1, <1>2, <1>3, <1>4, <1>5, GrownStep

LEMMA FreshIsFresh ==
  ASSUME NEW k \in FreshKeys
  PROVE  k \in KeyIds /\ k \notin Keys(State) /\ k \notin Keys(access.row) /\ k \notin promised
<1>1. PICK j \in KeyIds : j \notin UsedKeys
  BY DEF FreshKeys
<1>2. k = CHOOSE i \in KeyIds : i \notin UsedKeys
  BY <1>1 DEF FreshKeys
<1>3. k \in KeyIds /\ k \notin UsedKeys
  BY <1>1, <1>2
<1>4. QED
  BY <1>3 DEF UsedKeys

LEMMA StateFine == ASSUME AccessGood PROVE Fine(State) /\ Fine(access.row) /\ Below(access.row, State)
BY DEF AccessGood, DocGood, State

(* The requests of the tenant. *)
LEMMA StoreSaveGood ==
  ASSUME AccessGood, NEW p \in Callers, StoreSave(p), UNCHANGED flights
  PROVE  AccessGood'
<1>1. Grown /\ \A q \in Callers : Carried(access, access', q)
  BY DocStored DEF StoreSave
<1>2. UNCHANGED <<requests, promised, withdrawn>>
  BY DEF StoreSave, answers
<1>3. \A t \in Tenants, f \in FlightIds : Carried(access, access', t) /\ Carried(access, access', f)
  BY <1>1 DEF Callers
<1>4. /\ DOMAIN requests' = Tenants /\ requests' = [t \in Tenants |-> requests'[t]]
      /\ DOMAIN flights' = FlightIds /\ flights' = [f \in FlightIds |-> flights'[f]]
  BY <1>2 DEF AccessGood
<1>5. /\ \A t \in Tenants : requests'[t] = requests[t] /\ Carried(access, access', t)
      /\ \A f \in FlightIds : flights'[f] = flights[f] /\ Carried(access, access', f)
  BY <1>1, <1>2 DEF Callers
<1>6. (\A k \in promised' : k \in promised) /\ (\A k \in withdrawn' : k \in withdrawn)
  BY <1>2
<1>7. QED
  BY <1>1, <1>4, <1>5, <1>6, GrownStep

LEMMA AuthenticateGood ==
  ASSUME AccessGood, NEW t \in Tenants, UNCHANGED flights,
         Authenticate(t) \/ PrincipalForUser(t) \/ Authenticated(t)
  PROVE  AccessGood'
<1>1. UNCHANGED <<promised, withdrawn>>
  BY DEF Authenticate, PrincipalForUser, Authenticated, answers
<1>2. t \in Callers
  BY DEF Callers
<1>3. CASE Authenticate(t)
  <2>1. PICK k \in Keys(State) :
          requests' = [requests EXCEPT ![t] = [stage |-> "authenticating", who |-> State.keys[k].holder,
                                               scope |-> State.keys[k].scope]]
    BY <1>3 DEF Authenticate, Requests
  <2>2. access' = Changed(access, t, State)
    BY <1>3 DEF Authenticate, SaveState
  <2>3. Grown /\ \A q \in Callers \ {t} : Carried(access, access', q)
    BY <1>2, <2>2, StateFine, BelowIsOrder, DocChanged
  <2>4. RequestGood(access', t, [stage |-> "authenticating", who |-> State.keys[k].holder,
                                 scope |-> State.keys[k].scope])
    BY StateFine DEF RequestGood, Fine, Scoped
  <2>5. QED
    BY <1>1, <2>1, <2>3, <2>4, TenantMoves
<1>4. CASE PrincipalForUser(t)
  <2>1. UNCHANGED access
    BY <1>4 DEF PrincipalForUser
  <2>2. PICK r : requests' = [requests EXCEPT ![t] = r] /\ RequestGood(access', t, r)
    <3>1. CASE requests' = [requests EXCEPT ![t] =
                             [stage |-> "authorized", who |-> "root", scope |-> Anywhere]]
      <4>1. RequestGood(access', t, [stage |-> "authorized", who |-> "root", scope |-> Anywhere])
        BY AccessAssumption DEF RequestGood
      <4>2. QED
        BY <3>1, <4>1
    <3>2. CASE \E u \in DOMAIN State.users : requests' = [requests EXCEPT ![t] =
                             [stage |-> "authorized", who |-> u, scope |-> State.users[u].scope]]
      <4>1. PICK u \in DOMAIN State.users : requests' = [requests EXCEPT ![t] =
                             [stage |-> "authorized", who |-> u, scope |-> State.users[u].scope]]
        BY <3>2
      <4>2. RequestGood(access', t, [stage |-> "authorized", who |-> u, scope |-> State.users[u].scope])
        BY StateFine DEF RequestGood, Fine, Scoped
      <4>3. QED
        BY <4>1, <4>2
    <3>3. QED
      BY <1>4, <3>1, <3>2 DEF PrincipalForUser, Requests
  <2>3. QED
    BY <1>1, <2>1, <2>2, DocSame, TenantMoves
<1>5. CASE Authenticated(t)
  <2>1. access' = Returned(access, t) /\ requests[t].stage = "authenticating"
    BY <1>5 DEF Authenticated, SaveAnswered, SaveRefused
  <2>2. Grown /\ \A q \in Callers : Carried(access, access', q)
    BY <1>2, <2>1, DocStored
  <2>3. RequestGood(access, t, requests[t])
    BY DEF AccessGood
  <2>4. RequestGood(access', t, [requests[t] EXCEPT !.stage = "authorized"])
    BY <2>1, <2>3 DEF RequestGood
  <2>5. PICK r : requests' = [requests EXCEPT ![t] = r] /\ RequestGood(access', t, r)
    BY <1>5, <2>4, RestRequestGood DEF Authenticated, Requests
  <2>6. QED
    BY <1>1, <2>2, <2>5, TenantMoves
<1>6. QED
  BY <1>3, <1>4, <1>5

(* An operation whose new state is fine and has what is answered for. *)
LEMMA OperatesGood ==
  ASSUME AccessGood, NEW t \in Tenants, UNCHANGED flights, NEW op, NEW new, NEW what,
         Operates(t, op, new, what), Fine(new), Below(State, new),
         op \in {"create", "rotate"} => what \in Keys(new),
         op = "revoke" => Ended(new, what)
  PROVE  AccessGood'
<1> DEFINE r == [stage |-> "writing", op |-> op, what |-> what]
<1>1. /\ access' = Changed(access, t, new) /\ requests' = [requests EXCEPT ![t] = r]
      /\ UNCHANGED <<promised, withdrawn>>
  BY DEF Operates, SaveState, Requests, answers
<1>2. t \in Callers
  BY DEF Callers
<1>3. /\ Grown /\ \A q \in Callers \ {t} : Carried(access, access', q)
      /\ \A k : (k \in Keys(new) => HasIn(access', t, k)) /\ (Ended(new, k) => EndsIn(access', t, k))
  BY <1>1, <1>2, DocChanged
<1>4. RequestGood(access', t, r)
  BY <1>3 DEF RequestGood
<1> HIDE DEF r
<1>5. QED
  BY <1>1, <1>3, <1>4, TenantMoves

LEMMA AuthorizedScope ==
  ASSUME AccessGood, NEW t \in Tenants, NEW op, Authorized(t, op)
  PROVE  requests[t].who \in People => requests[t].scope \subseteq Reach[requests[t].who]
BY DEF Authorized, AccessGood, RequestGood

LEMMA TenantOperatesGood ==
  ASSUME AccessGood, NEW t \in Tenants, UNCHANGED flights,
         TenantCreates(t) \/ TenantRotates(t) \/ TenantRevokes(t) \/ TenantUpserts(t)
  PROVE  AccessGood'
<1> DEFINE who == requests[t].who
<1>1. CASE TenantCreates(t)
  <2>1. PICK k \in FreshKeys, scope \in Scopes :
          /\ scope \subseteq requests[t].scope
          /\ Operates(t, "create", CreateApiKey(State, k, who, scope, Never), k)
    BY <1>1 DEF TenantCreates, AssertWithinPrincipalScope
  <2>2. who \in People => scope \subseteq Reach[who]
    BY <1>1, <2>1, AuthorizedScope DEF TenantCreates
  <2>3. /\ Fine(CreateApiKey(State, k, who, scope, Never))
        /\ Below(State, CreateApiKey(State, k, who, scope, Never))
        /\ k \in Keys(CreateApiKey(State, k, who, scope, Never))
    BY <2>2, FreshIsFresh, StateFine, CreateFine
  <2>4. QED
    BY <2>1, <2>3, OperatesGood
<1>2. CASE TenantRotates(t)
  <2>1. PICK k \in Keys(State), new \in FreshKeys, overlap \in {0, 1} :
          /\ State.keys[k].scope \subseteq requests[t].scope
          /\ Operates(t, "rotate", RotateApiKey(State, k, new, who, overlap), new)
    BY <1>2 DEF TenantRotates, AssertWithinPrincipalScope
  <2>2. who \in People => State.keys[k].scope \subseteq Reach[who]
    BY <1>2, <2>1, AuthorizedScope DEF TenantRotates
  <2>3. /\ Fine(RotateApiKey(State, k, new, who, overlap))
        /\ Below(State, RotateApiKey(State, k, new, who, overlap))
        /\ new \in Keys(RotateApiKey(State, k, new, who, overlap))
    BY <2>2, FreshIsFresh, StateFine, RotateFine
  <2>4. QED
    BY <2>1, <2>3, OperatesGood
<1>3. CASE TenantRevokes(t)
  <2>1. PICK k \in Keys(State) : Operates(t, "revoke", RevokeApiKey(State, k), k)
    BY <1>3 DEF TenantRevokes
  <2>2. /\ Fine(RevokeApiKey(State, k)) /\ Below(State, RevokeApiKey(State, k))
        /\ Ended(RevokeApiKey(State, k), k)
    BY StateFine, RevokeFine
  <2>3. QED
    BY <2>1, <2>2, OperatesGood
<1>4. CASE TenantUpserts(t)
  <2>1. PICK u \in People, scope \in Scopes, active \in BOOLEAN :
          scope \subseteq Reach[u] /\ Operates(t, "user", UpsertUser(State, u, scope, active), u)
    BY <1>4 DEF TenantUpserts
  <2>2. Fine(UpsertUser(State, u, scope, active)) /\ Below(State, UpsertUser(State, u, scope, active))
    BY <2>1, StateFine, UpsertFine
  <2>3. QED
    BY <2>1, <2>2, OperatesGood
<1>5. QED
  BY <1>1, <1>2, <1>3, <1>4

(* A request is answered when its save is in the row. *)
LEMMA TenantAnsweredGood ==
  ASSUME AccessGood, NEW t \in Tenants, UNCHANGED flights, TenantAnswered(t)
  PROVE  AccessGood'
<1> DEFINE op == requests[t].op
           what == requests[t].what
<1>1. /\ access' = Returned(access, t) /\ requests[t].stage = "writing"
      /\ requests' = [requests EXCEPT ![t] = Rest]
  BY DEF TenantAnswered, SaveAnswered, SaveRefused, Requests
<1>2. t \in Callers
  BY DEF Callers
<1>3. Grown /\ \A q \in Callers : Carried(access, access', q)
  BY <1>1, <1>2, DocStored
<1>4. RequestGood(access, t, requests[t])
  BY DEF AccessGood
<1>5. Below(access.row, access'.row)
  BY <1>3 DEF Grown
<1>6. \A k \in promised' : k \in promised \/ k \in Keys(access'.row)
  <2>1. CASE Succeeds(access, t) /\ op \in {"create", "rotate"} /\ promised' = promised \cup {what}
    <3>1. what \in Keys(access.row)
      BY <1>1, <1>4, <2>1 DEF RequestGood, HasIn, Succeeds
    <3>2. QED
      BY <1>5, <2>1, <3>1 DEF Below
  <2>2. CASE promised' = promised
    BY <2>2
  <2>3. QED
    BY <2>1, <2>2 DEF TenantAnswered, SaveAnswered, answers
<1>7. \A k \in withdrawn' : k \in withdrawn \/ Ended(access'.row, k)
  <2>1. CASE Succeeds(access, t) /\ op = "revoke" /\ withdrawn' = withdrawn \cup {what}
    <3>1. Ended(access.row, what)
      BY <1>1, <1>4, <2>1 DEF RequestGood, EndsIn, Succeeds
    <3>2. QED
      BY <1>5, <2>1, <3>1 DEF Below
  <2>2. CASE withdrawn' = withdrawn
    BY <2>2
  <2>3. QED
    BY <2>1, <2>2 DEF TenantAnswered, SaveAnswered, answers
<1>8. QED
  BY <1>1, <1>3, <1>6, <1>7, RestRequestGood, TenantMoves

-------------------------------------------------------------------------------
(* The flights. *)

(* A flight goes on without touching the access control. *)
LEMMA FlightOnly ==
  ASSUME AccessGood, NEW f \in FlightIds, NEW g, flights' = [flights EXCEPT ![f] = g],
         FlightGood(access, f, g), UNCHANGED <<access, requests, withdrawn>>,
         \A k \in promised' : k \in promised \/ k \in Keys(access.row)
  PROVE  AccessGood'
<1>1. FlightGood(access', f, g)
  OBVIOUS
<1>2. \A k \in promised' : k \in promised \/ k \in Keys(access'.row)
  OBVIOUS
<1>3. QED
  BY <1>1, <1>2, DocSame, FlightMoves

LEMMA IssueGood ==
  ASSUME AccessGood, NEW f \in FlightIds, Issue(f)
  PROVE  AccessGood'
<1>1. UNCHANGED <<access, requests, promised, withdrawn>>
  BY DEF Issue, AccessKept, accessVars, answers
<1>2. CASE UNCHANGED flights
  <2>1. flights' = [flights EXCEPT ![f] = flights[f]]
    BY <1>2 DEF AccessGood
  <2>2. FlightGood(access, f, flights[f])
    BY DEF AccessGood
  <2>3. QED
    BY <1>1, <2>1, <2>2, FlightOnly
<1>3. CASE \E g : flights' = [flights EXCEPT ![f] = g] /\ g.stage \in {"issue", "reopen", "revoke"}
  <2>1. PICK g : flights' = [flights EXCEPT ![f] = g] /\ g.stage \in {"issue", "reopen", "revoke"}
    BY <1>3
  <2>2. FlightGood(access, f, g)
    BY <2>1 DEF FlightGood, MintStages, KeyStages
  <2>3. QED
    BY <1>1, <2>1, <2>2, FlightOnly
<1>4. QED
  <2>a. /\ [stage |-> "issue", overlap |-> f[2]].stage = "issue" /\ [stage |-> "reopen"].stage = "reopen"
        /\ [stage |-> "revoke", key |-> operations[f[1]].key].stage = "revoke"
    OBVIOUS
  <2>1. CASE Goes(f, [stage |-> "issue", overlap |-> f[2]])
    BY <1>3, <2>a, <2>1 DEF Goes
  <2>2. CASE Goes(f, IF operations[f[1]].key = None THEN [stage |-> "reopen"]
                     ELSE [stage |-> "revoke", key |-> operations[f[1]].key])
    BY <1>3, <2>a, <2>2 DEF Goes
  <2>3. QED
    BY <1>2, <2>1, <2>2 DEF Issue

LEMMA RevokeGood ==
  ASSUME AccessGood, NEW f \in FlightIds, Revoke(f) \/ Revoked(f)
  PROVE  AccessGood'
<1>1. UNCHANGED <<requests, promised, withdrawn>>
  BY DEF Revoke, Revoked, ServiceOnly, answers
<1>2. f \in Callers
  BY DEF Callers
<1>3. PICK g : flights' = [flights EXCEPT ![f] = g] /\ g.stage \in {"revoking", "reopen", "idle"}
  <2>1. [stage |-> "revoking"].stage = "revoking" /\ [stage |-> "reopen"].stage = "reopen"
        /\ [stage |-> "idle"].stage = "idle"
    OBVIOUS
  <2>2. \E x \in {"revoking", "reopen", "idle"} : flights' = [flights EXCEPT ![f] = [stage |-> x]]
    BY DEF Revoke, Revoked, Goes, Landed
  <2>3. QED
    BY <2>1, <2>2
<1>4. FlightGood(access', f, g)
  BY <1>3 DEF FlightGood, MintStages, KeyStages
<1>5. Grown /\ \A q \in Callers \ {f} : Carried(access, access', q)
  <2>1. CASE UNCHANGED access
    BY <2>1, DocSame
  <2>2. CASE Stage(f, "revoke") /\ SaveState(f, RevokeApiKey(State, flights[f].key))
    <3>1. Fine(RevokeApiKey(State, flights[f].key)) /\ Below(State, RevokeApiKey(State, flights[f].key))
      BY StateFine, RevokeFine, RevokeNone
    <3>2. QED
      BY <1>2, <2>2, <3>1, DocChanged DEF SaveState
  <2>3. CASE access' = Returned(access, f)
    BY <1>2, <2>3, DocStored
  <2>4. QED
    BY <2>1, <2>2, <2>3 DEF Revoke, Revoked, SaveAnswered, SaveRefused
<1>6. QED
  BY <1>1, <1>3, <1>4, <1>5, FlightMoves

(* A key that is being made is in the new state and in its save. *)
LEMMA MintingGood ==
  ASSUME AccessGood, NEW f \in FlightIds, NEW new, Fine(new), Below(State, new), NEW k \in KeyIds,
         k \in Keys(new), access' = Changed(access, f, new), UNCHANGED <<requests, promised, withdrawn>>,
         NEW stage \in MintStages, flights' = [flights EXCEPT ![f] = [stage |-> stage, key |-> k]]
  PROVE  AccessGood'
<1>1. f \in Callers
  BY DEF Callers
<1>2. /\ Grown /\ \A q \in Callers \ {f} : Carried(access, access', q)
      /\ access'.memory = new /\ HasIn(access', f, k)
  BY <1>1, DocChanged
<1> DEFINE g == [stage |-> stage, key |-> k]
<1>3. FlightGood(access', f, g)
  BY <1>2 DEF FlightGood, MintStages, KeyStages
<1> HIDE DEF g
<1>4. QED
  BY <1>2, <1>3, FlightMoves DEF g

LEMMA MintFreshGood ==
  ASSUME AccessGood, NEW f \in FlightIds, NEW k \in FreshKeys,
         access' = Changed(access, f, CreateApiKey(State, k, Merchant, Anywhere, Never)),
         UNCHANGED <<requests, promised, withdrawn>>,
         flights' = [flights EXCEPT ![f] = [stage |-> "minting", key |-> k]]
  PROVE  AccessGood'
<1> DEFINE new == CreateApiKey(State, k, Merchant, Anywhere, Never)
<1>1. Merchant \notin People
  BY CredentialAssumption DEF Merchant
<1>2. Fine(new) /\ Below(State, new) /\ k \in Keys(new) /\ k \in KeyIds
  BY <1>1, FreshIsFresh, StateFine, CreateFine
<1> HIDE DEF new
<1>3. "minting" \in MintStages
  BY DEF MintStages
<1>4. QED
  BY <1>2, <1>3, MintingGood DEF new

LEMMA RotateOrAdoptGood ==
  ASSUME AccessGood, NEW f \in FlightIds, RotateOrAdopt(f) \/ RotationRefused(f)
  PROVE  AccessGood'
<1>1. UNCHANGED <<requests, promised, withdrawn>>
  BY DEF RotateOrAdopt, RotationRefused, ServiceOnly, answers
<1>2. CASE \E k \in FreshKeys :
             /\ access' = Changed(access, f, CreateApiKey(State, k, Merchant, Anywhere, Never))
             /\ flights' = [flights EXCEPT ![f] = [stage |-> "minting", key |-> k]]
  BY <1>1, <1>2, MintFreshGood
<1>3. ASSUME NEW old \in Standing, NEW k \in FreshKeys,
             access' = Changed(access, f, RotateApiKey(State, old, k, Merchant, flights[f].overlap)),
             flights' = [flights EXCEPT ![f] = [stage |-> "rotating", key |-> k]]
      PROVE  AccessGood'
  <2> DEFINE new == RotateApiKey(State, old, k, Merchant, flights[f].overlap)
  <2>1. Merchant \notin People
    BY CredentialAssumption DEF Merchant
  <2>2. old \in Keys(State)
    BY DEF Standing
  <2>3. Fine(new) /\ Below(State, new) /\ k \in Keys(new) /\ k \in KeyIds
    BY <2>1, <2>2, FreshIsFresh, StateFine, RotateFine
  <2> HIDE DEF new
  <2>4. "rotating" \in MintStages
    BY DEF MintStages
  <2>5. QED
    BY <1>1, <1>3, <2>3, <2>4, MintingGood DEF new
<1>4. QED
  BY <1>2, <1>3 DEF RotateOrAdopt, RotationRefused, MintsFresh, SaveState, Goes

(* A key whose save was answered is in the row. *)
LEMMA MintedGood ==
  ASSUME AccessGood, NEW f \in FlightIds, Rotated(f) \/ Minted(f)
  PROVE  AccessGood'
<1>1. /\ UNCHANGED <<requests, promised, withdrawn>> /\ access' = Returned(access, f)
      /\ flights[f].stage \in MintStages
  BY DEF Rotated, Minted, ServiceOnly, answers, SaveAnswered, SaveRefused, Stage, MintStages
<1>2. f \in Callers
  BY DEF Callers
<1>3. Grown /\ \A q \in Callers : Carried(access, access', q)
  BY <1>1, <1>2, DocStored
<1>4. FlightGood(access, f, flights[f])
  BY DEF AccessGood
<1>5. CASE Succeeds(access, f) /\ flights' = [flights EXCEPT ![f] = [stage |-> "record", key |-> flights[f].key]]
  <2> DEFINE g == [stage |-> "record", key |-> flights[f].key]
  <2>1. flights[f].key \in Keys(access.row) /\ flights[f].key \in KeyIds
    BY <1>1, <1>4, <1>5 DEF FlightGood, HasIn, Succeeds
  <2>2. FlightGood(access', f, g)
    BY <1>3, <2>1 DEF FlightGood, MintStages, KeyStages, Grown, Below
  <2> HIDE DEF g
  <2>3. QED
    BY <1>1, <1>3, <1>5, <2>2, FlightMoves DEF g
<1>6. CASE flights' = [flights EXCEPT ![f] = [stage |-> "fail"]]
  <2>1. FlightGood(access', f, [stage |-> "fail"])
    BY DEF FlightGood, MintStages, KeyStages
  <2>2. QED
    BY <1>1, <1>3, <1>6, <2>1, FlightMoves
<1>7. QED
  BY <1>5, <1>6 DEF Rotated, Minted, SaveAnswered, Goes

(* The statements of a flight, and what ends it. *)
LEMMA StatementsGood ==
  ASSUME AccessGood, NEW f \in FlightIds,
         Reopen(f) \/ RuntimeUnavailable(f) \/ FailOperation(f) \/ RecordIssuedKey(f) \/ Complete(f) \/ HandOver(f)
  PROVE  AccessGood'
<1>1. FlightGood(access, f, flights[f])
  BY DEF AccessGood
<1>2. UNCHANGED <<access, requests, withdrawn>>
  BY DEF Reopen, RuntimeUnavailable, FailOperation, RecordIssuedKey, Complete, HandOver, Statement,
         AccessKept, accessVars, answers
<1>3. \A k \in promised' : k \in promised \/ k \in Keys(access.row)
  <2>1. CASE HandOver(f)
    BY <1>1, <2>1 DEF HandOver, Stage, FlightGood, KeyStages
  <2>2. CASE promised' = promised
    BY <2>2
  <2>3. QED
    BY <2>1, <2>2 DEF Reopen, RuntimeUnavailable, FailOperation, RecordIssuedKey, Complete, Statement,
                      AccessKept, accessVars, answers
<1>4. PICK g : flights' = [flights EXCEPT ![f] = g] /\ FlightGood(access, f, g)
  <2>1. \A x \in {"issue", "fail", "idle"} : \A y :
          FlightGood(access, f, [stage |-> x]) /\ FlightGood(access, f, [stage |-> x, overlap |-> y])
    BY DEF FlightGood, MintStages, KeyStages
  <2>2. \A x \in KeyStages : flights[f].stage \in KeyStages =>
          FlightGood(access, f, [stage |-> x, key |-> flights[f].key])
    BY <1>1 DEF FlightGood, MintStages, KeyStages
  <2>3. \/ \E x \in {"issue", "fail", "idle"} : \/ flights' = [flights EXCEPT ![f] = [stage |-> x]]
                                                \/ \E y : flights' = [flights EXCEPT ![f] = [stage |-> x, overlap |-> y]]
        \/ /\ flights[f].stage \in KeyStages
           /\ \E x \in KeyStages : flights' = [flights EXCEPT ![f] = [stage |-> x, key |-> flights[f].key]]
    BY DEF Reopen, RuntimeUnavailable, FailOperation, RecordIssuedKey, Complete, HandOver, Statement,
           Goes, Landed, Stage, KeyStages
  <2>4. QED
    BY <2>1, <2>2, <2>3
<1>5. QED
  BY <1>2, <1>3, <1>4, FlightOnly

(* The process stops: memory is what was stored, and nobody waits. *)
LEMMA CrashGood ==
  ASSUME AccessGood, Crash
  PROVE  AccessGood'
<1>1. /\ access' = NewDocument(access.row, Callers) /\ UNCHANGED <<promised, withdrawn>>
      /\ requests' = [t \in Tenants |-> Rest] /\ flights' = [f \in FlightIds |-> Landed]
  BY DEF Crash, Reload, Reloaded, answers, AccessGood, DocGood, DocShape
<1>2. DocGood(access') /\ access'.row = access.row
  BY <1>1, StateFine, NewDocumentGood
<1>3. AnswersGood(access', promised', withdrawn')
  BY <1>1, <1>2 DEF AccessGood, AnswersGood
<1>4. \A t \in Tenants : RequestGood(access', t, requests'[t])
  BY <1>1, RestRequestGood
<1>5. \A f \in FlightIds : FlightGood(access', f, flights'[f])
  BY <1>1 DEF FlightGood, Landed, MintStages, KeyStages
<1>6. QED
  BY <1>1, <1>2, <1>3, <1>4, <1>5, AccessGoodPrimed

LEMMA AccessGoodInit == Init => AccessGood
<1> SUFFICES ASSUME Init PROVE AccessGood
  OBVIOUS
<1> DEFINE none == [k \in {} |-> None]
           s == [keys |-> none, users |-> << >>]
<1>1. /\ access = NewDocument(s, Callers)
      /\ requests = [t \in Tenants |-> Rest] /\ flights = [f \in FlightIds |-> Landed]
      /\ promised = {} /\ withdrawn = {}
  BY CredentialAssumption DEF Init, AccessInit, Callers
<1>2. Fine(s)
  BY DEF Fine, Shape, Scoped, Keys
<1> HIDE DEF s
<1>3. DocGood(access)
  BY <1>1, <1>2, NewDocumentGood
<1>4. AnswersGood(access, promised, withdrawn)
  BY <1>1 DEF AnswersGood
<1>5. \A f \in FlightIds : FlightGood(access, f, flights[f])
  BY <1>1 DEF FlightGood, Landed, MintStages, KeyStages
<1>6. QED
  BY <1>1, <1>3, <1>4, <1>5, RestRequestGood DEF AccessGood

LEMMA AccessGoodStep == AccessGood /\ [Next]_vars => AccessGood'
<1> SUFFICES ASSUME AccessGood, [Next]_vars PROVE AccessGood'
  OBVIOUS
<1>1. CASE UNCHANGED <<access, requests, flights, promised, withdrawn>>
  <2>1. DocGood(access') /\ AnswersGood(access', promised', withdrawn')
    BY <1>1 DEF AccessGood
  <2>2. QED
    BY <1>1, <2>1, AccessGoodPrimed DEF AccessGood
<1>2. ASSUME NEW f \in FlightIds, FlightStep(f) PROVE AccessGood'
  BY <1>2, IssueGood, RevokeGood, RotateOrAdoptGood, MintedGood, StatementsGood DEF FlightStep
<1>3. ASSUME NEW p \in Callers, StoreSave(p), UNCHANGED flights PROVE AccessGood'
  BY <1>3, StoreSaveGood
<1>4. ASSUME NEW t \in Tenants, TenantStep(t), UNCHANGED flights PROVE AccessGood'
  BY <1>3, <1>4, AuthenticateGood, TenantOperatesGood, TenantAnsweredGood DEF TenantStep, Callers
<1>5. CASE PurgeExpiredHandoffs \/ (Hour /\ UNCHANGED flights)
  BY <1>1, <1>5 DEF PurgeExpiredHandoffs, Hour, AccessKept, accessVars, answers
<1>6. CASE UNCHANGED vars
  BY <1>1, <1>6 DEF vars, accessVars, answers
<1>7. QED
  BY <1>2, <1>3, <1>4, <1>5, <1>6, CrashGood DEF Next, Callers

LEMMA AlwaysAccessGood == Spec => []AccessGood
BY AccessGoodInit, AccessGoodStep, PTL DEF Spec

(* What was answered is durable: a key whose creation or rotation was      *)
(* answered is in memory and in the row, and a key whose revocation was    *)
(* answered is revoked in both, whatever overlaps and whenever the process *)
(* stops (save in access-control.ts and the state store).                  *)
THEOREM AnswersAreDurable == Spec => []AnsweredDurable
<1>1. AccessGood => AnsweredDurable
  <2> SUFFICES ASSUME AccessGood, NEW s \in {State, access.row}
               PROVE  promised \subseteq Keys(s) /\ \A k \in withdrawn : ~s.keys[k].active
    BY DEF AnsweredDurable
  <2>1. Below(access.row, s)
    BY StateFine, BelowIsOrder
  <2>2. AnswersGood(access, promised, withdrawn)
    BY DEF AccessGood
  <2>3. QED
    BY <2>1, <2>2 DEF AnswersGood, Below, Ended
<1>2. QED
  BY <1>1, AlwaysAccessGood, PTL

(* Nobody who was given a location scope ever holds a key beyond it        *)
(* (assertWithinPrincipalScope under createApiKey, rotateApiKey and the    *)
(* accounts of users, overlapping and across restarts).                    *)
THEOREM ScopesNeverWiden == Spec => []ScopeNeverWidens
<1>1. AccessGood => ScopeNeverWidens
  BY StateFine DEF Fine, Scoped, ScopeNeverWidens
<1>2. QED
  BY <1>1, AlwaysAccessGood, PTL

-------------------------------------------------------------------------------
(* The operations.  A flight that is under way has claimed its operation,  *)
(* so that an idempotency key has one at most; and no two intents share a  *)
(* key, neither one that is recorded nor one that is being made.           *)

OpShape(op) == {"state", "payload", "key", "envelope"} \subseteq DOMAIN op
OpGood(d, op) ==
  /\ OpShape(op)
  /\ op.key # None => op.key \in KeyIds /\ op.key \in Keys(d.row)
  /\ op.state = "issued" => op.key # None
FlightOwns(op, f, g) ==
  /\ g.stage # "idle" => op.payload = f[2] /\ op.state \in {"pending", "failed", "issued"}
  /\ g.stage \in {"issue", "rotating", "minting", "record", "complete", "fail"} => op.state = "pending"
  /\ g.stage \in {"revoke", "revoking", "reopen"} => op.state \in {"pending", "failed"}
  /\ g.stage = "hand" => op.state = "issued" /\ op.key = g.key
Carrying(g) == g.stage \in MintStages \cup KeyStages
KeysApart(ops, fl) ==
  /\ \A k, l \in Intents : k # l /\ ops[k].key # None => ops[k].key # ops[l].key
  /\ \A f \in FlightIds, k \in Intents : Carrying(fl[f]) /\ k # f[1] => fl[f].key # ops[k].key
  /\ \A f, h \in FlightIds : f # h /\ Carrying(fl[f]) /\ Carrying(fl[h]) => fl[f].key # fl[h].key

IssuanceGood ==
  /\ DOMAIN operations = Intents /\ operations = [k \in Intents |-> operations[k]]
  /\ DOMAIN handed = Intents /\ handed = [k \in Intents |-> handed[k]]
  /\ \A k \in Intents : OpGood(access, operations[k])
  /\ \A f \in FlightIds : FlightOwns(operations[f[1]], f, flights[f])
  /\ KeysApart(operations, flights)

LEMMA IssuanceGoodPrimed ==
  ASSUME DOMAIN operations' = Intents, operations' = [k \in Intents |-> operations'[k]],
         DOMAIN handed' = Intents, handed' = [k \in Intents |-> handed'[k]],
         \A k \in Intents : OpGood(access', operations'[k]),
         \A f \in FlightIds : FlightOwns(operations'[f[1]], f, flights'[f]),
         KeysApart(operations', flights')
  PROVE  IssuanceGood'
<1>1. ASSUME NEW k \in Intents PROVE OpGood(access, operations[k])'
  BY DEF OpGood, OpShape, Keys
<1>2. ASSUME NEW f \in FlightIds PROVE FlightOwns(operations[f[1]], f, flights[f])'
  BY DEF FlightOwns
<1>3. KeysApart(operations, flights)'
  BY DEF KeysApart, Carrying, MintStages, KeyStages, FlightIds
<1>4. QED
  BY <1>1, <1>2, <1>3 DEF IssuanceGood, FlightIds

LEMMA FlightPairs ==
  /\ \A f \in FlightIds : f[1] \in Intents /\ f[2] \in Payloads
  /\ \A f, h \in FlightIds : f[1] = h[1] /\ f[2] = h[2] => f = h
BY DEF FlightIds

(* Only one flight of an intent is under way. *)
Claimed(f) == operations[f[1]].payload = f[2] \/ operations[f[1]].state = None
LEMMA OthersIdle ==
  ASSUME IssuanceGood, NEW f \in FlightIds, Claimed(f), NEW h \in FlightIds, h # f, h[1] = f[1]
  PROVE  flights[h].stage = "idle"
<1>1. FlightOwns(operations[f[1]], h, flights[h])
  BY DEF IssuanceGood
<1>2. h[2] # f[2]
  BY FlightPairs
<1>3. None \notin {"pending", "failed", "issued"}
  BY CredentialAssumption
<1>4. QED
  BY <1>1, <1>2, <1>3 DEF FlightOwns, Claimed

(* The key of another flight or operation is not a fresh one. *)
LEMMA KeysUsed ==
  ASSUME AccessGood, IssuanceGood
  PROVE  /\ \A f \in FlightIds : Carrying(flights[f]) => flights[f].key \in Keys(State)
         /\ \A k \in Intents : operations[k].key # None => operations[k].key \in Keys(State)
<1>1. Keys(access.row) \subseteq Keys(State)
  BY StateFine DEF Below
<1>2. ASSUME NEW f \in FlightIds, Carrying(flights[f]) PROVE flights[f].key \in Keys(State)
  <2>1. FlightGood(access, f, flights[f])
    BY DEF AccessGood
  <2>2. QED
    BY <1>1, <1>2, <2>1 DEF FlightGood, Carrying, State
<1>3. ASSUME NEW k \in Intents, operations[k].key # None PROVE operations[k].key \in Keys(State)
  BY <1>1, <1>3 DEF IssuanceGood, OpGood
<1>4. QED
  BY <1>2, <1>3

(* A step of flight f with its operation. *)
LEMMA OwnStep ==
  ASSUME AccessGood, IssuanceGood, Below(access.row, access'.row),
         NEW f \in FlightIds, Claimed(f), NEW op, NEW g,
         operations' = [operations EXCEPT ![f[1]] = op],
         flights' = [flights EXCEPT ![f] = g],
         OpGood(access', op), FlightOwns(op, f, g),
         Carrying(g) => \/ Carrying(flights[f]) /\ g.key = flights[f].key
                        \/ g.key \in KeyIds /\ g.key \notin Keys(State),
         \/ op.key \in {None, operations[f[1]].key}
         \/ Carrying(flights[f]) /\ op.key = flights[f].key,
         DOMAIN handed' = Intents, handed' = [k \in Intents |-> handed'[k]]
  PROVE  IssuanceGood'
<1>1. f[1] \in Intents
  BY FlightPairs
<1>2. /\ DOMAIN operations' = Intents /\ operations' = [k \in Intents |-> operations'[k]]
      /\ operations'[f[1]] = op /\ \A k \in Intents \ {f[1]} : operations'[k] = operations[k]
  BY <1>1 DEF IssuanceGood
<1>3. flights'[f] = g /\ \A h \in FlightIds \ {f} : flights'[h] = flights[h]
  BY DEF AccessGood
<1>4. ASSUME NEW k \in Intents PROVE OpGood(access', operations'[k])
  <2>1. CASE k = f[1]
    BY <1>2, <2>1
  <2>2. CASE k # f[1]
    <3>1. OpGood(access, operations[k]) /\ operations'[k] = operations[k]
      BY <1>2, <2>2 DEF IssuanceGood
    <3>2. QED
      BY <3>1 DEF OpGood, Below
  <2>3. QED
    BY <2>1, <2>2
<1>5. ASSUME NEW h \in FlightIds PROVE FlightOwns(operations'[h[1]], h, flights'[h])
  <2>1. CASE h = f
    BY <1>2, <1>3, <2>1
  <2>2. CASE h # f /\ h[1] = f[1]
    <3>1. flights'[h].stage = "idle"
      BY <1>3, <2>2, OthersIdle
    <3>2. QED
      BY <3>1 DEF FlightOwns
  <2>3. CASE h[1] # f[1]
    <3>1. operations'[h[1]] = operations[h[1]] /\ flights'[h] = flights[h]
      BY <1>2, <1>3, <2>3, FlightPairs
    <3>2. QED
      BY <3>1 DEF IssuanceGood
  <2>4. QED
    BY <2>1, <2>2, <2>3
<1>6. KeysApart(operations', flights')
  <2>0. KeysApart(operations, flights)
    BY DEF IssuanceGood
  <2>n. None \notin KeyIds
    BY CredentialAssumption
  <2>1. ASSUME NEW k \in Intents, NEW l \in Intents, k # l, operations'[k].key # None
        PROVE  operations'[k].key # operations'[l].key
    BY <1>2, <2>0, <2>1 DEF KeysApart
  <2>2. ASSUME NEW h \in FlightIds, NEW k \in Intents, Carrying(flights'[h]), k # h[1]
        PROVE  flights'[h].key # operations'[k].key
    <3>1. CASE h = f
      <4>1. operations'[k] = operations[k] /\ flights'[h] = g
        BY <1>2, <1>3, <2>2, <3>1
      <4>2. CASE Carrying(flights[f]) /\ g.key = flights[f].key
        BY <2>0, <2>2, <3>1, <4>1, <4>2 DEF KeysApart
      <4>3. CASE g.key \in KeyIds /\ g.key \notin Keys(State)
        BY <2>n, <4>1, <4>3, KeysUsed
      <4>4. QED
        BY <2>2, <4>1, <4>2, <4>3
    <3>2. CASE h # f
      <4>1. flights'[h] = flights[h] /\ Carrying(flights[h])
        BY <1>3, <2>2, <3>2
      <4>2. CASE k # f[1]
        BY <1>2, <2>0, <2>2, <4>1, <4>2 DEF KeysApart
      <4>3. CASE k = f[1]
        <5>1. operations'[k].key = op.key
          BY <1>2, <4>3
        <5>2. flights[h].key # operations[k].key
          BY <2>0, <2>2, <4>1 DEF KeysApart
        <5>3. flights[h].key # None
          BY <2>n, <4>1 DEF AccessGood, FlightGood, Carrying
        <5>4. Carrying(flights[f]) => flights[h].key # flights[f].key
          BY <2>0, <3>2, <4>1 DEF KeysApart
        <5>5. QED
          BY <4>1, <4>3, <5>1, <5>2, <5>3, <5>4
      <4>4. QED
        BY <4>2, <4>3
    <3>3. QED
      BY <3>1, <3>2
  <2>3. ASSUME NEW h \in FlightIds, NEW i \in FlightIds, h # i,
               Carrying(flights'[h]), Carrying(flights'[i])
        PROVE  flights'[h].key # flights'[i].key
    <3>1. ASSUME NEW j \in FlightIds, j # f, Carrying(flights'[f]), Carrying(flights'[j])
          PROVE  flights'[f].key # flights'[j].key
      <4>1. flights'[f] = g /\ flights'[j] = flights[j] /\ Carrying(g) /\ Carrying(flights[j])
        BY <1>3, <3>1
      <4>2. flights[j].key \in Keys(State)
        BY <4>1, KeysUsed
      <4>3. QED
        BY <2>0, <3>1, <4>1, <4>2 DEF KeysApart
    <3>2. CASE h = f
      BY <2>3, <3>1, <3>2
    <3>3. CASE i = f
      BY <2>3, <3>1, <3>3
    <3>4. CASE h # f /\ i # f
      BY <1>3, <2>0, <2>3, <3>4 DEF KeysApart
    <3>5. QED
      BY <3>2, <3>3, <3>4
  <2>4. QED
    BY <2>1, <2>2, <2>3 DEF KeysApart
<1>7. QED
  BY <1>2, <1>4, <1>5, <1>6, IssuanceGoodPrimed

(* A flight goes on and leaves its operation alone. *)
LEMMA FlightGoesOn ==
  ASSUME AccessGood, IssuanceGood, Below(access.row, access'.row), UNCHANGED <<operations, handed>>,
         NEW f \in FlightIds, Claimed(f), NEW g, flights' = [flights EXCEPT ![f] = g],
         FlightOwns(operations[f[1]], f, g),
         Carrying(g) => \/ Carrying(flights[f]) /\ g.key = flights[f].key
                        \/ g.key \in KeyIds /\ g.key \notin Keys(State)
  PROVE  IssuanceGood'
<1> DEFINE op == operations[f[1]]
<1>1. f[1] \in Intents
  BY FlightPairs
<1>2. operations' = [operations EXCEPT ![f[1]] = op]
  BY <1>1 DEF IssuanceGood
<1>3. OpGood(access', op)
  <2>1. OpGood(access, op)
    BY <1>1 DEF IssuanceGood
  <2>2. QED
    BY <2>1 DEF OpGood, Below
<1>4. DOMAIN handed' = Intents /\ handed' = [k \in Intents |-> handed'[k]]
  BY DEF IssuanceGood
<1> HIDE DEF op
<1>5. op.key \in {None, operations[f[1]].key} /\ FlightOwns(op, f, g)
  BY DEF op
<1>6. QED
  BY <1>2, <1>3, <1>4, <1>5, OwnStep

(* No flight and no operation moves. *)
LEMMA NothingMoves ==
  ASSUME AccessGood, IssuanceGood, Below(access.row, access'.row), UNCHANGED <<operations, flights>>,
         DOMAIN handed' = Intents, handed' = [k \in Intents |-> handed'[k]]
  PROVE  IssuanceGood'
<1>1. ASSUME NEW k \in Intents PROVE OpGood(access', operations'[k])
  <2>1. OpGood(access, operations[k])
    BY DEF IssuanceGood
  <2>2. QED
    BY <2>1 DEF OpGood, Below
<1>2. /\ DOMAIN operations' = Intents /\ operations' = [k \in Intents |-> operations'[k]]
      /\ \A f \in FlightIds : FlightOwns(operations'[f[1]], f, flights'[f])
      /\ KeysApart(operations', flights')
  BY DEF IssuanceGood
<1>3. QED
  BY <1>1, <1>2, IssuanceGoodPrimed

(* The row only grows. *)
LEMMA RowGrows ==
  ASSUME AccessGood, Next
  PROVE  Below(access.row, access'.row)
<1>1. DocGood(access) /\ DocShape(access)
  BY DEF AccessGood, DocGood
<1>2. ASSUME NEW p \in Callers, NEW new, access' = Changed(access, p, new)
      PROVE  Below(access.row, access'.row)
  BY <1>1, <1>2, ChangedIs, BelowIsOrder
<1>3. ASSUME NEW p \in Callers, \/ Sent(access, p) /\ Current(access, p) /\ access' = Stored(access, p)
                                \/ access' = Refused(access, p)
                                \/ access' = Returned(access, p)
      PROVE  Below(access.row, access'.row)
  BY <1>3, DocStored DEF Grown
<1>4. CASE access' = access
  BY <1>4, BelowIsOrder
<1>5. CASE Crash
  <2>1. access' = NewDocument(access.row, Callers)
    BY <1>1, <1>5 DEF Crash, Reload, Reloaded, DocShape
  <2>2. QED
    BY <2>1, StateFine, NewDocumentGood, BelowIsOrder
<1>6. ASSUME NEW f \in FlightIds, FlightStep(f) PROVE Below(access.row, access'.row)
  <2>1. f \in Callers
    BY DEF Callers
  <2>2. CASE UNCHANGED access
    BY <1>4, <2>2
  <2>3. CASE \E new : access' = Changed(access, f, new)
    BY <1>2, <2>1, <2>3
  <2>4. CASE access' = Returned(access, f)
    BY <1>3, <2>1, <2>4
  <2>5. CASE Issue(f) \/ Reopen(f) \/ RuntimeUnavailable(f) \/ FailOperation(f) \/ RecordIssuedKey(f)
             \/ Complete(f) \/ HandOver(f)
    BY <2>2, <2>5 DEF Issue, Reopen, RuntimeUnavailable, FailOperation, RecordIssuedKey, Complete, HandOver,
                      Statement, AccessKept, accessVars
  <2>6. CASE Revoke(f) \/ Revoked(f) \/ Rotated(f) \/ Minted(f)
    BY <2>2, <2>3, <2>4, <2>6 DEF Revoke, Revoked, Rotated, Minted, SaveState, SaveAnswered, SaveRefused
  <2>7. CASE RotateOrAdopt(f) \/ RotationRefused(f)
    BY <2>3, <2>7 DEF RotateOrAdopt, RotationRefused, MintsFresh, SaveState
  <2>8. QED
    BY <1>6, <2>5, <2>6, <2>7 DEF FlightStep
<1>7. ASSUME NEW p \in Callers, StoreSave(p) PROVE Below(access.row, access'.row)
  BY <1>3, <1>7 DEF StoreSave
<1>8. ASSUME NEW t \in Tenants, TenantStep(t) PROVE Below(access.row, access'.row)
  <2>1. t \in Callers
    BY DEF Callers
  <2>2. CASE UNCHANGED access
    BY <1>4, <2>2
  <2>3. CASE \E new : access' = Changed(access, t, new)
    BY <1>2, <2>1, <2>3
  <2>4. CASE access' = Returned(access, t)
    BY <1>3, <2>1, <2>4
  <2>5. CASE Authenticate(t) \/ PrincipalForUser(t) \/ Authenticated(t) \/ TenantAnswered(t)
    BY <2>2, <2>3, <2>4, <2>5 DEF Authenticate, PrincipalForUser, Authenticated, TenantAnswered, SaveState,
                                  SaveAnswered, SaveRefused
  <2>6. CASE TenantCreates(t) \/ TenantRotates(t) \/ TenantRevokes(t) \/ TenantUpserts(t)
    BY <2>3, <2>6 DEF TenantCreates, TenantRotates, TenantRevokes, TenantUpserts, Operates, SaveState
  <2>7. QED
    BY <1>7, <1>8, <2>1, <2>5, <2>6 DEF TenantStep
<1>9. CASE PurgeExpiredHandoffs \/ Hour
  BY <1>4, <1>9 DEF PurgeExpiredHandoffs, Hour, AccessKept, accessVars
<1>10. QED
  BY <1>5, <1>6, <1>7, <1>8, <1>9 DEF Next, Callers

LEMMA UnderWay ==
  ASSUME AccessGood, IssuanceGood, NEW f \in FlightIds
  PROVE  /\ f[1] \in Intents /\ OpGood(access, operations[f[1]]) /\ OpShape(operations[f[1]])
         /\ FlightOwns(operations[f[1]], f, flights[f]) /\ FlightGood(access, f, flights[f])
         /\ flights[f].stage # "idle" => Claimed(f)
BY FlightPairs DEF AccessGood, IssuanceGood, OpGood, FlightOwns, Claimed

LEMMA IssueKeepsIssuance ==
  ASSUME AccessGood, IssuanceGood, NEW f \in FlightIds, Issue(f), Below(access.row, access'.row)
  PROVE  IssuanceGood'
<1> DEFINE op == operations[f[1]]
<1>1. f[1] \in Intents /\ OpGood(access, op) /\ OpShape(op)
  BY UnderWay
<1>2. UNCHANGED access
  BY DEF Issue, AccessKept, accessVars
<1>3. CASE Claim(f) /\ Goes(f, [stage |-> "issue", overlap |-> f[2]]) /\ UNCHANGED handed
  <2> DEFINE new == [op EXCEPT !.state = "pending", !.payload = f[2]]
             g == [stage |-> "issue", overlap |-> f[2]]
  <2>1. /\ operations' = [operations EXCEPT ![f[1]] = new]
        /\ flights' = [flights EXCEPT ![f] = g] /\ Claimed(f)
    BY <1>1, <1>3 DEF Claim, Goes, Claimed
  <2>2. /\ new.state = "pending" /\ new.payload = f[2] /\ new.key = op.key /\ g.stage = "issue"
        /\ OpShape(new)
    BY <1>1 DEF OpShape
  <2> HIDE DEF new, g
  <2>3. OpGood(access', new) /\ FlightOwns(new, f, g) /\ ~Carrying(g)
    BY <1>1, <1>2, <2>2 DEF OpGood, FlightOwns, Carrying, MintStages, KeyStages
  <2>4. DOMAIN handed' = Intents /\ handed' = [k \in Intents |-> handed'[k]]
    BY <1>3 DEF IssuanceGood
  <2>5. QED
    BY <2>1, <2>2, <2>3, <2>4, OwnStep
<1>4. CASE handed' = Replay(f[1]) /\ UNCHANGED <<operations, flights>>
  <2>1. DOMAIN handed' = Intents /\ handed' = [k \in Intents |-> handed'[k]]
    BY <1>4 DEF IssuanceGood, Replay
  <2>2. QED
    BY <1>4, <2>1, NothingMoves
<1>5. CASE /\ Recoverable(op) /\ op.payload = f[2] /\ UNCHANGED <<operations, handed>>
           /\ Goes(f, IF op.key = None THEN [stage |-> "reopen"] ELSE [stage |-> "revoke", key |-> op.key])
  <2>1. [stage |-> "reopen"].stage = "reopen" /\ [stage |-> "revoke", key |-> op.key].stage = "revoke"
    OBVIOUS
  <2>2. PICK g : flights' = [flights EXCEPT ![f] = g] /\ g.stage \in {"reopen", "revoke"}
    BY <1>5, <2>1 DEF Goes
  <2>3. FlightOwns(op, f, g) /\ ~Carrying(g) /\ Claimed(f)
    BY <1>5, <2>2 DEF FlightOwns, Carrying, MintStages, KeyStages, Recoverable, Claimed
  <2>4. QED
    BY <1>5, <2>2, <2>3, FlightGoesOn
<1>6. QED
  BY <1>3, <1>4, <1>5 DEF Issue

(* The steps that leave the operation alone and carry no new key. *)
LEMMA WaitsKeepIssuance ==
  ASSUME AccessGood, IssuanceGood, NEW f \in FlightIds, Below(access.row, access'.row),
         Revoke(f) \/ Revoked(f) \/ RuntimeUnavailable(f) \/ Rotated(f) \/ Minted(f)
  PROVE  IssuanceGood'
<1> DEFINE op == operations[f[1]]
<1>1. FlightOwns(op, f, flights[f]) /\ Claimed(f)
  BY UnderWay DEF Revoke, Revoked, RuntimeUnavailable, Rotated, Minted, Stage
<1>2. UNCHANGED <<operations, handed>>
  BY DEF Revoke, Revoked, RuntimeUnavailable, Rotated, Minted, Holding
<1>3. PICK g : /\ flights' = [flights EXCEPT ![f] = g]
               /\ FlightOwns(op, f, g)
               /\ Carrying(g) => Carrying(flights[f]) /\ g.key = flights[f].key
  <2>1. \A x : [stage |-> x].stage = x /\ [stage |-> x, key |-> flights[f].key].stage = x
               /\ [stage |-> x, key |-> flights[f].key].key = flights[f].key
    OBVIOUS
  <2>2. CASE Revoke(f) \/ Revoked(f)
    <3>1. PICK x \in {"revoking", "reopen", "idle"} : flights' = [flights EXCEPT ![f] = [stage |-> x]]
      BY <2>2 DEF Revoke, Revoked, Goes, Landed
    <3>2. flights[f].stage \in {"revoke", "revoking"}
      BY <2>2 DEF Revoke, Revoked, Stage
    <3>3. ASSUME NEW g, g.stage \in {"revoking", "reopen", "idle"} PROVE FlightOwns(op, f, g) /\ ~Carrying(g)
      BY <1>1, <3>2, <3>3 DEF FlightOwns, Carrying, MintStages, KeyStages
    <3>4. [stage |-> x].stage \in {"revoking", "reopen", "idle"}
      OBVIOUS
    <3>5. FlightOwns(op, f, [stage |-> x]) /\ ~Carrying([stage |-> x])
      BY <3>3, <3>4
    <3> DEFINE g == [stage |-> x]
    <3>6. flights' = [flights EXCEPT ![f] = g] /\ FlightOwns(op, f, g) /\ ~Carrying(g)
      BY <3>1, <3>5
    <3> HIDE DEF g, op
    <3>7. QED
      BY <3>6
  <2>3. CASE RuntimeUnavailable(f) \/ (Minted(f) /\ Goes(f, [stage |-> "fail"]))
    <3>1. flights' = [flights EXCEPT ![f] = [stage |-> "fail"]] /\ flights[f].stage \in {"issue", "minting"}
      BY <2>3 DEF RuntimeUnavailable, Minted, Goes, Stage
    <3>2. ASSUME NEW g, g.stage = "fail" PROVE FlightOwns(op, f, g) /\ ~Carrying(g)
      BY <1>1, <3>1, <3>2 DEF FlightOwns, Carrying, MintStages, KeyStages
    <3>3. QED
      BY <2>1, <3>1, <3>2
  <2>4. CASE (Rotated(f) \/ Minted(f)) /\ Goes(f, [stage |-> "record", key |-> flights[f].key])
    <3>1. /\ flights' = [flights EXCEPT ![f] = [stage |-> "record", key |-> flights[f].key]]
          /\ flights[f].stage \in {"rotating", "minting"}
      BY <2>4 DEF Rotated, Minted, Goes, Stage
    <3>2. ASSUME NEW g, g.stage = "record" PROVE FlightOwns(op, f, g) /\ Carrying(flights[f])
      BY <1>1, <3>1, <3>2 DEF FlightOwns, Carrying, MintStages
    <3>3. QED
      BY <2>1, <3>1, <3>2
  <2>5. QED
    BY <2>2, <2>3, <2>4 DEF Rotated, Minted
<1>4. QED
  BY <1>1, <1>2, <1>3, FlightGoesOn

LEMMA MintsKeepIssuance ==
  ASSUME AccessGood, IssuanceGood, NEW f \in FlightIds, Below(access.row, access'.row),
         RotateOrAdopt(f) \/ RotationRefused(f)
  PROVE  IssuanceGood'
<1> DEFINE op == operations[f[1]]
<1>1. FlightOwns(op, f, flights[f]) /\ Claimed(f) /\ flights[f].stage \in {"issue", "rotating"}
  BY UnderWay DEF RotateOrAdopt, RotationRefused, Stage
<1>2. UNCHANGED <<operations, handed>>
  BY DEF RotateOrAdopt, RotationRefused, Holding
<1>3. PICK k \in FreshKeys, x \in {"rotating", "minting"} :
        flights' = [flights EXCEPT ![f] = [stage |-> x, key |-> k]]
  BY DEF RotateOrAdopt, RotationRefused, MintsFresh, Goes
<1> DEFINE g == [stage |-> x, key |-> k]
<1>4. FlightOwns(op, f, g) /\ g.key = k
  BY <1>1, <1>3 DEF FlightOwns
<1> HIDE DEF g, op
<1>5. g.key \in KeyIds /\ g.key \notin Keys(State)
  BY <1>4, FreshIsFresh
<1>6. QED
  BY <1>1, <1>2, <1>3, <1>4, <1>5, FlightGoesOn DEF g, op

(* A statement lands the flight, or changes the operation. *)
LEMMA StatementKeepsIssuance ==
  ASSUME AccessGood, IssuanceGood, NEW f \in FlightIds, Claimed(f),
         UNCHANGED <<access, handed>>, UNCHANGED operations, Goes(f, Landed)
  PROVE  IssuanceGood'
<1>1. FlightOwns(operations[f[1]], f, Landed) /\ ~Carrying(Landed)
  BY DEF FlightOwns, Landed, Carrying, MintStages, KeyStages
<1>2. QED
  BY <1>1, BelowIsOrder, FlightGoesOn DEF Goes

LEMMA StatementsKeepIssuance ==
  ASSUME AccessGood, IssuanceGood, NEW f \in FlightIds,
         Reopen(f) \/ FailOperation(f) \/ RecordIssuedKey(f) \/ Complete(f) \/ HandOver(f)
  PROVE  IssuanceGood'
<1> DEFINE op == operations[f[1]]
           key == flights[f].key
<1>1. /\ f[1] \in Intents /\ OpGood(access, op) /\ OpShape(op) /\ Claimed(f)
      /\ FlightOwns(op, f, flights[f]) /\ FlightGood(access, f, flights[f])
  BY UnderWay DEF Reopen, FailOperation, RecordIssuedKey, Complete, HandOver, Stage
<1>2. UNCHANGED access
  BY DEF Reopen, FailOperation, RecordIssuedKey, Complete, HandOver, Statement, AccessKept, accessVars
<1>3. Below(access.row, access'.row)
  BY <1>2, BelowIsOrder
<1>4. DOMAIN handed' = Intents /\ handed' = [k \in Intents |-> handed'[k]]
  BY <1>1 DEF Reopen, FailOperation, RecordIssuedKey, Complete, HandOver, Statement, IssuanceGood
<1>5. CASE HandOver(f)
  <2>1. operations' = [operations EXCEPT ![f[1]] = op]
    BY <1>1, <1>5 DEF HandOver, IssuanceGood
  <2>2. FlightOwns(op, f, Landed) /\ ~Carrying(Landed)
    BY DEF FlightOwns, Landed, Carrying, MintStages, KeyStages
  <2>3. flights' = [flights EXCEPT ![f] = Landed] /\ OpGood(access', op)
    BY <1>1, <1>2, <1>5 DEF HandOver, Goes
  <2> HIDE DEF op
  <2>4. op.key = operations[f[1]].key
    BY DEF op
  <2>5. QED
    BY <1>1, <1>3, <1>4, <2>1, <2>2, <2>3, <2>4, OwnStep
<1>6. CASE UNCHANGED <<operations, handed>> /\ Goes(f, Landed)
  BY <1>1, <1>2, <1>6, StatementKeepsIssuance
<1>7. CASE Reopen(f)
  <2> DEFINE new == [op EXCEPT !.state = "pending", !.key = None]
             g == [stage |-> "issue", overlap |-> 0]
  <2>1. operations' = [operations EXCEPT ![f[1]] = new] /\ flights' = [flights EXCEPT ![f] = g]
    BY <1>7 DEF Reopen, Goes
  <2>2. new.state = "pending" /\ new.payload = op.payload /\ new.key = None /\ g.stage = "issue" /\ OpShape(new)
    BY <1>1 DEF OpShape
  <2>3. op.payload = f[2]
    BY <1>1, <1>7 DEF Reopen, Stage, FlightOwns
  <2> HIDE DEF new, g, op
  <2>4. OpGood(access', new) /\ FlightOwns(new, f, g) /\ ~Carrying(g)
    BY <2>2, <2>3 DEF OpGood, FlightOwns, Carrying, MintStages, KeyStages
  <2>5. QED
    BY <1>1, <1>3, <1>4, <2>1, <2>2, <2>4, OwnStep
<1>8. CASE FailOperation(f) /\ operations' = [operations EXCEPT ![f[1]] = [op EXCEPT !.state = "failed"]]
           /\ Goes(f, Landed)
  <2> DEFINE new == [op EXCEPT !.state = "failed"]
  <2>1. operations' = [operations EXCEPT ![f[1]] = new] /\ flights' = [flights EXCEPT ![f] = Landed]
    BY <1>8 DEF Goes
  <2>2. new.state = "failed" /\ new.key = op.key /\ OpShape(new)
    BY <1>1 DEF OpShape
  <2> HIDE DEF new
  <2>3. OpGood(access', new) /\ FlightOwns(new, f, Landed) /\ ~Carrying(Landed)
    BY <1>1, <1>2, <2>2 DEF OpGood, FlightOwns, Landed, Carrying, MintStages, KeyStages
  <2>4. QED
    BY <1>1, <1>3, <1>4, <2>1, <2>2, <2>3, OwnStep
<1>9. CASE /\ RecordIssuedKey(f) /\ Goes(f, [stage |-> "complete", key |-> key])
           /\ operations' = [operations EXCEPT ![f[1]] = [op EXCEPT !.key = key]]
  <2> DEFINE new == [op EXCEPT !.key = key]
             g == [stage |-> "complete", key |-> key]
  <2>1. operations' = [operations EXCEPT ![f[1]] = new] /\ flights' = [flights EXCEPT ![f] = g]
    BY <1>9 DEF Goes
  <2>2. /\ new.state = op.state /\ new.payload = op.payload /\ new.key = key /\ OpShape(new)
        /\ g.stage = "complete" /\ g.key = key
    BY <1>1 DEF OpShape
  <2>3. /\ flights[f].stage = "record" /\ key \in KeyIds /\ key \in Keys(access.row)
        /\ Carrying(flights[f]) /\ op.state = "pending" /\ op.payload = f[2]
    BY <1>1, <1>9 DEF RecordIssuedKey, Stage, FlightGood, Carrying, KeyStages, FlightOwns
  <2> HIDE DEF new, g, op
  <2>4. OpGood(access', new) /\ FlightOwns(new, f, g)
    BY <1>2, <2>2, <2>3 DEF OpGood, FlightOwns
  <2>5. QED
    BY <1>1, <1>3, <1>4, <2>1, <2>2, <2>3, <2>4, OwnStep
<1>10. CASE /\ Complete(f) /\ Goes(f, [stage |-> "hand", key |-> key])
            /\ operations' = [operations EXCEPT ![f[1]] =
                                [op EXCEPT !.state = "issued", !.key = key, !.envelope = TRUE]]
  <2> DEFINE new == [op EXCEPT !.state = "issued", !.key = key, !.envelope = TRUE]
             g == [stage |-> "hand", key |-> key]
  <2>1. operations' = [operations EXCEPT ![f[1]] = new] /\ flights' = [flights EXCEPT ![f] = g]
    BY <1>10 DEF Goes
  <2>2. /\ new.state = "issued" /\ new.payload = op.payload /\ new.key = key /\ OpShape(new)
        /\ g.stage = "hand" /\ g.key = key
    BY <1>1 DEF OpShape
  <2>3. /\ flights[f].stage = "complete" /\ key \in KeyIds /\ key \in Keys(access.row)
        /\ Carrying(flights[f]) /\ op.payload = f[2] /\ key # None
    BY <1>1, <1>10, CredentialAssumption DEF Complete, Stage, FlightGood, Carrying, KeyStages, FlightOwns
  <2> HIDE DEF new, g, op
  <2>4. OpGood(access', new) /\ FlightOwns(new, f, g)
    BY <1>2, <2>2, <2>3 DEF OpGood, FlightOwns
  <2>5. QED
    BY <1>1, <1>3, <1>4, <2>1, <2>2, <2>3, <2>4, OwnStep
<1>11. QED
  BY <1>5, <1>6, <1>7, <1>8, <1>9, <1>10 DEF FailOperation, RecordIssuedKey, Complete, Statement

LEMMA PurgeKeepsIssuance ==
  ASSUME AccessGood, IssuanceGood, PurgeExpiredHandoffs
  PROVE  IssuanceGood'
<1>1. PICK k \in Intents : operations' = [operations EXCEPT ![k].envelope = FALSE]
  BY DEF PurgeExpiredHandoffs
<1>2. UNCHANGED <<access, flights, handed>>
  BY DEF PurgeExpiredHandoffs, AccessKept, accessVars
<1>3. /\ DOMAIN operations' = Intents /\ operations' = [l \in Intents |-> operations'[l]]
      /\ \A l \in Intents : operations'[l] = IF l = k THEN [operations[k] EXCEPT !.envelope = FALSE]
                                             ELSE operations[l]
  BY <1>1 DEF IssuanceGood
<1>4. \A l \in Intents : OpGood(access, operations[l]) /\ OpShape(operations[l])
  BY DEF IssuanceGood, OpGood
<1>5. \A l \in Intents : /\ operations'[l].state = operations[l].state
                         /\ operations'[l].payload = operations[l].payload
                         /\ operations'[l].key = operations[l].key
                         /\ OpShape(operations'[l])
  BY <1>3, <1>4 DEF OpShape
<1>6. \A l \in Intents : OpGood(access', operations'[l])
  BY <1>2, <1>4, <1>5 DEF OpGood
<1>7. \A f \in FlightIds : FlightOwns(operations'[f[1]], f, flights'[f])
  BY <1>2, <1>5, FlightPairs DEF IssuanceGood, FlightOwns
<1>8. KeysApart(operations', flights')
  BY <1>2, <1>5, FlightPairs DEF IssuanceGood, KeysApart
<1>9. QED
  BY <1>2, <1>3, <1>6, <1>7, <1>8, IssuanceGoodPrimed DEF IssuanceGood

LEMMA CrashKeepsIssuance ==
  ASSUME AccessGood, IssuanceGood, Crash, Below(access.row, access'.row)
  PROVE  IssuanceGood'
<1>1. flights' = [f \in FlightIds |-> Landed] /\ UNCHANGED <<operations, handed>>
  BY DEF Crash
<1>2. Landed.stage = "idle"
  BY DEF Landed
<1>3. ASSUME NEW f \in FlightIds
      PROVE  ~Carrying(flights'[f]) /\ FlightOwns(operations'[f[1]], f, flights'[f])
  BY <1>1, <1>2 DEF Carrying, MintStages, KeyStages, FlightOwns
<1>4. KeysApart(operations', flights')
  BY <1>1, <1>3 DEF KeysApart, IssuanceGood
<1>5. ASSUME NEW k \in Intents PROVE OpGood(access', operations'[k])
  <2>1. OpGood(access, operations[k])
    BY DEF IssuanceGood
  <2>2. QED
    BY <1>1, <2>1 DEF OpGood, Below
<1>6. QED
  BY <1>1, <1>3, <1>4, <1>5, IssuanceGoodPrimed DEF IssuanceGood

LEMMA IssuanceGoodInit == Init => IssuanceGood
<1> SUFFICES ASSUME Init PROVE IssuanceGood
  OBVIOUS
<1>1. /\ operations = [k \in Intents |-> NoOperation] /\ handed = [k \in Intents |-> {}]
      /\ flights = [f \in FlightIds |-> Landed]
  BY DEF Init
<1>2. /\ NoOperation.state = None /\ NoOperation.key = None /\ OpShape(NoOperation) /\ Landed.stage = "idle"
  BY DEF NoOperation, OpShape, Landed
<1>3. OpGood(access, NoOperation)
  BY <1>2, CredentialAssumption DEF OpGood
<1>4. \A f \in FlightIds : ~Carrying(flights[f]) /\ FlightOwns(operations[f[1]], f, flights[f])
  BY <1>1, <1>2 DEF Carrying, MintStages, KeyStages, FlightOwns
<1>5. KeysApart(operations, flights)
  BY <1>1, <1>2, <1>4 DEF KeysApart
<1>6. QED
  BY <1>1, <1>3, <1>4, <1>5 DEF IssuanceGood

LEMMA IssuanceGoodStep == AccessGood /\ IssuanceGood /\ [Next]_vars => IssuanceGood'
<1> SUFFICES ASSUME AccessGood, IssuanceGood, [Next]_vars PROVE IssuanceGood'
  OBVIOUS
<1>1. DOMAIN handed = Intents /\ handed = [k \in Intents |-> handed[k]]
  BY DEF IssuanceGood
<1>2. CASE UNCHANGED vars
  BY <1>1, <1>2, BelowIsOrder, NothingMoves DEF vars, operationVars, accessVars
<1>3. CASE Next
  <2>1. Below(access.row, access'.row)
    BY <1>3, RowGrows
  <2>2. ASSUME NEW f \in FlightIds, FlightStep(f) PROVE IssuanceGood'
    BY <2>1, <2>2, IssueKeepsIssuance, WaitsKeepIssuance, MintsKeepIssuance, StatementsKeepIssuance
    DEF FlightStep
  <2>3. CASE UNCHANGED <<operationVars, flights>>
    BY <1>1, <2>1, <2>3, NothingMoves DEF operationVars
  <2>4. QED
    BY <1>3, <2>1, <2>2, <2>3, PurgeKeepsIssuance, CrashKeepsIssuance DEF Next
<1>4. QED
  BY <1>2, <1>3

-------------------------------------------------------------------------------
(* The mapping: an operation that is issued stands for its credential.     *)

Cred == [k \in Intents |-> IF operations[k].state = "issued" THEN operations[k].key ELSE None]

LEMMA CredOf == \A k \in Intents : Cred[k] = IF operations[k].state = "issued" THEN operations[k].key ELSE None
BY DEF Cred

(* Nothing is issued: what is issued, and its key, stay. *)
LEMMA CredStays ==
  ASSUME \A k \in Intents : \/ operations[k].state # "issued" /\ operations'[k].state # "issued"
                            \/ /\ operations'[k].state = operations[k].state
                               /\ operations'[k].key = operations[k].key
  PROVE  Cred' = Cred
BY DEF Cred

Simulated == (\E k \in Intents : Issuance!Issue(k) \/ Issuance!Give(k)) \/ UNCHANGED <<Cred, handed>>

LEMMA CompleteIssues ==
  ASSUME AccessGood, IssuanceGood, NEW f \in FlightIds, Complete(f), UNCHANGED handed,
         operations' = [operations EXCEPT ![f[1]] =
           [operations[f[1]] EXCEPT !.state = "issued", !.key = flights[f].key, !.envelope = TRUE]]
  PROVE  Issuance!Issue(f[1])
<1> DEFINE k == f[1]
           id == flights[f].key
           new == [operations[k] EXCEPT !.state = "issued", !.key = id, !.envelope = TRUE]
<1>1. /\ k \in Intents /\ OpShape(operations[k]) /\ FlightGood(access, f, flights[f])
      /\ FlightOwns(operations[k], f, flights[f]) /\ flights[f].stage = "complete"
  BY UnderWay DEF Complete, Stage
<1>2. id \in KeyIds /\ operations[k].state = "pending" /\ Carrying(flights[f]) /\ id # None
  BY <1>1, CredentialAssumption DEF FlightGood, KeyStages, FlightOwns, Carrying
<1>3. new.state = "issued" /\ new.key = id
  BY <1>1 DEF OpShape
<1> HIDE DEF new
<1>4. operations'[k] = new /\ \A l \in Intents \ {k} : operations'[l] = operations[l]
  BY <1>1 DEF new, IssuanceGood
<1>5. Cred[k] = None
  BY <1>1, <1>2 DEF Cred
<1>6. \A l \in Intents : Cred[l] # id
  BY <1>1, <1>2, <1>5 DEF Cred, IssuanceGood, KeysApart
<1>7. Cred' = [Cred EXCEPT ![k] = id]
  <2>1. Cred' = [l \in Intents |-> IF operations'[l].state = "issued" THEN operations'[l].key ELSE None]
    BY DEF Cred
  <2>2. \A l \in Intents : Cred'[l] = IF l = k THEN id ELSE Cred[l]
    BY <1>1, <1>3, <1>4, <2>1, CredOf
  <2>3. DOMAIN Cred = Intents /\ Cred = [l \in Intents |-> Cred[l]]
        /\ Cred' = [l \in Intents |-> Cred'[l]]
    BY <2>1 DEF Cred
  <2> HIDE DEF k, id
  <2>4. QED
    BY <1>1, <2>2, <2>3
<1>8. QED
  BY <1>2, <1>5, <1>6, <1>7 DEF Issuance!Issue, Cred

LEMMA Gives ==
  ASSUME NEW k \in Intents, NEW id, operations[k].state = "issued", operations[k].key = id, id # None,
         UNCHANGED operations, handed' = [handed EXCEPT ![k] = @ \cup {id}]
  PROVE  Issuance!Give(k)
<1>1. Cred[k] = id /\ Cred' = Cred
  BY DEF Cred
<1>2. QED
  BY <1>1 DEF Issuance!Give, Cred

LEMMA Simulates == AccessGood /\ IssuanceGood /\ [Next]_vars => Simulated
<1> SUFFICES ASSUME AccessGood, IssuanceGood, [Next]_vars PROVE Simulated
  OBVIOUS
<1>1. CASE UNCHANGED <<operations, handed>>
  BY <1>1 DEF Simulated, Cred
<1>2. ASSUME NEW f \in FlightIds, Issue(f) PROVE Simulated
  <2>1. f[1] \in Intents /\ OpGood(access, operations[f[1]]) /\ OpShape(operations[f[1]])
    BY UnderWay
  <2>2. CASE Claim(f) /\ UNCHANGED handed
    <3> DEFINE new == [operations[f[1]] EXCEPT !.state = "pending", !.payload = f[2]]
    <3>1. new.state = "pending" /\ operations[f[1]].state = None /\ None # "issued"
      BY <2>1, <2>2, CredentialAssumption DEF OpShape, Claim
    <3>2. operations'[f[1]] = new /\ \A l \in Intents \ {f[1]} : operations'[l] = operations[l]
      BY <2>1, <2>2 DEF Claim, IssuanceGood
    <3> HIDE DEF new
    <3>3. Cred' = Cred
      BY <3>1, <3>2, CredStays
    <3>4. QED
      BY <2>2, <3>3 DEF Simulated
  <2>3. CASE operations[f[1]].state = "issued" /\ handed' = Replay(f[1]) /\ UNCHANGED operations
    <3>1. operations[f[1]].key # None
      BY <2>1, <2>3 DEF OpGood
    <3>2. CASE handed' = handed
      BY <1>1, <2>3, <3>2
    <3>3. CASE handed' = [handed EXCEPT ![f[1]] = @ \cup {operations[f[1]].key}]
      BY <2>1, <2>3, <3>1, <3>3, Gives DEF Simulated
    <3>4. QED
      BY <2>3, <3>2, <3>3 DEF Replay
  <2>4. QED
    BY <1>1, <1>2, <2>2, <2>3 DEF Issue
<1>3. ASSUME NEW f \in FlightIds, HandOver(f) PROVE Simulated
  <2>1. /\ f[1] \in Intents /\ FlightOwns(operations[f[1]], f, flights[f]) /\ OpGood(access, operations[f[1]])
        /\ flights[f].stage = "hand"
    BY <1>3, UnderWay DEF HandOver, Stage
  <2>2. /\ operations[f[1]].state = "issued" /\ operations[f[1]].key = flights[f].key
        /\ flights[f].key # None
    BY <2>1 DEF FlightOwns, OpGood
  <2>3. UNCHANGED operations /\ handed' = [handed EXCEPT ![f[1]] = @ \cup {flights[f].key}]
    BY <1>3 DEF HandOver
  <2>4. QED
    BY <2>1, <2>2, <2>3, Gives DEF Simulated
<1>4. ASSUME NEW f \in FlightIds, Reopen(f) \/ FailOperation(f) \/ RecordIssuedKey(f) \/ Complete(f)
      PROVE  Simulated
  <2> DEFINE op == operations[f[1]]
  <2>1. /\ f[1] \in Intents /\ OpShape(op) /\ FlightOwns(op, f, flights[f])
        /\ flights[f].stage \in {"reopen", "fail", "record", "complete"}
    BY <1>4, UnderWay DEF Reopen, FailOperation, RecordIssuedKey, Complete, Stage
  <2>2. op.state # "issued"
    BY <2>1 DEF FlightOwns
  <2>3. UNCHANGED handed
    BY <1>4 DEF Reopen, FailOperation, RecordIssuedKey, Complete, Statement
  <2>4. ASSUME NEW new, operations' = [operations EXCEPT ![f[1]] = new], new.state # "issued"
        PROVE  Simulated
    <3>1. operations'[f[1]] = new /\ \A l \in Intents \ {f[1]} : operations'[l] = operations[l]
      BY <2>1, <2>4 DEF IssuanceGood
    <3>2. Cred' = Cred
      BY <2>2, <2>4, <3>1, CredStays
    <3>3. QED
      BY <2>3, <3>2 DEF Simulated
  <2>5. /\ [op EXCEPT !.state = "pending", !.key = None].state # "issued"
        /\ [op EXCEPT !.state = "failed"].state # "issued"
        /\ [op EXCEPT !.key = flights[f].key].state # "issued"
    BY <2>1, <2>2 DEF OpShape
  <2>6. CASE UNCHANGED operations
    BY <1>1, <2>3, <2>6
  <2>7. CASE Reopen(f) \/ FailOperation(f) \/ RecordIssuedKey(f)
    BY <2>4, <2>5, <2>6, <2>7 DEF Reopen, FailOperation, RecordIssuedKey, Statement
  <2>8. CASE Complete(f)
    BY <2>1, <2>3, <2>6, <2>8, CompleteIssues DEF Complete, Statement, Simulated
  <2>9. QED
    BY <1>4, <2>7, <2>8
<1>5. CASE PurgeExpiredHandoffs
  <2>1. PICK k \in Intents : operations' = [operations EXCEPT ![k].envelope = FALSE]
    BY <1>5 DEF PurgeExpiredHandoffs
  <2>2. \A l \in Intents : OpShape(operations[l])
    BY DEF IssuanceGood, OpGood
  <2>3. \A l \in Intents : operations'[l] = IF l = k THEN [operations[k] EXCEPT !.envelope = FALSE]
                                            ELSE operations[l]
    BY <2>1 DEF IssuanceGood
  <2>4. \A l \in Intents : /\ operations'[l].state = operations[l].state
                           /\ operations'[l].key = operations[l].key
    BY <2>2, <2>3 DEF OpShape
  <2>5. Cred' = Cred /\ UNCHANGED handed
    BY <1>5, <2>4, CredStays DEF PurgeExpiredHandoffs
  <2>6. QED
    BY <2>5 DEF Simulated
<1>6. ASSUME NEW f \in FlightIds, FlightStep(f) PROVE Simulated
  <2>1. CASE \/ Revoke(f) \/ Revoked(f) \/ RuntimeUnavailable(f) \/ RotateOrAdopt(f) \/ Rotated(f)
             \/ RotationRefused(f) \/ Minted(f)
    BY <1>1, <2>1 DEF Revoke, Revoked, RuntimeUnavailable, RotateOrAdopt, Rotated, RotationRefused, Minted, Holding
  <2>2. QED
    BY <1>2, <1>3, <1>4, <1>6, <2>1 DEF FlightStep
<1>7. CASE Crash \/ UNCHANGED vars \/ UNCHANGED <<operationVars, flights>>
  BY <1>1, <1>7 DEF Crash, vars, operationVars
<1>8. QED
  BY <1>5, <1>6, <1>7 DEF Next

(* One credential for an idempotency key: whatever is retried, refused or  *)
(* lost, and wherever the process stops, the operations and the keys that  *)
(* were handed over behave as CredentialIssuance promises                  *)
(* (credential-operations.ts over access-control.ts).                      *)
THEOREM IssuesOneCredential == Spec => ImplementsIssuance
<1>1. Init => Issuance!Init
  <2> SUFFICES ASSUME Init PROVE Issuance!Init
    OBVIOUS
  <2>1. NoOperation.state # "issued"
    BY CredentialAssumption DEF NoOperation
  <2>2. Cred = [k \in Intents |-> None] /\ handed = [k \in Intents |-> {}]
    BY <2>1 DEF Init, Cred
  <2>3. QED
    BY <2>2 DEF Issuance!Init, Cred
<1>2. Simulated => [Issuance!Next]_<<Cred, handed>>
  BY DEF Simulated, Issuance!Next
<1>3. AccessGood /\ IssuanceGood /\ [Next]_vars => [Issuance!Next]_<<Cred, handed>>
  BY <1>2, Simulates
<1>4. Spec => []IssuanceGood
  BY AlwaysAccessGood, IssuanceGoodInit, IssuanceGoodStep, PTL DEF Spec
<1>5. QED
  BY <1>1, <1>3, <1>4, AlwaysAccessGood, PTL DEF Spec, ImplementsIssuance, Issuance!Spec, Cred
===============================================================================
