--------------------------- MODULE CloudServiceProofs ---------------------------
(***************************************************************************)
(* Proofs about what the control plane works with, for every set of        *)
(* principals, ids, requests in progress, instances and limits: the        *)
(* resolver of an application answers every principal with one customer    *)
(* and one member, the wallet makes one session of a login within its      *)
(* limits, a restore of the file-backed data plane leaves files that       *)
(* belong together, and the managed data plane leaves no platform behind.  *)
(***************************************************************************)
EXTENDS CustomerResolver, WalletServer, LocalDataPlane, ManagedDataPlane, FiniteSetTheorems, TLAPS

-------------------------------------------------------------------------------
(* The resolver.  A link is never changed, a wallet keeps its customer and *)
(* a customer gets no second wallet, so that what a call has read stays    *)
(* true while it waits.                                                    *)

Owns(m, id) == m \in DOMAIN wallets /\ wallets[m].customer = id
LinkedTo(p, id) == p \in DOMAIN directory.links /\ directory.links[p] = id

DirectoryGood ==
  /\ directory = [customers |-> directory.customers, links |-> directory.links,
                  members |-> directory.members]
  /\ directory.members = [id \in DOMAIN directory.members |-> directory.members[id]]
  /\ wallets \in [DOMAIN wallets -> [customer : DirectoryIds, active : BOOLEAN]]
  /\ \A id : \A m, n : Owns(m, id) /\ Owns(n, id) => m = n
  /\ \A id \in DOMAIN directory.members : Owns(directory.members[id], id)

SeekGood(x) ==
  /\ "stage" \in DOMAIN x
  /\ x.stage \in {"lookup", "enroll", "link"} =>
       {"principal", "id"} \subseteq DOMAIN x /\ x.id \in DirectoryIds /\ LinkedTo(x.principal, x.id)
  /\ x.stage = "link" => Owns(x.member, x.id)

AnswerGood(y) == LinkedTo(y[1], y[2]) /\ Owns(y[3], y[2])

ResolverGood ==
  /\ DirectoryGood
  /\ DOMAIN directory.customers \subseteq DirectoryIds
  /\ \A p \in DOMAIN directory.links : directory.links[p] \in DirectoryIds
  /\ DOMAIN seeks = Seekers /\ seeks = [c \in Seekers |-> seeks[c]]
  /\ \A c \in Seekers : SeekGood(seeks[c])
  /\ \A y \in resolutions : AnswerGood(y)

(* The same of the next state, for a call that is about to be stored. *)
OwnsNext(m, id) == m \in DOMAIN wallets' /\ wallets'[m].customer = id
LinkedNext(p, id) == p \in DOMAIN directory'.links /\ directory'.links[p] = id
SeekKept(x) ==
  /\ "stage" \in DOMAIN x
  /\ x.stage \in {"lookup", "enroll", "link"} =>
       {"principal", "id"} \subseteq DOMAIN x /\ x.id \in DirectoryIds /\ LinkedNext(x.principal, x.id)
  /\ x.stage = "link" => OwnsNext(x.member, x.id)

DirectoryKept ==
  /\ DirectoryGood'
  /\ DOMAIN directory'.customers \subseteq DirectoryIds
  /\ \A p \in DOMAIN directory'.links : directory'.links[p] \in DirectoryIds
  /\ \A p \in DOMAIN directory.links : LinkedNext(p, directory.links[p])
  /\ \A m \in DOMAIN wallets : OwnsNext(m, wallets[m].customer)

LEMMA ResolverStep ==
  ASSUME ResolverGood, DirectoryKept,
         NEW c \in Seekers, NEW x, seeks' = [seeks EXCEPT ![c] = x], SeekKept(x),
         \A y \in resolutions' : y \in resolutions \/ (LinkedNext(y[1], y[2]) /\ OwnsNext(y[3], y[2]))
  PROVE  ResolverGood'
<1>1. DOMAIN seeks' = Seekers /\ seeks' = [d \in Seekers |-> seeks'[d]]
  BY DEF ResolverGood
<1>2. \A p, id : LinkedTo(p, id) => LinkedNext(p, id)
  BY DEF DirectoryKept, LinkedTo, LinkedNext
<1>3. \A m, id : Owns(m, id) => OwnsNext(m, id)
  BY DEF DirectoryKept, Owns, OwnsNext
<1>4. ASSUME NEW d \in Seekers PROVE SeekGood(seeks[d])'
  <2>1. SeekKept(seeks[d])
    BY <1>2, <1>3 DEF ResolverGood, SeekGood, SeekKept
  <2>2. SeekKept(seeks'[d])
    <3>1. seeks'[d] \in {seeks[d], x}
      BY DEF ResolverGood
    <3>2. QED
      BY <2>1, <3>1
  <2>3. QED
    BY <2>2 DEF SeekGood, SeekKept, LinkedTo, LinkedNext, Owns, OwnsNext
<1>5. ASSUME NEW y \in resolutions' PROVE AnswerGood(y)'
  <2>1. LinkedNext(y[1], y[2]) /\ OwnsNext(y[3], y[2])
    BY <1>2, <1>3 DEF ResolverGood, AnswerGood
  <2>2. QED
    BY <2>1 DEF AnswerGood, LinkedTo, LinkedNext, Owns, OwnsNext
<1>6. QED
  BY <1>1, <1>4, <1>5 DEF ResolverGood, DirectoryKept

LEMMA RestGood == SeekKept(NotSeeking)
BY DEF SeekKept, NotSeeking

LEMMA DirectorySame ==
  ASSUME ResolverGood, UNCHANGED <<directory, wallets>>
  PROVE  DirectoryKept
BY DEF ResolverGood, DirectoryGood, DirectoryKept, Owns, OwnsNext, LinkedNext

(* A change of customers and links that keeps the links there are. *)
LEMMA LinksGrow ==
  ASSUME ResolverGood, UNCHANGED wallets, NEW cs, NEW ls,
         directory' = [directory EXCEPT !.customers = cs, !.links = ls],
         DOMAIN cs \subseteq DirectoryIds,
         \A p \in DOMAIN ls : ls[p] \in DirectoryIds,
         \A p \in DOMAIN directory.links : p \in DOMAIN ls /\ ls[p] = directory.links[p]
  PROVE  DirectoryKept
<1>1. /\ directory' = [customers |-> cs, links |-> ls, members |-> directory.members]
      /\ directory'.customers = cs /\ directory'.links = ls /\ directory'.members = directory.members
  <2>1. directory = [customers |-> directory.customers, links |-> directory.links,
                     members |-> directory.members]
    BY DEF ResolverGood, DirectoryGood
  <2>2. QED
    BY <2>1
<1>2. QED
  BY <1>1 DEF ResolverGood, DirectoryGood, DirectoryKept, Owns, OwnsNext, LinkedNext

LEMMA ResolvePersonGood ==
  ASSUME ResolverGood, NEW c \in Seekers, ResolvePerson(c)
  PROVE  ResolverGood'
<1>1. PICK p \in Persons, id \in DirectoryIds :
        /\ ResolveOrCreate(p, id)
        /\ Seek(c, IF directory'.customers[id] = "deleted" THEN NotSeeking
                   ELSE [stage |-> "lookup", principal |-> p, id |-> id])
  BY DEF ResolvePerson
<1>2. UNCHANGED <<wallets, resolutions>>
  BY DEF ResolvePerson
<1>3. DirectoryKept /\ LinkedNext(p, id)
  <2>1. CASE p \in DOMAIN directory.links /\ id = directory.links[p] /\ UNCHANGED directory
    BY <1>2, <2>1, DirectorySame DEF LinkedNext
  <2>2. CASE p \notin DOMAIN directory.links /\ id \in NewIds /\ directory' = CreatedFor(p, id)
    <3> DEFINE cs == Put(directory.customers, id, "active")
               ls == Put(directory.links, p, id)
    <3>1. directory' = [directory EXCEPT !.customers = cs, !.links = ls]
      BY <2>2 DEF CreatedFor
    <3>2. DOMAIN cs = DOMAIN directory.customers \cup {id}
      BY DEF Put
    <3>3. /\ DOMAIN ls = DOMAIN directory.links \cup {p} /\ ls[p] = id
          /\ \A q \in DOMAIN directory.links : ls[q] = directory.links[q]
      BY <2>2 DEF Put
    <3> HIDE DEF cs, ls
    <3>4. DOMAIN cs \subseteq DirectoryIds /\ \A q \in DOMAIN ls : ls[q] \in DirectoryIds
      BY <3>2, <3>3 DEF ResolverGood
    <3>5. directory'.links = ls
      <4>1. directory = [customers |-> directory.customers, links |-> directory.links,
                         members |-> directory.members]
        BY DEF ResolverGood, DirectoryGood
      <4>2. QED
        BY <3>1, <4>1
    <3>6. DirectoryKept
      BY <1>2, <3>1, <3>3, <3>4, LinksGrow
    <3>7. QED
      BY <3>3, <3>5, <3>6 DEF LinkedNext
  <2>3. QED
    BY <1>1, <2>1, <2>2 DEF ResolveOrCreate
<1>4. PICK x : seeks' = [seeks EXCEPT ![c] = x] /\ SeekKept(x)
  <2>1. SeekKept([stage |-> "lookup", principal |-> p, id |-> id])
    BY <1>3 DEF SeekKept
  <2>2. QED
    BY <1>1, <2>1, RestGood DEF Seek
<1>5. QED
  BY <1>2, <1>3, <1>4, ResolverStep

LEMMA MemberLinkGood ==
  ASSUME ResolverGood, NEW c \in Seekers, MemberLink(c)
  PROVE  ResolverGood'
<1> DEFINE id == seeks[c].id
           p == seeks[c].principal
<1>1. UNCHANGED <<directory, wallets>> /\ seeks[c].stage = "lookup"
  BY DEF MemberLink, Seeks
<1>2. /\ "stage" \in DOMAIN seeks[c] /\ {"principal", "id"} \subseteq DOMAIN seeks[c]
      /\ id \in DirectoryIds /\ LinkedTo(p, id)
  BY <1>1 DEF ResolverGood, SeekGood
<1>3. DirectoryKept
  BY <1>1, DirectorySame
<1>4. CASE id \in DOMAIN directory.members /\ Answered(c, directory.members[id]) /\ Seek(c, NotSeeking)
  <2>1. Owns(directory.members[id], id)
    BY <1>4 DEF ResolverGood, DirectoryGood
  <2>2. resolutions' = resolutions \cup {<<p, id, directory.members[id]>>}
    BY <1>4 DEF Answered
  <2>3. \A y \in resolutions' : y \in resolutions \/ (LinkedNext(y[1], y[2]) /\ OwnsNext(y[3], y[2]))
    BY <1>1, <1>2, <2>1, <2>2 DEF LinkedTo, LinkedNext, Owns, OwnsNext
  <2>4. seeks' = [seeks EXCEPT ![c] = NotSeeking]
    BY <1>4 DEF Seek
  <2>5. QED
    BY <1>3, <2>3, <2>4, RestGood, ResolverStep
<1>5. CASE Seek(c, [seeks[c] EXCEPT !.stage = "enroll"]) /\ UNCHANGED resolutions
  <2>1. SeekKept([seeks[c] EXCEPT !.stage = "enroll"])
    BY <1>1, <1>2 DEF SeekKept, LinkedTo, LinkedNext
  <2>2. seeks' = [seeks EXCEPT ![c] = [seeks[c] EXCEPT !.stage = "enroll"]]
    BY <1>5 DEF Seek
  <2>3. QED
    BY <1>3, <1>5, <2>1, <2>2, ResolverStep
<1>6. QED
  BY <1>4, <1>5 DEF MemberLink

(* The platform answers a repeated enrolment with the member there is. *)
LEMMA EnrollMemberGood ==
  ASSUME ResolverGood, NEW c \in Seekers, EnrollMember(c)
  PROVE  ResolverGood'
<1> DEFINE id == seeks[c].id
           p == seeks[c].principal
<1>1. UNCHANGED <<directory, resolutions>> /\ seeks[c].stage = "enroll"
  BY DEF EnrollMember, Seeks
<1>2. PICK m \in WalletIds :
        /\ LipEnroll(id, m)
        /\ \/ Seek(c, [stage |-> "link", principal |-> p, id |-> id, member |-> m])
           \/ Seek(c, NotSeeking)
  BY DEF EnrollMember
<1>3. id \in DirectoryIds /\ LinkedTo(p, id)
  BY <1>1 DEF ResolverGood, SeekGood
<1> HIDE DEF id, p
<1>4. DirectoryKept /\ OwnsNext(m, id)
  <2>1. CASE m \in WalletOf(id) /\ UNCHANGED wallets
    BY <1>1, <2>1, DirectorySame DEF WalletOf, OwnsNext
  <2>2. CASE /\ WalletOf(id) = {} /\ m \in WalletIds \ DOMAIN wallets
             /\ wallets' = Put(wallets, m, [customer |-> id, active |-> TRUE])
    <3> DEFINE w == [customer |-> id, active |-> TRUE]
    <3>1. w \in [customer : DirectoryIds, active : BOOLEAN] /\ w.customer = id
      BY <1>3
    <3>2. /\ DOMAIN wallets' = DOMAIN wallets \cup {m} /\ wallets'[m] = w
          /\ \A n \in DOMAIN wallets : wallets'[n] = wallets[n]
          /\ wallets' = [n \in DOMAIN wallets' |-> wallets'[n]]
      BY <2>2 DEF Put
    <3> HIDE DEF w
    <3>3. wallets' \in [DOMAIN wallets' -> [customer : DirectoryIds, active : BOOLEAN]]
      BY <3>1, <3>2 DEF ResolverGood, DirectoryGood
    <3>4. \A n : ~Owns(n, id)
      BY <2>2 DEF WalletOf, Owns
    <3>5. \A n, i : OwnsNext(n, i) <=> Owns(n, i) \/ (n = m /\ i = id)
      BY <2>2, <3>1, <3>2 DEF Owns, OwnsNext
    <3>6. \A i : \A n, o : OwnsNext(n, i) /\ OwnsNext(o, i) => n = o
      BY <3>4, <3>5 DEF ResolverGood, DirectoryGood
    <3>7. \A i \in DOMAIN directory.members : OwnsNext(directory.members[i], i)
      BY <3>5 DEF ResolverGood, DirectoryGood
    <3>8. DirectoryGood'
      BY <1>1, <3>3, <3>6, <3>7 DEF ResolverGood, DirectoryGood, Owns, OwnsNext
    <3>9. QED
      BY <1>1, <3>5, <3>8 DEF ResolverGood, DirectoryKept, Owns, LinkedNext
  <2>3. QED
    BY <1>2, <2>1, <2>2 DEF LipEnroll
<1>5. PICK x : seeks' = [seeks EXCEPT ![c] = x] /\ SeekKept(x)
  <2>1. SeekKept([stage |-> "link", principal |-> p, id |-> id, member |-> m])
    BY <1>1, <1>3, <1>4 DEF SeekKept, LinkedTo, LinkedNext
  <2>2. QED
    BY <1>2, <2>1, RestGood DEF Seek
<1>6. QED
  BY <1>1, <1>4, <1>5, ResolverStep

LEMMA LinkMemberGood ==
  ASSUME ResolverGood, NEW c \in Seekers, LinkMember(c)
  PROVE  ResolverGood'
<1> DEFINE id == seeks[c].id
           m == seeks[c].member
           p == seeks[c].principal
<1>1. /\ UNCHANGED wallets /\ seeks[c].stage = "link"
      /\ directory' = [directory EXCEPT !.members = Put(directory.members, id, m)]
      /\ resolutions' = resolutions \cup {<<p, id, m>>}
      /\ seeks' = [seeks EXCEPT ![c] = NotSeeking]
  BY DEF LinkMember, Seeks, Answered, Seek
<1>2. LinkedTo(p, id) /\ Owns(m, id)
  BY <1>1 DEF ResolverGood, SeekGood
<1> HIDE DEF id, m, p
<1>3. /\ directory'.members = Put(directory.members, id, m)
      /\ directory'.customers = directory.customers /\ directory'.links = directory.links
      /\ directory' = [customers |-> directory'.customers, links |-> directory'.links,
                       members |-> directory'.members]
  <2>1. directory = [customers |-> directory.customers, links |-> directory.links,
                     members |-> directory.members]
    BY DEF ResolverGood, DirectoryGood
  <2>2. QED
    BY <1>1, <2>1
<1>4. /\ DOMAIN directory'.members = DOMAIN directory.members \cup {id}
      /\ directory'.members = [i \in DOMAIN directory'.members |-> directory'.members[i]]
      /\ \A i \in DOMAIN directory'.members :
           directory'.members[i] = IF i = id THEN m ELSE directory.members[i]
  BY <1>3 DEF Put
<1>5. DirectoryGood'
  BY <1>1, <1>2, <1>3, <1>4 DEF ResolverGood, DirectoryGood, Owns
<1>6. DirectoryKept
  BY <1>1, <1>3, <1>5 DEF ResolverGood, DirectoryKept, LinkedNext, OwnsNext
<1>7. \A y \in resolutions' : y \in resolutions \/ (LinkedNext(y[1], y[2]) /\ OwnsNext(y[3], y[2]))
  BY <1>1, <1>2, <1>3 DEF LinkedTo, LinkedNext, Owns, OwnsNext
<1>8. QED
  BY <1>1, <1>6, <1>7, RestGood, ResolverStep

LEMMA LinkExternalGood ==
  ASSUME ResolverGood, NEW c \in Seekers, LinkExternalIdentity(c)
  PROVE  ResolverGood'
<1>1. PICK p \in Persons, id \in DOMAIN directory.customers :
        /\ p \notin DOMAIN directory.links
        /\ directory' = [directory EXCEPT !.links = Put(directory.links, p, id)]
  BY DEF LinkExternalIdentity
<1>2. UNCHANGED <<wallets, resolutions, seeks>>
  BY DEF LinkExternalIdentity
<1> DEFINE ls == Put(directory.links, p, id)
           cs == directory.customers
<1>3. directory' = [directory EXCEPT !.customers = cs, !.links = ls]
  <2>1. directory = [customers |-> directory.customers, links |-> directory.links,
                     members |-> directory.members]
    BY DEF ResolverGood, DirectoryGood
  <2>2. QED
    BY <1>1, <2>1
<1>4. /\ DOMAIN ls = DOMAIN directory.links \cup {p} /\ ls[p] = id
      /\ \A q \in DOMAIN directory.links : ls[q] = directory.links[q]
  BY <1>1 DEF Put
<1>5. DOMAIN cs \subseteq DirectoryIds /\ \A q \in DOMAIN ls : ls[q] \in DirectoryIds
  BY <1>4 DEF ResolverGood
<1> HIDE DEF ls, cs
<1>6. DirectoryKept
  BY <1>2, <1>3, <1>4, <1>5, LinksGrow
<1>7. seeks' = [seeks EXCEPT ![c] = seeks[c]]
  BY <1>2 DEF ResolverGood
<1>8. SeekKept(seeks[c])
  BY <1>6 DEF ResolverGood, SeekGood, SeekKept, DirectoryKept, LinkedTo, Owns, LinkedNext, OwnsNext
<1>9. QED
  BY <1>2, <1>6, <1>7, <1>8, ResolverStep

(* The steps of a deletion, and a call that fails. *)
LEMMA DeleteStepsGood ==
  ASSUME ResolverGood, NEW c \in Seekers,
         MemberLinksForCustomer(c) \/ MarkCustomerDeleted(c) \/ CancelMember(c) \/ SeekFails(c)
  PROVE  ResolverGood'
<1>1. CASE MemberLinksForCustomer(c)
  <2>1. PICK id \in DOMAIN directory.customers :
          seeks' = [seeks EXCEPT ![c] = [stage |-> "mark", id |-> id,
            left |-> {directory.members[i] : i \in DOMAIN directory.members \cap {id}}]]
    BY <1>1 DEF MemberLinksForCustomer, Seek
  <2>2. UNCHANGED <<directory, wallets, resolutions>>
    BY <1>1 DEF MemberLinksForCustomer, resolverState
  <2>3. SeekKept([stage |-> "mark", id |-> id,
                  left |-> {directory.members[i] : i \in DOMAIN directory.members \cap {id}}])
    BY DEF SeekKept
  <2>4. QED
    BY <2>1, <2>2, <2>3, DirectorySame, ResolverStep
<1>2. CASE MarkCustomerDeleted(c)
  <2> DEFINE cs == [directory.customers EXCEPT ![seeks[c].id] = "deleted"]
             ls == directory.links
             x == [stage |-> "cancel", left |-> seeks[c].left]
  <2>1. /\ directory' = [directory EXCEPT !.customers = cs] /\ UNCHANGED <<wallets, resolutions>>
        /\ seeks' = [seeks EXCEPT ![c] = x]
    BY <1>2 DEF MarkCustomerDeleted, Seek
  <2>2. directory' = [directory EXCEPT !.customers = cs, !.links = ls]
    <3>1. directory = [customers |-> directory.customers, links |-> directory.links,
                       members |-> directory.members]
      BY DEF ResolverGood, DirectoryGood
    <3>2. QED
      BY <2>1, <3>1
  <2>3. DOMAIN cs \subseteq DirectoryIds /\ \A p \in DOMAIN ls : ls[p] \in DirectoryIds
    BY DEF ResolverGood
  <2>4. SeekKept(x)
    BY DEF SeekKept
  <2> HIDE DEF cs, x
  <2>5. DirectoryKept
    BY <2>1, <2>2, <2>3, LinksGrow
  <2>6. QED
    BY <2>1, <2>4, <2>5, ResolverStep
<1>3. CASE CancelMember(c)
  <2>1. UNCHANGED <<directory, resolutions>> /\ seeks[c].stage = "cancel"
    BY <1>3 DEF CancelMember, Seeks
  <2>2. \/ UNCHANGED wallets
        \/ \E m : wallets' = [wallets EXCEPT ![m].active = FALSE]
    BY <1>3 DEF CancelMember
  <2>3. DirectoryKept
    <3>1. CASE UNCHANGED wallets
      BY <2>1, <3>1, DirectorySame
    <3>2. CASE \E m : wallets' = [wallets EXCEPT ![m].active = FALSE]
      <4>1. PICK m : wallets' = [wallets EXCEPT ![m].active = FALSE]
        BY <3>2
      <4>2. /\ DOMAIN wallets' = DOMAIN wallets
            /\ wallets' \in [DOMAIN wallets -> [customer : DirectoryIds, active : BOOLEAN]]
            /\ \A n \in DOMAIN wallets : wallets'[n].customer = wallets[n].customer
        <5>1. wallets \in [DOMAIN wallets -> [customer : DirectoryIds, active : BOOLEAN]]
          BY DEF ResolverGood, DirectoryGood
        <5>2. QED
          BY <4>1, <5>1
      <4>3. DirectoryGood'
        BY <2>1, <4>2 DEF ResolverGood, DirectoryGood, Owns
      <4>4. QED
        BY <2>1, <4>2, <4>3 DEF ResolverGood, DirectoryKept, LinkedNext, OwnsNext
    <3>3. QED
      BY <2>2, <3>1, <3>2
  <2>4. PICK x : seeks' = [seeks EXCEPT ![c] = x] /\ SeekKept(x)
    <3>1. "stage" \in DOMAIN seeks[c]
      BY DEF ResolverGood, SeekGood
    <3>2. \A m : SeekKept([seeks[c] EXCEPT !.left = seeks[c].left \ {m}])
      BY <2>1, <3>1 DEF SeekKept
    <3>3. QED
      BY <1>3, <3>2, RestGood DEF CancelMember, Seek
  <2>5. QED
    BY <2>1, <2>3, <2>4, ResolverStep
<1>4. CASE SeekFails(c)
  <2>1. UNCHANGED <<directory, wallets, resolutions>> /\ seeks' = [seeks EXCEPT ![c] = NotSeeking]
    BY <1>4 DEF SeekFails, Seek, resolverState
  <2>2. QED
    BY <2>1, DirectorySame, RestGood, ResolverStep
<1>5. QED
  BY <1>1, <1>2, <1>3, <1>4

LEMMA ResolverGoodInit == ResolverInit => ResolverGood
<1> SUFFICES ASSUME ResolverInit PROVE ResolverGood
  OBVIOUS
<1>1. /\ directory = [customers |-> << >>, links |-> << >>, members |-> << >>]
      /\ DOMAIN wallets = {} /\ wallets = << >> /\ resolutions = {}
  BY DEF ResolverInit
<1>2. DOMAIN directory.customers = {} /\ DOMAIN directory.links = {} /\ DOMAIN directory.members = {}
      /\ directory.members = << >>
  BY <1>1
<1>3. DirectoryGood
  BY <1>1, <1>2 DEF DirectoryGood, Owns
<1>4. /\ DOMAIN seeks = Seekers /\ seeks = [c \in Seekers |-> seeks[c]]
      /\ \A c \in Seekers : seeks[c] = NotSeeking
  BY DEF ResolverInit
<1>5. SeekGood(NotSeeking)
  BY DEF SeekGood, NotSeeking
<1>6. QED
  BY <1>1, <1>2, <1>3, <1>4, <1>5 DEF ResolverGood

LEMMA ResolverGoodStep == ResolverGood /\ [ResolverNext]_resolverVars => ResolverGood'
<1> SUFFICES ASSUME ResolverGood, [ResolverNext]_resolverVars PROVE ResolverGood'
  OBVIOUS
<1>1. CASE UNCHANGED resolverVars
  BY <1>1 DEF resolverVars, resolverState, ResolverGood, DirectoryGood, SeekGood, AnswerGood, LinkedTo, Owns
<1>2. QED
  BY <1>1, ResolvePersonGood, MemberLinkGood, EnrollMemberGood, LinkMemberGood, LinkExternalGood,
     DeleteStepsGood DEF ResolverNext

(* A principal is always answered with one customer and one member,        *)
(* however resolutions, links, deletions, lost answers and retries overlap *)
(* (resolveOrCreateCustomer and the calls it awaits).                      *)
THEOREM PrincipalResolvesToOne == ResolverSpec => []ResolvesToOne
<1>1. ResolverGood => ResolvesToOne
  <2> SUFFICES ASSUME ResolverGood PROVE ResolvesToOne
    OBVIOUS
  <2>1. ASSUME NEW x \in resolutions PROVE LinkedTo(x[1], x[2]) /\ Owns(x[3], x[2])
    BY DEF ResolverGood, AnswerGood
  <2>2. \A id : \A m, n : Owns(m, id) /\ Owns(n, id) => m = n
    BY DEF ResolverGood, DirectoryGood
  <2>3. ASSUME NEW x \in resolutions, NEW y \in resolutions
        PROVE  (x[1] = y[1] => x[2] = y[2]) /\ (x[2] = y[2] <=> x[3] = y[3])
    <3>1. x[1] = y[1] => x[2] = y[2]
      BY <2>1 DEF LinkedTo
    <3>2. x[2] = y[2] => x[3] = y[3]
      BY <2>1, <2>2
    <3>3. x[3] = y[3] => x[2] = y[2]
      BY <2>1 DEF Owns
    <3>4. QED
      BY <3>1, <3>2, <3>3
  <2>4. ASSUME NEW x \in resolutions PROVE WalletOf(x[2]) = {x[3]}
    BY <2>1, <2>2 DEF WalletOf, Owns
  <2>5. QED
    BY <2>3, <2>4 DEF ResolvesToOne
<1>2. QED
  BY <1>1, ResolverGoodInit, ResolverGoodStep, PTL DEF ResolverSpec

-------------------------------------------------------------------------------
(* The wallet.  A state is pending, held by the one callback that took its *)
(* login, or in a session that was made: never two of them, and never two  *)
(* callbacks.                                                              *)

Holds(x, s) ==
  \/ x.stage \in {"token", "keys", "verify"} /\ x.state = s
  \/ x.stage = "discovery" /\ x.then.stage = "token" /\ x.then.state = s
TabGood(x) ==
  /\ "stage" \in DOMAIN x
  /\ x.stage \in {"token", "keys"} => "state" \in DOMAIN x
  /\ x.stage = "discovery" => \/ x.then = [stage |-> "login"]
                              \/ x.then = [stage |-> "token", state |-> x.then.state]

WithinLimits ==
  /\ IsFiniteSet(DOMAIN logins) /\ Cardinality(DOMAIN logins) <= MaxPending
  /\ IsFiniteSet(DOMAIN sessions) /\ Cardinality(DOMAIN sessions) <= MaxSessions

WalletGood ==
  /\ WithinLimits
  /\ DOMAIN tabs = Tabs /\ tabs = [b \in Tabs |-> tabs[b]]
  /\ \A b \in Tabs : TabGood(tabs[b])
  /\ \A s \in DOMAIN logins : /\ s \in issued
                              /\ \A b \in Tabs : ~Holds(tabs[b], s)
                              /\ \A x \in made : x[1] # s
  /\ \A b \in Tabs : \A s : Holds(tabs[b], s) =>
       /\ s \in issued
       /\ \A d \in Tabs \ {b} : ~Holds(tabs[d], s)
       /\ \A x \in made : x[1] # s
  /\ \A x \in made : x[1] \in issued
  /\ \A x, y \in made : x[1] = y[1] => x = y

LEMMA SubsetLimit ==
  ASSUME NEW S, IsFiniteSet(S), NEW T, T \subseteq S, NEW n \in Nat, Cardinality(S) <= n
  PROVE  IsFiniteSet(T) /\ Cardinality(T) <= n
<1>1. IsFiniteSet(T) /\ Cardinality(T) <= Cardinality(S)
  BY FS_Subset
<1>2. Cardinality(S) \in Nat /\ Cardinality(T) \in Nat
  BY <1>1, FS_CardinalityType
<1>3. QED
  BY <1>1, <1>2

LEMMA OneMore ==
  ASSUME NEW S, IsFiniteSet(S), NEW n \in Nat, Cardinality(S) < n, NEW e
  PROVE  IsFiniteSet(S \cup {e}) /\ Cardinality(S \cup {e}) <= n
<1>1. /\ IsFiniteSet(S \cup {e})
      /\ Cardinality(S \cup {e}) = IF e \in S THEN Cardinality(S) ELSE Cardinality(S) + 1
  BY FS_AddElement
<1>2. Cardinality(S) \in Nat
  BY FS_CardinalityType
<1>3. QED
  BY <1>1, <1>2

(* What pruneExpired leaves is within the limits. *)
LEMMA PrunedLimits ==
  ASSUME WalletGood
  PROVE  /\ DOMAIN PrunedLogins \subseteq DOMAIN logins
         /\ IsFiniteSet(DOMAIN PrunedLogins) /\ Cardinality(DOMAIN PrunedLogins) <= MaxPending
         /\ DOMAIN PrunedSessions \subseteq DOMAIN sessions
         /\ IsFiniteSet(DOMAIN PrunedSessions) /\ Cardinality(DOMAIN PrunedSessions) <= MaxSessions
<1>1. DOMAIN PrunedLogins \subseteq DOMAIN logins /\ DOMAIN PrunedSessions \subseteq DOMAIN sessions
  BY DEF PrunedLogins, PrunedSessions
<1>2. QED
  BY <1>1, SubsetLimit, WalletAssumption DEF WalletGood, WithinLimits

(* A step of one tab that gives out no state and makes no session: it may  *)
(* take a login.                                                           *)
LEMMA TabStep ==
  ASSUME WalletGood, NEW b \in Tabs, NEW x, tabs' = [tabs EXCEPT ![b] = x], TabGood(x),
         WithinLimits', DOMAIN logins' \subseteq DOMAIN logins, UNCHANGED <<issued, made>>,
         \A s : Holds(x, s) => Holds(tabs[b], s) \/ (s \in DOMAIN logins /\ s \notin DOMAIN logins')
  PROVE  WalletGood'
<1>1. DOMAIN tabs' = Tabs /\ tabs' = [d \in Tabs |-> tabs'[d]]
  BY DEF WalletGood
<1>2. \A d \in Tabs : tabs'[d] = IF d = b THEN x ELSE tabs[d]
  BY DEF WalletGood
<1>3. \A d \in Tabs : TabGood(tabs[d])'
  <2>1. \A d \in Tabs : TabGood(tabs'[d])
    BY <1>2 DEF WalletGood
  <2>2. QED
    BY <2>1 DEF TabGood
<1>4. \A s \in DOMAIN logins' : /\ s \in issued'
                                /\ \A d \in Tabs : ~Holds(tabs'[d], s)
                                /\ \A y \in made' : y[1] # s
  BY <1>2 DEF WalletGood
<1>5. ASSUME NEW d \in Tabs, NEW s, Holds(tabs'[d], s)
      PROVE  /\ s \in issued'
             /\ \A e \in Tabs \ {d} : ~Holds(tabs'[e], s)
             /\ \A y \in made' : y[1] # s
  <2>1. CASE d = b
    <3>1. Holds(x, s)
      BY <1>2, <1>5, <2>1
    <3>2. QED
      BY <1>2, <2>1, <3>1 DEF WalletGood
  <2>2. CASE d # b
    <3>1. Holds(tabs[d], s)
      BY <1>2, <1>5, <2>2
    <3>2. ~Holds(x, s)
      BY <2>2, <3>1 DEF WalletGood
    <3>3. QED
      BY <1>2, <2>2, <3>1, <3>2 DEF WalletGood
  <2>3. QED
    BY <2>1, <2>2
<1>6. /\ \A y \in made' : y[1] \in issued'
      /\ \A y, z \in made' : y[1] = z[1] => y = z
  BY DEF WalletGood
<1>7. QED
  BY <1>1, <1>3, <1>4, <1>5, <1>6 DEF WalletGood, Holds

LEMMA BlankGood == TabGood(Blank) /\ \A s : ~Holds(Blank, s)
BY DEF TabGood, Holds, Blank

LEMMA LimitsSame ==
  ASSUME WalletGood, UNCHANGED <<logins, sessions>>
  PROVE  WithinLimits' /\ DOMAIN logins' \subseteq DOMAIN logins
BY DEF WalletGood, WithinLimits

(* A request that waits for the discovery document goes on as it would     *)
(* have without it.                                                        *)
LEMMA DiscoveryGood ==
  ASSUME NEW b \in Tabs, NEW y,
         \/ y = [stage |-> "login"]
         \/ \E s : y = [stage |-> "token", state |-> s],
         Discovery(b, y)
  PROVE  \E x : tabs' = [tabs EXCEPT ![b] = x] /\ TabGood(x) /\ \A s : Holds(x, s) => Holds(y, s)
<1> DEFINE z == [stage |-> "discovery", then |-> y]
<1>1. tabs' = [tabs EXCEPT ![b] = y] \/ tabs' = [tabs EXCEPT ![b] = z]
  BY DEF Discovery, Shows
<1>2. TabGood(y) /\ TabGood(z)
  BY DEF TabGood
<1>3. \A s : Holds(z, s) => Holds(y, s)
  BY DEF Holds
<1> HIDE DEF z
<1>4. QED
  BY <1>1, <1>2, <1>3

LEMMA LoginGood ==
  ASSUME WalletGood, NEW b \in Tabs, Login(b)
  PROVE  WalletGood'
<1>1. Discovery(b, [stage |-> "login"]) /\ UNCHANGED <<logins, sessions, issued, made>>
  BY DEF Login
<1>2. \A s : ~Holds([stage |-> "login"], s)
  BY DEF Holds
<1>3. PICK x : tabs' = [tabs EXCEPT ![b] = x] /\ TabGood(x) /\ \A s : ~Holds(x, s)
  BY <1>1, <1>2, DiscoveryGood
<1>4. QED
  BY <1>1, <1>3, LimitsSame, TabStep

LEMMA DiscoveryAnsweredGood ==
  ASSUME WalletGood, NEW b \in Tabs, DiscoveryAnswered(b)
  PROVE  WalletGood'
<1>1. UNCHANGED <<logins, sessions, issued, made>> /\ tabs[b].stage = "discovery"
  BY DEF DiscoveryAnswered, Waits
<1>2. tabs' = [tabs EXCEPT ![b] = tabs[b].then] \/ tabs' = [tabs EXCEPT ![b] = Blank]
  BY DEF DiscoveryAnswered, Shows
<1>3. TabGood(tabs[b])
  BY DEF WalletGood
<1>4. TabGood(tabs[b].then) /\ \A s : Holds(tabs[b].then, s) => Holds(tabs[b], s)
  <2>1. CASE tabs[b].then = [stage |-> "login"]
    BY <1>1, <2>1 DEF TabGood, Holds
  <2>2. CASE tabs[b].then = [stage |-> "token", state |-> tabs[b].then.state]
    <3>1. /\ tabs[b].then.stage = "token" /\ {"stage", "state"} \subseteq DOMAIN tabs[b].then
      BY <2>2
    <3>2. QED
      BY <1>1, <3>1 DEF TabGood, Holds
  <2>3. QED
    BY <1>1, <1>3, <2>1, <2>2 DEF TabGood
<1>5. QED
  BY <1>1, <1>2, <1>4, BlankGood, LimitsSame, TabStep

(* A state nobody was given is neither held nor made. *)
LEMMA LoginIssuedGood ==
  ASSUME WalletGood, NEW b \in Tabs, LoginIssued(b)
  PROVE  WalletGood'
<1>1. sessions' = PrunedSessions /\ tabs' = [tabs EXCEPT ![b] = Blank] /\ made' = made
  BY DEF LoginIssued, Shows
<1>2. CASE logins' = PrunedLogins /\ UNCHANGED issued
  <2>1. WithinLimits' /\ DOMAIN logins' \subseteq DOMAIN logins
    BY <1>1, <1>2, PrunedLimits DEF WithinLimits
  <2>2. QED
    BY <1>1, <1>2, <2>1, BlankGood, TabStep
<1>3. ASSUME Cardinality(DOMAIN PrunedLogins) < MaxPending, NEW s \in States \ issued,
             logins' = Put(PrunedLogins, s, tick + LoginTtl), issued' = issued \cup {s}
      PROVE  WalletGood'
  <2>1. DOMAIN logins' = DOMAIN PrunedLogins \cup {s}
    BY <1>3 DEF Put
  <2>2. WithinLimits'
    <3>1. IsFiniteSet(DOMAIN logins') /\ Cardinality(DOMAIN logins') <= MaxPending
      <4>1. IsFiniteSet(DOMAIN PrunedLogins)
        BY PrunedLimits
      <4>2. QED
        BY <1>3, <2>1, <4>1, OneMore, WalletAssumption
    <3>2. QED
      BY <1>1, <3>1, PrunedLimits DEF WithinLimits
  <2>3. DOMAIN tabs' = Tabs /\ tabs' = [d \in Tabs |-> tabs'[d]]
    BY <1>1 DEF WalletGood
  <2>4. \A d \in Tabs : tabs'[d] = IF d = b THEN Blank ELSE tabs[d]
    BY <1>1 DEF WalletGood
  <2>5. \A d \in Tabs : \A t : Holds(tabs'[d], t) => Holds(tabs[d], t)
    BY <2>4, BlankGood
  <2>6. \A d \in Tabs : TabGood(tabs'[d])
    BY <2>4, BlankGood DEF WalletGood
  <2>7. (\A d \in Tabs : ~Holds(tabs'[d], s)) /\ \A x \in made : x[1] # s
    BY <1>3, <2>5 DEF WalletGood
  <2>8. \A t \in DOMAIN logins' : /\ t \in issued'
                                  /\ \A d \in Tabs : ~Holds(tabs'[d], t)
                                  /\ \A x \in made' : x[1] # t
    BY <1>1, <1>3, <2>1, <2>5, <2>7, PrunedLimits DEF WalletGood
  <2>9. ASSUME NEW d \in Tabs, NEW t, Holds(tabs'[d], t)
        PROVE  /\ t \in issued'
               /\ \A e \in Tabs \ {d} : ~Holds(tabs'[e], t)
               /\ \A x \in made' : x[1] # t
    BY <1>1, <1>3, <2>5, <2>9 DEF WalletGood
  <2>10. /\ \A y \in made' : y[1] \in issued'
         /\ \A y, z \in made' : y[1] = z[1] => y = z
    BY <1>1, <1>3 DEF WalletGood
  <2>11. QED
    BY <2>2, <2>3, <2>6, <2>8, <2>9, <2>10 DEF WalletGood, Holds, TabGood
<1>4. QED
  BY <1>2, <1>3 DEF LoginIssued

LEMMA CallbackGood ==
  ASSUME WalletGood, NEW b \in Tabs, Callback(b)
  PROVE  WalletGood'
<1>1. PICK s \in issued :
        /\ LoginOf(s)
        /\ logins' = [t \in DOMAIN logins \ {s} |-> logins[t]]
        /\ Discovery(b, [stage |-> "token", state |-> s])
  BY DEF Callback
<1>2. UNCHANGED <<sessions, issued, made>>
  BY DEF Callback
<1>3. DOMAIN logins' = DOMAIN logins \ {s} /\ s \in DOMAIN logins
  BY <1>1 DEF LoginOf
<1>4. WithinLimits'
  BY <1>2, <1>3, SubsetLimit, WalletAssumption DEF WalletGood, WithinLimits
<1>5. \A t : Holds([stage |-> "token", state |-> s], t) => t = s
  BY DEF Holds
<1>6. PICK x : tabs' = [tabs EXCEPT ![b] = x] /\ TabGood(x) /\ \A t : Holds(x, t) => t = s
  BY <1>1, <1>5, DiscoveryGood
<1>7. QED
  BY <1>2, <1>3, <1>4, <1>6, TabStep

LEMMA ProviderAnsweredGood ==
  ASSUME WalletGood, NEW b \in Tabs, ProviderAnswered(b)
  PROVE  WalletGood'
<1> DEFINE x == [tabs[b] EXCEPT !.stage = AfterAnswer[tabs[b].stage]]
<1>1. UNCHANGED <<logins, sessions, issued, made>> /\ tabs[b].stage \in {"token", "keys"}
  BY DEF ProviderAnswered, AfterAnswer
<1>2. tabs' = [tabs EXCEPT ![b] = x] \/ tabs' = [tabs EXCEPT ![b] = Blank]
  BY DEF ProviderAnswered, Shows
<1>3. "stage" \in DOMAIN tabs[b] /\ "state" \in DOMAIN tabs[b]
  BY <1>1 DEF WalletGood, TabGood
<1>4. AfterAnswer[tabs[b].stage] \in {"keys", "verify"}
  BY <1>1 DEF AfterAnswer
<1>5. /\ x.stage = AfterAnswer[tabs[b].stage] /\ x.state = tabs[b].state
      /\ {"stage", "state"} \subseteq DOMAIN x
  BY <1>3
<1> HIDE DEF x
<1>6. TabGood(x) /\ \A s : Holds(x, s) => Holds(tabs[b], s)
  BY <1>1, <1>4, <1>5 DEF TabGood, Holds
<1>7. QED
  BY <1>1, <1>2, <1>6, BlankGood, LimitsSame, TabStep

LEMMA VerifiedGood ==
  ASSUME WalletGood, NEW b \in Tabs, Verified(b)
  PROVE  WalletGood'
<1>1. /\ tabs[b].stage = "verify" /\ tabs' = [tabs EXCEPT ![b] = Blank] /\ issued' = issued
      /\ logins' \in {logins, PrunedLogins}
  BY DEF Verified, Shows, Waits
<1>2. DOMAIN logins' \subseteq DOMAIN logins
      /\ IsFiniteSet(DOMAIN logins') /\ Cardinality(DOMAIN logins') <= MaxPending
  BY <1>1, PrunedLimits DEF WalletGood, WithinLimits
<1>3. CASE sessions' \in {sessions, PrunedSessions} /\ made' = made
  <2>1. WithinLimits'
    BY <1>2, <1>3, PrunedLimits DEF WithinLimits, WalletGood
  <2>2. QED
    BY <1>1, <1>2, <1>3, <2>1, BlankGood, TabStep
<1>4. CASE Cardinality(DOMAIN PrunedSessions) < MaxSessions /\ SessionMade(b)
  <2> DEFINE s == tabs[b].state
  <2>1. PICK i \in SessionIds :
          /\ sessions' = Put(PrunedSessions, i, [state |-> s, expires |-> tick + SessionTtl])
          /\ made' = made \cup {<<s, i>>}
    BY <1>4 DEF SessionMade
  <2>2. DOMAIN sessions' = DOMAIN PrunedSessions \cup {i}
    BY <2>1 DEF Put
  <2>3. WithinLimits'
    BY <1>2, <1>4, <2>2, PrunedLimits, OneMore, WalletAssumption DEF WithinLimits
  <2>4. Holds(tabs[b], s)
    BY <1>1 DEF Holds
  <2> HIDE DEF s
  <2>5. /\ s \in issued /\ \A d \in Tabs \ {b} : ~Holds(tabs[d], s)
        /\ \A x \in made : x[1] # s
    BY <2>4 DEF WalletGood
  <2>6. s \notin DOMAIN logins
    BY <2>4 DEF WalletGood
  <2>7. DOMAIN tabs' = Tabs /\ tabs' = [d \in Tabs |-> tabs'[d]]
    BY <1>1 DEF WalletGood
  <2>8. \A d \in Tabs : tabs'[d] = IF d = b THEN Blank ELSE tabs[d]
    BY <1>1 DEF WalletGood
  <2>9. \A d \in Tabs : TabGood(tabs'[d])
    BY <2>8, BlankGood DEF WalletGood
  <2>10. \A d \in Tabs : \A t : Holds(tabs'[d], t) => Holds(tabs[d], t) /\ t # s
    BY <2>5, <2>8, BlankGood
  <2>11. \A x \in made' : x \in made \/ (x = <<s, i>> /\ x[1] = s)
    BY <2>1
  <2>12. \A t \in DOMAIN logins' : /\ t \in issued'
                                   /\ \A d \in Tabs : ~Holds(tabs'[d], t)
                                   /\ \A x \in made' : x[1] # t
    BY <1>1, <1>2, <2>6, <2>10, <2>11 DEF WalletGood
  <2>13. ASSUME NEW d \in Tabs, NEW t, Holds(tabs'[d], t)
         PROVE  /\ t \in issued'
                /\ \A e \in Tabs \ {d} : ~Holds(tabs'[e], t)
                /\ \A x \in made' : x[1] # t
    BY <1>1, <2>10, <2>11, <2>13 DEF WalletGood
  <2>14. \A x \in made' : x[1] \in issued'
    BY <1>1, <2>5, <2>11 DEF WalletGood
  <2>15. \A x, y \in made' : x[1] = y[1] => x = y
    BY <2>5, <2>11 DEF WalletGood
  <2>16. QED
    BY <2>3, <2>7, <2>9, <2>12, <2>13, <2>14, <2>15 DEF WalletGood, Holds, TabGood
<1>5. QED
  BY <1>3, <1>4 DEF Verified

(* Signing out, and the requests that are forwarded. *)
LEMMA SessionUseGood ==
  ASSUME WalletGood, NEW b \in Tabs,
         Logout(b) \/ ActiveSession(b) \/ CloudRequest(b) \/ CloudAnswered(b)
  PROVE  WalletGood'
<1>1. UNCHANGED <<issued, made>>
  BY DEF Logout, ActiveSession, CloudRequest, CloudAnswered
<1>2. DOMAIN logins' \subseteq DOMAIN logins /\ DOMAIN sessions' \subseteq DOMAIN sessions
  BY PrunedLimits DEF Logout, ActiveSession, CloudRequest, CloudAnswered
<1>3. WithinLimits'
  BY <1>2, SubsetLimit, WalletAssumption DEF WalletGood, WithinLimits
<1>4. PICK x : /\ tabs' = [tabs EXCEPT ![b] = x] /\ TabGood(x)
               /\ \A s : Holds(x, s) => Holds(tabs[b], s)
  <2>1. CASE Logout(b)
    <3>1. tabs' = [tabs EXCEPT ![b] = tabs[b]]
      BY <2>1 DEF Logout, WalletGood
    <3>2. QED
      BY <3>1 DEF WalletGood
  <2>2. ASSUME NEW stage \in {"body", "forwarded"}
        PROVE  TabGood([stage |-> stage]) /\ \A s : ~Holds([stage |-> stage], s)
    BY DEF TabGood, Holds
  <2>3. CASE ActiveSession(b) \/ CloudRequest(b) \/ CloudAnswered(b)
    BY <2>2, <2>3, BlankGood DEF ActiveSession, CloudRequest, CloudAnswered, Shows
  <2>4. QED
    BY <2>1, <2>3
<1>5. QED
  BY <1>1, <1>2, <1>3, <1>4, TabStep

LEMMA WalletGoodInit == WalletInit => WalletGood
<1> SUFFICES ASSUME WalletInit PROVE WalletGood
  OBVIOUS
<1>1. DOMAIN logins = {} /\ DOMAIN sessions = {} /\ made = {}
  BY DEF WalletInit
<1>2. WithinLimits
  BY <1>1, FS_EmptySet, WalletAssumption DEF WithinLimits
<1>3. DOMAIN tabs = Tabs /\ tabs = [b \in Tabs |-> tabs[b]] /\ \A b \in Tabs : tabs[b] = Blank
  BY DEF WalletInit
<1>4. QED
  BY <1>1, <1>2, <1>3, BlankGood DEF WalletGood

LEMMA WalletGoodStep == WalletGood /\ [WalletNext]_walletVars => WalletGood'
<1> SUFFICES ASSUME WalletGood, [WalletNext]_walletVars PROVE WalletGood'
  OBVIOUS
<1>1. CASE UNCHANGED <<logins, sessions, tabs, issued, made>>
  BY <1>1 DEF WalletGood, WithinLimits, TabGood, Holds
<1>2. QED
  BY <1>1, LoginGood, DiscoveryAnsweredGood, LoginIssuedGood, CallbackGood, ProviderAnsweredGood,
     VerifiedGood, SessionUseGood DEF WalletNext, TimePasses, walletVars

(* A callback that is repeated makes no second session of its login, and   *)
(* the maps of pending logins and sessions stay within their limits        *)
(* (/auth/login, /auth/callback and pruneExpired).                         *)
THEOREM OneSessionOfALogin == WalletSpec => []LoginTakenOnce
<1>1. WalletGood => LoginTakenOnce
  BY DEF WalletGood, WithinLimits, LoginTakenOnce
<1>2. QED
  BY <1>1, WalletGoodInit, WalletGoodStep, PTL DEF WalletSpec

-------------------------------------------------------------------------------
(* The files of a local environment.  While no restore was disturbed, the  *)
(* database and the credentials belong together whenever no restore moves  *)
(* them, in every backup too, and what a restore has moved aside and in    *)
(* says which of the two states its error path leads back to.              *)

Whole(f) ==
  /\ f = [db |-> f.db, cred |-> f.cred]
  /\ f.db \in DatabaseFiles /\ f.cred \in CredentialFiles
  /\ f.cred.from = f.db.from /\ f.cred.key \in DOMAIN f.db.keys

Moved(d, fs, bs) ==
  /\ d = [stage |-> "move", from |-> d.from, step |-> d.step, old |-> d.old]
  /\ d.old = [db |-> d.old.db, cred |-> d.old.cred] /\ fs = [db |-> fs.db, cred |-> fs.cred]
  /\ d.from \in DOMAIN bs
  /\ \/ d.step = 1 /\ Whole(fs) /\ d.old.db = None /\ d.old.cred = None
     \/ d.step = 2 /\ Whole([db |-> d.old.db, cred |-> fs.cred]) /\ fs.db = None /\ d.old.cred = None
     \/ d.step = 3 /\ Whole(d.old) /\ fs.db = None /\ fs.cred = None
     \/ d.step = 4 /\ Whole(d.old) /\ Whole([db |-> fs.db, cred |-> bs[d.from].cred]) /\ fs.cred = None
     \/ d.step = 5 /\ Whole(d.old) /\ Whole(fs)
     \/ d.step = 6 /\ Whole(fs)

(* The files once the error path of a restore is through, and where it is. *)
Undoes(d, fs) ==
  [db |-> IF d.next <= 3 /\ d.old.db # None THEN d.old.db ELSE fs.db,
   cred |-> IF d.old.cred # None THEN d.old.cred ELSE fs.cred]
Undoing(d, fs) ==
  /\ d = [stage |-> "undo", at |-> d.at, next |-> d.next, old |-> d.old]
  /\ fs = [db |-> fs.db, cred |-> fs.cred]
  /\ d.at \in 1..4 /\ d.next \in 1..4
  /\ d.at = 4 => d.old.db # None
  /\ Whole(Undoes(d, fs))

(* What a rotation is about to write belongs to the database. *)
Fits(d, fs) ==
  d.cred \in CredentialFiles /\ d.cred.from = fs.db.from /\ d.cred.key \in DOMAIN fs.db.keys

Undisturbed(ds, fs, bs) ==
  /\ DOMAIN bs \subseteq Backups /\ \A b \in DOMAIN bs : Whole(bs[b])
  /\ (\A c \in Operators : ds[c].stage \notin {"move", "undo"}) => Whole(fs)
  /\ \A c \in Operators : ds[c].stage = "write" => Fits(ds[c], fs)
  /\ \A c \in Operators : ds[c].stage = "move" => Moved(ds[c], fs, bs)
  /\ \A c \in Operators : ds[c].stage = "undo" => Undoing(ds[c], fs)
  /\ \A c \in Operators : ds[c].stage \in {"move", "undo"} =>
       \A o \in Operators \ {c} : ds[o].stage = "idle"

LocalGood ==
  /\ doing = [c \in Operators |-> doing[c]] /\ torn \in BOOLEAN
  /\ ~torn => Undisturbed(doing, files, backups)

LEMMA WholeExists == ASSUME NEW f, Whole(f) PROVE f.db # None /\ f.cred # None
BY LocalAssumption DEF Whole

LEMMA WholeOpened == ASSUME Whole(files) PROVE Opened = files
<1>1. files.db # None /\ files = [db |-> files.db, cred |-> files.cred]
  BY WholeExists DEF Whole
<1>2. QED
  BY <1>1 DEF Opened

(* The next state is good. *)
LocalStays ==
  /\ doing' = [c \in Operators |-> doing'[c]] /\ torn' \in BOOLEAN
  /\ ~torn' => Undisturbed(doing', files', backups')

(* Operator c goes on as d, outside of any restore. *)
Calmly(c, d) ==
  /\ \A o \in Operators : doing[o].stage \notin {"move", "undo"}
  /\ Whole(files')
  /\ DOMAIN backups' \subseteq Backups /\ \A b \in DOMAIN backups' : Whole(backups'[b])
  /\ \A o \in Operators \ {c} : doing[o].stage = "write" => Fits(doing[o], files')
  /\ d.stage = "write" => Fits(d, files')

LEMMA CalmGood ==
  ASSUME LocalGood, torn' \in BOOLEAN, torn => torn', NEW c \in Operators, NEW d,
         doing' = [doing EXCEPT ![c] = d], d.stage \notin {"move", "undo"}, ~torn' => Calmly(c, d)
  PROVE  LocalStays
<1>1. doing'[c] = d /\ (\A o \in Operators \ {c} : doing'[o] = doing[o]) /\ doing' = [o \in Operators |-> doing'[o]]
  BY DEF LocalGood
<1>2. ASSUME ~torn' PROVE Undisturbed(doing', files', backups')
  <2>1. \A o \in Operators : doing'[o].stage \notin {"move", "undo"}
    BY <1>1, <1>2 DEF Calmly
  <2>2. \A o \in Operators : doing'[o].stage = "write" => Fits(doing'[o], files')
    BY <1>1, <1>2 DEF Calmly
  <2>3. QED
    BY <1>2, <2>1, <2>2 DEF Calmly, Undisturbed
<1>3. QED
  BY <1>1, <1>2 DEF LocalStays

(* A step that leaves the files and the backups alone. *)
LEMMA StageGood ==
  ASSUME LocalGood, torn' \in BOOLEAN, torn => torn', NEW c \in Operators, NEW d,
         doing' = [doing EXCEPT ![c] = d], d.stage \notin {"move", "undo", "write"},
         ~torn' => \A o \in Operators : doing[o].stage \notin {"move", "undo"},
         ~torn' => files' = files /\ backups' = backups
  PROVE  LocalStays
<1>1. ~torn' => Calmly(c, d)
  BY DEF Calmly, LocalGood, Undisturbed
<1>2. QED
  BY <1>1, CalmGood

(* While an operator is at work no other one restores. *)
LEMMA NobodyMoves ==
  ASSUME LocalGood, ~torn, NEW c \in Operators, doing[c].stage \notin {"idle", "move", "undo"}
  PROVE  (\A o \in Operators : doing[o].stage \notin {"move", "undo"}) /\ Whole(files)
BY DEF LocalGood, Undisturbed

LEMMA LocalGoodInit == LocalInit => LocalGood
<1> SUFFICES ASSUME LocalInit PROVE LocalGood
  OBVIOUS
<1>1. FirstKey \in MerchantKeys
  BY LocalAssumption DEF FirstKey
<1>2. /\ files = [db |-> [from |-> "live", keys |-> [k \in {FirstKey} |-> "standing"]],
                 cred |-> [from |-> "live", key |-> FirstKey]]
      /\ backups = << >> /\ doing = [c \in Operators |-> [stage |-> "idle"]] /\ torn = FALSE
  BY DEF LocalInit, Resting
<1>3. [k \in {FirstKey} |-> "standing"] \in UNION {[ks -> KeyStates] : ks \in SUBSET MerchantKeys}
  <2>1. {FirstKey} \in SUBSET MerchantKeys /\ [k \in {FirstKey} |-> "standing"] \in [{FirstKey} -> KeyStates]
    BY <1>1 DEF KeyStates
  <2>2. QED
    BY <2>1
<1>4. Whole(files)
  BY <1>1, <1>2, <1>3 DEF Whole, DatabaseFiles, CredentialFiles, Origins
<1>5. DOMAIN backups = {}
  BY <1>2
<1>6. QED
  BY <1>2, <1>4, <1>5 DEF LocalGood, Undisturbed

LEMMA BeginGood == ASSUME LocalGood, NEW c \in Operators, Begin(c) PROVE LocalStays
<1>1. PICK op \in {"suspend", "resume", "backup", "restore", "rotate"} : doing' = [doing EXCEPT ![c] = [stage |-> op]]
  BY DEF Begin, Does
<1>2. /\ torn' = (torn \/ \E o \in Operators : doing[o].stage \in {"move", "undo"})
      /\ files' = files /\ backups' = backups
  BY DEF Begin, Restoring
<1>3. torn \in BOOLEAN /\ [stage |-> op].stage \notin {"move", "undo", "write"}
  BY DEF LocalGood
<1>4. QED
  BY <1>1, <1>2, <1>3, StageGood

LEMMA OperateGood ==
  ASSUME LocalGood, NEW c \in Operators,
         SetStatus(c) \/ LocalSuspend(c) \/ LocalResume(c) \/ BackupStart(c) \/ BackupRestart(c)
  PROVE  LocalStays
<1>1. /\ doing[c].stage \notin {"idle", "move", "undo"} /\ torn' = torn /\ torn \in BOOLEAN /\ backups' = backups
      /\ files' = files \/ files' = Opened
  BY DEF SetStatus, LocalSuspend, LocalResume, BackupStart, BackupRestart, Doing, Kept, LocalGood
<1>2. PICK d : doing' = [doing EXCEPT ![c] = d] /\ d.stage \notin {"move", "undo", "write"}
  <2>1. \/ \E s \in {"idle", "suspended", "resumed"} : doing' = [doing EXCEPT ![c] = [stage |-> s]]
        \/ \E w \in BOOLEAN : doing' = [doing EXCEPT ![c] = [stage |-> "read", was |-> w]]
    BY DEF SetStatus, LocalSuspend, LocalResume, BackupStart, BackupRestart, Does, Resting
  <2>2. /\ \A w \in BOOLEAN : [stage |-> "read", was |-> w].stage \notin {"move", "undo", "write"}
        /\ \A s \in {"idle", "suspended", "resumed"} : [stage |-> s].stage \notin {"move", "undo", "write"}
    OBVIOUS
  <2>3. QED
    BY <2>1, <2>2
<1>3. ~torn' => (\A o \in Operators : doing[o].stage \notin {"move", "undo"}) /\ files' = files
  BY <1>1, NobodyMoves, WholeOpened
<1>4. QED
  BY <1>1, <1>2, <1>3, StageGood

(* backup: a copy of files that belong together. *)
LEMMA CopyWhole == ASSUME Whole(files), NEW b \in Backups PROVE Whole(Copy(b))
<1> DEFINE x == [files.db EXCEPT !.from = b]
           y == [files.cred EXCEPT !.from = b]
<1>1. x \in DatabaseFiles /\ x.from = b /\ x.keys = files.db.keys
  BY DEF Whole, DatabaseFiles, Origins
<1>2. y \in CredentialFiles /\ y.from = b /\ y.key = files.cred.key
  BY DEF Whole, CredentialFiles, Origins
<1>3. Copy(b) = [db |-> x, cred |-> y]
  BY DEF Copy
<1> HIDE DEF x, y
<1>4. QED
  BY <1>1, <1>2, <1>3 DEF Whole

LEMMA BackupReadGood == ASSUME LocalGood, NEW c \in Operators, BackupRead(c) PROVE LocalStays
<1>1. /\ doing[c].stage \notin {"idle", "move", "undo"} /\ torn' = torn /\ torn \in BOOLEAN /\ files' = files
      /\ \/ backups' = backups
         \/ \E b \in Backups \ DOMAIN backups : backups' = Put(backups, b, Copy(b))
  BY DEF BackupRead, Doing, Kept, LocalGood
<1>2. PICK d : doing' = [doing EXCEPT ![c] = d] /\ d.stage \notin {"move", "undo", "write"}
  <2>1. \E s \in {"idle", "restart"} : doing' = [doing EXCEPT ![c] = [stage |-> s]]
    BY DEF BackupRead, Does, Resting
  <2>2. \A s \in {"idle", "restart"} : [stage |-> s].stage \notin {"move", "undo", "write"}
    OBVIOUS
  <2>3. QED
    BY <2>1, <2>2
<1>3. ASSUME ~torn' PROVE Calmly(c, d)
  <2>1. (\A o \in Operators : doing[o].stage \notin {"move", "undo"}) /\ Whole(files)
    BY <1>1, <1>3, NobodyMoves
  <2>2. /\ DOMAIN backups \subseteq Backups /\ \A b \in DOMAIN backups : Whole(backups[b])
        /\ \A o \in Operators : doing[o].stage = "write" => Fits(doing[o], files)
    BY <1>1, <1>3 DEF LocalGood, Undisturbed
  <2>3. DOMAIN backups' \subseteq Backups /\ \A b \in DOMAIN backups' : Whole(backups'[b])
    <3>1. ASSUME NEW b \in Backups \ DOMAIN backups, backups' = Put(backups, b, Copy(b))
          PROVE  DOMAIN backups' \subseteq Backups /\ \A x \in DOMAIN backups' : Whole(backups'[x])
      <4>1. Whole(Copy(b))
        BY <2>1, CopyWhole
      <4>2. QED
        BY <2>2, <3>1, <4>1 DEF Put
    <3>2. QED
      BY <1>1, <2>2, <3>1
  <2>4. QED
    BY <1>1, <1>2, <2>1, <2>2, <2>3 DEF Calmly
<1>4. QED
  BY <1>1, <1>2, <1>3, CalmGood

(* rotateCredentials: the key the file will name is in the database when   *)
(* the file is written.                                                    *)
LEMMA RotatedWhole ==
  ASSUME Whole(files), NEW ks \in UNION {[s -> KeyStates] : s \in SUBSET MerchantKeys},
         DOMAIN files.db.keys \subseteq DOMAIN ks, files' = [files EXCEPT !.db.keys = ks]
  PROVE  /\ Whole(files') /\ files'.db.from = files.db.from /\ files'.db.keys = ks
         /\ \A d : Fits(d, files) => Fits(d, files')
<1> DEFINE x == [files.db EXCEPT !.keys = ks]
<1>1. x \in DatabaseFiles /\ x.from = files.db.from /\ x.keys = ks
  BY DEF Whole, DatabaseFiles
<1>2. files' = [db |-> x, cred |-> files.cred]
  BY DEF Whole
<1> HIDE DEF x
<1>3. files'.db = x /\ files'.cred = files.cred
  BY <1>2
<1>4. Whole(files')
  BY <1>1, <1>2, <1>3 DEF Whole
<1>5. QED
  BY <1>1, <1>3, <1>4 DEF Fits

LEMMA PutKeys ==
  ASSUME NEW ks \in UNION {[s -> KeyStates] : s \in SUBSET MerchantKeys}, NEW k \in MerchantKeys, NEW v \in KeyStates
  PROVE  /\ Put(ks, k, v) \in UNION {[s -> KeyStates] : s \in SUBSET MerchantKeys}
         /\ DOMAIN ks \subseteq DOMAIN Put(ks, k, v) /\ k \in DOMAIN Put(ks, k, v)
<1>1. PICK s \in SUBSET MerchantKeys : ks \in [s -> KeyStates]
  OBVIOUS
<1>2. s \cup {k} \in SUBSET MerchantKeys /\ Put(ks, k, v) \in [s \cup {k} -> KeyStates]
  BY <1>1 DEF Put
<1>3. QED
  BY <1>1, <1>2

LEMMA ExceptKeys ==
  ASSUME NEW ks \in UNION {[s -> KeyStates] : s \in SUBSET MerchantKeys}, NEW k \in DOMAIN ks, NEW v \in KeyStates
  PROVE  /\ [ks EXCEPT ![k] = v] \in UNION {[s -> KeyStates] : s \in SUBSET MerchantKeys}
         /\ DOMAIN [ks EXCEPT ![k] = v] = DOMAIN ks /\ ks[k] \in KeyStates
<1>1. PICK s \in SUBSET MerchantKeys : ks \in [s -> KeyStates]
  OBVIOUS
<1>2. [ks EXCEPT ![k] = v] \in [s -> KeyStates]
  BY <1>1
<1>3. QED
  BY <1>1, <1>2

LEMMA RotateGood == ASSUME LocalGood, NEW c \in Operators, RotateCredentials(c) PROVE LocalStays
<1>0. doing[c].stage = "rotate" /\ torn' = torn /\ torn \in BOOLEAN /\ backups' = backups
  BY DEF RotateCredentials, Doing, Kept, LocalGood
<1>1. CASE doing' = [doing EXCEPT ![c] = [stage |-> "idle"]] /\ files' = files
  BY <1>0, <1>1, NobodyMoves, StageGood
<1>2. ASSUME NEW new \in MerchantKeys \ DOMAIN files.db.keys,
             doing' = [doing EXCEPT ![c] = [stage |-> "write", cred |-> [files.cred EXCEPT !.key = new]]],
             \/ \E old \in DOMAIN files.db.keys : Rotates(old, new)
             \/ files' = [files EXCEPT !.db.keys = Put(@, new, "standing")]
      PROVE  LocalStays
  <2> DEFINE y == [files.cred EXCEPT !.key = new]
             d == [stage |-> "write", cred |-> y]
             keys == files.db.keys
  <2>1. ASSUME ~torn' PROVE Calmly(c, d)
    <3>1. (\A o \in Operators : doing[o].stage \notin {"move", "undo"}) /\ Whole(files)
      BY <1>0, <2>1, NobodyMoves
    <3>2. keys \in UNION {[s -> KeyStates] : s \in SUBSET MerchantKeys}
      BY <3>1 DEF Whole, DatabaseFiles
    <3> HIDE DEF keys
    <3>3. PICK ks \in UNION {[s -> KeyStates] : s \in SUBSET MerchantKeys} :
            DOMAIN keys \subseteq DOMAIN ks /\ new \in DOMAIN ks /\ files' = [files EXCEPT !.db.keys = ks]
      <4>1. CASE \E old \in DOMAIN files.db.keys : Rotates(old, new)
        <5>1. PICK old \in DOMAIN keys : files' = [files EXCEPT !.db.keys = Put([keys EXCEPT ![old] = "overlap"], new, keys[old])]
          BY <4>1 DEF Rotates, keys
        <5>2. "overlap" \in KeyStates
          BY DEF KeyStates
        <5>3. /\ [keys EXCEPT ![old] = "overlap"] \in UNION {[s -> KeyStates] : s \in SUBSET MerchantKeys}
              /\ DOMAIN [keys EXCEPT ![old] = "overlap"] = DOMAIN keys /\ keys[old] \in KeyStates
          BY <3>2, <5>2, ExceptKeys
        <5>4. QED
          BY <5>1, <5>3, PutKeys
      <4>2. CASE files' = [files EXCEPT !.db.keys = Put(@, new, "standing")]
        <5>1. files' = [files EXCEPT !.db.keys = Put(keys, new, "standing")]
          BY <4>2 DEF keys
        <5>2. "standing" \in KeyStates
          BY DEF KeyStates
        <5>3. QED
          BY <3>2, <5>1, <5>2, PutKeys
      <4>3. QED
        BY <1>2, <4>1, <4>2
    <3>4. /\ Whole(files') /\ files'.db.from = files.db.from /\ files'.db.keys = ks
          /\ \A x : Fits(x, files) => Fits(x, files')
      BY <3>1, <3>3, RotatedWhole DEF keys
    <3>5. y \in CredentialFiles /\ y.from = files.cred.from /\ y.key = new
      BY <3>1 DEF Whole, CredentialFiles
    <3> HIDE DEF y
    <3>6. Fits(d, files')
      BY <3>1, <3>3, <3>4, <3>5 DEF Fits, Whole
    <3>7. /\ DOMAIN backups \subseteq Backups /\ \A b \in DOMAIN backups : Whole(backups[b])
          /\ \A o \in Operators : doing[o].stage = "write" => Fits(doing[o], files)
      BY <1>0, <2>1 DEF LocalGood, Undisturbed
    <3> HIDE DEF d
    <3>8. QED
      BY <1>0, <3>1, <3>4, <3>6, <3>7 DEF Calmly
  <2>2. d.stage \notin {"move", "undo"}
    OBVIOUS
  <2> HIDE DEF d
  <2>3. QED
    BY <1>0, <1>2, <2>1, <2>2, CalmGood DEF d
<1>3. QED
  BY <1>1, <1>2 DEF RotateCredentials, Does, Resting, Accepted, StandingKeys

LEMMA WriteGood == ASSUME LocalGood, NEW c \in Operators, WriteCredentials(c) PROVE LocalStays
<1>0. /\ doing[c].stage = "write" /\ torn' = torn /\ torn \in BOOLEAN /\ backups' = backups
      /\ doing' = [doing EXCEPT ![c] = [stage |-> "idle"]]
      /\ files' = files \/ files' = [files EXCEPT !.cred = doing[c].cred]
  BY DEF WriteCredentials, Doing, Does, Resting, LocalGood
<1>1. CASE files' = files
  BY <1>0, <1>1, NobodyMoves, StageGood
<1>2. ASSUME ~torn', files' = [files EXCEPT !.cred = doing[c].cred] PROVE Calmly(c, [stage |-> "idle"])
  <2>1. (\A o \in Operators : doing[o].stage \notin {"move", "undo"}) /\ Whole(files)
    BY <1>0, <1>2, NobodyMoves
  <2>2. /\ DOMAIN backups \subseteq Backups /\ \A b \in DOMAIN backups : Whole(backups[b])
        /\ \A o \in Operators : doing[o].stage = "write" => Fits(doing[o], files)
    BY <1>0, <1>2 DEF LocalGood, Undisturbed
  <2>3. files' = [db |-> files.db, cred |-> doing[c].cred]
    BY <1>2, <2>1 DEF Whole
  <2>4. Whole(files') /\ \A o : Fits(doing[o], files) => Fits(doing[o], files')
    BY <1>0, <2>1, <2>2, <2>3 DEF Whole, Fits
  <2>5. QED
    BY <1>0, <2>1, <2>2, <2>4 DEF Calmly
<1>3. QED
  BY <1>0, <1>1, <1>2, CalmGood

LEMMA HaltGood == ASSUME LocalGood, Halt PROVE LocalStays
<1>0. /\ doing' = [c \in Operators |-> [stage |-> "idle"]] /\ backups' = backups
      /\ torn' = (torn \/ \E o \in Operators : doing[o].stage \in {"move", "undo"})
      /\ files' \in {files, Opened}
  BY DEF Halt, RestoreCredentialFile, Resting, Restoring
<1>1. ASSUME ~torn' PROVE Undisturbed(doing', files', backups')
  <2>1. Undisturbed(doing, files, backups) /\ Whole(files)
    BY <1>0, <1>1 DEF LocalGood, Undisturbed
  <2>2. files' = files
    BY <1>0, <2>1, WholeOpened
  <2>3. \A c \in Operators : doing'[c].stage = "idle"
    BY <1>0
  <2>4. QED
    BY <1>0, <2>1, <2>2, <2>3 DEF Undisturbed
<1>2. QED
  BY <1>0, <1>1 DEF LocalStays, LocalGood

(* The overlap of a rotated key ends, during a restore too. *)
LEMMA EndedWhole ==
  ASSUME NEW k \in DOMAIN KeysOf(files.db), files = [db |-> files.db, cred |-> files.cred],
         files' = [files EXCEPT !.db.keys[k] = "ended"],
         NEW f, Whole([db |-> files.db, cred |-> f])
  PROVE  /\ Whole([db |-> files'.db, cred |-> f]) /\ files'.db.from = files.db.from
         /\ DOMAIN files'.db.keys = DOMAIN files.db.keys
<1> DEFINE g == [db |-> files.db, cred |-> f]
<1>1. g.db = files.db /\ g.cred = f
  OBVIOUS
<1> HIDE DEF g
<1>2. files.db \in DatabaseFiles /\ f \in CredentialFiles /\ f.from = files.db.from /\ f.key \in DOMAIN files.db.keys
  BY <1>1 DEF Whole, g
<1>3. k \in DOMAIN files.db.keys
  BY <1>2, LocalAssumption DEF KeysOf
<1>4. "ended" \in KeyStates /\ files.db.keys \in UNION {[s -> KeyStates] : s \in SUBSET MerchantKeys}
  BY <1>2 DEF KeyStates, DatabaseFiles
<1> DEFINE ks == [files.db.keys EXCEPT ![k] = "ended"]
<1>5. ks \in UNION {[s -> KeyStates] : s \in SUBSET MerchantKeys} /\ DOMAIN ks = DOMAIN files.db.keys
  BY <1>3, <1>4, ExceptKeys
<1>6. files'.db = [files.db EXCEPT !.keys = ks]
  OBVIOUS
<1> HIDE DEF ks
<1>7. files'.db \in DatabaseFiles /\ files'.db.from = files.db.from /\ files'.db.keys = ks
  BY <1>2, <1>5, <1>6 DEF DatabaseFiles
<1>8. QED
  BY <1>2, <1>5, <1>7 DEF Whole

LEMMA OverlapGood == ASSUME LocalGood, OverlapEnds PROVE LocalStays
<1>0. doing' = doing /\ torn' = torn /\ torn \in BOOLEAN /\ backups' = backups
  BY DEF OverlapEnds, Kept, LocalGood
<1>1. PICK k \in DOMAIN KeysOf(files.db) : files' = [files EXCEPT !.db.keys[k] = "ended"]
  BY DEF OverlapEnds
<1>2. ASSUME ~torn PROVE Undisturbed(doing, files', backups)
  <2>0. Undisturbed(doing, files, backups)
    BY <1>2 DEF LocalGood
  <2>1. files = [db |-> files.db, cred |-> files.cred]
    BY <2>0 DEF Undisturbed, Moved, Undoing, Whole
  <2>2. files' = [db |-> files'.db, cred |-> files'.cred] /\ files'.cred = files.cred
    BY <1>1, <2>1
  <2>3. \A f : Whole([db |-> files.db, cred |-> f]) =>
                /\ Whole([db |-> files'.db, cred |-> f]) /\ files'.db.from = files.db.from
                /\ DOMAIN files'.db.keys = DOMAIN files.db.keys
    BY <1>1, <2>1, EndedWhole
  <2>4. Whole(files) => /\ Whole(files') /\ files'.db.from = files.db.from
                        /\ DOMAIN files'.db.keys = DOMAIN files.db.keys
    BY <2>1, <2>2, <2>3
  <2>5. files.db # None
    <3>1. << >> = [i \in {} |-> i]
      OBVIOUS
    <3>2. QED
      BY <1>1, <3>1 DEF KeysOf
  <2>6. ASSUME NEW c \in Operators, doing[c].stage = "move" PROVE Moved(doing[c], files', backups)
    <3> DEFINE d == doing[c]
    <3>1. Moved(d, files, backups)
      BY <2>0, <2>6 DEF Undisturbed
    <3> HIDE DEF d
    <3>2. QED
      BY <2>2, <2>3, <2>4, <2>5, <3>1 DEF Moved, d
  <2>7. ASSUME NEW c \in Operators, doing[c].stage = "write" PROVE Fits(doing[c], files')
    <3>1. Fits(doing[c], files) /\ Whole(files)
      BY <2>0, <2>7 DEF Undisturbed
    <3>2. QED
      BY <2>4, <3>1 DEF Fits
  <2>8. ASSUME NEW c \in Operators, doing[c].stage = "undo" PROVE Undoing(doing[c], files')
    <3> DEFINE d == doing[c]
    <3>1. Undoing(d, files)
      BY <2>0, <2>8 DEF Undisturbed
    <3> HIDE DEF d
    <3>2. Whole(Undoes(d, files'))
      BY <2>2, <2>3, <3>1 DEF Undoing, Undoes
    <3>3. QED
      BY <2>2, <3>1, <3>2 DEF Undoing, d
  <2>9. QED
    BY <2>0, <2>4, <2>6, <2>7, <2>8 DEF Undisturbed
<1>3. QED
  BY <1>0, <1>2 DEF LocalStays, LocalGood

(* restoreBackup begins: whoever else is at work counts as a disturbance. *)
LEMMA RestoreBackupGood == ASSUME LocalGood, NEW c \in Operators, RestoreBackup(c) PROVE LocalStays
<1>0. doing[c].stage = "restore" /\ torn \in BOOLEAN /\ backups' = backups /\ files' = files
  BY DEF RestoreBackup, Doing, LocalGood
<1>1. CASE doing' = [doing EXCEPT ![c] = [stage |-> "idle"]] /\ torn' = torn
  BY <1>0, <1>1, NobodyMoves, StageGood
<1>2. ASSUME NEW b \in DOMAIN backups,
             doing' = [doing EXCEPT ![c] = [stage |-> "move", from |-> b, step |-> 1, old |-> [db |-> None, cred |-> None]]],
             torn' = (torn \/ \E o \in Operators \ {c} : doing[o].stage # "idle")
      PROVE  LocalStays
  <2> DEFINE d == [stage |-> "move", from |-> b, step |-> 1, old |-> [db |-> None, cred |-> None]]
  <2>1. /\ d = [stage |-> "move", from |-> d.from, step |-> d.step, old |-> d.old] /\ d.from = b /\ d.step = 1
        /\ d.old = [db |-> d.old.db, cred |-> d.old.cred] /\ d.old.db = None /\ d.old.cred = None /\ d.stage = "move"
    OBVIOUS
  <2>2. doing' = [doing EXCEPT ![c] = d]
    BY <1>2
  <2> HIDE DEF d
  <2>3. doing'[c] = d /\ (\A o \in Operators \ {c} : doing'[o] = doing[o]) /\ doing' = [o \in Operators |-> doing'[o]]
    BY <2>2 DEF LocalGood
  <2>4. ASSUME ~torn' PROVE Undisturbed(doing', files', backups')
    <3>1. (\A o \in Operators \ {c} : doing[o].stage = "idle") /\ Undisturbed(doing, files, backups) /\ Whole(files)
      BY <1>0, <1>2, <2>4, NobodyMoves DEF LocalGood
    <3>2. Moved(d, files, backups)
      BY <1>2, <2>1, <3>1 DEF Moved, Whole
    <3>3. QED
      BY <1>0, <2>1, <2>3, <3>1, <3>2 DEF Undisturbed
  <2>5. QED
    BY <1>0, <1>2, <2>3, <2>4 DEF LocalStays
<1>3. QED
  BY <1>1, <1>2 DEF RestoreBackup, Does, Resting, Doing

(* A step of a restore: it goes on, or is over. *)
LEMMA MoveStays ==
  ASSUME LocalGood, NEW c \in Operators, doing[c].stage \in {"move", "undo"}, torn' = torn,
         backups' = backups, NEW d, doing' = [doing EXCEPT ![c] = d],
         ~torn => \/ d.stage = "move" /\ Moved(d, files', backups)
                  \/ d.stage = "undo" /\ Undoing(d, files')
                  \/ d.stage \in {"idle", "resume"} /\ Whole(files')
  PROVE  LocalStays
<1>1. doing'[c] = d /\ (\A o \in Operators \ {c} : doing'[o] = doing[o]) /\ doing' = [o \in Operators |-> doing'[o]]
  BY DEF LocalGood
<1>2. ASSUME ~torn PROVE Undisturbed(doing', files', backups)
  <2>1. (\A o \in Operators \ {c} : doing[o].stage = "idle") /\ Undisturbed(doing, files, backups)
    BY <1>2 DEF LocalGood, Undisturbed
  <2>2. QED
    BY <1>1, <1>2, <2>1 DEF Undisturbed
<1>3. QED
  BY <1>1, <1>2 DEF LocalStays, LocalGood

(* restoreBackup: each rename and removal, and the error path.  A removal  *)
(* that fails is left out: after the old database is gone its error path   *)
(* has nothing to put back.                                                *)
LEMMA RestoreStepGood ==
  ASSUME "rm" \notin FailingFiles, LocalGood, NEW c \in Operators, RestoreStep(c)
  PROVE  LocalStays
<1> DEFINE d == doing[c]
<1>0. d.stage = "move" /\ torn' = torn /\ backups' = backups
  BY DEF RestoreStep, Doing, Kept
<1>1. ~torn => Moved(d, files, backups) /\ \A b \in DOMAIN backups : Whole(backups[b])
  BY <1>0 DEF LocalGood, Undisturbed
<1>2. CASE d.step = 1 /\ MovesAside(c, "db")
  <2> DEFINE x == [stage |-> "move", from |-> d.from, step |-> d.step + 1, old |-> [d.old EXCEPT !["db"] = files["db"]]]
  <2>1. doing' = [doing EXCEPT ![c] = x] /\ files' = [files EXCEPT !["db"] = None]
    BY <1>2 DEF MovesAside, Moves, Does
  <2>2. ASSUME ~torn PROVE x.stage = "move" /\ Moved(x, files', backups)
    <3>1. Moved(d, files, backups) /\ Whole(files) /\ d.old.cred = None
      BY <1>1, <1>2, <2>2 DEF Moved
    <3>2. files' = [db |-> None, cred |-> files.cred]
      BY <2>1, <3>1 DEF Moved
    <3>3. x = [stage |-> "move", from |-> d.from, step |-> 2, old |-> [db |-> files.db, cred |-> d.old.cred]]
      <4>1. /\ d = [stage |-> "move", from |-> d.from, step |-> d.step, old |-> d.old] /\ d.step + 1 = 2
            /\ d.old = [db |-> d.old.db, cred |-> d.old.cred]
        BY <1>2, <3>1 DEF Moved
      <4> HIDE DEF d
      <4>2. [d.old EXCEPT !["db"] = files["db"]] = [db |-> files.db, cred |-> d.old.cred]
        BY <4>1
      <4>3. QED
        BY <4>1, <4>2
    <3> HIDE DEF x
    <3>4. x.old.db = files.db /\ x.old.cred = None /\ x.step = 2 /\ x.from = d.from /\ x.stage = "move"
      BY <3>1, <3>3
    <3>5. [db |-> x.old.db, cred |-> files'.cred] = files
      BY <3>1, <3>2, <3>4 DEF Moved
    <3>6. QED
      BY <3>1, <3>2, <3>3, <3>4, <3>5 DEF Moved
  <2> HIDE DEF x
  <2>3. QED
    BY <1>0, <2>1, <2>2, MoveStays
<1>3. CASE d.step = 2 /\ MovesAside(c, "cred")
  <2> DEFINE x == [stage |-> "move", from |-> d.from, step |-> d.step + 1, old |-> [d.old EXCEPT !["cred"] = files["cred"]]]
  <2>1. doing' = [doing EXCEPT ![c] = x] /\ files' = [files EXCEPT !["cred"] = None]
    BY <1>3 DEF MovesAside, Moves, Does
  <2>2. ASSUME ~torn PROVE x.stage = "move" /\ Moved(x, files', backups)
    <3>1. Moved(d, files, backups) /\ Whole([db |-> d.old.db, cred |-> files.cred]) /\ files.db = None
      BY <1>1, <1>3, <2>2 DEF Moved
    <3>2. files' = [db |-> None, cred |-> None]
      BY <2>1, <3>1 DEF Moved
    <3>3. x = [stage |-> "move", from |-> d.from, step |-> 3, old |-> [db |-> d.old.db, cred |-> files.cred]]
      <4>1. /\ d = [stage |-> "move", from |-> d.from, step |-> d.step, old |-> d.old] /\ d.step + 1 = 3
            /\ d.old = [db |-> d.old.db, cred |-> d.old.cred]
        BY <1>3, <3>1 DEF Moved
      <4> HIDE DEF d
      <4>2. [d.old EXCEPT !["cred"] = files["cred"]] = [db |-> d.old.db, cred |-> files.cred]
        BY <4>1
      <4>3. QED
        BY <4>1, <4>2
    <3> HIDE DEF x
    <3>4. x.old = [db |-> d.old.db, cred |-> files.cred] /\ x.step = 3 /\ x.from = d.from /\ x.stage = "move"
      BY <3>3
    <3>5. QED
      BY <3>1, <3>2, <3>3, <3>4 DEF Moved
  <2> HIDE DEF x
  <2>3. QED
    BY <1>0, <2>1, <2>2, MoveStays
<1>4. CASE d.step = 3 /\ MovesIn(c, "db")
  <2> DEFINE x == [stage |-> "move", from |-> d.from, step |-> d.step + 1, old |-> d.old]
             w == backups[d.from]
  <2>1. doing' = [doing EXCEPT ![c] = x] /\ files' = [files EXCEPT !["db"] = w["db"]]
    BY <1>4 DEF MovesIn, Moves, Does
  <2>2. ASSUME ~torn PROVE x.stage = "move" /\ Moved(x, files', backups)
    <3>1. Moved(d, files, backups) /\ Whole(d.old) /\ files.cred = None /\ Whole(w)
      BY <1>1, <1>4, <2>2 DEF Moved
    <3>2. files' = [db |-> w.db, cred |-> None]
      BY <2>1, <3>1 DEF Moved
    <3>3. x = [stage |-> "move", from |-> d.from, step |-> 4, old |-> d.old]
      <4>1. /\ d = [stage |-> "move", from |-> d.from, step |-> d.step, old |-> d.old] /\ d.step + 1 = 4
            /\ d.old = [db |-> d.old.db, cred |-> d.old.cred]
        BY <1>4, <3>1 DEF Moved
      <4> HIDE DEF d
      <4>2. QED
        BY <4>1
    <3> HIDE DEF x
    <3>4. x.old = d.old /\ x.step = 4 /\ x.from = d.from /\ x.stage = "move"
      BY <3>3
    <3>5. [db |-> files'.db, cred |-> backups[x.from].cred] = w
      BY <3>1, <3>2, <3>4 DEF Whole
    <3>6. QED
      BY <3>1, <3>2, <3>3, <3>4, <3>5 DEF Moved
  <2> HIDE DEF x
  <2>3. QED
    BY <1>0, <2>1, <2>2, MoveStays
<1>5. CASE d.step = 4 /\ MovesIn(c, "cred")
  <2> DEFINE x == [stage |-> "move", from |-> d.from, step |-> d.step + 1, old |-> d.old]
             w == backups[d.from]
  <2>1. doing' = [doing EXCEPT ![c] = x] /\ files' = [files EXCEPT !["cred"] = w["cred"]]
    BY <1>5 DEF MovesIn, Moves, Does
  <2>2. ASSUME ~torn PROVE x.stage = "move" /\ Moved(x, files', backups)
    <3>1. Moved(d, files, backups) /\ Whole(d.old) /\ Whole([db |-> files.db, cred |-> w.cred])
      BY <1>1, <1>5, <2>2 DEF Moved
    <3>2. files' = [db |-> files.db, cred |-> w.cred]
      BY <2>1, <3>1 DEF Moved
    <3>3. x = [stage |-> "move", from |-> d.from, step |-> 5, old |-> d.old]
      <4>1. /\ d = [stage |-> "move", from |-> d.from, step |-> d.step, old |-> d.old] /\ d.step + 1 = 5
            /\ d.old = [db |-> d.old.db, cred |-> d.old.cred]
        BY <1>5, <3>1 DEF Moved
      <4> HIDE DEF d
      <4>2. QED
        BY <4>1
    <3> HIDE DEF x
    <3>4. x.old = d.old /\ x.step = 5 /\ x.from = d.from /\ x.stage = "move"
      BY <3>3
    <3>5. QED
      BY <3>1, <3>2, <3>3, <3>4 DEF Moved
  <2> HIDE DEF x
  <2>3. QED
    BY <1>0, <2>1, <2>2, MoveStays
<1>6. CASE d.step = 5 /\ Removes(c, "db")
  <2> DEFINE x == [stage |-> "move", from |-> d.from, step |-> d.step + 1, old |-> [d.old EXCEPT !.db = None]]
  <2>1. doing' = [doing EXCEPT ![c] = x] /\ files' = files
    BY <1>6 DEF Removes, Moves, Does
  <2>2. ASSUME ~torn PROVE x.stage = "move" /\ Moved(x, files', backups)
    <3>1. Moved(d, files, backups) /\ Whole(files)
      BY <1>1, <1>6, <2>2 DEF Moved
    <3>2. x = [stage |-> "move", from |-> d.from, step |-> 6, old |-> [db |-> None, cred |-> d.old.cred]]
      <4>1. /\ d = [stage |-> "move", from |-> d.from, step |-> d.step, old |-> d.old] /\ d.step + 1 = 6
            /\ d.old = [db |-> d.old.db, cred |-> d.old.cred]
        BY <1>6, <3>1 DEF Moved
      <4> HIDE DEF d
      <4>2. [d.old EXCEPT !.db = None] = [db |-> None, cred |-> d.old.cred]
        BY <4>1
      <4>3. QED
        BY <4>1, <4>2
    <3> HIDE DEF x
    <3>3. x.old = [db |-> None, cred |-> d.old.cred] /\ x.step = 6 /\ x.from = d.from /\ x.stage = "move"
      BY <3>2
    <3>4. QED
      BY <2>1, <3>1, <3>2, <3>3 DEF Moved
  <2> HIDE DEF x
  <2>3. QED
    BY <1>0, <2>1, <2>2, MoveStays
<1>7. CASE d.step = 6 /\ Removes(c, "cred")
  <2>1. doing' = [doing EXCEPT ![c] = [stage |-> "resume"]] /\ files' = files
    BY <1>7 DEF Removes, Moves, Does
  <2>2. ~torn => [stage |-> "resume"].stage \in {"idle", "resume"} /\ Whole(files')
    BY <1>1, <1>7, <2>1 DEF Moved
  <2>3. QED
    BY <1>0, <2>1, <2>2, MoveStays
<1>8. CASE /\ (IF d.step <= 4 THEN "rename" ELSE "rm") \in FailingFiles
           /\ Does(c, [stage |-> "undo", at |-> d.step, next |-> 1, old |-> d.old]) /\ files' = files
  <2> DEFINE x == [stage |-> "undo", at |-> d.step, next |-> 1, old |-> d.old]
  <2>1. doing' = [doing EXCEPT ![c] = x]
    BY <1>8 DEF Does
  <2>2. /\ x = [stage |-> "undo", at |-> x.at, next |-> x.next, old |-> x.old] /\ x.stage = "undo"
        /\ x.at = d.step /\ x.next = 1 /\ x.old = d.old
    OBVIOUS
  <2> HIDE DEF x
  <2>3. ASSUME ~torn PROVE Undoing(x, files')
    <3>1. Moved(d, files, backups) /\ d.step \in 1..4
      BY <1>1, <1>8, <2>3 DEF Moved
    <3> HIDE DEF d
    <3>2. Whole(Undoes(x, files)) /\ (d.step = 4 => d.old.db # None)
      <4>1. CASE d.step = 1
        BY <2>2, <3>1, <4>1 DEF Moved, Undoes
      <4>2. CASE d.step = 2
        <5>1. Whole([db |-> d.old.db, cred |-> files.cred]) /\ d.old.cred = None
          BY <3>1, <4>2 DEF Moved
        <5>2. d.old.db # None
          BY <5>1, WholeExists
        <5>3. QED
          BY <2>2, <4>2, <5>1, <5>2 DEF Undoes
      <4>3. CASE d.step \in {3, 4}
        <5>1. Whole(d.old) /\ d.old.db # None /\ d.old.cred # None
          BY <3>1, <4>3, WholeExists DEF Moved
        <5>2. Undoes(x, files) = d.old
          BY <2>2, <3>1, <5>1 DEF Undoes, Moved
        <5>3. QED
          BY <5>1, <5>2
      <4>4. QED
        BY <3>1, <4>1, <4>2, <4>3
    <3>3. QED
      BY <1>8, <2>2, <3>1, <3>2 DEF Undoing, Moved
  <2>4. QED
    BY <1>0, <1>8, <2>1, <2>2, <2>3, MoveStays
<1>9. QED
  BY <1>2, <1>3, <1>4, <1>5, <1>6, <1>7, <1>8 DEF RestoreStep

(* The error path of a restore leads back, unless it fails in turn. *)
LEMMA UndoStepGood == ASSUME LocalGood, NEW c \in Operators, UndoStep(c) PROVE LocalStays
<1> DEFINE d == doing[c]
           after == Undone(files, d.old, d.at, d.next)
           x == IF d.next = 4 THEN [stage |-> "idle"] ELSE [d EXCEPT !.next = @ + 1]
<1>0. d.stage = "undo" /\ backups' = backups
  BY DEF UndoStep, Doing
<1>1. CASE torn'
  <2>1. \E y : doing' = [doing EXCEPT ![c] = y]
    BY DEF UndoStep, Does
  <2>2. doing' = [o \in Operators |-> doing'[o]]
    BY <2>1 DEF LocalGood
  <2>3. torn' \in BOOLEAN
    BY DEF UndoStep, LocalGood
  <2>4. QED
    BY <1>1, <2>2, <2>3 DEF LocalStays
<1>2. CASE files' = after /\ torn' = torn /\ doing' = [doing EXCEPT ![c] = x]
  <2>1. ASSUME ~torn
        PROVE  \/ x.stage = "undo" /\ Undoing(x, files')
               \/ x.stage = "idle" /\ Whole(files')
    <3>1. Undoing(d, files)
      BY <1>0, <2>1 DEF LocalGood, Undisturbed
    <3>2. files' = [db |-> after.db, cred |-> after.cred] /\ after = [db |-> after.db, cred |-> after.cred]
      BY <1>2 DEF Undone
    <3>3. d.at <= 4 /\ d.next \in 1..4 /\ Whole(Undoes(d, files)) /\ (d.at = 4 => d.old.db # None)
      BY <3>1 DEF Undoing
    <3>4. /\ after.db = IF d.next = 3 /\ d.old.db # None THEN d.old.db
                        ELSE IF d.next = 1 /\ d.at > 3 THEN None ELSE files.db
          /\ after.cred = IF d.next = 4 /\ d.old.cred # None THEN d.old.cred ELSE files.cred
      <4>1. ~(d.next = 2 /\ d.at > 4)
        BY <3>1 DEF Undoing
      <4>2. QED
        BY <4>1 DEF Undone
    <3>5. CASE d.next = 4
      <4>1. after = Undoes(d, files)
        BY <3>2, <3>4, <3>5 DEF Undoes
      <4>2. x.stage = "idle"
        BY <3>5
      <4>3. QED
        BY <1>2, <3>3, <4>1, <4>2
    <3>6. CASE d.next # 4
      <4>1. /\ d = [stage |-> "undo", at |-> d.at, next |-> d.next, old |-> d.old]
            /\ d.at \in 1..4 /\ d.next \in 1..3
        BY <3>1, <3>6 DEF Undoing
      <4>2. x = [d EXCEPT !.next = d.next + 1]
        BY <3>6
      <4> HIDE DEF d, x
      <4>3. x = [stage |-> "undo", at |-> d.at, next |-> d.next + 1, old |-> d.old]
        BY <4>1, <4>2
      <4>4. /\ x.stage = "undo" /\ x.at = d.at /\ x.next = d.next + 1 /\ x.old = d.old
            /\ x = [stage |-> "undo", at |-> x.at, next |-> x.next, old |-> x.old] /\ x.next \in 1..4
        BY <4>1, <4>3
      <4> HIDE DEF after
      <4>5. Undoes(x, after) = Undoes(d, files)
        <5>1. d.next = 1 /\ d.at > 3 => d.old.db # None
          BY <3>3, <4>1
        <5>2. QED
          BY <3>4, <4>1, <4>4, <5>1 DEF Undoes
      <4>6. QED
        BY <1>2, <3>2, <3>3, <4>1, <4>4, <4>5 DEF Undoing
    <3>7. QED
      BY <3>5, <3>6
  <2> HIDE DEF x
  <2>2. QED
    BY <1>0, <1>2, <2>1, MoveStays
<1>3. QED
  BY <1>1, <1>2 DEF UndoStep, Does, Resting

LEMMA LocalGoodStep ==
  ASSUME "rm" \notin FailingFiles PROVE LocalGood /\ [LocalNext]_localVars => LocalGood'
<1> SUFFICES ASSUME LocalGood, [LocalNext]_localVars PROVE LocalGood'
  OBVIOUS
<1>1. CASE UNCHANGED localVars
  BY <1>1 DEF localVars, LocalGood, Undisturbed, Moved, Undoing, Undoes, Whole, Fits
<1>2. CASE LocalNext
  <2>1. LocalStays
    BY <1>2, BeginGood, OperateGood, BackupReadGood, RestoreBackupGood, RestoreStepGood, UndoStepGood,
       RotateGood, WriteGood, OverlapGood, HaltGood DEF LocalNext
  <2>2. QED
    BY <2>1 DEF LocalStays, LocalGood, Undisturbed, Moved, Undoing, Undoes, Whole, Fits
<1>3. QED
  BY <1>1, <1>2

(* A restore of which a rename fails leaves a database and credentials     *)
(* that belong together, wherever it fails, unless a stop or another       *)
(* operation disturbed it (restoreBackup).  The hypothesis is needed: when *)
(* the removal of the second old file fails, the first is gone, and the    *)
(* error path deletes the database that was moved in all the same.         *)
THEOREM RestoresWhole ==
  ASSUME "rm" \notin FailingFiles
  PROVE  LocalSpec => []RestoreWhole
<1>1. LocalGood => RestoreWhole
  <2> SUFFICES ASSUME LocalGood, ~torn, ~Restoring PROVE RestoreWhole
    BY DEF RestoreWhole
  <2>1. Whole(files)
    BY DEF LocalGood, Undisturbed, Restoring
  <2>2. QED
    BY <2>1, WholeExists DEF RestoreWhole, Whole
<1>2. QED
  BY <1>1, LocalGoodInit, LocalGoodStep, PTL DEF LocalSpec

-------------------------------------------------------------------------------
(* The runtimes of the managed data plane.  A start is registered under    *)
(* its own instance and environment, and one that is alive is registered,  *)
(* or a suspension on its own instance waits for it.  What somebody waits  *)
(* for is not registered again.                                            *)

Alive == {"starting", "running"}
RuntimeMaps == [Instances -> [Envs -> Starts \cup {None}]]
Closes(x, t) == x.stage = "closing" /\ x.on = t
CallerGood(x) == "stage" \in DOMAIN x /\ (x.stage # "idle" => x.at \in Instances /\ x.env \in Envs)
WorkerGood(w) ==
  /\ "stage" \in DOMAIN w
  /\ w.stage = "provision" => w.env \in Envs
  /\ w.stage = "restore" => w = [stage |-> "restore", left |-> w.left] /\ w.left \subseteq Envs

Placed(rs, ps) ==
  /\ rs \in RuntimeMaps
  /\ ps = [t \in Starts |-> ps[t]]
  /\ \A t \in Starts : ps[t] = [at |-> ps[t].at, env |-> ps[t].env, state |-> ps[t].state]
  /\ \A t \in Starts : ps[t].state \in Alive => ps[t].at \in Instances /\ ps[t].env \in Envs
  /\ \A i \in Instances, e \in Envs : rs[i][e] # None =>
       ps[rs[i][e]].at = i /\ ps[rs[i][e]].env = e /\ ps[rs[i][e]].state \in Alive
Owned(rs, ps, cs) ==
  /\ \A c \in Callers : cs[c].stage = "closing" =>
       cs[c].on \in Starts /\ \A i \in Instances, e \in Envs : rs[i][e] # cs[c].on
  /\ \A t \in Starts : ps[t].state \in Alive =>
       \/ rs[ps[t].at][ps[t].env] = t
       \/ \E c \in Callers : Closes(cs[c], t) /\ cs[c].at = ps[t].at
Asking(cs) == cs = [c \in Callers |-> cs[c]] /\ \A c \in Callers : CallerGood(cs[c])
Working(ws) == ws = [i \in Instances |-> ws[i]] /\ \A i \in Instances : WorkerGood(ws[i])
PlaneGood ==
  /\ Placed(runtimes, platforms) /\ Owned(runtimes, platforms, callers)
  /\ Asking(callers) /\ Working(worker)

(* The next state is good. *)
PlaneStays ==
  /\ Placed(runtimes', platforms') /\ Owned(runtimes', platforms', callers')
  /\ Asking(callers') /\ Working(worker')

LEMMA PlaneGoodInit == Init => PlaneGood
<1> SUFFICES ASSUME Init PROVE PlaneGood
  OBVIOUS
<1>1. /\ runtimes = [i \in Instances |-> [e \in Envs |-> None]]
      /\ platforms = [t \in Starts |-> [at |-> None, env |-> None, state |-> "none"]]
      /\ worker = [i \in Instances |-> [stage |-> "idle"]]
      /\ callers = [c \in Callers |-> [stage |-> "idle"]]
  BY DEF Init, ProvisioningInit, Free, Over
<1>2. Placed(runtimes, platforms)
  BY <1>1 DEF Placed, RuntimeMaps, Alive
<1>3. Owned(runtimes, platforms, callers)
  BY <1>1 DEF Owned, Alive
<1>4. QED
  BY <1>1, <1>2, <1>3 DEF PlaneGood, Asking, CallerGood, Working, WorkerGood

(* Callers who begin, go on or return outside of a suspension. *)
CallersKeep(cs, new) ==
  \A c \in Callers : \/ new[c] = cs[c]
                     \/ cs[c].stage # "closing" /\ new[c].stage # "closing"

LEMMA OwnedKept ==
  ASSUME NEW rs, NEW ps, NEW cs, Owned(rs, ps, cs), NEW new, CallersKeep(cs, new)
  PROVE  Owned(rs, ps, new)
<1>1. \A c \in Callers : new[c].stage = "closing" => new[c] = cs[c]
  BY DEF CallersKeep
<1>2. \A c \in Callers : \A t : Closes(cs[c], t) => new[c] = cs[c]
  BY DEF CallersKeep, Closes
<1>3. \A c \in Callers : new[c].stage = "closing" =>
        new[c].on \in Starts /\ \A i \in Instances, e \in Envs : rs[i][e] # new[c].on
  BY <1>1 DEF Owned
<1>4. \A t \in Starts : ps[t].state \in Alive =>
        \/ rs[ps[t].at][ps[t].env] = t
        \/ \E c \in Callers : Closes(new[c], t) /\ new[c].at = ps[t].at
  BY <1>2 DEF Owned
<1>5. QED
  BY <1>3, <1>4 DEF Owned

LEMMA OneCaller ==
  ASSUME Asking(callers), NEW c \in Callers, NEW x, callers' = [callers EXCEPT ![c] = x], CallerGood(x)
  PROVE  /\ Asking(callers') /\ callers'[c] = x /\ \A o \in Callers \ {c} : callers'[o] = callers[o]
         /\ callers[c].stage # "closing" /\ x.stage # "closing" => CallersKeep(callers, callers')
<1>1. callers'[c] = x /\ (\A o \in Callers \ {c} : callers'[o] = callers[o]) /\ callers' = [o \in Callers |-> callers'[o]]
  BY DEF Asking
<1>2. QED
  BY <1>1 DEF Asking, CallersKeep

LEMMA OneWorker ==
  ASSUME Working(worker), NEW i \in Instances, NEW w, worker' = [worker EXCEPT ![i] = w], WorkerGood(w)
  PROVE  Working(worker')
<1>1. worker'[i] = w /\ (\A j \in Instances \ {i} : worker'[j] = worker[j]) /\ worker' = [j \in Instances |-> worker'[j]]
  BY DEF Working
<1>2. QED
  BY <1>1 DEF Working

(* Advances of a caller in progress. *)
LEMMA AdvanceGood ==
  ASSUME NEW x, CallerGood(x), x.stage # "idle", NEW s
  PROVE  LET y == [x EXCEPT !.stage = s] IN CallerGood(y) /\ y.stage = s
<1> DEFINE y == [x EXCEPT !.stage = s]
<1>1. y.stage = s /\ y.at = x.at /\ y.env = x.env /\ "stage" \in DOMAIN y
  BY DEF CallerGood
<1> HIDE DEF y
<1>2. CallerGood(y) /\ y.stage = s
  BY <1>1 DEF CallerGood
<1>3. QED
  BY <1>2 DEF y

(* runtimeFor: a start nobody waits for, and that is not alive, is free.   *)
LEMMA RuntimeForGood ==
  ASSUME PlaneGood, NEW i \in Instances, NEW e \in Envs, RuntimeFor(i, e)
  PROVE  Placed(runtimes', platforms') /\ Owned(runtimes', platforms', callers)
<1>0. Placed(runtimes, platforms) /\ Owned(runtimes, platforms, callers)
  BY DEF PlaneGood
<1>1. CASE UNCHANGED planeVars
  BY <1>0, <1>1 DEF planeVars
<1>2. CASE runtimes[i][e] = None /\ ~UNCHANGED planeVars
  <2> DEFINE t == CHOOSE x \in Starts : Unused(x)
             p == [at |-> i, env |-> e, state |-> "starting"]
  <2>1. /\ \E x \in Starts : Unused(x)
        /\ runtimes' = [runtimes EXCEPT ![i][e] = t] /\ platforms' = [platforms EXCEPT ![t] = p]
    BY <1>2 DEF RuntimeFor, StartOf
  <2>2. t \in Starts /\ Unused(t)
    BY <2>1
  <2> HIDE DEF t
  <2>3. platforms[t].state \notin Alive /\ \A c \in Callers : callers[c].stage = "closing" => callers[c].on # t
    BY <2>2 DEF Unused, Awaited, Alive
  <2>4. t # None
    BY <2>2, PlaneAssumption
  <2>5. p.at = i /\ p.env = e /\ p.state \in Alive /\ p = [at |-> p.at, env |-> p.env, state |-> p.state]
    BY DEF Alive
  <2> HIDE DEF p
  <2>6. \A j \in Instances, f \in Envs : runtimes'[j][f] = IF j = i /\ f = e THEN t ELSE runtimes[j][f]
    BY <1>0, <2>1 DEF Placed, RuntimeMaps
  <2>7. runtimes' \in RuntimeMaps
    BY <1>0, <2>1, <2>2 DEF Placed, RuntimeMaps
  <2>8. /\ platforms'[t] = p /\ (\A x \in Starts \ {t} : platforms'[x] = platforms[x])
        /\ platforms' = [x \in Starts |-> platforms'[x]]
    BY <1>0, <2>1, <2>2 DEF Placed
  <2>9. \A j \in Instances, f \in Envs : runtimes[j][f] # t
    BY <1>0, <2>3, <2>4 DEF Placed
  <2>10. \A j \in Instances, f \in Envs : runtimes[j][f] # None => runtimes[j][f] \in Starts
    BY <1>0 DEF Placed, RuntimeMaps
  <2>11. \A j \in Instances, f \in Envs : runtimes'[j][f] # None =>
           /\ platforms'[runtimes'[j][f]].at = j /\ platforms'[runtimes'[j][f]].env = f
           /\ platforms'[runtimes'[j][f]].state \in Alive
    BY <1>0, <2>5, <2>6, <2>8, <2>9, <2>10 DEF Placed
  <2>12. Placed(runtimes', platforms')
    BY <1>0, <2>5, <2>7, <2>8, <2>11 DEF Placed
  <2>13. ASSUME NEW x \in Starts, platforms'[x].state \in Alive
         PROVE  \/ runtimes'[platforms'[x].at][platforms'[x].env] = x
                \/ \E c \in Callers : Closes(callers[c], x) /\ callers[c].at = platforms'[x].at
    <3>1. CASE x = t
      BY <2>5, <2>6, <2>8, <3>1
    <3>2. CASE x # t
      <4>1. platforms'[x] = platforms[x] /\ platforms[x].at \in Instances /\ platforms[x].env \in Envs
        BY <1>0, <2>8, <2>13, <3>2 DEF Placed
      <4>2. CASE runtimes[platforms[x].at][platforms[x].env] = x
        <5>1. x # None
          BY PlaneAssumption
        <5>2. QED
          BY <1>2, <2>6, <4>1, <4>2, <5>1
      <4>3. CASE \E c \in Callers : Closes(callers[c], x) /\ callers[c].at = platforms[x].at
        BY <4>1, <4>3
      <4>4. QED
        BY <1>0, <2>13, <4>1, <4>2, <4>3 DEF Owned
    <3>3. QED
      BY <3>1, <3>2
  <2>14. Owned(runtimes', platforms', callers)
    BY <1>0, <2>3, <2>6, <2>13 DEF Owned
  <2>15. QED
    BY <2>12, <2>14
<1>3. QED
  BY <1>1, <1>2 DEF RuntimeFor

(* Without an effect on the runtimes. *)
LEMMA QuietGood ==
  ASSUME PlaneGood, CallersKeep(callers, callers'), Asking(callers'), Working(worker'), UNCHANGED planeVars
  PROVE  PlaneStays
<1>1. runtimes' = runtimes /\ platforms' = platforms
  BY DEF planeVars
<1>2. Owned(runtimes, platforms, callers')
  BY OwnedKept DEF PlaneGood
<1>3. QED
  BY <1>1, <1>2 DEF PlaneGood, PlaneStays

LEMMA SameKeeps == ASSUME callers' = callers PROVE CallersKeep(callers, callers')
BY DEF CallersKeep

(* With an effect of runtimeFor. *)
LEMMA AskGood ==
  ASSUME PlaneGood, NEW i \in Instances, NEW e \in Envs, RuntimeFor(i, e),
         CallersKeep(callers, callers'), Asking(callers'), Working(worker')
  PROVE  PlaneStays
<1>1. Placed(runtimes', platforms') /\ Owned(runtimes', platforms', callers)
  BY RuntimeForGood
<1>2. Owned(runtimes', platforms', callers')
  BY <1>1, OwnedKept
<1>3. QED
  BY <1>1, <1>2 DEF PlaneStays

(* startRuntime: a start that fails is evicted where it is registered. *)
LEMMA StartRuntimeGood == ASSUME PlaneGood, NEW t \in Starts, StartRuntime(t) PROVE PlaneStays
<1>0. /\ Placed(runtimes, platforms) /\ Owned(runtimes, platforms, callers) /\ callers' = callers /\ worker' = worker
      /\ platforms[t].state \in Alive /\ platforms[t].at \in Instances /\ platforms[t].env \in Envs
  BY DEF PlaneGood, StartRuntime, Placed, Alive
<1>1. CASE platforms' = [platforms EXCEPT ![t].state = "running"] /\ UNCHANGED runtimes
  <2> DEFINE p == [platforms[t] EXCEPT !.state = "running"]
  <2>1. p.at = platforms[t].at /\ p.env = platforms[t].env /\ p.state \in Alive /\ p = [at |-> p.at, env |-> p.env, state |-> p.state]
    BY <1>0 DEF Placed, Alive
  <2>2. platforms' = [platforms EXCEPT ![t] = p]
    BY <1>1
  <2> HIDE DEF p
  <2>3. /\ platforms'[t] = p /\ (\A x \in Starts \ {t} : platforms'[x] = platforms[x])
        /\ platforms' = [x \in Starts |-> platforms'[x]]
    BY <1>0, <2>2 DEF Placed
  <2>4. \A x \in Starts : /\ platforms'[x].at = platforms[x].at /\ platforms'[x].env = platforms[x].env
                          /\ platforms'[x].state \in Alive <=> platforms[x].state \in Alive
    BY <1>0, <2>1, <2>3
  <2>5. \A j \in Instances, f \in Envs : runtimes[j][f] # None => runtimes[j][f] \in Starts
    BY <1>0 DEF Placed, RuntimeMaps
  <2>6. Placed(runtimes, platforms')
    BY <1>0, <2>1, <2>3, <2>4, <2>5 DEF Placed
  <2>7. Owned(runtimes, platforms', callers)
    BY <1>0, <2>4 DEF Owned
  <2>8. QED
    BY <1>0, <1>1, <2>6, <2>7 DEF PlaneGood, PlaneStays
<1>2. CASE platforms' = [platforms EXCEPT ![t] = Over("failed")] /\ runtimes' = Evicted(t)
  <2> DEFINE a == platforms[t].at
             v == platforms[t].env
  <2>1. /\ platforms'[t] = [at |-> None, env |-> None, state |-> "failed"]
        /\ (\A x \in Starts \ {t} : platforms'[x] = platforms[x])
        /\ platforms' = [x \in Starts |-> platforms'[x]]
    BY <1>0, <1>2 DEF Placed, Over
  <2>2. platforms'[t].state \notin Alive /\ platforms'[t] = [at |-> platforms'[t].at, env |-> platforms'[t].env, state |-> platforms'[t].state]
    BY <2>1 DEF Alive
  <2>3. runtimes' = IF runtimes[a][v] = t THEN [runtimes EXCEPT ![a][v] = None] ELSE runtimes
    BY <1>2 DEF Evicted, Registered, Deregister
  <2>4. \A j \in Instances, f \in Envs : runtimes[j][f] = t => j = a /\ f = v
    BY <1>0, PlaneAssumption DEF Placed
  <2>5. \A j \in Instances, f \in Envs : runtimes'[j][f] = IF runtimes[j][f] = t THEN None ELSE runtimes[j][f]
    BY <1>0, <2>3, <2>4 DEF Placed, RuntimeMaps
  <2>6. runtimes' \in RuntimeMaps
    BY <1>0, <2>3 DEF Placed, RuntimeMaps
  <2>7. \A j \in Instances, f \in Envs : runtimes'[j][f] # None => runtimes'[j][f] = runtimes[j][f] /\ runtimes[j][f] \in Starts \ {t}
    BY <1>0, <2>5 DEF Placed, RuntimeMaps
  <2> HIDE DEF a, v
  <2>8. \A j \in Instances, f \in Envs : runtimes'[j][f] # None =>
          /\ platforms'[runtimes'[j][f]].at = j /\ platforms'[runtimes'[j][f]].env = f
          /\ platforms'[runtimes'[j][f]].state \in Alive
    BY <1>0, <2>1, <2>7 DEF Placed
  <2>9. Placed(runtimes', platforms')
    BY <1>0, <2>1, <2>2, <2>6, <2>8 DEF Placed
  <2>10. ASSUME NEW x \in Starts, platforms'[x].state \in Alive
         PROVE  \/ runtimes'[platforms'[x].at][platforms'[x].env] = x
                \/ \E c \in Callers : Closes(callers[c], x) /\ callers[c].at = platforms'[x].at
    <3>1. x # t /\ platforms'[x] = platforms[x] /\ platforms[x].at \in Instances /\ platforms[x].env \in Envs
      BY <1>0, <2>1, <2>2, <2>10 DEF Placed
    <3>2. QED
      BY <1>0, <2>5, <2>10, <3>1 DEF Owned
  <2>11. Owned(runtimes', platforms', callers)
    <3>1. \A c \in Callers : callers[c].stage = "closing" => callers[c].on # None
      BY <1>0, PlaneAssumption DEF Owned
    <3>2. QED
      BY <1>0, <2>5, <2>10, <3>1 DEF Owned
  <2>12. QED
    BY <1>0, <2>9, <2>11 DEF PlaneGood, PlaneStays
<1>3. QED
  BY <1>1, <1>2 DEF StartRuntime

(* suspend: whoever takes the start out of the map waits for it. *)
LEMMA SuspendGood == ASSUME PlaneGood, NEW c \in Callers, Suspend(c) PROVE PlaneStays
<1> DEFINE a == callers[c].at
           v == callers[c].env
           t == runtimes[a][v]
<1>0. /\ Placed(runtimes, platforms) /\ Owned(runtimes, platforms, callers) /\ Asking(callers) /\ worker' = worker
      /\ platforms' = platforms /\ callers[c].stage = "suspend" /\ CallerGood(callers[c]) /\ a \in Instances /\ v \in Envs
  BY DEF PlaneGood, Suspend, Running, Asking, CallerGood
<1>1. runtimes' = [runtimes EXCEPT ![a][v] = None]
  BY DEF Suspend, Deregister
<1>2. CASE t = None
  <2> DEFINE x == [callers[c] EXCEPT !.stage = "suspended"]
  <2>1. callers' = [callers EXCEPT ![c] = x]
    BY <1>2 DEF Suspend, Advances
  <2>2. CallerGood(x) /\ x.stage = "suspended"
    BY <1>0, AdvanceGood
  <2> HIDE DEF x
  <2>3. Asking(callers') /\ CallersKeep(callers, callers')
    BY <1>0, <2>1, <2>2, OneCaller
  <2>4. runtimes' = runtimes
    BY <1>0, <1>1, <1>2 DEF Placed, RuntimeMaps
  <2>5. QED
    BY <1>0, <2>3, <2>4, QuietGood DEF PlaneGood, planeVars
<1>3. CASE t # None
  <2> DEFINE x == [stage |-> "closing", env |-> v, at |-> a, on |-> t]
  <2>1. callers' = [callers EXCEPT ![c] = x]
    BY <1>3 DEF Suspend
  <2>2. CallerGood(x) /\ x.stage = "closing" /\ x.on = t /\ x.at = a
    BY <1>0 DEF CallerGood
  <2>3. /\ t \in Starts /\ platforms[t].at = a /\ platforms[t].env = v
        /\ \A j \in Instances, f \in Envs : runtimes[j][f] = t => j = a /\ f = v
    BY <1>0, <1>3 DEF Placed, RuntimeMaps
  <2>4. \A j \in Instances, f \in Envs : runtimes'[j][f] = IF runtimes[j][f] = t THEN None ELSE runtimes[j][f]
    BY <1>0, <1>1, <2>3 DEF Placed, RuntimeMaps
  <2>5. runtimes' \in RuntimeMaps
    BY <1>0, <1>1 DEF Placed, RuntimeMaps
  <2> HIDE DEF x, t, a, v
  <2>6. Asking(callers') /\ callers'[c] = x /\ \A o \in Callers \ {c} : callers'[o] = callers[o]
    BY <1>0, <2>1, <2>2, OneCaller
  <2>7. Placed(runtimes', platforms)
    BY <1>0, <2>4, <2>5 DEF Placed
  <2>8. ASSUME NEW o \in Callers, callers'[o].stage = "closing"
        PROVE  callers'[o].on \in Starts /\ \A i \in Instances, e \in Envs : runtimes'[i][e] # callers'[o].on
    <3>1. None \notin Starts
      BY PlaneAssumption
    <3>2. CASE o = c
      BY <2>2, <2>3, <2>4, <2>6, <3>1, <3>2
    <3>3. CASE o # c
      BY <1>0, <2>4, <2>6, <2>8, <3>1, <3>3 DEF Owned
    <3>4. QED
      BY <3>2, <3>3
  <2>9. ASSUME NEW y \in Starts, platforms[y].state \in Alive
        PROVE  \/ runtimes'[platforms[y].at][platforms[y].env] = y
               \/ \E o \in Callers : Closes(callers'[o], y) /\ callers'[o].at = platforms[y].at
    <3>1. CASE y = t
      BY <2>2, <2>3, <2>6, <3>1 DEF Closes
    <3>2. CASE y # t /\ runtimes[platforms[y].at][platforms[y].env] = y
      BY <1>0, <2>4, <2>9, <3>2 DEF Placed
    <3>3. CASE \E o \in Callers : Closes(callers[o], y) /\ callers[o].at = platforms[y].at
      <4>1. PICK o \in Callers : Closes(callers[o], y) /\ callers[o].at = platforms[y].at
        BY <3>3
      <4>2. o # c
        BY <1>0, <4>1 DEF Closes
      <4>3. QED
        BY <2>6, <4>1, <4>2
    <3>4. QED
      BY <1>0, <2>9, <3>1, <3>2, <3>3 DEF Owned
  <2>10. Owned(runtimes', platforms, callers')
    BY <2>8, <2>9 DEF Owned
  <2>11. QED
    BY <1>0, <2>6, <2>7, <2>10 DEF PlaneGood, PlaneStays
<1>4. QED
  BY <1>2, <1>3

(* The start that was waited for is over, and is closed. *)
LEMMA CloseGood == ASSUME PlaneGood, NEW c \in Callers, ClosePlatform(c) PROVE PlaneStays
<1> DEFINE t == callers[c].on
<1>0. /\ Placed(runtimes, platforms) /\ Owned(runtimes, platforms, callers) /\ Asking(callers) /\ worker' = worker
      /\ runtimes' = runtimes /\ callers[c].stage = "closing" /\ CallerGood(callers[c])
      /\ t \in Starts /\ \A i \in Instances, e \in Envs : runtimes[i][e] # t
  BY DEF PlaneGood, ClosePlatform, Running, Asking, Owned
<1>1. platforms' = [platforms EXCEPT ![t] = Over("none")]
  BY DEF ClosePlatform
<1>2. PICK x : callers' = [callers EXCEPT ![c] = x] /\ CallerGood(x) /\ x.stage # "closing"
  <2>1. CASE Advances(c, "suspended")
    <3>1. /\ CallerGood([callers[c] EXCEPT !.stage = "suspended"])
          /\ [callers[c] EXCEPT !.stage = "suspended"].stage = "suspended"
      BY <1>0, AdvanceGood
    <3>2. QED
      BY <2>1, <3>1 DEF Advances
  <2>2. CASE Returns(c)
    <3>1. CallerGood([stage |-> "idle"]) /\ [stage |-> "idle"].stage # "closing"
      BY DEF CallerGood
    <3>2. QED
      BY <2>2, <3>1 DEF Returns, Free
  <2>3. QED
    BY <2>1, <2>2 DEF ClosePlatform
<1> HIDE DEF t
<1>3. Asking(callers') /\ callers'[c] = x /\ \A o \in Callers \ {c} : callers'[o] = callers[o]
  BY <1>0, <1>2, OneCaller
<1>4. /\ platforms'[t] = [at |-> None, env |-> None, state |-> "none"]
      /\ (\A y \in Starts \ {t} : platforms'[y] = platforms[y]) /\ platforms' = [y \in Starts |-> platforms'[y]]
  BY <1>0, <1>1 DEF Placed, Over
<1>5. platforms'[t].state \notin Alive /\ platforms'[t] = [at |-> platforms'[t].at, env |-> platforms'[t].env, state |-> platforms'[t].state]
  BY <1>4 DEF Alive
<1>6. \A j \in Instances, f \in Envs : runtimes[j][f] # None => runtimes[j][f] \in Starts \ {t}
  BY <1>0 DEF Placed, RuntimeMaps
<1>7. Placed(runtimes, platforms')
  BY <1>0, <1>4, <1>5, <1>6 DEF Placed
<1>8. ASSUME NEW y \in Starts, platforms'[y].state \in Alive
      PROVE  \/ runtimes[platforms'[y].at][platforms'[y].env] = y
             \/ \E o \in Callers : Closes(callers'[o], y) /\ callers'[o].at = platforms'[y].at
  <2>1. y # t /\ platforms'[y] = platforms[y]
    BY <1>4, <1>5, <1>8
  <2>2. ASSUME NEW o \in Callers, Closes(callers[o], y) PROVE callers'[o] = callers[o]
    BY <1>0, <1>3, <2>1, <2>2 DEF Closes, t
  <2>3. QED
    BY <1>0, <1>8, <2>1, <2>2 DEF Owned
<1>9. \A o \in Callers : callers'[o].stage = "closing" =>
        callers'[o].on \in Starts /\ \A i \in Instances, e \in Envs : runtimes[i][e] # callers'[o].on
  BY <1>0, <1>2, <1>3 DEF Owned
<1>10. Owned(runtimes, platforms', callers')
  BY <1>8, <1>9 DEF Owned
<1>11. QED
  BY <1>0, <1>3, <1>7, <1>10 DEF PlaneGood, PlaneStays

(* An instance stops with its callers, its map and its platforms. *)
LEMMA StopGood == ASSUME PlaneGood, NEW i \in Instances, Stop(i) PROVE PlaneStays
<1>0. /\ Placed(runtimes, platforms) /\ Owned(runtimes, platforms, callers) /\ Asking(callers) /\ Working(worker)
      /\ worker' = [worker EXCEPT ![i] = [stage |-> "idle"]]
      /\ callers' = [c \in Callers |-> IF callers[c] # [stage |-> "idle"] /\ callers[c].at = i
                                       THEN [stage |-> "idle"] ELSE callers[c]]
      /\ runtimes' = [runtimes EXCEPT ![i] = [e \in Envs |-> None]]
      /\ platforms' = [t \in Starts |-> IF platforms[t].at = i THEN [at |-> None, env |-> None, state |-> "none"]
                                        ELSE platforms[t]]
  BY DEF PlaneGood, Stop, Free, Over
<1>1. WorkerGood([stage |-> "idle"]) /\ CallerGood([stage |-> "idle"])
  BY DEF WorkerGood, CallerGood
<1>2. Working(worker')
  BY <1>0, <1>1, OneWorker
<1>3. Asking(callers')
  BY <1>0, <1>1 DEF Asking
<1>4. \A j \in Instances, f \in Envs : runtimes'[j][f] = IF j = i THEN None ELSE runtimes[j][f]
  BY <1>0 DEF Placed, RuntimeMaps
<1>5. runtimes' \in RuntimeMaps
  BY <1>0 DEF Placed, RuntimeMaps
<1>6. \A t \in Starts : platforms'[t].state \in Alive => platforms[t].at # i /\ platforms'[t] = platforms[t]
  BY <1>0 DEF Alive
<1>7. \A t \in Starts : platforms[t].at # i => platforms'[t] = platforms[t]
  BY <1>0
<1>8. \A j \in Instances, f \in Envs : runtimes'[j][f] # None =>
        /\ runtimes'[j][f] = runtimes[j][f] /\ runtimes[j][f] \in Starts /\ j # i
        /\ platforms[runtimes[j][f]].at = j
  BY <1>0, <1>4 DEF Placed, RuntimeMaps
<1>9. \A t \in Starts : platforms'[t] = [at |-> platforms'[t].at, env |-> platforms'[t].env, state |-> platforms'[t].state]
  <2> SUFFICES ASSUME NEW t \in Starts
               PROVE  platforms'[t] = [at |-> platforms'[t].at, env |-> platforms'[t].env, state |-> platforms'[t].state]
    OBVIOUS
  <2>1. CASE platforms[t].at = i
    <3>1. platforms'[t] = [at |-> None, env |-> None, state |-> "none"]
      BY <1>0, <2>1
    <3>2. QED
      BY <3>1
  <2>2. CASE platforms[t].at # i
    BY <1>0, <1>7, <2>2 DEF Placed
  <2>3. QED
    BY <2>1, <2>2
<1>10. \A j \in Instances, f \in Envs : runtimes'[j][f] # None =>
         /\ platforms'[runtimes'[j][f]].at = j /\ platforms'[runtimes'[j][f]].env = f
         /\ platforms'[runtimes'[j][f]].state \in Alive
  BY <1>0, <1>7, <1>8 DEF Placed
<1>11. platforms' = [t \in Starts |-> platforms'[t]]
  BY <1>0
<1>12. Placed(runtimes', platforms')
  BY <1>0, <1>5, <1>6, <1>9, <1>10, <1>11 DEF Placed
<1>13. \A c \in Callers : callers'[c].stage = "closing" => callers'[c] = callers[c]
  BY <1>0
<1>14. \A c \in Callers : callers[c].at # i => callers'[c] = callers[c]
  BY <1>0
<1>15. ASSUME NEW t \in Starts, platforms'[t].state \in Alive
       PROVE  \/ runtimes'[platforms'[t].at][platforms'[t].env] = t
              \/ \E c \in Callers : Closes(callers'[c], t) /\ callers'[c].at = platforms'[t].at
  <2>1. platforms[t].at # i /\ platforms'[t] = platforms[t] /\ platforms[t].at \in Instances /\ platforms[t].env \in Envs
    BY <1>0, <1>6, <1>15 DEF Placed
  <2>2. CASE runtimes[platforms[t].at][platforms[t].env] = t
    BY <1>4, <2>1, <2>2
  <2>3. CASE \E c \in Callers : Closes(callers[c], t) /\ callers[c].at = platforms[t].at
    BY <1>14, <2>1, <2>3
  <2>4. QED
    BY <1>0, <1>15, <2>1, <2>2, <2>3 DEF Owned
<1>16. ASSUME NEW c \in Callers, callers'[c].stage = "closing"
       PROVE  callers'[c].on \in Starts /\ \A j \in Instances, f \in Envs : runtimes'[j][f] # callers'[c].on
  <2>1. callers'[c] = callers[c] /\ callers[c].on \in Starts /\ callers[c].on # None
    BY <1>0, <1>13, <1>16, PlaneAssumption DEF Owned
  <2>2. QED
    BY <1>0, <1>4, <1>16, <2>1 DEF Owned
<1>17. Owned(runtimes', platforms', callers')
  BY <1>15, <1>16 DEF Owned
<1>18. QED
  BY <1>2, <1>3, <1>12, <1>17 DEF PlaneStays

(* The queue and its callers, and what leaves the runtimes alone. *)
LEMMA CallGood ==
  ASSUME Asking(callers), NEW c \in Callers, NEW i \in Instances, NEW e \in Envs,
         NEW s, s # "closing", Calls(c, i, [stage |-> s, env |-> e, at |-> i])
  PROVE  Asking(callers') /\ CallersKeep(callers, callers')
<1> DEFINE x == [stage |-> s, env |-> e, at |-> i]
<1>1. callers' = [callers EXCEPT ![c] = x] /\ callers[c].stage # "closing"
  BY DEF Calls, Free
<1>2. CallerGood(x) /\ x.stage # "closing"
  BY DEF CallerGood
<1> HIDE DEF x
<1>3. QED
  BY <1>1, <1>2, OneCaller

LEMMA ReturnGood ==
  ASSUME Asking(callers), NEW c \in Callers, callers[c].stage # "closing", Returns(c)
  PROVE  Asking(callers') /\ CallersKeep(callers, callers')
<1>1. callers' = [callers EXCEPT ![c] = [stage |-> "idle"]] /\ CallerGood([stage |-> "idle"])
      /\ [stage |-> "idle"].stage # "closing"
  BY DEF Returns, Free, CallerGood
<1>2. QED
  BY <1>1, OneCaller

LEMMA ControlPlaneGood == ASSUME PlaneGood, ControlPlaneStep, UNCHANGED planeVars PROVE PlaneStays
<1>0. Asking(callers) /\ Working(worker)
  BY DEF PlaneGood
<1>1. ASSUME Working(worker'), callers' = callers PROVE PlaneStays
  BY <1>0, <1>1, QuietGood, SameKeeps
<1>2. ASSUME worker' = worker, Asking(callers') /\ CallersKeep(callers, callers') PROVE PlaneStays
  BY <1>0, <1>2, QuietGood
<1>3. ASSUME NEW i \in Instances, ClaimProvisioningJob(i) PROVE PlaneStays
  <2>1. PICK e \in Envs : \E n : worker' = [worker EXCEPT ![i] = [stage |-> "provision", env |-> e, attempts |-> n]]
    BY <1>3 DEF ClaimProvisioningJob
  <2>2. PICK n : worker' = [worker EXCEPT ![i] = [stage |-> "provision", env |-> e, attempts |-> n]]
    BY <2>1
  <2>3. WorkerGood([stage |-> "provision", env |-> e, attempts |-> n])
    BY DEF WorkerGood
  <2>4. QED
    BY <1>0, <1>1, <1>3, <2>2, <2>3, OneWorker DEF ClaimProvisioningJob
<1>4. WorkerGood([stage |-> "idle"])
  BY DEF WorkerGood
<1>5. ASSUME NEW i \in Instances, Finish(i) PROVE PlaneStays
  <2> DEFINE w == [worker[i] EXCEPT !.stage = "error"]
  <2>1. CASE worker' = [worker EXCEPT ![i] = [stage |-> "idle"]]
    BY <1>0, <1>1, <1>4, <1>5, <2>1, OneWorker DEF Finish
  <2>2. CASE worker' = [worker EXCEPT ![i] = w]
    <3>1. "stage" \in DOMAIN w /\ w.stage = "error"
      BY <1>0 DEF Working, WorkerGood
    <3> HIDE DEF w
    <3>2. WorkerGood(w)
      BY <3>1 DEF WorkerGood
    <3>3. QED
      BY <1>0, <1>1, <1>5, <2>2, <3>2, OneWorker DEF Finish
  <2>3. QED
    BY <1>5, <2>1, <2>2 DEF Finish, Free
<1>6. ASSUME NEW i \in Instances, Fail(i) PROVE PlaneStays
  BY <1>0, <1>1, <1>4, <1>6, OneWorker DEF Fail, Free
<1>7. ASSUME NEW e \in Envs, BackoffEnds(e) \/ LeaseExpires(e) PROVE PlaneStays
  BY <1>0, <1>1, <1>7 DEF BackoffEnds, LeaseExpires
<1>8. ASSUME NEW c \in Callers, NEW i \in Instances,
             ProvisionTenant(c, i) \/ AttachEnvironment(c, i) \/ OperateLocalEnvironment(c, i)
      PROVE  PlaneStays
  <2>1. worker' = worker
    BY <1>8 DEF ProvisionTenant, AttachEnvironment, OperateLocalEnvironment
  <2>2. PICK e \in Envs, s \in {"poll", "attach", "suspend", "resume"} : Calls(c, i, [stage |-> s, env |-> e, at |-> i])
    BY <1>8 DEF ProvisionTenant, AttachEnvironment, OperateLocalEnvironment
  <2>3. QED
    BY <1>0, <1>2, <2>1, <2>2, CallGood
<1>9. ASSUME NEW c \in Callers, PollEnvironment(c) \/ Attached(c) \/ UpdateEnvironmentStatus(c) PROVE PlaneStays
  BY <1>0, <1>2, <1>9, ReturnGood DEF PollEnvironment, Attached, UpdateEnvironmentStatus, Running
<1>10. QED
  BY <1>3, <1>5, <1>6, <1>7, <1>8, <1>9 DEF ControlPlaneStep

LEMMA InstanceGood == ASSUME PlaneGood, NEW i \in Instances, InstanceStep(i) PROVE PlaneStays
<1>0. /\ Asking(callers) /\ Working(worker) /\ WorkerGood(worker[i])
      /\ Asking(callers) /\ CallersKeep(callers, callers)
  BY DEF PlaneGood, Working, CallersKeep
<1>1. ASSUME NEW w, worker' = [worker EXCEPT ![i] = w], WorkerGood(w), callers' = callers, UNCHANGED planeVars
      PROVE  PlaneStays
  BY <1>0, <1>1, OneWorker, QuietGood
<1>2. CASE Provision(i)
  <2> DEFINE w == [stage |-> "starting", env |-> worker[i].env, attempts |-> worker[i].attempts,
                   on |-> StartOf(i, worker[i].env)]
  <2>1. /\ RuntimeFor(i, worker[i].env) /\ worker[i].env \in Envs /\ callers' = callers
        /\ worker' = [worker EXCEPT ![i] = w]
    BY <1>0, <1>2 DEF Provision, At, WorkerGood
  <2>2. WorkerGood(w)
    BY DEF WorkerGood
  <2> HIDE DEF w
  <2>3. Working(worker')
    BY <1>0, <2>1, <2>2, OneWorker
  <2>4. QED
    BY <1>0, <2>1, <2>3, AskGood
<1>3. CASE Provisioned(i)
  <2> DEFINE w == [stage |-> IF platforms[worker[i].on].state = "failed" THEN "error" ELSE "provisioned",
                   env |-> worker[i].env, attempts |-> worker[i].attempts]
  <2>1. worker' = [worker EXCEPT ![i] = w] /\ callers' = callers /\ UNCHANGED planeVars
    BY <1>3 DEF Provisioned
  <2>2. WorkerGood(w)
    BY DEF WorkerGood
  <2> HIDE DEF w
  <2>3. QED
    BY <1>1, <2>1, <2>2
<1>4. CASE Restart(i)
  <2> DEFINE w == [stage |-> "restore", left |-> ReadyEnvironments]
  <2>1. worker' = [worker EXCEPT ![i] = w] /\ callers' = callers /\ UNCHANGED planeVars
    BY <1>4 DEF Restart
  <2>2. WorkerGood(w)
    BY DEF WorkerGood, ReadyEnvironments
  <2> HIDE DEF w
  <2>3. QED
    BY <1>1, <2>1, <2>2
<1>5. CASE RestoreRuntime(i)
  <2>1. PICK e \in worker[i].left : RuntimeFor(i, e) /\ worker' = [worker EXCEPT ![i].left = @ \ {e}]
    BY <1>5 DEF RestoreRuntime
  <2>2. worker[i] = [stage |-> "restore", left |-> worker[i].left] /\ worker[i].left \subseteq Envs /\ callers' = callers
    BY <1>0, <1>5 DEF RestoreRuntime, At, WorkerGood
  <2> DEFINE w == [stage |-> "restore", left |-> worker[i].left \ {e}]
             u == worker[i]
  <2>3. worker' = [worker EXCEPT ![i] = w]
    <3>1. u = [stage |-> "restore", left |-> u.left] /\ w = [stage |-> "restore", left |-> u.left \ {e}]
      BY <2>2
    <3>2. worker' = [worker EXCEPT ![i] = [u EXCEPT !.left = u.left \ {e}]]
      BY <2>1
    <3> HIDE DEF u, w
    <3>3. [u EXCEPT !.left = u.left \ {e}] = w
      BY <3>1
    <3>4. QED
      BY <3>2, <3>3
  <2>4. WorkerGood(w)
    BY <2>2 DEF WorkerGood
  <2> HIDE DEF w
  <2>5. Working(worker')
    BY <1>0, <2>3, <2>4, OneWorker
  <2>6. QED
    BY <1>0, <2>1, <2>2, <2>5, AskGood
<1>6. CASE Restored(i)
  <2>1. worker' = [worker EXCEPT ![i] = [stage |-> "idle"]] /\ callers' = callers /\ UNCHANGED planeVars
    BY <1>6 DEF Restored, Free
  <2>2. WorkerGood([stage |-> "idle"])
    BY DEF WorkerGood
  <2>3. QED
    BY <1>1, <2>1, <2>2
<1>7. QED
  BY <1>2, <1>3, <1>4, <1>5, <1>6 DEF InstanceStep

LEMMA CallersGood == ASSUME PlaneGood, NEW c \in Callers, CallerStep(c) PROVE PlaneStays
<1>0. Asking(callers) /\ Working(worker) /\ CallerGood(callers[c])
  BY DEF PlaneGood, Asking
<1>1. CASE HandleRuntimeRequest(c)
  <2>1. /\ callers[c].stage = "request" /\ RuntimeFor(callers[c].at, callers[c].env) /\ Returns(c) /\ worker' = worker
        /\ callers[c].at \in Instances /\ callers[c].env \in Envs
    BY <1>0, <1>1 DEF HandleRuntimeRequest, Running, CallerGood
  <2>2. Asking(callers') /\ CallersKeep(callers, callers')
    BY <1>0, <2>1, ReturnGood
  <2>3. QED
    BY <1>0, <2>1, <2>2, AskGood
<1>2. CASE Resume(c)
  <2> DEFINE x == [stage |-> "resuming", env |-> callers[c].env, at |-> callers[c].at,
                   on |-> StartOf(callers[c].at, callers[c].env)]
  <2>1. /\ callers[c].stage = "resume" /\ RuntimeFor(callers[c].at, callers[c].env) /\ worker' = worker
        /\ callers[c].at \in Instances /\ callers[c].env \in Envs /\ callers' = [callers EXCEPT ![c] = x]
    BY <1>0, <1>2 DEF Resume, Running, CallerGood
  <2>2. CallerGood(x) /\ x.stage # "closing"
    BY <2>1 DEF CallerGood
  <2> HIDE DEF x
  <2>3. Asking(callers') /\ CallersKeep(callers, callers')
    BY <1>0, <2>1, <2>2, OneCaller
  <2>4. QED
    BY <1>0, <2>1, <2>3, AskGood
<1>3. CASE Resumed(c)
  <2> DEFINE x == [callers[c] EXCEPT !.stage = "resumed"]
  <2>1. callers[c].stage = "resuming" /\ worker' = worker /\ UNCHANGED planeVars
    BY <1>3 DEF Resumed, Running
  <2>2. CASE Returns(c)
    BY <1>0, <2>1, <2>2, ReturnGood, QuietGood
  <2>3. CASE callers' = [callers EXCEPT ![c] = x]
    <3>1. CallerGood(x) /\ x.stage = "resumed"
      BY <1>0, <2>1, AdvanceGood
    <3> HIDE DEF x
    <3>2. QED
      BY <1>0, <2>1, <2>3, <3>1, OneCaller, QuietGood
  <2>4. QED
    BY <1>3, <2>2, <2>3 DEF Resumed, Advances
<1>4. QED
  BY <1>1, <1>2, <1>3, SuspendGood, CloseGood DEF CallerStep

LEMMA PlaneGoodStep == PlaneGood /\ [Next]_vars => PlaneGood'
<1> SUFFICES ASSUME PlaneGood, [Next]_vars PROVE PlaneGood'
  OBVIOUS
<1>1. PlaneStays
  <2>1. CASE UNCHANGED vars
    <3>1. callers' = callers /\ worker' = worker /\ runtimes' = runtimes /\ platforms' = platforms
      BY <2>1 DEF vars, planeVars
    <3>2. QED
      BY <3>1 DEF PlaneGood, PlaneStays
  <2>2. ASSUME NEW i \in Instances, Crash(i) \/ UnhandledRejection(i) PROVE PlaneStays
    BY <2>2, StopGood DEF Crash, UnhandledRejection
  <2>3. ASSUME NEW c \in Callers, NEW i \in Instances, RuntimeForRequest(c, i) PROVE PlaneStays
    <3>1. PICK e \in Envs : /\ Calls(c, i, [stage |-> "request", env |-> e, at |-> i])
                            /\ worker' = worker /\ UNCHANGED planeVars
      BY <2>3 DEF RuntimeForRequest
    <3>2. QED
      BY <3>1, CallGood, QuietGood DEF PlaneGood
  <2>4. QED
    BY <2>1, <2>2, <2>3, ControlPlaneGood, StartRuntimeGood, InstanceGood, CallersGood DEF Next
<1>2. QED
  BY <1>1 DEF PlaneGood, PlaneStays, Placed, Owned, Asking, Working, CallerGood, WorkerGood, Closes,
              RuntimeMaps, Alive

(* However requests, workers, resumes, suspensions and stops of instances  *)
(* overlap, a platform that runs is the registered one of its environment, *)
(* or a suspension is about to close it (runtimeFor, startRuntime and      *)
(* suspend in managed-data-plane.ts).                                      *)
THEOREM NoPlatformLeftBehind == Spec => []NoOrphanPlatform
<1>1. PlaneGood => NoOrphanPlatform
  BY DEF PlaneGood, Owned, Closes, Alive, NoOrphanPlatform, Registered, Running
<1>2. QED
  BY <1>1, PlaneGoodInit, PlaneGoodStep, PTL DEF Spec
===============================================================================
