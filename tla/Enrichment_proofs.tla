-------------------------- MODULE Enrichment_proofs --------------------------
(***************************************************************************)
(* The enrichment service and its client, each for every number of         *)
(* authorizations, slots and answers, of questions and submissions, of     *)
(* workers and commands.                                                   *)
(*                                                                         *)
(* The service: a request that has locked its authorization works on a row *)
(* that nobody else changes, and one that is about to commit also holds    *)
(* the person, so the gaps it found open still are.                        *)
(*                                                                         *)
(* The client: a command that owns no lock works on what it remembers. What*)
(* it remembers stays true because the facts it needs only grow: a question *)
(* stays in the file, its submission is never replaced, what was shown was *)
(* shown, what was refused stays refused, an intent that was cancelled or  *)
(* delivered stays so.                                                     *)
(***************************************************************************)
EXTENDS EnrichmentLedger, EnrichmentClient, FiniteSetTheorems, TLAPS

Record == [slot : Slots, by : Resolutions \cup {None}, auth : Auths \cup {None},
           active : BOOLEAN, intact : BOOLEAN]

Tables ==
  /\ DOMAIN auth = Auths
  /\ \A a \in Auths : auth[a] \in Authorization(a) \cup {None}
  /\ DOMAIN actions = Resolutions
  /\ \A r \in Resolutions : actions[r] \in Action(r) \cup {None}
  /\ records \subseteq Record
  /\ version \in Nat
  /\ DOMAIN req = Requests
  /\ authLock \in [Auths -> Requests \cup {None}]

(* What a request carries.                                                 *)
Staging(q) ==
  req[q].pc = "insert" =>
    /\ req[q].key \in Auths
    /\ req[q].row \in Authorization(req[q].key)
    /\ \A s \in SlotsOf[req[q].key] : req[q].row.slots[s] = "open"

Sent(q) ==
  req[q].pc \in {"lock", "check", "person", "commit"} =>
    /\ req[q].key \in Resolutions
    /\ req[q].body \in Bodies[req[q].key]
    /\ auth[req[q].body.auth] # None

Verifying(q) ==
  req[q].pc \in {"verify", "mark"} => req[q].key \in Resolutions /\ actions[req[q].key] # None

(* What it knows under the lock of its authorization, and under that of    *)
(* the person.                                                             *)
Holding(q) ==
  req[q].pc \in {"check", "person", "commit"} =>
    authLock[req[q].body.auth] = q /\ req[q].row = auth[req[q].body.auth]

Checked(q) == req[q].pc \in {"person", "commit"} => Authorized(q)

Ready(q) ==
  req[q].pc = "commit" =>
    /\ personLock = q
    /\ actions[req[q].key] = None
    /\ \A s \in Answered(q) : ~Filled(s)

RequestOK(q) ==
  /\ DOMAIN req[q] = {"pc", "key", "body", "row", "good"}
  /\ Staging(q) /\ Sent(q) /\ Verifying(q) /\ Holding(q) /\ Checked(q) /\ Ready(q)

(* Every action was made for an authorization that is there.               *)
ActionsAuthorized ==
  \A r \in Resolutions : actions[r] # None => auth[actions[r].body.auth] # None

Inv ==
  /\ Tables
  /\ \A q \in Requests : RequestOK(q)
  /\ ActionsAuthorized
  /\ SlotsMatchAnswers

-----------------------------------------------------------------------------
(* What a request knows stays true while the others leave alone what it    *)
(* has locked.                                                             *)
LEMMA KeepsRequest ==
  ASSUME NEW o \in Requests, RequestOK(o), Tables,
         req'[o] = req[o],
         \A a \in Auths : auth[a] # None => auth'[a] # None,
         \A a \in Auths : authLock[a] = o /\ auth[a] # None =>
           authLock'[a] = o /\ auth'[a] = auth[a],
         \A r \in Resolutions : actions[r] # None => actions'[r] # None,
         personLock = o =>
           /\ personLock' = o
           /\ \A r \in Resolutions : actions[r] = None => actions'[r] = None
           /\ \A s \in Slots : Filled(s)' => Filled(s)
  PROVE  RequestOK(o)'
<1>1. req[o].pc \in {"lock", "check", "person", "commit"} =>
        /\ req[o].key \in Resolutions
        /\ req[o].body \in Bodies[req[o].key]
        /\ req[o].body.auth \in Auths
        /\ Answered(o) \subseteq Slots
  BY BodiesAssumption DEF RequestOK, Sent, Answered
<1>2. Staging(o)' /\ Sent(o)' /\ Verifying(o)'
  BY <1>1 DEF RequestOK, Staging, Sent, Verifying
<1>3. Holding(o)' /\ Checked(o)'
  BY <1>1 DEF RequestOK, Sent, Holding, Checked, Authorized, Answered
<1>4. Ready(o)'
  BY <1>1 DEF RequestOK, Ready, Answered
<1> QED
  BY <1>2, <1>3, <1>4 DEF RequestOK

(* A step of one request that leaves the tables alone.                     *)
LEMMA OneMoves ==
  ASSUME Inv, NEW q \in Requests,
         DOMAIN req' = Requests, \A o \in Requests \ {q} : req'[o] = req[o],
         auth' = auth, actions' = actions, records' = records, version' = version,
         authLock' \in [Auths -> Requests \cup {None}],
         \A o \in Requests \ {q}, a \in Auths : authLock[a] = o => authLock'[a] = o,
         \A o \in Requests \ {q} : personLock = o => personLock' = o,
         RequestOK(q)'
  PROVE  Inv'
<1>1. Tables'
  BY DEF Inv, Tables
<1>2. \A o \in Requests : RequestOK(o)'
  <2> SUFFICES ASSUME NEW o \in Requests, o # q PROVE RequestOK(o)'
    OBVIOUS
  <2>1. \A s \in Slots : Filled(s)' => Filled(s)
    BY DEF Filled
  <2> QED
    BY <2>1, KeepsRequest DEF Inv
<1>3. ActionsAuthorized' /\ SlotsMatchAnswers'
  BY DEF Inv, ActionsAuthorized, SlotsMatchAnswers, SlotMatches, Closing
<1> QED
  BY <1>1, <1>2, <1>3 DEF Inv

LEMMA EndKeeps ==
  ASSUME Inv, NEW q \in Requests, End(q),
         auth' = auth, actions' = actions, records' = records, version' = version
  PROVE  Inv'
<1>1. req'[q] = Idle /\ DOMAIN req' = Requests /\ \A o \in Requests \ {q} : req'[o] = req[o]
  BY DEF Inv, Tables, End
<1>2. authLock' \in [Auths -> Requests \cup {None}]
  BY DEF Inv, Tables, End, Free
<1>3. \A o \in Requests \ {q}, a \in Auths : authLock[a] = o => authLock'[a] = o
  BY DEF Inv, Tables, End, Free
<1>4. \A o \in Requests \ {q} : personLock = o => personLock' = o
  BY DEF End
<1>5. RequestOK(q)'
  BY <1>1 DEF RequestOK, Staging, Sent, Verifying, Holding, Checked, Ready, Idle
<1> QED
  BY <1>1, <1>2, <1>3, <1>4, <1>5, OneMoves

-----------------------------------------------------------------------------
(* Steps of one request.                                                   *)
LEMMA StageLookupKeeps ==
  ASSUME Inv, NEW q \in Requests, NEW a \in Auths, StageLookup(q, a)
  PROVE  Inv'
<1>1. DOMAIN req' = Requests /\ \A o \in Requests \ {q} : req'[o] = req[o]
  BY DEF Inv, Tables, StageLookup
<1>2. RequestOK(q)'
  <2>1. CASE req'[q] = Idle
    BY <2>1 DEF RequestOK, Staging, Sent, Verifying, Holding, Checked, Ready, Idle
  <2>2. CASE req'[q] # Idle
    <3> DEFINE row == [status |-> "open", slots |-> [s \in SlotsOf[a] |-> "open"],
                       snapshot |-> version]
    <3>1. req'[q] = [Idle EXCEPT !.pc = "insert", !.key = a, !.row = row]
      BY <2>2 DEF Inv, Tables, StageLookup
    <3>2. row \in Authorization(a)
      BY DEF Inv, Tables, Authorization, AuthStatus
    <3> HIDE DEF row
    <3>3. /\ req'[q].pc = "insert" /\ req'[q].key = a /\ req'[q].row = row
          /\ DOMAIN req'[q] = {"pc", "key", "body", "row", "good"}
      BY <3>1 DEF Idle
    <3>4. \A s \in SlotsOf[a] : row.slots[s] = "open"
      BY DEF row
    <3> QED
      BY <3>2, <3>3, <3>4 DEF RequestOK, Staging, Sent, Verifying, Holding, Checked, Ready
  <2> QED
    BY <2>1, <2>2
<1> QED
  BY <1>1, <1>2, OneMoves DEF Inv, Tables, StageLookup, world, locks

LEMMA StageInsertKeeps ==
  ASSUME Inv, NEW q \in Requests, StageInsert(q)
  PROVE  Inv'
<1> DEFINE a == req[q].key
<1>0. a \in Auths /\ req[q].row \in Authorization(a) /\ \A s \in SlotsOf[a] : req[q].row.slots[s] = "open"
  BY DEF Inv, RequestOK, Staging, StageInsert
<1>1. /\ req'[q] = Idle /\ DOMAIN req' = Requests
      /\ \A o \in Requests \ {q} : req'[o] = req[o]
      /\ \A b \in Auths : auth[b] # None => auth'[b] = auth[b]
      /\ \A b \in Auths \ {a} : auth'[b] = auth[b]
      /\ auth[a] = None => auth'[a] = req[q].row
      /\ DOMAIN auth' = Auths
  BY <1>0 DEF Inv, Tables, StageInsert
<1>2. UNCHANGED <<actions, records, version, authLock, personLock>>
  BY DEF StageInsert, world, locks
<1>3. Tables'
  <2>1. auth'[a] \in Authorization(a) \cup {None}
    BY <1>0, <1>1 DEF Inv, Tables
  <2> QED
    BY <1>0, <1>1, <1>2, <2>1 DEF Inv, Tables
<1>4. \A o \in Requests : RequestOK(o)'
  <2>1. RequestOK(q)'
    BY <1>1 DEF RequestOK, Staging, Sent, Verifying, Holding, Checked, Ready, Idle
  <2>2. ASSUME NEW o \in Requests, o # q PROVE RequestOK(o)'
    <3>1. \A s \in Slots : Filled(s)' => Filled(s)
      BY <1>2 DEF Filled
    <3> QED
      BY <1>1, <1>2, <2>2, <3>1, KeepsRequest DEF Inv
  <2> QED
    BY <2>1, <2>2
<1>5. ActionsAuthorized'
  BY <1>1, <1>2, BodiesAssumption DEF Inv, Tables, Action, ActionsAuthorized
<1>6. SlotsMatchAnswers'
  <2> SUFFICES ASSUME NEW b \in Auths, auth'[b] # None, NEW s \in SlotsOf[b]
               PROVE SlotMatches(b, s)'
    BY DEF SlotsMatchAnswers
  <2>1. Closing(b, s)' = Closing(b, s)
    BY <1>2 DEF Closing
  <2>2. CASE auth[b] # None
    BY <1>1, <1>2, <2>1, <2>2 DEF Inv, SlotsMatchAnswers, SlotMatches
  <2>3. CASE auth[b] = None
    <3>1. b = a /\ auth'[b].slots[s] = "open"
      BY <1>0, <1>1, <2>3
    <3>2. Closing(b, s) = {}
      BY <2>3 DEF Inv, ActionsAuthorized, Closing
    <3> QED
      BY <2>1, <3>1, <3>2 DEF SlotMatches
  <2> QED
    BY <2>2, <2>3
<1> QED
  BY <1>3, <1>4, <1>5, <1>6 DEF Inv

LEMMA PostKeeps ==
  ASSUME Inv, NEW q \in Requests, NEW r \in Resolutions, NEW b \in Bodies[r], Post(q, r, b)
  PROVE  Inv'
<1>1. /\ DOMAIN req' = Requests /\ \A o \in Requests \ {q} : req'[o] = req[o]
      /\ req'[q] = [Idle EXCEPT !.pc = "lock", !.key = r, !.body = b]
  BY DEF Inv, Tables, Post
<1>2. RequestOK(q)'
  BY <1>1 DEF Post, RequestOK, Staging, Sent, Verifying, Holding, Checked, Ready, Idle
<1> QED
  BY <1>1, <1>2, OneMoves DEF Inv, Tables, Post, world, locks

LEMMA LockAuthorizationKeeps ==
  ASSUME Inv, NEW q \in Requests, LockAuthorization(q)
  PROVE  Inv'
<1> DEFINE a == req[q].body.auth
<1>0. req[q].key \in Resolutions /\ req[q].body \in Bodies[req[q].key] /\ a \in Auths /\ auth[a] # None
  BY BodiesAssumption DEF Inv, RequestOK, Sent, LockAuthorization
<1>1. /\ DOMAIN req' = Requests /\ \A o \in Requests \ {q} : req'[o] = req[o]
      /\ req'[q] = [req[q] EXCEPT !.pc = "check", !.row = auth[a]]
  BY DEF Inv, Tables, LockAuthorization
<1>2. DOMAIN req[q] = {"pc", "key", "body", "row", "good"}
  BY DEF Inv, RequestOK
<1>3. /\ req'[q].pc = "check" /\ req'[q].row = auth[a] /\ req'[q].key = req[q].key
      /\ req'[q].body = req[q].body /\ DOMAIN req'[q] = DOMAIN req[q]
  BY <1>1, <1>2
<1>4. authLock' = [authLock EXCEPT ![a] = q] /\ authLock[a] = None
  BY DEF LockAuthorization
<1>5. RequestOK(q)'
  BY <1>0, <1>2, <1>3, <1>4 DEF Inv, Tables, LockAuthorization, RequestOK, Staging, Sent,
    Verifying, Holding, Checked, Ready
<1>6. \A o \in Requests \ {q}, b \in Auths : authLock[b] = o => authLock'[b] = o
  BY <1>0, <1>4, NoneAssumption DEF Inv, Tables
<1> QED
  BY <1>0, <1>1, <1>4, <1>5, <1>6, OneMoves DEF Inv, Tables, LockAuthorization, world

LEMMA KnownResolutionKeeps ==
  ASSUME Inv, NEW q \in Requests, KnownResolution(q)
  PROVE  Inv'
<1>1. CASE End(q)
  BY <1>1, EndKeeps DEF KnownResolution, world
<1>2. CASE ~End(q)
  <2>1. /\ DOMAIN req' = Requests /\ \A o \in Requests \ {q} : req'[o] = req[o]
        /\ req'[q] = [req[q] EXCEPT !.pc = "verify"]
        /\ UNCHANGED <<authLock, personLock>>
    BY <1>2 DEF Inv, Tables, KnownResolution, locks
  <2>2. DOMAIN req[q] = {"pc", "key", "body", "row", "good"} /\ req[q].key \in Resolutions
    BY DEF Inv, RequestOK, Sent, KnownResolution
  <2>3. req'[q].pc = "verify" /\ req'[q].key = req[q].key /\ DOMAIN req'[q] = DOMAIN req[q]
    BY <2>1, <2>2
  <2>4. RequestOK(q)'
    BY <2>2, <2>3 DEF KnownResolution, RequestOK, Staging, Sent, Verifying, Holding, Checked, Ready
  <2> QED
    BY <2>1, <2>4, OneMoves DEF Inv, Tables, KnownResolution, world
<1> QED
  BY <1>1, <1>2

LEMMA CheckAuthorizationKeeps ==
  ASSUME Inv, NEW q \in Requests, CheckAuthorization(q)
  PROVE  Inv'
<1> DEFINE a == req[q].body.auth
<1>0. /\ req[q].key \in Resolutions /\ req[q].body \in Bodies[req[q].key]
      /\ a \in Auths /\ auth[a] # None /\ authLock[a] = q
      /\ DOMAIN req[q] = {"pc", "key", "body", "row", "good"}
  BY BodiesAssumption DEF Inv, RequestOK, Sent, Holding, CheckAuthorization
<1>1. CASE auth' = [auth EXCEPT ![a].status = "expired"] /\ End(q)
  <2>1. auth[a] \in Authorization(a)
    BY <1>0 DEF Inv, Tables
  <2>2. /\ auth'[a] = [auth[a] EXCEPT !.status = "expired"] /\ DOMAIN auth' = Auths
        /\ \A b \in Auths \ {a} : auth'[b] = auth[b]
    BY <1>0, <1>1 DEF Inv, Tables
  <2>3. auth'[a] \in Authorization(a) /\ auth'[a].slots = auth[a].slots
    BY <2>1, <2>2 DEF Authorization, AuthStatus
  <2>4. auth'[a] # None
    BY <1>0, <2>3, NoneAssumption
  <2>5. UNCHANGED <<actions, records, version>>
    BY DEF CheckAuthorization, world
  <2>6. /\ req'[q] = Idle /\ DOMAIN req' = Requests /\ \A o \in Requests \ {q} : req'[o] = req[o]
        /\ authLock' \in [Auths -> Requests \cup {None}]
    BY <1>1 DEF Inv, Tables, End, Free
  <2>7. Tables'
    BY <2>2, <2>3, <2>5, <2>6 DEF Inv, Tables
  <2>8. RequestOK(q)'
    BY <2>6 DEF RequestOK, Staging, Sent, Verifying, Holding, Checked, Ready, Idle
  <2>9. ASSUME NEW o \in Requests, o # q PROVE RequestOK(o)'
    <3>1. \A b \in Auths : authLock[b] = o => authLock'[b] = o /\ auth'[b] = auth[b]
      BY <1>0, <1>1, <2>2, <2>9 DEF Inv, Tables, End, Free
    <3>2. \A s \in Slots : Filled(s)' => Filled(s)
      BY <2>5 DEF Filled
    <3>3. personLock = o => personLock' = o
      BY <1>1, <2>9 DEF End
    <3>4. \A b \in Auths : auth[b] # None => auth'[b] # None
      BY <2>2, <2>4
    <3> QED
      BY <2>5, <2>6, <2>9, <3>1, <3>2, <3>3, <3>4, KeepsRequest DEF Inv
  <2>10. ActionsAuthorized'
    BY <2>2, <2>4, <2>5, BodiesAssumption DEF Inv, Tables, Action, ActionsAuthorized
  <2>11. SlotsMatchAnswers'
    <3> SUFFICES ASSUME NEW b \in Auths, auth'[b] # None, NEW s \in SlotsOf[b]
                 PROVE SlotMatches(b, s)'
      BY DEF SlotsMatchAnswers
    <3>1. Closing(b, s)' = Closing(b, s)
      BY <2>5 DEF Closing
    <3>2. auth'[b].slots = auth[b].slots /\ auth[b] # None
      BY <1>0, <2>2, <2>3
    <3> QED
      BY <2>5, <3>1, <3>2 DEF Inv, SlotsMatchAnswers, SlotMatches
  <2> QED
    BY <2>7, <2>8, <2>9, <2>10, <2>11 DEF Inv
<1>2. CASE End(q) /\ auth' = auth
  BY <1>2, EndKeeps DEF CheckAuthorization, world
<1>3. CASE Authorized(q) /\ req' = [req EXCEPT ![q].pc = "person"] /\ UNCHANGED <<auth, locks>>
  <2>1. /\ DOMAIN req' = Requests /\ \A o \in Requests \ {q} : req'[o] = req[o]
        /\ req'[q] = [req[q] EXCEPT !.pc = "person"]
    BY <1>3 DEF Inv, Tables
  <2>2. /\ req'[q].pc = "person" /\ req'[q].key = req[q].key /\ req'[q].body = req[q].body
        /\ req'[q].row = req[q].row /\ DOMAIN req'[q] = DOMAIN req[q]
    BY <1>0, <2>1
  <2>3. RequestOK(q)'
    BY <1>0, <1>3, <2>2 DEF Inv, CheckAuthorization, RequestOK, Staging, Sent, Verifying,
      Holding, Checked, Ready, Authorized, Answered, locks
  <2> QED
    BY <1>3, <2>1, <2>3, OneMoves DEF Inv, Tables, CheckAuthorization, world, locks
<1> QED
  BY <1>1, <1>2, <1>3 DEF CheckAuthorization

LEMMA LockPersonKeeps ==
  ASSUME Inv, NEW q \in Requests, LockPerson(q)
  PROVE  Inv'
<1>1. CASE End(q)
  BY <1>1, EndKeeps DEF LockPerson, world
<1>2. CASE ~End(q)
  <2>1. /\ DOMAIN req' = Requests /\ \A o \in Requests \ {q} : req'[o] = req[o]
        /\ req'[q] = [req[q] EXCEPT !.pc = "commit"]
        /\ personLock = None /\ personLock' = q /\ authLock' = authLock
        /\ actions[req[q].key] = None /\ Gaps(Answered(q))
    BY <1>2 DEF Inv, Tables, LockPerson
  <2>2. DOMAIN req[q] = {"pc", "key", "body", "row", "good"}
    BY DEF Inv, RequestOK
  <2>3. /\ req'[q].pc = "commit" /\ req'[q].key = req[q].key /\ req'[q].body = req[q].body
        /\ req'[q].row = req[q].row /\ DOMAIN req'[q] = DOMAIN req[q]
    BY <2>1, <2>2
  <2>4. UNCHANGED <<auth, actions, records, version>>
    BY DEF LockPerson, world
  <2>5. Answered(q)' = Answered(q) /\ \A s \in Answered(q) : ~Filled(s)'
    BY <2>1, <2>3, <2>4 DEF Answered, Gaps, Filled
  <2>6. RequestOK(q)'
    BY <2>1, <2>2, <2>3, <2>4, <2>5 DEF Inv, LockPerson, RequestOK, Staging, Sent, Verifying,
      Holding, Checked, Ready, Authorized
  <2> QED
    BY <2>1, <2>4, <2>6, NoneAssumption, OneMoves DEF Inv, Tables
<1> QED
  BY <1>1, <1>2

LEMMA GetKeeps ==
  ASSUME Inv, NEW q \in Requests, NEW r \in Resolutions, Get(q, r)
  PROVE  Inv'
<1>1. /\ DOMAIN req' = Requests /\ \A o \in Requests \ {q} : req'[o] = req[o]
      /\ req'[q] = [Idle EXCEPT !.pc = "verify", !.key = r]
  BY DEF Inv, Tables, Get
<1>2. RequestOK(q)'
  BY <1>1 DEF Get, RequestOK, Staging, Sent, Verifying, Holding, Checked, Ready, Idle
<1> QED
  BY <1>1, <1>2, OneMoves DEF Inv, Tables, Get, world, locks

LEMMA VerifyReadKeeps ==
  ASSUME Inv, NEW q \in Requests, VerifyRead(q)
  PROVE  Inv'
<1>1. /\ DOMAIN req' = Requests /\ \A o \in Requests \ {q} : req'[o] = req[o]
      /\ req'[q] = [req[q] EXCEPT !.pc = "mark", !.good = ReadsBack(req[q].key)]
  BY DEF Inv, Tables, VerifyRead
<1>2. DOMAIN req[q] = {"pc", "key", "body", "row", "good"}
  BY DEF Inv, RequestOK
<1>3. req'[q].pc = "mark" /\ req'[q].key = req[q].key /\ DOMAIN req'[q] = DOMAIN req[q]
  BY <1>1, <1>2
<1>4. actions' = actions /\ req[q].key \in Resolutions /\ actions[req[q].key] # None
  BY DEF Inv, VerifyRead, RequestOK, Verifying
<1>5. RequestOK(q)'
  BY <1>2, <1>3, <1>4 DEF RequestOK, Staging, Sent, Verifying, Holding, Checked, Ready
<1> QED
  BY <1>1, <1>5, OneMoves DEF Inv, Tables, VerifyRead, world, locks

LEMMA VerifyMarkKeeps ==
  ASSUME Inv, NEW q \in Requests, VerifyMark(q)
  PROVE  Inv'
<1> DEFINE k == req[q].key
           status == IF req[q].good THEN "verified" ELSE "committed_unverified"
<1>0. k \in Resolutions /\ actions[k] # None /\ actions[k] \in Action(k)
  BY DEF Inv, Tables, RequestOK, Verifying, VerifyMark
<1>1. /\ DOMAIN actions' = Resolutions
      /\ actions'[k] = [actions[k] EXCEPT !.status = status]
      /\ \A r \in Resolutions \ {k} : actions'[r] = actions[r]
      /\ UNCHANGED <<auth, records, version>>
  BY <1>0 DEF Inv, Tables, VerifyMark, world
<1>2. actions'[k] \in Action(k) /\ actions'[k].body = actions[k].body
  BY <1>0, <1>1 DEF Action
<1>3. actions'[k] # None
  BY <1>0, <1>2, NoneAssumption
<1>4. \A r \in Resolutions :
        /\ actions[r] # None <=> actions'[r] # None
        /\ actions[r] # None => actions'[r].body = actions[r].body
  BY <1>0, <1>1, <1>2, <1>3
<1>5. /\ req'[q] = Idle /\ DOMAIN req' = Requests /\ \A o \in Requests \ {q} : req'[o] = req[o]
      /\ authLock' \in [Auths -> Requests \cup {None}]
  BY DEF Inv, Tables, VerifyMark, End, Free
<1>6. Tables'
  BY <1>1, <1>2, <1>5 DEF Inv, Tables
<1>7. \A o \in Requests : RequestOK(o)'
  <2>1. RequestOK(q)'
    BY <1>5 DEF RequestOK, Staging, Sent, Verifying, Holding, Checked, Ready, Idle
  <2>2. ASSUME NEW o \in Requests, o # q PROVE RequestOK(o)'
    <3>1. \A b \in Auths : authLock[b] = o => authLock'[b] = o
      BY <2>2 DEF Inv, Tables, VerifyMark, End, Free
    <3>2. \A s \in Slots : Filled(s)' => Filled(s)
      BY <1>1 DEF Filled
    <3>3. personLock = o => personLock' = o
      BY <2>2 DEF VerifyMark, End
    <3> QED
      BY <1>1, <1>4, <1>5, <2>2, <3>1, <3>2, <3>3, KeepsRequest DEF Inv
  <2> QED
    BY <2>1, <2>2
<1>8. ActionsAuthorized'
  BY <1>1, <1>4 DEF Inv, ActionsAuthorized
<1>9. SlotsMatchAnswers'
  <2> SUFFICES ASSUME NEW b \in Auths, auth[b] # None, NEW s \in SlotsOf[b]
               PROVE SlotMatches(b, s)'
    BY <1>1 DEF SlotsMatchAnswers
  <2>1. Closing(b, s)' = Closing(b, s)
    BY <1>4 DEF Closing
  <2>2. \A r \in Closing(b, s) : actions'[r].body = actions[r].body
    BY <1>4 DEF Closing
  <2> QED
    BY <1>1, <2>1, <2>2 DEF Inv, SlotsMatchAnswers, SlotMatches
<1> QED
  BY <1>6, <1>7, <1>8, <1>9 DEF Inv

LEMMA DieKeeps ==
  ASSUME Inv, NEW q \in Requests, Die(q)
  PROVE  Inv'
BY EndKeeps DEF Die, world

-----------------------------------------------------------------------------
(* What a request that commits knows.                                      *)
LEMMA AtCommit ==
  ASSUME Inv, NEW q \in Requests, req[q].pc = "commit"
  PROVE  /\ req[q].key \in Resolutions /\ actions[req[q].key] = None
         /\ req[q].body \in Bodies[req[q].key] /\ req[q].body.auth \in Auths
         /\ DOMAIN req[q].body.answers \subseteq SlotsOf[req[q].body.auth]
         /\ DOMAIN req[q].body.answers \subseteq Slots
         /\ \A s \in DOMAIN req[q].body.answers :
              /\ req[q].body.answers[s] \in {"known", "unknown", "skip"}
              /\ auth[req[q].body.auth].slots[s] = "open"
              /\ ~Filled(s)
         /\ auth[req[q].body.auth] # None /\ req[q].row = auth[req[q].body.auth]
         /\ req[q].row \in Authorization(req[q].body.auth)
         /\ authLock[req[q].body.auth] = q /\ personLock = q
<1>1. /\ req[q].key \in Resolutions /\ req[q].body \in Bodies[req[q].key]
      /\ auth[req[q].body.auth] # None /\ req[q].row = auth[req[q].body.auth]
      /\ authLock[req[q].body.auth] = q /\ personLock = q /\ actions[req[q].key] = None
      /\ Authorized(q) /\ \A s \in Answered(q) : ~Filled(s)
  BY DEF Inv, RequestOK, Sent, Holding, Checked, Ready
<1>2. /\ req[q].body.auth \in Auths /\ DOMAIN req[q].body.answers \subseteq Slots
      /\ \A s \in DOMAIN req[q].body.answers : req[q].body.answers[s] \in {"known", "unknown", "skip"}
  BY <1>1, BodiesAssumption
<1>3. req[q].row \in Authorization(req[q].body.auth)
  BY <1>1, <1>2 DEF Inv, Tables
<1>4. DOMAIN req[q].row.slots = SlotsOf[req[q].body.auth]
  BY <1>3 DEF Authorization
<1> QED
  BY <1>1, <1>2, <1>3, <1>4 DEF Authorized, Answered

(* An answer closes the slots it does not skip, and no other.              *)
LEMMA AnswerCloses ==
  ASSUME NEW a \in Auths, NEW row \in Authorization(a), NEW b,
         \A s \in DOMAIN b.answers : b.answers[s] \in {"known", "unknown", "skip"}
  PROVE  /\ Answer(row, b) \in Authorization(a)
         /\ \A s \in SlotsOf[a] :
              Answer(row, b).slots[s] =
                IF s \in DOMAIN b.answers /\ b.answers[s] # "skip" THEN b.answers[s]
                ELSE row.slots[s]
<1> DEFINE slots == [s \in DOMAIN row.slots |->
              IF s \in DOMAIN b.answers /\ b.answers[s] # "skip" THEN b.answers[s] ELSE row.slots[s]]
           status == IF \A s \in DOMAIN slots : slots[s] # "open" THEN "completed"
                     ELSE "partially_answered"
<1>1. slots \in [SlotsOf[a] -> {"open", "known", "unknown"}]
  BY DEF Authorization
<1>2. \A s \in SlotsOf[a] : slots[s] =
        IF s \in DOMAIN b.answers /\ b.answers[s] # "skip" THEN b.answers[s] ELSE row.slots[s]
  BY DEF Authorization
<1>3. status \in AuthStatus
  BY DEF AuthStatus
<1>4. Answer(row, b) = [row EXCEPT !.slots = slots, !.status = status]
  BY DEF Answer
<1> HIDE DEF slots, status
<1> QED
  BY <1>1, <1>2, <1>3, <1>4 DEF Authorization

LEMMA CommitKeeps ==
  ASSUME Inv, NEW q \in Requests, Commit(q)
  PROVE  Inv'
<1> DEFINE r == req[q].key
           b == req[q].body
           a == b.auth
           act == [body |-> b, status |-> "committed_unverified"]
<1>0. req[q].pc = "commit"
  BY DEF Commit
<1>1. /\ r \in Resolutions /\ actions[r] = None /\ b \in Bodies[r] /\ a \in Auths
      /\ DOMAIN b.answers \subseteq SlotsOf[a] /\ DOMAIN b.answers \subseteq Slots
      /\ \A s \in DOMAIN b.answers :
           b.answers[s] \in {"known", "unknown", "skip"} /\ auth[a].slots[s] = "open" /\ ~Filled(s)
      /\ auth[a] # None /\ req[q].row = auth[a] /\ auth[a] \in Authorization(a)
      /\ authLock[a] = q /\ personLock = q
  BY <1>0, AtCommit
<1>2. /\ auth' = [auth EXCEPT ![a] = Answer(auth[a], b)]
      /\ actions' = [actions EXCEPT ![r] = act]
      /\ records' = records \cup NewRecords(r, b)
      /\ req' = [req EXCEPT ![q].pc = "verify"]
      /\ authLock' = Free(authLock, q) /\ personLock' = None /\ version' = version
  BY <1>1 DEF Commit, world
<1>3. /\ Answer(auth[a], b) \in Authorization(a)
      /\ \A s \in SlotsOf[a] : Answer(auth[a], b).slots[s] =
           IF s \in DOMAIN b.answers /\ b.answers[s] # "skip" THEN b.answers[s]
           ELSE auth[a].slots[s]
  <2>1. \A s \in DOMAIN b.answers : b.answers[s] \in {"known", "unknown", "skip"}
    BY <1>1
  <2>2. a \in Auths /\ auth[a] \in Authorization(a)
    BY <1>1
  <2> HIDE DEF r, b, a, act
  <2> QED
    BY <2>1, <2>2, AnswerCloses
<1>4. /\ DOMAIN auth' = Auths /\ auth'[a] = Answer(auth[a], b) /\ auth'[a] # None
      /\ \A c \in Auths \ {a} : auth'[c] = auth[c]
  BY <1>1, <1>2, <1>3, NoneAssumption DEF Inv, Tables
<1>5. act \in Action(r) /\ act # None /\ act.body = b
  BY <1>1, NoneAssumption DEF Action
<1> HIDE DEF act
<1>6. /\ DOMAIN actions' = Resolutions /\ actions'[r] = act
      /\ \A c \in Resolutions \ {r} : actions'[c] = actions[c]
  BY <1>1, <1>2 DEF Inv, Tables
<1>7. /\ DOMAIN req' = Requests /\ \A o \in Requests \ {q} : req'[o] = req[o]
      /\ req'[q].pc = "verify" /\ req'[q].key = r
      /\ DOMAIN req'[q] = {"pc", "key", "body", "row", "good"}
  BY <1>2 DEF Inv, Tables, RequestOK
<1>8. authLock' \in [Auths -> Requests \cup {None}]
  BY <1>2 DEF Inv, Tables, Free
<1>9. Tables'
  <2>1. NewRecords(r, b) \subseteq Record
    <3> SUFFICES ASSUME NEW s \in KnownIn(b)
                 PROVE [slot |-> s, by |-> r, auth |-> a, active |-> TRUE, intact |-> TRUE] \in Record
      BY DEF NewRecords
    <3>1. s \in Slots
      BY <1>1 DEF KnownIn
    <3> QED
      BY <1>1, <3>1 DEF Record
  <2> QED
    BY <1>2, <1>3, <1>4, <1>5, <1>6, <1>7, <1>8, <2>1 DEF Inv, Tables
<1>10. \A o \in Requests : RequestOK(o)'
  <2>1. RequestOK(q)'
    BY <1>1, <1>5, <1>6, <1>7 DEF RequestOK, Staging, Sent, Verifying, Holding, Checked, Ready
  <2>2. ASSUME NEW o \in Requests, o # q PROVE RequestOK(o)'
    <3>1. \A c \in Auths : authLock[c] = o => authLock'[c] = o /\ auth'[c] = auth[c]
      BY <1>1, <1>2, <1>4, <2>2 DEF Inv, Tables, Free
    <3>2. \A c \in Resolutions : actions[c] # None => actions'[c] # None
      BY <1>1, <1>6
    <3>3. \A c \in Auths : auth[c] # None => auth'[c] # None
      BY <1>4
    <3> QED
      BY <1>1, <1>7, <2>2, <3>1, <3>2, <3>3, KeepsRequest DEF Inv
  <2> QED
    BY <2>1, <2>2
<1>11. ActionsAuthorized'
  <2> SUFFICES ASSUME NEW c \in Resolutions, actions'[c] # None
               PROVE auth'[actions'[c].body.auth] # None
    BY DEF ActionsAuthorized
  <2>1. CASE c = r
    BY <1>4, <1>5, <1>6, <2>1
  <2>2. CASE c # r
    <3>1. actions'[c] = actions[c] /\ actions[c] \in Action(c)
      BY <1>6, <2>2 DEF Inv, Tables
    <3>2. actions[c].body.auth \in Auths
      BY <3>1, BodiesAssumption DEF Action
    <3> QED
      BY <1>4, <3>1, <3>2 DEF Inv, ActionsAuthorized
  <2> QED
    BY <2>1, <2>2
<1>12. SlotsMatchAnswers'
  <2> SUFFICES ASSUME NEW c \in Auths, auth'[c] # None, NEW s \in SlotsOf[c]
               PROVE SlotMatches(c, s)'
    BY DEF SlotsMatchAnswers
  <2>1. auth[c] # None
    BY <1>1, <1>4
  <2>2. SlotMatches(c, s)
    BY <2>1 DEF Inv, SlotsMatchAnswers
  <2>3. \A x \in records : x \in records'
    BY <1>2
  <2>4. CASE c = a /\ s \in DOMAIN b.answers /\ b.answers[s] # "skip"
    <3>1. Closing(c, s) = {}
      BY <1>1, <2>2, <2>4 DEF SlotMatches
    <3>2. Closing(c, s)' = {r}
      BY <1>1, <1>5, <1>6, <2>4, <3>1 DEF Closing
    <3>3. auth'[c].slots[s] = b.answers[s] /\ b.answers[s] # "open"
      BY <1>1, <1>3, <1>4, <2>4
    <3>4. b.answers[s] = "known" => \E x \in records' : x.slot = s /\ x.by = r
      <4> DEFINE new == [slot |-> s, by |-> r, auth |-> a, active |-> TRUE, intact |-> TRUE]
      <4>1. b.answers[s] = "known" => new \in records'
        BY <1>2, <2>4 DEF NewRecords, KnownIn
      <4>2. new.slot = s /\ new.by = r
        OBVIOUS
      <4> QED
        BY <4>1, <4>2
    <3>5. actions'[r].body.answers[s] = b.answers[s]
      BY <1>5, <1>6
    <3> QED
      BY <3>2, <3>3, <3>4, <3>5 DEF SlotMatches
  <2>5. CASE ~(c = a /\ s \in DOMAIN b.answers /\ b.answers[s] # "skip")
    <3>1. Closing(c, s)' = Closing(c, s)
      BY <1>1, <1>5, <1>6, <2>5 DEF Closing
    <3>2. auth'[c].slots[s] = auth[c].slots[s]
      BY <1>3, <1>4, <2>5
    <3>3. \A x \in Closing(c, s) : actions'[x] = actions[x]
      BY <1>1, <1>6 DEF Closing
    <3> QED
      BY <2>2, <2>3, <3>1, <3>2, <3>3 DEF SlotMatches
  <2> QED
    BY <2>4, <2>5
<1> QED
  BY <1>9, <1>10, <1>11, <1>12 DEF Inv

-----------------------------------------------------------------------------
(* The world of others: a record is not lost, and while a request holds the*)
(* person no slot becomes filled.                                          *)
LEMMA WorldKeeps ==
  ASSUME Inv, UNCHANGED <<auth, actions, req, authLock, personLock>>,
         version' \in Nat, records' \subseteq Record,
         \A x \in records : \E y \in records' : y.slot = x.slot /\ y.by = x.by,
         personLock # None => \A s \in Slots : Filled(s)' => Filled(s)
  PROVE  Inv'
<1>1. Tables'
  BY DEF Inv, Tables
<1>2. \A o \in Requests : RequestOK(o)'
  <2> SUFFICES ASSUME NEW o \in Requests PROVE RequestOK(o)'
    OBVIOUS
  <2>1. personLock = o => \A s \in Slots : Filled(s)' => Filled(s)
    BY NoneAssumption
  <2> QED
    BY <2>1, KeepsRequest DEF Inv
<1>3. ActionsAuthorized'
  BY DEF Inv, ActionsAuthorized
<1>4. SlotsMatchAnswers'
  <2> SUFFICES ASSUME NEW c \in Auths, auth[c] # None, NEW s \in SlotsOf[c]
               PROVE SlotMatches(c, s)'
    BY DEF SlotsMatchAnswers
  <2>1. Closing(c, s)' = Closing(c, s)
    BY DEF Closing
  <2>2. SlotMatches(c, s)
    BY DEF Inv, SlotsMatchAnswers
  <2> QED
    BY <2>1, <2>2 DEF SlotMatches
<1> QED
  BY <1>1, <1>2, <1>3, <1>4 DEF Inv

LEMMA OthersRecordKeeps ==
  ASSUME Inv, NEW s \in Slots, OthersRecord(s)
  PROVE  Inv'
<1> DEFINE new == [slot |-> s, by |-> None, auth |-> None, active |-> TRUE, intact |-> TRUE]
<1>1. records' = records \cup {new} /\ personLock = None
  BY DEF OthersRecord
<1>2. new \in Record
  BY DEF Record
<1> HIDE DEF new
<1>3. records' \subseteq Record /\ version' \in Nat
  BY <1>1, <1>2 DEF Inv, Tables, OthersRecord, world
<1> QED
  BY <1>1, <1>3, WorldKeeps DEF OthersRecord, locks

LEMMA OthersEditKeeps ==
  ASSUME Inv, NEW x \in records, OthersEdit(x)
  PROVE  Inv'
<1>1. PICK y \in {[x EXCEPT !.active = FALSE], [x EXCEPT !.intact = FALSE]} :
        records' = (records \ {x}) \cup {y}
  BY DEF OthersEdit
<1>2. x \in Record
  BY DEF Inv, Tables
<1>3. y \in Record /\ y.slot = x.slot /\ y.by = x.by /\ (y.active => x.active)
  BY <1>1, <1>2 DEF Record
<1>4. records' \subseteq Record /\ version' \in Nat
  BY <1>1, <1>3 DEF Inv, Tables, OthersEdit, world
<1>5. \A s \in Slots : Filled(s)' => Filled(s)
  BY <1>1, <1>3 DEF Filled
<1>6. \A z \in records : \E w \in records' : w.slot = z.slot /\ w.by = z.by
  BY <1>1, <1>3
<1> QED
  BY <1>4, <1>5, <1>6, WorldKeeps DEF OthersEdit, locks

LEMMA OthersKeeps ==
  ASSUME Inv, Others
  PROVE  Inv'
<1>1. ASSUME UNCHANGED <<auth, actions, records, req, locks>>, version' \in Nat
      PROVE  Inv'
  <2>1. \A s \in Slots : Filled(s)' => Filled(s)
    BY <1>1 DEF Filled
  <2> QED
    BY <1>1, <2>1, WorldKeeps DEF Inv, Tables, locks
<1>2. version \in Nat
  BY DEF Inv, Tables
<1>3. ASSUME NEW s \in Slots, OthersRecord(s) \/ OthersCandidate(s) PROVE Inv'
  BY <1>1, <1>2, <1>3, OthersRecordKeeps DEF OthersCandidate
<1>4. ASSUME NEW x \in records, OthersEdit(x) PROVE Inv'
  BY <1>4, OthersEditKeeps
<1>5. CASE OthersPerson
  BY <1>1, <1>2, <1>5 DEF OthersPerson
<1>6. CASE OthersOntology
  BY <1>1, <1>2, <1>6 DEF OthersOntology
<1>7. ASSUME NEW a \in Auths, Expire(a) PROVE Inv'
  BY <1>1, <1>2, <1>7 DEF Expire
<1> QED
  BY <1>3, <1>4, <1>5, <1>6, <1>7 DEF Others

-----------------------------------------------------------------------------
LEMMA InitInv == Init => Inv
<1> SUFFICES ASSUME Init PROVE Inv
  OBVIOUS
<1>1. Tables
  BY DEF Init, Tables
<1>2. \A q \in Requests : RequestOK(q)
  BY DEF Init, Idle, RequestOK, Staging, Sent, Verifying, Holding, Checked, Ready
<1>3. ActionsAuthorized /\ SlotsMatchAnswers
  BY DEF Init, ActionsAuthorized, SlotsMatchAnswers
<1> QED
  BY <1>1, <1>2, <1>3 DEF Inv

LEMMA NextInv == Inv /\ [Next]_vars => Inv'
<1> SUFFICES ASSUME Inv, [Next]_vars PROVE Inv'
  OBVIOUS
<1>1. ASSUME NEW q \in Requests, Step(q) PROVE Inv'
  BY <1>1, StageLookupKeeps, GetKeeps, PostKeeps, StageInsertKeeps, LockAuthorizationKeeps,
    KnownResolutionKeeps, CheckAuthorizationKeeps, LockPersonKeeps, CommitKeeps,
    VerifyReadKeeps, VerifyMarkKeeps, DieKeeps DEF Step
<1>2. CASE Others
  BY <1>2, OthersKeeps
<1>3. CASE UNCHANGED vars
  <2>1. \A s \in Slots : Filled(s)' => Filled(s)
    BY <1>3 DEF vars, Filled
  <2> QED
    BY <1>3, <2>1, WorldKeeps DEF vars, world, locks, Inv, Tables
<1> QED
  BY <1>1, <1>2, <1>3 DEF Next

(* The rows have their types, every request knows what it relies on, and   *)
(* what the slots say is what the answers said: the locks of the enrichment*)
(* service suffice, for any number of workers.                             *)
THEOREM EnrichmentInvariant == Spec => []Inv
BY InitInv, NextInv, PTL DEF Spec

(* A slot is closed by exactly one answer, with what that answer said, and *)
(* one answered as known has the record the answer made.                   *)
THEOREM AnswersMatchSlots == Spec => []SlotsMatchAnswers
<1>1. Inv => SlotsMatchAnswers
  BY DEF Inv
<1> QED
  BY <1>1, EnrichmentInvariant, PTL

(* No answer adds a record to a slot that has a current one: the gap that  *)
(* was checked under the lock of the person is still one at the commit.    *)
THEOREM AnswersFillGaps == Spec => FillsOnlyGaps
<1> DEFINE Fills == \A x \in records' :
             x.by # None /\ (\A y \in records : y.by # x.by \/ y.slot # x.slot) => ~Filled(x.slot)
<1>1. Inv /\ [Next]_vars => [Fills]_vars
  <2> SUFFICES ASSUME Inv, [Next]_vars, NEW x \in records', x.by # None,
                      \A y \in records : y.by # x.by \/ y.slot # x.slot
               PROVE ~Filled(x.slot)
    OBVIOUS
  <2>1. CASE records' = records
    BY <2>1
  <2>2. ASSUME NEW s \in Slots, OthersRecord(s) PROVE ~Filled(x.slot)
    BY <2>2 DEF OthersRecord
  <2>3. ASSUME NEW z \in records, OthersEdit(z) PROVE ~Filled(x.slot)
    <3>1. PICK y \in {[z EXCEPT !.active = FALSE], [z EXCEPT !.intact = FALSE]} :
            records' = (records \ {z}) \cup {y}
      BY <2>3 DEF OthersEdit
    <3>2. z \in Record
      BY DEF Inv, Tables
    <3>3. y.slot = z.slot /\ y.by = z.by
      BY <3>1, <3>2 DEF Record
    <3> QED
      BY <3>1, <3>3
  <2>4. ASSUME NEW q \in Requests, Commit(q) PROVE ~Filled(x.slot)
    <3>1. req[q].pc = "commit" /\ records' = records \cup NewRecords(req[q].key, req[q].body)
      BY <2>4 DEF Commit
    <3>2. x.slot \in DOMAIN req[q].body.answers
      BY <3>1 DEF NewRecords, KnownIn
    <3> QED
      BY <3>1, <3>2, AtCommit
  <2>5. CASE UNCHANGED vars
    BY <2>1, <2>5 DEF vars
  <2>6. CASE Others
    BY <2>1, <2>2, <2>3, <2>6 DEF Others, OthersCandidate, OthersPerson, OthersOntology, Expire
  <2>7. ASSUME NEW q \in Requests, Step(q) PROVE ~Filled(x.slot)
    BY <2>1, <2>4, <2>7 DEF Step, StageLookup, Get, Post, StageInsert, LockAuthorization,
      KnownResolution, CheckAuthorization, LockPerson, VerifyRead, VerifyMark, Die
  <2> QED
    BY <2>5, <2>6, <2>7 DEF Next
<1> QED
  BY <1>1, EnrichmentInvariant, PTL DEF Spec, FillsOnlyGaps

-----------------------------------------------------------------------------
(* The enrichment client. What a command does, by its role; the steps of   *)
(* two roles have different names.                                          *)
StagerSteps == {"write", "authorize", "store"}
DispatcherSteps == {"cancel", "withdraw", "bridge", "giveback", "claim", "begin", "sending",
                    "deliver", "context", "delivered"}
CancellerSteps == {"close", "broker", "unbridge", "release"}
ApplierSteps == {"proof", "post", "receipt", "unknown", "refused", "giveup", "read", "finish"}

StagerWork == [pc : StagerSteps, q : Questions, recovers : BOOLEAN]
DispatcherWork == [pc : DispatcherSteps, q : Questions, lease : Nat, after : {"claim", "begin", "deliver", "cancel"}]
CancellerWork == [pc : CancellerSteps, q : Questions, lease : Nat,
                  seen : {"none", "queued", "claimed", "delivered"}]
ApplierWork == [pc : ApplierSteps, q : Questions, s : Submissions]

IsStager(p) == proc[p].pc \in StagerSteps
IsDispatcher(p) == proc[p].pc \in DispatcherSteps
IsCanceller(p) == proc[p].pc \in CancellerSteps
IsApplier(p) == proc[p].pc \in ApplierSteps

Intents == [state : {"none", "queued", "claimed", "sending", "delivered", "completed", "cancelled"}, lease : Nat]
Convs == {"none", "prepared", "awaiting_reply", "completed", "expired", "cancelled"}

ClientTypes ==
  /\ question \in [Questions -> Question \cup {Nothing}]
  /\ overdue \subseteq Questions /\ outdated \subseteq Questions
  /\ grants \in [Questions -> {"none", "open", "answered", "expired"}]
  /\ applied \in [Questions -> SUBSET Submissions]
  /\ intent \in [Questions -> Intents] /\ conv \in [Questions -> Convs]
  /\ proc \in [Procs -> {AtRest} \cup StagerWork \cup DispatcherWork \cup CancellerWork \cup ApplierWork]
  /\ \A p \in Procs : IsStager(p) => p \in Stagers
  /\ \A p \in Procs : IsDispatcher(p) => p \in Dispatchers

(* One command stages at a time.                                            *)
OneStager == \A p1, p2 \in Procs : IsStager(p1) /\ IsStager(p2) => p1 = p2

(* No answer to this question can be applied any more.                      *)
Refused(q) == applied[q] = {} /\ (q \in overdue \cup outdated \/ grants[q] = "expired")

(* Every command but one that has yet to write its question works on a      *)
(* question that is in the file. A stager's question holds no capability; an *)
(* applier has the one submission the question was ever given to.           *)
CommandOK(p) ==
  /\ proc[p] # AtRest /\ proc[p].pc # "write" => proc[p].q \in Asked
  /\ IsStager(p) /\ proc[p].q \in Asked => ~question[proc[p].q].capable
  /\ proc[p].pc = "write" /\ proc[p].recovers => proc[p].q \in Asked
  /\ proc[p].pc = "store" => grants[proc[p].q] # "none"
  /\ IsApplier(p) =>
       /\ proc[p].s = question[proc[p].q].submission
       /\ grants[proc[p].q] # "none"
       /\ proc[p].pc = "post" => Shown(proc[p].q)
       /\ proc[p].pc \in {"refused", "giveup"} => Refused(proc[p].q)
       /\ proc[p].pc = "finish" => proc[p].s \in applied[proc[p].q]

(* What the backend applied is the question's one submission; the           *)
(* capability is there as long as an applier may need it.                   *)
QuestionOK(q) ==
  /\ q \notin Asked => intent[q].state = "none" /\ applied[q] = {} /\ q \notin overdue \cup outdated
  /\ q \in Asked =>
       /\ applied[q] \subseteq {question[q].submission}
       /\ question[q].capable => /\ question[q].state \notin Terminal \cup {"authorizing"}
                                 /\ grants[q] # "none"
       /\ question[q].state \in InApply => question[q].capable
  /\ applied[q] # {} => Shown(q)

ClientInv ==
  /\ ClientTypes /\ OneStager
  /\ \A p \in Procs : CommandOK(p)
  /\ \A q \in Questions : QuestionOK(q)

-----------------------------------------------------------------------------
OneDispatcher == \A p1, p2 \in Dispatchers : p1 = p2

(* A question that is open, and one that may become open: its delivery is   *)
(* under way, or nobody would mind.                                         *)
Open(q) == question[q].state \notin Terminal /\ q \notin overdue /\ ~question[q].blind
Pending(q) == question[q].state \notin Terminal \/ q \in overdue \/ question[q].blind
Settled(q) == question[q].attn \in {"delivered", "completed"}

(* The question's state, its delivery as recorded and its intent agree.     *)
DeliveryOK(q) ==
  /\ intent[q].state \notin {"none", "cancelled"} /\ ~Settled(q) => Pending(q)
  /\ question[q].state \in {"awaiting_reply"} \cup InApply => Settled(q)
  /\ question[q].state = "authorizing" =>
       intent[q].state = "none" /\ question[q].attn = "none"
  /\ question[q].attn = "none" => intent[q].state \in {"none", "queued", "claimed"}

DeliveryWork(p) ==
  LET q == proc[p].q IN
  /\ IsDispatcher(p) => ~Settled(q) /\ question[q].attn # "none"
  /\ proc[p].pc = "delivered" => intent[q].state \in {"delivered", "completed"}
  /\ proc[p].pc = "withdraw" => intent[q].state = "cancelled"
  /\ proc[p].pc \in {"broker", "unbridge", "release"} => question[q].attn # "none"
  /\ proc[p].pc = "close" /\ proc[p].seen \in {"queued", "claimed"} => intent[q].state = "cancelled"
  /\ proc[p].pc = "broker" => proc[p].seen \in {"queued", "claimed"}
  /\ proc[p].pc = "unbridge" => proc[p].seen = "delivered"
  /\ proc[p].pc \in {"unbridge", "release"} => Settled(q)
  /\ proc[p].pc = "close" /\ proc[p].seen = "delivered" => Settled(q)

(* While a question is staged, no other one is open, nor can become so.     *)
StagingWork(p) ==
  LET q == proc[p].q IN
  IsStager(p) /\ (proc[p].pc # "write" \/ proc[p].recovers) =>
    /\ \A q2 \in Asked : q2 # q => ~Open(q2)
    /\ question[q].state = "authorizing" \/ ~Open(q)

OneOpen == \A q1, q2 \in Asked : Open(q1) /\ Open(q2) => q1 = q2

OpenInv ==
  /\ \A q \in Asked : DeliveryOK(q)
  /\ \A p \in Procs : DeliveryWork(p) /\ StagingWork(p)
  /\ OneOpen

-----------------------------------------------------------------------------
(* What a command carries, by its step.                                     *)
LEMMA WorkShape ==
  ASSUME ClientTypes, NEW p \in Procs
  PROVE  /\ IsStager(p) => proc[p] \in StagerWork
         /\ IsDispatcher(p) => proc[p] \in DispatcherWork
         /\ IsCanceller(p) => proc[p] \in CancellerWork
         /\ IsApplier(p) => proc[p] \in ApplierWork
         /\ proc[p] = AtRest \/ IsStager(p) \/ IsDispatcher(p) \/ IsCanceller(p) \/ IsApplier(p)
<1>1. proc[p] \in {AtRest} \cup StagerWork \cup DispatcherWork \cup CancellerWork \cup ApplierWork
  BY DEF ClientTypes
<1>2. CASE proc[p] = AtRest
  <2>1. proc[p].pc = "idle"
    BY <1>2 DEF AtRest
  <2> QED
    BY <1>2, <2>1 DEF IsStager, IsDispatcher, IsCanceller, IsApplier, StagerSteps, DispatcherSteps,
      CancellerSteps, ApplierSteps
<1>3. CASE proc[p] \in StagerWork
  <2>1. proc[p].pc \in StagerSteps
    BY <1>3 DEF StagerWork
  <2> QED
    BY <1>3, <2>1 DEF IsStager, IsDispatcher, IsCanceller, IsApplier, StagerSteps, DispatcherSteps,
      CancellerSteps, ApplierSteps
<1>4. CASE proc[p] \in DispatcherWork
  <2>1. proc[p].pc \in DispatcherSteps
    BY <1>4 DEF DispatcherWork
  <2> QED
    BY <1>4, <2>1 DEF IsStager, IsDispatcher, IsCanceller, IsApplier, StagerSteps, DispatcherSteps,
      CancellerSteps, ApplierSteps
<1>5. CASE proc[p] \in CancellerWork
  <2>1. proc[p].pc \in CancellerSteps
    BY <1>5 DEF CancellerWork
  <2> QED
    BY <1>5, <2>1 DEF IsStager, IsDispatcher, IsCanceller, IsApplier, StagerSteps, DispatcherSteps,
      CancellerSteps, ApplierSteps
<1>6. CASE proc[p] \in ApplierWork
  <2>1. proc[p].pc \in ApplierSteps
    BY <1>6 DEF ApplierWork
  <2> QED
    BY <1>6, <2>1 DEF IsStager, IsDispatcher, IsCanceller, IsApplier, StagerSteps, DispatcherSteps,
      CancellerSteps, ApplierSteps
<1> QED
  BY <1>1, <1>2, <1>3, <1>4, <1>5, <1>6

(* The commands of a state: a command has one role.                         *)
Work == {AtRest} \cup StagerWork \cup DispatcherWork \cup CancellerWork \cup ApplierWork

(* Only this command moves, to such a step of its role.                     *)
Moves(p, pc) ==
  /\ proc' \in [Procs -> Work]
  /\ proc'[p].pc = pc /\ proc'[p].q = proc[p].q
  /\ \A o \in Procs : o # p => proc'[o] = proc[o]

LEMMA StagerGoes ==
  ASSUME ClientTypes, NEW p \in Procs, IsStager(p), NEW pc \in StagerSteps, Goes(p, pc)
  PROVE  Moves(p, pc) /\ proc'[p] \in StagerWork /\ proc'[p].recovers = proc[p].recovers
<1>1. proc[p] \in StagerWork /\ proc \in [Procs -> Work]
  BY WorkShape DEF ClientTypes, Work
<1>2. [proc[p] EXCEPT !.pc = pc] \in StagerWork
  BY <1>1 DEF StagerWork
<1> QED
  BY <1>1, <1>2 DEF Goes, Moves, Work, StagerWork

LEMMA DispatcherGoes ==
  ASSUME ClientTypes, NEW p \in Procs, IsDispatcher(p), NEW pc \in DispatcherSteps, Goes(p, pc)
  PROVE  Moves(p, pc) /\ proc'[p] \in DispatcherWork
<1>1. proc[p] \in DispatcherWork /\ proc \in [Procs -> Work]
  BY WorkShape DEF ClientTypes, Work
<1>2. [proc[p] EXCEPT !.pc = pc] \in DispatcherWork
  BY <1>1 DEF DispatcherWork
<1> QED
  BY <1>1, <1>2 DEF Goes, Moves, Work, DispatcherWork

LEMMA CancellerGoes ==
  ASSUME ClientTypes, NEW p \in Procs, IsCanceller(p), NEW pc \in CancellerSteps, Goes(p, pc)
  PROVE  Moves(p, pc) /\ proc'[p] \in CancellerWork /\ proc'[p].seen = proc[p].seen
<1>1. proc[p] \in CancellerWork /\ proc \in [Procs -> Work]
  BY WorkShape DEF ClientTypes, Work
<1>2. [proc[p] EXCEPT !.pc = pc] \in CancellerWork
  BY <1>1 DEF CancellerWork
<1> QED
  BY <1>1, <1>2 DEF Goes, Moves, Work, CancellerWork

LEMMA ApplierGoes ==
  ASSUME ClientTypes, NEW p \in Procs, IsApplier(p), NEW pc \in ApplierSteps, Goes(p, pc)
  PROVE  Moves(p, pc) /\ proc'[p] \in ApplierWork /\ proc'[p].s = proc[p].s
<1>1. proc[p] \in ApplierWork /\ proc \in [Procs -> Work]
  BY WorkShape DEF ClientTypes, Work
<1>2. [proc[p] EXCEPT !.pc = pc] \in ApplierWork
  BY <1>1 DEF ApplierWork
<1> QED
  BY <1>1, <1>2 DEF Goes, Moves, Work, ApplierWork

(* A command begins, or ends.                                               *)
LEMMA CommandBecomes ==
  ASSUME ClientTypes, NEW p \in Procs, NEW w \in Work, Becomes(p, w)
  PROVE  /\ proc' \in [Procs -> Work]
         /\ proc'[p] = w
         /\ \A o \in Procs : o # p => proc'[o] = proc[o]
BY DEF ClientTypes, Work, Becomes

(* One question of the file changes.                                        *)
LEMMA OneQuestion ==
  ASSUME ClientTypes, NEW q \in Questions, NEW it \in Question, question' = [question EXCEPT ![q] = it]
  PROVE  /\ question' \in [Questions -> Question \cup {Nothing}]
         /\ question'[q] = it /\ q \in Asked'
         /\ \A o \in Questions : o # q => question'[o] = question[o]
         /\ Asked' = Asked \cup {q}
<1>1. /\ question' \in [Questions -> Question \cup {Nothing}] /\ question'[q] = it
      /\ \A o \in Questions : o # q => question'[o] = question[o]
  BY DEF ClientTypes
<1>2. it # Nothing
  BY EnrichmentClientAssumption
<1> QED
  BY <1>1, <1>2 DEF Asked

-----------------------------------------------------------------------------
(* What a step leaves to a command that does not move with it.             *)
Steady(o) ==
  /\ Asked \subseteq Asked'
  /\ \A q \in Questions :
       /\ grants[q] # "none" => grants'[q] # "none"
       /\ Shown(q) => Shown(q)'
       /\ Refused(q) => Refused(q)'
       /\ applied[q] \subseteq applied'[q]
       /\ q \in Asked /\ question[q].submission # Nothing
            => question'[q].submission = question[q].submission
       /\ q \in Asked' /\ question'[q].capable
            => (q \in Asked /\ question[q].capable) \/ ~IsStager(o)

LEMMA SteadyCommand ==
  ASSUME ClientInv, NEW o \in Procs, proc'[o] = proc[o], Steady(o)
  PROVE  CommandOK(o)'
<1>1. CommandOK(o)
  BY DEF ClientInv
<1>2. CASE proc[o] = AtRest
  BY <1>2 DEF CommandOK, AtRest, IsStager, IsApplier, StagerSteps, ApplierSteps
<1>3. CASE IsStager(o)
  <2>1. proc[o].q \in Questions /\ ~IsApplier(o)
    BY <1>3, WorkShape DEF ClientInv, StagerWork, IsStager, IsApplier, StagerSteps, ApplierSteps
  <2> QED
    BY <1>1, <1>3, <2>1 DEF CommandOK, Steady, IsStager, IsApplier
<1>4. CASE IsDispatcher(o) \/ IsCanceller(o)
  <2>1. /\ ~IsApplier(o) /\ ~IsStager(o) /\ proc[o] # AtRest
        /\ proc[o].pc \notin {"write", "store"} /\ proc[o].q \in Questions
    <3>1. ~IsApplier(o) /\ ~IsStager(o) /\ proc[o] # AtRest /\ proc[o].pc \notin {"write", "store"}
      BY <1>4 DEF IsStager, IsApplier, StagerSteps, ApplierSteps, IsDispatcher, IsCanceller,
        DispatcherSteps, CancellerSteps, AtRest
    <3>2. proc[o].q \in Questions
      BY <1>4, WorkShape DEF ClientInv, DispatcherWork, CancellerWork
    <3> QED
      BY <3>1, <3>2
  <2> QED
    BY <1>1, <2>1 DEF CommandOK, Steady, IsStager, IsApplier
<1>5. CASE IsApplier(o)
  <2>1. /\ proc[o].q \in Questions /\ proc[o].s \in Submissions /\ ~IsStager(o)
        /\ proc[o].pc \notin {"write", "store"} /\ proc[o] # AtRest
    BY <1>5, WorkShape DEF ClientInv, ApplierWork, IsStager, IsApplier, StagerSteps, ApplierSteps, AtRest
  <2>2. proc[o].q \in Asked /\ question[proc[o].q].submission # Nothing
    BY <1>1, <1>5, <2>1, EnrichmentClientAssumption DEF CommandOK
  <2>3. question'[proc[o].q].submission = proc[o].s
    BY <1>1, <1>5, <2>1, <2>2 DEF CommandOK, Steady
  <2>4. /\ grants'[proc[o].q] # "none" /\ (Shown(proc[o].q) => Shown(proc[o].q)')
        /\ (Refused(proc[o].q) => Refused(proc[o].q)') /\ applied[proc[o].q] \subseteq applied'[proc[o].q]
        /\ proc[o].q \in Asked'
    BY <1>1, <1>5, <2>1, <2>2 DEF CommandOK, Steady
  <2>5. PICK q : q = proc[o].q
    OBVIOUS
  <2>6. /\ proc'[o].pc = "post" => Shown(q)'
        /\ proc'[o].pc \in {"refused", "giveup"} => Refused(q)'
        /\ proc'[o].pc = "finish" => proc[o].s \in applied'[q]
    BY <1>1, <1>5, <2>4, <2>5 DEF CommandOK
  <2>7. proc'[o].q = q /\ proc'[o].s = proc[o].s /\ proc'[o].pc \notin {"write", "store"} /\ ~IsStager(o)'
    BY <2>1, <2>5 DEF IsStager
  <2> QED
    BY <2>3, <2>4, <2>5, <2>6, <2>7 DEF CommandOK
<1> QED
  BY <1>2, <1>3, <1>4, <1>5, WorkShape DEF ClientInv

(* A step of one command.                                                   *)
LEMMA CommandStep ==
  ASSUME ClientInv, NEW p \in Procs, ClientTypes',
         \A o \in Procs : o # p => proc'[o] = proc[o] /\ Steady(o),
         CommandOK(p)', \A q \in Questions : QuestionOK(q)',
         IsStager(p)' => \A o \in Procs : o # p => ~IsStager(o)
  PROVE  ClientInv'
<1>1. \A o \in Procs : CommandOK(o)'
  BY SteadyCommand
<1>2. OneStager'
  BY DEF ClientInv, OneStager, IsStager
<1> QED
  BY <1>1, <1>2 DEF ClientInv

(* A step of nobody.                                                        *)
LEMMA WorldStep ==
  ASSUME ClientInv, ClientTypes', proc' = proc,
         \A o \in Procs : Steady(o), \A q \in Questions : QuestionOK(q)'
  PROVE  ClientInv'
<1>1. \A o \in Procs : CommandOK(o)'
  BY SteadyCommand
<1>2. OneStager'
  BY DEF ClientInv, OneStager, IsStager
<1> QED
  BY <1>1, <1>2 DEF ClientInv

-----------------------------------------------------------------------------
(* A section that writes this question into the file.                       *)
Writes(q, it) == question' = [question EXCEPT ![q] = it] /\ UNCHANGED <<times, backend, route>>

(* What it may write: the capability only comes from staging, the           *)
(* submission stays.                                                        *)
Fits(q, it) ==
  /\ it \in Question
  /\ q \in Asked /\ question[q].submission # Nothing => it.submission = question[q].submission
  /\ applied[q] \subseteq {it.submission}
  /\ it.capable => it.state \notin Terminal \cup {"authorizing"} /\ grants[q] # "none"
  /\ it.state \in InApply => it.capable

LEMMA WriteSteady ==
  ASSUME ClientInv, NEW q \in Questions, NEW it, Writes(q, it), Fits(q, it)
  PROVE  /\ question' \in [Questions -> Question \cup {Nothing}]
         /\ Asked' = Asked \cup {q} /\ question'[q] = it
         /\ \A r \in Questions : QuestionOK(r)'
         /\ \A o \in Procs :
              (it.capable => (q \in Asked /\ question[q].capable) \/ ~IsStager(o)) => Steady(o)
<1>1. ClientTypes /\ it \in Question /\ question' = [question EXCEPT ![q] = it]
  BY DEF ClientInv, Writes, Fits
<1>2. /\ question' \in [Questions -> Question \cup {Nothing}]
      /\ question'[q] = it /\ q \in Asked'
      /\ \A r \in Questions : r # q => question'[r] = question[r]
      /\ Asked' = Asked \cup {q}
  BY <1>1, OneQuestion
<1>3. UNCHANGED <<overdue, outdated, grants, applied, intent, conv>>
  BY DEF Writes, times, backend, route
<1>4. ASSUME NEW r \in Questions PROVE QuestionOK(r)'
  <2>1. QuestionOK(r)
    BY DEF ClientInv
  <2>2. CASE r # q
    <3>1. question'[r] = question[r] /\ (r \in Asked' <=> r \in Asked)
      BY <1>2, <2>2
    <3> QED
      BY <1>3, <2>1, <3>1 DEF QuestionOK, Shown
  <2>3. CASE r = q
    <3>1. r \in Asked' /\ question'[r] = it
      BY <1>2, <2>3
    <3> QED
      BY <1>3, <2>1, <2>3, <3>1 DEF QuestionOK, Shown, Fits
  <2> QED
    BY <2>2, <2>3
<1>5. ASSUME NEW o \in Procs,
             it.capable => (q \in Asked /\ question[q].capable) \/ ~IsStager(o)
      PROVE  Steady(o)
  <2>1. Asked \subseteq Asked'
    BY <1>2
  <2>2. ASSUME NEW r \in Questions
        PROVE  /\ grants[r] # "none" => grants'[r] # "none"
               /\ Shown(r) => Shown(r)'
               /\ Refused(r) => Refused(r)'
               /\ applied[r] \subseteq applied'[r]
    BY <1>3 DEF Shown, Refused
  <2>3. ASSUME NEW r \in Questions
        PROVE  /\ r \in Asked /\ question[r].submission # Nothing
                    => question'[r].submission = question[r].submission
               /\ r \in Asked' /\ question'[r].capable
                    => (r \in Asked /\ question[r].capable) \/ ~IsStager(o)
    <3>1. CASE r # q
      BY <1>2, <3>1 
    <3>2. CASE r = q
      BY <1>2, <1>5, <3>2 DEF Fits
    <3> QED
      BY <3>1, <3>2
  <2> QED
    BY <2>1, <2>2, <2>3 DEF Steady
<1> QED
  BY <1>2, <1>4, <1>5

(* A section that only changes what a command is doing, or a call that is  *)
(* never made.                                                              *)
LEMMA QuietSteady ==
  ASSUME ClientInv, UNCHANGED <<question, times, backend, route>>
  PROVE  /\ \A q \in Questions : QuestionOK(q)'
         /\ \A o \in Procs : Steady(o)
         /\ Asked' = Asked
<1>1. UNCHANGED <<question, overdue, outdated, grants, applied, intent, conv>>
  BY DEF times, backend, route
<1>2. Asked' = Asked
  BY <1>1 DEF Asked
<1>3. \A q \in Questions : QuestionOK(q)'
  BY <1>1, <1>2 DEF ClientInv, QuestionOK, Shown
<1>4. \A o \in Procs : Steady(o)
  BY <1>1, <1>2 DEF Steady, Shown, Refused
<1> QED
  BY <1>2, <1>3, <1>4

LEMMA TypesOfWrite ==
  ASSUME ClientTypes, NEW p \in Procs, UNCHANGED <<times, backend, route>>,
         question' \in [Questions -> Question \cup {Nothing}],
         proc' \in [Procs -> Work], \A o \in Procs : o # p => proc'[o] = proc[o],
         proc'[p].pc \in StagerSteps => p \in Stagers,
         proc'[p].pc \in DispatcherSteps => p \in Dispatchers
  PROVE  ClientTypes'
<1>1. \A o \in Procs : (IsStager(o)' => o \in Stagers) /\ (IsDispatcher(o)' => o \in Dispatchers)
  BY DEF ClientTypes, IsStager, IsDispatcher
<1> QED
  BY <1>1 DEF ClientTypes, Work, times, backend, route

(* A command ends.                                                          *)
LEMMA Resting ==
  ASSUME ClientTypes, NEW p \in Procs, Ends(p)
  PROVE  /\ proc' \in [Procs -> Work] /\ \A o \in Procs : o # p => proc'[o] = proc[o]
         /\ proc'[p].pc \notin StagerSteps \cup DispatcherSteps
         /\ CommandOK(p)' /\ ~IsStager(p)'
<1>1. AtRest \in Work
  BY DEF Work
<1>2. proc' \in [Procs -> Work] /\ proc'[p] = AtRest /\ \A o \in Procs : o # p => proc'[o] = proc[o]
  BY <1>1, CommandBecomes DEF Ends
<1>3. proc'[p].pc = "idle"
  BY <1>2 DEF AtRest
<1> QED
  BY <1>2, <1>3 DEF CommandOK, IsStager, IsApplier, StagerSteps, DispatcherSteps, ApplierSteps

(* A section that writes a question and ends its command.                   *)
LEMMA WritesAndEnds ==
  ASSUME ClientInv, NEW p \in Procs, NEW q \in Questions, NEW it, Writes(q, it), Fits(q, it), Ends(p),
         it.capable => (q \in Asked /\ question[q].capable) \/ IsStager(p)
  PROVE  ClientInv'
<1>1. \A o \in Procs : o # p /\ IsStager(p) => ~IsStager(o)
  BY DEF ClientInv, OneStager
<1>2. /\ question' \in [Questions -> Question \cup {Nothing}]
      /\ \A r \in Questions : QuestionOK(r)'
      /\ \A o \in Procs : o # p => Steady(o)
  BY <1>1, WriteSteady
<1>3. ClientTypes /\ UNCHANGED <<times, backend, route>>
  BY DEF ClientInv, Writes
<1>4. ClientTypes'
  BY <1>2, <1>3, Resting, TypesOfWrite
<1>5. \A o \in Procs : o # p => proc'[o] = proc[o] /\ Steady(o)
  BY <1>2, <1>3, Resting
<1>6. CommandOK(p)' /\ ~IsStager(p)'
  BY <1>3, Resting
<1> QED
  BY <1>2, <1>4, <1>5, <1>6, CommandStep

(* A section that writes a question and goes on.                            *)
LEMMA WritesAndGoes ==
  ASSUME ClientInv, NEW p \in Procs, NEW pc, Moves(p, pc), 
         NEW q \in Questions, NEW it, Writes(q, it), Fits(q, it), 
         it.capable => (q \in Asked /\ question[q].capable) \/ IsStager(p),
         CommandOK(p)', IsStager(p)' => IsStager(p), IsDispatcher(p)' => IsDispatcher(p)
  PROVE  ClientInv'
<1>1. \A o \in Procs : o # p /\ IsStager(p) => ~IsStager(o)
  BY DEF ClientInv, OneStager
<1>2. /\ question' \in [Questions -> Question \cup {Nothing}]
      /\ \A r \in Questions : QuestionOK(r)'
      /\ \A o \in Procs : o # p => Steady(o)
  BY <1>1, WriteSteady
<1>3. ClientTypes /\ UNCHANGED <<times, backend, route>>
  BY DEF ClientInv, Writes
<1>4. proc' \in [Procs -> Work] /\ \A o \in Procs : o # p => proc'[o] = proc[o]
  BY DEF Moves
<1>5. (proc'[p].pc \in StagerSteps => p \in Stagers) /\ (proc'[p].pc \in DispatcherSteps => p \in Dispatchers)
  BY <1>3 DEF IsStager, IsDispatcher, ClientTypes
<1>6. ClientTypes'
  BY <1>2, <1>3, <1>4, <1>5, TypesOfWrite
<1>7. \A o \in Procs : o # p => proc'[o] = proc[o] /\ Steady(o)
  BY <1>2, <1>4
<1>8. IsStager(p)' => \A o \in Procs : o # p => ~IsStager(o)
  BY <1>1
<1> QED
  BY <1>2, <1>6, <1>7, <1>8, CommandStep

(* A section that writes nothing.                                           *)
LEMMA QuietEnds ==
  ASSUME ClientInv, NEW p \in Procs, Ends(p), UNCHANGED <<question, times, backend, route>>
  PROVE  ClientInv'
<1>1. ClientTypes /\ question' \in [Questions -> Question \cup {Nothing}]
  BY DEF ClientInv, ClientTypes
<1>2. ClientTypes'
  BY <1>1, Resting, TypesOfWrite
<1> QED
  BY <1>1, <1>2, Resting, QuietSteady, CommandStep

LEMMA QuietStep ==
  ASSUME ClientInv, NEW p \in Procs, UNCHANGED <<question, times, backend, route>>,
         proc' \in [Procs -> Work], \A o \in Procs : o # p => proc'[o] = proc[o],
         IsStager(p)' => p \in Stagers /\ \A o \in Procs : o # p => ~IsStager(o),
         IsDispatcher(p)' => p \in Dispatchers, CommandOK(p)'
  PROVE  ClientInv'
<1>1. ClientTypes /\ question' \in [Questions -> Question \cup {Nothing}]
  BY DEF ClientInv, ClientTypes
<1>2. ClientTypes'
  BY <1>1, TypesOfWrite DEF IsStager, IsDispatcher
<1> QED
  BY <1>1, <1>2, QuietSteady, CommandStep

-----------------------------------------------------------------------------
LEMMA AskedQuestion ==
  ASSUME ClientInv, NEW q \in Asked
  PROVE  /\ q \in Questions /\ question[q] \in Question
         /\ QuestionOK(q) /\ Fits(q, question[q])
<1>1. q \in Questions /\ question[q] \in Question
  BY DEF ClientInv, ClientTypes, Asked
<1>2. QuestionOK(q)
  BY <1>1 DEF ClientInv
<1> QED
  BY <1>1, <1>2 DEF Fits, QuestionOK

(* A question that is closed holds nothing.                                 *)
LEMMA ClosedFits ==
  ASSUME ClientInv, NEW q \in Asked, NEW state \in Terminal, NEW it, it = Closed(question[q], state)
  PROVE  /\ Fits(q, it) /\ ~it.capable /\ it.state = state
         /\ it.attn = question[q].attn /\ it.lease = question[q].lease
         /\ it.bound = question[q].bound /\ it.blind = question[q].blind
         /\ it.submission = question[q].submission
<1>1. question[q] \in Question /\ applied[q] \subseteq {question[q].submission}
  BY AskedQuestion DEF Fits
<1>2. /\ it \in Question /\ ~it.capable /\ it.state = state
      /\ it.attn = question[q].attn /\ it.lease = question[q].lease
      /\ it.bound = question[q].bound /\ it.blind = question[q].blind
      /\ it.submission = question[q].submission
  BY <1>1 DEF Closed, Question
<1>3. state \notin InApply
  BY DEF Terminal, InApply
<1> QED
  BY <1>1, <1>2, <1>3 DEF Fits

(* What a command that has begun knows of its question.                     *)
LEMMA AtWork ==
  ASSUME ClientInv, NEW p \in Procs, IsStager(p) \/ IsDispatcher(p) \/ IsCanceller(p) \/ IsApplier(p)
  PROVE  /\ CommandOK(p) /\ proc[p].q \in Questions
         /\ proc[p].pc # "write" => proc[p].q \in Asked
<1>1. proc[p].q \in Questions
  BY WorkShape DEF ClientInv, StagerWork, DispatcherWork, CancellerWork, ApplierWork
<1>2. proc[p] # AtRest /\ CommandOK(p)
  BY DEF ClientInv, AtRest, IsStager, IsDispatcher, IsCanceller, IsApplier, StagerSteps,
    DispatcherSteps, CancellerSteps, ApplierSteps
<1> QED
  BY <1>1, <1>2 DEF CommandOK

-----------------------------------------------------------------------------
LEMMA ActiveQuestions ==
  ASSUME ClientInv, NEW q \in Asked \ Active
  PROVE  question[q].state \in Terminal
BY AskedQuestion DEF Active, Question, InApply, Terminal

LEMMA StageBeginInv ==
  ASSUME ClientInv, NEW p \in Stagers, NEW q \in Questions, StageBegin(p, q)
  PROVE  ClientInv'
<1>1. p \in Procs /\ ClientTypes
  BY DEF Procs, ClientInv
<1> PICK w : w = [pc |-> "write", q |-> q, recovers |-> Active # {}]
  OBVIOUS
<1>2. w \in StagerWork /\ w \in Work /\ w.pc = "write" /\ w.q = q /\ (w.recovers <=> Active # {})
  BY DEF StagerWork, StagerSteps, Work
<1>3. Becomes(p, w) /\ UNCHANGED <<question, times, backend, route>>
  BY DEF StageBegin
<1>4. proc' \in [Procs -> Work] /\ proc'[p] = w /\ \A o \in Procs : o # p => proc'[o] = proc[o]
  BY <1>1, <1>2, <1>3, CommandBecomes
<1>5. \A o \in Procs : ~IsStager(o)
  <2> SUFFICES ASSUME NEW o \in Procs, IsStager(o) PROVE FALSE
    OBVIOUS
  <2>1. o \in Busy /\ o \in Stagers
    BY DEF Busy, IsStager, StagerSteps, AtRest, ClientInv, ClientTypes
  <2> QED
    BY <2>1 DEF StageBegin
<1>6. q \in Asked => ~question[q].capable
  <2> SUFFICES ASSUME q \in Asked PROVE ~question[q].capable
    OBVIOUS
  <2>1. question[q].state \in Terminal \cup {"authorizing"}
    BY ActiveQuestions DEF StageBegin
  <2> QED
    BY <2>1, AskedQuestion DEF Fits
<1>7. w.recovers => q \in Asked
  BY <1>2 DEF StageBegin, Active
<1>8. Asked' = Asked /\ question' = question
  BY <1>3 DEF Asked
<1>9. CommandOK(p)' /\ ~IsDispatcher(p)'
  BY <1>2, <1>4, <1>6, <1>7, <1>8 DEF CommandOK, IsApplier, ApplierSteps, IsDispatcher, DispatcherSteps, IsStager
<1> QED
  BY <1>1, <1>3, <1>4, <1>5, <1>9, QuietStep

LEMMA StageWriteInv ==
  ASSUME ClientInv, NEW p \in Procs, StageWrite(p)
  PROVE  ClientInv'
<1> PICK q : q = proc[p].q
  OBVIOUS
<1>1. IsStager(p) /\ Goes(p, "authorize") /\ UNCHANGED <<times, backend, route>>
  BY DEF StageWrite, IsStager, StagerSteps
<1>2. CommandOK(p) /\ q \in Questions
  BY <1>1, AtWork
<1>3. /\ Moves(p, "authorize") /\ proc'[p].pc = "authorize" /\ proc'[p].q = q
      /\ ~IsDispatcher(p)' /\ IsStager(p)' /\ ~IsApplier(p)'
  BY <1>1, StagerGoes DEF ClientInv, StagerSteps, Moves, IsDispatcher, DispatcherSteps, IsStager,
    IsApplier, ApplierSteps
<1>4. CASE q \in Asked
  <2>1. UNCHANGED <<question, times, backend, route>> /\ Asked' = Asked
    BY <1>1, <1>4 DEF StageWrite, Asked
  <2>2. CommandOK(p)'
    BY <1>1, <1>2, <1>3, <1>4, <2>1 DEF CommandOK
  <2>3. proc' \in [Procs -> Work] /\ \A o \in Procs : o # p => proc'[o] = proc[o]
    BY <1>3 DEF Moves
  <2>4. p \in Stagers /\ \A o \in Procs : o # p => ~IsStager(o)
    BY <1>1 DEF ClientInv, OneStager, ClientTypes
  <2> QED
    BY <1>3, <2>1, <2>2, <2>3, <2>4, QuietStep
<1>5. CASE q \notin Asked
  <2> PICK it : it = NewQuestion
    OBVIOUS
  <2>1. /\ it \in Question /\ it.state = "authorizing" /\ ~it.capable /\ it.state \notin InApply
    BY DEF NewQuestion, Question, InApply
  <2>2. applied[q] = {}
    BY <1>2, <1>5 DEF ClientInv, QuestionOK
  <2>3. Writes(q, it) /\ Fits(q, it)
    BY <1>1, <1>5, <2>1, <2>2 DEF StageWrite, Writes, Fits
  <2>4. q \in Asked' /\ question'[q] = it
    BY <1>2, <2>3, WriteSteady
  <2>5. CommandOK(p)'
    BY <1>3, <2>1, <2>4 DEF CommandOK
  <2> QED
    BY <1>1, <1>2, <1>3, <2>1, <2>3, <2>5, WritesAndGoes
<1> QED
  BY <1>4, <1>5

LEMMA StageStoreInv ==
  ASSUME ClientInv, NEW p \in Procs, StageStore(p)
  PROVE  ClientInv'
<1> PICK q : q = proc[p].q
  OBVIOUS
<1>1. IsStager(p) /\ Ends(p)
  BY DEF StageStore, IsStager, StagerSteps
<1>2. q \in Asked /\ grants[q] # "none"
  BY <1>1, AtWork DEF StageStore, CommandOK
<1>3. q \in Questions /\ question[q] \in Question /\ Fits(q, question[q])
  BY <1>2, AskedQuestion
<1> PICK it : it = [question[q] EXCEPT !.state = "staged", !.capable = TRUE, !.blind = FALSE]
  OBVIOUS
<1>4. it \in Question /\ it.state = "staged" /\ it.submission = question[q].submission
  BY <1>3 DEF Question
<1>5. Writes(q, it)
  BY <1>3 DEF StageStore, Writes, ClientInv, ClientTypes
<1>6. Fits(q, it)
  BY <1>2, <1>3, <1>4 DEF Fits, Terminal, InApply
<1> QED
  BY <1>1, <1>3, <1>5, <1>6, WritesAndEnds

LEMMA StageRefusedInv ==
  ASSUME ClientInv, NEW p \in Procs, StageRefused(p)
  PROVE  ClientInv'
<1> PICK q : q = proc[p].q
  OBVIOUS
<1>1. IsStager(p) /\ Ends(p)
  BY DEF StageRefused, IsStager, StagerSteps
<1>2. q \in Asked /\ q \in Questions
  BY <1>1, AtWork DEF StageRefused
<1> PICK it : it = Closed(question[q], "stale")
  OBVIOUS
<1>3. Fits(q, it) /\ ~it.capable
  BY <1>2, ClosedFits DEF Terminal
<1>4. Writes(q, it)
  BY <1>2 DEF StageRefused, Writes, ClientInv, ClientTypes
<1> QED
  BY <1>1, <1>2, <1>3, <1>4, WritesAndEnds

-----------------------------------------------------------------------------
(* A command goes on and changes nothing else.                              *)
LEMMA QuietGoes ==
  ASSUME ClientInv, NEW p \in Procs, NEW pc, Moves(p, pc), UNCHANGED <<question, times, backend, route>>,
         CommandOK(p)', ~IsStager(p)', IsDispatcher(p)' => IsDispatcher(p)
  PROVE  ClientInv'
<1>1. proc' \in [Procs -> Work] /\ \A o \in Procs : o # p => proc'[o] = proc[o]
  BY DEF Moves
<1>2. IsDispatcher(p)' => p \in Dispatchers
  BY DEF ClientInv, ClientTypes
<1> QED
  BY <1>1, <1>2, QuietStep

(* A step of a dispatcher or canceller that stays one.                      *)
LEMMA DispatcherOK ==
  ASSUME ClientInv, NEW p \in Procs, NEW pc \in DispatcherSteps \cup CancellerSteps, Moves(p, pc),
         IsDispatcher(p) \/ IsCanceller(p), Asked \subseteq Asked'
  PROVE  CommandOK(p)' /\ ~IsStager(p)'
<1>1. /\ pc \notin {"write", "store"} /\ pc \notin StagerSteps /\ pc \notin ApplierSteps
  BY DEF DispatcherSteps, CancellerSteps, StagerSteps, ApplierSteps
<1>2. proc'[p].pc = pc /\ proc'[p].q = proc[p].q
  BY DEF Moves
<1>3. proc[p].q \in Asked
  BY AtWork DEF IsDispatcher, IsCanceller, DispatcherSteps, CancellerSteps
<1> QED
  BY <1>1, <1>2, <1>3 DEF CommandOK, IsStager, IsApplier

LEMMA DispatchWritesAndGoes ==
  ASSUME ClientInv, NEW p \in Procs, NEW pc \in DispatcherSteps \cup CancellerSteps, Goes(p, pc),
         \/ IsDispatcher(p) /\ pc \in DispatcherSteps
         \/ IsCanceller(p) /\ pc \in CancellerSteps,
         NEW q \in Asked, NEW it, Writes(q, it), Fits(q, it),
         it.capable => question[q].capable
  PROVE  ClientInv'
<1>1. Moves(p, pc)
  BY DispatcherGoes, CancellerGoes DEF ClientInv
<1>2. q \in Questions
  BY AskedQuestion
<1>3. Asked \subseteq Asked'
  BY <1>2, WriteSteady
<1>4. CommandOK(p)' /\ ~IsStager(p)'
  BY <1>1, <1>3, DispatcherOK
<1>5. IsDispatcher(p)' => IsDispatcher(p)
  BY <1>1 DEF Moves, IsDispatcher, DispatcherSteps, CancellerSteps
<1> QED
  BY <1>1, <1>2, <1>4, <1>5, WritesAndGoes

LEMMA DispatchGoes ==
  ASSUME ClientInv, NEW p \in Procs, NEW pc \in DispatcherSteps \cup CancellerSteps, Goes(p, pc),
         \/ IsDispatcher(p) /\ pc \in DispatcherSteps
         \/ IsCanceller(p) /\ pc \in CancellerSteps,
         UNCHANGED <<question, times, backend, route>>
  PROVE  ClientInv'
<1>1. Moves(p, pc)
  BY DispatcherGoes, CancellerGoes DEF ClientInv
<1>3. Asked \subseteq Asked'
  BY DEF Asked
<1>4. CommandOK(p)' /\ ~IsStager(p)'
  BY <1>1, <1>3, DispatcherOK
<1>5. IsDispatcher(p)' => IsDispatcher(p)
  BY <1>1 DEF Moves, IsDispatcher, DispatcherSteps, CancellerSteps
<1> QED
  BY <1>1, <1>4, <1>5, QuietGoes

-----------------------------------------------------------------------------
(* The section of a dispatcher: only the delivery of its question changes,  *)
(* or its state, to one the capability does not matter for.                 *)
MarkedQuestion(p, attn) ==
  [question[proc[p].q] EXCEPT !.attn = attn, !.lease = proc[p].lease, !.bound = TRUE]

LEMMA MarkedFits ==
  ASSUME ClientInv, NEW p \in Procs, IsDispatcher(p),
         NEW attn \in {"claimed", "sending", "delivery_unknown"}, NEW it,
         it = MarkedQuestion(p, attn)
  PROVE  /\ Fits(proc[p].q, it) /\ it.capable = question[proc[p].q].capable
         /\ it.state = question[proc[p].q].state /\ it.attn = attn
         /\ it.blind = question[proc[p].q].blind
         /\ Marked(p, attn) = [question EXCEPT ![proc[p].q] = it]
<1> PICK q : q = proc[p].q
  OBVIOUS
<1>1. q \in Asked /\ proc[p].lease \in Nat
  BY AtWork, WorkShape DEF IsDispatcher, DispatcherSteps, ClientInv, DispatcherWork
<1>2. q \in Questions /\ question[q] \in Question /\ Fits(q, question[q])
  BY <1>1, AskedQuestion
<1>3. /\ it \in Question /\ it.capable = question[q].capable /\ it.state = question[q].state
      /\ it.submission = question[q].submission /\ it.attn = attn /\ it.blind = question[q].blind
  BY <1>1, <1>2 DEF Question, MarkedQuestion
<1>4. Marked(p, attn) = [question EXCEPT ![q] = it]
  BY <1>1, <1>2 DEF Marked, MarkedQuestion, ClientInv, ClientTypes
<1> QED
  BY <1>2, <1>3, <1>4 DEF Fits

LEMMA DispatchClaimInv ==
  ASSUME ClientInv, NEW p \in Procs, DispatchClaim(p)
  PROVE  ClientInv'
<1>1. IsDispatcher(p) /\ UNCHANGED <<times, backend, route>>
  BY DEF DispatchClaim, IsDispatcher, DispatcherSteps
<1>2. proc[p].q \in Asked
  BY <1>1, AtWork DEF DispatchClaim
<1>3. CASE question' = Marked(p, "claimed") /\ Goes(p, "begin")
  <2> PICK it : it = MarkedQuestion(p, "claimed")
    OBVIOUS
  <2>1. Writes(proc[p].q, it) /\ Fits(proc[p].q, it) /\ it.capable = question[proc[p].q].capable
    BY <1>1, <1>3, MarkedFits DEF Writes
  <2> QED
    BY <1>1, <1>2, <1>3, <2>1, DispatchWritesAndGoes DEF DispatcherSteps
<1>4. CASE UNCHANGED question /\ Ends(p)
  BY <1>1, <1>4, QuietEnds
<1> QED
  BY <1>3, <1>4 DEF DispatchClaim

LEMMA DispatchSendingInv ==
  ASSUME ClientInv, NEW p \in Procs, DispatchSending(p)
  PROVE  ClientInv'
<1>1. IsDispatcher(p) /\ UNCHANGED <<times, backend, route>>
  BY DEF DispatchSending, IsDispatcher, DispatcherSteps
<1>2. proc[p].q \in Asked
  BY <1>1, AtWork DEF DispatchSending
<1> PICK it : it = MarkedQuestion(p, "sending")
  OBVIOUS
<1>3. Writes(proc[p].q, it) /\ Fits(proc[p].q, it) /\ it.capable = question[proc[p].q].capable
  BY <1>1, MarkedFits DEF Writes, DispatchSending
<1> QED
  BY <1>1, <1>2, <1>3, DispatchWritesAndGoes DEF DispatcherSteps, DispatchSending

LEMMA DispatchDeliveredInv ==
  ASSUME ClientInv, NEW p \in Procs, DispatchDelivered(p)
  PROVE  ClientInv'
<1> PICK q : q = proc[p].q
  OBVIOUS
<1>1. IsDispatcher(p) /\ Ends(p)
  BY DEF DispatchDelivered, IsDispatcher, DispatcherSteps
<1>2. q \in Asked
  BY <1>1, AtWork DEF DispatchDelivered
<1>3. q \in Questions /\ question[q] \in Question /\ Fits(q, question[q])
  BY <1>2, AskedQuestion
<1> PICK it : it = [question[q] EXCEPT !.attn = "delivered", !.lease = 0, !.bound = TRUE, !.state = "awaiting_reply"]
  OBVIOUS
<1>4. /\ it \in Question /\ it.state = "awaiting_reply" /\ it.submission = question[q].submission
      /\ it.capable = question[q].capable
  BY <1>3 DEF Question
<1>5. Writes(q, it)
  BY <1>3 DEF DispatchDelivered, Writes, ClientInv, ClientTypes
<1>6. Fits(q, it)
  BY <1>2, <1>3, <1>4 DEF Fits, Terminal, InApply
<1> QED
  BY <1>1, <1>2, <1>3, <1>4, <1>5, <1>6, WritesAndEnds

LEMMA WithdrawStoreInv ==
  ASSUME ClientInv, NEW p \in Procs, WithdrawStore(p)
  PROVE  ClientInv'
<1> PICK q : q = proc[p].q
  OBVIOUS
<1>1. IsDispatcher(p) /\ Ends(p)
  BY DEF WithdrawStore, IsDispatcher, DispatcherSteps
<1>2. q \in Asked
  BY <1>1, AtWork DEF WithdrawStore
<1>3. q \in Questions /\ question[q] \in Question /\ Fits(q, question[q])
  BY <1>2, AskedQuestion
<1> PICK old : old = IF question[q].state \in Terminal THEN question[q]
                     ELSE Closed(question[q], IF q \in overdue THEN "expired" ELSE "cancelled")
  OBVIOUS
<1>4. Fits(q, old) /\ (old.capable => question[q].capable)
  <2>1. CASE question[q].state \in Terminal
    BY <1>3, <2>1
  <2>2. CASE question[q].state \notin Terminal
    <3> PICK state : state = IF q \in overdue THEN "expired" ELSE "cancelled"
      OBVIOUS
    <3>1. state \in Terminal /\ old = Closed(question[q], state)
      BY <2>2 DEF Terminal
    <3> QED
      BY <1>2, <3>1, ClosedFits
  <2> QED
    BY <2>1, <2>2
<1> PICK it : it = [old EXCEPT !.attn = "cancelled", !.lease = 0]
  OBVIOUS
<1>8. old \in Question
  BY <1>4 DEF Fits
<1>5. it \in Question /\ it.state = old.state /\ it.submission = old.submission /\ it.capable = old.capable
  BY <1>8 DEF Question
<1>6. Writes(q, it)
  BY <1>3 DEF WithdrawStore, Writes, ClientInv, ClientTypes
<1>7. Fits(q, it)
  BY <1>4, <1>5 DEF Fits
<1> QED
  BY <1>1, <1>2, <1>3, <1>4, <1>5, <1>6, <1>7, WritesAndEnds

LEMMA CancelledShape ==
  ASSUME NEW it, NEW seen, Closed(it, "cancelled") \in Question
  PROVE  LET old == Closed(it, "cancelled") new == Cancelled(it, seen)
         IN  /\ new \in Question /\ new.state = old.state /\ new.submission = old.submission
             /\ new.capable = old.capable /\ (new.blind <=> seen = "none")
             /\ new.attn = IF old.attn \in {"queued", "claimed"} THEN "cancelled" ELSE old.attn
<1> PICK old : old = Closed(it, "cancelled")
  OBVIOUS
<1> PICK blind \in BOOLEAN : blind <=> (seen = "none")
  OBVIOUS
<1> PICK attn : attn = IF old.attn \in {"queued", "claimed"} THEN "cancelled" ELSE old.attn
  OBVIOUS
<1>1. attn \in {"none", "queued", "claimed", "sending", "delivery_unknown",
           "delivered", "completed", "cancelled"}
  BY DEF Question
<1> PICK new : new = [old EXCEPT !.attn = attn, !.blind = blind]
  OBVIOUS
<1>2. /\ new \in Question /\ new.state = old.state /\ new.submission = old.submission
      /\ new.capable = old.capable /\ new.blind = blind /\ new.attn = attn
  BY <1>1 DEF Question
<1>3. new = Cancelled(it, seen)
  BY DEF Cancelled
<1> QED
  BY <1>2, <1>3

LEMMA CancelStoreInv ==
  ASSUME ClientInv, NEW p \in Procs, CancelStore(p)
  PROVE  ClientInv'
<1> PICK q : q = proc[p].q
  OBVIOUS
<1>1. IsCanceller(p) /\ UNCHANGED <<times, backend, route>> /\ (Goes(p, "release") \/ Ends(p))
  BY DEF CancelStore, IsCanceller, CancellerSteps
<1>2. q \in Asked
  BY <1>1, AtWork DEF CancelStore
<1>3. q \in Questions /\ question[q] \in Question /\ Fits(q, question[q])
  BY <1>2, AskedQuestion
<1>4. CASE question' = question
  BY <1>1, <1>2, <1>4, DispatchGoes, QuietEnds DEF CancellerSteps
<1>5. CASE question' # question
  <2> PICK old : old = Closed(question[q], "cancelled")
    OBVIOUS
  <2>1. Fits(q, old) /\ ~old.capable
    BY <1>2, ClosedFits DEF Terminal
  <2> PICK it : it = Cancelled(question[q], proc[p].seen)
    OBVIOUS
  <2>2. old \in Question
    BY <2>1 DEF Fits
  <2>6. it \in Question /\ it.state = old.state /\ it.submission = old.submission /\ it.capable = old.capable
    BY <2>2, CancelledShape
  <2>7. question' = [question EXCEPT ![q] = it]
    BY <1>5 DEF CancelStore
  <2>3. Writes(q, it)
    BY <1>1, <2>7 DEF Writes
  <2>4. Fits(q, it)
    BY <2>1, <2>6 DEF Fits
  <2> QED
    BY <1>1, <1>2, <1>3, <2>1, <2>6, <2>3, <2>4, WritesAndEnds, DispatchWritesAndGoes DEF CancellerSteps
<1> QED
  BY <1>4, <1>5

LEMMA ExpireDueInv ==
  ASSUME ClientInv, ExpireDue
  PROVE  ClientInv'
<1>1. UNCHANGED <<overdue, outdated, grants, applied, intent, conv, proc>>
  BY DEF ExpireDue, times, backend, route
<1>2. ASSUME NEW q \in Questions
      PROVE  \/ question'[q] = question[q]
             \/ /\ q \in Asked /\ question'[q] \in Question
                /\ Fits(q, question'[q]) /\ ~question'[q].capable
                /\ question'[q].submission = question[q].submission
  <2>1. question'[q] = IF q \in Asked \cap overdue /\ question[q].state \in {"authorizing", "staged", "awaiting_reply"}
         THEN Closed(question[q], "expired") ELSE question[q]
    BY DEF ExpireDue
  <2>2. ASSUME q \in Asked
        PROVE  LET it == Closed(question[q], "expired") IN
               Fits(q, it) /\ ~it.capable /\ it.submission = question[q].submission
    BY <2>2, ClosedFits DEF Terminal
  <2> QED
    BY <2>1, <2>2 DEF Fits
<1>3. question' \in [Questions -> Question \cup {Nothing}]
  <2>1. \A q \in Questions : question'[q] \in Question \cup {Nothing}
    BY <1>2 DEF ClientInv, ClientTypes
  <2>2. question' = [q \in Questions |-> question'[q]]
    BY DEF ExpireDue
  <2> QED
    BY <2>1, <2>2
<1>4. Asked' = Asked
  BY <1>2, EnrichmentClientAssumption DEF Asked
<1>5. ClientTypes'
  BY <1>1, <1>3 DEF ClientInv, ClientTypes, IsStager, IsDispatcher
<1>6. ASSUME NEW q \in Questions PROVE QuestionOK(q)'
  BY <1>1, <1>2, <1>4 DEF ClientInv, QuestionOK, Fits, Shown
<1>7. \A o \in Procs : Steady(o)
  BY <1>1, <1>2, <1>4 DEF Steady, Shown, Refused
<1> QED
  BY <1>1, <1>5, <1>6, <1>7, WorldStep

-----------------------------------------------------------------------------
(* The broker and the bridge. An intent that is cancelled stays so, one     *)
(* that was delivered at most becomes completed, and what was shown was     *)
(* shown.                                                                   *)
Onward(q) ==
  /\ intent[q].state = "cancelled" => intent'[q].state = "cancelled"
  /\ intent[q].state \in {"delivered", "completed"} => intent'[q].state \in {"delivered", "completed"}
  /\ Shown(q) => Shown(q)'

RouteStep(q) ==
  /\ intent' \in [Questions -> Intents] /\ conv' \in [Questions -> Convs]
  /\ \A o \in Questions : o # q => intent'[o] = intent[o] /\ conv'[o] = conv[o]
  /\ Onward(q)

LEMMA IntentMoves ==
  ASSUME ClientTypes, NEW q \in Questions,
         NEW s \in {"none", "queued", "claimed", "sending", "delivered", "completed", "cancelled"},
         IntentBecomes(q, s),
         intent[q].state = "cancelled" => s = "cancelled",
         intent[q].state \in {"delivered", "completed"} => s \in {"delivered", "completed"}
  PROVE  RouteStep(q) /\ intent'[q].state = s
<1>1. intent \in [Questions -> Intents] /\ conv' = conv /\ conv \in [Questions -> Convs]
  BY DEF ClientTypes, IntentBecomes
<1>2. [intent[q] EXCEPT !.state = s] \in Intents
  BY <1>1 DEF Intents
<1>3. intent' = [intent EXCEPT ![q] = [intent[q] EXCEPT !.state = s]]
  BY <1>1 DEF IntentBecomes
<1>4. intent' \in [Questions -> Intents] /\ intent'[q] = [intent[q] EXCEPT !.state = s]
      /\ \A o \in Questions : o # q => intent'[o] = intent[o]
  BY <1>1, <1>2, <1>3
<1>5. intent'[q].state = s
  BY <1>1, <1>4 DEF Intents
<1> QED
  BY <1>1, <1>4, <1>5 DEF RouteStep, Onward, Shown

LEMMA ConvMoves ==
  ASSUME ClientTypes, NEW q \in Questions, NEW s \in Convs, ConvBecomes(q, s),
         Shown(q) => s \notin {"none", "prepared"}
  PROVE  RouteStep(q) /\ intent' = intent /\ conv'[q] = s
<1>1. intent \in [Questions -> Intents] /\ intent' = intent /\ conv \in [Questions -> Convs]
  BY DEF ClientTypes, ConvBecomes
<1>2. conv' \in [Questions -> Convs] /\ conv'[q] = s /\ \A o \in Questions : o # q => conv'[o] = conv[o]
  BY <1>1 DEF ConvBecomes
<1> QED
  BY <1>1, <1>2 DEF RouteStep, Onward, Shown

LEMMA RouteRests ==
  ASSUME ClientTypes, NEW q \in Questions, UNCHANGED route
  PROVE  RouteStep(q)
BY DEF route, RouteStep, ClientTypes, Onward, Shown

(* The calls, as far as the client can tell them apart.                     *)
LEMMA BrokerCalls ==
  ASSUME ClientTypes, NEW q \in Questions, NEW lease, NEW answered \in BOOLEAN,
         \/ Submit(q, answered) \/ BeginDelivery(q, lease, answered) \/ Release(q, lease, answered)
         \/ Complete(q, lease, answered) \/ CancelIntent(q, lease, answered) \/ ReleaseVisible(q, answered)
  PROVE  RouteStep(q)
<1>1. intent[q] \in Intents
  BY DEF ClientTypes
<1>2. ASSUME UNCHANGED route PROVE RouteStep(q)
  BY <1>2, RouteRests
<1>3. ASSUME NEW s \in {"none", "queued", "claimed", "sending", "delivered", "completed", "cancelled"},
             IntentBecomes(q, s),
             intent[q].state = "cancelled" => s = "cancelled",
             intent[q].state \in {"delivered", "completed"} => s \in {"delivered", "completed"}
      PROVE  RouteStep(q)
  BY <1>3, IntentMoves
<1>4. CASE Submit(q, answered)
  <2> PICK s : s = IF intent[q].state = "none" THEN "queued" ELSE intent[q].state
    OBVIOUS
  <2>1. s \in {"none", "queued", "claimed", "sending", "delivered", "completed", "cancelled"}
        /\ (intent[q].state = "cancelled" => s = "cancelled")
        /\ (intent[q].state \in {"delivered", "completed"} => s \in {"delivered", "completed"})
    BY <1>1 DEF Intents
  <2>2. IntentBecomes(q, s) \/ UNCHANGED route
    BY <1>4 DEF Submit, Call
  <2> QED
    BY <1>2, <1>3, <2>1, <2>2
<1>5. CASE BeginDelivery(q, lease, answered)
  BY <1>2, <1>3, <1>5 DEF BeginDelivery, Call
<1>6. CASE Release(q, lease, answered)
  BY <1>2, <1>3, <1>6 DEF Release, Call
<1>7. CASE Complete(q, lease, answered)
  <2> PICK s : s = IF intent[q].state = "sending" THEN "delivered" ELSE intent[q].state
    OBVIOUS
  <2>1. s \in {"none", "queued", "claimed", "sending", "delivered", "completed", "cancelled"}
        /\ (intent[q].state = "cancelled" => s = "cancelled")
        /\ (intent[q].state \in {"delivered", "completed"} => s \in {"delivered", "completed"})
    BY <1>1 DEF Intents
  <2>2. IntentBecomes(q, s) \/ UNCHANGED route
    BY <1>7 DEF Complete, Call
  <2> QED
    BY <1>2, <1>3, <2>1, <2>2
<1>8. CASE CancelIntent(q, lease, answered)
  BY <1>2, <1>3, <1>8 DEF CancelIntent, Call
<1>9. CASE ReleaseVisible(q, answered)
  BY <1>2, <1>3, <1>9 DEF ReleaseVisible, Call
<1> QED
  BY <1>4, <1>5, <1>6, <1>7, <1>8, <1>9

LEMMA BridgeCalls ==
  ASSUME ClientTypes, NEW q \in Questions, NEW answered \in BOOLEAN,
         BridgeStage(q, answered) \/ BridgeDeliver(q, answered) \/ BridgeCancel(q, answered)
  PROVE  RouteStep(q) /\ intent' = intent
<1>1. conv[q] \in Convs
  BY DEF ClientTypes
<1>2. ASSUME UNCHANGED route PROVE RouteStep(q) /\ intent' = intent
  BY <1>2, RouteRests DEF route
<1>3. ASSUME NEW s, ConvBecomes(q, s), s \in Convs, Shown(q) => s \notin {"none", "prepared"}
      PROVE  RouteStep(q) /\ intent' = intent
  BY <1>3, ConvMoves
<1>4. CASE BridgeStage(q, answered)
  <2> PICK s : s = IF conv[q] = "none" THEN "prepared" ELSE conv[q]
    OBVIOUS
  <2>1. s \in Convs /\ (Shown(q) => s \notin {"none", "prepared"})
    BY <1>1 DEF Convs, Shown
  <2>2. ConvBecomes(q, s) \/ UNCHANGED route
    BY <1>4 DEF BridgeStage, Call
  <2> QED
    BY <1>2, <1>3, <2>1, <2>2
<1>5. CASE BridgeDeliver(q, answered)
  <2> PICK s : s = IF conv[q] = "prepared" THEN "awaiting_reply" ELSE conv[q]
    OBVIOUS
  <2>1. s \in Convs /\ (Shown(q) => s \notin {"none", "prepared"})
    BY <1>1 DEF Convs, Shown
  <2>2. ConvBecomes(q, s) \/ UNCHANGED route
    BY <1>5 DEF BridgeDeliver, Call
  <2> QED
    BY <1>2, <1>3, <2>1, <2>2
<1>6. CASE BridgeCancel(q, answered)
  <2> PICK s : s = IF conv[q] = "awaiting_reply" THEN "cancelled" ELSE conv[q]
    OBVIOUS
  <2>1. s \in Convs /\ (Shown(q) => s \notin {"none", "prepared"})
    BY <1>1 DEF Convs, Shown
  <2>2. ConvBecomes(q, s) \/ UNCHANGED route
    BY <1>6 DEF BridgeCancel, Call
  <2> QED
    BY <1>2, <1>3, <2>1, <2>2
<1> QED
  BY <1>4, <1>5, <1>6

(* What the broker, the bridge and the agent do by themselves.              *)
LEMMA RouteMovesOn ==
  ASSUME ClientInv, RouteMoves
  PROVE  /\ \E q \in Asked :
              /\ RouteStep(q)
              /\ \/ intent'[q].state = intent[q].state
                 \/ /\ intent[q].state \in {"queued", "claimed"}
                    /\ intent'[q].state \in {"queued", "claimed"}
         /\ UNCHANGED <<question, times, backend, proc>>
<1>1. PICK q \in Asked :
         \/ ClaimNext(q) \/ LeaseLapses(q)
         \/ BridgeEnds(q, "completed")
         \/ BridgeEnds(q, "expired")
  BY DEF RouteMoves
<1>2. q \in Questions /\ ClientTypes
  BY AskedQuestion DEF ClientInv
<1>3. CASE ClaimNext(q)
  <2> PICK n : n = intent[q].lease
    OBVIOUS
  <2> PICK new : new = [state |-> "claimed", lease |-> n + 1]
    OBVIOUS
  <2>1. intent \in [Questions -> Intents] /\ n \in Nat
    BY <1>2 DEF ClientTypes, Intents
  <2>2. new \in Intents /\ new.state = "claimed"
    BY <2>1 DEF Intents
  <2>3. intent' = [intent EXCEPT ![q] = new] /\ conv' = conv /\ intent[q].state = "queued"
    BY <1>2, <1>3, <2>1 DEF ClaimNext
  <2>4. intent' \in [Questions -> Intents] /\ intent'[q] = new
        /\ \A o \in Questions : o # q => intent'[o] = intent[o]
    BY <1>2, <2>1, <2>2, <2>3
  <2>5. RouteStep(q)
    BY <1>2, <2>2, <2>3, <2>4 DEF RouteStep, Onward, Shown, ClientTypes
  <2> QED
    BY <2>2, <2>3, <2>4, <2>5 DEF RouteMoves
<1>4. CASE LeaseLapses(q)
  <2>1. RouteStep(q) /\ intent'[q].state = "queued" /\ intent[q].state = "claimed"
    BY <1>2, <1>4, IntentMoves DEF LeaseLapses
  <2> QED
    BY <2>1 DEF RouteMoves
<1>5. ASSUME NEW s \in {"completed", "expired"}, BridgeEnds(q, s) PROVE RouteStep(q) /\ intent' = intent
  BY <1>2, <1>5, ConvMoves DEF BridgeEnds, Convs
<1>6. CASE BridgeEnds(q, "completed") \/ BridgeEnds(q, "expired")
  <2>1. RouteStep(q) /\ intent'[q].state = intent[q].state
    BY <1>5, <1>6
  <2> QED
    BY <2>1 DEF RouteMoves
<1> QED
  BY <1>1, <1>3, <1>4, <1>6

-----------------------------------------------------------------------------
(* A call of the broker or the bridge, and what the file records of it: the *)
(* delivery, never the question's authority.                                *)
SameButDelivery(it, old) ==
  it \in Question /\ it.state = old.state /\ it.capable = old.capable /\ it.submission = old.submission

LEMMA CallSteady ==
  ASSUME ClientInv, NEW q \in Asked, RouteStep(q), UNCHANGED <<times, backend>>,
         NEW it, SameButDelivery(it, question[q]), question' = [question EXCEPT ![q] = it]
  PROVE  /\ question' \in [Questions -> Question \cup {Nothing}] /\ question'[q] = it
         /\ Asked' = Asked
         /\ \A r \in Questions : QuestionOK(r)'
         /\ \A o \in Procs : Steady(o)
<1>1. ClientTypes /\ q \in Questions /\ it \in Question
  BY AskedQuestion DEF ClientInv, SameButDelivery
<1>2. /\ question' \in [Questions -> Question \cup {Nothing}]
      /\ question'[q] = it /\ q \in Asked'
      /\ \A r \in Questions : r # q => question'[r] = question[r]
      /\ Asked' = Asked
  BY <1>1, OneQuestion
<1>3. UNCHANGED <<overdue, outdated, grants, applied>>
  BY DEF times, backend
<1>4. \A r \in Questions : Shown(r) => Shown(r)'
  BY <1>1 DEF RouteStep, Onward, Shown
<1>5. ASSUME NEW r \in Questions PROVE QuestionOK(r)'
  <2>1. QuestionOK(r)
    BY DEF ClientInv
  <2>2. CASE r # q
    <3>1. question'[r] = question[r] /\ (r \in Asked' <=> r \in Asked) /\ intent'[r] = intent[r]
      BY <1>2, <2>2 DEF RouteStep
    <3> QED
      BY <1>3, <1>4, <2>1, <3>1 DEF QuestionOK
  <2>3. CASE r = q
    <3>1. r \in Asked' /\ question'[r] = it /\ r \in Asked
      BY <1>2, <2>3
    <3> QED
      BY <1>3, <1>4, <2>1, <2>3, <3>1 DEF QuestionOK, SameButDelivery
  <2> QED
    BY <2>2, <2>3
<1>6. ASSUME NEW o \in Procs PROVE Steady(o)
  <2>1. ASSUME NEW r \in Questions
        PROVE  /\ grants[r] # "none" => grants'[r] # "none"
               /\ Refused(r) => Refused(r)'
               /\ applied[r] \subseteq applied'[r]
    BY <1>3 DEF Refused
  <2>2. ASSUME NEW r \in Questions
        PROVE  /\ r \in Asked /\ question[r].submission # Nothing
                    => question'[r].submission = question[r].submission
               /\ r \in Asked' /\ question'[r].capable
                    => (r \in Asked /\ question[r].capable) \/ ~IsStager(o)
    BY <1>2 DEF SameButDelivery
  <2> QED
    BY <1>2, <1>4, <2>1, <2>2 DEF Steady
<1> QED
  BY <1>2, <1>5, <1>6

LEMMA CallTypes ==
  ASSUME ClientInv, NEW p \in Procs, UNCHANGED <<times, backend>>, NEW q \in Asked, RouteStep(q),
         question' \in [Questions -> Question \cup {Nothing}],
         proc' \in [Procs -> Work], \A o \in Procs : o # p => proc'[o] = proc[o],
         proc'[p].pc \in StagerSteps => p \in Stagers,
         proc'[p].pc \in DispatcherSteps => p \in Dispatchers
  PROVE  ClientTypes'
<1>1. \A o \in Procs : (IsStager(o)' => o \in Stagers) /\ (IsDispatcher(o)' => o \in Dispatchers)
  BY DEF ClientInv, ClientTypes, IsStager, IsDispatcher
<1> QED
  BY <1>1 DEF ClientInv, ClientTypes, Work, times, backend, RouteStep

LEMMA CallAndEnds ==
  ASSUME ClientInv, NEW p \in Procs, NEW q \in Asked, RouteStep(q), UNCHANGED <<times, backend>>,
         NEW it, SameButDelivery(it, question[q]), question' = [question EXCEPT ![q] = it], Ends(p)
  PROVE  ClientInv'
<1>1. ClientTypes
  BY DEF ClientInv
<1>2. ClientTypes'
  BY <1>1, CallSteady, CallTypes, Resting
<1>3. \A o \in Procs : o # p => proc'[o] = proc[o] /\ Steady(o)
  BY <1>1, CallSteady, Resting
<1>4. CommandOK(p)' /\ ~IsStager(p)'
  BY <1>1, Resting
<1> QED
  BY <1>2, <1>3, <1>4, CallSteady, CommandStep

LEMMA CallAndGoes ==
  ASSUME ClientInv, NEW p \in Procs, NEW pc \in DispatcherSteps \cup CancellerSteps, Goes(p, pc),
         \/ IsDispatcher(p) /\ pc \in DispatcherSteps
         \/ IsCanceller(p) /\ pc \in CancellerSteps,
         NEW q \in Asked, RouteStep(q), UNCHANGED <<question, times, backend>>
  PROVE  ClientInv'
<1> PICK it : it = question[q]
  OBVIOUS
<1>1. Moves(p, pc)
  BY DispatcherGoes, CancellerGoes DEF ClientInv
<1>2. SameButDelivery(it, question[q]) /\ question' = [question EXCEPT ![q] = it]
  BY AskedQuestion DEF SameButDelivery, ClientInv, ClientTypes
<1>3. Asked \subseteq Asked'
  BY <1>2, CallSteady
<1>4. CommandOK(p)' /\ ~IsStager(p)'
  BY <1>1, <1>3, DispatcherOK
<1>5. IsDispatcher(p)' => IsDispatcher(p)
  BY <1>1 DEF Moves, IsDispatcher, DispatcherSteps, CancellerSteps
<1>6. proc' \in [Procs -> Work] /\ \A o \in Procs : o # p => proc'[o] = proc[o]
  BY <1>1 DEF Moves
<1>7. proc'[p].pc \in DispatcherSteps => p \in Dispatchers
  BY <1>5 DEF ClientInv, ClientTypes, IsDispatcher
<1>8. ClientTypes'
  BY <1>2, <1>4, <1>6, <1>7, CallSteady, CallTypes DEF IsStager
<1> QED
  BY <1>2, <1>4, <1>6, <1>8, CallSteady, CommandStep

LEMMA CallAndStays ==
  ASSUME ClientInv, NEW q \in Asked, RouteStep(q), UNCHANGED <<times, backend, proc>>,
         NEW it, SameButDelivery(it, question[q]), question' = [question EXCEPT ![q] = it]
  PROVE  ClientInv'
<1>1. ClientTypes'
  BY CallSteady DEF ClientInv, ClientTypes, times, backend, RouteStep, IsStager, IsDispatcher
<1> QED
  BY <1>1, CallSteady, WorldStep

-----------------------------------------------------------------------------
(* A call of a dispatcher or canceller after which it goes on or ends, and  *)
(* the file is as it was.                                                   *)
LEMMA PlainCall ==
  ASSUME ClientInv, NEW p \in Procs, NEW pc \in DispatcherSteps \cup CancellerSteps,
         \/ IsDispatcher(p) /\ pc \in DispatcherSteps
         \/ IsCanceller(p) /\ pc \in CancellerSteps,
         Goes(p, pc) \/ Ends(p),
         RouteStep(proc[p].q), UNCHANGED <<question, times, backend>>
  PROVE  ClientInv'
<1> PICK q : q = proc[p].q
  OBVIOUS
<1>1. q \in Asked
  BY AtWork DEF IsDispatcher, IsCanceller, DispatcherSteps, CancellerSteps
<1> PICK it : it = question[q]
  OBVIOUS
<1>2. SameButDelivery(it, question[q]) /\ question' = [question EXCEPT ![q] = it]
  BY <1>1, AskedQuestion DEF SameButDelivery, ClientInv, ClientTypes
<1> QED
  BY <1>1, <1>2, CallAndGoes, CallAndEnds

LEMMA PlainCallsInv ==
  ASSUME ClientInv, NEW p \in Procs, NEW answered \in BOOLEAN,
         \/ WithdrawIntent(p, answered) \/ DispatchBridge(p, answered) \/ DispatchRelease(p, answered)
         \/ DispatchBegin(p, answered) \/ DispatchComplete(p, answered)
         \/ CancelBroker(p, answered) \/ CancelBridge(p, answered)
  PROVE  ClientInv'
<1> PICK q : q = proc[p].q
  OBVIOUS
<1>1. /\ IsDispatcher(p) \/ IsCanceller(p)
      /\ UNCHANGED <<question, times, backend>>
  BY DEF WithdrawIntent, DispatchBridge, DispatchRelease, DispatchBegin, DispatchComplete,
    CancelBroker, CancelBridge, IsDispatcher, DispatcherSteps, IsCanceller, CancellerSteps
<1>2. q \in Questions /\ ClientTypes
  BY <1>1, AtWork DEF ClientInv
<1>3. CASE WithdrawIntent(p, answered)
  <2>1. RouteStep(q)
    BY <1>2, <1>3, BrokerCalls DEF WithdrawIntent
  <2>2. IsDispatcher(p) /\ (Goes(p, "withdraw") \/ Ends(p))
    BY <1>3 DEF WithdrawIntent, IsDispatcher, DispatcherSteps
  <2> QED
    BY <1>1, <2>1, <2>2, PlainCall DEF DispatcherSteps
<1>4. CASE DispatchBridge(p, answered)
  <2>1. RouteStep(q)
    BY <1>2, <1>4, BridgeCalls DEF DispatchBridge
  <2>2. IsDispatcher(p)
    BY <1>4 DEF DispatchBridge, IsDispatcher, DispatcherSteps
  <2>3. proc[p].after \in DispatcherSteps
    BY <1>2, <2>2, WorkShape DEF DispatcherWork, DispatcherSteps
  <2>4. Goes(p, proc[p].after) \/ Goes(p, "giveback")
    BY <1>4 DEF DispatchBridge
  <2> QED
    BY <1>1, <2>1, <2>2, <2>3, <2>4, PlainCall DEF DispatcherSteps
<1>5. CASE DispatchRelease(p, answered)
  <2>1. RouteStep(q)
    BY <1>2, <1>5, BrokerCalls DEF DispatchRelease
  <2>2. IsDispatcher(p) /\ Ends(p)
    BY <1>5 DEF DispatchRelease, IsDispatcher, DispatcherSteps
  <2> QED
    BY <1>1, <2>1, <2>2, PlainCall DEF DispatcherSteps
<1>6. CASE DispatchBegin(p, answered)
  <2>1. RouteStep(q)
    BY <1>2, <1>6, BrokerCalls DEF DispatchBegin
  <2>2. IsDispatcher(p) /\ (Goes(p, "sending") \/ Ends(p))
    BY <1>6 DEF DispatchBegin, IsDispatcher, DispatcherSteps
  <2> QED
    BY <1>1, <2>1, <2>2, PlainCall DEF DispatcherSteps
<1>7. CASE DispatchComplete(p, answered)
  <2>1. RouteStep(q)
    BY <1>2, <1>7, BrokerCalls DEF DispatchComplete
  <2>2. IsDispatcher(p) /\ (Goes(p, "delivered") \/ Ends(p))
    BY <1>7 DEF DispatchComplete, IsDispatcher, DispatcherSteps
  <2> QED
    BY <1>1, <2>1, <2>2, PlainCall DEF DispatcherSteps
<1>8. CASE CancelBroker(p, answered)
  <2>1. RouteStep(q)
    BY <1>2, <1>8, BrokerCalls DEF CancelBroker
  <2>2. IsCanceller(p) /\ (Goes(p, "close") \/ Ends(p))
    BY <1>8 DEF CancelBroker, IsCanceller, CancellerSteps
  <2> QED
    BY <1>1, <2>1, <2>2, PlainCall DEF CancellerSteps
<1>9. CASE CancelBridge(p, answered)
  <2>1. RouteStep(q)
    BY <1>2, <1>9, BridgeCalls DEF CancelBridge
  <2>2. IsCanceller(p) /\ (Goes(p, "close") \/ Ends(p))
    BY <1>9 DEF CancelBridge, IsCanceller, CancellerSteps
  <2> QED
    BY <1>1, <2>1, <2>2, PlainCall DEF CancellerSteps
<1> QED
  BY <1>3, <1>4, <1>5, <1>6, <1>7, <1>8, <1>9

-----------------------------------------------------------------------------
LEMMA DispatchDeliverInv ==
  ASSUME ClientInv, NEW p \in Procs, NEW answered \in BOOLEAN, DispatchDeliver(p, answered)
  PROVE  ClientInv'
<1> PICK q : q = proc[p].q
  OBVIOUS
<1>1. IsDispatcher(p) /\ UNCHANGED <<times, backend>>
  BY DEF DispatchDeliver, IsDispatcher, DispatcherSteps
<1>2. q \in Asked /\ q \in Questions /\ ClientTypes
  BY <1>1, AtWork DEF ClientInv, DispatchDeliver
<1>3. RouteStep(q)
  BY <1>2, BridgeCalls DEF DispatchDeliver
<1>4. CASE Goes(p, "context") /\ UNCHANGED question
  BY <1>1, <1>3, <1>4, PlainCall DEF DispatcherSteps
<1>5. CASE Ends(p) /\ question' = Marked(p, "delivery_unknown")
  <2> PICK it : it = MarkedQuestion(p, "delivery_unknown")
    OBVIOUS
  <2>1. Fits(q, it) /\ it.capable = question[q].capable /\ it.state = question[q].state
        /\ question' = [question EXCEPT ![q] = it]
    BY <1>1, <1>5, MarkedFits
  <2>2. it.submission = question[q].submission
    BY <1>2, AskedQuestion DEF MarkedQuestion, Question
  <2>3. SameButDelivery(it, question[q])
    BY <2>1, <2>2 DEF SameButDelivery, Fits
  <2> QED
    BY <1>1, <1>2, <1>3, <1>5, <2>1, <2>3, CallAndEnds
<1> QED
  BY <1>4, <1>5 DEF DispatchDeliver

(* What a call of the broker reports becomes the recorded delivery.         *)
WithAttn(q, attn) == [question[q] EXCEPT !.attn = attn]
AttnSet(q, attn) == [question EXCEPT ![q].attn = attn]

LEMMA AttnChanges ==
  ASSUME ClientInv, NEW q \in Asked,
         NEW attn \in {"none", "queued", "claimed", "sending", "delivery_unknown",
                       "delivered", "completed", "cancelled"},
         NEW it, it = WithAttn(q, attn)
  PROVE  /\ SameButDelivery(it, question[q]) /\ it.attn = attn /\ it.blind = question[q].blind
         /\ AttnSet(q, attn) = [question EXCEPT ![q] = it]
BY AskedQuestion DEF SameButDelivery, Question, ClientInv, ClientTypes, WithAttn, AttnSet

LEMMA CompleteAttentionInv ==
  ASSUME ClientInv, NEW q \in Questions, NEW answered \in BOOLEAN, CompleteAttention(q, answered)
  PROVE  ClientInv'
<1>1. q \in Asked /\ UNCHANGED <<times, backend, proc>> /\ ClientTypes
  BY DEF CompleteAttention, ClientInv
<1>2. RouteStep(q)
  BY <1>1, BrokerCalls DEF CompleteAttention
<1> PICK attn : attn = IF answered THEN "completed" ELSE question[q].attn
  OBVIOUS
<1>3. attn \in {"none", "queued", "claimed", "sending", "delivery_unknown", "delivered", "completed", "cancelled"}
  BY <1>1, AskedQuestion DEF Question
<1> PICK it : it = WithAttn(q, attn)
  OBVIOUS
<1>4. SameButDelivery(it, question[q]) /\ AttnSet(q, attn) = [question EXCEPT ![q] = it]
  BY <1>1, <1>3, AttnChanges
<1>5. question' = [question EXCEPT ![q] = it]
  <2>1. CASE answered
    BY <1>4, <2>1 DEF CompleteAttention, AttnSet
  <2>2. CASE ~answered
    <3>1. it = question[q]
      BY <1>1, <2>2, AskedQuestion DEF Question, WithAttn
    <3> QED
      BY <1>1, <2>2, <3>1 DEF CompleteAttention, ClientTypes
  <2> QED
    BY <2>1, <2>2
<1> QED
  BY <1>1, <1>2, <1>4, <1>5, CallAndStays

LEMMA CancelReleaseInv ==
  ASSUME ClientInv, NEW p \in Procs, NEW answered \in BOOLEAN, CancelRelease(p, answered)
  PROVE  ClientInv'
<1> PICK q : q = proc[p].q
  OBVIOUS
<1>1. IsCanceller(p) /\ UNCHANGED <<times, backend>> /\ Ends(p) /\ ClientTypes
  BY DEF CancelRelease, ClientInv, IsCanceller, CancellerSteps
<1>2. q \in Asked /\ q \in Questions
  BY <1>1, AtWork DEF CancelRelease
<1>3. RouteStep(q)
  BY <1>1, <1>2, BrokerCalls DEF CancelRelease
<1> PICK attn : attn = IF answered THEN "completed" ELSE question[q].attn
  OBVIOUS
<1>4. attn \in {"none", "queued", "claimed", "sending", "delivery_unknown", "delivered", "completed", "cancelled"}
  BY <1>2, AskedQuestion DEF Question
<1> PICK it : it = WithAttn(q, attn)
  OBVIOUS
<1>5. SameButDelivery(it, question[q]) /\ AttnSet(q, attn) = [question EXCEPT ![q] = it]
  BY <1>2, <1>4, AttnChanges
<1>6. question' = [question EXCEPT ![q] = it]
  <2>1. CASE answered
    BY <1>5, <2>1 DEF CancelRelease, AttnSet
  <2>2. CASE ~answered
    <3>1. it = question[q]
      BY <1>2, <2>2, AskedQuestion DEF Question, WithAttn
    <3> QED
      BY <1>1, <1>2, <2>2, <3>1 DEF CancelRelease, ClientTypes
  <2> QED
    BY <2>1, <2>2
<1> QED
  BY <1>1, <1>2, <1>3, <1>5, <1>6, CallAndEnds

(* A question whose delivery was never asked for is not yet at the broker's *)
(* end of it.                                                               *)
LEMMA SubmitAttentionInv ==
  ASSUME ClientInv, NEW q \in Questions, NEW answered \in BOOLEAN, SubmitAttention(q, answered)
  PROVE  ClientInv'
<1>1. q \in Asked /\ UNCHANGED <<times, backend, proc>> /\ ClientTypes
  BY DEF SubmitAttention, ClientInv
<1>2. RouteStep(q)
  BY <1>1, BrokerCalls DEF SubmitAttention
<1>a. PICK attn : attn = IF answered THEN intent'[q].state ELSE question[q].attn
  OBVIOUS
<1>3. attn \in {"none", "queued", "claimed", "sending", "delivery_unknown", "delivered", "completed", "cancelled"}
  <2>1. intent'[q] \in Intents /\ question[q] \in Question
    BY <1>1, <1>2, AskedQuestion DEF RouteStep
  <2>2. intent'[q].state \in {"none", "queued", "claimed", "sending", "delivered", "completed", "cancelled"}
    BY <2>1 DEF Intents
  <2> QED
    BY <1>a, <2>1, <2>2 DEF Question
<1>b. PICK it : it = WithAttn(q, attn)
  OBVIOUS
<1>4. SameButDelivery(it, question[q]) /\ AttnSet(q, attn) = [question EXCEPT ![q] = it]
  <2>1. q \in Asked
    BY <1>1
  <2>2. SameButDelivery(it, question[q])
    BY <2>1, <1>3, <1>b, AttnChanges
  <2>3. AttnSet(q, attn) = [question EXCEPT ![q] = it]
    BY <2>1, <1>3, <1>b, AttnChanges
  <2> QED
    BY <2>2, <2>3
<1>5. question' = [question EXCEPT ![q] = it]
  <2>1. CASE answered
    BY <1>4, <1>a, <2>1 DEF SubmitAttention, AttnSet
  <2>2. CASE ~answered
    <3>1. it = question[q]
      BY <1>1, <1>a, <1>b, <2>2, AskedQuestion DEF Question, WithAttn
    <3> QED
      BY <1>1, <2>2, <3>1 DEF SubmitAttention, ClientTypes
  <2> QED
    BY <2>1, <2>2
<1> QED
  BY <1>1, <1>2, <1>4, <1>5, CallAndStays

LEMMA RouteMovesInv ==
  ASSUME ClientInv, RouteMoves
  PROVE  ClientInv'
<1>1. PICK q \in Asked : RouteStep(q)
  BY RouteMovesOn
<1>2. UNCHANGED <<question, times, backend, proc>>
  BY RouteMovesOn
<1> PICK it : it = question[q]
  OBVIOUS
<1>3. SameButDelivery(it, question[q]) /\ question' = [question EXCEPT ![q] = it]
  BY <1>2, AskedQuestion DEF SameButDelivery, ClientInv, ClientTypes
<1> QED
  BY <1>1, <1>2, <1>3, CallAndStays

-----------------------------------------------------------------------------
(* A dispatcher or a canceller begins.                                      *)
LEMMA StartsInv ==
  ASSUME ClientInv, NEW p \in Procs, NEW w \in DispatcherWork \cup CancellerWork,
         w \in DispatcherWork => p \in Dispatchers,
         w.q \in Asked, Becomes(p, w), UNCHANGED <<question, times, backend, route>>
  PROVE  ClientInv'
<1>1. /\ w \in Work /\ w.pc \notin StagerSteps \cup ApplierSteps \cup {"write", "store"}
      /\ w.pc \in DispatcherSteps => w \in DispatcherWork
  BY DEF Work, DispatcherWork, CancellerWork, DispatcherSteps, CancellerSteps, StagerSteps, ApplierSteps
<1>2. proc' \in [Procs -> Work] /\ proc'[p] = w /\ \A o \in Procs : o # p => proc'[o] = proc[o]
  BY <1>1, CommandBecomes DEF ClientInv
<1>3. Asked' = Asked
  BY DEF Asked
<1>4. CommandOK(p)' /\ ~IsStager(p)'
  BY <1>1, <1>2, <1>3 DEF CommandOK, IsStager, IsApplier
<1>5. IsDispatcher(p)' => p \in Dispatchers
  BY <1>1, <1>2 DEF IsDispatcher
<1> QED
  BY <1>2, <1>4, <1>5, QuietStep

LEMMA DispatchStartInv ==
  ASSUME ClientInv, NEW p \in Dispatchers, NEW q \in Questions, NEW lease \in 1 .. MaxLeases,
         DispatchStart(p, q, lease)
  PROVE  ClientInv'
<1>1. p \in Procs /\ q \in Asked /\ lease \in Nat
  BY RouteAssumption DEF Procs, DispatchStart
<1> PICK after : after = AfterBridge(question[q])
  OBVIOUS
<1> PICK pc : pc = IF question[q].state # "staged" \/ q \in overdue THEN "cancel"
                   ELSE IF question[q].bound THEN after ELSE "bridge"
  OBVIOUS
<1>2. after \in {"claim", "begin", "deliver", "cancel"}
  BY DEF AfterBridge
<1>3. pc \in DispatcherSteps
  BY <1>2 DEF DispatcherSteps
<1> PICK w : w = [pc |-> pc, q |-> q, lease |-> lease, after |-> after]
  OBVIOUS
<1>4. w \in DispatcherWork /\ w.q = q
  BY <1>1, <1>2, <1>3 DEF DispatcherWork
<1>5. Becomes(p, w) /\ UNCHANGED <<question, times, backend, route>>
  BY DEF DispatchStart
<1> QED
  BY <1>1, <1>4, <1>5, StartsInv

LEMMA RecoverWithdrawsInv ==
  ASSUME ClientInv, NEW p \in Dispatchers, NEW q \in Questions, RecoverWithdraws(p, q)
  PROVE  ClientInv'
<1>1. p \in Procs /\ q \in Asked
  BY DEF Procs, RecoverWithdraws
<1>2. question[q].lease \in Nat
  BY <1>1, AskedQuestion DEF Question
<1> PICK w : w = [pc |-> "cancel", q |-> q, lease |-> question[q].lease, after |-> "cancel"]
  OBVIOUS
<1>3. w \in DispatcherWork /\ w.q = q
  BY <1>1, <1>2 DEF DispatcherWork, DispatcherSteps
<1>4. Becomes(p, w) /\ UNCHANGED <<question, times, backend, route>>
  BY DEF RecoverWithdraws
<1> QED
  BY <1>1, <1>3, <1>4, StartsInv

LEMMA CancelStartInv ==
  ASSUME ClientInv, NEW p \in Cancellers, NEW q \in Questions, CancelStart(p, q)
  PROVE  ClientInv'
<1>1. p \in Procs /\ q \in Asked
  BY DEF Procs, CancelStart
<1>2. question[q].lease \in Nat /\ question[q].attn \in {"none", "queued", "claimed", "delivered"}
  BY <1>1, AskedQuestion DEF Question, CancelStart
<1> PICK pc : pc = IF question[q].state = "cancelled" THEN "release"
                   ELSE CASE question[q].attn = "none" -> "close" [] question[q].attn = "delivered" -> "unbridge"
                          [] OTHER -> "broker"
  OBVIOUS
<1>3. pc \in CancellerSteps
  BY DEF CancellerSteps
<1> PICK w : w = [pc |-> pc, q |-> q, lease |-> question[q].lease, seen |-> question[q].attn]
  OBVIOUS
<1>4. w \in CancellerWork /\ w.q = q /\ w.pc = pc
  BY <1>1, <1>2, <1>3 DEF CancellerWork
<1>5. w \notin DispatcherWork
  BY <1>3, <1>4 DEF DispatcherWork, DispatcherSteps, CancellerSteps
<1>6. Becomes(p, w) /\ UNCHANGED <<question, times, backend, route>>
  BY DEF CancelStart
<1> QED
  BY <1>1, <1>4, <1>5, <1>6, StartsInv

LEMMA CrashInv ==
  ASSUME ClientInv, NEW p \in Procs, Crash(p)
  PROVE  ClientInv'
BY QuietEnds DEF Crash

-----------------------------------------------------------------------------
(* A step after which everything is as it was, but the backend's record of  *)
(* one question or the time.                                                *)
LEMMA BackendTypes ==
  ASSUME ClientInv, UNCHANGED <<question, route>>,
         grants' \in [Questions -> {"none", "open", "answered", "expired"}],
         applied' \in [Questions -> SUBSET Submissions],
         overdue' \subseteq Questions, outdated' \subseteq Questions,
         proc' \in [Procs -> Work],
         \A o \in Procs : (IsStager(o)' => o \in Stagers) /\ (IsDispatcher(o)' => o \in Dispatchers)
  PROVE  ClientTypes'
BY DEF ClientInv, ClientTypes, Work, route

LEMMA StageAuthorizeInv ==
  ASSUME ClientInv, NEW p \in Procs, NEW answered \in BOOLEAN, StageAuthorize(p, answered)
  PROVE  ClientInv'
<1> PICK q : q = proc[p].q
  OBVIOUS
<1>1. IsStager(p) /\ UNCHANGED <<question, overdue, outdated, applied, intent, conv>> /\ ClientTypes
  BY DEF StageAuthorize, IsStager, StagerSteps, times, route, ClientInv
<1>2. q \in Asked /\ q \in Questions /\ CommandOK(p) /\ proc[p] # AtRest
  BY <1>1, AtWork DEF StageAuthorize, AtRest, CommandOK, IsStager, StagerSteps
<1>3. /\ grants' \in [Questions -> {"none", "open", "answered", "expired"}]
      /\ \A r \in Questions : grants[r] # "none" => grants'[r] = grants[r]
      /\ grants'[q] # "none"
  BY <1>1, <1>2 DEF StageAuthorize, ClientTypes
<1>4. Asked' = Asked
  BY <1>1 DEF Asked
<1>5. \A r \in Questions : QuestionOK(r)'
  BY <1>1, <1>3, <1>4 DEF ClientInv, QuestionOK, Shown
<1>6. \A o \in Procs : Steady(o)
  BY <1>1, <1>3, <1>4 DEF Steady, Shown, Refused
<1>7. \A o \in Procs : o # p => ~IsStager(o)
  BY <1>1 DEF ClientInv, OneStager
<1>8. CASE Ends(p)
  <2>1. /\ proc' \in [Procs -> Work] /\ \A o \in Procs : o # p => proc'[o] = proc[o]
        /\ ~IsStager(p)' /\ ~IsDispatcher(p)' /\ CommandOK(p)'
    BY <1>1, <1>8, Resting DEF IsStager, IsDispatcher
  <2>2. \A o \in Procs : (IsStager(o)' => o \in Stagers) /\ (IsDispatcher(o)' => o \in Dispatchers)
    BY <1>1, <2>1 DEF ClientTypes, IsStager, IsDispatcher
  <2>3. ClientTypes'
    BY <1>1, <1>3, <2>1, <2>2, BackendTypes DEF ClientTypes, route
  <2> QED
    BY <1>5, <1>6, <1>7, <2>1, <2>3, CommandStep
<1>9. CASE Goes(p, "store")
  <2>1. Moves(p, "store")
    BY <1>1, <1>9, StagerGoes DEF StagerSteps
  <2>2. /\ proc' \in [Procs -> Work] /\ \A o \in Procs : o # p => proc'[o] = proc[o]
        /\ proc'[p].pc = "store" /\ proc'[p].q = q
        /\ IsStager(p)' /\ ~IsDispatcher(p)' /\ ~IsApplier(p)'
    BY <2>1 DEF Moves, IsStager, IsDispatcher, IsApplier, StagerSteps, DispatcherSteps, ApplierSteps
  <2>3. CommandOK(p)'
    BY <1>1, <1>2, <1>3, <1>4, <2>2 DEF CommandOK
  <2>4. \A o \in Procs : (IsStager(o)' => o \in Stagers) /\ (IsDispatcher(o)' => o \in Dispatchers)
    BY <1>1, <2>2 DEF ClientTypes, IsStager, IsDispatcher
  <2>5. ClientTypes'
    BY <1>1, <1>3, <2>2, <2>4, BackendTypes DEF ClientTypes, route
  <2> QED
    BY <1>5, <1>6, <1>7, <2>2, <2>3, <2>5, CommandStep
<1> QED
  BY <1>8, <1>9 DEF StageAuthorize

LEMMA TimePassesInv ==
  ASSUME ClientInv, NEW q \in Questions, DeadlinePasses(q) \/ PersonChanges(q)
  PROVE  ClientInv'
<1>1. /\ UNCHANGED <<question, grants, applied, intent, conv, proc>> /\ ClientTypes /\ q \in Asked
      /\ overdue \subseteq overdue' /\ outdated \subseteq outdated'
      /\ overdue' \subseteq overdue \cup {q} /\ outdated' \subseteq outdated \cup {q}
  BY DEF DeadlinePasses, PersonChanges, backend, route, ClientInv
<1>2. Asked' = Asked
  BY <1>1 DEF Asked
<1>3. \A r \in Questions : QuestionOK(r)'
  BY <1>1, <1>2 DEF ClientInv, QuestionOK, Shown
<1>4. \A o \in Procs : Steady(o)
  BY <1>1, <1>2 DEF Steady, Shown, Refused
<1>5. ClientTypes'
  BY <1>1 DEF ClientTypes, IsStager, IsDispatcher
<1> QED
  BY <1>1, <1>3, <1>4, <1>5, WorldStep

(* The lease of an applier lapses.                                          *)
Unleased(q) == [question[q] EXCEPT !.leased = FALSE]

LEMMA UnleasedFits ==
  ASSUME ClientInv, NEW q \in Asked, NEW it, it = Unleased(q)
  PROVE  /\ Fits(q, it) /\ SameButDelivery(it, question[q])
         /\ it.attn = question[q].attn /\ it.blind = question[q].blind
         /\ [question EXCEPT ![q].leased = FALSE] = [question EXCEPT ![q] = it]
<1>1. q \in Questions /\ question[q] \in Question /\ Fits(q, question[q])
  BY AskedQuestion
<1>2. /\ it \in Question /\ it.state = question[q].state /\ it.submission = question[q].submission
      /\ it.capable = question[q].capable /\ it.attn = question[q].attn /\ it.blind = question[q].blind
  BY <1>1 DEF Question, Unleased
<1>3. [question EXCEPT ![q].leased = FALSE] = [question EXCEPT ![q] = it]
  BY <1>1 DEF Unleased, ClientInv, ClientTypes
<1> QED
  BY <1>1, <1>2, <1>3 DEF Fits, SameButDelivery

LEMMA ApplyLeaseLapsesInv ==
  ASSUME ClientInv, NEW q \in Questions, ApplyLeaseLapses(q)
  PROVE  ClientInv'
<1>1. q \in Asked /\ UNCHANGED <<times, backend, proc>> /\ UNCHANGED route /\ ClientTypes
  BY DEF ApplyLeaseLapses, ClientInv
<1> PICK it : it = Unleased(q)
  OBVIOUS
<1>2. RouteStep(q)
  BY <1>1, RouteRests
<1>3. question' = [question EXCEPT ![q] = it] /\ SameButDelivery(it, question[q])
  BY <1>1, UnleasedFits DEF ApplyLeaseLapses
<1> QED
  BY <1>1, <1>2, <1>3, CallAndStays

-----------------------------------------------------------------------------
(* An applier knows its submission, and goes on knowing it.                 *)
LEMMA ApplierAtWork ==
  ASSUME ClientInv, NEW p \in Procs, IsApplier(p)
  PROVE  /\ ~IsStager(p) /\ ~IsDispatcher(p) /\ proc[p].q \in Asked /\ proc[p].q \in Questions
         /\ proc[p].s \in Submissions /\ proc[p].s = question[proc[p].q].submission
         /\ grants[proc[p].q] # "none"
         /\ proc[p].pc = "post" => Shown(proc[p].q)
         /\ proc[p].pc \in {"refused", "giveup"} => Refused(proc[p].q)
         /\ proc[p].pc = "finish" => proc[p].s \in applied[proc[p].q]
<1>1. ~IsStager(p) /\ ~IsDispatcher(p) /\ proc[p].pc # "write"
  BY DEF IsApplier, ApplierSteps, IsStager, StagerSteps, IsDispatcher, DispatcherSteps
<1>2. CommandOK(p) /\ proc[p].q \in Asked /\ proc[p].q \in Questions
  BY <1>1, AtWork
<1>3. proc[p].s \in Submissions
  BY WorkShape DEF ClientInv, ApplierWork
<1> QED
  BY <1>1, <1>2, <1>3 DEF CommandOK

LEMMA ApplierOK ==
  ASSUME ClientInv, NEW p \in Procs, IsApplier(p), NEW pc \in ApplierSteps, Goes(p, pc), Steady(p),
         pc = "post" => Shown(proc[p].q)',
         pc \in {"refused", "giveup"} => Refused(proc[p].q)',
         pc = "finish" => proc[p].s \in applied'[proc[p].q]
  PROVE  /\ Moves(p, pc) /\ CommandOK(p)' /\ ~IsStager(p)' /\ ~IsDispatcher(p)'
<1> PICK q : q = proc[p].q
  OBVIOUS
<1>1. Moves(p, pc) /\ proc'[p].s = proc[p].s
  BY ApplierGoes DEF ClientInv
<1>2. proc'[p].pc = pc /\ proc'[p].q = q
  BY <1>1 DEF Moves
<1>3. /\ q \in Asked /\ q \in Questions /\ proc[p].s = question[q].submission
      /\ proc[p].s # Nothing /\ grants[q] # "none"
  BY ApplierAtWork, EnrichmentClientAssumption
<1>4. q \in Asked' /\ question'[q].submission = proc[p].s /\ grants'[q] # "none"
  BY <1>3 DEF Steady
<1>5. ~IsStager(p)' /\ ~IsDispatcher(p)' /\ pc \notin {"write", "store"}
  BY <1>2 DEF IsStager, IsDispatcher, StagerSteps, DispatcherSteps, ApplierSteps
<1>6. /\ pc = "post" => Shown(q)'
      /\ pc \in {"refused", "giveup"} => Refused(q)'
      /\ pc = "finish" => proc[p].s \in applied'[q]
  BY <1>2 DEF Shown, Refused
<1>7. /\ proc'[p].pc = "post" => Shown(proc[p].q)'
      /\ proc'[p].pc \in {"refused", "giveup"} => Refused(proc[p].q)'
  BY <1>1, <1>2, <1>6
<1> QED
  BY <1>1, <1>2, <1>3, <1>4, <1>5, <1>6, <1>7 DEF CommandOK

-----------------------------------------------------------------------------
(* A section of an applier that writes its question and goes on.            *)
LEMMA ApplyWritesAndGoes ==
  ASSUME ClientInv, NEW p \in Procs, IsApplier(p), NEW pc \in ApplierSteps, Goes(p, pc),
         NEW it, Writes(proc[p].q, it), Fits(proc[p].q, it),
         it.capable => question[proc[p].q].capable,
         pc = "post" => Shown(proc[p].q),
         pc \in {"refused", "giveup"} => Refused(proc[p].q),
         pc = "finish" => proc[p].s \in applied[proc[p].q]
  PROVE  ClientInv'
<1> PICK q : q = proc[p].q
  OBVIOUS
<1>1. q \in Asked /\ q \in Questions /\ proc[p].s \in Submissions
  BY ApplierAtWork
<1>2. Steady(p)
  BY <1>1, WriteSteady
<1>3. /\ pc = "post" => Shown(q)'
      /\ pc \in {"refused", "giveup"} => Refused(q)'
      /\ pc = "finish" => proc[p].s \in applied'[q]
  BY <1>1, <1>2 DEF Steady
<1>5. /\ pc = "post" => Shown(proc[p].q)'
      /\ pc \in {"refused", "giveup"} => Refused(proc[p].q)'
  <2>1. proc'[p].q = q
    BY ApplierGoes DEF ClientInv, Moves
  <2> QED
    BY <1>3, <2>1 DEF Shown, Refused
<1>4. Moves(p, pc) /\ CommandOK(p)' /\ ~IsStager(p)' /\ ~IsDispatcher(p)'
  BY <1>2, <1>3, <1>5, ApplierOK
<1> QED
  BY <1>1, <1>4, WritesAndGoes

LEMMA ApplyWritesAndEnds ==
  ASSUME ClientInv, NEW p \in Procs, IsApplier(p), Ends(p),
         NEW it, Writes(proc[p].q, it), Fits(proc[p].q, it),
         it.capable => question[proc[p].q].capable
  PROVE  ClientInv'
BY ApplierAtWork, WritesAndEnds

(* Writing nothing is writing the question as it is.                        *)
LEMMA WritesSame ==
  ASSUME ClientInv, NEW q \in Asked, NEW it, it = question[q], UNCHANGED <<question, times, backend, route>>
  PROVE  Writes(q, it) /\ Fits(q, it)
BY AskedQuestion DEF Writes, ClientInv, ClientTypes

(* The changes of an owned question.                                        *)
Given(q, p, s) ==
  [question[q] EXCEPT !.submission = s, !.owner = p, !.leased = TRUE,
                      !.state = IF @ = "committed_unverified" THEN @ ELSE "applying"]
Handed(q) == [question[q] EXCEPT !.state = "awaiting_reply", !.owner = Nothing, !.leased = FALSE]
Doubted(q) == [question[q] EXCEPT !.state = "submission_unknown", !.leased = FALSE]
Committed(q) == [question[q] EXCEPT !.state = "committed_unverified"]

LEMMA GivenFits ==
  ASSUME ClientInv, NEW q \in Asked, NEW p \in Procs, NEW s \in Submissions,
         question[q].submission \in {Nothing, s}, question[q].capable,
         NEW it, it = Given(q, p, s)
  PROVE  /\ Fits(q, it) /\ it.submission = s /\ it.capable /\ it.state \in InApply
         /\ it.attn = question[q].attn /\ it.blind = question[q].blind
<1>1. q \in Questions /\ question[q] \in Question /\ Fits(q, question[q])
  BY AskedQuestion
<1> PICK state : state = IF question[q].state = "committed_unverified" THEN "committed_unverified" ELSE "applying"
  OBVIOUS
<1>2. state \in InApply /\ state \notin Terminal \cup {"authorizing"}
  BY DEF InApply, Terminal
<1>3. it = [question[q] EXCEPT !.submission = s, !.owner = p, !.leased = TRUE, !.state = state]
  BY <1>1 DEF Given, Question
<1>4. /\ it \in Question /\ it.submission = s /\ it.capable = question[q].capable /\ it.state = state
      /\ it.attn = question[q].attn /\ it.blind = question[q].blind
  BY <1>1, <1>2, <1>3 DEF Question
<1>5. applied[q] \subseteq {s}
  BY <1>1, EnrichmentClientAssumption DEF Fits, ClientInv, ClientTypes
<1> QED
  BY <1>1, <1>2, <1>4, <1>5 DEF Fits

LEMMA HandedFits ==
  ASSUME ClientInv, NEW q \in Asked, NEW it, it = Handed(q)
  PROVE  /\ Fits(q, it) /\ it.capable = question[q].capable /\ it.state = "awaiting_reply"
         /\ it.attn = question[q].attn /\ it.blind = question[q].blind
<1>1. q \in Questions /\ question[q] \in Question /\ Fits(q, question[q])
  BY AskedQuestion
<1>2. /\ it \in Question /\ it.submission = question[q].submission /\ it.capable = question[q].capable
      /\ it.state = "awaiting_reply" /\ it.attn = question[q].attn /\ it.blind = question[q].blind
  BY <1>1 DEF Question, Handed
<1> QED
  BY <1>1, <1>2 DEF Fits, Terminal, InApply

LEMMA DoubtedFits ==
  ASSUME ClientInv, NEW q \in Asked, question[q].state \in InApply, NEW it, it = Doubted(q)
  PROVE  /\ Fits(q, it) /\ it.capable = question[q].capable /\ it.state = "submission_unknown"
         /\ it.attn = question[q].attn /\ it.blind = question[q].blind
<1>1. q \in Questions /\ question[q] \in Question /\ Fits(q, question[q])
  BY AskedQuestion
<1>2. /\ it \in Question /\ it.submission = question[q].submission /\ it.capable = question[q].capable
      /\ it.state = "submission_unknown" /\ it.attn = question[q].attn /\ it.blind = question[q].blind
  BY <1>1 DEF Question, Doubted, InApply
<1> QED
  BY <1>1, <1>2 DEF Fits, Terminal, InApply

LEMMA CommittedFits ==
  ASSUME ClientInv, NEW q \in Asked, question[q].state \in InApply, NEW it, it = Committed(q)
  PROVE  /\ Fits(q, it) /\ it.capable = question[q].capable /\ it.state = "committed_unverified"
         /\ it.attn = question[q].attn /\ it.blind = question[q].blind
<1>1. q \in Questions /\ question[q] \in Question /\ Fits(q, question[q])
  BY AskedQuestion
<1>2. /\ it \in Question /\ it.submission = question[q].submission /\ it.capable = question[q].capable
      /\ it.state = "committed_unverified" /\ it.attn = question[q].attn /\ it.blind = question[q].blind
  BY <1>1 DEF Question, Committed, InApply
<1> QED
  BY <1>1, <1>2 DEF Fits, Terminal, InApply

-----------------------------------------------------------------------------
LEMMA ApplyStartInv ==
  ASSUME ClientInv, NEW p \in Appliers, NEW q \in Questions, NEW s \in Submissions, ApplyStart(p, q, s)
  PROVE  ClientInv'
<1>1. /\ p \in Procs /\ q \in Asked /\ ClientTypes /\ question[q].capable
      /\ question[q].submission \in {Nothing, s}
  BY DEF Procs, ApplyStart, ClientInv
<1>2. grants[q] # "none"
  BY <1>1, AskedQuestion DEF Fits
<1> PICK it : it = Given(q, p, s)
  OBVIOUS
<1>3. Fits(q, it) /\ it.submission = s /\ it.capable
  BY <1>1, GivenFits
<1>4. Writes(q, it)
  BY <1>1 DEF ApplyStart, Given, Writes
<1>5. /\ question' \in [Questions -> Question \cup {Nothing}]
      /\ Asked' = Asked \cup {q} /\ question'[q] = it
      /\ \A r \in Questions : QuestionOK(r)'
      /\ \A o \in Procs : Steady(o)
  BY <1>1, <1>3, <1>4, WriteSteady
<1> PICK pc : pc = IF question[q].state = "committed_unverified" THEN "read" ELSE "proof"
  OBVIOUS
<1> PICK w : w = [pc |-> pc, q |-> q, s |-> s]
  OBVIOUS
<1>6. /\ w \in ApplierWork /\ w \in Work /\ w.pc = pc /\ w.q = q /\ w.s = s /\ pc \in {"read", "proof"}
  BY DEF ApplierWork, Work, ApplierSteps
<1>7. Becomes(p, w) /\ UNCHANGED <<times, backend, route>>
  BY DEF ApplyStart
<1>8. proc' \in [Procs -> Work] /\ proc'[p] = w /\ \A o \in Procs : o # p => proc'[o] = proc[o]
  BY <1>1, <1>6, <1>7, CommandBecomes
<1>9. grants'[q] # "none"
  BY <1>1, <1>2, <1>5 DEF Steady
<1>10. CommandOK(p)' /\ ~IsStager(p)' /\ ~IsDispatcher(p)'
  BY <1>3, <1>5, <1>6, <1>8, <1>9 DEF CommandOK, IsStager, StagerSteps, IsDispatcher, DispatcherSteps
<1>11. ClientTypes'
  BY <1>1, <1>5, <1>7, <1>8, <1>10, TypesOfWrite DEF IsStager, IsDispatcher
<1> QED
  BY <1>1, <1>5, <1>8, <1>10, <1>11, CommandStep

LEMMA ApplyProofInv ==
  ASSUME ClientInv, NEW p \in Procs, NEW answered \in BOOLEAN, ApplyProof(p, answered)
  PROVE  ClientInv'
<1> PICK q : q = proc[p].q
  OBVIOUS
<1>1. IsApplier(p) /\ UNCHANGED <<times, backend, route>>
  BY DEF ApplyProof, IsApplier, ApplierSteps
<1>2. q \in Asked
  BY <1>1, ApplierAtWork
<1>3. CASE answered
  <2>1. Goes(p, "post") /\ UNCHANGED question /\ Shown(q)
    BY <1>3 DEF ApplyProof, ProofAccepted, Shown
  <2> PICK it : it = question[q]
    OBVIOUS
  <2>2. Writes(q, it) /\ Fits(q, it)
    BY <1>1, <1>2, <2>1, WritesSame
  <2> QED
    BY <1>1, <2>1, <2>2, ApplyWritesAndGoes DEF ApplierSteps
<1>4. CASE ~answered
  <2>1. Ends(p) /\ question' = Restored(p)
    BY <1>4 DEF ApplyProof
  <2>2. CASE Owns(p, {"applying"})
    <3> PICK it : it = Handed(q)
      OBVIOUS
    <3>1. Fits(q, it) /\ it.capable = question[q].capable
      BY <1>2, HandedFits
    <3>2. Writes(q, it)
      BY <1>1, <1>2, <2>1, <2>2, AskedQuestion DEF Restored, Handed, Writes, ClientInv, ClientTypes
    <3> QED
      BY <1>1, <2>1, <3>1, <3>2, ApplyWritesAndEnds
  <2>3. CASE ~Owns(p, {"applying"})
    BY <1>1, <2>1, <2>3, QuietEnds DEF Restored
  <2> QED
    BY <2>2, <2>3
<1> QED
  BY <1>3, <1>4

LEMMA ApplyUnknownInv ==
  ASSUME ClientInv, NEW p \in Procs, ApplyUnknown(p)
  PROVE  ClientInv'
<1> PICK q : q = proc[p].q
  OBVIOUS
<1>1. IsApplier(p) /\ UNCHANGED <<times, backend, route>>
  BY DEF ApplyUnknown, IsApplier, ApplierSteps
<1>2. q \in Asked
  BY <1>1, ApplierAtWork
<1>3. PICK it : Writes(q, it) /\ Fits(q, it) /\ it.capable = question[q].capable
  <2>1. CASE Owns(p, {"applying"})
    <3> PICK it : it = Doubted(q)
      OBVIOUS
    <3>1. Fits(q, it) /\ it.capable = question[q].capable
      BY <1>2, <2>1, DoubtedFits DEF Owns, InApply
    <3>2. Writes(q, it)
      BY <1>1, <1>2, <2>1, AskedQuestion DEF ApplyUnknown, Doubted, Writes, ClientInv, ClientTypes
    <3> QED
      BY <3>1, <3>2
  <2>2. CASE ~Owns(p, {"applying"})
    <3> PICK it : it = question[q]
      OBVIOUS
    <3>1. Writes(q, it) /\ Fits(q, it)
      BY <1>1, <1>2, <2>2, WritesSame DEF ApplyUnknown
    <3> QED
      BY <3>1
  <2> QED
    BY <2>1, <2>2
<1>4. CASE proc[p].pc = "refused" /\ Goes(p, "giveup")
  <2>1. Refused(q)
    BY <1>1, <1>4, ApplierAtWork
  <2> QED
    BY <1>1, <1>3, <1>4, <2>1, ApplyWritesAndGoes DEF ApplierSteps
<1>5. CASE Ends(p)
  BY <1>1, <1>3, <1>5, ApplyWritesAndEnds
<1> QED
  BY <1>4, <1>5 DEF ApplyUnknown

-----------------------------------------------------------------------------
LEMMA ApplyGivesUpInv ==
  ASSUME ClientInv, NEW p \in Procs, ApplyGivesUp(p)
  PROVE  ClientInv'
<1> PICK q : q = proc[p].q
  OBVIOUS
<1>1. IsApplier(p) /\ UNCHANGED <<times, backend, route>> /\ Ends(p)
  BY DEF ApplyGivesUp, IsApplier, ApplierSteps
<1>2. q \in Asked /\ q \in Questions
  BY <1>1, ApplierAtWork
<1>3. CASE Owns(p, InApply)
  <2> PICK it : it = Closed(question[q], "stale")
    OBVIOUS
  <2>1. Fits(q, it) /\ ~it.capable
    BY <1>2, ClosedFits DEF Terminal
  <2>2. Writes(q, it)
    BY <1>1, <1>2, <1>3 DEF ApplyGivesUp, Writes, ClientInv, ClientTypes
  <2> QED
    BY <1>1, <2>1, <2>2, ApplyWritesAndEnds
<1>4. CASE ~Owns(p, InApply)
  BY <1>1, <1>4, QuietEnds DEF ApplyGivesUp
<1> QED
  BY <1>3, <1>4

LEMMA ApplyReceiptInv ==
  ASSUME ClientInv, NEW p \in Procs, ApplyReceipt(p)
  PROVE  ClientInv'
<1> PICK q : q = proc[p].q
  OBVIOUS
<1>1. IsApplier(p) /\ UNCHANGED <<times, backend, route>>
  BY DEF ApplyReceipt, IsApplier, ApplierSteps
<1>2. q \in Asked /\ q \in Questions
  BY <1>1, ApplierAtWork
<1>3. CASE Owns(p, {"applying"})
  <2> PICK it : it = Committed(q)
    OBVIOUS
  <2>1. Fits(q, it) /\ it.capable = question[q].capable
    BY <1>2, <1>3, CommittedFits DEF Owns, InApply
  <2>2. Writes(q, it) /\ Goes(p, "read")
    BY <1>1, <1>2, <1>3, AskedQuestion DEF ApplyReceipt, Committed, Writes, ClientInv, ClientTypes
  <2> QED
    BY <1>1, <2>1, <2>2, ApplyWritesAndGoes DEF ApplierSteps
<1>4. CASE ~Owns(p, {"applying"})
  BY <1>1, <1>4, QuietEnds DEF ApplyReceipt
<1> QED
  BY <1>3, <1>4

LEMMA ApplyReadInv ==
  ASSUME ClientInv, NEW p \in Procs, NEW result \in {"verified", "unverified", "failed"}, ApplyRead(p, result)
  PROVE  ClientInv'
<1> PICK q : q = proc[p].q
  OBVIOUS
<1>1. IsApplier(p) /\ UNCHANGED <<times, backend, route>>
  BY DEF ApplyRead, IsApplier, ApplierSteps
<1>2. q \in Asked /\ q \in Questions
  BY <1>1, ApplierAtWork
<1>3. PICK it : Writes(q, it) /\ Fits(q, it) /\ it.capable = question[q].capable
  <2>1. CASE result = "failed" /\ Owns(p, {"committed_unverified"})
    <3> PICK it : it = Unleased(q)
      OBVIOUS
    <3>1. Fits(q, it) /\ it.capable = question[q].capable
      BY <1>2, UnleasedFits DEF SameButDelivery
    <3>2. Writes(q, it)
      BY <1>1, <1>2, <2>1, AskedQuestion DEF ApplyRead, Unleased, Writes, ClientInv, ClientTypes
    <3> QED
      BY <3>1, <3>2
  <2>2. CASE ~(result = "failed" /\ Owns(p, {"committed_unverified"}))
    <3> PICK it : it = question[q]
      OBVIOUS
    <3>1. Writes(q, it) /\ Fits(q, it)
      BY <1>1, <1>2, <2>2, WritesSame DEF ApplyRead
    <3> QED
      BY <3>1
  <2> QED
    BY <2>1, <2>2
<1>4. CASE result = "verified" /\ Goes(p, "finish")
  <2>1. proc[p].s \in applied[q]
    BY <1>4 DEF ApplyRead
  <2> QED
    BY <1>1, <1>3, <1>4, <2>1, ApplyWritesAndGoes DEF ApplierSteps
<1>5. CASE Ends(p)
  BY <1>1, <1>3, <1>5, ApplyWritesAndEnds
<1> QED
  BY <1>4, <1>5 DEF ApplyRead

LEMMA FinalStates == \A s \in Submissions : FinalState(s) \in {"verified_applied", "unknown", "skipped"}
BY EnrichmentClientAssumption DEF FinalState

LEMMA ApplyFinishInv ==
  ASSUME ClientInv, NEW p \in Procs, ApplyFinish(p)
  PROVE  ClientInv'
<1> PICK q : q = proc[p].q
  OBVIOUS
<1>1. IsApplier(p) /\ UNCHANGED <<times, backend, route>> /\ Ends(p)
  BY DEF ApplyFinish, IsApplier, ApplierSteps
<1>2. q \in Asked /\ q \in Questions /\ proc[p].s \in Submissions
  BY <1>1, ApplierAtWork
<1>3. CASE Owns(p, {"committed_unverified"})
  <2> PICK state : state = FinalState(proc[p].s)
    OBVIOUS
  <2> PICK it : it = Closed(question[q], state)
    OBVIOUS
  <2>1. state \in Terminal
    BY <1>2, FinalStates DEF Terminal
  <2>2. Fits(q, it) /\ ~it.capable
    BY <1>2, <2>1, ClosedFits
  <2>3. Writes(q, it)
    BY <1>1, <1>2, <1>3 DEF ApplyFinish, Writes, ClientInv, ClientTypes
  <2> QED
    BY <1>1, <2>2, <2>3, ApplyWritesAndEnds
<1>4. CASE ~Owns(p, {"committed_unverified"})
  BY <1>1, <1>4, QuietEnds DEF ApplyFinish
<1> QED
  BY <1>3, <1>4

-----------------------------------------------------------------------------
(* A POST: the one place where the backend's record of answers grows.       *)
LEMMA ApplyPostInv ==
  ASSUME ClientInv, NEW p \in Procs, NEW answered \in BOOLEAN, ApplyPost(p, answered)
  PROVE  ClientInv'
<1> PICK q : q = proc[p].q
  OBVIOUS
<1> PICK s : s = proc[p].s
  OBVIOUS
<1>1. IsApplier(p) /\ UNCHANGED <<question, overdue, outdated, intent, conv>> /\ ClientTypes /\ UNCHANGED route
  BY DEF ApplyPost, IsApplier, ApplierSteps, times, route, ClientInv
<1>2. /\ q \in Asked /\ q \in Questions /\ s \in Submissions /\ s = question[q].submission
      /\ grants[q] # "none" /\ Shown(q)
  BY <1>1, ApplierAtWork DEF ApplyPost
<1>3. /\ applied' = [applied EXCEPT ![q] = @ \cup {s}] /\ Takes(q, s)
      /\ grants' = IF s \in applied[q] THEN grants ELSE [grants EXCEPT ![q] = "answered"]
  BY DEF ApplyPost
<1>4. /\ applied' \in [Questions -> SUBSET Submissions] /\ applied'[q] = applied[q] \cup {s}
      /\ \A r \in Questions : r # q => applied'[r] = applied[r]
  BY <1>1, <1>2, <1>3 DEF ClientTypes
<1>5. /\ grants' \in [Questions -> {"none", "open", "answered", "expired"}]
      /\ \A r \in Questions : grants[r] # "none" => grants'[r] # "none"
      /\ \A r \in Questions : r # q => grants'[r] = grants[r]
  BY <1>1, <1>2, <1>3 DEF ClientTypes
<1>6. Asked' = Asked
  BY <1>1 DEF Asked
<1>7. ASSUME NEW r \in Questions PROVE QuestionOK(r)'
  <2>1. QuestionOK(r)
    BY DEF ClientInv
  <2>2. CASE r # q
    BY <1>1, <1>4, <1>5, <1>6, <2>1, <2>2 DEF QuestionOK, Shown
  <2>3. CASE r = q
    BY <1>1, <1>2, <1>4, <1>5, <1>6, <2>1, <2>3 DEF QuestionOK, Shown
  <2> QED
    BY <2>2, <2>3
<1>8. ~Refused(q)
  <2>1. CASE s \in applied[q]
    BY <2>1 DEF Refused
  <2>2. CASE s \notin applied[q]
    BY <1>2, <1>3, <2>2 DEF Refused, Takes
  <2> QED
    BY <2>1, <2>2
<1>9. ASSUME NEW o \in Procs PROVE Steady(o)
  <2>1. ASSUME NEW r \in Questions PROVE Refused(r) => Refused(r)'
    BY <1>1, <1>4, <1>5, <1>8 DEF Refused
  <2> QED
    BY <1>1, <1>4, <1>5, <1>6, <2>1 DEF Steady, Shown
<1>10. PICK pc \in {"receipt", "unknown"} : Goes(p, pc)
  BY DEF ApplyPost
<1>11. Moves(p, pc) /\ CommandOK(p)' /\ ~IsStager(p)' /\ ~IsDispatcher(p)'
  BY <1>1, <1>9, <1>10, ApplierOK DEF ApplierSteps
<1>12. proc' \in [Procs -> Work] /\ \A o \in Procs : o # p => proc'[o] = proc[o] /\ Steady(o)
  BY <1>9, <1>11 DEF Moves
<1>13. \A o \in Procs : (IsStager(o)' => o \in Stagers) /\ (IsDispatcher(o)' => o \in Dispatchers)
  BY <1>1, <1>11, <1>12 DEF ClientTypes, IsStager, IsDispatcher
<1>14. ClientTypes'
  BY <1>1, <1>4, <1>5, <1>12, <1>13, BackendTypes DEF ClientTypes
<1> QED
  BY <1>7, <1>11, <1>12, <1>14, CommandStep

LEMMA ApplyPostFailsInv ==
  ASSUME ClientInv, NEW p \in Procs, NEW definite \in BOOLEAN, ApplyPostFails(p, definite)
  PROVE  ClientInv'
<1> PICK q : q = proc[p].q
  OBVIOUS
<1> PICK s : s = proc[p].s
  OBVIOUS
<1>1. /\ IsApplier(p) /\ UNCHANGED <<question, overdue, outdated, applied, intent, conv>>
      /\ ClientTypes /\ UNCHANGED route
  BY DEF ApplyPostFails, IsApplier, ApplierSteps, times, route, ClientInv
<1>2. /\ q \in Asked /\ q \in Questions /\ s \in Submissions /\ s = question[q].submission
      /\ grants[q] # "none"
  BY <1>1, ApplierAtWork
<1>3. /\ definite => ~Takes(q, s)
      /\ grants' = IF definite /\ q \in overdue THEN [grants EXCEPT ![q] = "expired"] ELSE grants
  BY DEF ApplyPostFails
<1>4. /\ grants' \in [Questions -> {"none", "open", "answered", "expired"}]
      /\ \A r \in Questions : grants'[r] \in {grants[r], "expired"}
  BY <1>1, <1>2, <1>3 DEF ClientTypes
<1>5. \A r \in Questions : grants[r] # "none" => grants'[r] # "none"
  BY <1>4
<1>6. Asked' = Asked
  BY <1>1 DEF Asked
<1>7. \A r \in Questions : QuestionOK(r)'
  BY <1>1, <1>5, <1>6 DEF QuestionOK, Shown, ClientInv
<1>8. \A o \in Procs : Steady(o)
  BY <1>1, <1>4, <1>5, <1>6 DEF Steady, Shown, Refused
<1>9. definite => Refused(q)'
  <2> SUFFICES ASSUME definite PROVE Refused(q)'
    OBVIOUS
  <2>1. s \notin applied[q] /\ ~(q \notin overdue \cup outdated /\ grants[q] \in {"open", "answered"} /\ SlotOpen(q))
    BY <1>3 DEF Takes
  <2>2. applied[q] \subseteq {s}
    BY <1>2, AskedQuestion DEF Fits
  <2>3. applied[q] = {}
    BY <2>1, <2>2
  <2>4. SlotOpen(q)
    BY <2>3 DEF SlotOpen
  <2>5. grants[q] \in {"none", "open", "answered", "expired"}
    BY <1>1, <1>2 DEF ClientTypes
  <2>6. Refused(q)
    BY <1>2, <2>1, <2>3, <2>4, <2>5 DEF Refused
  <2> QED
    BY <1>2, <1>8, <2>6, ApplierAtWork DEF Steady
<1>10. PICK pc \in {"refused", "unknown"} : Goes(p, pc) /\ (pc = "refused" => definite)
  BY DEF ApplyPostFails
<1>11. proc'[p].q = q
  BY <1>1, <1>10, ApplierGoes DEF ApplierSteps, Moves
<1>12. pc = "refused" => Refused(proc[p].q)'
  BY <1>9, <1>10, <1>11 DEF Refused
<1>13. Moves(p, pc) /\ CommandOK(p)' /\ ~IsStager(p)' /\ ~IsDispatcher(p)'
  BY <1>1, <1>8, <1>10, <1>12, ApplierOK DEF ApplierSteps
<1>14. proc' \in [Procs -> Work] /\ \A o \in Procs : o # p => proc'[o] = proc[o] /\ Steady(o)
  BY <1>8, <1>13 DEF Moves
<1>15. \A o \in Procs : (IsStager(o)' => o \in Stagers) /\ (IsDispatcher(o)' => o \in Dispatchers)
  BY <1>1, <1>13, <1>14 DEF ClientTypes, IsStager, IsDispatcher
<1>16. ClientTypes'
  BY <1>1, <1>4, <1>14, <1>15, BackendTypes DEF ClientTypes
<1> QED
  BY <1>7, <1>13, <1>14, <1>16, CommandStep

-----------------------------------------------------------------------------
LEMMA ClientInitInv == ClientInit => ClientInv
<1> SUFFICES ASSUME ClientInit PROVE ClientInv
  OBVIOUS
<1>1. /\ question = [q \in Questions |-> Nothing] /\ overdue = {} /\ outdated = {}
      /\ grants = [q \in Questions |-> "none"] /\ applied = [q \in Questions |-> {}]
      /\ proc = [p \in Procs |-> AtRest]
      /\ intent = [q \in Questions |-> [state |-> "none", lease |-> 0]]
      /\ conv = [q \in Questions |-> "none"]
  BY DEF ClientInit, RouteInit
<1>2. \A p \in Procs : proc[p] = AtRest /\ proc[p].pc = "idle"
  BY <1>1 DEF AtRest
<1>3. \A p \in Procs : ~IsStager(p) /\ ~IsDispatcher(p) /\ ~IsApplier(p)
  BY <1>2 DEF IsStager, IsDispatcher, IsApplier, StagerSteps, DispatcherSteps, ApplierSteps
<1>4. Asked = {}
  BY <1>1 DEF Asked
<1>5. ClientTypes
  BY <1>1, <1>3 DEF ClientTypes, Intents, Convs
<1>6. \A p \in Procs : CommandOK(p)
  BY <1>2, <1>3 DEF CommandOK
<1>7. \A q \in Questions : QuestionOK(q)
  BY <1>1, <1>4 DEF QuestionOK
<1> QED
  BY <1>3, <1>5, <1>6, <1>7 DEF ClientInv, OneStager

LEMMA ClientNextInv == ClientInv /\ [ClientNext]_clientVars => ClientInv'
<1> SUFFICES ASSUME ClientInv, [ClientNext]_clientVars PROVE ClientInv'
  OBVIOUS
<1>1. ASSUME NEW p \in Stagers, Stage(p) PROVE ClientInv'
  <2>1. p \in Procs
    BY DEF Procs
  <2> QED
    BY <1>1, <2>1, StageBeginInv, StageWriteInv, StageStoreInv, StageRefusedInv, StageAuthorizeInv DEF Stage
<1>2. ASSUME NEW p \in Dispatchers, Dispatch(p) PROVE ClientInv'
  <2>1. p \in Procs
    BY DEF Procs
  <2> QED
    BY <1>2, <2>1, RecoverWithdrawsInv, DispatchStartInv, PlainCallsInv, DispatchDeliverInv,
      WithdrawStoreInv, DispatchClaimInv, DispatchSendingInv, DispatchDeliveredInv DEF Dispatch
<1>3. ASSUME NEW p \in Cancellers, Cancel(p) PROVE ClientInv'
  <2>1. p \in Procs
    BY DEF Procs
  <2> QED
    BY <1>3, <2>1, CancelStartInv, PlainCallsInv, CancelReleaseInv, CancelStoreInv DEF Cancel
<1>4. ASSUME NEW p \in Appliers, Apply(p) PROVE ClientInv'
  <2>1. p \in Procs
    BY DEF Procs
  <2> QED
    BY <1>4, <2>1, ApplyStartInv, ApplyProofInv, ApplyPostInv, ApplyPostFailsInv, ApplyUnknownInv,
      ApplyGivesUpInv, ApplyReceiptInv, ApplyFinishInv, ApplyReadInv DEF Apply
<1>5. ASSUME NEW q \in Questions, NEW answered \in BOOLEAN,
             SubmitAttention(q, answered) \/ CompleteAttention(q, answered)
      PROVE  ClientInv'
  BY <1>5, SubmitAttentionInv, CompleteAttentionInv
<1>6. ASSUME NEW q \in Questions, ApplyLeaseLapses(q) \/ DeadlinePasses(q) \/ PersonChanges(q)
      PROVE  ClientInv'
  BY <1>6, ApplyLeaseLapsesInv, TimePassesInv
<1>7. CASE ExpireDue \/ RouteMoves \/ \E p \in Procs : Crash(p)
  BY <1>7, ExpireDueInv, RouteMovesInv, CrashInv
<1>8. CASE UNCHANGED clientVars
  <2>1. UNCHANGED <<question, times, backend, route>> /\ proc' = proc
    BY <1>8 DEF clientVars
  <2>2. ClientTypes'
    BY <2>1 DEF ClientInv, ClientTypes, times, backend, route, IsStager, IsDispatcher
  <2> QED
    BY <2>1, <2>2, QuietSteady, WorldStep
<1> QED
  BY <1>1, <1>2, <1>3, <1>4, <1>5, <1>6, <1>7, <1>8 DEF ClientNext

(* The file, what every command carries and the backend's record of answers *)
(* have their types and agree.                                              *)
THEOREM EnrichmentClientInvariant == ClientSpec => []ClientInv
BY ClientInitInv, ClientNextInv, PTL DEF ClientSpec

(* One reply becomes one answer.                                            *)
THEOREM EnrichmentAnswersOnce == ClientSpec => []OneAnswerEach
<1>1. ClientInv => OneAnswerEach
  <2> SUFFICES ASSUME ClientInv, NEW q \in Questions
               PROVE  Cardinality(applied[q]) <= 1 /\ (applied[q] # {} => Shown(q))
    BY DEF OneAnswerEach
  <2>1. QuestionOK(q)
    BY DEF ClientInv
  <2>2. PICK s : applied[q] \subseteq {s}
    BY <2>1 DEF QuestionOK
  <2>3. applied[q] = {} \/ applied[q] = {s}
    BY <2>2
  <2>4. Cardinality(applied[q]) <= 1
    <3>1. CASE applied[q] = {}
      <4>1. Cardinality(applied[q]) = 0
        BY <3>1, FS_EmptySet
      <4> QED
        BY <4>1
    <3>2. CASE applied[q] = {s}
      <4>1. Cardinality(applied[q]) = 1
        BY <3>2, FS_Singleton
      <4> QED
        BY <4>1
    <3> QED
      BY <2>3, <3>1, <3>2
  <2> QED
    BY <2>1, <2>4 DEF QuestionOK
<1> QED
  BY <1>1, EnrichmentClientInvariant, PTL

-----------------------------------------------------------------------------
(* What a step makes of one question; the others stay.                      *)
Effect(q, state, attn, blind) ==
  /\ Asked' = Asked \cup {q}
  /\ \A o \in Asked : o # q => question'[o] = question[o]
  /\ question'[q].state = state /\ question'[q].attn = attn /\ question'[q].blind = blind

LEMMA EffectOf ==
  ASSUME ClientInv, NEW q \in Questions, NEW it \in Question, question' = [question EXCEPT ![q] = it]
  PROVE  Effect(q, it.state, it.attn, it.blind)
<1>1. \A o \in Asked : o \in Questions
  BY DEF Asked
<1> QED
  BY <1>1, OneQuestion DEF ClientInv, Effect

LEMMA NoEffect ==
  ASSUME NEW q \in Asked, question' = question
  PROVE  Effect(q, question[q].state, question[q].attn, question[q].blind)
BY DEF Effect, Asked

LEMMA StageWriteEffect ==
  ASSUME ClientInv, NEW p \in Procs, StageWrite(p)
  PROVE  /\ proc[p].q \in Asked => question' = question
         /\ proc[p].q \notin Asked => Effect(proc[p].q, "authorizing", "none", FALSE)
<1> PICK q : q = proc[p].q
  OBVIOUS
<1>1. q \in Questions
  BY AtWork DEF StageWrite, IsStager, StagerSteps
<1> PICK it : it = NewQuestion
  OBVIOUS
<1>2. /\ it \in Question /\ it.state = "authorizing" /\ it.attn = "none" /\ it.blind = FALSE
  BY DEF NewQuestion, Question
<1> QED
  BY <1>1, <1>2, EffectOf DEF StageWrite

LEMMA StageStoreEffect ==
  ASSUME ClientInv, NEW p \in Procs, StageStore(p)
  PROVE  Effect(proc[p].q, "staged", question[proc[p].q].attn, FALSE)
<1> PICK q : q = proc[p].q
  OBVIOUS
<1>1. q \in Asked
  BY AtWork DEF StageStore, IsStager, StagerSteps
<1>2. q \in Questions /\ question[q] \in Question
  BY <1>1, AskedQuestion
<1> PICK it : it = [question[q] EXCEPT !.state = "staged", !.capable = TRUE, !.blind = FALSE]
  OBVIOUS
<1>3. it \in Question /\ it.state = "staged" /\ it.attn = question[q].attn /\ it.blind = FALSE
  BY <1>2 DEF Question
<1>4. question' = [question EXCEPT ![q] = it]
  BY <1>2 DEF StageStore, ClientInv, ClientTypes
<1> QED
  BY <1>2, <1>3, <1>4, EffectOf

LEMMA StageRefusedEffect ==
  ASSUME ClientInv, NEW p \in Procs, StageRefused(p)
  PROVE  Effect(proc[p].q, "stale", question[proc[p].q].attn, question[proc[p].q].blind)
<1> PICK q : q = proc[p].q
  OBVIOUS
<1>1. q \in Asked /\ q \in Questions
  BY AtWork DEF StageRefused, IsStager, StagerSteps
<1> PICK it : it = Closed(question[q], "stale")
  OBVIOUS
<1>2. it \in Question /\ it.state = "stale" /\ it.attn = question[q].attn /\ it.blind = question[q].blind
  BY <1>1, ClosedFits DEF Terminal, Fits
<1>3. question' = [question EXCEPT ![q] = it]
  BY <1>1 DEF StageRefused, ClientInv, ClientTypes
<1> QED
  BY <1>1, <1>2, <1>3, EffectOf

-----------------------------------------------------------------------------
(* The recorded delivery of this question becomes, or stays.                *)
AttnEffect(q, attn) ==
  \/ Effect(q, question[q].state, question[q].attn, question[q].blind)
  \/ Effect(q, question[q].state, attn, question[q].blind)

LEMMA CallEffects ==
  ASSUME ClientInv, NEW q \in Questions, NEW answered \in BOOLEAN
  PROVE  /\ SubmitAttention(q, answered) => AttnEffect(q, intent'[q].state)
         /\ CompleteAttention(q, answered) => AttnEffect(q, "completed")
         /\ \A p \in Procs : CancelRelease(p, answered) => AttnEffect(proc[p].q, "completed")
<1>1. ASSUME NEW r \in Asked,
             NEW attn \in {"none", "queued", "claimed", "sending", "delivery_unknown",
                           "delivered", "completed", "cancelled"},
             question' = AttnSet(r, attn)
      PROVE  AttnEffect(r, attn)
  <2> PICK it : it = WithAttn(r, attn)
    OBVIOUS
  <2>1. /\ SameButDelivery(it, question[r]) /\ it.attn = attn /\ it.blind = question[r].blind
        /\ question' = [question EXCEPT ![r] = it]
    BY <1>1, AttnChanges
  <2>2. r \in Questions
    BY DEF Asked
  <2>3. Effect(r, it.state, it.attn, it.blind)
    BY <2>1, <2>2, EffectOf DEF SameButDelivery
  <2> QED
    BY <2>1, <2>3 DEF AttnEffect, SameButDelivery
<1>2. ASSUME NEW r \in Asked, NEW attn, question' = question PROVE AttnEffect(r, attn)
  BY <1>2, NoEffect DEF AttnEffect
<1>3. ASSUME SubmitAttention(q, answered) PROVE AttnEffect(q, intent'[q].state)
  <2>1. q \in Asked
    BY <1>3 DEF SubmitAttention
  <2>2. RouteStep(q)
    BY <1>3, BrokerCalls DEF SubmitAttention, ClientInv
  <2> PICK attn : attn = intent'[q].state
    OBVIOUS
  <2>3. intent'[q] \in Intents
    BY <2>2 DEF RouteStep
  <2>4. attn \in {"none", "queued", "claimed", "sending", "delivery_unknown",
                  "delivered", "completed", "cancelled"}
    BY <2>3 DEF Intents
  <2>5. question' = question \/ question' = AttnSet(q, attn)
    BY <1>3 DEF SubmitAttention, AttnSet
  <2>6. AttnEffect(q, attn)
    BY <1>1, <1>2, <2>1, <2>4, <2>5
  <2> QED
    BY <2>6
<1>4. ASSUME CompleteAttention(q, answered) PROVE AttnEffect(q, "completed")
  <2>1. q \in Asked
    BY <1>4 DEF CompleteAttention
  <2>2. question' = question \/ question' = AttnSet(q, "completed")
    BY <1>4 DEF CompleteAttention, AttnSet
  <2> QED
    BY <1>1, <1>2, <2>1, <2>2
<1>5. ASSUME NEW p \in Procs, CancelRelease(p, answered) PROVE AttnEffect(proc[p].q, "completed")
  <2>1. proc[p].q \in Asked
    BY <1>5, AtWork DEF CancelRelease, IsCanceller, CancellerSteps
  <2>2. question' = question \/ question' = AttnSet(proc[p].q, "completed")
    BY <1>5 DEF CancelRelease, AttnSet
  <2> QED
    BY <1>1, <1>2, <2>1, <2>2
<1> QED
  BY <1>3, <1>4, <1>5

LEMMA MarkedEffect ==
  ASSUME ClientInv, NEW p \in Procs, IsDispatcher(p),
         NEW attn \in {"claimed", "sending", "delivery_unknown"}, question' = Marked(p, attn)
  PROVE  Effect(proc[p].q, question[proc[p].q].state, attn, question[proc[p].q].blind)
<1> PICK q : q = proc[p].q
  OBVIOUS
<1> PICK it : it = MarkedQuestion(p, attn)
  OBVIOUS
<1>1. q \in Questions
  BY AtWork
<1>2. /\ it \in Question /\ it.state = question[q].state /\ it.attn = attn /\ it.blind = question[q].blind
      /\ question' = [question EXCEPT ![q] = it]
  BY MarkedFits DEF Fits
<1> QED
  BY <1>1, <1>2, EffectOf

LEMMA DispatchDeliveredEffect ==
  ASSUME ClientInv, NEW p \in Procs, DispatchDelivered(p)
  PROVE  Effect(proc[p].q, "awaiting_reply", "delivered", question[proc[p].q].blind)
<1> PICK q : q = proc[p].q
  OBVIOUS
<1>1. q \in Asked
  BY AtWork DEF DispatchDelivered, IsDispatcher, DispatcherSteps
<1>2. q \in Questions /\ question[q] \in Question
  BY <1>1, AskedQuestion
<1> PICK it : it = [question[q] EXCEPT !.attn = "delivered", !.lease = 0, !.bound = TRUE, !.state = "awaiting_reply"]
  OBVIOUS
<1>3. it \in Question /\ it.state = "awaiting_reply" /\ it.attn = "delivered" /\ it.blind = question[q].blind
  BY <1>2 DEF Question
<1>4. question' = [question EXCEPT ![q] = it]
  BY <1>2 DEF DispatchDelivered, ClientInv, ClientTypes
<1> QED
  BY <1>2, <1>3, <1>4, EffectOf

LEMMA WithdrawStoreEffect ==
  ASSUME ClientInv, NEW p \in Procs, WithdrawStore(p)
  PROVE  \E state \in Terminal :
           /\ Effect(proc[p].q, state, "cancelled", question[proc[p].q].blind)
           /\ state \in {"expired", "cancelled", question[proc[p].q].state}
<1> PICK q : q = proc[p].q
  OBVIOUS
<1>1. q \in Asked
  BY AtWork DEF WithdrawStore, IsDispatcher, DispatcherSteps
<1>2. q \in Questions /\ question[q] \in Question
  BY <1>1, AskedQuestion
<1> PICK old : old = IF question[q].state \in Terminal THEN question[q]
                     ELSE Closed(question[q], IF q \in overdue THEN "expired" ELSE "cancelled")
  OBVIOUS
<1>3. /\ old \in Question /\ old.state \in Terminal /\ old.blind = question[q].blind
      /\ old.state \in {"expired", "cancelled", question[q].state}
  <2>1. CASE question[q].state \in Terminal
    BY <1>2, <2>1
  <2>2. CASE question[q].state \notin Terminal
    <3> PICK state : state = IF q \in overdue THEN "expired" ELSE "cancelled"
      OBVIOUS
    <3>1. state \in Terminal /\ old = Closed(question[q], state) /\ state \in {"expired", "cancelled"}
      BY <2>2 DEF Terminal
    <3> QED
      BY <1>1, <3>1, ClosedFits DEF Fits
  <2> QED
    BY <2>1, <2>2
<1> PICK it : it = [old EXCEPT !.attn = "cancelled", !.lease = 0]
  OBVIOUS
<1>4. it \in Question /\ it.state = old.state /\ it.attn = "cancelled" /\ it.blind = old.blind
  BY <1>3 DEF Question
<1>5. question' = [question EXCEPT ![q] = it]
  BY <1>2 DEF WithdrawStore, ClientInv, ClientTypes
<1> QED
  BY <1>2, <1>3, <1>4, <1>5, EffectOf

LEMMA CancelStoreEffect ==
  ASSUME ClientInv, NEW p \in Procs, CancelStore(p)
  PROVE  LET q == proc[p].q IN
         \/ question' = question
         \/ /\ question[q].state \notin Terminal \cup InApply
            /\ Effect(q, "cancelled",
                      IF question[q].attn \in {"queued", "claimed"} THEN "cancelled" ELSE question[q].attn,
                      question'[q].blind)
            /\ question'[q].blind <=> proc[p].seen = "none"
<1> PICK q : q = proc[p].q
  OBVIOUS
<1>1. q \in Asked
  BY AtWork DEF CancelStore, IsCanceller, CancellerSteps
<1>2. q \in Questions /\ question[q] \in Question
  BY <1>1, AskedQuestion
<1>3. CASE question' # question
  <2> PICK old : old = Closed(question[q], "cancelled")
    OBVIOUS
  <2>1. old \in Question /\ old.state = "cancelled" /\ old.attn = question[q].attn
    BY <1>1, ClosedFits DEF Terminal, Fits
  <2> PICK it : it = Cancelled(question[q], proc[p].seen)
    OBVIOUS
  <2>2. /\ it \in Question /\ it.state = "cancelled" /\ (it.blind <=> proc[p].seen = "none")
        /\ it.attn = IF question[q].attn \in {"queued", "claimed"} THEN "cancelled" ELSE question[q].attn
    BY <2>1, CancelledShape
  <2>3. question[q].state \notin Terminal \cup InApply /\ question' = [question EXCEPT ![q] = it]
    BY <1>3 DEF CancelStore
  <2>4. Effect(q, it.state, it.attn, it.blind) /\ question'[q] = it
    BY <1>2, <2>2, <2>3, EffectOf, OneQuestion DEF ClientInv
  <2> QED
    BY <2>2, <2>3, <2>4
<1> QED
  BY <1>3

LEMMA ExpireDueEffect ==
  ASSUME ClientInv, ExpireDue
  PROVE  /\ Asked' = Asked
         /\ \A q \in Asked :
              \/ question'[q] = question[q]
              \/ /\ q \in overdue /\ question[q].state \notin Terminal \cup InApply
                 /\ question'[q].state = "expired"
                 /\ question'[q].attn = question[q].attn
                 /\ question'[q].blind = question[q].blind
<1>1. ASSUME NEW q \in Questions
      PROVE  \/ question'[q] = question[q]
             \/ /\ q \in Asked \cap overdue /\ question[q].state \in {"authorizing", "staged", "awaiting_reply"}
                /\ question'[q] = Closed(question[q], "expired")
  BY DEF ExpireDue
<1>2. ASSUME NEW q \in Asked, NEW it, it = Closed(question[q], "expired")
      PROVE  /\ it \in Question /\ it.state = "expired" /\ it.attn = question[q].attn
             /\ it.blind = question[q].blind
  BY <1>2, ClosedFits DEF Terminal, Fits
<1>3. ASSUME NEW q \in Asked
      PROVE  \/ question'[q] = question[q]
             \/ /\ q \in overdue /\ question[q].state \in {"authorizing", "staged", "awaiting_reply"}
                /\ question'[q] \in Question
                /\ question'[q].state = "expired"
                /\ question'[q].attn = question[q].attn
                /\ question'[q].blind = question[q].blind
  BY <1>1, <1>2 DEF Asked
<1>4. Asked' = Asked
  BY <1>1, <1>3, EnrichmentClientAssumption DEF Asked
<1> QED
  BY <1>3, <1>4 DEF Terminal, InApply

-----------------------------------------------------------------------------
(* An applier changes its question's state only, from one of those in which *)
(* the question was shown and answered.                                     *)
AnswerEffect(q, states) ==
  /\ question[q].state \in {"awaiting_reply"} \cup InApply
  /\ \E state \in states : Effect(q, state, question[q].attn, question[q].blind)

LEMMA ApplyStartEffect ==
  ASSUME ClientInv, NEW p \in Appliers, NEW q \in Questions, NEW s \in Submissions, ApplyStart(p, q, s)
  PROVE  q \in Asked /\ AnswerEffect(q, InApply)
<1>1. /\ p \in Procs /\ q \in Asked /\ question[q].capable /\ question[q].submission \in {Nothing, s}
      /\ question[q].state \in {"awaiting_reply"} \cup InApply
  BY DEF Procs, ApplyStart
<1> PICK it : it = Given(q, p, s)
  OBVIOUS
<1>2. it \in Question /\ it.state \in InApply /\ it.attn = question[q].attn /\ it.blind = question[q].blind
  BY <1>1, GivenFits DEF Fits
<1>3. question' = [question EXCEPT ![q] = it]
  BY DEF ApplyStart, Given
<1>4. Effect(q, it.state, it.attn, it.blind)
  BY <1>2, <1>3, EffectOf
<1> QED
  BY <1>1, <1>2, <1>4 DEF AnswerEffect

LEMMA AnswerEffectOf ==
  ASSUME ClientInv, NEW q \in Asked, question[q].state \in {"awaiting_reply"} \cup InApply,
         NEW it \in Question, it.attn = question[q].attn, it.blind = question[q].blind,
         question' = [question EXCEPT ![q] = it]
  PROVE  AnswerEffect(q, {it.state})
<1>1. q \in Questions
  BY DEF Asked
<1>2. Effect(q, it.state, question[q].attn, question[q].blind)
  BY <1>1, EffectOf
<1> QED
  BY <1>2 DEF AnswerEffect

LEMMA ApplyProofEffect ==
  ASSUME ClientInv, NEW p \in Procs, NEW answered \in BOOLEAN, ApplyProof(p, answered)
  PROVE  question' = question \/ AnswerEffect(proc[p].q, {"awaiting_reply"})
<1> PICK q : q = proc[p].q
  OBVIOUS
<1>1. q \in Asked
  BY ApplierAtWork DEF ApplyProof, IsApplier, ApplierSteps
<1> PICK it : it = Handed(q)
  OBVIOUS
<1>2. it \in Question /\ it.state = "awaiting_reply" /\ it.attn = question[q].attn /\ it.blind = question[q].blind
  BY <1>1, HandedFits DEF Fits
<1>3. CASE Owns(p, {"applying"}) /\ question' = Restored(p)
  <2>1. question' = [question EXCEPT ![q] = it] /\ question[q].state = "applying"
    BY <1>1, <1>3, AskedQuestion DEF Owns, Restored, Handed, ClientInv, ClientTypes
  <2> QED
    BY <1>1, <1>2, <2>1, AnswerEffectOf DEF InApply
<1> QED
  BY <1>3 DEF ApplyProof, Restored

LEMMA ApplyKeepsAnswering ==
  ASSUME ClientInv, NEW p \in Procs,
         \/ ApplyUnknown(p) \/ ApplyReceipt(p)
         \/ \E result \in {"verified", "unverified", "failed"} : ApplyRead(p, result)
  PROVE  question' = question \/ AnswerEffect(proc[p].q, InApply)
<1> PICK q : q = proc[p].q
  OBVIOUS
<1>1. q \in Asked /\ question[q] \in Question
  BY ApplierAtWork, AskedQuestion DEF ApplyUnknown, ApplyReceipt, ApplyRead, IsApplier, ApplierSteps
<1>2. ASSUME NEW it \in Question, question[q].state \in InApply, it.state \in InApply,
             it.attn = question[q].attn, it.blind = question[q].blind, question' = [question EXCEPT ![q] = it]
      PROVE  AnswerEffect(q, InApply)
  BY <1>1, <1>2, AnswerEffectOf DEF AnswerEffect
<1>3. CASE ApplyUnknown(p) /\ question' # question
  <2> PICK it : it = Doubted(q)
    OBVIOUS
  <2>1. question[q].state \in InApply
    BY <1>3 DEF ApplyUnknown, Owns, InApply
  <2>2. /\ it \in Question /\ it.state \in InApply /\ it.attn = question[q].attn
        /\ it.blind = question[q].blind
    BY <1>1, <2>1, DoubtedFits DEF Fits, InApply
  <2>3. question' = [question EXCEPT ![q] = it]
    BY <1>1, <1>3 DEF ApplyUnknown, Doubted, ClientInv, ClientTypes, Asked
  <2> QED
    BY <1>2, <2>1, <2>2, <2>3
<1>4. CASE ApplyReceipt(p) /\ question' # question
  <2> PICK it : it = Committed(q)
    OBVIOUS
  <2>1. question[q].state \in InApply
    BY <1>4 DEF ApplyReceipt, Owns, InApply
  <2>2. /\ it \in Question /\ it.state \in InApply /\ it.attn = question[q].attn
        /\ it.blind = question[q].blind
    BY <1>1, <2>1, CommittedFits DEF Fits, InApply
  <2>3. question' = [question EXCEPT ![q] = it]
    BY <1>1, <1>4 DEF ApplyReceipt, Committed, ClientInv, ClientTypes, Asked
  <2> QED
    BY <1>2, <2>1, <2>2, <2>3
<1>5. ASSUME NEW result, ApplyRead(p, result), question' # question
      PROVE  AnswerEffect(q, InApply)
  <2> PICK it : it = Unleased(q)
    OBVIOUS
  <2>1. question[q].state \in InApply /\ question' = [question EXCEPT ![q].leased = FALSE]
    BY <1>5 DEF ApplyRead, Owns, InApply
  <2>2. /\ it \in Question /\ it.state = question[q].state /\ it.attn = question[q].attn
        /\ it.blind = question[q].blind
    BY <1>1, UnleasedFits DEF SameButDelivery
  <2>3. question' = [question EXCEPT ![q] = it]
    BY <1>1, <2>1 DEF Unleased, ClientInv, ClientTypes, Asked
  <2> QED
    BY <1>2, <2>1, <2>2, <2>3
<1> QED
  BY <1>3, <1>4, <1>5

(* A question is given up only by an applier that knows it was refused, and *)
(* finished only by one that saw the answer.                                *)
LEMMA ApplyEndsEffect ==
  ASSUME ClientInv, NEW p \in Procs, ApplyGivesUp(p) \/ ApplyFinish(p)
  PROVE  LET q == proc[p].q IN
         \/ question' = question
         \/ ApplyGivesUp(p) /\ AnswerEffect(q, {"stale"}) /\ applied[q] = {}
         \/ /\ ApplyFinish(p) /\ AnswerEffect(q, {"verified_applied", "unknown", "skipped"})
            /\ applied[q] = {question[q].submission}
<1> PICK q : q = proc[p].q
  OBVIOUS
<1>1. IsApplier(p)
  BY DEF ApplyGivesUp, ApplyFinish, IsApplier, ApplierSteps
<1>2. q \in Asked /\ q \in Questions /\ proc[p].s \in Submissions /\ proc[p].s = question[q].submission
  BY <1>1, ApplierAtWork
<1>3. CASE ApplyGivesUp(p) /\ question' # question
  <2> PICK it : it = Closed(question[q], "stale")
    OBVIOUS
  <2>1. it \in Question /\ it.state = "stale" /\ it.attn = question[q].attn /\ it.blind = question[q].blind
    BY <1>2, ClosedFits DEF Fits, Terminal
  <2>2. question[q].state \in InApply /\ question' = [question EXCEPT ![q] = it]
    BY <1>2, <1>3 DEF ApplyGivesUp, Owns, ClientInv, ClientTypes
  <2>3. applied[q] = {}
    BY <1>1, <1>3, ApplierAtWork DEF ApplyGivesUp, Refused
  <2>4. AnswerEffect(q, {"stale"})
    BY <1>2, <2>1, <2>2, AnswerEffectOf
  <2> QED
    BY <1>3, <2>3, <2>4
<1>4. CASE ApplyFinish(p) /\ question' # question
  <2> PICK state : state = FinalState(proc[p].s)
    OBVIOUS
  <2> PICK it : it = Closed(question[q], state)
    OBVIOUS
  <2>1. state \in {"verified_applied", "unknown", "skipped"} /\ state \in Terminal
    BY <1>2, FinalStates DEF Terminal
  <2>2. it \in Question /\ it.state = state /\ it.attn = question[q].attn /\ it.blind = question[q].blind
    BY <1>2, <2>1, ClosedFits DEF Fits
  <2>3. question[q].state \in InApply /\ question' = [question EXCEPT ![q] = it]
    BY <1>2, <1>4 DEF ApplyFinish, Owns, ClientInv, ClientTypes, InApply
  <2>4. proc[p].s \in applied[q] /\ applied[q] \subseteq {question[q].submission}
    BY <1>1, <1>2, <1>4, ApplierAtWork, AskedQuestion DEF ApplyFinish, Fits
  <2>5. AnswerEffect(q, {state})
    BY <1>2, <2>2, <2>3, AnswerEffectOf
  <2>6. AnswerEffect(q, {"verified_applied", "unknown", "skipped"})
    BY <2>1, <2>5 DEF AnswerEffect
  <2> QED
    BY <1>2, <1>4, <2>4, <2>6
<1> QED
  BY <1>3, <1>4

LEMMA LeaseLapsesEffect ==
  ASSUME ClientInv, NEW q \in Questions, ApplyLeaseLapses(q)
  PROVE  q \in Asked /\ Effect(q, question[q].state, question[q].attn, question[q].blind)
<1>1. q \in Asked
  BY DEF ApplyLeaseLapses
<1> PICK it : it = Unleased(q)
  OBVIOUS
<1>2. /\ it \in Question /\ it.state = question[q].state /\ it.attn = question[q].attn
      /\ it.blind = question[q].blind
  BY <1>1, UnleasedFits DEF SameButDelivery
<1>3. question' = [question EXCEPT ![q] = it]
  BY <1>1, UnleasedFits DEF ApplyLeaseLapses
<1> QED
  BY <1>1, <1>2, <1>3, EffectOf

-----------------------------------------------------------------------------
(* What a step may make of a question that is being answered.               *)
TrueOutcome(q) ==
  question[q].state \in InApply =>
    /\ question'[q].state = "stale" => applied[q] = {}
    /\ question'[q].state \in {"verified_applied", "unknown", "skipped"} => applied[q] = {question[q].submission}

LEMMA OutcomeOfEffect ==
  ASSUME NEW q, NEW state, NEW attn, NEW blind, Effect(q, state, attn, blind), NEW r \in Asked,
         r = q /\ question[q].state \in InApply =>
           /\ state = "stale" => applied[q] = {}
           /\ state \in {"verified_applied", "unknown", "skipped"} => applied[q] = {question[q].submission}
  PROVE  TrueOutcome(r)
BY DEF Effect, TrueOutcome, InApply

LEMMA OutcomeOfAttn ==
  ASSUME NEW q, NEW attn, AttnEffect(q, attn), NEW r \in Asked
  PROVE  TrueOutcome(r)
BY DEF AttnEffect, Effect, TrueOutcome, InApply

LEMMA OutcomeOfAnswer ==
  ASSUME NEW q, NEW states, AnswerEffect(q, states), NEW r \in Asked,
         "stale" \in states => applied[q] = {},
         \A s \in {"verified_applied", "unknown", "skipped"} : s \in states => applied[q] = {question[q].submission}
  PROVE  TrueOutcome(r)
BY DEF AnswerEffect, Effect, TrueOutcome, InApply

LEMMA NextOutcome ==
  ASSUME ClientInv, [ClientNext]_clientVars, NEW r \in Asked
  PROVE  TrueOutcome(r)
<1>1. CASE question' = question
  BY <1>1 DEF TrueOutcome, InApply
<1>2. ASSUME NEW p \in Procs, Stage(p) PROVE TrueOutcome(r)
  <2>1. ASSUME StageWrite(p) PROVE TrueOutcome(r)
    <3>1. CASE proc[p].q \in Asked
      BY <1>1, <2>1, <3>1, StageWriteEffect
    <3>2. CASE proc[p].q \notin Asked
      <4>1. Effect(proc[p].q, "authorizing", "none", FALSE)
        BY <2>1, <3>2, StageWriteEffect
      <4> QED
        BY <3>2, <4>1, OutcomeOfEffect
    <3> QED
      BY <3>1, <3>2
  <2>2. ASSUME StageStore(p) PROVE TrueOutcome(r)
    <3> PICK q : q = proc[p].q
      OBVIOUS
    <3> PICK attn : attn = question[q].attn
      OBVIOUS
    <3>1. Effect(q, "staged", attn, FALSE)
      BY <2>2, StageStoreEffect
    <3> QED
      BY <3>1 DEF Effect, TrueOutcome, InApply
  <2>3. ASSUME StageRefused(p) PROVE TrueOutcome(r)
    <3>1. IsStager(p)
      BY <2>3 DEF StageRefused, IsStager, StagerSteps
    <3>2. CommandOK(p) /\ proc[p].q \in Asked
      BY <2>3, <3>1, AtWork DEF StageRefused
    <3>3. question[proc[p].q].state \notin InApply
      BY <3>1, <3>2, AskedQuestion DEF CommandOK, Fits
    <3> QED
      BY <2>3, <3>3, StageRefusedEffect, OutcomeOfEffect
  <2> QED
    BY <1>1, <1>2, <2>1, <2>2, <2>3 DEF Stage, StageBegin, StageAuthorize
<1>3. ASSUME NEW p \in Procs, Dispatch(p) PROVE TrueOutcome(r)
  <2>1. ASSUME NEW attn \in {"claimed", "sending", "delivery_unknown"}, IsDispatcher(p), question' = Marked(p, attn)
        PROVE  TrueOutcome(r)
    BY <2>1, MarkedEffect, OutcomeOfAttn DEF AttnEffect
  <2>2. ASSUME WithdrawStore(p) PROVE TrueOutcome(r)
    <3>1. PICK state \in Terminal :
            /\ Effect(proc[p].q, state, "cancelled", question[proc[p].q].blind)
            /\ state \in {"expired", "cancelled", question[proc[p].q].state}
      BY <2>2, WithdrawStoreEffect
    <3> QED
      BY <3>1, OutcomeOfEffect DEF Terminal, InApply
  <2>3. ASSUME DispatchDelivered(p) PROVE TrueOutcome(r)
    BY <2>3, DispatchDeliveredEffect, OutcomeOfEffect
  <2>4. ASSUME DispatchClaim(p) \/ DispatchSending(p) \/ \E answered \in BOOLEAN : DispatchDeliver(p, answered)
        PROVE  TrueOutcome(r)
    <3>1. IsDispatcher(p)
      BY <2>4 DEF DispatchClaim, DispatchSending, DispatchDeliver, IsDispatcher, DispatcherSteps
    <3> QED
      BY <1>1, <2>1, <2>4, <3>1 DEF DispatchClaim, DispatchSending, DispatchDeliver
  <2> QED
    BY <1>1, <1>3, <2>2, <2>3, <2>4 DEF Dispatch, RecoverWithdraws, DispatchStart, WithdrawIntent,
      DispatchBridge, DispatchRelease, DispatchBegin, DispatchComplete
<1>4. ASSUME NEW p \in Procs, Cancel(p) PROVE TrueOutcome(r)
  <2>1. ASSUME CancelStore(p) PROVE TrueOutcome(r)
    BY <1>1, <2>1, CancelStoreEffect, OutcomeOfEffect
  <2>2. ASSUME NEW answered \in BOOLEAN, CancelRelease(p, answered) PROVE TrueOutcome(r)
    <3>1. AttnEffect(proc[p].q, "completed")
      <4>1. proc[p].q \in Questions
        BY <2>2, AtWork DEF CancelRelease, IsCanceller, CancellerSteps
      <4> QED
        BY <2>2, <4>1, CallEffects
    <3> QED
      BY <3>1, OutcomeOfAttn
  <2> QED
    BY <1>1, <1>4, <2>1, <2>2 DEF Cancel, CancelStart, CancelBroker, CancelBridge
<1>5. ASSUME NEW p \in Appliers, Apply(p) PROVE TrueOutcome(r)
  <2>1. p \in Procs
    BY DEF Procs
  <2>2. ASSUME NEW q \in Questions, NEW s \in Submissions, ApplyStart(p, q, s) PROVE TrueOutcome(r)
    BY <2>2, ApplyStartEffect, OutcomeOfAnswer DEF InApply
  <2>3. ASSUME NEW answered \in BOOLEAN, ApplyProof(p, answered) PROVE TrueOutcome(r)
    BY <1>1, <2>1, <2>3, ApplyProofEffect, OutcomeOfAnswer
  <2>4. ASSUME \/ ApplyUnknown(p) \/ ApplyReceipt(p)
               \/ \E result \in {"verified", "unverified", "failed"} : ApplyRead(p, result)
        PROVE  TrueOutcome(r)
    BY <1>1, <2>1, <2>4, ApplyKeepsAnswering, OutcomeOfAnswer DEF InApply
  <2>5. ASSUME ApplyGivesUp(p) \/ ApplyFinish(p) PROVE TrueOutcome(r)
    <3>1. CASE AnswerEffect(proc[p].q, {"stale"}) /\ applied[proc[p].q] = {}
      BY <3>1, OutcomeOfAnswer
    <3>2. CASE /\ AnswerEffect(proc[p].q, {"verified_applied", "unknown", "skipped"})
               /\ applied[proc[p].q] = {question[proc[p].q].submission}
      BY <3>2, OutcomeOfAnswer
    <3> QED
      BY <1>1, <2>1, <2>5, <3>1, <3>2, ApplyEndsEffect
  <2> QED
    BY <1>1, <1>5, <2>2, <2>3, <2>4, <2>5 DEF Apply, ApplyPost, ApplyPostFails
<1>6. ASSUME NEW q \in Questions, NEW answered \in BOOLEAN,
             SubmitAttention(q, answered) \/ CompleteAttention(q, answered)
      PROVE  TrueOutcome(r)
  <2>1. CASE CompleteAttention(q, answered)
    BY <2>1, CallEffects, OutcomeOfAttn
  <2>2. CASE SubmitAttention(q, answered)
    <3> PICK attn : attn = intent'[q].state
      OBVIOUS
    <3>1. AttnEffect(q, attn)
      BY <2>2, CallEffects
    <3> QED
      BY <3>1, OutcomeOfAttn
  <2> QED
    BY <1>6, <2>1, <2>2
<1>7. ASSUME NEW q \in Questions, ApplyLeaseLapses(q) \/ DeadlinePasses(q) \/ PersonChanges(q)
      PROVE  TrueOutcome(r)
  BY <1>1, <1>7, LeaseLapsesEffect, OutcomeOfAttn DEF AttnEffect, DeadlinePasses, PersonChanges
<1>8. CASE ExpireDue
  BY <1>8, ExpireDueEffect DEF TrueOutcome, InApply
<1>9. CASE RouteMoves \/ (\E p \in Procs : Crash(p)) \/ UNCHANGED clientVars
  BY <1>1, <1>9 DEF RouteMoves, Crash, clientVars
<1> QED
  BY <1>2, <1>3, <1>4, <1>5, <1>6, <1>7, <1>8, <1>9 DEF ClientNext, Procs

(* An applier gives a question up only when the backend has no answer to it *)
(* and finishes it only when the backend has the one it sent, although      *)
(* another may own the question by then.                                    *)
THEOREM EnrichmentOutcomes == ClientSpec => OutcomesAreTrue
<1> DEFINE Told ==
      \A q \in Asked : question[q].state \in InApply =>
       /\ question'[q].state = "stale" => applied[q] = {}
       /\ question'[q].state \in {"verified_applied", "unknown", "skipped"}
            => applied[q] = {question[q].submission}
<1>1. ClientInv /\ [ClientNext]_clientVars => [Told]_clientVars
  BY NextOutcome DEF TrueOutcome
<1> QED
  BY <1>1, EnrichmentClientInvariant, PTL DEF ClientSpec, OutcomesAreTrue

-----------------------------------------------------------------------------
(* What a step may do to one question without another becoming open: the    *)
(* question does not open, and what commands know of its delivery stays.    *)
Calm(q) ==
  /\ Settled(q) => Settled(q)'
  /\ question[q].attn # "none" => question'[q].attn # "none"
  /\ intent[q].state = "cancelled" => intent'[q].state = "cancelled"
  /\ intent[q].state \in {"delivered", "completed"} => intent'[q].state \in {"delivered", "completed"}
  /\ DeliveryOK(q)'

StaysShut(q) ==
  /\ Open(q)' => Open(q)
  /\ question[q].state = "authorizing" => question'[q].state = "authorizing" \/ ~Open(q)'

(* Nothing that a dispatcher is working on is recorded as delivered.        *)
Undelivered == \A q \in Asked : Settled(q)' => Settled(q) \/ question[q].attn = "none"

LEMMA DeliveryWorkKept ==
  ASSUME ClientInv, OpenInv, \A q \in Asked : Calm(q), NEW o \in Procs, proc'[o] = proc[o],
         IsDispatcher(o) => Undelivered
  PROVE  DeliveryWork(o)'
<1> PICK q : q = proc[o].q
  OBVIOUS
<1>1. DeliveryWork(o)
  BY DEF OpenInv
<1>2. CASE proc[o] = AtRest \/ IsStager(o) \/ IsApplier(o)
  <2>1. proc[o].pc \notin DispatcherSteps \cup CancellerSteps
    BY <1>2 DEF AtRest, IsStager, IsApplier, StagerSteps, ApplierSteps, DispatcherSteps, CancellerSteps
  <2> QED
    BY <2>1 DEF DeliveryWork, IsDispatcher, DispatcherSteps, CancellerSteps
<1>3. CASE IsDispatcher(o) \/ IsCanceller(o)
  <2>1. q \in Asked
    BY <1>3, AtWork DEF IsDispatcher, IsCanceller, DispatcherSteps, CancellerSteps
  <2>2. Calm(q)
    BY <2>1
  <2>3. IsDispatcher(o) => ~Settled(q)'
    BY <1>1, <2>1 DEF Undelivered, DeliveryWork
  <2> QED
    BY <1>1, <2>2, <2>3 DEF DeliveryWork, Calm, IsDispatcher, Settled
<1> QED
  BY <1>2, <1>3, WorkShape DEF ClientInv

LEMMA StagingWorkKept ==
  ASSUME ClientInv, OpenInv, Asked' = Asked, \A q \in Asked : StaysShut(q), NEW o \in Procs, proc'[o] = proc[o]
  PROVE  StagingWork(o)'
<1> SUFFICES ASSUME IsStager(o), proc[o].pc # "write" \/ proc[o].recovers
             PROVE  StagingWork(o)'
  BY DEF StagingWork, IsStager
<1> PICK q : q = proc[o].q
  OBVIOUS
<1>1. q \in Asked
  BY AtWork DEF CommandOK
<1>2. /\ \A q2 \in Asked : q2 # q => ~Open(q2)
      /\ question[q].state = "authorizing" \/ ~Open(q)
  BY DEF OpenInv, StagingWork
<1>3. /\ \A q2 \in Asked' : q2 # q => ~Open(q2)'
      /\ question'[q].state = "authorizing" \/ ~Open(q)'
  BY <1>1, <1>2 DEF StaysShut
<1>4. proc'[o].q = q
  OBVIOUS
<1> QED
  BY <1>3, <1>4 DEF StagingWork, Open

(* A step that opens nothing.                                               *)
LEMMA OpenKept ==
  ASSUME ClientInv, OpenInv, Asked' = Asked, \A q \in Asked : Calm(q) /\ StaysShut(q),
         \A o \in Procs : \/ proc'[o] = proc[o] /\ (IsDispatcher(o) => Undelivered)
                          \/ DeliveryWork(o)' /\ StagingWork(o)'
  PROVE  OpenInv'
<1>1. \A o \in Procs : DeliveryWork(o)' /\ StagingWork(o)'
  BY DeliveryWorkKept, StagingWorkKept
<1>2. OneOpen'
  BY DEF OpenInv, OneOpen, StaysShut
<1>3. \A q \in Asked' : DeliveryOK(q)'
  BY DEF Calm
<1> QED
  BY <1>1, <1>2, <1>3 DEF OpenInv

(* A step of a stager: no other command stages.                             *)
LEMMA OpenByStager ==
  ASSUME ClientInv, OpenInv, NEW p \in Procs, IsStager(p) \/ IsStager(p)',
         \A q \in Asked : Calm(q), \A q \in Asked' : DeliveryOK(q)', OneOpen', Undelivered,
         \A o \in Procs : o # p => proc'[o] = proc[o] /\ ~IsStager(o),
         DeliveryWork(p)', StagingWork(p)'
  PROVE  OpenInv'
<1>1. \A o \in Procs : DeliveryWork(o)'
  BY DeliveryWorkKept
<1>2. \A o \in Procs : StagingWork(o)'
  BY DEF StagingWork, IsStager
<1> QED
  BY <1>1, <1>2 DEF OpenInv

LEMMA AtRestOpen ==
  ASSUME NEW p \in Procs, proc'[p] = AtRest
  PROVE  DeliveryWork(p)' /\ StagingWork(p)'
<1>1. proc'[p].pc = "idle"
  BY DEF AtRest
<1> QED
  BY <1>1 DEF DeliveryWork, StagingWork, IsDispatcher, IsStager, DispatcherSteps, StagerSteps

(* A question of which only the intent changes, or not even that.           *)
LEMMA IntentCalm ==
  ASSUME OpenInv, NEW q \in Asked, question'[q] = question[q], overdue \subseteq overdue',
         \/ intent'[q].state = intent[q].state
         \/ intent'[q].state = "cancelled" /\ question[q].attn # "none"
         \/ /\ intent[q].state \notin {"none", "cancelled"}
            /\ \/ question[q].attn # "none"
               \/ intent'[q].state \in {"queued", "claimed"},
         intent[q].state = "cancelled" => intent'[q].state = "cancelled",
         intent[q].state \in {"delivered", "completed"} => intent'[q].state \in {"delivered", "completed"}
  PROVE  Calm(q) /\ StaysShut(q)
<1>1. DeliveryOK(q)
  BY DEF OpenInv
<1> QED
  BY <1>1 DEF Calm, StaysShut, DeliveryOK, Open, Pending, Settled, InApply

-----------------------------------------------------------------------------
(* The other questions are calm when one is.                                *)
LEMMA EffectCalm ==
  ASSUME ClientInv, OpenInv, NEW q \in Asked, NEW state, NEW attn, NEW blind, Effect(q, state, attn, blind),
         overdue' = overdue, \A o \in Questions : o # q => intent'[o] = intent[o],
         Calm(q), StaysShut(q)
  PROVE  Asked' = Asked /\ \A o \in Asked : Calm(o) /\ StaysShut(o)
<1>1. Asked' = Asked
  BY DEF Effect
<1>2. ASSUME NEW o \in Asked, o # q PROVE Calm(o) /\ StaysShut(o)
  <2>1. question'[o] = question[o] /\ intent'[o] = intent[o]
    BY <1>2, AskedQuestion DEF Effect
  <2> QED
    BY <2>1, IntentCalm
<1> QED
  BY <1>1, <1>2

LEMMA EffectUndelivered ==
  ASSUME NEW q \in Asked, NEW state, NEW attn, NEW blind, Effect(q, state, attn, blind),
         attn \notin {"delivered", "completed"} \/ attn = question[q].attn \/ Settled(q)
  PROVE  Undelivered
BY DEF Undelivered, Effect, Settled

(* A step of one command, in which one question changes, or its intent.     *)
LEMMA OpenByCommand ==
  ASSUME ClientInv, OpenInv, NEW p \in Procs, NEW q \in Asked,
         NEW state, NEW attn, NEW blind, Effect(q, state, attn, blind),
         overdue' = overdue, \A o \in Questions : o # q => intent'[o] = intent[o],
         Calm(q), StaysShut(q),
         attn \notin {"delivered", "completed"} \/ attn = question[q].attn \/ Settled(q),
         \A o \in Procs : o # p => proc'[o] = proc[o],
         DeliveryWork(p)', StagingWork(p)'
  PROVE  OpenInv'
<1>1. Asked' = Asked /\ \A o \in Asked : Calm(o) /\ StaysShut(o)
  BY EffectCalm
<1>2. Undelivered
  BY EffectUndelivered
<1> QED
  BY <1>1, <1>2, OpenKept

LEMMA OpenByWorld ==
  ASSUME ClientInv, OpenInv, NEW q \in Asked,
         NEW state, NEW attn, NEW blind, Effect(q, state, attn, blind),
         overdue' = overdue, \A o \in Questions : o # q => intent'[o] = intent[o],
         Calm(q), StaysShut(q),
         attn \notin {"delivered", "completed"} \/ attn = question[q].attn \/ Settled(q),
         proc' = proc
  PROVE  OpenInv'
<1>1. Asked' = Asked /\ \A o \in Asked : Calm(o) /\ StaysShut(o)
  BY EffectCalm
<1>2. Undelivered
  BY EffectUndelivered
<1> QED
  BY <1>1, <1>2, OpenKept

(* A step that changes neither the file nor an intent.                      *)
LEMMA OpenUntouched ==
  ASSUME ClientInv, OpenInv, UNCHANGED <<question, intent>>, overdue \subseteq overdue',
         \A o \in Procs : proc'[o] = proc[o] \/ (DeliveryWork(o)' /\ StagingWork(o)')
  PROVE  OpenInv'
<1>1. Asked' = Asked
  BY DEF Asked
<1>2. \A q \in Asked : Calm(q) /\ StaysShut(q)
  BY IntentCalm
<1>3. Undelivered
  BY DEF Undelivered, Settled
<1> QED
  BY <1>1, <1>2, <1>3, OpenKept

----------------------------------------------------------------------------
(* Staging.                                                                 *)
LEMMA NoneActive ==
  ASSUME ClientInv, NEW q \in Asked \ Active
  PROVE  ~Open(q)
BY ActiveQuestions DEF Open

LEMMA StageBeginOpen ==
  ASSUME ClientInv, OpenInv, NEW p \in Procs, NEW q \in Questions, StageBegin(p, q)
  PROVE  OpenInv'
<1> PICK w : w = [pc |-> "write", q |-> q, recovers |-> Active # {}]
  OBVIOUS
<1>1. w \in Work /\ w.pc = "write" /\ w.q = q /\ (w.recovers <=> Active # {})
  BY DEF StagerWork, StagerSteps, Work
<1>2. proc'[p] = w /\ \A o \in Procs : o # p => proc'[o] = proc[o]
  BY <1>1, CommandBecomes DEF StageBegin, ClientInv
<1>3. question' = question /\ overdue' = overdue /\ intent' = intent /\ Asked' = Asked
  BY DEF StageBegin, times, route, Asked
<1>4. DeliveryWork(p)'
  BY <1>1, <1>2 DEF DeliveryWork, IsDispatcher, DispatcherSteps
<1>5. Active # {} => Active = {q} /\ question[q].state = "authorizing"
  BY DEF StageBegin
<1>6. \A q2 \in Asked : w.recovers /\ q2 # q => ~Open(q2)
  BY <1>1, <1>5, NoneActive
<1>7. StagingWork(p)'
  BY <1>1, <1>2, <1>3, <1>5, <1>6 DEF StagingWork, Open
<1> QED
  BY <1>2, <1>3, <1>4, <1>7, OpenUntouched

LEMMA StageWriteOpen ==
  ASSUME ClientInv, OpenInv, NEW p \in Procs, StageWrite(p)
  PROVE  OpenInv'
<1> PICK q : q = proc[p].q
  OBVIOUS
<1>1. IsStager(p) /\ Goes(p, "authorize") /\ q \in Questions /\ CommandOK(p)
  BY AtWork DEF StageWrite, IsStager, StagerSteps
<1>2. Moves(p, "authorize")
  BY <1>1, StagerGoes DEF ClientInv, StagerSteps
<1>3. proc'[p].pc = "authorize" /\ proc'[p].q = q /\ \A o \in Procs : o # p => proc'[o] = proc[o]
  BY <1>2 DEF Moves
<1>4. \A o \in Procs : o # p => ~IsStager(o)
  BY <1>1 DEF ClientInv, OneStager
<1>5. overdue' = overdue /\ intent' = intent
  BY DEF StageWrite, times, route
<1>6. DeliveryWork(p)'
  BY <1>3 DEF DeliveryWork, IsDispatcher, DispatcherSteps
<1>7. CASE q \in Asked
  <2>1. question' = question /\ Asked' = Asked
    BY <1>7, StageWriteEffect DEF Asked
  <2>2. /\ \A q2 \in Asked : q2 # q => ~Open(q2)
        /\ question[q].state = "authorizing" \/ ~Open(q)
    <3>1. CASE proc[p].recovers
      BY <1>1, <3>1 DEF OpenInv, StagingWork
    <3>2. CASE Active = {}
      BY <1>7, <3>2, NoneActive
    <3> QED
      BY <3>1, <3>2 DEF StageWrite
  <2>3. StagingWork(p)'
    BY <1>3, <1>5, <2>1, <2>2 DEF StagingWork, Open
  <2> QED
    BY <1>3, <1>5, <1>6, <2>1, <2>3, OpenUntouched
<1>8. CASE q \notin Asked
  <2>1. Effect(q, "authorizing", "none", FALSE)
    BY <1>8, StageWriteEffect
  <2>2. Active = {}
    BY <1>1, <1>8 DEF StageWrite, CommandOK
  <2>3. /\ Asked' = Asked \cup {q} /\ question'[q].state = "authorizing" /\ question'[q].attn = "none"
        /\ \A o \in Asked : question'[o] = question[o] /\ o # q
    BY <1>8, <2>1 DEF Effect
  <2>4. \A o \in Asked : Calm(o)
    BY <1>5, <2>3, IntentCalm
  <2>5. \A o \in Asked : ~Open(o)'
    BY <1>5, <2>2, <2>3, NoneActive DEF Open
  <2>6. intent'[q].state = "none"
    BY <1>1, <1>5, <1>8 DEF ClientInv, QuestionOK
  <2>7. DeliveryOK(q)'
    BY <2>3, <2>6 DEF DeliveryOK, InApply
  <2>8. \A o \in Asked' : DeliveryOK(o)'
    BY <2>3, <2>4, <2>7 DEF Calm
  <2>9. OneOpen'
    BY <2>3, <2>5 DEF OneOpen
  <2>10. Undelivered
    BY <2>3 DEF Undelivered, Settled
  <2>11. StagingWork(p)'
    BY <1>3, <2>3, <2>5 DEF StagingWork
  <2> QED
    BY <1>1, <1>3, <1>4, <1>6, <2>4, <2>8, <2>9, <2>10, <2>11, OpenByStager
<1> QED
  BY <1>7, <1>8

-----------------------------------------------------------------------------
LEMMA StageAuthorizeOpen ==
  ASSUME ClientInv, OpenInv, NEW p \in Procs, NEW answered \in BOOLEAN, StageAuthorize(p, answered)
  PROVE  OpenInv'
<1> PICK q : q = proc[p].q
  OBVIOUS
<1>1. IsStager(p) /\ proc[p].pc = "authorize"
  BY DEF StageAuthorize, IsStager, StagerSteps
<1>2. question' = question /\ overdue' = overdue /\ intent' = intent /\ Asked' = Asked
  BY DEF StageAuthorize, times, route, Asked
<1>3. CASE Goes(p, "store")
  <2>1. proc'[p].pc = "store" /\ proc'[p].q = q /\ \A o \in Procs : o # p => proc'[o] = proc[o]
    BY <1>1, <1>3, StagerGoes DEF ClientInv, StagerSteps, Moves
  <2>2. DeliveryWork(p)'
    BY <2>1 DEF DeliveryWork, IsDispatcher, DispatcherSteps
  <2>3. /\ \A q2 \in Asked : q2 # q => ~Open(q2)
        /\ question[q].state = "authorizing" \/ ~Open(q)
    BY <1>1 DEF OpenInv, StagingWork
  <2>4. StagingWork(p)'
    BY <1>2, <2>1, <2>3 DEF StagingWork, Open
  <2> QED
    BY <1>2, <2>1, <2>2, <2>4, OpenUntouched
<1>4. CASE Ends(p)
  <2>1. proc'[p] = AtRest /\ \A o \in Procs : o # p => proc'[o] = proc[o]
    BY <1>4, CommandBecomes DEF Ends, ClientInv, Work
  <2> QED
    BY <1>2, <2>1, AtRestOpen, OpenUntouched
<1> QED
  BY <1>3, <1>4 DEF StageAuthorize

LEMMA StageEndsOpen ==
  ASSUME ClientInv, OpenInv, NEW p \in Procs, StageStore(p) \/ StageRefused(p)
  PROVE  OpenInv'
<1> PICK q : q = proc[p].q
  OBVIOUS
<1>1. IsStager(p) /\ proc[p].pc # "write" /\ Ends(p)
  BY DEF StageStore, StageRefused, IsStager, StagerSteps
<1>2. q \in Asked
  BY <1>1, AtWork
<1>3. proc'[p] = AtRest /\ \A o \in Procs : o # p => proc'[o] = proc[o]
  BY <1>1, CommandBecomes DEF Ends, ClientInv, Work
<1>4. \A o \in Procs : o # p => ~IsStager(o)
  BY <1>1 DEF ClientInv, OneStager
<1>5. overdue' = overdue /\ intent' = intent
  BY DEF StageStore, StageRefused, times, route
<1>6. /\ \A q2 \in Asked : q2 # q => ~Open(q2)
      /\ question[q].state = "authorizing" \/ ~Open(q)
  BY <1>1 DEF OpenInv, StagingWork
<1>7. DeliveryOK(q)
  BY <1>2 DEF OpenInv
<1> PICK attn : attn = question[q].attn
  OBVIOUS
<1>8. PICK state, blind :
         /\ Effect(q, state, attn, blind)
         /\ state = "staged" \/ (state = "stale" /\ blind = question[q].blind)
  BY StageStoreEffect, StageRefusedEffect
<1>9. /\ Asked' = Asked /\ question'[q].state = state /\ question'[q].attn = question[q].attn
      /\ question'[q].blind = blind
      /\ \A o \in Asked : o # q => question'[o] = question[o]
  BY <1>2, <1>8 DEF Effect
<1>10. DeliveryOK(q)'
  <2>1. intent[q].state \notin {"none", "cancelled"} /\ ~Settled(q) => Pending(q)'
    BY <1>5, <1>6, <1>7, <1>8, <1>9 DEF Pending, Open, DeliveryOK, Settled, Terminal
  <2> QED
    BY <1>5, <1>7, <1>8, <1>9, <2>1 DEF DeliveryOK, Settled, InApply, Pending
<1>11. Calm(q)
  BY <1>5, <1>9, <1>10 DEF Calm, Settled
<1>12. \A o \in Asked : Calm(o)
  BY <1>5, <1>9, <1>11, IntentCalm
<1>13. \A o \in Asked : o # q => ~Open(o)'
  BY <1>5, <1>6, <1>9 DEF Open
<1>14. OneOpen'
  BY <1>9, <1>13 DEF OneOpen
<1>15. Undelivered
  BY <1>9 DEF Undelivered, Settled
<1>16. \A o \in Asked' : DeliveryOK(o)'
  BY <1>9, <1>12 DEF Calm
<1> QED
  BY <1>1, <1>3, <1>4, <1>12, <1>14, <1>15, <1>16, AtRestOpen, OpenByStager

-----------------------------------------------------------------------------
(* What the broker's operations make of an intent.                          *)
LEMMA BrokerIntent ==
  ASSUME ClientTypes, NEW q \in Questions, NEW lease, NEW answered \in BOOLEAN
  PROVE  /\ BeginDelivery(q, lease, answered) \/ Release(q, lease, answered)
              \/ Complete(q, lease, answered) \/ ReleaseVisible(q, answered)
            => intent'[q].state = intent[q].state \/ intent[q].state \notin {"none", "cancelled"}
         /\ Complete(q, lease, answered) /\ answered => intent'[q].state \in {"delivered", "completed"}
         /\ CancelIntent(q, lease, answered) =>
              /\ intent'[q].state = intent[q].state \/ intent'[q].state = "cancelled"
              /\ answered => intent'[q].state = "cancelled"
         /\ Submit(q, answered) =>
              /\ \/ intent'[q].state = intent[q].state
                 \/ intent[q].state = "none" /\ intent'[q].state = "queued"
              /\ answered => intent'[q].state # "none"
<1>1. intent[q] \in Intents
  BY DEF ClientTypes
<1>2. ASSUME NEW s, IntentBecomes(q, s) PROVE intent'[q].state = s
  BY <1>1, <1>2 DEF ClientTypes, Intents, IntentBecomes
<1>3. ASSUME Complete(q, lease, answered), answered PROVE intent'[q].state \in {"delivered", "completed"}
  <2> PICK s : s = IF intent[q].state = "sending" THEN "delivered" ELSE intent[q].state
    OBVIOUS
  <2>1. s \in {"delivered", "completed"} /\ IntentBecomes(q, s)
    BY <1>3 DEF Complete, Call
  <2> QED
    BY <1>2, <2>1
<1>4. ASSUME Submit(q, answered)
      PROVE  /\ \/ intent'[q].state = intent[q].state
                \/ intent[q].state = "none" /\ intent'[q].state = "queued"
             /\ answered => intent'[q].state # "none"
  <2> PICK s : s = IF intent[q].state = "none" THEN "queued" ELSE intent[q].state
    OBVIOUS
  <2>1. IntentBecomes(q, s) \/ (~answered /\ UNCHANGED route)
    BY <1>4 DEF Submit, Call
  <2>2. CASE IntentBecomes(q, s)
    BY <1>2, <2>2
  <2>3. CASE ~answered /\ UNCHANGED route
    BY <2>3 DEF route
  <2> QED
    BY <2>1, <2>2, <2>3
<1>5. ASSUME CancelIntent(q, lease, answered)
      PROVE  /\ intent'[q].state = intent[q].state \/ intent'[q].state = "cancelled"
             /\ answered => intent'[q].state = "cancelled"
  <2>1. IntentBecomes(q, "cancelled") \/ (~answered /\ UNCHANGED route)
    BY <1>5 DEF CancelIntent, Call
  <2> QED
    BY <1>2, <2>1 DEF route
<1>6. ASSUME \/ BeginDelivery(q, lease, answered) \/ Release(q, lease, answered)
             \/ Complete(q, lease, answered) \/ ReleaseVisible(q, answered)
      PROVE  intent'[q].state = intent[q].state \/ intent[q].state \notin {"none", "cancelled"}
  BY <1>6 DEF BeginDelivery, Release, Complete, ReleaseVisible, Call, route
<1> QED
  BY <1>3, <1>4, <1>5, <1>6

(* A dispatcher or canceller goes on.                                       *)
LEMMA WorkMoves ==
  ASSUME ClientInv, NEW p \in Procs, NEW pc \in DispatcherSteps \cup CancellerSteps,
         \/ IsDispatcher(p) /\ pc \in DispatcherSteps
         \/ IsCanceller(p) /\ pc \in CancellerSteps,
         Goes(p, pc)
  PROVE  /\ proc'[p].pc = pc /\ proc'[p].q = proc[p].q
         /\ IsCanceller(p) => proc'[p].seen = proc[p].seen
         /\ \A o \in Procs : o # p => proc'[o] = proc[o]
BY DispatcherGoes, CancellerGoes DEF ClientInv, Moves, IsDispatcher, IsCanceller, DispatcherSteps, CancellerSteps

LEMMA WorkEnds ==
  ASSUME ClientInv, OpenInv, NEW p \in Procs, Ends(p)
  PROVE  /\ \A o \in Procs : o # p => proc'[o] = proc[o]
         /\ DeliveryWork(p)' /\ StagingWork(p)'
<1>1. proc'[p] = AtRest /\ \A o \in Procs : o # p => proc'[o] = proc[o]
  BY CommandBecomes DEF Ends, ClientInv, Work
<1> QED
  BY <1>1, AtRestOpen

LEMMA DispatcherOn ==
  ASSUME NEW p \in Procs, NEW q, proc'[p].q = q, proc'[p].pc \in DispatcherSteps,
         ~Settled(q)', question'[q].attn # "none",
         proc'[p].pc = "delivered" => intent'[q].state \in {"delivered", "completed"},
         proc'[p].pc = "withdraw" => intent'[q].state = "cancelled"
  PROVE  DeliveryWork(p)' /\ StagingWork(p)'
<1>1. ~IsStager(p)' /\ proc'[p].pc \notin CancellerSteps
  BY DEF IsStager, StagerSteps, DispatcherSteps, CancellerSteps
<1> QED
  BY <1>1 DEF DeliveryWork, StagingWork, Settled, CancellerSteps

LEMMA DispatcherHas ==
  ASSUME ClientInv, OpenInv, NEW p \in Procs, IsDispatcher(p)
  PROVE  /\ proc[p].q \in Asked /\ proc[p].q \in Questions
         /\ ~Settled(proc[p].q) /\ question[proc[p].q].attn # "none"
         /\ question[proc[p].q].state \notin {"authorizing", "awaiting_reply"} \cup InApply
         /\ DeliveryOK(proc[p].q) /\ DeliveryWork(p)
<1>1. proc[p].q \in Asked /\ proc[p].q \in Questions
  BY AtWork DEF IsDispatcher, DispatcherSteps
<1>2. DeliveryOK(proc[p].q) /\ DeliveryWork(p)
  BY <1>1 DEF OpenInv
<1> QED
  BY <1>1, <1>2 DEF DeliveryWork, DeliveryOK

(* A step in which a command's question only has its intent changed.        *)
LEMMA OpenByCall ==
  ASSUME ClientInv, OpenInv, NEW p \in Procs, NEW q \in Asked, question[q].attn # "none",
         UNCHANGED <<question, times>>, RouteStep(q),
         \/ intent'[q].state = intent[q].state
         \/ intent'[q].state = "cancelled"
         \/ intent[q].state \notin {"none", "cancelled"},
         \A o \in Procs : o # p => proc'[o] = proc[o],
         DeliveryWork(p)', StagingWork(p)'
  PROVE  OpenInv'
<1> PICK state, attn, blind : state = question[q].state /\ attn = question[q].attn /\ blind = question[q].blind
  OBVIOUS
<1>1. Effect(q, state, attn, blind)
  BY NoEffect
<1>2. overdue' = overdue /\ question'[q] = question[q] /\ \A o \in Questions : o # q => intent'[o] = intent[o]
  BY DEF times, RouteStep
<1>3. Calm(q) /\ StaysShut(q)
  BY <1>2, IntentCalm DEF RouteStep, Onward
<1> QED
  BY <1>1, <1>2, <1>3, OpenByCommand

LEMMA DispatcherCallOpen ==
  ASSUME ClientInv, OpenInv, NEW p \in Procs, IsDispatcher(p), NEW pc \in DispatcherSteps,
         Goes(p, pc) \/ Ends(p), UNCHANGED <<question, times>>, RouteStep(proc[p].q),
         \/ intent'[proc[p].q].state = intent[proc[p].q].state
         \/ intent'[proc[p].q].state = "cancelled"
         \/ intent[proc[p].q].state \notin {"none", "cancelled"},
         Goes(p, pc) /\ pc = "delivered" => intent'[proc[p].q].state \in {"delivered", "completed"},
         Goes(p, pc) /\ pc = "withdraw" => intent'[proc[p].q].state = "cancelled"
  PROVE  OpenInv'
<1> PICK q : q = proc[p].q
  OBVIOUS
<1>1. q \in Asked /\ ~Settled(q) /\ question[q].attn # "none"
  BY DispatcherHas
<1>2. CASE Goes(p, pc)
  <2>1. proc'[p].pc = pc /\ proc'[p].q = q /\ \A o \in Procs : o # p => proc'[o] = proc[o]
    BY <1>2, WorkMoves
  <2>2. ~Settled(q)' /\ question'[q].attn # "none"
    BY <1>1 DEF Settled
  <2>3. DeliveryWork(p)' /\ StagingWork(p)'
    BY <1>2, <2>1, <2>2, DispatcherOn
  <2> QED
    BY <1>1, <2>1, <2>3, OpenByCall
<1>3. CASE Ends(p)
  BY <1>1, <1>3, WorkEnds, OpenByCall
<1> QED
  BY <1>2, <1>3

-----------------------------------------------------------------------------
(* Dispatching.                                                             *)
LEMMA DispatchBeginsOpen ==
  ASSUME ClientInv, OpenInv, NEW p \in Procs, NEW q \in Questions,
         RecoverWithdraws(p, q) \/ \E lease \in 1..MaxLeases : DispatchStart(p, q, lease)
  PROVE  OpenInv'
<1>1. /\ q \in Asked /\ question[q].attn \notin {"none", "delivered", "completed"}
      /\ UNCHANGED <<question, overdue, intent>>
  BY DEF RecoverWithdraws, DispatchStart, times, route
<1>2. question[q].lease \in Nat /\ \A lease \in 1..MaxLeases : lease \in Nat
  BY <1>1, AskedQuestion, RouteAssumption DEF Question
<1>3. PICK w \in DispatcherWork :
         Becomes(p, w) /\ w.q = q /\ w.pc \in DispatcherSteps \ {"delivered", "withdraw"}
  <2>1. CASE RecoverWithdraws(p, q)
    <3> PICK w : w = [pc |-> "cancel", q |-> q, lease |-> question[q].lease, after |-> "cancel"]
      OBVIOUS
    <3>1. w \in DispatcherWork /\ w.q = q /\ w.pc \in DispatcherSteps \ {"delivered", "withdraw"}
      BY <1>2 DEF DispatcherWork, DispatcherSteps
    <3> QED
      BY <2>1, <3>1 DEF RecoverWithdraws
  <2>2. ASSUME NEW lease \in 1..MaxLeases, DispatchStart(p, q, lease)
        PROVE  \E w \in DispatcherWork :
                 Becomes(p, w) /\ w.q = q /\ w.pc \in DispatcherSteps \ {"delivered", "withdraw"}
    <3> PICK after : after = AfterBridge(question[q])
      OBVIOUS
    <3> PICK pc : pc = IF question[q].state # "staged" \/ q \in overdue THEN "cancel"
                       ELSE IF question[q].bound THEN after ELSE "bridge"
      OBVIOUS
    <3>1. after \in {"claim", "begin", "deliver", "cancel"}
      BY DEF AfterBridge
    <3>2. pc \in DispatcherSteps \ {"delivered", "withdraw"}
      BY <3>1 DEF DispatcherSteps
    <3> PICK w : w = [pc |-> pc, q |-> q, lease |-> lease, after |-> after]
      OBVIOUS
    <3>3. w \in DispatcherWork /\ w.q = q /\ w.pc = pc
      BY <1>2, <3>1, <3>2 DEF DispatcherWork
    <3>4. Becomes(p, w)
      BY <2>2 DEF DispatchStart
    <3> QED
      BY <3>2, <3>3, <3>4
  <2> QED
    BY <2>1, <2>2
<1>4. proc'[p] = w /\ \A o \in Procs : o # p => proc'[o] = proc[o]
  BY <1>3, CommandBecomes DEF ClientInv, Work
<1>5. ~Settled(q)' /\ question'[q].attn # "none"
  BY <1>1 DEF Settled
<1>6. DeliveryWork(p)' /\ StagingWork(p)'
  <2>1. proc'[p].q = q /\ proc'[p].pc \in DispatcherSteps \ {"delivered", "withdraw"}
    BY <1>3, <1>4
  <2> QED
    BY <1>5, <2>1, DispatcherOn
<1> QED
  BY <1>1, <1>4, <1>6, OpenUntouched

LEMMA DispatcherCallsOpen ==
  ASSUME ClientInv, OpenInv, NEW p \in Procs, NEW answered \in BOOLEAN,
         \/ WithdrawIntent(p, answered) \/ DispatchBridge(p, answered) \/ DispatchRelease(p, answered)
         \/ DispatchBegin(p, answered) \/ DispatchComplete(p, answered)
  PROVE  OpenInv'
<1> PICK q : q = proc[p].q
  OBVIOUS
<1>1. IsDispatcher(p) /\ UNCHANGED <<question, times>>
  BY DEF WithdrawIntent, DispatchBridge, DispatchRelease, DispatchBegin, DispatchComplete,
    IsDispatcher, DispatcherSteps
<1>2. q \in Questions /\ ClientTypes
  BY <1>1, AtWork DEF ClientInv
<1>3. CASE WithdrawIntent(p, answered)
  <2>1. CancelIntent(q, proc[p].lease, answered) /\ ((Goes(p, "withdraw") /\ answered) \/ Ends(p))
    BY <1>3 DEF WithdrawIntent
  <2>2. RouteStep(q)
    BY <1>2, <2>1, BrokerCalls
  <2>3. /\ intent'[q].state = intent[q].state \/ intent'[q].state = "cancelled"
        /\ answered => intent'[q].state = "cancelled"
    BY <1>2, <2>1, BrokerIntent
  <2>4. CASE Ends(p)
    BY <1>1, <1>2, <2>2, <2>3, <2>4, DispatcherHas, WorkEnds, OpenByCall
  <2>5. CASE Goes(p, "withdraw") /\ answered
    BY <1>1, <2>2, <2>3, <2>5, DispatcherCallOpen DEF DispatcherSteps
  <2> QED
    BY <2>1, <2>4, <2>5
<1>4. CASE DispatchBridge(p, answered)
  <2>1. RouteStep(q) /\ intent' = intent
    BY <1>2, <1>4, BridgeCalls DEF DispatchBridge
  <2>2. proc[p].after \in DispatcherSteps \ {"delivered", "withdraw"}
    BY <1>1, <1>2, WorkShape DEF DispatcherWork, DispatcherSteps
  <2>3. Goes(p, proc[p].after) \/ Goes(p, "giveback")
    BY <1>4 DEF DispatchBridge
  <2>4. ASSUME NEW pc \in DispatcherSteps \ {"delivered", "withdraw"}, Goes(p, pc) PROVE OpenInv'
    BY <1>1, <2>1, <2>4, DispatcherCallOpen
  <2> QED
    BY <2>2, <2>3, <2>4 DEF DispatcherSteps
<1>5. CASE DispatchRelease(p, answered)
  <2>1. Release(q, proc[p].lease, answered) /\ Ends(p)
    BY <1>5 DEF DispatchRelease
  <2>2. RouteStep(q)
    BY <1>2, <2>1, BrokerCalls
  <2>3. intent'[q].state = intent[q].state \/ intent[q].state \notin {"none", "cancelled"}
    BY <1>2, <2>1, BrokerIntent
  <2> QED
    BY <1>1, <2>1, <2>2, <2>3, DispatcherHas, WorkEnds, OpenByCall
<1>6. CASE DispatchBegin(p, answered)
  <2>1. BeginDelivery(q, proc[p].lease, answered) /\ (Goes(p, "sending") \/ Ends(p))
    BY <1>6 DEF DispatchBegin
  <2>2. RouteStep(q)
    BY <1>2, <2>1, BrokerCalls
  <2>3. intent'[q].state = intent[q].state \/ intent[q].state \notin {"none", "cancelled"}
    BY <1>2, <2>1, BrokerIntent
  <2>4. "sending" \in DispatcherSteps
    BY DEF DispatcherSteps
  <2> QED
    BY <1>1, <2>1, <2>2, <2>3, <2>4, DispatcherCallOpen
<1>7. CASE DispatchComplete(p, answered)
  <2>1. Complete(q, proc[p].lease, answered) /\ ((Goes(p, "delivered") /\ answered) \/ Ends(p))
    BY <1>7 DEF DispatchComplete
  <2>2. RouteStep(q)
    BY <1>2, <2>1, BrokerCalls
  <2>3. /\ intent'[q].state = intent[q].state \/ intent[q].state \notin {"none", "cancelled"}
        /\ answered => intent'[q].state \in {"delivered", "completed"}
    BY <1>2, <2>1, BrokerIntent
  <2>4. CASE Ends(p)
    BY <1>1, <1>2, <2>2, <2>3, <2>4, DispatcherHas, WorkEnds, OpenByCall
  <2>5. CASE Goes(p, "delivered") /\ answered
    BY <1>1, <2>2, <2>3, <2>5, DispatcherCallOpen DEF DispatcherSteps
  <2> QED
    BY <2>1, <2>4, <2>5
<1> QED
  BY <1>3, <1>4, <1>5, <1>6, <1>7

(* A dispatcher records what it knows of the delivery.                      *)
LEMMA MarkedOpen ==
  ASSUME ClientInv, OpenInv, NEW p \in Procs, IsDispatcher(p),
         NEW attn \in {"claimed", "sending", "delivery_unknown"}, question' = Marked(p, attn),
         overdue' = overdue, intent' = intent
  PROVE  \A pc \in DispatcherSteps \ {"delivered", "withdraw"} : Goes(p, pc) \/ Ends(p) => OpenInv'
<1> PICK q : q = proc[p].q
  OBVIOUS
<1>1. /\ q \in Asked /\ ~Settled(q) /\ question[q].attn # "none" /\ DeliveryOK(q)
      /\ question[q].state \notin {"authorizing", "awaiting_reply"} \cup InApply
  BY DispatcherHas
<1> PICK state, blind : state = question[q].state /\ blind = question[q].blind
  OBVIOUS
<1>2. Effect(q, state, attn, blind)
  BY MarkedEffect
<1>3. question'[q].state = question[q].state /\ question'[q].attn = attn /\ question'[q].blind = question[q].blind
  BY <1>2 DEF Effect
<1>4. DeliveryOK(q)'
  BY <1>1, <1>3 DEF DeliveryOK, Pending, Settled
<1>5. Calm(q) /\ StaysShut(q)
  BY <1>1, <1>3, <1>4 DEF Calm, StaysShut, Open, Settled
<1>6. ~Settled(q)' /\ question'[q].attn # "none"
  BY <1>3 DEF Settled
<1>7. ASSUME NEW pc \in DispatcherSteps \ {"delivered", "withdraw"}, Goes(p, pc) PROVE OpenInv'
  <2>1. proc'[p].pc = pc /\ proc'[p].q = q /\ \A o \in Procs : o # p => proc'[o] = proc[o]
    BY <1>7, WorkMoves
  <2>2. DeliveryWork(p)' /\ StagingWork(p)'
    BY <1>6, <2>1, DispatcherOn
  <2> QED
    BY <1>1, <1>2, <1>5, <2>1, <2>2, OpenByCommand
<1>8. ASSUME Ends(p) PROVE OpenInv'
  BY <1>1, <1>2, <1>5, <1>8, WorkEnds, OpenByCommand
<1> QED
  BY <1>7, <1>8

-----------------------------------------------------------------------------
LEMMA DispatchMarksOpen ==
  ASSUME ClientInv, OpenInv, NEW p \in Procs, NEW answered \in BOOLEAN,
         DispatchClaim(p) \/ DispatchSending(p) \/ DispatchDeliver(p, answered)
  PROVE  OpenInv'
<1> PICK q : q = proc[p].q
  OBVIOUS
<1>1. IsDispatcher(p) /\ UNCHANGED times
  BY DEF DispatchClaim, DispatchSending, DispatchDeliver, IsDispatcher, DispatcherSteps
<1>2. q \in Questions /\ ClientTypes /\ overdue' = overdue
  BY <1>1, AtWork DEF ClientInv, times
<1>3. "begin" \in DispatcherSteps \ {"delivered", "withdraw"} /\ "deliver" \in DispatcherSteps \ {"delivered", "withdraw"}
      /\ "context" \in DispatcherSteps \ {"delivered", "withdraw"}
  BY DEF DispatcherSteps
<1>4. CASE DispatchClaim(p)
  <2>1. intent' = intent
    BY <1>4 DEF DispatchClaim, route
  <2>2. CASE question' = Marked(p, "claimed") /\ Goes(p, "begin")
    BY <1>1, <1>2, <1>3, <2>1, <2>2, MarkedOpen
  <2>3. CASE UNCHANGED question /\ Ends(p)
    BY <1>2, <2>1, <2>3, WorkEnds, OpenUntouched
  <2> QED
    BY <1>4, <2>2, <2>3 DEF DispatchClaim
<1>5. CASE DispatchSending(p)
  BY <1>1, <1>2, <1>3, <1>5, MarkedOpen DEF DispatchSending, route
<1>6. CASE DispatchDeliver(p, answered)
  <2>1. RouteStep(q) /\ intent' = intent
    BY <1>2, <1>6, BridgeCalls DEF DispatchDeliver
  <2>2. CASE Goes(p, "context") /\ UNCHANGED question
    BY <1>1, <1>3, <2>1, <2>2, DispatcherCallOpen
  <2>3. CASE Ends(p) /\ question' = Marked(p, "delivery_unknown")
    BY <1>1, <1>2, <1>3, <2>1, <2>3, MarkedOpen
  <2> QED
    BY <1>6, <2>2, <2>3 DEF DispatchDeliver
<1> QED
  BY <1>4, <1>5, <1>6

LEMMA WithdrawStoreOpen ==
  ASSUME ClientInv, OpenInv, NEW p \in Procs, WithdrawStore(p)
  PROVE  OpenInv'
<1> PICK q : q = proc[p].q
  OBVIOUS
<1>1. IsDispatcher(p) /\ Ends(p) /\ overdue' = overdue /\ intent' = intent
  BY DEF WithdrawStore, times, route, IsDispatcher, DispatcherSteps
<1>2. q \in Asked /\ ~Settled(q) /\ question[q].attn # "none" /\ question[q].state # "authorizing" /\ DeliveryWork(p)
  BY <1>1, DispatcherHas
<1>3. intent[q].state = "cancelled"
  BY <1>2 DEF WithdrawStore, DeliveryWork
<1> PICK blind : blind = question[q].blind
  OBVIOUS
<1>4. PICK state \in Terminal : Effect(q, state, "cancelled", blind)
  BY WithdrawStoreEffect
<1>5. question'[q].state = state /\ question'[q].attn = "cancelled"
  BY <1>4 DEF Effect
<1>6. Calm(q) /\ StaysShut(q)
  BY <1>1, <1>2, <1>3, <1>4, <1>5 DEF Calm, StaysShut, Open, Settled, DeliveryOK, Terminal, InApply
<1> QED
  BY <1>1, <1>2, <1>4, <1>6, WorkEnds, OpenByCommand

(* The question that this step makes awaited is one that was never closed:  *)
(* nobody else dispatches, and a closed question whose intent was delivered *)
(* without a record is overdue or was closed blindly.                       *)
LEMMA DispatchDeliveredOpen ==
  ASSUME ClientInv, OneDispatcher, OpenInv, NEW p \in Procs, DispatchDelivered(p)
  PROVE  OpenInv'
<1> PICK q : q = proc[p].q
  OBVIOUS
<1>1. IsDispatcher(p) /\ Ends(p) /\ overdue' = overdue /\ intent' = intent
  BY DEF DispatchDelivered, times, route, IsDispatcher, DispatcherSteps
<1>2. /\ q \in Asked /\ ~Settled(q) /\ question[q].attn # "none" /\ question[q].state # "authorizing"
      /\ DeliveryOK(q) /\ DeliveryWork(p)
  BY <1>1, DispatcherHas
<1>3. intent[q].state \in {"delivered", "completed"}
  BY <1>2 DEF DispatchDelivered, DeliveryWork
<1>4. Pending(q)
  BY <1>2, <1>3 DEF DeliveryOK
<1> PICK blind : blind = question[q].blind
  OBVIOUS
<1>5. Effect(q, "awaiting_reply", "delivered", blind)
  BY DispatchDeliveredEffect
<1>6. question'[q].state = "awaiting_reply" /\ question'[q].attn = "delivered" /\ question'[q].blind = blind
      /\ Asked' = Asked
  BY <1>2, <1>5 DEF Effect
<1>7. Calm(q) /\ StaysShut(q)
  BY <1>1, <1>2, <1>3, <1>4, <1>6 DEF Calm, StaysShut, Open, Settled, Pending, DeliveryOK, Terminal, InApply
<1>8. \A o \in Asked : Calm(o) /\ StaysShut(o)
  BY <1>1, <1>2, <1>5, <1>7, EffectCalm
<1>9. \A o \in Procs : o # p => ~IsDispatcher(o)
  BY <1>1 DEF OneDispatcher, ClientInv, ClientTypes
<1> QED
  BY <1>1, <1>6, <1>8, <1>9, WorkEnds, OpenKept

-----------------------------------------------------------------------------
(* The calls of no command.                                                 *)
LEMMA SubmitAttentionOpen ==
  ASSUME ClientInv, OpenInv, NEW q \in Questions, NEW answered \in BOOLEAN, SubmitAttention(q, answered)
  PROVE  OpenInv'
<1>1. /\ q \in Asked /\ question[q].state = "staged" /\ question[q].attn = "none"
      /\ Submit(q, answered) /\ overdue' = overdue /\ proc' = proc /\ ClientTypes
  BY DEF SubmitAttention, times, ClientInv
<1>2. RouteStep(q)
  BY <1>1, BrokerCalls
<1>3. /\ \/ intent'[q].state = intent[q].state
         \/ intent[q].state = "none" /\ intent'[q].state = "queued"
      /\ answered => intent'[q].state # "none"
  BY <1>1, BrokerIntent
<1>4. intent[q].state \in {"none", "queued", "claimed"}
  BY <1>1 DEF OpenInv, DeliveryOK
<1>5. \A o \in Questions : o # q => intent'[o] = intent[o]
  BY <1>2 DEF RouteStep
<1> PICK state, attn, blind : state = question[q].state /\ attn = question[q].attn /\ blind = question[q].blind
  OBVIOUS
<1> PICK new : new = intent'[q].state
  OBVIOUS
<1>6. Effect(q, state, attn, blind) \/ Effect(q, state, new, blind)
  BY <1>1, CallEffects DEF AttnEffect
<1>7. ASSUME NEW a, Effect(q, state, a, blind), a \in {"none", "queued", "claimed"} PROVE OpenInv'
  <2>1. question'[q].state = "staged" /\ question'[q].attn = a /\ question'[q].blind = question[q].blind
    BY <1>1, <1>7 DEF Effect
  <2>2. ~(a = "none" /\ intent'[q].state \notin {"none", "queued", "claimed"})
    BY <1>3, <1>4
  <2>3. Calm(q) /\ StaysShut(q)
    BY <1>1, <1>3, <1>4, <2>1, <2>2 DEF Calm, StaysShut, Open, Settled, Pending, DeliveryOK, Terminal, InApply
  <2> QED
    BY <1>1, <1>5, <1>7, <2>3, OpenByWorld
<1> QED
  BY <1>1, <1>3, <1>4, <1>6, <1>7

LEMMA CompletedOpen ==
  ASSUME ClientInv, OpenInv, NEW q \in Asked, Settled(q), AttnEffect(q, "completed"),
         overdue' = overdue, RouteStep(q)
  PROVE  /\ Calm(q) /\ StaysShut(q)
         /\ \E state, attn, blind : Effect(q, state, attn, blind) /\ attn \in {question[q].attn, "completed"}
<1> PICK state, blind : state = question[q].state /\ blind = question[q].blind
  OBVIOUS
<1>1. PICK attn : Effect(q, state, attn, blind) /\ attn \in {question[q].attn, "completed"}
  BY DEF AttnEffect
<1>2. question'[q].state = question[q].state /\ question'[q].attn = attn /\ question'[q].blind = question[q].blind
      /\ attn \in {"delivered", "completed"}
  BY <1>1 DEF Effect, Settled
<1>3. question[q].state # "authorizing"
  BY DEF OpenInv, DeliveryOK, Settled
<1>4. Calm(q) /\ StaysShut(q)
  BY <1>2, <1>3 DEF Calm, StaysShut, Open, Settled, DeliveryOK, RouteStep, Onward
<1> QED
  BY <1>1, <1>4

LEMMA CompleteAttentionOpen ==
  ASSUME ClientInv, OpenInv, NEW q \in Questions, NEW answered \in BOOLEAN, CompleteAttention(q, answered)
  PROVE  OpenInv'
<1>1. q \in Asked /\ Settled(q) /\ overdue' = overdue /\ proc' = proc
  BY DEF CompleteAttention, times, Settled
<1>2. RouteStep(q)
  BY BrokerCalls DEF CompleteAttention, ClientInv
<1>3. AttnEffect(q, "completed")
  BY CallEffects
<1>4. PICK state, attn, blind : Effect(q, state, attn, blind)
  BY <1>1, <1>2, <1>3, CompletedOpen
<1>5. Calm(q) /\ StaysShut(q)
  BY <1>1, <1>2, <1>3, CompletedOpen
<1> QED
  BY <1>1, <1>2, <1>4, <1>5, OpenByWorld DEF RouteStep

-----------------------------------------------------------------------------
(* Cancelling.                                                              *)
LEMMA CancellerOn ==
  ASSUME NEW p \in Procs, NEW q, proc'[p].q = q, proc'[p].pc \in CancellerSteps,
         proc'[p].pc \in {"broker", "unbridge", "release"} => question'[q].attn # "none",
         proc'[p].pc = "close" /\ proc'[p].seen \in {"queued", "claimed"} => intent'[q].state = "cancelled",
         proc'[p].pc = "broker" => proc'[p].seen \in {"queued", "claimed"},
         proc'[p].pc = "unbridge" => proc'[p].seen = "delivered",
         proc'[p].pc \in {"unbridge", "release"} => Settled(q)',
         proc'[p].pc = "close" /\ proc'[p].seen = "delivered" => Settled(q)'
  PROVE  DeliveryWork(p)' /\ StagingWork(p)'
<1>1. ~IsStager(p)' /\ ~IsDispatcher(p)' /\ proc'[p].pc \notin {"delivered", "withdraw"}
  BY DEF IsStager, IsDispatcher, StagerSteps, DispatcherSteps, CancellerSteps
<1> QED
  BY <1>1 DEF DeliveryWork, StagingWork, Settled, IsDispatcher

LEMMA CancelStartOpen ==
  ASSUME ClientInv, OpenInv, NEW p \in Procs, NEW q \in Questions, CancelStart(p, q)
  PROVE  OpenInv'
<1> PICK state, attn : state = question[q].state /\ attn = question[q].attn
  OBVIOUS
<1>1. /\ q \in Asked /\ attn \in {"none", "queued", "claimed", "delivered"}
      /\ \/ state \in {"authorizing", "staged", "awaiting_reply"}
         \/ state = "cancelled" /\ attn = "delivered"
      /\ UNCHANGED <<question, overdue, intent>>
  BY DEF CancelStart, times, route
<1> PICK pc : pc = IF state = "cancelled" THEN "release"
                   ELSE CASE attn = "none" -> "close" [] attn = "delivered" -> "unbridge"
                          [] OTHER -> "broker"
  OBVIOUS
<1>2. /\ pc \in CancellerSteps
      /\ pc \in {"broker", "unbridge", "release"} => attn # "none"
      /\ pc = "close" => attn = "none"
      /\ pc = "broker" => attn \in {"queued", "claimed"}
      /\ pc \in {"unbridge", "release"} => attn = "delivered"
  BY <1>1 DEF CancellerSteps
<1> PICK lease : lease = question[q].lease
  OBVIOUS
<1> PICK w : w = [pc |-> pc, q |-> q, lease |-> lease, seen |-> attn]
  OBVIOUS
<1>3. w \in CancellerWork /\ w.pc = pc /\ w.q = q /\ w.seen = attn
  BY <1>1, <1>2, AskedQuestion DEF CancellerWork, Question
<1>4. Becomes(p, w)
  BY DEF CancelStart
<1>5. proc'[p] = w /\ \A o \in Procs : o # p => proc'[o] = proc[o]
  BY <1>3, <1>4, CommandBecomes DEF ClientInv, Work
<1>6. question'[q].attn = attn /\ (attn = "delivered" => Settled(q)')
  BY <1>1 DEF Settled
<1>7. DeliveryWork(p)' /\ StagingWork(p)'
  BY <1>2, <1>3, <1>5, <1>6, CancellerOn
<1> QED
  BY <1>1, <1>5, <1>7, OpenUntouched

LEMMA CancellerHas ==
  ASSUME ClientInv, OpenInv, NEW p \in Procs, IsCanceller(p)
  PROVE  /\ proc[p].q \in Asked /\ proc[p].q \in Questions
         /\ DeliveryOK(proc[p].q) /\ DeliveryWork(p)
         /\ proc[p].seen \in {"none", "queued", "claimed", "delivered"}
<1>1. proc[p].q \in Asked /\ proc[p].q \in Questions
  BY AtWork DEF IsCanceller, CancellerSteps
<1>2. proc[p].seen \in {"none", "queued", "claimed", "delivered"}
  BY WorkShape DEF ClientInv, CancellerWork
<1> QED
  BY <1>1, <1>2 DEF OpenInv

LEMMA CancelBrokerOpen ==
  ASSUME ClientInv, OpenInv, NEW p \in Procs, NEW answered \in BOOLEAN, CancelBroker(p, answered)
  PROVE  OpenInv'
<1> PICK q : q = proc[p].q
  OBVIOUS
<1>1. /\ IsCanceller(p) /\ proc[p].pc = "broker" /\ UNCHANGED <<question, times>>
      /\ CancelIntent(q, proc[p].lease, answered) /\ ((Goes(p, "close") /\ answered) \/ Ends(p))
  BY DEF CancelBroker, IsCanceller, CancellerSteps
<1>2. /\ q \in Asked /\ q \in Questions /\ ClientTypes
      /\ question[q].attn # "none" /\ proc[p].seen \in {"queued", "claimed"}
  BY <1>1, CancellerHas DEF ClientInv, DeliveryWork
<1>3. RouteStep(q)
  BY <1>1, <1>2, BrokerCalls
<1>4. /\ intent'[q].state = intent[q].state \/ intent'[q].state = "cancelled"
      /\ answered => intent'[q].state = "cancelled"
  BY <1>1, <1>2, BrokerIntent
<1>5. CASE Ends(p)
  BY <1>1, <1>2, <1>3, <1>4, <1>5, WorkEnds, OpenByCall
<1>6. CASE Goes(p, "close") /\ answered
  <2>1. "close" \in CancellerSteps
    BY DEF CancellerSteps
  <2>2. /\ proc'[p].pc = "close" /\ proc'[p].q = q /\ proc'[p].seen = proc[p].seen
        /\ \A o \in Procs : o # p => proc'[o] = proc[o]
    BY <1>1, <1>6, <2>1, WorkMoves
  <2>3. DeliveryWork(p)' /\ StagingWork(p)'
    BY <1>2, <1>4, <1>6, <2>1, <2>2, CancellerOn
  <2> QED
    BY <1>1, <1>2, <1>3, <1>4, <2>2, <2>3, OpenByCall
<1> QED
  BY <1>1, <1>5, <1>6

LEMMA CancelBridgeOpen ==
  ASSUME ClientInv, OpenInv, NEW p \in Procs, NEW answered \in BOOLEAN, CancelBridge(p, answered)
  PROVE  OpenInv'
<1> PICK q : q = proc[p].q
  OBVIOUS
<1>1. /\ IsCanceller(p) /\ proc[p].pc = "unbridge" /\ UNCHANGED <<question, times>>
      /\ BridgeCancel(q, answered) /\ (Goes(p, "close") \/ Ends(p))
  BY DEF CancelBridge, IsCanceller, CancellerSteps
<1>2. /\ q \in Asked /\ q \in Questions /\ ClientTypes
      /\ question[q].attn # "none" /\ Settled(q) /\ proc[p].seen = "delivered"
  BY <1>1, CancellerHas DEF ClientInv, DeliveryWork
<1>3. RouteStep(q) /\ intent' = intent
  BY <1>1, <1>2, BridgeCalls
<1>4. CASE Ends(p)
  BY <1>1, <1>2, <1>3, <1>4, WorkEnds, OpenByCall
<1>5. CASE Goes(p, "close")
  <2>1. "close" \in CancellerSteps
    BY DEF CancellerSteps
  <2>2. /\ proc'[p].pc = "close" /\ proc'[p].q = q /\ proc'[p].seen = proc[p].seen
        /\ \A o \in Procs : o # p => proc'[o] = proc[o]
    BY <1>1, <1>5, <2>1, WorkMoves
  <2>3. Settled(q)'
    BY <1>1, <1>2 DEF Settled
  <2>4. DeliveryWork(p)' /\ StagingWork(p)'
    BY <1>2, <2>1, <2>2, <2>3, CancellerOn
  <2> QED
    BY <1>1, <1>2, <1>3, <2>2, <2>4, OpenByCall
<1> QED
  BY <1>1, <1>4, <1>5

(* What a canceller closes has no intent any more that may still deliver,   *)
(* is known to be delivered, or is closed blindly.                          *)
LEMMA CancelStoreOpen ==
  ASSUME ClientInv, OpenInv, NEW p \in Procs, CancelStore(p)
  PROVE  OpenInv'
<1> PICK q : q = proc[p].q
  OBVIOUS
<1> PICK seen : seen = proc[p].seen
  OBVIOUS
<1>1. /\ IsCanceller(p) /\ proc[p].pc = "close" /\ overdue' = overdue /\ intent' = intent
      /\ (Goes(p, "release") /\ seen = "delivered") \/ Ends(p)
  BY DEF CancelStore, IsCanceller, CancellerSteps, times, route
<1>2. /\ q \in Asked /\ q \in Questions /\ DeliveryOK(q) /\ DeliveryWork(p)
      /\ seen \in {"none", "queued", "claimed", "delivered"}
  BY <1>1, CancellerHas
<1>3. /\ seen \in {"queued", "claimed"} => intent[q].state = "cancelled"
      /\ seen = "delivered" => Settled(q)
  BY <1>1, <1>2 DEF DeliveryWork
<1>4. \E state, attn, blind :
         /\ Effect(q, state, attn, blind) /\ Calm(q) /\ StaysShut(q)
         /\ attn \notin {"delivered", "completed"} \/ attn = question[q].attn
  <2>1. CASE question' = question
    <3>1. Calm(q) /\ StaysShut(q)
      BY <1>1, <1>2, <2>1, IntentCalm
    <3>2. Effect(q, question[q].state, question[q].attn, question[q].blind)
      BY <1>2, <2>1, NoEffect
    <3> QED
      BY <3>1, <3>2
  <2>2. CASE question' # question
    <3> PICK attn : attn = IF question[q].attn \in {"queued", "claimed"} THEN "cancelled" ELSE question[q].attn
      OBVIOUS
    <3> PICK blind : blind = question'[q].blind
      OBVIOUS
    <3>1. Effect(q, "cancelled", attn, blind) /\ (blind <=> seen = "none")
      BY <2>2, CancelStoreEffect
    <3>2. question'[q].state = "cancelled" /\ question'[q].attn = attn /\ question'[q].blind = blind
      BY <3>1 DEF Effect
    <3>3. DeliveryOK(q)'
      BY <1>1, <1>2, <1>3, <3>1, <3>2 DEF DeliveryOK, Pending, Settled, InApply
    <3>4. Calm(q) /\ StaysShut(q)
      BY <1>1, <3>2, <3>3 DEF Calm, StaysShut, Open, Settled, Terminal
    <3> QED
      BY <3>1, <3>4
  <2> QED
    BY <2>1, <2>2
<1>5. CASE Ends(p)
  BY <1>1, <1>2, <1>4, <1>5, WorkEnds, OpenByCommand
<1>6. CASE Goes(p, "release") /\ seen = "delivered"
  <2>1. "release" \in CancellerSteps
    BY DEF CancellerSteps
  <2>2. proc'[p].pc = "release" /\ proc'[p].q = q /\ \A o \in Procs : o # p => proc'[o] = proc[o]
    BY <1>1, <1>6, <2>1, WorkMoves
  <2>3. Settled(q)' /\ question'[q].attn # "none"
    BY <1>3, <1>4, <1>6 DEF Calm, Settled
  <2>4. DeliveryWork(p)' /\ StagingWork(p)'
    BY <2>1, <2>2, <2>3, CancellerOn
  <2> QED
    BY <1>1, <1>2, <1>4, <2>2, <2>4, OpenByCommand
<1> QED
  BY <1>1, <1>5, <1>6

LEMMA CancelReleaseOpen ==
  ASSUME ClientInv, OpenInv, NEW p \in Procs, NEW answered \in BOOLEAN, CancelRelease(p, answered)
  PROVE  OpenInv'
<1> PICK q : q = proc[p].q
  OBVIOUS
<1>1. IsCanceller(p) /\ proc[p].pc = "release" /\ Ends(p) /\ overdue' = overdue /\ ReleaseVisible(q, answered)
  BY DEF CancelRelease, IsCanceller, CancellerSteps, times
<1>2. q \in Asked /\ q \in Questions /\ Settled(q) /\ ClientTypes
  BY <1>1, CancellerHas DEF DeliveryWork, ClientInv
<1>3. RouteStep(q)
  BY <1>1, <1>2, BrokerCalls
<1>4. AttnEffect(q, "completed")
  BY <1>2, CallEffects
<1>5. PICK state, attn, blind : Effect(q, state, attn, blind)
  BY <1>1, <1>2, <1>3, <1>4, CompletedOpen
<1>6. Calm(q) /\ StaysShut(q)
  BY <1>1, <1>2, <1>3, <1>4, CompletedOpen
<1>7. \A o \in Questions : o # q => intent'[o] = intent[o]
  BY <1>3 DEF RouteStep
<1> QED
  BY <1>1, <1>2, <1>5, <1>6, <1>7, WorkEnds, OpenByCommand

-----------------------------------------------------------------------------
(* Answering.                                                               *)
LEMMA ApplierOn ==
  ASSUME NEW p \in Procs, proc'[p].pc \in ApplierSteps
  PROVE  DeliveryWork(p)' /\ StagingWork(p)'
BY DEF DeliveryWork, StagingWork, IsStager, IsDispatcher, ApplierSteps, StagerSteps, DispatcherSteps

LEMMA ApplierMoves ==
  ASSUME ClientInv, OpenInv, NEW p \in Procs, IsApplier(p), NEW pc \in ApplierSteps,
         Goes(p, pc) \/ Ends(p)
  PROVE  /\ \A o \in Procs : o # p => proc'[o] = proc[o]
         /\ DeliveryWork(p)' /\ StagingWork(p)'
<1>1. CASE Goes(p, pc)
  <2>1. proc'[p].pc = pc /\ \A o \in Procs : o # p => proc'[o] = proc[o]
    BY <1>1, ApplierGoes DEF ClientInv, Moves
  <2> QED
    BY <2>1, ApplierOn
<1>2. CASE Ends(p)
  BY <1>2, WorkEnds
<1> QED
  BY <1>1, <1>2

LEMMA AnswerOpen ==
  ASSUME ClientInv, OpenInv, NEW p \in Procs, NEW q \in Asked,
         NEW states \in SUBSET ({"awaiting_reply"} \cup InApply \cup Terminal),
         question' = question \/ AnswerEffect(q, states),
         overdue' = overdue, intent' = intent,
         \A o \in Procs : o # p => proc'[o] = proc[o], DeliveryWork(p)', StagingWork(p)'
  PROVE  OpenInv'
<1>1. CASE question' = question
  BY <1>1, OpenUntouched
<1>2. CASE AnswerEffect(q, states)
  <2> PICK attn, blind : attn = question[q].attn /\ blind = question[q].blind
    OBVIOUS
  <2>1. question[q].state \in {"awaiting_reply"} \cup InApply
    BY <1>2 DEF AnswerEffect
  <2>2. PICK state \in states : Effect(q, state, attn, blind)
    BY <1>2 DEF AnswerEffect
  <2>3. /\ state \in {"awaiting_reply"} \cup InApply \cup Terminal
        /\ question'[q].state = state /\ question'[q].attn = question[q].attn
        /\ question'[q].blind = question[q].blind
    BY <2>2 DEF Effect
  <2>4. Settled(q) /\ question[q].attn # "none"
    BY <2>1 DEF OpenInv, DeliveryOK, Settled
  <2>5. Calm(q) /\ StaysShut(q)
    BY <2>1, <2>3, <2>4 DEF Calm, StaysShut, Open, Settled, DeliveryOK, Terminal, InApply
  <2> QED
    BY <2>2, <2>5, OpenByCommand
<1> QED
  BY <1>1, <1>2

LEMMA ApplyOpen ==
  ASSUME ClientInv, OpenInv, NEW p \in Appliers, Apply(p)
  PROVE  OpenInv'
<1>1. p \in Procs
  BY DEF Procs
<1>2. ASSUME NEW q \in Questions, NEW s \in Submissions, ApplyStart(p, q, s) PROVE OpenInv'
  <2> PICK pc : pc = IF question[q].state = "committed_unverified" THEN "read" ELSE "proof"
    OBVIOUS
  <2> PICK w : w = [pc |-> pc, q |-> q, s |-> s]
    OBVIOUS
  <2>1. w \in ApplierWork /\ w.pc \in ApplierSteps
    BY DEF ApplierWork, ApplierSteps
  <2>2. Becomes(p, w) /\ overdue' = overdue /\ intent' = intent
    BY <1>2 DEF ApplyStart, times, route
  <2>3. proc'[p] = w /\ \A o \in Procs : o # p => proc'[o] = proc[o]
    BY <1>1, <2>1, <2>2, CommandBecomes DEF ClientInv, Work
  <2>4. q \in Asked /\ AnswerEffect(q, InApply)
    BY <1>1, <1>2, ApplyStartEffect
  <2>5. InApply \in SUBSET ({"awaiting_reply"} \cup InApply \cup Terminal)
    OBVIOUS
  <2> QED
    BY <1>1, <2>1, <2>2, <2>3, <2>4, <2>5, ApplierOn, AnswerOpen
<1> PICK q : q = proc[p].q
  OBVIOUS
<1>3. ASSUME IsApplier(p), NEW pc \in ApplierSteps, Goes(p, pc) \/ Ends(p), UNCHANGED <<times, route>>,
             NEW states \in SUBSET ({"awaiting_reply"} \cup InApply \cup Terminal),
             question' = question \/ AnswerEffect(q, states)
      PROVE  OpenInv'
  <2>1. q \in Asked
    BY <1>1, <1>3, AtWork DEF IsApplier, ApplierSteps
  <2>2. overdue' = overdue /\ intent' = intent
    BY <1>3 DEF times, route
  <2>3. /\ \A o \in Procs : o # p => proc'[o] = proc[o]
        /\ DeliveryWork(p)' /\ StagingWork(p)'
    BY <1>1, <1>3, ApplierMoves
  <2> QED
    BY <1>1, <1>3, <2>1, <2>2, <2>3, AnswerOpen
<1> PICK kept : kept = {"awaiting_reply"} \cup InApply \cup Terminal
  OBVIOUS
<1>4. {"awaiting_reply"} \in SUBSET kept /\ InApply \in SUBSET kept /\ {"stale"} \in SUBSET kept
      /\ {"verified_applied", "unknown", "skipped"} \in SUBSET kept
  BY DEF Terminal
<1>5. ASSUME NEW answered \in BOOLEAN, ApplyProof(p, answered) PROVE OpenInv'
  <2>1. IsApplier(p) /\ (Goes(p, "post") \/ Ends(p)) /\ UNCHANGED <<times, route>>
    BY <1>5 DEF ApplyProof, IsApplier, ApplierSteps
  <2>2. "post" \in ApplierSteps
    BY DEF ApplierSteps
  <2>3. question' = question \/ AnswerEffect(q, {"awaiting_reply"})
    BY <1>1, <1>5, ApplyProofEffect
  <2> QED
    BY <1>3, <1>4, <2>1, <2>2, <2>3
<1>6. ASSUME NEW flag \in BOOLEAN, ApplyPost(p, flag) \/ ApplyPostFails(p, flag) PROVE OpenInv'
  <2>1. /\ IsApplier(p) /\ (Goes(p, "receipt") \/ Goes(p, "unknown") \/ Goes(p, "refused"))
        /\ UNCHANGED <<times, route>> /\ question' = question
    BY <1>6 DEF ApplyPost, ApplyPostFails, IsApplier, ApplierSteps
  <2>2. {"receipt", "unknown", "refused"} \subseteq ApplierSteps
    BY DEF ApplierSteps
  <2> QED
    BY <1>3, <1>4, <2>1, <2>2
<1>7. ASSUME \/ ApplyUnknown(p) \/ ApplyReceipt(p)
             \/ \E result \in {"verified", "unverified", "failed"} : ApplyRead(p, result)
      PROVE  OpenInv'
  <2>1. /\ IsApplier(p) /\ (Goes(p, "giveup") \/ Goes(p, "read") \/ Goes(p, "finish") \/ Ends(p))
        /\ UNCHANGED <<times, route>>
    BY <1>7 DEF ApplyUnknown, ApplyReceipt, ApplyRead, IsApplier, ApplierSteps
  <2>2. {"giveup", "read", "finish"} \subseteq ApplierSteps
    BY DEF ApplierSteps
  <2>3. question' = question \/ AnswerEffect(q, InApply)
    BY <1>1, <1>7, ApplyKeepsAnswering
  <2> QED
    BY <1>3, <1>4, <2>1, <2>2, <2>3
<1>8. ASSUME ApplyGivesUp(p) \/ ApplyFinish(p) PROVE OpenInv'
  <2>1. IsApplier(p) /\ Ends(p) /\ UNCHANGED <<times, route>>
    BY <1>8 DEF ApplyGivesUp, ApplyFinish, IsApplier, ApplierSteps
  <2>2. "finish" \in ApplierSteps
    BY DEF ApplierSteps
  <2>3. \/ question' = question \/ AnswerEffect(q, {"stale"})
        \/ AnswerEffect(q, {"verified_applied", "unknown", "skipped"})
    BY <1>1, <1>8, ApplyEndsEffect
  <2> QED
    BY <1>3, <1>4, <2>1, <2>2, <2>3
<1> QED
  BY <1>2, <1>5, <1>6, <1>7, <1>8 DEF Apply

-----------------------------------------------------------------------------
(* Time, the broker and the bridge.                                         *)
LEMMA ExpireDueOpen ==
  ASSUME ClientInv, OpenInv, ExpireDue
  PROVE  OpenInv'
<1>1. overdue' = overdue /\ intent' = intent /\ proc' = proc
  BY DEF ExpireDue, times, route
<1>2. ASSUME NEW q \in Asked PROVE Calm(q) /\ StaysShut(q) /\ question'[q].attn = question[q].attn
  <2>1. CASE question'[q] = question[q]
    BY <1>1, <2>1, IntentCalm
  <2>2. CASE /\ q \in overdue /\ question'[q].state = "expired"
             /\ question'[q].attn = question[q].attn
    <3>1. DeliveryOK(q)
      BY DEF OpenInv
    <3> QED
      BY <1>1, <2>2, <3>1 DEF Calm, StaysShut, Open, Settled, Pending, DeliveryOK, Terminal, InApply
  <2> QED
    BY <2>1, <2>2, ExpireDueEffect
<1>3. Undelivered
  BY <1>2 DEF Undelivered, Settled
<1> QED
  BY <1>1, <1>2, <1>3, ExpireDueEffect, OpenKept

LEMMA RouteMovesOpen ==
  ASSUME ClientInv, OpenInv, RouteMoves
  PROVE  OpenInv'
<1>1. UNCHANGED <<question, times, proc>> /\ overdue' = overdue
  BY DEF RouteMoves, times
<1>2. PICK q \in Asked :
         /\ RouteStep(q)
         /\ \/ intent'[q].state = intent[q].state
            \/ /\ intent[q].state \in {"queued", "claimed"}
               /\ intent'[q].state \in {"queued", "claimed"}
  BY RouteMovesOn
<1>3. Calm(q) /\ StaysShut(q)
  BY <1>1, <1>2, IntentCalm DEF RouteStep, Onward
<1> PICK state, attn, blind : state = question[q].state /\ attn = question[q].attn /\ blind = question[q].blind
  OBVIOUS
<1>4. Effect(q, state, attn, blind)
  BY <1>1, NoEffect
<1>5. \A o \in Questions : o # q => intent'[o] = intent[o]
  BY <1>2 DEF RouteStep
<1> QED
  BY <1>1, <1>3, <1>4, <1>5, OpenByWorld

LEMMA LeaseLapsesOpen ==
  ASSUME ClientInv, OpenInv, NEW q \in Questions, ApplyLeaseLapses(q)
  PROVE  OpenInv'
<1>1. q \in Asked /\ overdue' = overdue /\ intent' = intent /\ proc' = proc
  BY DEF ApplyLeaseLapses, times, route
<1> PICK state, attn, blind : state = question[q].state /\ attn = question[q].attn /\ blind = question[q].blind
  OBVIOUS
<1>2. Effect(q, state, attn, blind)
  BY LeaseLapsesEffect
<1>3. question'[q].state = question[q].state /\ question'[q].attn = question[q].attn
      /\ question'[q].blind = question[q].blind
  BY <1>2 DEF Effect
<1>4. DeliveryOK(q)
  BY <1>1 DEF OpenInv
<1>5. Calm(q) /\ StaysShut(q)
  BY <1>1, <1>3, <1>4 DEF Calm, StaysShut, Open, Settled, Pending, DeliveryOK
<1> QED
  BY <1>1, <1>2, <1>5, OpenByWorld

LEMMA QuietOpen ==
  ASSUME ClientInv, OpenInv,
         \/ \E q \in Questions : DeadlinePasses(q) \/ PersonChanges(q)
         \/ \E p \in Procs : Crash(p)
         \/ UNCHANGED clientVars
  PROVE  OpenInv'
<1>1. UNCHANGED <<question, intent>> /\ overdue \subseteq overdue'
  BY DEF DeadlinePasses, PersonChanges, Crash, clientVars, times, route
<1>2. \A o \in Procs : proc'[o] = proc[o] \/ (DeliveryWork(o)' /\ StagingWork(o)')
  <2>1. ASSUME NEW p \in Procs, Crash(p), NEW o \in Procs
        PROVE  proc'[o] = proc[o] \/ (DeliveryWork(o)' /\ StagingWork(o)')
    BY <2>1, WorkEnds DEF Crash
  <2> QED
    BY <2>1 DEF DeadlinePasses, PersonChanges, clientVars
<1> QED
  BY <1>1, <1>2, OpenUntouched

-----------------------------------------------------------------------------
LEMMA InitOpen == ClientInit => OpenInv
<1> SUFFICES ASSUME ClientInit PROVE OpenInv
  OBVIOUS
<1>1. Asked = {} /\ \A p \in Procs : proc[p].pc = "idle"
  BY DEF ClientInit, Asked, AtRest
<1> QED
  BY <1>1 DEF OpenInv, OneOpen, DeliveryWork, StagingWork, IsStager, IsDispatcher, StagerSteps, DispatcherSteps

LEMMA NextOpen ==
  ASSUME OneDispatcher, ClientInv, OpenInv, [ClientNext]_clientVars
  PROVE  OpenInv'
<1>1. Stagers \cup Dispatchers \cup Cancellers \subseteq Procs
  BY DEF Procs
<1>2. ASSUME NEW p \in Stagers, Stage(p) PROVE OpenInv'
  BY <1>1, <1>2, StageBeginOpen, StageWriteOpen, StageAuthorizeOpen, StageEndsOpen DEF Stage
<1>3. ASSUME NEW p \in Dispatchers, Dispatch(p) PROVE OpenInv'
  BY <1>1, <1>3, DispatchBeginsOpen, DispatcherCallsOpen, DispatchMarksOpen, WithdrawStoreOpen,
    DispatchDeliveredOpen DEF Dispatch
<1>4. ASSUME NEW p \in Cancellers, Cancel(p) PROVE OpenInv'
  BY <1>1, <1>4, CancelStartOpen, CancelBrokerOpen, CancelBridgeOpen, CancelStoreOpen,
    CancelReleaseOpen DEF Cancel
<1>5. CASE ExpireDue \/ RouteMoves
  BY <1>5, ExpireDueOpen, RouteMovesOpen
<1>6. ASSUME NEW q \in Questions, NEW answered \in BOOLEAN,
             SubmitAttention(q, answered) \/ CompleteAttention(q, answered)
      PROVE  OpenInv'
  BY <1>6, SubmitAttentionOpen, CompleteAttentionOpen
<1> QED
  BY <1>2, <1>3, <1>4, <1>5, <1>6, ApplyOpen, LeaseLapsesOpen, QuietOpen DEF ClientNext

(* At most one question is open, provided that one command dispatches at a  *)
(* time.                                                                    *)
THEOREM EnrichmentOneOpen == ASSUME OneDispatcher PROVE ClientSpec => []OneOpenQuestion
<1>1. ClientInv /\ OpenInv /\ [ClientNext]_clientVars => OpenInv'
  BY NextOpen
<1>2. OpenInv => OneOpenQuestion
  <2> SUFFICES ASSUME OpenInv PROVE OneOpenQuestion
    OBVIOUS
  <2> PICK open : open = {q \in Asked \ overdue : question[q].state \notin Terminal /\ ~question[q].blind}
    OBVIOUS
  <2>1. \A q1, q2 \in open : q1 = q2
    BY DEF OpenInv, OneOpen, Open
  <2>2. CASE open = {}
    <3>1. Cardinality(open) = 0
      BY <2>2, FS_EmptySet
    <3> QED
      BY <3>1 DEF OneOpenQuestion
  <2>3. CASE open # {}
    <3>1. PICK q \in open : open = {q}
      BY <2>1, <2>3
    <3>2. Cardinality(open) = 1
      BY <3>1, FS_Singleton
    <3> QED
      BY <3>2 DEF OneOpenQuestion
  <2> QED
    BY <2>2, <2>3
<1> QED
  BY <1>1, <1>2, InitOpen, EnrichmentClientInvariant, PTL DEF ClientSpec

=============================================================================
