-------------------------- MODULE EnrichmentLedger --------------------------
(***************************************************************************)
(* The backend's enrichment service. An authorization, staged under a      *)
(* unique key, allows explicit answers of the user to fill a few gaps      *)
(* (slots) in what is known of one person; an answer, identified by its    *)
(* resolution, is applied at most once and then only read back.            *)
(*                                                                         *)
(* Requests run concurrently; a worker serves one at a time. A request     *)
(* holds the row lock of its authorization, then of the person, until its  *)
(* transaction ends; a read without a lock is a step of its own. A request *)
(* may die at any step, which rolls its transaction back.                  *)
(*                                                                         *)
(* The person is one version number (what the entity snapshot compares);   *)
(* a record of a slot counts as intact while the read back accepts it.     *)
(***************************************************************************)
EXTENDS Integers, FiniteSets

CONSTANTS
  None,
  Auths,        \* stage keys of authorizations
  Slots,        \* gaps: one semantic slot of the person each
  SlotsOf,      \* [Auths -> SUBSET Slots]
  Resolutions,  \* resolution identifiers
  Bodies,       \* [Resolutions -> the answers sent under it]
  Requests,     \* workers that serve HTTP requests
  MaxChanges    \* bound: changes of the world by others

ASSUME SlotsAssumption == SlotsOf \in [Auths -> (SUBSET Slots) \ {{}}]

ASSUME BodiesAssumption ==
  /\ \A r \in Resolutions : \A b \in Bodies[r] :
       /\ b.auth \in Auths /\ DOMAIN b.answers \subseteq Slots /\ DOMAIN b.answers # {}
       /\ \A s \in DOMAIN b.answers : b.answers[s] \in {"known", "unknown", "skip"}
  /\ MaxChanges \in Nat

AuthStatus == {"open", "partially_answered", "completed", "expired"}

(* The rows of the two tables. *)
Authorization(a) ==
  [status : AuthStatus, slots : [SlotsOf[a] -> {"open", "known", "unknown"}], snapshot : Nat]
Action(r) == [body : Bodies[r], status : {"committed_unverified", "verified"}]

ASSUME NoneAssumption ==
  /\ None \notin Requests
  /\ \A a \in Auths : None \notin Authorization(a)
  /\ \A r \in Resolutions : None \notin Action(r)

VARIABLES
  auth,       \* enrichment_authorizations: [Auths -> row or None]
  actions,    \* enrichment_answer_actions: [Resolutions -> row or None]
  records,    \* canonical records that fill slots
  unresolved, \* slots for which an unresolved candidate exists
  version, active, ambiguous,  \* the person
  ontology,   \* the authorized ontology is active
  late,       \* the authorizations whose expiry has passed
  req,        \* [Requests -> request]
  authLock, personLock,  \* row locks: the holder, or None
  changesLeft

world == <<unresolved, version, active, ambiguous, ontology, late>>
locks == <<authLock, personLock>>
vars == <<auth, actions, records, world, req, locks, changesLeft>>

Idle == [pc |-> "idle", key |-> None, body |-> None, row |-> None, good |-> FALSE]

Free(lock, q) == [a \in DOMAIN lock |-> IF lock[a] = q THEN None ELSE lock[a]]

End(q) ==
  /\ req' = [req EXCEPT ![q] = Idle]
  /\ authLock' = Free(authLock, q)
  /\ personLock' = IF personLock = q THEN None ELSE personLock

-----------------------------------------------------------------------------
(* Checks.                                                                  *)
Filled(s) == \E x \in records : x.slot = s /\ x.active

(* The person is active, and no other has the same name.                    *)
Live == active /\ ~ambiguous

(* _pending_candidate_fills_gap.                                            *)
Awaited(slots) == slots \cap unresolved # {}

(* _require_gaps: neither a record nor an unresolved candidate fills it.    *)
Gaps(slots) == ~Awaited(slots) /\ \A s \in slots : ~Filled(s)

-----------------------------------------------------------------------------
(* EnrichmentService.stage.                                                 *)
StageLookup(q, a) ==
  /\ req[q].pc = "idle"
  /\ IF auth[a] # None
       THEN req' = [req EXCEPT ![q] = Idle]   \* its row, or subject_ambiguous
       ELSE IF a \notin late /\ Live /\ ontology /\ Gaps(SlotsOf[a])
         THEN req' = [req EXCEPT ![q] =
                [Idle EXCEPT !.pc = "insert", !.key = a,
                             !.row = [status |-> "open", slots |-> [s \in SlotsOf[a] |-> "open"],
                                      snapshot |-> version]]]
         ELSE req' = [req EXCEPT ![q] = Idle]
  /\ UNCHANGED <<auth, actions, records, world, locks, changesLeft>>

(* The insert; of two with one key the first wins and both return its row.  *)
StageInsert(q) ==
  /\ req[q].pc = "insert"
  /\ auth' = IF auth[req[q].key] = None THEN [auth EXCEPT ![req[q].key] = req[q].row] ELSE auth
  /\ req' = [req EXCEPT ![q] = Idle]
  /\ UNCHANGED <<actions, records, world, locks, changesLeft>>

-----------------------------------------------------------------------------
(* EnrichmentService.answer.                                                *)
Post(q, r, b) ==
  /\ req[q].pc = "idle"
  /\ auth[b.auth] # None   \* the capability is handed out with the authorization
  /\ req' = [req EXCEPT ![q] = [Idle EXCEPT !.pc = "lock", !.key = r, !.body = b]]
  /\ UNCHANGED <<auth, actions, records, world, locks, changesLeft>>

(* Faulty: the row is read without its lock. *)
LockAuthorization_Reads(q) ==
  /\ req[q].pc = "lock"
  /\ req' = [req EXCEPT ![q].pc = "check", ![q].row = auth[req[q].body.auth]]
  /\ UNCHANGED <<auth, actions, records, world, locks, changesLeft>>

(* lock_authorization: the row as it is once the lock is granted.           *)
LockAuthorization(q) ==
  /\ req[q].pc = "lock"
  /\ authLock[req[q].body.auth] = None
  /\ authLock' = [authLock EXCEPT ![req[q].body.auth] = q]
  /\ req' = [req EXCEPT ![q].pc = "check", ![q].row = auth[req[q].body.auth]]
  /\ UNCHANGED <<auth, actions, records, world, personLock, changesLeft>>

(* The action of this resolution, when the same request made it.            *)
Repeats(q) == actions[req[q].key] # None /\ actions[req[q].key].body = req[q].body

(* A resolution that is known is only read back, or refused when it stands *)
(* for another request.                                                     *)
KnownResolution(q) ==
  /\ req[q].pc = "check"
  /\ actions[req[q].key] # None
  /\ IF Repeats(q)
       THEN req' = [req EXCEPT ![q].pc = "verify"] /\ UNCHANGED locks
       ELSE End(q)
  /\ UNCHANGED <<auth, actions, records, world, changesLeft>>

Answered(q) == DOMAIN req[q].body.answers

Authorized(q) ==
  /\ req[q].row.status \in {"open", "partially_answered"}
  /\ Answered(q) \subseteq DOMAIN req[q].row.slots
  /\ \A s \in Answered(q) : req[q].row.slots[s] = "open"

(* The checks before the person is locked. *)
CheckAuthorization(q) ==
  /\ req[q].pc = "check"
  /\ actions[req[q].key] = None
  /\ IF Live /\ req[q].body.auth \in late
       THEN /\ auth' = [auth EXCEPT ![req[q].body.auth].status = "expired"]
            /\ End(q)
     ELSE IF Live /\ ontology /\ Authorized(q)
       THEN req' = [req EXCEPT ![q].pc = "person"] /\ UNCHANGED <<auth, locks>>
     ELSE End(q) /\ UNCHANGED auth
  /\ UNCHANGED <<actions, records, world, changesLeft>>

(* Faulty: the gaps are checked, and only then is the person locked. *)
LockPerson_Late(q) ==
  /\ req[q].pc = "person"
  /\ IF Gaps(Answered(q))
       THEN req' = [req EXCEPT ![q].pc = "commit"] /\ UNCHANGED locks
       ELSE End(q)
  /\ UNCHANGED <<auth, actions, records, world, changesLeft>>

(* lock_entities, the checks under that lock, and the new action row: the  *)
(* unique resolution of an action makes a second one wait for the first.   *)
LockPerson(q) ==
  /\ req[q].pc = "person"
  /\ personLock = None
  /\ \A o \in Requests \ {q} : req[o].pc = "commit" => req[o].key # req[q].key
  /\ IF req[q].row.snapshot = version /\ active /\ ontology /\ Gaps(Answered(q))
        /\ actions[req[q].key] = None
       THEN /\ personLock' = q
            /\ req' = [req EXCEPT ![q].pc = "commit"]
            /\ UNCHANGED authLock
       ELSE End(q)
  /\ UNCHANGED <<auth, actions, records, world, changesLeft>>

KnownIn(b) == {s \in DOMAIN b.answers : b.answers[s] = "known"}
NewRecords(r, b) ==
  {[slot |-> s, by |-> r, auth |-> b.auth, active |-> TRUE, intact |-> TRUE] : s \in KnownIn(b)}

(* The slots and the status after an answer; a skipped slot stays open.     *)
Answer(row, b) ==
  LET slots == [s \in DOMAIN row.slots |->
         IF s \in DOMAIN b.answers /\ b.answers[s] # "skip" THEN b.answers[s] ELSE row.slots[s]]
  IN [row EXCEPT !.slots = slots,
        !.status = IF \A s \in DOMAIN slots : slots[s] # "open" THEN "completed"
                   ELSE "partially_answered"]

(* One transaction: the candidates, accepted as the user, their records and *)
(* evidence, the slots, and the action.                                     *)
Commit(q) ==
  /\ req[q].pc = "commit"
  /\ LET r == req[q].key b == req[q].body
     IN /\ auth' = [auth EXCEPT ![b.auth] = Answer(req[q].row, b)]
        /\ actions' = [actions EXCEPT ![r] = [body |-> b, status |-> "committed_unverified"]]
        /\ records' = records \cup NewRecords(r, b)
  /\ req' = [req EXCEPT ![q].pc = "verify"]
  /\ authLock' = Free(authLock, q)
  /\ personLock' = IF personLock = q THEN None ELSE personLock
  /\ UNCHANGED <<world, changesLeft>>

-----------------------------------------------------------------------------
(* _verify_fresh, in a session of its own.                                  *)
Get(q, r) ==
  /\ req[q].pc = "idle" /\ actions[r] # None
  /\ req' = [req EXCEPT ![q] = [Idle EXCEPT !.pc = "verify", !.key = r]]
  /\ UNCHANGED <<auth, actions, records, world, locks, changesLeft>>

Outcome(state) == IF state = "skip" THEN "open" ELSE state

(* _verify_canonical, of one known slot.                                    *)
RecordReadsBack(r, s) == \E x \in records : x.slot = s /\ x.by = r /\ x.intact

ReadsBack(r) ==
  LET b == actions[r].body
  IN /\ ontology
     /\ \A s \in DOMAIN b.answers : auth[b.auth].slots[s] = Outcome(b.answers[s])
     /\ \A s \in KnownIn(b) : RecordReadsBack(r, s)

VerifyRead(q) ==
  /\ req[q].pc = "verify"
  /\ req' = [req EXCEPT ![q].pc = "mark", ![q].good = ReadsBack(req[q].key)]
  /\ UNCHANGED <<auth, actions, records, world, locks, changesLeft>>

VerifyMark(q) ==
  /\ req[q].pc = "mark"
  /\ actions' = [actions EXCEPT ![req[q].key].status =
       IF req[q].good THEN "verified" ELSE "committed_unverified"]
  /\ End(q)
  /\ UNCHANGED <<auth, records, world, changesLeft>>

-----------------------------------------------------------------------------
(* The request dies, or fails and rolls back.                               *)
Die(q) ==
  /\ req[q].pc # "idle"
  /\ End(q)
  /\ UNCHANGED <<auth, actions, records, world, changesLeft>>

Change == changesLeft > 0 /\ changesLeft' = changesLeft - 1

(* The memory API fills a gap; like every writer it locks the person.       *)
OthersRecord(s) ==
  /\ Change /\ personLock = None /\ active
  /\ records' = records \cup
       {[slot |-> s, by |-> None, auth |-> None, active |-> TRUE, intact |-> TRUE]}
  /\ UNCHANGED <<auth, actions, world, req, locks>>

(* A record is retired, or changed so that it is not what was answered.     *)
OthersEdit(x) ==
  /\ Change
  /\ \E y \in {[x EXCEPT !.active = FALSE], [x EXCEPT !.intact = FALSE]} :
       records' = (records \ {x}) \cup {y}
  /\ UNCHANGED <<auth, actions, world, req, locks>>

OthersPerson ==
  /\ Change
  /\ \/ personLock = None /\ version' = version + 1 /\ UNCHANGED <<active, ambiguous>>
     \/ personLock = None /\ active' = ~active /\ version' = version + 1 /\ UNCHANGED ambiguous
     \/ ambiguous' = ~ambiguous /\ UNCHANGED <<version, active>>
  /\ UNCHANGED <<auth, actions, records, unresolved, ontology, late, req, locks>>

OthersCandidate(s) ==
  /\ Change
  /\ unresolved' = IF s \in unresolved THEN unresolved \ {s} ELSE unresolved \cup {s}
  /\ UNCHANGED <<auth, actions, records, version, active, ambiguous, ontology, late, req, locks>>

OthersOntology ==
  /\ Change
  /\ ontology' = ~ontology
  /\ UNCHANGED <<auth, actions, records, unresolved, version, active, ambiguous, late, req, locks>>

Expire(a) ==
  /\ a \notin late
  /\ late' = late \cup {a}
  /\ UNCHANGED <<auth, actions, records, unresolved, version, active, ambiguous, ontology, req,
                 locks, changesLeft>>

Init ==
  /\ auth = [a \in Auths |-> None]
  /\ actions = [r \in Resolutions |-> None]
  /\ records = {} /\ unresolved = {}
  /\ version = 1 /\ active = TRUE /\ ambiguous = FALSE /\ ontology = TRUE
  /\ late = {}
  /\ req = [q \in Requests |-> Idle]
  /\ authLock = [a \in Auths |-> None] /\ personLock = None
  /\ changesLeft = MaxChanges

Step(q) ==
  \/ \E a \in Auths : StageLookup(q, a)
  \/ \E r \in Resolutions : Get(q, r) \/ \E b \in Bodies[r] : Post(q, r, b)
  \/ StageInsert(q) \/ LockAuthorization(q) \/ KnownResolution(q) \/ CheckAuthorization(q)
  \/ LockPerson(q) \/ Commit(q) \/ VerifyRead(q) \/ VerifyMark(q) \/ Die(q)

Others ==
  \/ \E s \in Slots : OthersRecord(s) \/ OthersCandidate(s)
  \/ \E x \in records : OthersEdit(x)
  \/ OthersPerson \/ OthersOntology
  \/ \E a \in Auths : Expire(a)

Next == Others \/ \E q \in Requests : Step(q)

Spec == Init /\ [][Next]_vars

-----------------------------------------------------------------------------
(* An answer writes into gaps only: two authorizations for one slot, an    *)
(* answer sent twice and a concurrent memory write never lead to a second  *)
(* current record beside one that was there.                               *)
FillsOnlyGaps ==
  [][\A x \in records' : x.by # None /\ (\A y \in records : y.by # x.by \/ y.slot # x.slot)
       => ~Filled(x.slot)]_vars

(* The answers that closed a slot of an authorization.                      *)
Closing(a, s) == {r \in Resolutions :
  /\ actions[r] # None /\ actions[r].body.auth = a
  /\ s \in DOMAIN actions[r].body.answers /\ actions[r].body.answers[s] # "skip"}

SlotMatches(a, s) ==
  IF auth[a].slots[s] = "open" THEN Closing(a, s) = {}
  ELSE \E r \in Closing(a, s) :
         /\ Closing(a, s) = {r}
         /\ actions[r].body.answers[s] = auth[a].slots[s]
         /\ auth[a].slots[s] = "known" => \E x \in records : x.slot = s /\ x.by = r

(* What an authorization says of a slot is what some committed answer said: *)
(* a closed slot is closed for good, in one way, by one answer, and a known *)
(* slot has the record of that answer.                                      *)
SlotsMatchAnswers ==
  \A a \in Auths : auth[a] # None => \A s \in SlotsOf[a] : SlotMatches(a, s)

(* An answer that was verified stays verified while the ontology and its   *)
(* records stay: a repeated POST or GET answers as the first one did.      *)
VerifiedStays ==
  [][\A r \in Resolutions :
       (/\ actions[r] # None /\ actions[r].status = "verified"
        /\ ontology /\ \A x \in records : x.intact)
         => actions'[r].status = "verified"]_vars

=============================================================================
