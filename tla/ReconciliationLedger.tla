------------------------ MODULE ReconciliationLedger ------------------------
(***************************************************************************)
(* ReconciliationService: an answer that the user gave to a question about *)
(* candidates and people is applied once, on exactly the rows the user     *)
(* saw, and then read back in a fresh session until the readback agrees.   *)
(* A request that finds its resolution in the ledger only reads back.      *)
(*                                                                         *)
(* A row's version stands for its updated_at and digests. The row locks of *)
(* one statement are taken together: their order decides who waits, never  *)
(* what is read. Waiting on a foreign key, and a deadlock that the         *)
(* database breaks, only delay or abort a request (Abort). Payload checks  *)
(* that need no table, relationship_to_self and error_code are left out.   *)
(***************************************************************************)
EXTENDS Integers, FiniteSets

CONSTANTS
  Resolutions,   \* resolution ids, the idempotency keys
  Sessions,      \* the request workers, each with its database session
  Candidates,    \* candidates under review; numbers, in order of id
  Observations,  \* those of type observation; the others are of new_entity
  Entities,      \* people that exist already, none of them self
  Reviewed,      \* those that a reviewed candidate once created
  Inquiries,     \* what the user can be asked
  None,          \* absence of a candidate's record, a person or a body
  Elsewhere,     \* a canonical record some other request wrote
  MaxBodies,     \* bound: answers the client signs
  MaxOthers      \* bound: changes by other requests

(* A resolution also names what it writes: its new person or its records.  *)
People == Entities \cup Resolutions

Groups == {"confirm_new_entity_group", "rename_and_accept_new_entity"}
ActionType == Groups \cup
  {"reject_candidates", "map_to_existing_entity", "accept_existing_entity_observation_group",
   "merge_existing_entities", "archive_existing_entity"}

(* "related" are the people an observation mentions beside its subject;    *)
(* "context" says that the answer carries context claims.                  *)
Question ==
  [action : ActionType, cands : SUBSET Candidates, source : People \cup {None},
   target : People \cup {None}, related : SUBSET People, context : BOOLEAN]

ASSUME CandidatesAssumption == Candidates \subseteq Nat /\ Observations \subseteq Candidates
ASSUME EntitiesAssumption == Reviewed \subseteq Entities /\ Entities \cap Resolutions = {}
ASSUME NoneAssumption == {None, Elsewhere} \cap People = {} /\ None # Elsewhere
ASSUME BoundsAssumption == MaxBodies \in Nat /\ MaxOthers \in Nat
(* validate_shape of ReconciliationActionCreate. *)
ASSUME InquiriesAssumption ==
  /\ Inquiries \subseteq Question
  /\ \A q \in Inquiries :
       LET cleanup == q.action \in {"merge_existing_entities", "archive_existing_entity"}
           targeted == q.action \in {"map_to_existing_entity",
                                     "accept_existing_entity_observation_group"}
       IN /\ cleanup <=> q.cands = {}
          /\ cleanup <=> q.source # None
          /\ targeted \/ q.action = "merge_existing_entities" <=> q.target # None
          /\ q.context => q.action \notin {"reject_candidates", "archive_existing_entity"}

(* The snapshots of the reviewed rows are part of the body that is signed; *)
(* 0 stands for the rows that are not.                                     *)
Body ==
  [resolution : Resolutions, ask : Inquiries, cands : [Candidates -> Nat], people : [People -> Nat]]

VARIABLES
  cand,      \* [Candidates -> CandidateRow]: the candidates table
  entity,    \* [People -> EntityRow]: the entities table
  record,    \* [Resolutions -> RecordStatus]: the facts, edges and observations of each
  ledger,    \* [Resolutions -> LedgerRow]: reconciliation_actions
  session,   \* [Sessions -> SessionState]: the request each worker runs
  signed,    \* SUBSET Body: the bodies whose answer binding is authentic
  answered,  \* SUBSET Body: history: the bodies that got a verified answer
  writes,    \* [Resolutions -> Nat]: history: the commits of each resolution
  others     \* Nat: history: the changes by other requests

vars == <<cand, entity, record, ledger, session, signed, answered, writes, others>>
tables == <<cand, entity, record>>
history == <<signed, answered, writes, others>>

TERMINAL_STATUSES == {"accepted", "edited_accepted", "rejected", "superseded"}
CandidateRow ==
  [status : TERMINAL_STATUSES \cup {"pending", "needs_clarification"},
   version : Nat, ref : People \cup {None, Elsewhere}]
EntityStatus == {"active", "merged", "deleted"}
EntityRow ==
  [status : EntityStatus \cup {"absent"}, version : Nat, owns : BOOLEAN]
RecordStatus == {"absent", "active", "changed"}
LedgerRow == [status : {"absent", "committed_unverified", "verified"}, body : Body \cup {None}]
SessionState ==
  [pc : {"idle", "insert", "candidates", "entities", "execute", "commit", "readback", "record"},
   body : Body \cup {None}]

Idle == [pc |-> "idle", body |-> None]
At(s, pc) == session[s].pc = pc
Goto(s, pc) == [session EXCEPT ![s].pc = pc]
Leave(s) == [session EXCEPT ![s] = Idle]

AskOf(s) == session[s].body.ask
Expected(q) == {q.source, q.target} \ {None}
(* An observation group locks every person its candidates name.            *)
LockSet(q) == Expected(q) \cup q.related

(* Faulty: a row lock ends with the statement that took it.                *)
HoldsCandidate_StatementOnly(s, c) == FALSE
HoldsEntity_StatementOnly(s, e) == FALSE

HoldsResolution(s, r) ==
  /\ session[s].pc \in {"candidates", "entities", "execute", "commit"}
  /\ session[s].body.resolution = r
HoldsCandidate(s, c) == session[s].pc \in {"entities", "execute", "commit"} /\ c \in AskOf(s).cands
HoldsEntity(s, e) == session[s].pc \in {"execute", "commit"} /\ e \in LockSet(AskOf(s))

CandidateFree(s, c) == \A t \in Sessions \ {s} : ~HoldsCandidate(t, c)
EntityFree(s, e) == \A t \in Sessions \ {s} : ~HoldsEntity(t, e)

-----------------------------------------------------------------------------
(* The client asks a question about the rows as they are now and signs the *)
(* user's answer. Nothing stops it from using a resolution id twice.       *)
Sign(r, q) ==
  /\ Cardinality(signed) < MaxBodies
  /\ \A e \in Expected(q) : entity[e].status # "absent"
  /\ signed' = signed \cup {[resolution |-> r, ask |-> q,
       cands |-> [c \in Candidates |-> IF c \in q.cands THEN cand[c].version ELSE 0],
       people |-> [e \in People |-> IF e \in Expected(q) THEN entity[e].version ELSE 0]]}
  /\ UNCHANGED <<tables, ledger, session, answered, writes, others>>

(* Faulty: the resolution id alone decides that a request is a retry.      *)
Resume_AnyBody(s, b) == [session EXCEPT ![s] = [pc |-> "readback", body |-> b]]

(* _ensure_same_request: the stored fingerprint, or 409; then read back.   *)
Resume(s, b) ==
  [session EXCEPT ![s] =
     IF ledger[b.resolution].body = b THEN [pc |-> "readback", body |-> b] ELSE Idle]

(* apply, up to its first read of the ledger. *)
Apply(s, b) ==
  /\ At(s, "idle")
  /\ b \in signed
  /\ session' = IF ledger[b.resolution].status = "absent"
                  THEN [session EXCEPT ![s] = [pc |-> "insert", body |-> b]]
                  ELSE Resume(s, b)
  /\ UNCHANGED <<tables, ledger, history>>

(* get: the readback of an action that is in the ledger. *)
Get(s, r) ==
  /\ At(s, "idle")
  /\ ledger[r].status # "absent"
  /\ session' = Resume(s, ledger[r].body)
  /\ UNCHANGED <<tables, ledger, history>>

(* Faulty: no unique constraint on resolution_id.                          *)
Insert_NoConstraint(s) ==
  /\ At(s, "insert")
  /\ session' = Goto(s, "candidates")
  /\ UNCHANGED <<tables, ledger, history>>

(* The flush of the new ledger row waits for a transaction that inserted   *)
(* the same resolution_id; when that one commits, the insert fails, and    *)
(* the request becomes a retry of it.                                      *)
Insert(s) ==
  LET b == session[s].body
  IN /\ At(s, "insert")
     /\ \A t \in Sessions \ {s} : ~HoldsResolution(t, b.resolution)
     /\ session' = IF ledger[b.resolution].status = "absent"
                     THEN Goto(s, "candidates")
                     ELSE Resume(s, b)
     /\ UNCHANGED <<tables, ledger, history>>

(* _validate_candidate_types; only pending, unresolved observations group. *)
TypesFit(q) ==
  CASE q.action \in Groups \cup {"map_to_existing_entity"} -> q.cands \cap Observations = {}
    [] q.action = "accept_existing_entity_observation_group" ->
         \A c \in q.cands : /\ c \in Observations
                            /\ cand[c].status = "pending"
                            /\ cand[c].ref = None
    [] OTHER -> TRUE

(* lock_candidates reads the rows again once they are locked: 409 unless   *)
(* every one is the row the user saw, 422 unless the action fits them.     *)
LockCandidates(s) ==
  LET b == session[s].body
  IN /\ At(s, "candidates")
     /\ \A c \in b.ask.cands : CandidateFree(s, c)
     /\ session' = IF /\ \A c \in b.ask.cands : cand[c].version = b.cands[c]
                      /\ TypesFit(b.ask)
                     THEN Goto(s, "entities")
                     ELSE Leave(s)
     /\ UNCHANGED <<tables, ledger, history>>

(* lock_entities and _validate_entity_snapshots: only the source and the   *)
(* target have a snapshot, the related people are just locked.             *)
LockEntities(s) ==
  LET b == session[s].body
  IN /\ At(s, "entities")
     /\ \A e \in LockSet(b.ask) : EntityFree(s, e)
     /\ session' = IF \A e \in Expected(b.ask) : entity[e].version = b.people[e]
                     THEN Goto(s, "execute")
                     ELSE Leave(s)
     /\ UNCHANGED <<tables, ledger, history>>

(* _validate_archive_entity: some accepted new_entity candidate points at  *)
(* the person, and no active row belongs to it.                            *)
Archivable(e) ==
  /\ \/ e \in Reviewed
     \/ \E c \in Candidates \ Observations :
          cand[c].ref = e /\ cand[c].status \in {"accepted", "edited_accepted"}
  /\ ~entity[e].owns

(* _execute and _execute_context, all the locks taken: refused when a      *)
(* candidate is already resolved, a person is not active or, of an archive, *)
(* not archivable; otherwise flushed, visible to nobody yet.               *)
Execute(s) ==
  LET q == AskOf(s)
  IN /\ At(s, "execute")
     /\ session' = IF /\ \A c \in q.cands : cand[c].status \notin TERMINAL_STATUSES
                      /\ \A e \in LockSet(q) : entity[e].status = "active"
                      /\ q.action = "merge_existing_entities" => q.source # q.target
                      /\ q.action = "archive_existing_entity" => Archivable(q.source)
                     THEN Goto(s, "commit")
                     ELSE Leave(s)
     /\ UNCHANGED <<tables, ledger, history>>

Retained(q) == CHOOSE c \in q.cands : \A d \in q.cands : c <= d

(* The status each reviewed candidate ends in; a group retains its first.  *)
Resolved(q, c) ==
  CASE q.action = "reject_candidates" -> "rejected"
    [] q.action \in Groups /\ c # Retained(q) -> "superseded"
    [] q.action = "rename_and_accept_new_entity" /\ c = Retained(q) -> "edited_accepted"
    [] OTHER -> "accepted"

(* canonical_record_ref: the mapped person, or what the resolution wrote.  *)
Outcome(r, q, c) ==
  CASE q.action = "reject_candidates" -> cand[c].ref
    [] q.action = "map_to_existing_entity" -> q.target
    [] OTHER -> r

(* primary_entity_id. *)
Primary(r, q) ==
  CASE q.action = "reject_candidates" -> None
    [] q.action \in Groups -> r
    [] q.action = "archive_existing_entity" -> q.source
    [] OTHER -> q.target

(* The people that own a new row when the action commits: a merge row is   *)
(* context of both its people.                                             *)
GainsContext(r, q) ==
  (IF q.context \/ q.action = "accept_existing_entity_observation_group"
     THEN {Primary(r, q)} \cup q.related ELSE {})
  \cup (IF q.action = "merge_existing_entities" THEN Expected(q) ELSE {})

NewStatus(r, q, e) ==
  CASE e = r /\ q.action \in Groups -> "active"
    [] e = q.source /\ q.action = "merge_existing_entities" -> "merged"
    [] e = q.source /\ q.action = "archive_existing_entity" -> "deleted"
    [] OTHER -> entity[e].status

(* The candidates, the people, the derived records and the ledger row      *)
(* become visible together; the readback follows.                          *)
Commit(s) ==
  LET b == session[s].body
      q == b.ask
      r == b.resolution
  IN /\ At(s, "commit")
     /\ cand' = [c \in Candidates |->
          IF c \in q.cands
            THEN [status |-> Resolved(q, c), version |-> cand[c].version + 1,
                  ref |-> Outcome(r, q, c)]
            ELSE cand[c]]
     /\ entity' = [e \in People |->
          [status |-> NewStatus(r, q, e), owns |-> entity[e].owns \/ e \in GainsContext(r, q),
           version |-> IF NewStatus(r, q, e) = entity[e].status
                         THEN entity[e].version ELSE entity[e].version + 1]]
     /\ record' = [record EXCEPT ![r] =
          IF q.context \/ q.action = "accept_existing_entity_observation_group"
            THEN "active" ELSE @]
     /\ ledger' = [ledger EXCEPT ![r] = [status |-> "committed_unverified", body |-> b]]
     /\ writes' = [writes EXCEPT ![r] = @ + 1]
     /\ session' = Goto(s, "readback")
     /\ UNCHANGED <<signed, answered, others>>

(* The context manifest: every derived record is as the commit left it.    *)
ContextHolds(r) == record[r] = "active"

(* What _verify_in_fresh_session demands of the tables. An observation     *)
(* group needs its reviewed target unchanged and no outcome but its own,   *)
(* a merge no derived candidate but its own: neither can carry context.    *)
OutcomeHolds(r) ==
  LET b == ledger[r].body
      q == b.ask
      primary == Primary(r, q)
  IN /\ \A c \in q.cands : cand[c].status = Resolved(q, c)
     /\ q.action # "reject_candidates" =>
          \A c \in q.cands : cand[c].ref = IF q.action = "map_to_existing_entity"
                                             THEN q.target ELSE r
     /\ primary # None =>
          entity[primary].status =
            IF q.action = "archive_existing_entity" THEN "deleted" ELSE "active"
     /\ q.action = "accept_existing_entity_observation_group" =>
          /\ ContextHolds(r)
          /\ entity[q.target].version = b.people[q.target]
          /\ ~q.context
     /\ q.action = "merge_existing_entities" =>
          entity[q.source].status = "merged" /\ ~q.context
     /\ q.context => ContextHolds(r)

(* The readback: a mismatch answers 503 and leaves the action as it is.    *)
Readback(s) ==
  /\ At(s, "readback")
  /\ session' = IF OutcomeHolds(session[s].body.resolution)
                  THEN Goto(s, "record")
                  ELSE Leave(s)
  /\ UNCHANGED <<tables, ledger, history>>

(* The fresh session commits "verified" and the caller gets its answer.    *)
Record(s) ==
  /\ At(s, "record")
  /\ ledger' = [ledger EXCEPT ![session[s].body.resolution].status = "verified"]
  /\ answered' = answered \cup {session[s].body}
  /\ session' = Leave(s)
  /\ UNCHANGED <<tables, signed, writes, others>>

(* A crash, a lost connection, a deadlock or any other refusal: what is    *)
(* not committed is gone, and the caller may retry.                        *)
Abort(s) ==
  /\ ~At(s, "idle")
  /\ session' = Leave(s)
  /\ UNCHANGED <<tables, ledger, history>>

-----------------------------------------------------------------------------
(* One more change by another request. *)
Other ==
  /\ others < MaxOthers
  /\ others' = others + 1
  /\ UNCHANGED <<ledger, session, signed, answered, writes>>

(* Any other request on a candidate. One that loaded the candidate before  *)
(* it was resolved overwrites its status; only an accept looks again.      *)
Review(c, status) ==
  /\ Other
  /\ \A s \in Sessions : ~HoldsCandidate(s, c)
  /\ status = "accepted" => cand[c].status \notin TERMINAL_STATUSES
  /\ cand' = [cand EXCEPT ![c] =
       [status |-> status, version |-> @.version + 1,
        ref |-> IF status = "accepted" THEN Elsewhere ELSE @.ref]]
  /\ UNCHANGED <<entity, record>>

(* patch_entity, delete_entity or a merge by another request. *)
PatchEntity(e, status) ==
  /\ Other
  /\ \A s \in Sessions : ~HoldsEntity(s, e)
  /\ entity[e].status # "absent"
  /\ entity' = [entity EXCEPT ![e].status = status, ![e].version = @ + 1]
  /\ UNCHANGED <<cand, record>>

(* Every writer of an alias, fact, edge or observation locks its people    *)
(* and requires them to be active.                                         *)
AddContext(e) ==
  /\ Other
  /\ \A s \in Sessions : ~HoldsEntity(s, e)
  /\ entity[e].status = "active"
  /\ entity' = [entity EXCEPT ![e].owns = TRUE]
  /\ UNCHANGED <<cand, record>>

(* A later correction of a record that a resolution wrote. *)
CorrectRecord(r) ==
  /\ Other
  /\ record[r] = "active"
  /\ record' = [record EXCEPT ![r] = "changed"]
  /\ UNCHANGED <<cand, entity>>

Advance(s) ==
  \/ Insert(s)
  \/ LockCandidates(s)
  \/ LockEntities(s)
  \/ Execute(s)
  \/ Commit(s)
  \/ Readback(s)
  \/ Record(s)

Next ==
  \/ \E r \in Resolutions, q \in Inquiries : Sign(r, q)
  \/ \E s \in Sessions : Advance(s) \/ Abort(s)
  \/ \E s \in Sessions, b \in signed : Apply(s, b)
  \/ \E s \in Sessions, r \in Resolutions : Get(s, r)
  \/ \E c \in Candidates, status \in {"accepted", "rejected", "needs_clarification"} :
       Review(c, status)
  \/ \E e \in People, status \in EntityStatus : PatchEntity(e, status)
  \/ \E e \in People : AddContext(e)
  \/ \E r \in Resolutions : CorrectRecord(r)

Init ==
  /\ cand = [c \in Candidates |-> [status |-> "pending", version |-> 0, ref |-> None]]
  /\ entity = [e \in People |->
       [status |-> IF e \in Entities THEN "active" ELSE "absent", version |-> 0, owns |-> FALSE]]
  /\ record = [r \in Resolutions |-> "absent"]
  /\ ledger = [r \in Resolutions |-> [status |-> "absent", body |-> None]]
  /\ session = [s \in Sessions |-> Idle]
  /\ signed = {} /\ answered = {}
  /\ writes = [r \in Resolutions |-> 0] /\ others = 0

Spec == Init /\ [][Next]_vars

-----------------------------------------------------------------------------
(* Type invariant of the tables, the ledger and the running requests.      *)
TypeOK ==
  /\ cand \in [Candidates -> CandidateRow]
  /\ entity \in [People -> EntityRow]
  /\ record \in [Resolutions -> RecordStatus]
  /\ ledger \in [Resolutions -> LedgerRow]
  /\ session \in [Sessions -> SessionState]
  /\ signed \subseteq Body /\ answered \subseteq Body
  /\ writes \in [Resolutions -> Nat] /\ others \in 0..MaxOthers

(* However often and however concurrently an answer is posted, its         *)
(* canonical writes are committed at most once, and never without its row  *)
(* in the ledger.                                                          *)
AppliedOnce ==
  \A r \in Resolutions :
    /\ writes[r] <= 1
    /\ writes[r] = 1 <=> ledger[r].status # "absent"

(* A verified answer goes only to the request whose body was applied: of   *)
(* two different bodies under one resolution id, sent at the same time,    *)
(* the one that loses the insert is never told that it took effect.        *)
AnswersMatchRequest ==
  \A b \in answered : ledger[b.resolution] = [status |-> "verified", body |-> b]

(* At the moment an action commits, every reviewed candidate and person is *)
(* still exactly the row the user saw when the question was asked.         *)
ExactSnapshots ==
  [][\A r \in Resolutions :
       writes'[r] > writes[r] =>
         LET b == ledger'[r].body
         IN /\ \A c \in b.ask.cands : cand[c].version = b.cands[c]
            /\ \A e \in Expected(b.ask) : entity[e].version = b.people[e]]_vars

(* No context appears on a person between the check that it owns none and  *)
(* the commit that archives it.                                            *)
ArchivesOnlyEmpty ==
  [][\A r \in Resolutions :
       /\ writes'[r] > writes[r]
       /\ ledger'[r].body.ask.action = "archive_existing_entity"
       => ~entity'[ledger'[r].body.ask.source].owns]_vars

(* What _execute commits is what the readback demands: an action that      *)
(* nothing disturbs is verified by the readback that follows it, or, after *)
(* an outage, by a retry, as the acceptance scenarios say. The code keeps  *)
(* it except for a merge or an observation group with context claims.      *)
CommitIsVerifiable ==
  [][\A r \in Resolutions : writes'[r] > writes[r] => OutcomeHolds(r)']_vars

(* The specification of the interface lets a person be archived only if a  *)
(* reviewed candidate created it. The code does not keep it: a candidate   *)
(* that was merely mapped to an existing person counts as its origin.      *)
ArchivesOnlyReviewed ==
  [][\A r \in Resolutions :
       /\ writes'[r] > writes[r]
       /\ ledger'[r].body.ask.action = "archive_existing_entity"
       => ledger'[r].body.ask.source \in Reviewed \cup Resolutions]_vars

=============================================================================
