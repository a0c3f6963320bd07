-------------------------- MODULE CandidateReview --------------------------
(***************************************************************************)
(* The review queue of candidates. A reviewer's request first loads the    *)
(* candidate without a lock (_candidate_or_404). Accepting locks the       *)
(* candidate's row and reads it again before it writes the canonical       *)
(* record, all in one transaction. Rejecting, archiving, asking for a      *)
(* clarification and superseding decide on the copy they loaded, however   *)
(* old it is by then.                                                      *)
(*                                                                         *)
(* Of a payload only its kind and the entities it is about are kept.       *)
(* "record" stands for an alias, a profile field, an edge or an            *)
(* observation: one row with a unique source_candidate_id. A candidate of  *)
(* kind "conflict" (or supersede) can be resolved but never accepted.      *)
(***************************************************************************)
EXTENDS Integers, FiniteSets

CONSTANTS
  Candidates,  \* identities of candidates
  Sessions,    \* the request workers, each with its database session
  Entities,    \* people other than self; numbers, because locks are sorted
  Payloads,    \* the payloads that are submitted or edited in
  Operations,  \* the requests that reviewers send
  None,        \* absence of a candidate or a payload
  MaxRecords   \* bound: entities one candidate may add

Kinds == {"new_entity", "record", "merge", "conflict"}
Payload == [kind : Kinds, about : {<<>>} \cup {<<e>> : e \in Entities} \cup (Entities \X Entities)]

ASSUME EntitiesAssumption == Entities \subseteq Nat
ASSUME NoneAssumption == None \notin Candidates /\ None \notin Payloads
ASSUME MaxRecordsAssumption == MaxRecords \in Nat
ASSUME OperationsAssumption ==
  Operations \subseteq {"accept", "edit_accept", "reject", "archive", "clarify", "supersede"}
(* _validate_payload refuses a merge of an entity with itself.             *)
ASSUME PayloadsAssumption ==
  /\ Payloads \subseteq Payload
  /\ \A p \in Payloads :
       /\ p.kind = "new_entity" <=> p.about = <<>>
       /\ p.kind = "merge" => p.about \in Entities \X Entities /\ p.about[1] # p.about[2]

VARIABLES
  cand,       \* [Candidates -> CandidateRow]: the candidates table
  canonical,  \* [Candidates -> Nat]: the rows written on behalf of each
  entity,     \* [Entities -> EntityStatus]: the status column of entities
  session     \* [Sessions -> SessionState]: the request each worker runs

vars == <<cand, canonical, entity, session>>

Accepted == {"accepted", "edited_accepted"}
TERMINAL_STATUSES == Accepted \cup {"rejected", "archived", "superseded"}
Status == TERMINAL_STATUSES \cup {"pending", "needs_clarification"}
EntityStatus == {"active", "merged", "deleted"}

CandidateRow == [status : Status \cup {"absent"}, payload : Payloads \cup {None},
                 ref : BOOLEAN]

(* The requests that lock the candidate, and the status each request leaves. *)
Acceptances == {"accept", "edit_accept"}
Resolution(op) ==
  CASE op = "accept" -> "accepted"
    [] op = "edit_accept" -> "edited_accepted"
    [] op = "reject" -> "rejected"
    [] op = "archive" -> "archived"
    [] op = "clarify" -> "needs_clarification"
    [] op = "supersede" -> "superseded"

(* "seen" is the status the request loaded before it took any lock.        *)
SessionState ==
  [pc : {"idle", "loaded", "lock_entities", "commit"}, op : Operations \cup {None},
   cand : Candidates \cup {None}, seen : Status, payload : Payloads \cup {None},
   held : SUBSET Entities]

IdleSession == [pc |-> "idle", op |-> None, cand |-> None, seen |-> "pending",
                payload |-> None, held |-> {}]

About(p) == {p.about[i] : i \in DOMAIN p.about}

(* Faulty: the lock on the candidate, or on an entity, ends with the       *)
(* statement that took it.                                                 *)
HoldsCandidate_StatementOnly(s, c) == FALSE
HoldsEntity_StatementOnly(s, e) == FALSE

HoldsCandidate(s, c) == session[s].cand = c /\ session[s].pc \in {"lock_entities", "commit"}
HoldsEntity(s, e) == e \in session[s].held

CandidateFree(s, c) == \A t \in Sessions \ {s} : ~HoldsCandidate(t, c)

-----------------------------------------------------------------------------
(* create_candidate: every entity the payload names must be active.        *)
Submit(c, p) ==
  /\ cand[c].status = "absent"
  /\ \A e \in About(p) : entity[e] = "active"
  /\ cand' = [cand EXCEPT ![c] = [status |-> "pending", payload |-> p, ref |-> FALSE]]
  /\ UNCHANGED <<canonical, entity, session>>

(* _candidate_or_404: a plain read, kept in the session's identity map.    *)
(* An edit brings a payload of the candidate's own kind.                   *)
Load(s, op, c, p) ==
  /\ session[s].pc = "idle"
  /\ cand[c].status # "absent"
  /\ IF op = "edit_accept" THEN p # None /\ p.kind = cand[c].payload.kind ELSE p = None
  /\ session' = [session EXCEPT ![s] =
                   [pc |-> "loaded", op |-> op, cand |-> c, seen |-> cand[c].status,
                    payload |-> p, held |-> {}]]
  /\ UNCHANGED <<cand, canonical, entity>>

(* _resolve without a lock: it decides on the status it loaded. The UPDATE *)
(* waits for the candidate's row lock and then writes only the columns     *)
(* that differ from the loaded copy, so it overwrites whatever status was  *)
(* committed meanwhile, unless the new status equals the loaded one.       *)
Resolve(s) ==
  LET c == session[s].cand
      status == Resolution(session[s].op)
  IN /\ session[s].pc = "loaded"
     /\ session[s].op \notin Acceptances
     /\ IF session[s].seen \in TERMINAL_STATUSES
          THEN UNCHANGED cand
          ELSE /\ CandidateFree(s, c)
               /\ cand' = IF status = session[s].seen
                            THEN cand
                            ELSE [cand EXCEPT ![c].status = status]
     /\ session' = [session EXCEPT ![s] = IdleSession]
     /\ UNCHANGED <<canonical, entity>>

(* Faulty: the locked row is not read again (no populate_existing).        *)
Resolvable_Stale(s) == session[s].seen \notin TERMINAL_STATUSES

(* _ensure_resolvable on the row just locked and read again.               *)
Resolvable(s) == cand[session[s].cand].status \notin TERMINAL_STATUSES

(* Faulty: the resolution is committed before the canonical record is written. *)
LockCandidate_Resolves(s) ==
  LET c == session[s].cand
  IN /\ session[s].pc = "loaded"
     /\ session[s].op \in Acceptances
     /\ CandidateFree(s, c)
     /\ Resolvable(s)
     /\ cand' = [cand EXCEPT ![c].status = Resolution(session[s].op)]
     /\ session' = [session EXCEPT ![s].pc = "lock_entities", ![s].payload = cand[c].payload]
     /\ UNCHANGED <<canonical, entity>>

(* _lock_resolvable_candidate: wait for the row, read it again.            *)
LockCandidate(s) ==
  LET c == session[s].cand
      state == session[s]
  IN /\ state.pc = "loaded"
     /\ state.op \in Acceptances
     /\ CandidateFree(s, c)
     /\ session' = [session EXCEPT ![s] =
          IF Resolvable(s)
            THEN [[state EXCEPT !.pc = "lock_entities"] EXCEPT
                    !.payload = IF state.op = "accept" THEN cand[c].payload ELSE @]
            ELSE IdleSession]
     /\ UNCHANGED <<cand, canonical, entity>>

(* Faulty: the entities are locked in the order the payload names them.    *)
NextLock_AnyOrder(s, e) == e \in About(session[s].payload) \ session[s].held

(* lock_active_entities takes its row locks in ascending order of id.      *)
NextLock(s, e) ==
  LET missing == About(session[s].payload) \ session[s].held
  IN e \in missing /\ \A f \in missing : e <= f

LockEntity(s, e) ==
  /\ session[s].pc = "lock_entities"
  /\ NextLock(s, e)
  /\ \A t \in Sessions \ {s} : ~HoldsEntity(t, e)
  /\ session' = [session EXCEPT ![s].held = @ \cup {e}]
  /\ UNCHANGED <<cand, canonical, entity>>

(* Faulty: nothing stops a second row with the same source_candidate_id.   *)
SourceIndexAllows_Always(c, p) == canonical[c] < MaxRecords

(* The unique indexes on source_candidate_id and entity_merges.candidate_id. *)
(* An entity keeps no reference to its candidate; only the bound limits it.  *)
SourceIndexAllows(c, p) ==
  IF p.kind = "new_entity" THEN canonical[c] < MaxRecords ELSE canonical[c] = 0

(* _write_canonical_record, every entity locked: refused when the kind has *)
(* no canonical record, an entity is no longer active or the insert hits a *)
(* unique index; otherwise flushed, visible to nobody yet.                 *)
WriteCanonical(s) ==
  LET p == session[s].payload
  IN /\ session[s].pc = "lock_entities"
     /\ About(p) \subseteq session[s].held
     /\ session' = [session EXCEPT ![s] =
          IF /\ p.kind # "conflict"
             /\ \A e \in About(p) : entity[e] = "active"
             /\ SourceIndexAllows(session[s].cand, p)
            THEN [@ EXCEPT !.pc = "commit"]
            ELSE IdleSession]
     /\ UNCHANGED <<cand, canonical, entity>>

(* The canonical record, the merge and the resolution commit together.     *)
Commit(s) ==
  LET c == session[s].cand
      p == session[s].payload
  IN /\ session[s].pc = "commit"
     /\ cand' = [cand EXCEPT ![c] = [status |-> Resolution(session[s].op),
                                     payload |-> p, ref |-> TRUE]]
     /\ canonical' = [canonical EXCEPT ![c] = @ + 1]
     /\ IF p.kind = "merge"
          THEN entity' = [entity EXCEPT ![p.about[1]] = "merged"]
          ELSE UNCHANGED entity
     /\ session' = [session EXCEPT ![s] = IdleSession]

(* Any other refusal (provenance of imported evidence, an invalid edit, a  *)
(* conflict of relationship profiles) or failure rolls the request back.   *)
Abort(s) ==
  /\ session[s].pc # "idle"
  /\ session' = [session EXCEPT ![s] = IdleSession]
  /\ UNCHANGED <<cand, canonical, entity>>

(* patch_entity sets any status; delete_entity is one case of it.          *)
PatchEntity(e, status) ==
  /\ \A s \in Sessions : ~HoldsEntity(s, e)
  /\ entity' = [entity EXCEPT ![e] = status]
  /\ UNCHANGED <<cand, canonical, session>>

Advance(s) ==
  \/ Resolve(s)
  \/ LockCandidate(s)
  \/ \E e \in Entities : LockEntity(s, e)
  \/ WriteCanonical(s)
  \/ Commit(s)

Next ==
  \/ \E c \in Candidates, p \in Payloads : Submit(c, p)
  \/ \E s \in Sessions, op \in Operations, c \in Candidates, p \in Payloads \cup {None} :
       Load(s, op, c, p)
  \/ \E s \in Sessions : Advance(s) \/ Abort(s)
  \/ \E e \in Entities, status \in EntityStatus : PatchEntity(e, status)

Init ==
  /\ cand = [c \in Candidates |-> [status |-> "absent", payload |-> None, ref |-> FALSE]]
  /\ canonical = [c \in Candidates |-> 0]
  /\ entity = [e \in Entities |-> "active"]
  /\ session = [s \in Sessions |-> IdleSession]

Spec == Init /\ [][Next]_vars

-----------------------------------------------------------------------------
(* Type invariant of the tables and of the running requests.               *)
TypeOK ==
  /\ cand \in [Candidates -> CandidateRow]
  /\ canonical \in [Candidates -> Nat]
  /\ entity \in [Entities -> EntityStatus]
  /\ session \in [Sessions -> SessionState]

(* A candidate becomes at most one alias, fact, edge, observation or merge, *)
(* even when a stale request for clarification reopens it after it was     *)
(* accepted: the unique index turns the second accept away.                *)
AtMostOneRecord ==
  \A c \in Candidates :
    cand[c].payload # None /\ cand[c].payload.kind # "new_entity" => canonical[c] <= 1

(* An accepted candidate has its canonical record and points at it, and no *)
(* other candidate does, whenever a request fails.                         *)
AcceptedIsCanonical ==
  \A c \in Candidates :
    /\ cand[c].status \in Accepted => cand[c].ref
    /\ cand[c].ref <=> canonical[c] > 0

(* No accept succeeds on a candidate that was resolved when it committed,  *)
(* however old the copy is that the request started from.                  *)
AcceptsOnlyOpen ==
  [][\A c \in Candidates :
       canonical'[c] > canonical[c] => cand[c].status \notin TERMINAL_STATUSES]_vars

(* A canonical record is committed only about entities that are active at  *)
(* that moment; of two merges that name the same entity, the second fails. *)
CanonicalAboutActive ==
  [][\A c \in Candidates :
       canonical'[c] > canonical[c] =>
         \A e \in About(cand'[c].payload) : entity[e] = "active"]_vars

(* The sessions whose locks s is waiting for. *)
WaitsFor(s) ==
  {t \in Sessions \ {s} :
     \/ session[s].pc = "loaded" /\ HoldsCandidate(t, session[s].cand)
     \/ /\ session[s].pc = "lock_entities"
        /\ \E e \in Entities : NextLock(s, e) /\ HoldsEntity(t, e)}

(* Reviews never deadlock: a candidate, then its entities in order of id.  *)
NoWaitCycle ==
  \A S \in (SUBSET Sessions) \ {{}} : \E s \in S : WaitsFor(s) \cap S = {}

(* The lifecycle document says that a rejected candidate contributes       *)
(* nothing: none of its content is in the canonical tables. The code does  *)
(* not keep it: a reject that loaded the candidate before it was accepted  *)
(* overwrites the accepted status and leaves the record in place.          *)
RejectedContributesNothing ==
  \A c \in Candidates : cand[c].status = "rejected" => canonical[c] = 0

=============================================================================
