----------------------- MODULE CandidateReview_proofs -----------------------
(***************************************************************************)
(* The review queue for every number of candidates, workers, entities and  *)
(* payloads. The lock on a candidate has one holder, and every other       *)
(* request that changes the row waits for it; so what an accept read under *)
(* the lock is still true when it commits. Entity locks are taken in       *)
(* ascending order, so no requests wait for each other in a circle.        *)
(***************************************************************************)
EXTENDS CandidateReview, FiniteSetTheorems, WellFoundedInduction, TLAPS

(* What a request knows of its candidate before it holds the lock.         *)
Started(s) ==
  session[s].pc # "idle" =>
    /\ session[s].cand \in Candidates
    /\ session[s].op \in Operations
    /\ cand[session[s].cand].payload \in Payloads
    /\ session[s].op = "edit_accept" \/ session[s].pc # "loaded" =>
         /\ session[s].payload \in Payloads
         /\ session[s].payload.kind = cand[session[s].cand].payload.kind

(* What it knows while it holds the lock.                                  *)
Locked(s) ==
  session[s].pc \in {"lock_entities", "commit"} =>
    /\ session[s].op \in Acceptances
    /\ cand[session[s].cand].status \notin TERMINAL_STATUSES

(* What it knows once the canonical record is flushed.                     *)
Flushed(s) ==
  session[s].pc = "commit" =>
    /\ About(session[s].payload) \subseteq session[s].held
    /\ \A e \in About(session[s].payload) : entity[e] = "active"
    /\ SourceIndexAllows(session[s].cand, session[s].payload)

Apart(s, t) ==
  /\ \A c \in Candidates : ~(HoldsCandidate(s, c) /\ HoldsCandidate(t, c))
  /\ \A e \in Entities : ~(HoldsEntity(s, e) /\ HoldsEntity(t, e))

(* A row that was never submitted is empty.                                *)
RowsShaped ==
  \A c \in Candidates : cand[c].payload \in Payloads <=> cand[c].status # "absent"

Inv ==
  /\ TypeOK
  /\ RowsShaped
  /\ \A c \in Candidates : cand[c].payload = None => canonical[c] = 0
  /\ \A s \in Sessions : Started(s) /\ Locked(s) /\ Flushed(s)
  /\ \A s, t \in Sessions : s # t => Apart(s, t)
  /\ AtMostOneRecord
  /\ AcceptedIsCanonical

-----------------------------------------------------------------------------
LEMMA AboutEntities == ASSUME NEW p \in Payloads PROVE About(p) \subseteq Entities
BY PayloadsAssumption DEF About, Payload

LEMMA ResolutionInStatus ==
  ASSUME NEW op \in Operations
  PROVE  /\ Resolution(op) \in Status
         /\ Resolution(op) \in Accepted <=> op \in Acceptances
BY OperationsAssumption
   DEF Resolution, Status, TERMINAL_STATUSES, Accepted, Acceptances

(* A step of one session that leaves the tables alone: only that session's *)
(* part of the invariant is to be shown.                                   *)
LEMMA OneSessionMoves ==
  ASSUME Inv, NEW s \in Sessions, NEW x \in SessionState,
         session' = [session EXCEPT ![s] = x],
         cand' = cand, canonical' = canonical, entity' = entity,
         Started(s)', Locked(s)', Flushed(s)',
         \A c \in Candidates : HoldsCandidate(s, c)' =>
            HoldsCandidate(s, c) \/ CandidateFree(s, c),
         \A e \in Entities : HoldsEntity(s, e)' =>
            HoldsEntity(s, e) \/ \A t \in Sessions \ {s} : ~HoldsEntity(t, e)
  PROVE  Inv'
<1>1. TypeOK'
  BY DEF Inv, TypeOK
<1>2. \A t \in Sessions : t # s => session'[t] = session[t]
  BY DEF Inv, TypeOK
<1>3. \A t \in Sessions : Started(t)' /\ Locked(t)' /\ Flushed(t)'
  <2> SUFFICES ASSUME NEW t \in Sessions, t # s PROVE Started(t)' /\ Locked(t)' /\ Flushed(t)'
    OBVIOUS
  <2>1. Started(t) /\ Locked(t) /\ Flushed(t)
    BY DEF Inv
  <2> QED
    BY <1>2, <2>1 DEF Started, Locked, Flushed, SourceIndexAllows
<1>4. \A t, u \in Sessions : t # u => Apart(t, u)'
  BY <1>2 DEF Inv, Apart, HoldsCandidate, HoldsEntity, CandidateFree
<1>5. (/\ RowsShaped
       /\ \A c \in Candidates : cand[c].payload = None => canonical[c] = 0
       /\ AtMostOneRecord
       /\ AcceptedIsCanonical)'
  BY DEF Inv, RowsShaped, AtMostOneRecord, AcceptedIsCanonical
<1> QED
  BY <1>1, <1>3, <1>4, <1>5 DEF Inv

LEMMA ToIdle ==
  ASSUME Inv, NEW s \in Sessions, session' = [session EXCEPT ![s] = IdleSession],
         cand' = cand, canonical' = canonical, entity' = entity
  PROVE  Inv'
<1>1. IdleSession \in SessionState
  BY DEF IdleSession, SessionState, Status
<1>2. session'[s] = IdleSession
  BY DEF Inv, TypeOK
<1>3. Started(s)' /\ Locked(s)' /\ Flushed(s)'
  BY <1>2 DEF Started, Locked, Flushed, IdleSession
<1>4. /\ \A c \in Candidates : ~HoldsCandidate(s, c)'
      /\ \A e \in Entities : ~HoldsEntity(s, e)'
  BY <1>2 DEF HoldsCandidate, HoldsEntity, IdleSession
<1> QED
  BY <1>1, <1>3, <1>4, OneSessionMoves

LEMMA InitInv == Init => Inv
<1> SUFFICES ASSUME Init PROVE Inv
  OBVIOUS
<1>1. \A s \in Sessions : session[s] = IdleSession
  BY DEF Init
<1>2. TypeOK
  BY DEF Init, TypeOK, CandidateRow, EntityStatus, IdleSession, SessionState, Status
<1>3. \A s \in Sessions : Started(s) /\ Locked(s) /\ Flushed(s)
  BY <1>1 DEF Started, Locked, Flushed, IdleSession
<1>4. \A s, t \in Sessions : Apart(s, t)
  BY <1>1 DEF Apart, HoldsCandidate, HoldsEntity, IdleSession
<1>5. /\ RowsShaped
      /\ \A c \in Candidates : cand[c].payload = None => canonical[c] = 0
      /\ AtMostOneRecord
      /\ AcceptedIsCanonical
  BY NoneAssumption DEF Init, RowsShaped, AtMostOneRecord, AcceptedIsCanonical, Accepted
<1> QED
  BY <1>2, <1>3, <1>4, <1>5 DEF Inv

-----------------------------------------------------------------------------
LEMMA SubmitInv ==
  ASSUME Inv, NEW c \in Candidates, NEW p \in Payloads, Submit(c, p)
  PROVE  Inv'
<1>1. /\ cand'[c] = [status |-> "pending", payload |-> p, ref |-> FALSE]
      /\ \A d \in Candidates : d # c => cand'[d] = cand[d]
      /\ UNCHANGED <<canonical, entity, session>>
  BY DEF Submit, Inv, TypeOK
<1>2. cand[c].payload \notin Payloads /\ cand[c].payload = None /\ canonical[c] = 0
  BY DEF Submit, Inv, TypeOK, RowsShaped, CandidateRow
<1>3. TypeOK'
  BY DEF Submit, Inv, TypeOK, CandidateRow, Status
<1>4. \A s \in Sessions : Started(s)' /\ Locked(s)' /\ Flushed(s)'
  <2> SUFFICES ASSUME NEW s \in Sessions PROVE Started(s)' /\ Locked(s)' /\ Flushed(s)'
    OBVIOUS
  <2>1. Started(s) /\ Locked(s) /\ Flushed(s)
    BY DEF Inv
  <2>2. session[s].pc # "idle" => session[s].cand # c
    BY <1>2, <2>1 DEF Started
  <2>3. session[s].pc # "idle" => session[s].cand \in Candidates
    BY <2>1 DEF Started
  <2>4. session[s].pc # "idle" => cand'[session[s].cand] = cand[session[s].cand]
    BY <1>1, <2>2, <2>3
  <2> QED
    BY <1>1, <2>1, <2>4 DEF Started, Locked, Flushed, SourceIndexAllows
<1>5. \A s, t \in Sessions : s # t => Apart(s, t)'
  BY <1>1 DEF Inv, Apart, HoldsCandidate, HoldsEntity
<1>6. RowsShaped' /\ AcceptedIsCanonical' /\ AtMostOneRecord'
  BY <1>1, <1>2 DEF Inv, RowsShaped, AcceptedIsCanonical, AtMostOneRecord, Accepted
<1>7. (\A d \in Candidates : cand[d].payload = None => canonical[d] = 0)'
  BY <1>1, <1>2, NoneAssumption DEF Inv
<1> QED
  BY <1>3, <1>4, <1>5, <1>6, <1>7 DEF Inv

LEMMA LoadInv ==
  ASSUME Inv, NEW s \in Sessions, NEW op \in Operations, NEW c \in Candidates,
         NEW p \in Payloads \cup {None}, Load(s, op, c, p)
  PROVE  Inv'
<1> DEFINE x == [pc |-> "loaded", op |-> op, cand |-> c, seen |-> cand[c].status,
                 payload |-> p, held |-> {}]
<1>1. x \in SessionState
  BY DEF Load, Inv, TypeOK, CandidateRow, SessionState
<1>2. session' = [session EXCEPT ![s] = x] /\ session'[s] = x
      /\ UNCHANGED <<cand, canonical, entity>>
  BY DEF Load, Inv, TypeOK
<1>3. cand[c].payload \in Payloads
  BY DEF Load, Inv, RowsShaped
<1>4. op = "edit_accept" => p \in Payloads /\ p.kind = cand[c].payload.kind
  BY DEF Load
<1>5. Started(s)' /\ Locked(s)' /\ Flushed(s)'
  BY <1>2, <1>3, <1>4 DEF Started, Locked, Flushed
<1>6. /\ \A d \in Candidates : ~HoldsCandidate(s, d)'
      /\ \A e \in Entities : ~HoldsEntity(s, e)'
  BY <1>2 DEF HoldsCandidate, HoldsEntity
<1> QED
  BY <1>1, <1>2, <1>5, <1>6, OneSessionMoves

LEMMA ResolveInv ==
  ASSUME Inv, NEW s \in Sessions, Resolve(s)
  PROVE  Inv'
<1> DEFINE c == session[s].cand
           status == Resolution(session[s].op)
<1>1. session' = [session EXCEPT ![s] = IdleSession] /\ UNCHANGED <<canonical, entity>>
  BY DEF Resolve
<1>2. CASE cand' = cand
  BY <1>1, <1>2, ToIdle
<1>3. CASE cand' = [cand EXCEPT ![c].status = status] /\ CandidateFree(s, c)
  <2>1. /\ c \in Candidates /\ session[s].op \in Operations
        /\ session[s].op \notin Acceptances /\ cand[c].payload \in Payloads
    BY DEF Resolve, Inv, Started
  <2>2. /\ cand'[c] = [cand[c] EXCEPT !.status = status]
        /\ \A d \in Candidates : d # c => cand'[d] = cand[d]
    BY <1>3, <2>1 DEF Inv, TypeOK
  <2>3. status \in Status /\ status \notin Accepted
    BY <2>1, ResolutionInStatus
  <2>4. /\ cand'[c].status = status /\ cand'[c].payload = cand[c].payload
        /\ cand'[c].ref = cand[c].ref
    BY <2>1, <2>2 DEF Inv, TypeOK, CandidateRow
  <2>5. TypeOK'
    <3>1. cand' \in [Candidates -> CandidateRow]
      BY <1>3, <2>1, <2>3 DEF Inv, TypeOK, CandidateRow
    <3>2. IdleSession \in SessionState
      BY DEF IdleSession, SessionState, Status
    <3> QED
      BY <1>1, <3>1, <3>2 DEF Inv, TypeOK
  <2>6. session'[s] = IdleSession /\ \A t \in Sessions : t # s => session'[t] = session[t]
    BY <1>1 DEF Inv, TypeOK
  <2>7. \A t \in Sessions : Started(t)' /\ Locked(t)' /\ Flushed(t)'
    <3>1. Started(s)' /\ Locked(s)' /\ Flushed(s)'
      BY <2>6 DEF Started, Locked, Flushed, IdleSession
    <3>2. ASSUME NEW t \in Sessions, t # s PROVE Started(t)' /\ Locked(t)' /\ Flushed(t)'
      <4>1. Started(t) /\ Locked(t) /\ Flushed(t) /\ session'[t] = session[t]
        BY <2>6, <3>2 DEF Inv
      <4>2. session[t].pc \in {"lock_entities", "commit"} => session[t].cand # c
        BY <1>3, <2>1, <3>2 DEF CandidateFree, HoldsCandidate
      <4>3. session[t].pc # "idle" =>
              cand'[session[t].cand].payload = cand[session[t].cand].payload
        BY <2>2, <2>4, <4>1 DEF Started
      <4>4. Started(t)'
        BY <4>1, <4>3 DEF Started
      <4>5. Locked(t)'
        BY <2>2, <4>1, <4>2 DEF Locked, Started
      <4>6. Flushed(t)'
        BY <1>1, <4>1 DEF Flushed, SourceIndexAllows
      <4> QED
        BY <4>4, <4>5, <4>6
    <3> QED
      BY <3>1, <3>2
  <2>8. \A t, u \in Sessions : t # u => Apart(t, u)'
    BY <2>6 DEF Inv, Apart, HoldsCandidate, HoldsEntity, IdleSession
  <2>9. RowsShaped' /\ AcceptedIsCanonical' /\ AtMostOneRecord'
    <3>1. status # "absent"
      BY <2>3 DEF Status, TERMINAL_STATUSES, Accepted
    <3> QED
      <4>1. RowsShaped'
        BY <2>1, <2>2, <2>4, <3>1 DEF Inv, RowsShaped
      <4>2. AcceptedIsCanonical'
        BY <1>1, <2>2, <2>3, <2>4 DEF Inv, AcceptedIsCanonical
      <4>3. AtMostOneRecord'
        BY <1>1, <2>2, <2>4 DEF Inv, AtMostOneRecord
      <4> QED
        BY <4>1, <4>2, <4>3
  <2>10. (\A d \in Candidates : cand[d].payload = None => canonical[d] = 0)'
    BY <1>1, <2>2, <2>4 DEF Inv
  <2> QED
    BY <2>5, <2>7, <2>8, <2>9, <2>10 DEF Inv
<1> QED
  BY <1>2, <1>3 DEF Resolve

LEMMA LockCandidateInv ==
  ASSUME Inv, NEW s \in Sessions, LockCandidate(s)
  PROVE  Inv'
<1> DEFINE c == session[s].cand
           p == IF session[s].op = "accept" THEN cand[c].payload ELSE session[s].payload
           x == [[session[s] EXCEPT !.pc = "lock_entities"] EXCEPT !.payload = p]
<1>1. CASE ~Resolvable(s)
  BY <1>1, ToIdle DEF LockCandidate
<1>2. CASE Resolvable(s)
  <2>1. session[s] \in SessionState /\ c \in Candidates /\ session[s].op \in Operations
        /\ session[s].op \in Acceptances /\ cand[c].payload \in Payloads
    BY DEF LockCandidate, Inv, TypeOK, Started
  <2>2. p \in Payloads /\ p.kind = cand[c].payload.kind
    BY <2>1 DEF Acceptances, Inv, Started, LockCandidate
  <2>3. x \in SessionState
    BY <2>1, <2>2 DEF SessionState
  <2>4. /\ session' = [session EXCEPT ![s] = x] /\ session'[s] = x
        /\ UNCHANGED <<cand, canonical, entity>>
    BY <1>2, <2>1 DEF LockCandidate, Inv, TypeOK
  <2>5. /\ x.pc = "lock_entities" /\ x.payload = p /\ x.cand = c
        /\ x.op = session[s].op /\ x.held = session[s].held
    BY <2>1 DEF SessionState
  <2>6. Started(s)' /\ Locked(s)' /\ Flushed(s)'
    BY <1>2, <2>1, <2>2, <2>4, <2>5 DEF Started, Locked, Flushed, Resolvable
  <2>7. CandidateFree(s, c)
    BY DEF LockCandidate
  <2>8. \A d \in Candidates : HoldsCandidate(s, d)' => CandidateFree(s, d)
    BY <2>4, <2>5, <2>7 DEF HoldsCandidate
  <2>9. \A e \in Entities : HoldsEntity(s, e)' => HoldsEntity(s, e)
    BY <2>4, <2>5 DEF HoldsEntity
  <2> QED
    BY <2>3, <2>4, <2>6, <2>8, <2>9, OneSessionMoves
<1> QED
  BY <1>1, <1>2

LEMMA LockEntityInv ==
  ASSUME Inv, NEW s \in Sessions, NEW e \in Entities, LockEntity(s, e)
  PROVE  Inv'
<1> DEFINE x == [session[s] EXCEPT !.held = session[s].held \cup {e}]
<1>1. session[s] \in SessionState
  BY DEF Inv, TypeOK
<1>2. x \in SessionState
  BY <1>1 DEF SessionState
<1>3. /\ session' = [session EXCEPT ![s] = x] /\ session'[s] = x
      /\ UNCHANGED <<cand, canonical, entity>>
  BY DEF LockEntity, Inv, TypeOK
<1>4. /\ x.pc = "lock_entities" /\ x.payload = session[s].payload /\ x.cand = session[s].cand
      /\ x.op = session[s].op /\ x.held = session[s].held \cup {e}
  BY <1>1 DEF LockEntity, SessionState
<1>5. Started(s)' /\ Locked(s)' /\ Flushed(s)'
  BY <1>3, <1>4 DEF LockEntity, Inv, Started, Locked, Flushed
<1>6. \A d \in Candidates : HoldsCandidate(s, d)' => HoldsCandidate(s, d)
  BY <1>3, <1>4 DEF HoldsCandidate, LockEntity
<1>7. \A f \in Entities : HoldsEntity(s, f)' =>
        HoldsEntity(s, f) \/ \A t \in Sessions \ {s} : ~HoldsEntity(t, f)
  BY <1>3, <1>4 DEF HoldsEntity, LockEntity
<1> QED
  BY <1>2, <1>3, <1>5, <1>6, <1>7, OneSessionMoves

LEMMA WriteCanonicalInv ==
  ASSUME Inv, NEW s \in Sessions, WriteCanonical(s)
  PROVE  Inv'
<1> DEFINE x == [session[s] EXCEPT !.pc = "commit"]
<1>1. CASE session' = [session EXCEPT ![s] = IdleSession]
  BY <1>1, ToIdle DEF WriteCanonical
<1>2. CASE /\ session' = [session EXCEPT ![s].pc = "commit"]
           /\ \A e \in About(session[s].payload) : entity[e] = "active"
           /\ SourceIndexAllows(session[s].cand, session[s].payload)
  <2>1. session[s] \in SessionState
    BY DEF Inv, TypeOK
  <2>2. x \in SessionState
    BY <2>1 DEF SessionState
  <2>3. /\ session' = [session EXCEPT ![s] = x] /\ session'[s] = x
        /\ UNCHANGED <<cand, canonical, entity>>
    BY <1>2 DEF WriteCanonical, Inv, TypeOK
  <2>4. /\ x.pc = "commit" /\ x.payload = session[s].payload /\ x.cand = session[s].cand
        /\ x.op = session[s].op /\ x.held = session[s].held
    BY <2>1 DEF SessionState
  <2>5. Started(s)' /\ Locked(s)'
    <3>1. Started(s) /\ Locked(s) /\ session[s].pc = "lock_entities"
      BY DEF WriteCanonical, Inv
    <3> QED
      BY <2>3, <2>4, <3>1 DEF Started, Locked
  <2>6. Flushed(s)'
    <3>1. About(session[s].payload) \subseteq session[s].held
      BY DEF WriteCanonical
    <3> QED
      BY <1>2, <2>3, <2>4, <3>1 DEF Flushed, SourceIndexAllows
  <2>7. /\ \A d \in Candidates : HoldsCandidate(s, d)' => HoldsCandidate(s, d)
        /\ \A f \in Entities : HoldsEntity(s, f)' => HoldsEntity(s, f)
    BY <2>3, <2>4 DEF HoldsCandidate, HoldsEntity, WriteCanonical
  <2> QED
    BY <2>2, <2>3, <2>5, <2>6, <2>7, OneSessionMoves
<1> QED
  BY <1>1, <1>2 DEF WriteCanonical

(* A commit changes its own candidate, whose lock it holds, and entities   *)
(* whose locks it holds: no other request loses what it checked.           *)
LEMMA CommitInv ==
  ASSUME Inv, NEW s \in Sessions, Commit(s)
  PROVE  Inv'
<1> DEFINE c == session[s].cand
           p == session[s].payload
           row == [status |-> Resolution(session[s].op), payload |-> p, ref |-> TRUE]
<1>1. /\ c \in Candidates /\ p \in Payloads /\ session[s].op \in Operations
      /\ cand[c].payload \in Payloads /\ p.kind = cand[c].payload.kind
      /\ session[s].op \in Acceptances /\ About(p) \subseteq session[s].held
      /\ SourceIndexAllows(c, p)
  BY DEF Commit, Inv, Started, Locked, Flushed
<1>2. /\ cand'[c] = row /\ \A d \in Candidates : d # c => cand'[d] = cand[d]
      /\ canonical'[c] = canonical[c] + 1
      /\ \A d \in Candidates : d # c => canonical'[d] = canonical[d]
      /\ session'[s] = IdleSession /\ \A t \in Sessions : t # s => session'[t] = session[t]
  BY <1>1 DEF Commit, Inv, TypeOK
<1>3. \A e \in Entities \ About(p) : entity'[e] = entity[e]
  <2>1. p.kind = "merge" => p.about[1] \in About(p)
    BY <1>1, PayloadsAssumption DEF About
  <2> QED
    BY <2>1 DEF Commit, Inv, TypeOK
<1>4. Resolution(session[s].op) \in Status /\ Resolution(session[s].op) \in Accepted
  BY <1>1, ResolutionInStatus
<1>5. TypeOK'
  <2>1. row \in CandidateRow
    BY <1>1, <1>4 DEF CandidateRow
  <2>2. IdleSession \in SessionState
    BY DEF IdleSession, SessionState, Status
  <2>3. entity' \in [Entities -> EntityStatus]
    BY DEF Commit, Inv, TypeOK, EntityStatus
  <2>4. cand' \in [Candidates -> CandidateRow]
    BY <1>1, <2>1 DEF Commit, Inv, TypeOK
  <2>5. canonical' \in [Candidates -> Nat]
    BY <1>1 DEF Commit, Inv, TypeOK
  <2>6. session' \in [Sessions -> SessionState]
    BY <2>2 DEF Commit, Inv, TypeOK
  <2> QED
    BY <2>3, <2>4, <2>5, <2>6 DEF TypeOK
<1>6. \A t \in Sessions : Started(t)' /\ Locked(t)' /\ Flushed(t)'
  <2>1. Started(s)' /\ Locked(s)' /\ Flushed(s)'
    BY <1>2 DEF Started, Locked, Flushed, IdleSession
  <2>2. ASSUME NEW t \in Sessions, t # s PROVE Started(t)' /\ Locked(t)' /\ Flushed(t)'
    <3>1. Started(t) /\ Locked(t) /\ Flushed(t) /\ Apart(s, t) /\ session'[t] = session[t]
      BY <1>2, <2>2 DEF Inv
    <3>2. session[t].pc \in {"lock_entities", "commit"} => session[t].cand # c
      BY <1>1, <3>1 DEF Apart, HoldsCandidate, Commit
    <3>3. Started(t)'
      <4>1. session[t].pc # "idle" =>
              /\ cand'[session[t].cand].payload \in Payloads
              /\ cand'[session[t].cand].payload.kind = cand[session[t].cand].payload.kind
        BY <1>1, <1>2, <3>1 DEF Started
      <4> QED
        BY <3>1, <4>1 DEF Started
    <3>4. Locked(t)'
      BY <1>2, <3>1, <3>2 DEF Locked, Started
    <3>5. ASSUME session[t].pc = "commit"
          PROVE  /\ \A e \in About(session[t].payload) : entity'[e] = "active"
                 /\ canonical'[session[t].cand] = canonical[session[t].cand]
      <4>1. About(session[t].payload) \subseteq Entities
        BY <3>1, <3>5, AboutEntities DEF Started
      <4>2. About(session[t].payload) \cap About(p) = {}
        BY <1>1, <3>1, <3>5, <4>1 DEF Apart, HoldsEntity, Flushed
      <4> QED
        BY <1>2, <1>3, <3>1, <3>2, <3>5, <4>1, <4>2 DEF Flushed, Started
    <3>6. Flushed(t)'
      BY <3>1, <3>5 DEF Flushed, SourceIndexAllows
    <3> QED
      BY <3>3, <3>4, <3>6
  <2> QED
    BY <2>1, <2>2
<1>7. \A t, u \in Sessions : t # u => Apart(t, u)'
  BY <1>2 DEF Inv, Apart, HoldsCandidate, HoldsEntity, IdleSession
<1>8. RowsShaped'
  BY <1>1, <1>2, <1>4 DEF Inv, RowsShaped, Accepted
<1>9. AtMostOneRecord'
  BY <1>1, <1>2 DEF Inv, AtMostOneRecord, SourceIndexAllows
<1>10. AcceptedIsCanonical'
  BY <1>1, <1>2 DEF Inv, TypeOK, AcceptedIsCanonical
<1>11. (\A d \in Candidates : cand[d].payload = None => canonical[d] = 0)'
  BY <1>1, <1>2, NoneAssumption DEF Inv
<1> QED
  BY <1>5, <1>6, <1>7, <1>8, <1>9, <1>10, <1>11 DEF Inv

LEMMA PatchEntityInv ==
  ASSUME Inv, NEW e \in Entities, NEW status \in EntityStatus, PatchEntity(e, status)
  PROVE  Inv'
<1>1. /\ \A f \in Entities : f # e => entity'[f] = entity[f]
      /\ UNCHANGED <<cand, canonical, session>>
  BY DEF PatchEntity, Inv, TypeOK
<1>2. TypeOK'
  BY DEF PatchEntity, Inv, TypeOK
<1>3. \A s \in Sessions : Started(s)' /\ Locked(s)' /\ Flushed(s)'
  <2> SUFFICES ASSUME NEW s \in Sessions PROVE Started(s)' /\ Locked(s)' /\ Flushed(s)'
    OBVIOUS
  <2>1. Started(s) /\ Locked(s) /\ Flushed(s) /\ e \notin session[s].held
    BY DEF Inv, PatchEntity, HoldsEntity
  <2>2. session[s].pc = "commit" => About(session[s].payload) \subseteq Entities
    BY <2>1, AboutEntities DEF Started
  <2> QED
    BY <1>1, <2>1, <2>2 DEF Started, Locked, Flushed, SourceIndexAllows
<1> QED
  BY <1>1, <1>2, <1>3
     DEF Inv, Apart, HoldsCandidate, HoldsEntity, RowsShaped, AtMostOneRecord, AcceptedIsCanonical

(* Everything the review queue relies on is inductive.                     *)
LEMMA StepInv == Inv /\ [Next]_vars => Inv'
<1> SUFFICES ASSUME Inv, [Next]_vars PROVE Inv'
  OBVIOUS
<1>1. CASE \E c \in Candidates, p \in Payloads : Submit(c, p)
  BY <1>1, SubmitInv
<1>2. CASE \E s \in Sessions, op \in Operations, c \in Candidates, p \in Payloads \cup {None} :
             Load(s, op, c, p)
  BY <1>2, LoadInv
<1>3. CASE \E s \in Sessions : Advance(s)
  BY <1>3, ResolveInv, LockCandidateInv, LockEntityInv, WriteCanonicalInv, CommitInv DEF Advance
<1>4. CASE \E s \in Sessions : Abort(s)
  BY <1>4, ToIdle DEF Abort
<1>5. CASE \E e \in Entities, status \in EntityStatus : PatchEntity(e, status)
  BY <1>5, PatchEntityInv
<1>6. CASE UNCHANGED vars
  BY <1>6 DEF vars, Inv, TypeOK, RowsShaped, AtMostOneRecord, AcceptedIsCanonical, Apart,
              HoldsCandidate, HoldsEntity, Started, Locked, Flushed, SourceIndexAllows
<1> QED
  BY <1>1, <1>2, <1>3, <1>4, <1>5, <1>6 DEF Next

THEOREM ReviewInvariant == Spec => []Inv
BY InitInv, StepInv, PTL DEF Spec

-----------------------------------------------------------------------------
(* The tables and the requests always have their types.                    *)
THEOREM ReviewTypeCorrect == Spec => []TypeOK
BY ReviewInvariant, PTL DEF Inv

(* No candidate, accepted, reopened by a stale request and accepted again, *)
(* becomes two aliases, facts, edges, observations or merges.              *)
THEOREM OneRecordPerCandidate == Spec => []AtMostOneRecord
BY ReviewInvariant, PTL DEF Inv

(* Accepting and writing the canonical record are one step.                *)
THEOREM AcceptedHasRecord == Spec => []AcceptedIsCanonical
BY ReviewInvariant, PTL DEF Inv

(* Only Commit adds canonical records.                                     *)
LEMMA OnlyCommitWrites ==
  ASSUME Inv, [Next]_vars, NEW c \in Candidates, canonical'[c] > canonical[c]
  PROVE  \E s \in Sessions : Commit(s) /\ session[s].cand = c
<1>1. canonical[c] \in Nat /\ canonical' # canonical
  BY DEF Inv, TypeOK
<1>2. PICK s \in Sessions : Commit(s)
  BY <1>1 DEF Next, vars, Submit, Load, Advance, Resolve, LockCandidate, LockEntity,
              WriteCanonical, Abort, PatchEntity
<1>3. session[s].cand = c
  BY <1>1, <1>2 DEF Commit, Inv, TypeOK
<1> QED
  BY <1>2, <1>3

(* However old the copy that an accept started from, it never lands on a   *)
(* candidate that is already resolved.                                     *)
THEOREM AcceptsOnlyOpenCandidates == Spec => AcceptsOnlyOpen
<1>1. Inv /\ [Next]_vars =>
        [\A c \in Candidates :
           canonical'[c] > canonical[c] => cand[c].status \notin TERMINAL_STATUSES]_vars
  <2> SUFFICES ASSUME Inv, [Next]_vars, NEW c \in Candidates, canonical'[c] > canonical[c]
               PROVE  cand[c].status \notin TERMINAL_STATUSES
    OBVIOUS
  <2>1. PICK s \in Sessions : Commit(s) /\ session[s].cand = c
    BY OnlyCommitWrites
  <2> QED
    BY <2>1 DEF Inv, Locked, Commit
<1> QED
  BY <1>1, ReviewInvariant, PTL DEF Spec, AcceptsOnlyOpen

(* Canonical records, merges included, are only ever written about people  *)
(* who are active at that moment.                                          *)
THEOREM RecordsAboutActive == Spec => CanonicalAboutActive
<1>1. Inv /\ [Next]_vars =>
        [\A c \in Candidates :
           canonical'[c] > canonical[c] =>
             \A e \in About(cand'[c].payload) : entity[e] = "active"]_vars
  <2> SUFFICES ASSUME Inv, [Next]_vars, NEW c \in Candidates, canonical'[c] > canonical[c]
               PROVE  \A e \in About(cand'[c].payload) : entity[e] = "active"
    OBVIOUS
  <2>1. PICK s \in Sessions : Commit(s) /\ session[s].cand = c
    BY OnlyCommitWrites
  <2>2. cand'[c].payload = session[s].payload
    BY <2>1 DEF Commit, Inv, TypeOK
  <2> QED
    BY <2>1, <2>2 DEF Inv, Flushed, Commit
<1> QED
  BY <1>1, ReviewInvariant, PTL DEF Spec, CanonicalAboutActive

-----------------------------------------------------------------------------
(* No wait cycle. A request that is still taking entity locks holds only    *)
(* entities below the next one it asks for, and only finitely many requests *)
(* are running, whatever number of workers there is.                        *)
AscendingLocks ==
  \A s \in Sessions :
    /\ session[s].pc \in {"idle", "loaded"} => session[s].held = {}
    /\ session[s].pc = "lock_entities" =>
         \A e \in session[s].held, f \in About(session[s].payload) \ session[s].held : e < f

Running == {s \in Sessions : session[s].pc # "idle"}

LockOrder == AscendingLocks /\ IsFiniteSet(Running)

(* The state of the one request that moves is all there is to look at.      *)
LEMMA OrderAfterMove ==
  ASSUME Inv, LockOrder, NEW s \in Sessions, NEW x,
         session' = [session EXCEPT ![s] = x],
         x.pc \in {"idle", "loaded"} => x.held = {},
         x.pc = "lock_entities" => \A e \in x.held, f \in About(x.payload) \ x.held : e < f
  PROVE  LockOrder'
<1>1. session'[s] = x /\ \A t \in Sessions \ {s} : session'[t] = session[t]
  BY DEF Inv, TypeOK
<1>2. AscendingLocks'
  BY <1>1 DEF LockOrder, AscendingLocks
<1>3. IsFiniteSet(Running)'
  <2>1. IsFiniteSet(Running \cup {s})
    BY FS_AddElement DEF LockOrder
  <2>2. Running' \subseteq Running \cup {s}
    BY <1>1 DEF Running
  <2> QED
    BY <2>1, <2>2, FS_Subset
<1> QED
  BY <1>2, <1>3 DEF LockOrder

(* Every step keeps the order of the locks.                                 *)
LEMMA LockOrderStep ==
  ASSUME Inv, LockOrder, [Next]_vars
  PROVE  LockOrder'
<1>1. ASSUME session' = session PROVE LockOrder'
  BY <1>1 DEF LockOrder, AscendingLocks, Running
<1>2. ASSUME NEW s \in Sessions, session' = [session EXCEPT ![s] = IdleSession]
      PROVE  LockOrder'
  BY <1>2, OrderAfterMove DEF IdleSession
<1>3. ASSUME NEW s \in Sessions, NEW op \in Operations, NEW c \in Candidates,
             NEW p \in Payloads \cup {None}, Load(s, op, c, p)
      PROVE  LockOrder'
  BY <1>3, OrderAfterMove DEF Load
<1>4. ASSUME NEW s \in Sessions, LockCandidate(s) PROVE LockOrder'
  <2>1. CASE session' = [session EXCEPT ![s] = IdleSession]
    BY <1>2, <2>1
  <2>2. CASE session' # [session EXCEPT ![s] = IdleSession]
    <3> PICK x : x = [[session[s] EXCEPT !.pc = "lock_entities"] EXCEPT
                        !.payload = IF session[s].op = "accept"
                                      THEN cand[session[s].cand].payload
                                      ELSE [session[s] EXCEPT !.pc = "lock_entities"].payload]
      OBVIOUS
    <3>1. session' = [session EXCEPT ![s] = x] /\ session[s].pc = "loaded"
      BY <1>4, <2>2 DEF LockCandidate
    <3>2. x.held = session[s].held /\ x.pc = "lock_entities"
      BY DEF Inv, TypeOK, SessionState
    <3>3. x.held = {}
      BY <3>1, <3>2 DEF LockOrder, AscendingLocks
    <3> QED
      BY <3>1, <3>2, <3>3, OrderAfterMove
  <2> QED
    BY <2>1, <2>2
<1>5. ASSUME NEW s \in Sessions, NEW e \in Entities, LockEntity(s, e)
      PROVE  LockOrder'
  <2> DEFINE all == About(session[s].payload)
  <2> PICK x : x = [session[s] EXCEPT !.held = @ \cup {e}]
    OBVIOUS
  <2>1. /\ session[s] \in SessionState /\ session[s].pc = "lock_entities"
        /\ session' = [session EXCEPT ![s] = x]
        /\ e \in all \ session[s].held /\ \A f \in all \ session[s].held : e <= f
    BY <1>5 DEF LockEntity, NextLock, Inv, TypeOK
  <2>2. /\ x.pc = "lock_entities" /\ x.held = session[s].held \cup {e}
        /\ About(x.payload) = all
    BY <2>1 DEF SessionState
  <2>3. all \subseteq Nat
    BY <2>1, AboutEntities, EntitiesAssumption DEF Inv, Started
  <2>4. \A g \in session[s].held, f \in all \ session[s].held : g < f
    BY <2>1 DEF LockOrder, AscendingLocks
  <2> HIDE DEF all
  <2>5. \A g \in x.held, f \in all \ x.held : g < f
    BY <2>1, <2>2, <2>3, <2>4
  <2> QED
    BY <2>1, <2>2, <2>5, OrderAfterMove
<1>6. ASSUME NEW s \in Sessions, WriteCanonical(s) PROVE LockOrder'
  <2>1. CASE session' = [session EXCEPT ![s] = IdleSession]
    BY <1>2, <2>1
  <2>2. CASE session' # [session EXCEPT ![s] = IdleSession]
    <3> PICK x : x = [session[s] EXCEPT !.pc = "commit"]
      OBVIOUS
    <3>1. session' = [session EXCEPT ![s] = x]
      BY <1>6, <2>2 DEF WriteCanonical
    <3>2. x.pc = "commit"
      BY DEF Inv, TypeOK, SessionState
    <3> QED
      BY <3>1, <3>2, OrderAfterMove
  <2> QED
    BY <2>1, <2>2
<1>7. ASSUME NEW s \in Sessions, Resolve(s) \/ Commit(s) \/ Abort(s)
      PROVE  LockOrder'
  BY <1>2, <1>7 DEF Resolve, Commit, Abort
<1>8. CASE \/ \E c \in Candidates, p \in Payloads : Submit(c, p)
           \/ \E e \in Entities, status \in EntityStatus : PatchEntity(e, status)
           \/ UNCHANGED vars
  BY <1>1, <1>8 DEF Submit, PatchEntity, vars
<1> QED
  BY <1>3, <1>4, <1>5, <1>6, <1>7, <1>8 DEF Next, Advance

(* A finite set has an element where a numeric function is largest.         *)
LEMMA LargestValue ==
  ASSUME NEW L, L # {}, IsFiniteSet(L), NEW h \in [L -> Int]
  PROVE  \E s \in L : \A t \in L : h[t] <= h[s]
<1> DEFINE Above(s) == {t \in L : h[s] < h[t]}
           Sizes == {Cardinality(Above(s)) : s \in L}
<1>1. \A s \in L : IsFiniteSet(Above(s)) /\ Cardinality(Above(s)) \in Nat
  BY FS_Subset, FS_CardinalityType
<1>2. Sizes \subseteq Nat /\ Sizes # {}
  BY <1>1
<1>3. PICK m \in Sizes : \A k \in Sizes : ~(<<k, m>> \in OpToRel(<, Nat))
  BY <1>2, NatLessThanWellFounded, WFMin, Zenon
<1>4. PICK s \in L : m = Cardinality(Above(s))
  OBVIOUS
<1>5. ASSUME NEW t \in L, h[s] < h[t] PROVE FALSE
  <2>1. Above(t) \subseteq Above(s) /\ t \in Above(s) /\ t \notin Above(t)
    BY <1>5
  <2>2. Cardinality(Above(t)) \in Sizes
    OBVIOUS
  <2>3. Cardinality(Above(t)) < Cardinality(Above(s))
    <3> HIDE DEF Above, Sizes
    <3>1. /\ Cardinality(Above(t)) <= Cardinality(Above(s))
          /\ Cardinality(Above(t)) # Cardinality(Above(s))
      BY <1>1, <2>1, FS_Subset
    <3> QED
      BY <1>1, <3>1
  <2> QED
    BY <1>1, <1>2, <1>3, <1>4, <2>2, <2>3 DEF OpToRel
<1> QED
  BY <1>5

(* Reviews never deadlock: whoever waits for a candidate waits for a        *)
(* request that takes entity locks, and among those one that waits for an   *)
(* entity waits for one that holds a larger one than it waits for itself.   *)
THEOREM ReviewsDoNotDeadlock == Spec => []NoWaitCycle
<1>1. Init => LockOrder
  <2> SUFFICES ASSUME Init PROVE LockOrder
    OBVIOUS
  <2>1. \A s \in Sessions : session[s] = IdleSession
    BY DEF Init
  <2>2. Running = {}
    BY <2>1 DEF Running, IdleSession
  <2> QED
    BY <2>1, <2>2, FS_EmptySet DEF LockOrder, AscendingLocks, IdleSession
<1>2. Inv /\ LockOrder /\ [Next]_vars => LockOrder'
  BY LockOrderStep
<1>3. Inv /\ LockOrder => NoWaitCycle
  <2> SUFFICES ASSUME Inv, LockOrder, NEW S \in (SUBSET Sessions) \ {{}},
                      \A s \in S : WaitsFor(s) \cap S # {}
               PROVE  FALSE
    BY DEF NoWaitCycle
  <2> DEFINE L == {s \in S : session[s].pc = "lock_entities"}
  <2>1. ASSUME NEW s \in S, session[s].pc # "lock_entities"
        PROVE  L # {}
    <3>1. PICK t \in S : HoldsCandidate(t, session[s].cand)
      BY <2>1 DEF WaitsFor
    <3>2. session[t].pc = "lock_entities"
      BY <3>1 DEF HoldsCandidate, WaitsFor
    <3> QED
      BY <3>2
  <2>2. L # {}
    <3> SUFFICES ASSUME L = {} PROVE FALSE
      OBVIOUS
    <3> QED
      BY <2>1
  <2>3. IsFiniteSet(L)
    <3>1. L \subseteq Running
      BY DEF Running
    <3> QED
      BY <3>1, FS_Subset DEF LockOrder
  <2>4. ASSUME NEW s \in L
        PROVE  \E e \in Int : NextLock(s, e) /\ \E t \in L : e \in session[t].held
    <3>1. PICK t \in S, e \in Entities : NextLock(s, e) /\ e \in session[t].held
      BY DEF WaitsFor, HoldsEntity
    <3>2. session[t].pc \in {"lock_entities", "commit"}
      BY <3>1 DEF LockOrder, AscendingLocks, Inv, TypeOK, SessionState
    <3>3. session[t].pc = "lock_entities"
      BY <3>2 DEF WaitsFor
    <3>4. e \in Int
      BY EntitiesAssumption
    <3> QED
      BY <3>1, <3>3, <3>4
  <2> DEFINE Wants(s, e) == NextLock(s, e) /\ \E t \in L : e \in session[t].held
  <2>5. \E wanted \in [L -> Int] : \A s \in L : Wants(s, wanted[s])
    <3>1. \A s \in L : \E e \in Int : Wants(s, e)
      BY <2>4
    <3> HIDE DEF Wants, L
    <3> DEFINE w == [s \in L |-> CHOOSE e \in Int : Wants(s, e)]
    <3>2. w \in [L -> Int] /\ \A s \in L : Wants(s, w[s])
      BY ONLY <3>1
    <3> QED
      BY <3>2
  <2> HIDE DEF L
  <2> PICK wanted \in [L -> Int] : \A s \in L : Wants(s, wanted[s])
    BY <2>5
  <2>6. PICK s \in L : \A t \in L : wanted[t] <= wanted[s]
    BY <2>2, <2>3, LargestValue
  <2>7. PICK t \in L : wanted[s] \in session[t].held
    BY <2>5
  <2>8. session[t].pc = "lock_entities" /\ t \in Sessions
    BY DEF L
  <2>9. wanted[s] < wanted[t]
    BY <2>5, <2>7, <2>8 DEF LockOrder, AscendingLocks, NextLock
  <2> QED
    BY <2>5, <2>6, <2>9
<1> QED
  BY <1>1, <1>2, <1>3, ReviewInvariant, PTL DEF Spec

=============================================================================
