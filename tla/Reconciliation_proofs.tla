------------------------ MODULE Reconciliation_proofs ------------------------
(***************************************************************************)
(* Reconciliation on both sides, for every value of the constants.         *)
(*                                                                         *)
(* The backend's ledger: for every number of requests, candidates and      *)
(* people, and for any bodies that were signed. What a request has read    *)
(* under its locks is still so when it commits; the unique resolution makes*)
(* it the only one that commits.                                           *)
(*                                                                         *)
(* The router's client: for every number of items, runs, questions and     *)
(* commands. A canonical file says of an item only what the backend holds, *)
(* and the cursor passes a run only when what it showed was taken over.    *)
(***************************************************************************)
EXTENDS ReconciliationLedger, ReconciliationClient, FiniteSetTheorems,
        WellFoundedInduction, TLAPS

Writing == {"candidates", "entities", "execute", "commit"}

(* What a request that runs may rely on.                                   *)
SessionOK(s) ==
  /\ ~At(s, "idle") => session[s].body \in signed
  /\ session[s].pc \in Writing => ledger[session[s].body.resolution].status = "absent"
  /\ session[s].pc \in {"readback", "record"} =>
       /\ ledger[session[s].body.resolution].status # "absent"
       /\ ledger[session[s].body.resolution].body = session[s].body
  /\ session[s].pc \in {"entities", "execute", "commit"} =>
       \A c \in AskOf(s).cands : cand[c].version = session[s].body.cands[c]
  /\ session[s].pc \in {"execute", "commit"} =>
       \A e \in Expected(AskOf(s)) : entity[e].version = session[s].body.people[e]
  /\ At(s, "commit") /\ AskOf(s).action = "archive_existing_entity" =>
       ~entity[AskOf(s).source].owns

Apart(s, t) ==
  /\ \A r \in Resolutions : HoldsResolution(s, r) => ~HoldsResolution(t, r)
  /\ \A c \in Candidates : HoldsCandidate(s, c) => ~HoldsCandidate(t, c)
  /\ \A e \in People : HoldsEntity(s, e) => ~HoldsEntity(t, e)

Exclusive == \A s, t \in Sessions : s # t => Apart(s, t)

(* The row of a resolution is that of a signed body; its person exists only*)
(* once it is there, and nobody was asked about people that do not exist.  *)
Rows ==
  /\ \A r \in Resolutions :
       IF ledger[r].status = "absent" THEN entity[r].status = "absent"
       ELSE ledger[r].body \in signed /\ ledger[r].body.resolution = r
  /\ \A b \in signed : \A e \in Expected(b.ask) : entity[e].status # "absent"

Inv ==
  /\ TypeOK
  /\ \A s \in Sessions : SessionOK(s)
  /\ Exclusive
  /\ Rows
  /\ AppliedOnce
  /\ AnswersMatchRequest

-----------------------------------------------------------------------------
(* A signed body names existing candidates and people.                     *)
LEMMA Bodies ==
  ASSUME NEW b \in Body
  PROVE  /\ b.resolution \in Resolutions /\ b.ask \in Inquiries /\ b.ask \in Question
         /\ b.ask.cands \subseteq Candidates /\ Expected(b.ask) \subseteq People
         /\ LockSet(b.ask) \subseteq People /\ Expected(b.ask) \subseteq LockSet(b.ask)
         /\ b.resolution \in People /\ b.resolution # None
         /\ b.cands \in [Candidates -> Nat] /\ b.people \in [People -> Nat]
         /\ b.ask.source \in People \cup {None} /\ b.ask.target \in People \cup {None}
         /\ b.ask.action \in ActionType
<1>1. b.resolution \in Resolutions /\ b.ask \in Inquiries /\ b.ask \in Question
      /\ b.cands \in [Candidates -> Nat] /\ b.people \in [People -> Nat]
  BY InquiriesAssumption DEF Body
<1>2. /\ b.ask.cands \subseteq Candidates /\ b.ask.related \subseteq People
      /\ b.ask.source \in People \cup {None} /\ b.ask.target \in People \cup {None}
      /\ b.ask.action \in ActionType
  BY <1>1 DEF Question
<1>3. b.resolution \in People /\ b.resolution # None
  BY <1>1, NoneAssumption DEF People
<1> QED
  BY <1>1, <1>2, <1>3 DEF Expected, LockSet

(* A step of one request that leaves the tables alone.                     *)
LEMMA OneMoves ==
  ASSUME Inv, NEW s \in Sessions, NEW x \in SessionState, session' = [session EXCEPT ![s] = x],
         UNCHANGED <<tables, ledger, history>>, SessionOK(s)',
         \A t \in Sessions \ {s} :
           /\ \A r \in Resolutions : HoldsResolution(s, r)' => ~HoldsResolution(t, r)
           /\ \A c \in Candidates : HoldsCandidate(s, c)' => ~HoldsCandidate(t, c)
           /\ \A e \in People : HoldsEntity(s, e)' => ~HoldsEntity(t, e)
  PROVE  Inv'
<1>1. UNCHANGED <<cand, entity, record, ledger, signed, answered, writes, others>>
  BY DEF tables, history
<1>2. TypeOK'
  BY <1>1 DEF Inv, TypeOK
<1>3. \A t \in Sessions \ {s} : session'[t] = session[t]
  BY DEF Inv, TypeOK
<1>4. \A t \in Sessions : SessionOK(t)'
  <2>1. ASSUME NEW t \in Sessions \ {s} PROVE SessionOK(t)'
    BY <1>1, <1>3 DEF Inv, SessionOK, At, AskOf
  <2> QED
    BY <2>1
<1>5. Exclusive'
  <2>1. \A t \in Sessions \ {s} : \A z :
          /\ HoldsResolution(t, z)' <=> HoldsResolution(t, z)
          /\ HoldsCandidate(t, z)' <=> HoldsCandidate(t, z)
          /\ HoldsEntity(t, z)' <=> HoldsEntity(t, z)
    BY <1>3 DEF HoldsResolution, HoldsCandidate, HoldsEntity, AskOf
  <2> QED
    BY <2>1 DEF Inv, Exclusive, Apart
<1>6. Rows' /\ AppliedOnce' /\ AnswersMatchRequest'
  BY <1>1 DEF Inv, Rows, AppliedOnce, AnswersMatchRequest
<1> QED
  BY <1>2, <1>4, <1>5, <1>6 DEF Inv

LEMMA LeaveKeeps ==
  ASSUME Inv, NEW s \in Sessions, session' = Leave(s), UNCHANGED <<tables, ledger, history>>
  PROVE  Inv'
<1>1. Idle \in SessionState /\ session' = [session EXCEPT ![s] = Idle]
  BY DEF Idle, SessionState, Leave
<1>2. session'[s].pc = "idle"
  BY <1>1 DEF Inv, TypeOK, Idle
<1>3. SessionOK(s)'
  BY <1>2 DEF SessionOK, At, Writing
<1>4. \A z : ~HoldsResolution(s, z)' /\ ~HoldsCandidate(s, z)' /\ ~HoldsEntity(s, z)'
  BY <1>2 DEF HoldsResolution, HoldsCandidate, HoldsEntity
<1> QED
  BY <1>1, <1>3, <1>4, OneMoves

(* A request that resumes reads back only what was applied for its body.   *)
LEMMA ResumeKeeps ==
  ASSUME Inv, NEW s \in Sessions, NEW b \in signed, ledger[b.resolution].status # "absent",
         session' = Resume(s, b), UNCHANGED <<tables, ledger, history>>
  PROVE  Inv'
<1>1. CASE ledger[b.resolution].body = b
  <2> DEFINE x == [pc |-> "readback", body |-> b]
  <2>1. b \in Body /\ x \in SessionState
    BY DEF Inv, TypeOK, SessionState
  <2>2. session' = [session EXCEPT ![s] = x]
    BY <1>1 DEF Resume
  <2>3. session'[s] = x /\ x.pc = "readback" /\ x.body = b
    BY <2>2 DEF Inv, TypeOK
  <2> HIDE DEF x
  <2>4. SessionOK(s)'
    BY <1>1, <2>3 DEF SessionOK, At, Writing, history
  <2>5. \A z : ~HoldsResolution(s, z)' /\ ~HoldsCandidate(s, z)' /\ ~HoldsEntity(s, z)'
    BY <2>3 DEF HoldsResolution, HoldsCandidate, HoldsEntity
  <2> QED
    BY <2>1, <2>2, <2>4, <2>5, OneMoves
<1>2. CASE ledger[b.resolution].body # b
  <2>1. session' = Leave(s)
    BY <1>2 DEF Resume, Leave
  <2> QED
    BY <2>1, LeaveKeeps
<1> QED
  BY <1>1, <1>2

LEMMA ApplyKeeps ==
  ASSUME Inv, NEW s \in Sessions, NEW b \in signed, Apply(s, b)
  PROVE  Inv'
<1>1. CASE ledger[b.resolution].status = "absent"
  <2> DEFINE x == [pc |-> "insert", body |-> b]
  <2>1. b \in Body /\ x \in SessionState
    BY DEF Inv, TypeOK, SessionState
  <2>2. session' = [session EXCEPT ![s] = x]
    BY <1>1 DEF Apply
  <2>3. session'[s] = x /\ x.pc = "insert" /\ x.body = b
    BY <2>2 DEF Inv, TypeOK
  <2> HIDE DEF x
  <2>4. SessionOK(s)'
    BY <2>3 DEF SessionOK, At, Writing, Apply, history
  <2>5. \A z : ~HoldsResolution(s, z)' /\ ~HoldsCandidate(s, z)' /\ ~HoldsEntity(s, z)'
    BY <2>3 DEF HoldsResolution, HoldsCandidate, HoldsEntity
  <2> QED
    BY <2>1, <2>2, <2>4, <2>5, OneMoves DEF Apply
<1>2. CASE ledger[b.resolution].status # "absent"
  BY <1>2, ResumeKeeps DEF Apply
<1> QED
  BY <1>1, <1>2

LEMMA GetKeeps ==
  ASSUME Inv, NEW s \in Sessions, NEW r \in Resolutions, Get(s, r)
  PROVE  Inv'
<1>1. ledger[r].body \in signed /\ ledger[r].body.resolution = r
  BY DEF Inv, Rows, Get
<1> QED
  BY <1>1, ResumeKeeps DEF Get

(* A request that goes on with the body it has.                            *)
LEMMA GotoState ==
  ASSUME Inv, NEW s \in Sessions, ~At(s, "idle"),
         NEW pc \in {"candidates", "entities", "execute", "commit", "record"},
         session' = Goto(s, pc)
  PROVE  /\ session[s].body \in signed /\ session[s].body \in Body
         /\ [pc |-> pc, body |-> session[s].body] \in SessionState
         /\ session' = [session EXCEPT ![s] = [pc |-> pc, body |-> session[s].body]]
         /\ session'[s].pc = pc /\ session'[s].body = session[s].body
<1>1. session[s] \in SessionState /\ session \in [Sessions -> SessionState]
  BY DEF Inv, TypeOK
<1>2. session[s].body \in signed /\ session[s].body \in Body
  BY DEF Inv, SessionOK, TypeOK
<1>3. [session[s] EXCEPT !.pc = pc] = [pc |-> pc, body |-> session[s].body]
  BY <1>1 DEF SessionState
<1>4. session' = [session EXCEPT ![s] = [session[s] EXCEPT !.pc = pc]]
  BY DEF Goto
<1>5. [pc |-> pc, body |-> session[s].body] \in SessionState
  BY <1>2 DEF SessionState
<1> QED
  BY <1>1, <1>2, <1>3, <1>4, <1>5

LEMMA InsertKeeps ==
  ASSUME Inv, NEW s \in Sessions, Insert(s)
  PROVE  Inv'
<1> DEFINE b == session[s].body
<1>0. ~At(s, "idle") /\ b \in signed
  BY DEF Insert, At, Inv, SessionOK
<1>1. CASE ledger[b.resolution].status = "absent"
  <2>1. session' = Goto(s, "candidates")
    BY <1>1 DEF Insert
  <2>2. /\ [pc |-> "candidates", body |-> b] \in SessionState
        /\ session' = [session EXCEPT ![s] = [pc |-> "candidates", body |-> b]]
        /\ session'[s].pc = "candidates" /\ session'[s].body = b
    BY <1>0, <2>1, GotoState
  <2>3. SessionOK(s)'
    BY <1>0, <1>1, <2>2 DEF SessionOK, At, Insert, history
  <2>4. \A z : HoldsResolution(s, z)' => z = b.resolution
    BY <2>2 DEF HoldsResolution
  <2>5. \A z : ~HoldsCandidate(s, z)' /\ ~HoldsEntity(s, z)'
    BY <2>2 DEF HoldsCandidate, HoldsEntity
  <2> QED
    BY <2>2, <2>3, <2>4, <2>5, OneMoves DEF Insert
<1>2. CASE ledger[b.resolution].status # "absent"
  BY <1>0, <1>2, ResumeKeeps DEF Insert
<1> QED
  BY <1>1, <1>2

LEMMA LockCandidatesKeeps ==
  ASSUME Inv, NEW s \in Sessions, LockCandidates(s)
  PROVE  Inv'
<1> DEFINE b == session[s].body
<1>1. CASE session' = Leave(s)
  BY <1>1, LeaveKeeps DEF LockCandidates
<1>2. CASE session' # Leave(s)
  <2>1. /\ session' = Goto(s, "entities") /\ \A c \in b.ask.cands : cand[c].version = b.cands[c]
        /\ \A c \in b.ask.cands : CandidateFree(s, c)
        /\ session[s].pc = "candidates" /\ UNCHANGED <<tables, ledger, history>>
    BY <1>2 DEF LockCandidates, At
  <2>2. /\ b \in signed /\ [pc |-> "entities", body |-> b] \in SessionState
        /\ session' = [session EXCEPT ![s] = [pc |-> "entities", body |-> b]]
        /\ session'[s].pc = "entities" /\ session'[s].body = b
    BY <2>1, GotoState DEF At
  <2>3. SessionOK(s)'
    BY <2>1, <2>2 DEF Inv, SessionOK, At, AskOf, Writing, tables, history
  <2>4. \A t \in Sessions \ {s}, r \in Resolutions : HoldsResolution(s, r)' => ~HoldsResolution(t, r)
    BY <2>1, <2>2 DEF HoldsResolution, Inv, Exclusive, Apart
  <2>5. \A t \in Sessions \ {s}, c \in Candidates : HoldsCandidate(s, c)' => ~HoldsCandidate(t, c)
    BY <2>1, <2>2 DEF HoldsCandidate, CandidateFree, AskOf
  <2>6. \A z : ~HoldsEntity(s, z)'
    BY <2>2 DEF HoldsEntity
  <2> QED
    BY <2>1, <2>2, <2>3, <2>4, <2>5, <2>6, OneMoves
<1> QED
  BY <1>1, <1>2

LEMMA LockEntitiesKeeps ==
  ASSUME Inv, NEW s \in Sessions, LockEntities(s)
  PROVE  Inv'
<1> DEFINE b == session[s].body
<1>1. CASE session' = Leave(s)
  BY <1>1, LeaveKeeps DEF LockEntities
<1>2. CASE session' # Leave(s)
  <2>1. /\ session' = Goto(s, "execute") /\ \A e \in Expected(b.ask) : entity[e].version = b.people[e]
        /\ \A e \in LockSet(b.ask) : EntityFree(s, e)
        /\ session[s].pc = "entities" /\ UNCHANGED <<tables, ledger, history>>
    BY <1>2 DEF LockEntities, At
  <2>2. /\ b \in signed /\ [pc |-> "execute", body |-> b] \in SessionState
        /\ session' = [session EXCEPT ![s] = [pc |-> "execute", body |-> b]]
        /\ session'[s].pc = "execute" /\ session'[s].body = b
    BY <2>1, GotoState DEF At
  <2>3. SessionOK(s)'
    BY <2>1, <2>2 DEF Inv, SessionOK, At, AskOf, Writing, tables, history
  <2>4. \A t \in Sessions \ {s}, r \in Resolutions : HoldsResolution(s, r)' => ~HoldsResolution(t, r)
    BY <2>1, <2>2 DEF HoldsResolution, Inv, Exclusive, Apart
  <2>5. \A t \in Sessions \ {s}, c \in Candidates : HoldsCandidate(s, c)' => ~HoldsCandidate(t, c)
    BY <2>1, <2>2 DEF HoldsCandidate, Inv, Exclusive, Apart, AskOf
  <2>6. \A t \in Sessions \ {s}, e \in People : HoldsEntity(s, e)' => ~HoldsEntity(t, e)
    BY <2>1, <2>2 DEF HoldsEntity, EntityFree, AskOf
  <2> QED
    BY <2>1, <2>2, <2>3, <2>4, <2>5, <2>6, OneMoves
<1> QED
  BY <1>1, <1>2

LEMMA ExecuteKeeps ==
  ASSUME Inv, NEW s \in Sessions, Execute(s)
  PROVE  Inv'
<1> DEFINE b == session[s].body
<1>1. CASE session' = Leave(s)
  BY <1>1, LeaveKeeps DEF Execute
<1>2. CASE session' # Leave(s)
  <2>1. /\ session' = Goto(s, "commit") /\ session[s].pc = "execute"
        /\ b.ask.action = "archive_existing_entity" => ~entity[b.ask.source].owns
        /\ UNCHANGED <<tables, ledger, history>>
    BY <1>2 DEF Execute, Archivable, At, AskOf
  <2>2. /\ b \in signed /\ [pc |-> "commit", body |-> b] \in SessionState
        /\ session' = [session EXCEPT ![s] = [pc |-> "commit", body |-> b]]
        /\ session'[s].pc = "commit" /\ session'[s].body = b
    BY <2>1, GotoState DEF At
  <2>3. SessionOK(s)'
    BY <2>1, <2>2 DEF Inv, SessionOK, At, AskOf, Writing, tables, history
  <2>4. \A t \in Sessions \ {s}, r \in Resolutions : HoldsResolution(s, r)' => ~HoldsResolution(t, r)
    BY <2>1, <2>2 DEF HoldsResolution, Inv, Exclusive, Apart
  <2>5. \A t \in Sessions \ {s}, c \in Candidates : HoldsCandidate(s, c)' => ~HoldsCandidate(t, c)
    BY <2>1, <2>2 DEF HoldsCandidate, Inv, Exclusive, Apart, AskOf
  <2>6. \A t \in Sessions \ {s}, e \in People : HoldsEntity(s, e)' => ~HoldsEntity(t, e)
    BY <2>1, <2>2 DEF HoldsEntity, Inv, Exclusive, Apart, AskOf
  <2> QED
    BY <2>1, <2>2, <2>3, <2>4, <2>5, <2>6, OneMoves
<1> QED
  BY <1>1, <1>2

LEMMA ReadbackKeeps ==
  ASSUME Inv, NEW s \in Sessions, Readback(s)
  PROVE  Inv'
<1> DEFINE b == session[s].body
<1>1. CASE session' = Leave(s)
  BY <1>1, LeaveKeeps DEF Readback
<1>2. CASE session' # Leave(s)
  <2>1. /\ session' = Goto(s, "record") /\ session[s].pc = "readback"
        /\ UNCHANGED <<tables, ledger, history>>
    BY <1>2 DEF Readback, At
  <2>2. /\ b \in signed /\ [pc |-> "record", body |-> b] \in SessionState
        /\ session' = [session EXCEPT ![s] = [pc |-> "record", body |-> b]]
        /\ session'[s].pc = "record" /\ session'[s].body = b
    BY <2>1, GotoState DEF At
  <2>3. SessionOK(s)'
    BY <2>1, <2>2 DEF Inv, SessionOK, At, AskOf, Writing, tables, history
  <2>4. \A z : ~HoldsResolution(s, z)' /\ ~HoldsCandidate(s, z)' /\ ~HoldsEntity(s, z)'
    BY <2>2 DEF HoldsResolution, HoldsCandidate, HoldsEntity
  <2> QED
    BY <2>1, <2>2, <2>3, <2>4, OneMoves
<1> QED
  BY <1>1, <1>2

LEMMA AbortKeeps ==
  ASSUME Inv, NEW s \in Sessions, Abort(s)
  PROVE  Inv'
BY LeaveKeeps DEF Abort

-----------------------------------------------------------------------------
(* A new signed body asks about people that exist.                         *)
LEMMA SignKeeps ==
  ASSUME Inv, NEW r \in Resolutions, NEW q \in Inquiries, Sign(r, q)
  PROVE  Inv'
<1> DEFINE x == [resolution |-> r, ask |-> q,
       cands |-> [c \in Candidates |-> IF c \in q.cands THEN cand[c].version ELSE 0],
       people |-> [e \in People |-> IF e \in Expected(q) THEN entity[e].version ELSE 0]]
<1>1. /\ signed' = signed \cup {x}
      /\ UNCHANGED <<cand, entity, record, ledger, session, answered, writes, others>>
      /\ \A e \in Expected(q) : entity[e].status # "absent"
  BY DEF Sign, tables
<1>2. x \in Body
  <2>1. \A c \in Candidates : cand[c].version \in Nat
    BY DEF Inv, TypeOK, CandidateRow
  <2>2. \A e \in People : entity[e].version \in Nat
    BY DEF Inv, TypeOK, EntityRow
  <2>3. x.cands \in [Candidates -> Nat] /\ x.people \in [People -> Nat]
    BY <2>1, <2>2
  <2> QED
    BY <2>3 DEF Body
<1>3. x.ask = q
  OBVIOUS
<1> HIDE DEF x
<1>4. TypeOK'
  BY <1>1, <1>2 DEF Inv, TypeOK
<1>5. \A t \in Sessions : SessionOK(t)'
  BY <1>1 DEF Inv, SessionOK, At, AskOf
<1>6. Exclusive'
  BY <1>1 DEF Inv, Exclusive, Apart, HoldsResolution, HoldsCandidate, HoldsEntity, AskOf
<1>7. Rows'
  BY <1>1, <1>3 DEF Inv, Rows
<1>8. AppliedOnce' /\ AnswersMatchRequest'
  BY <1>1 DEF Inv, AppliedOnce, AnswersMatchRequest
<1> QED
  BY <1>4, <1>5, <1>6, <1>7, <1>8 DEF Inv

(* The verdict of the readback is of the body that was applied.            *)
LEMMA RecordKeeps ==
  ASSUME Inv, NEW s \in Sessions, Record(s)
  PROVE  Inv'
<1> DEFINE b == session[s].body
           r == b.resolution
<1>1. /\ session[s].pc = "record" /\ b \in signed /\ b \in Body /\ r \in Resolutions
      /\ ledger[r].status # "absent" /\ ledger[r].body = b
  BY Bodies DEF Record, At, Inv, SessionOK, TypeOK
<1>2. /\ ledger' = [ledger EXCEPT ![r].status = "verified"] /\ answered' = answered \cup {b}
      /\ session' = [session EXCEPT ![s] = Idle]
      /\ UNCHANGED <<cand, entity, record, signed, writes, others>>
  BY DEF Record, tables, Leave
<1>3. ledger' = [ledger EXCEPT ![r] = [status |-> "verified", body |-> b]]
  <2>1. ledger[r] \in LedgerRow
    BY <1>1 DEF Inv, TypeOK
  <2>2. [ledger[r] EXCEPT !.status = "verified"] = [status |-> "verified", body |-> b]
    BY <1>1, <2>1 DEF LedgerRow
  <2> QED
    BY <1>2, <2>2
<1>4. ledger'[r] = [status |-> "verified", body |-> b]
  BY <1>1, <1>3 DEF Inv, TypeOK
<1>5. \A x \in Resolutions \ {r} : ledger'[x] = ledger[x]
  BY <1>3 DEF Inv, TypeOK
<1>6. session'[s] = Idle /\ \A t \in Sessions \ {s} : session'[t] = session[t]
  BY <1>2 DEF Inv, TypeOK
<1> HIDE DEF b, r
<1>7. TypeOK'
  <2>1. ledger' \in [Resolutions -> LedgerRow]
    BY <1>1, <1>3 DEF Inv, TypeOK, LedgerRow
  <2>2. session' \in [Sessions -> SessionState]
    BY <1>2 DEF Inv, TypeOK, SessionState, Idle
  <2> QED
    BY <1>1, <1>2, <2>1, <2>2 DEF Inv, TypeOK
<1>8. \A t \in Sessions : SessionOK(t)'
  <2>1. SessionOK(s)'
    BY <1>6 DEF SessionOK, At, Idle, Writing
  <2>2. ASSUME NEW t \in Sessions \ {s} PROVE SessionOK(t)'
    <3>1. session'[t] = session[t] /\ SessionOK(t)
      BY <1>6 DEF Inv
    <3>2. session[t].pc # "idle" => session[t].body.resolution \in Resolutions
      BY <3>1, Bodies DEF SessionOK, At, Inv, TypeOK
    <3>3. session[t].pc \in Writing =>
            ledger'[session[t].body.resolution].status = "absent"
      BY <1>1, <1>5, <3>1, <3>2 DEF SessionOK, Writing
    <3>4. session[t].pc \in {"readback", "record"} =>
            /\ ledger'[session[t].body.resolution].status # "absent"
            /\ ledger'[session[t].body.resolution].body = session[t].body
      BY <1>1, <1>4, <1>5, <3>1, <3>2 DEF SessionOK
    <3> QED
      BY <1>2, <3>1, <3>3, <3>4 DEF SessionOK, At, AskOf
  <2> QED
    BY <2>1, <2>2
<1>9. Exclusive'
  <2>1. \A z : ~HoldsResolution(s, z)' /\ ~HoldsCandidate(s, z)' /\ ~HoldsEntity(s, z)'
    BY <1>6 DEF HoldsResolution, HoldsCandidate, HoldsEntity, Idle
  <2>2. \A t \in Sessions \ {s} : \A z :
          /\ HoldsResolution(t, z)' <=> HoldsResolution(t, z)
          /\ HoldsCandidate(t, z)' <=> HoldsCandidate(t, z)
          /\ HoldsEntity(t, z)' <=> HoldsEntity(t, z)
    BY <1>6 DEF HoldsResolution, HoldsCandidate, HoldsEntity, AskOf
  <2> QED
    BY <2>1, <2>2 DEF Inv, Exclusive, Apart
<1>10. Rows'
  BY <1>1, <1>2, <1>4, <1>5 DEF Inv, Rows
<1>11. AppliedOnce'
  BY <1>1, <1>2, <1>4, <1>5 DEF Inv, AppliedOnce
<1>12. AnswersMatchRequest'
  <2>1. \A a \in answered : a.resolution \in Resolutions
    BY Bodies DEF Inv, TypeOK
  <2>2. ASSUME NEW a \in answered PROVE ledger'[a.resolution] = [status |-> "verified", body |-> a]
    <3>1. ledger[a.resolution] = [status |-> "verified", body |-> a]
      BY DEF Inv, AnswersMatchRequest
    <3> QED
      BY <1>1, <1>4, <1>5, <2>1, <3>1
  <2>3. ledger'[b.resolution] = [status |-> "verified", body |-> b]
    BY <1>4 DEF r
  <2> QED
    BY <1>2, <2>2, <2>3 DEF AnswersMatchRequest
<1> QED
  BY <1>7, <1>8, <1>9, <1>10, <1>11, <1>12 DEF Inv

-----------------------------------------------------------------------------
(* A change to one candidate that no request holds.                        *)
LEMMA ReviewKeeps ==
  ASSUME Inv, NEW c \in Candidates,
         NEW status \in {"accepted", "rejected", "needs_clarification"}, Review(c, status)
  PROVE  Inv'
<1> DEFINE x == [status |-> status, version |-> cand[c].version + 1,
                 ref |-> IF status = "accepted" THEN Elsewhere ELSE cand[c].ref]
<1>1. /\ cand' = [cand EXCEPT ![c] = x] /\ others < MaxOthers /\ others' = others + 1
      /\ UNCHANGED <<entity, record, ledger, session, signed, answered, writes>>
      /\ \A t \in Sessions : ~HoldsCandidate(t, c)
  BY DEF Review, Other
<1>2. x \in CandidateRow
  BY DEF Inv, TypeOK, CandidateRow, TERMINAL_STATUSES
<1> HIDE DEF x
<1>3. \A d \in Candidates \ {c} : cand'[d] = cand[d]
  BY <1>1 DEF Inv, TypeOK
<1>4. TypeOK'
  BY <1>1, <1>2, BoundsAssumption DEF Inv, TypeOK
<1>5. \A t \in Sessions : SessionOK(t)'
  <2>1. ASSUME NEW t \in Sessions PROVE SessionOK(t)'
    <3>1. session[t].pc \in {"entities", "execute", "commit"} =>
            \A d \in AskOf(t).cands : cand'[d].version = session[t].body.cands[d]
      <4>1. SUFFICES ASSUME session[t].pc \in {"entities", "execute", "commit"},
                            NEW d \in AskOf(t).cands
                     PROVE  cand'[d].version = session[t].body.cands[d]
        OBVIOUS
      <4>2. session[t].body \in Body
        BY <4>1 DEF Inv, SessionOK, At, TypeOK
      <4>3. d \in Candidates /\ d # c
        BY <1>1, <4>1, <4>2, Bodies DEF HoldsCandidate, AskOf
      <4> QED
        BY <1>3, <4>1, <4>3 DEF Inv, SessionOK
    <3> QED
      BY <1>1, <3>1 DEF Inv, SessionOK, At, AskOf
  <2> QED
    BY <2>1
<1>6. Exclusive'
  BY <1>1 DEF Inv, Exclusive, Apart, HoldsResolution, HoldsCandidate, HoldsEntity, AskOf
<1>7. Rows' /\ AppliedOnce' /\ AnswersMatchRequest'
  BY <1>1 DEF Inv, Rows, AppliedOnce, AnswersMatchRequest
<1> QED
  BY <1>4, <1>5, <1>6, <1>7 DEF Inv

(* A change to one person that no request holds.                           *)
LEMMA PersonChanges ==
  ASSUME Inv, NEW e \in People, NEW x \in EntityRow, entity' = [entity EXCEPT ![e] = x],
         x.status # "absent", entity[e].status # "absent",
         \A t \in Sessions : ~HoldsEntity(t, e), others' \in 0..MaxOthers,
         UNCHANGED <<cand, record, ledger, session, signed, answered, writes>>
  PROVE  Inv'
<1>1. entity'[e] = x /\ \A f \in People \ {e} : entity'[f] = entity[f]
  BY DEF Inv, TypeOK
<1>2. TypeOK'
  BY DEF Inv, TypeOK
<1>3. \A t \in Sessions : SessionOK(t)'
  <2>1. ASSUME NEW t \in Sessions PROVE SessionOK(t)'
    <3>1. session[t].pc \in {"execute", "commit"} =>
            \A f \in Expected(AskOf(t)) : entity'[f] = entity[f]
      <4>1. SUFFICES ASSUME session[t].pc \in {"execute", "commit"},
                            NEW f \in Expected(AskOf(t))
                     PROVE  entity'[f] = entity[f]
        OBVIOUS
      <4>2. session[t].body \in Body
        BY <4>1 DEF Inv, SessionOK, At, TypeOK
      <4>3. f \in People /\ f # e
        BY <4>1, <4>2, Bodies DEF HoldsEntity, AskOf
      <4> QED
        BY <1>1, <4>3
    <3>2. At(t, "commit") /\ AskOf(t).action = "archive_existing_entity" =>
            AskOf(t).source \in Expected(AskOf(t))
      BY Bodies, InquiriesAssumption DEF Inv, SessionOK, At, TypeOK, AskOf, Expected
    <3>3. At(t, "commit") /\ AskOf(t).action = "archive_existing_entity" =>
            ~entity'[AskOf(t).source].owns
      BY <3>1, <3>2 DEF Inv, SessionOK, At
    <3>4. SessionOK(t)
      BY DEF Inv
    <3> QED
      BY <3>1, <3>3, <3>4 DEF SessionOK, At, AskOf
  <2> QED
    BY <2>1
<1>4. Exclusive'
  BY DEF Inv, Exclusive, Apart, HoldsResolution, HoldsCandidate, HoldsEntity, AskOf
<1>5. Rows'
  <2>1. \A f \in People : entity'[f].status = "absent" <=> entity[f].status = "absent"
    BY <1>1
  <2>2. \A b \in signed : Expected(b.ask) \subseteq People
    BY Bodies DEF Inv, TypeOK
  <2> QED
    BY <2>1, <2>2 DEF Inv, Rows, People
<1>6. AppliedOnce' /\ AnswersMatchRequest'
  BY DEF Inv, AppliedOnce, AnswersMatchRequest
<1> QED
  BY <1>2, <1>3, <1>4, <1>5, <1>6 DEF Inv

LEMMA PatchEntityKeeps ==
  ASSUME Inv, NEW e \in People, NEW status \in EntityStatus, PatchEntity(e, status)
  PROVE  Inv'
<1> DEFINE x == [status |-> status, version |-> entity[e].version + 1, owns |-> entity[e].owns]
<1>0. entity[e] \in EntityRow
  BY DEF Inv, TypeOK
<1>1. x \in EntityRow /\ x.status # "absent"
  BY <1>0 DEF EntityRow, EntityStatus
<1>2. entity' = [entity EXCEPT ![e] = x]
  <2>1. entity' = [entity EXCEPT ![e].status = status, ![e].version = entity[e].version + 1]
    BY DEF PatchEntity
  <2>2. \A f \in People : entity[f] \in EntityRow
    BY DEF Inv, TypeOK
  <2> QED
    BY <2>1, <1>0, <2>2 DEF EntityRow, Inv, TypeOK
<1> HIDE DEF x
<1>3. others' \in 0..MaxOthers
  BY BoundsAssumption DEF PatchEntity, Other, Inv, TypeOK
<1> QED
  BY <1>1, <1>2, <1>3, PersonChanges DEF PatchEntity, Other

LEMMA AddContextKeeps ==
  ASSUME Inv, NEW e \in People, AddContext(e)
  PROVE  Inv'
<1> DEFINE x == [entity[e] EXCEPT !.owns = TRUE]
<1>1. x \in EntityRow /\ x.status # "absent"
  BY DEF Inv, TypeOK, EntityRow, EntityStatus, AddContext
<1>2. entity' = [entity EXCEPT ![e] = x]
  BY DEF AddContext
<1> HIDE DEF x
<1>3. others' \in 0..MaxOthers
  BY BoundsAssumption DEF AddContext, Other, Inv, TypeOK
<1> QED
  BY <1>1, <1>2, <1>3, PersonChanges DEF AddContext, Other

LEMMA CorrectRecordKeeps ==
  ASSUME Inv, NEW r \in Resolutions, CorrectRecord(r)
  PROVE  Inv'
<1>1. /\ record' = [record EXCEPT ![r] = "changed"] /\ others' \in 0..MaxOthers
      /\ UNCHANGED <<cand, entity, ledger, session, signed, answered, writes>>
  BY BoundsAssumption DEF CorrectRecord, Other, Inv, TypeOK
<1>2. TypeOK'
  BY <1>1 DEF Inv, TypeOK, RecordStatus
<1>3. \A t \in Sessions : SessionOK(t)'
  BY <1>1 DEF Inv, SessionOK, At, AskOf
<1>4. Exclusive'
  BY <1>1 DEF Inv, Exclusive, Apart, HoldsResolution, HoldsCandidate, HoldsEntity, AskOf
<1>5. Rows' /\ AppliedOnce' /\ AnswersMatchRequest'
  BY <1>1 DEF Inv, Rows, AppliedOnce, AnswersMatchRequest
<1> QED
  BY <1>2, <1>3, <1>4, <1>5 DEF Inv

-----------------------------------------------------------------------------
(* Where a commit finds the tables.                                        *)
LEMMA CommitFinds ==
  ASSUME Inv, NEW s \in Sessions, Commit(s)
  PROVE  LET b == session[s].body
             r == b.resolution
         IN /\ session[s].pc = "commit" /\ b \in signed /\ b \in Body
            /\ ledger[r].status = "absent" /\ entity[r].status = "absent" /\ writes[r] = 0
<1> DEFINE b == session[s].body
           r == b.resolution
<1>1. session[s].pc = "commit" /\ b \in signed /\ b \in Body /\ ledger[r].status = "absent"
  BY DEF Commit, At, Inv, SessionOK, Writing, TypeOK
<1>2. r \in Resolutions
  BY <1>1, Bodies
<1>3. writes[r] = 0
  <2>1. writes[r] \in Nat
    BY <1>2 DEF Inv, TypeOK
  <2> HIDE DEF r
  <2> QED
    BY <1>1, <1>2, <2>1 DEF Inv, AppliedOnce
<1> QED
  BY <1>1, <1>2, <1>3 DEF Inv, Rows

(* What a commit writes has the types of the tables.                       *)
LEMMA CommitTypes ==
  ASSUME Inv, NEW s \in Sessions, Commit(s)
  PROVE  TypeOK'
<1> DEFINE b == session[s].body
           q == b.ask
           r == b.resolution
<1>1. /\ session[s].pc = "commit" /\ b \in Body /\ r \in Resolutions /\ r \in People
      /\ q.source \in People \cup {None} /\ q.target \in People \cup {None}
  BY CommitFinds, Bodies
<1>2. ASSUME NEW c \in Candidates
      PROVE [status |-> Resolved(q, c), version |-> cand[c].version + 1, ref |-> Outcome(r, q, c)]
              \in CandidateRow
  <2>1. cand[c].version + 1 \in Nat /\ cand[c].ref \in People \cup {None, Elsewhere}
    BY DEF Inv, TypeOK, CandidateRow
  <2>2. Outcome(r, q, c) \in People \cup {None, Elsewhere}
    BY <1>1, <2>1 DEF Outcome
  <2>3. Resolved(q, c) \in TERMINAL_STATUSES
    BY DEF Resolved, TERMINAL_STATUSES
  <2> QED
    BY <2>1, <2>2, <2>3 DEF CandidateRow
<1>3. ASSUME NEW e \in People
      PROVE [status |-> NewStatus(r, q, e), owns |-> entity[e].owns \/ e \in GainsContext(r, q),
             version |-> IF NewStatus(r, q, e) = entity[e].status
                           THEN entity[e].version ELSE entity[e].version + 1] \in EntityRow
  <2>1. /\ entity[e].version \in Nat /\ entity[e].version + 1 \in Nat
        /\ entity[e].status \in EntityStatus \cup {"absent"}
    BY DEF Inv, TypeOK, EntityRow
  <2>2. NewStatus(r, q, e) \in EntityStatus \cup {"absent"}
    BY <2>1 DEF NewStatus, EntityStatus
  <2>3. (entity[e].owns \/ e \in GainsContext(r, q)) \in BOOLEAN
    OBVIOUS
  <2> QED
    BY <2>1, <2>2, <2>3 DEF EntityRow
<1>4. cand' \in [Candidates -> CandidateRow]
  BY <1>2 DEF Commit, Inv, TypeOK
<1>5. entity' \in [People -> EntityRow]
  BY <1>3 DEF Commit
<1>6. record' \in [Resolutions -> RecordStatus]
  BY <1>1 DEF Commit, Inv, TypeOK, RecordStatus
<1>7. ledger' \in [Resolutions -> LedgerRow]
  <2>1. [status |-> "committed_unverified", body |-> b] \in LedgerRow
    BY <1>1 DEF LedgerRow
  <2> QED
    BY <2>1 DEF Commit, Inv, TypeOK
<1>8. session' \in [Sessions -> SessionState]
  <2>1. session[s] \in SessionState
    BY DEF Inv, TypeOK
  <2>2. [session[s] EXCEPT !.pc = "readback"] \in SessionState
    BY <2>1 DEF SessionState
  <2> QED
    BY <2>2 DEF Commit, Goto, Inv, TypeOK
<1>9. writes' \in [Resolutions -> Nat]
  BY <1>1 DEF Commit, Inv, TypeOK
<1>10. signed' \subseteq Body /\ answered' \subseteq Body /\ others' \in 0..MaxOthers
  BY DEF Commit, Inv, TypeOK
<1> QED
  BY <1>4, <1>5, <1>6, <1>7, <1>8, <1>9, <1>10 DEF TypeOK

(* A commit changes only the rows it has locked, and its new person.       *)
LEMMA CommitTouches ==
  ASSUME Inv, NEW s \in Sessions, Commit(s), NEW e \in People,
         LET b == session[s].body IN e # b.resolution /\ e \notin LockSet(b.ask)
  PROVE  /\ entity'[e].status = entity[e].status /\ entity'[e].version = entity[e].version
         /\ entity'[e].owns <=> entity[e].owns
<1> DEFINE b == session[s].body
           q == b.ask
           r == b.resolution
<1>1. q.source \in People \cup {None} /\ q.target \in People \cup {None} /\ r \in Resolutions
  BY CommitFinds, Bodies
<1>2. e # q.source /\ e # q.target /\ e # r /\ e \notin q.related
  BY <1>1, NoneAssumption DEF LockSet, Expected
<1>3. NewStatus(r, q, e) = entity[e].status
  BY <1>2 DEF NewStatus
<1>4. Primary(r, q) # e
  BY <1>2, NoneAssumption DEF Primary
<1>5. e \notin GainsContext(r, q)
  BY <1>2, <1>4 DEF GainsContext, Expected
<1> HIDE DEF b, q, r
<1>6. entity'[e] = [status |-> NewStatus(r, q, e),
                    owns |-> entity[e].owns \/ e \in GainsContext(r, q),
                    version |-> IF NewStatus(r, q, e) = entity[e].status
                                  THEN entity[e].version ELSE entity[e].version + 1]
  BY DEF Commit, b, q, r
<1>7. entity'[e].status = entity[e].status /\ entity'[e].version = entity[e].version
  BY <1>3, <1>6
<1>8. entity'[e].owns = (entity[e].owns \/ e \in GainsContext(r, q))
  BY <1>6
<1> QED
  BY <1>5, <1>7, <1>8

LEMMA CommitKeeps ==
  ASSUME Inv, NEW s \in Sessions, Commit(s)
  PROVE  Inv'
<1> DEFINE b == session[s].body
           q == b.ask
           r == b.resolution
<1>1. /\ session[s].pc = "commit" /\ b \in signed /\ b \in Body /\ ledger[r].status = "absent"
      /\ entity[r].status = "absent" /\ writes[r] = 0 /\ r \in Resolutions /\ r \in People
  BY CommitFinds, Bodies
<1>2. TypeOK'
  BY CommitTypes
<1>3. ledger'[r] = [status |-> "committed_unverified", body |-> b] /\ writes'[r] = 1
  BY <1>1 DEF Commit, Inv, TypeOK
<1>4. \A x \in Resolutions \ {r} : ledger'[x] = ledger[x] /\ writes'[x] = writes[x]
  BY DEF Commit, Inv, TypeOK
<1>5. UNCHANGED <<signed, answered, others>>
  BY DEF Commit
<1>6. session'[s].pc = "readback" /\ session'[s].body = b
  <2>1. session[s] \in SessionState /\ session \in [Sessions -> SessionState]
    BY DEF Inv, TypeOK
  <2> QED
    BY <2>1 DEF Commit, Goto, SessionState
<1>7. \A t \in Sessions \ {s} : session'[t] = session[t]
  BY DEF Commit, Goto, Inv, TypeOK
<1>8. \A c \in Candidates : c \notin q.cands => cand'[c] = cand[c]
  BY DEF Commit
<1>9. \A t \in Sessions \ {s} : SessionOK(t)'
  <2>1. SUFFICES ASSUME NEW t \in Sessions \ {s} PROVE SessionOK(t)'
    OBVIOUS
  <2> DEFINE d == session[t].body
  <2>2. SessionOK(t) /\ Apart(s, t) /\ session'[t] = session[t]
    BY <1>7, <2>1 DEF Inv, Exclusive
  <2>3. session[t].pc # "idle" => d \in signed /\ d \in Body /\ d.resolution \in Resolutions
    BY <2>2, Bodies DEF SessionOK, At, Inv, TypeOK
  <2>4. session[t].pc \in Writing => ledger'[d.resolution].status = "absent"
    BY <1>1, <1>4, <2>2, <2>3 DEF SessionOK, Writing, Apart, HoldsResolution
  <2>5. session[t].pc \in {"readback", "record"} => ledger'[d.resolution] = ledger[d.resolution]
    BY <1>1, <1>4, <2>2, <2>3 DEF SessionOK
  <2>6. session[t].pc \in {"entities", "execute", "commit"} =>
          \A c \in d.ask.cands : cand'[c] = cand[c]
    BY <1>1, <1>8, <2>2, <2>3, Bodies DEF Apart, HoldsCandidate, AskOf
  <2>7. session[t].pc \in {"execute", "commit"} =>
          \A e \in Expected(d.ask) : /\ entity'[e].version = entity[e].version
                                     /\ entity'[e].owns <=> entity[e].owns
    <3>1. SUFFICES ASSUME session[t].pc \in {"execute", "commit"}, NEW e \in Expected(d.ask)
                   PROVE  /\ entity'[e].version = entity[e].version
                          /\ entity'[e].owns <=> entity[e].owns
      OBVIOUS
    <3>2. d \in signed /\ e \in People /\ e \in LockSet(d.ask)
      BY <2>3, <3>1, Bodies
    <3>3. HoldsEntity(t, e)
      BY <3>1, <3>2 DEF HoldsEntity, AskOf
    <3>4. e \notin LockSet(q)
      BY <1>1, <2>2, <3>2, <3>3 DEF Apart, HoldsEntity, AskOf
    <3>5. e # r
      BY <1>1, <3>2 DEF Inv, Rows
    <3> QED
      BY <3>2, <3>4, <3>5, CommitTouches
  <2>8. session[t].pc = "commit" /\ d.ask.action = "archive_existing_entity" =>
          d.ask.source \in Expected(d.ask)
    BY <2>3, Bodies, InquiriesAssumption DEF Expected
  <2>9. session[t].pc = "commit" /\ d.ask.action = "archive_existing_entity" =>
          ~entity'[d.ask.source].owns
    BY <2>2, <2>7, <2>8 DEF SessionOK, At, AskOf
  <2>10. /\ session[t].pc \in {"entities", "execute", "commit"} =>
             \A c \in d.ask.cands : cand'[c].version = d.cands[c]
         /\ session[t].pc \in {"execute", "commit"} =>
             \A e \in Expected(d.ask) : entity'[e].version = d.people[e]
    BY <2>2, <2>6, <2>7 DEF SessionOK, AskOf
  <2>11. session[t].pc \in {"readback", "record"} =>
           ledger'[d.resolution].status # "absent" /\ ledger'[d.resolution].body = d
    BY <2>2, <2>5 DEF SessionOK
  <2> QED
    BY <1>5, <2>2, <2>3, <2>4, <2>9, <2>10, <2>11 DEF SessionOK, At, AskOf
<1>10. SessionOK(s)'
  BY <1>1, <1>3, <1>5, <1>6 DEF SessionOK, At, Writing
<1>11. Exclusive'
  <2>1. \A z : ~HoldsResolution(s, z)' /\ ~HoldsCandidate(s, z)' /\ ~HoldsEntity(s, z)'
    BY <1>6 DEF HoldsResolution, HoldsCandidate, HoldsEntity
  <2>2. \A t \in Sessions \ {s} : \A z :
          /\ HoldsResolution(t, z)' <=> HoldsResolution(t, z)
          /\ HoldsCandidate(t, z)' <=> HoldsCandidate(t, z)
          /\ HoldsEntity(t, z)' <=> HoldsEntity(t, z)
    BY <1>7 DEF HoldsResolution, HoldsCandidate, HoldsEntity, AskOf
  <2> QED
    BY <2>1, <2>2 DEF Inv, Exclusive, Apart
<1>12. Rows'
  <2>1. ASSUME NEW e \in People, entity[e].status # "absent" PROVE entity'[e].status # "absent"
    <3>1. entity'[e].status = NewStatus(r, q, e)
      BY DEF Commit
    <3> QED
      BY <2>1, <3>1 DEF NewStatus
  <2>2. ASSUME NEW x \in Resolutions \ {r}, ledger[x].status = "absent"
        PROVE  entity'[x].status = "absent"
    <3>1. x \in People /\ entity[x].status = "absent" /\ x # None
      BY <2>2, NoneAssumption DEF Inv, Rows, People
    <3>2. x # q.source
      BY <1>1, <3>1 DEF Inv, Rows, Expected
    <3>3. entity'[x].status = NewStatus(r, q, x)
      BY <3>1 DEF Commit
    <3> QED
      BY <2>2, <3>1, <3>2, <3>3 DEF NewStatus
  <2>3. \A a \in signed : Expected(a.ask) \subseteq People
    BY Bodies DEF Inv, TypeOK
  <2> HIDE DEF b, q
  <2>4. ledger'[r].body \in signed /\ ledger'[r].body.resolution = r
        /\ ledger'[r].status # "absent"
    BY <1>1, <1>3 DEF r
  <2> HIDE DEF r
  <2>5. \A x \in Resolutions :
          IF ledger'[x].status = "absent" THEN entity'[x].status = "absent"
          ELSE ledger'[x].body \in signed /\ ledger'[x].body.resolution = x
    <3>1. ASSUME NEW x \in Resolutions \ {r}
          PROVE  IF ledger'[x].status = "absent" THEN entity'[x].status = "absent"
                 ELSE ledger'[x].body \in signed /\ ledger'[x].body.resolution = x
      BY <1>4, <2>2, <3>1 DEF Inv, Rows
    <3> QED
      BY <2>4, <3>1
  <2>6. \A a \in signed : \A e \in Expected(a.ask) : entity'[e].status # "absent"
    BY <2>1, <2>3 DEF Inv, Rows
  <2> QED
    BY <1>5, <2>5, <2>6 DEF Rows
<1> HIDE DEF b, q, r
<1>13. AppliedOnce'
  BY <1>3, <1>4 DEF Inv, AppliedOnce
<1>14. AnswersMatchRequest'
  <2>1. ASSUME NEW a \in answered
        PROVE  ledger'[a.resolution] = [status |-> "verified", body |-> a]
    <3>1. a.resolution \in Resolutions
      BY Bodies DEF Inv, TypeOK
    <3>2. ledger[a.resolution] = [status |-> "verified", body |-> a]
      BY DEF Inv, AnswersMatchRequest
    <3>3. a.resolution # r
      BY <1>1, <3>2
    <3> QED
      BY <1>4, <3>1, <3>2, <3>3
  <2> QED
    BY <1>5, <2>1 DEF AnswersMatchRequest
<1> QED
  BY <1>2, <1>9, <1>10, <1>11, <1>12, <1>13, <1>14 DEF Inv

-----------------------------------------------------------------------------
LEMMA InitInv == Init => Inv
<1> SUFFICES ASSUME Init PROVE Inv
  OBVIOUS
<1>1. TypeOK
  <2>1. cand \in [Candidates -> CandidateRow]
    BY DEF Init, CandidateRow
  <2>2. entity \in [People -> EntityRow]
    BY DEF Init, EntityRow, EntityStatus
  <2>3. session \in [Sessions -> SessionState]
    BY DEF Init, Idle, SessionState
  <2>4. ledger \in [Resolutions -> LedgerRow] /\ record \in [Resolutions -> RecordStatus]
    BY DEF Init, LedgerRow, RecordStatus
  <2> QED
    BY <2>1, <2>2, <2>3, <2>4, BoundsAssumption DEF Init, TypeOK
<1>2. \A s \in Sessions : session[s] = Idle
  BY DEF Init
<1>3. \A s \in Sessions : SessionOK(s)
  BY <1>2 DEF SessionOK, At, Idle, Writing
<1>4. Exclusive
  BY <1>2 DEF Exclusive, Apart, HoldsResolution, HoldsCandidate, HoldsEntity, Idle
<1>5. Rows
  BY EntitiesAssumption DEF Init, Rows, People
<1>6. AppliedOnce /\ AnswersMatchRequest
  BY DEF Init, AppliedOnce, AnswersMatchRequest
<1> QED
  BY <1>1, <1>3, <1>4, <1>5, <1>6 DEF Inv

LEMMA NextInv == Inv /\ [Next]_vars => Inv'
<1> SUFFICES ASSUME Inv, [Next]_vars PROVE Inv'
  OBVIOUS
<1>1. ASSUME NEW r \in Resolutions, NEW q \in Inquiries, Sign(r, q) PROVE Inv'
  BY <1>1, SignKeeps
<1>2. ASSUME NEW s \in Sessions, Insert(s) PROVE Inv'
  BY <1>2, InsertKeeps
<1>3. ASSUME NEW s \in Sessions, LockCandidates(s) PROVE Inv'
  BY <1>3, LockCandidatesKeeps
<1>4. ASSUME NEW s \in Sessions, LockEntities(s) PROVE Inv'
  BY <1>4, LockEntitiesKeeps
<1>5. ASSUME NEW s \in Sessions, Execute(s) PROVE Inv'
  BY <1>5, ExecuteKeeps
<1>6. ASSUME NEW s \in Sessions, Commit(s) PROVE Inv'
  BY <1>6, CommitKeeps
<1>7. ASSUME NEW s \in Sessions, Readback(s) PROVE Inv'
  BY <1>7, ReadbackKeeps
<1>8. ASSUME NEW s \in Sessions, Record(s) PROVE Inv'
  BY <1>8, RecordKeeps
<1>9. ASSUME NEW s \in Sessions, Abort(s) PROVE Inv'
  BY <1>9, AbortKeeps
<1>10. ASSUME NEW s \in Sessions, NEW b \in signed, Apply(s, b) PROVE Inv'
  BY <1>10, ApplyKeeps
<1>11. ASSUME NEW s \in Sessions, NEW r \in Resolutions, Get(s, r) PROVE Inv'
  BY <1>11, GetKeeps
<1>12. ASSUME NEW c \in Candidates, NEW status \in {"accepted", "rejected", "needs_clarification"},
              Review(c, status)
       PROVE  Inv'
  BY <1>12, ReviewKeeps
<1>13. ASSUME NEW e \in People, NEW status \in EntityStatus, PatchEntity(e, status) PROVE Inv'
  BY <1>13, PatchEntityKeeps
<1>14. ASSUME NEW e \in People, AddContext(e) PROVE Inv'
  BY <1>14, AddContextKeeps
<1>15. ASSUME NEW r \in Resolutions, CorrectRecord(r) PROVE Inv'
  BY <1>15, CorrectRecordKeeps
<1>16. CASE UNCHANGED vars
  <2>1. UNCHANGED <<cand, entity, record, ledger, session, signed, answered, writes, others>>
    BY <1>16 DEF vars
  <2>2. TypeOK' /\ Rows' /\ AppliedOnce' /\ AnswersMatchRequest'
    BY <2>1 DEF Inv, TypeOK, Rows, AppliedOnce, AnswersMatchRequest
  <2>3. \A t \in Sessions : SessionOK(t)'
    BY <2>1 DEF Inv, SessionOK, At, AskOf
  <2>4. Exclusive'
    BY <2>1 DEF Inv, Exclusive, Apart, HoldsResolution, HoldsCandidate, HoldsEntity, AskOf
  <2> QED
    BY <2>2, <2>3, <2>4 DEF Inv
<1> QED
  BY <1>1, <1>2, <1>3, <1>4, <1>5, <1>6, <1>7, <1>8, <1>9, <1>10, <1>11, <1>12, <1>13, <1>14,
     <1>15, <1>16 DEF Next, Advance

(* The invariant of the running requests, with whatever resolutions,       *)
(* candidates, people and requests there are.                              *)
THEOREM ReconciliationInvariant == Spec => []Inv
BY InitInv, NextInv, PTL DEF Spec

(* Tables, ledger and requests keep their types.                           *)
THEOREM ReconciliationTypeCorrect == Spec => []TypeOK
<1>1. Inv => TypeOK
  BY DEF Inv
<1> QED
  BY <1>1, ReconciliationInvariant, PTL

(* However often an answer is posted, and by however many requests at the  *)
(* same time, its canonical writes are committed at most once.             *)
THEOREM AppliedAtMostOnce == Spec => []AppliedOnce
<1>1. Inv => AppliedOnce
  BY DEF Inv
<1> QED
  BY <1>1, ReconciliationInvariant, PTL

(* Only the request whose body was applied is told that it took effect.    *)
THEOREM AnswersAreTheirOwn == Spec => []AnswersMatchRequest
<1>1. Inv => AnswersMatchRequest
  BY DEF Inv
<1> QED
  BY <1>1, ReconciliationInvariant, PTL

-----------------------------------------------------------------------------
(* Nothing but a commit writes canonical records for a resolution.         *)
LEMMA OnlyCommits ==
  ASSUME Inv, [Next]_vars, NEW r \in Resolutions, writes'[r] > writes[r]
  PROVE  \E s \in Sessions : Commit(s) /\ session[s].body.resolution = r
<1>1. ~UNCHANGED writes
  BY DEF Inv, TypeOK
<1>2. \E s \in Sessions : Commit(s)
  BY <1>1 DEF Next, Advance, vars, history, Sign, Insert, LockCandidates, LockEntities, Execute,
     Readback, Record, Abort, Apply, Get, Other, Review, PatchEntity, AddContext, CorrectRecord
<1>3. PICK s \in Sessions : Commit(s)
  BY <1>2
<1>4. session[s].body.resolution = r
  BY <1>3 DEF Commit, Inv, TypeOK
<1> QED
  BY <1>3, <1>4

(* What a commit is about, seen from the row it leaves in the ledger.      *)
LEMMA CommitLeaves ==
  ASSUME Inv, NEW s \in Sessions, Commit(s)
  PROVE  LET b == session[s].body
         IN /\ ledger'[b.resolution].body = b /\ b \in Body
            /\ \A c \in b.ask.cands : cand[c].version = b.cands[c]
            /\ \A e \in Expected(b.ask) : entity[e].version = b.people[e]
            /\ b.ask.action = "archive_existing_entity" => ~entity[b.ask.source].owns
<1> DEFINE b == session[s].body
<1>1. session[s].pc = "commit" /\ b \in Body /\ b.resolution \in Resolutions
  BY CommitFinds, Bodies
<1>2. ledger'[b.resolution].body = b
  BY <1>1 DEF Commit, Inv, TypeOK
<1> QED
  BY <1>1, <1>2 DEF Inv, SessionOK, At, AskOf

(* The rows that an action changes are those that the user saw.            *)
THEOREM SnapshotsAreExact == Spec => ExactSnapshots
<1> DEFINE Exact ==
      \A r \in Resolutions :
        writes'[r] > writes[r] =>
          LET b == ledger'[r].body
          IN /\ \A c \in b.ask.cands : cand[c].version = b.cands[c]
             /\ \A e \in Expected(b.ask) : entity[e].version = b.people[e]
<1>1. Inv /\ [Next]_vars => Exact
  <2> SUFFICES ASSUME Inv, [Next]_vars, NEW r \in Resolutions, writes'[r] > writes[r]
               PROVE  LET b == ledger'[r].body
                      IN /\ \A c \in b.ask.cands : cand[c].version = b.cands[c]
                         /\ \A e \in Expected(b.ask) : entity[e].version = b.people[e]
    OBVIOUS
  <2>1. PICK s \in Sessions : Commit(s) /\ session[s].body.resolution = r
    BY OnlyCommits
  <2> QED
    BY <2>1, CommitLeaves
<1>2. Inv /\ [Next]_vars => [Exact]_vars
  BY <1>1
<1>3. Spec => [][Exact]_vars
  BY <1>2, ReconciliationInvariant, PTL DEF Spec
<1> QED
  BY <1>3 DEF ExactSnapshots

(* A person who is archived owns no context row when that happens.         *)
THEOREM ArchivedAreEmpty == Spec => ArchivesOnlyEmpty
<1> DEFINE Empty ==
      \A r \in Resolutions :
        /\ writes'[r] > writes[r]
        /\ ledger'[r].body.ask.action = "archive_existing_entity"
        => ~entity'[ledger'[r].body.ask.source].owns
<1>1. Inv /\ [Next]_vars => Empty
  <2> SUFFICES ASSUME Inv, [Next]_vars, NEW r \in Resolutions, writes'[r] > writes[r],
                      ledger'[r].body.ask.action = "archive_existing_entity"
               PROVE  ~entity'[ledger'[r].body.ask.source].owns
    OBVIOUS
  <2>1. PICK s \in Sessions : Commit(s) /\ session[s].body.resolution = r
    BY OnlyCommits
  <2> DEFINE b == session[s].body
             q == b.ask
  <2>2. /\ ledger'[r].body = b /\ b \in Body /\ q \in Inquiries
        /\ q.action = "archive_existing_entity" /\ ~entity[q.source].owns
    BY <2>1, CommitLeaves, Bodies
  <2>3. q.source \in People /\ ~q.context
    BY <2>2, Bodies, InquiriesAssumption
  <2>4. GainsContext(r, q) = {}
    BY <2>2, <2>3 DEF GainsContext
  <2>5. entity'[q.source].owns = (entity[q.source].owns \/ q.source \in GainsContext(r, q))
    BY <2>1, <2>3 DEF Commit
  <2> QED
    BY <2>2, <2>4, <2>5
<1>2. Inv /\ [Next]_vars => [Empty]_vars
  BY <1>1
<1>3. Spec => [][Empty]_vars
  BY <1>2, ReconciliationInvariant, PTL DEF Spec
<1> QED
  BY <1>3 DEF ArchivesOnlyEmpty

-----------------------------------------------------------------------------
(* The reconciliation client. What a command does, by its role; the steps  *)
(* of two roles have different names.                                       *)
DispatcherSteps == {"cancel", "withdraw", "bridge", "giveback", "claim", "begin", "sending",
                    "deliver", "context", "complete", "delivered"}
CancellerSteps == {"close", "broker", "unbridge", "release"}
ApplierSteps == {"proof", "next", "post", "receipt", "read", "finish", "result"}

PreparerWork == [pc : {"store"}, q : {Nothing}, runs : SUBSET Nat, items : SUBSET Items]
DispatcherWork == [pc : DispatcherSteps, q : Questions, lease : Nat]
CancellerWork == [pc : CancellerSteps, q : Questions, lease : Nat,
                  seen : {"none", "queued", "claimed", "delivered"}]
ApplierWork == [pc : ApplierSteps, q : Questions, s : Submissions,
                left : SUBSET Items, before : SUBSET Items]
Work == {AtRest} \cup PreparerWork \cup DispatcherWork \cup CancellerWork \cup ApplierWork

IsPreparer(p) == proc[p].pc = "store"
IsDispatcher(p) == proc[p].pc \in DispatcherSteps
IsCanceller(p) == proc[p].pc \in CancellerSteps
IsApplier(p) == proc[p].pc \in ApplierSteps

Intents == [state : {"none", "queued", "claimed", "sending", "delivered", "completed", "cancelled"}, lease : Nat]
Convs == {"none", "prepared", "awaiting_reply", "completed", "expired", "cancelled"}

AgendaTypes ==
  /\ terminal \subseteq Items /\ suppressed \subseteq Items /\ current \subseteq Items
  /\ audits \in [Runs -> Audit \cup {Nothing}] /\ cursor \in {0} \cup Runs
  /\ changed \subseteq Items

RoleOK(p) == (IsDispatcher(p) => p \in Dispatchers) /\ (IsApplier(p) => p \in Appliers)

ClientTypes ==
  /\ question \in [Questions -> StoredQuestion \cup {Nothing}]
  /\ AgendaTypes
  /\ actions \in [Questions -> [Items -> Submissions \cup {Nothing}]]
  /\ intent \in [Questions -> Intents] /\ conv \in [Questions -> Convs]
  /\ proc \in [Procs -> Work]
  /\ \A p \in Procs : RoleOK(p)

(* Every command at work on a question has it in the file. A delivery that  *)
(* is about to be recorded happened; whoever applies was answered.           *)
Ended(q) == intent[q].state \in {"delivered", "completed"}

CommandOK(p) ==
  /\ IsDispatcher(p) \/ IsCanceller(p) \/ IsApplier(p) => proc[p].q \in Asked
  /\ proc[p].pc \in {"complete", "delivered"} \/ IsApplier(p) => Shown(proc[p].q)
  /\ proc[p].pc = "delivered" => Ended(proc[p].q)

(* What the file says of a question is so.                                  *)
SaysTruly(q, it) ==
  /\ \A i \in DOMAIN it.pending : it.pending[i] = "verified" => actions[q][i] # Nothing
  /\ \A i \in it.outcomes : actions[q][i] # Nothing
  /\ it.state \in {"awaiting_reply", "applying", "committed_unverified",
                   "verified_applied", "deferred"} => Shown(q)
  /\ it.attn = "delivered" => Ended(q)

(* Questions are numbered as they are asked.                                *)
Numbered == IsFiniteSet(Asked) /\ \A q \in Asked : q <= Cardinality(Asked)

ClientInv ==
  /\ ClientTypes /\ Numbered
  /\ \A p \in Procs : CommandOK(p)
  /\ \A q \in Asked : SaysTruly(q, question[q])

-----------------------------------------------------------------------------
(* What a command carries, by its step.                                     *)
LEMMA WorkShape ==
  ASSUME ClientTypes, NEW p \in Procs
  PROVE  /\ IsPreparer(p) => proc[p] \in PreparerWork
         /\ IsDispatcher(p) => proc[p] \in DispatcherWork
         /\ IsCanceller(p) => proc[p] \in CancellerWork
         /\ IsApplier(p) => proc[p] \in ApplierWork
         /\ proc[p] = AtRest \/ IsPreparer(p) \/ IsDispatcher(p) \/ IsCanceller(p) \/ IsApplier(p)
<1>1. proc[p] \in Work
  BY DEF ClientTypes
<1>2. CASE proc[p] = AtRest
  <2>1. proc[p].pc = "idle"
    BY <1>2 DEF AtRest
  <2> QED
    BY <1>2, <2>1 DEF IsPreparer, IsDispatcher, IsCanceller, IsApplier, DispatcherSteps,
      CancellerSteps, ApplierSteps
<1>3. CASE proc[p] \in PreparerWork
  <2>1. proc[p].pc = "store"
    BY <1>3 DEF PreparerWork
  <2> QED
    BY <1>3, <2>1 DEF IsPreparer, IsDispatcher, IsCanceller, IsApplier, DispatcherSteps,
      CancellerSteps, ApplierSteps
<1>4. CASE proc[p] \in DispatcherWork
  <2>1. proc[p].pc \in DispatcherSteps
    BY <1>4 DEF DispatcherWork
  <2> QED
    BY <1>4, <2>1 DEF IsPreparer, IsDispatcher, IsCanceller, IsApplier, DispatcherSteps,
      CancellerSteps, ApplierSteps
<1>5. CASE proc[p] \in CancellerWork
  <2>1. proc[p].pc \in CancellerSteps
    BY <1>5 DEF CancellerWork
  <2> QED
    BY <1>5, <2>1 DEF IsPreparer, IsDispatcher, IsCanceller, IsApplier, DispatcherSteps,
      CancellerSteps, ApplierSteps
<1>6. CASE proc[p] \in ApplierWork
  <2>1. proc[p].pc \in ApplierSteps
    BY <1>6 DEF ApplierWork
  <2> QED
    BY <1>6, <2>1 DEF IsPreparer, IsDispatcher, IsCanceller, IsApplier, DispatcherSteps,
      CancellerSteps, ApplierSteps
<1> QED
  BY <1>1, <1>2, <1>3, <1>4, <1>5, <1>6 DEF Work

(* Only this command moves, to such a step of its role.                     *)
OnlyMoves(p) == proc' \in [Procs -> Work] /\ \A o \in Procs : o # p => proc'[o] = proc[o]
Moves(p, pc) == OnlyMoves(p) /\ proc'[p].pc = pc /\ proc'[p].q = proc[p].q

LEMMA DispatcherGoes ==
  ASSUME ClientTypes, NEW p \in Procs, IsDispatcher(p), NEW pc \in DispatcherSteps, Goes(p, pc)
  PROVE  Moves(p, pc) /\ proc'[p] \in DispatcherWork /\ proc'[p].lease = proc[p].lease
<1>1. proc[p] \in DispatcherWork /\ proc \in [Procs -> Work]
  BY WorkShape DEF ClientTypes
<1>2. [proc[p] EXCEPT !.pc = pc] \in DispatcherWork
  BY <1>1 DEF DispatcherWork
<1> QED
  BY <1>1, <1>2 DEF Goes, Moves, OnlyMoves, Work, DispatcherWork

LEMMA CancellerGoes ==
  ASSUME ClientTypes, NEW p \in Procs, IsCanceller(p), NEW pc \in CancellerSteps, Goes(p, pc)
  PROVE  Moves(p, pc) /\ proc'[p] \in CancellerWork /\ proc'[p].seen = proc[p].seen
<1>1. proc[p] \in CancellerWork /\ proc \in [Procs -> Work]
  BY WorkShape DEF ClientTypes
<1>2. [proc[p] EXCEPT !.pc = pc] \in CancellerWork
  BY <1>1 DEF CancellerWork
<1> QED
  BY <1>1, <1>2 DEF Goes, Moves, OnlyMoves, Work, CancellerWork

LEMMA ApplierGoes ==
  ASSUME ClientTypes, NEW p \in Procs, IsApplier(p), NEW pc \in ApplierSteps, Goes(p, pc)
  PROVE  /\ Moves(p, pc) /\ proc'[p] \in ApplierWork /\ proc'[p].s = proc[p].s
         /\ proc'[p].left = proc[p].left /\ proc'[p].before = proc[p].before
<1>1. proc[p] \in ApplierWork /\ proc \in [Procs -> Work]
  BY WorkShape DEF ClientTypes
<1>2. [proc[p] EXCEPT !.pc = pc] \in ApplierWork
  BY <1>1 DEF ApplierWork
<1> QED
  BY <1>1, <1>2 DEF Goes, Moves, OnlyMoves, Work, ApplierWork

(* A command begins, or ends.                                               *)
LEMMA CommandBecomes ==
  ASSUME ClientTypes, NEW p \in Procs, NEW w \in Work, Becomes(p, w)
  PROVE  OnlyMoves(p) /\ proc'[p] = w
BY DEF ClientTypes, Becomes, OnlyMoves

LEMMA CommandEnds ==
  ASSUME ClientTypes, NEW p \in Procs, Ends(p)
  PROVE  OnlyMoves(p) /\ proc'[p] = AtRest /\ proc'[p].pc = "idle"
<1>1. AtRest \in Work
  BY DEF Work
<1>2. OnlyMoves(p) /\ proc'[p] = AtRest
  BY <1>1, CommandBecomes DEF Ends
<1> QED
  BY <1>2 DEF AtRest

(* One question of the file changes.                                        *)
Rewrites(q, it) == it \in StoredQuestion /\ question' = [question EXCEPT ![q] = it]

LEMMA OneQuestion ==
  ASSUME ClientTypes, NEW q \in Questions, NEW it, Rewrites(q, it)
  PROVE  /\ question' \in [Questions -> StoredQuestion \cup {Nothing}]
         /\ question'[q] = it /\ q \in Asked'
         /\ \A o \in Questions : o # q => question'[o] = question[o]
         /\ Asked' = Asked \cup {q}
<1>1. /\ question' \in [Questions -> StoredQuestion \cup {Nothing}] /\ question'[q] = it
      /\ \A o \in Questions : o # q => question'[o] = question[o]
  BY DEF ClientTypes, Rewrites
<1>2. it # Nothing
  BY ClientAssumption DEF Rewrites
<1> QED
  BY <1>1, <1>2 DEF Asked

-----------------------------------------------------------------------------
(* The broker and the bridge. An intent that is cancelled stays so, one     *)
(* that was delivered at most becomes completed, and what was shown was     *)
(* shown.                                                                   *)
Onward(q) ==
  /\ intent[q].state = "cancelled" => intent'[q].state = "cancelled"
  /\ intent[q].state \in {"delivered", "completed"} => intent'[q].state \in {"delivered", "completed"}
  /\ Shown(q) => Shown(q)'

RouteStep(q) ==
  /\ intent' \in [Questions -> Intents] /\ conv' \in [Questions -> Convs]
  /\ \A o \in Questions : o # q => intent'[o] = intent[o] /\ conv'[o] = conv[o]
  /\ Onward(q)

LEMMA IntentMoves ==
  ASSUME ClientTypes, NEW q \in Questions,
         NEW s \in {"none", "queued", "claimed", "sending", "delivered", "completed", "cancelled"},
         IntentBecomes(q, s),
         intent[q].state = "cancelled" => s = "cancelled",
         intent[q].state \in {"delivered", "completed"} => s \in {"delivered", "completed"}
  PROVE  RouteStep(q) /\ intent'[q].state = s
<1>1. intent \in [Questions -> Intents] /\ conv' = conv /\ conv \in [Questions -> Convs]
  BY DEF ClientTypes, IntentBecomes
<1>2. [intent[q] EXCEPT !.state = s] \in Intents
  BY <1>1 DEF Intents
<1>3. intent' = [intent EXCEPT ![q] = [intent[q] EXCEPT !.state = s]]
  BY <1>1 DEF IntentBecomes
<1>4. intent' \in [Questions -> Intents] /\ intent'[q] = [intent[q] EXCEPT !.state = s]
      /\ \A o \in Questions : o # q => intent'[o] = intent[o]
  BY <1>1, <1>2, <1>3
<1>5. intent'[q].state = s
  BY <1>1, <1>4 DEF Intents
<1> QED
  BY <1>1, <1>4, <1>5 DEF RouteStep, Onward, Shown

LEMMA ConvMoves ==
  ASSUME ClientTypes, NEW q \in Questions, NEW s \in Convs, ConvBecomes(q, s),
         Shown(q) => s \notin {"none", "prepared"}
  PROVE  RouteStep(q) /\ intent' = intent /\ conv'[q] = s
<1>1. intent \in [Questions -> Intents] /\ intent' = intent /\ conv \in [Questions -> Convs]
  BY DEF ClientTypes, ConvBecomes
<1>2. conv' \in [Questions -> Convs] /\ conv'[q] = s /\ \A o \in Questions : o # q => conv'[o] = conv[o]
  BY <1>1 DEF ConvBecomes
<1> QED
  BY <1>1, <1>2 DEF RouteStep, Onward, Shown

LEMMA RouteRests ==
  ASSUME ClientTypes, NEW q \in Questions, UNCHANGED route
  PROVE  RouteStep(q)
BY DEF route, RouteStep, ClientTypes, Onward, Shown

(* The calls, as far as the client can tell them apart.                     *)
LEMMA BrokerCalls ==
  ASSUME ClientTypes, NEW q \in Questions, NEW lease, NEW heard \in BOOLEAN,
         \/ Submit(q, heard) \/ BeginDelivery(q, lease, heard) \/ Release(q, lease, heard)
         \/ Complete(q, lease, heard) \/ CancelIntent(q, lease, heard) \/ ReleaseVisible(q, heard)
  PROVE  RouteStep(q)
<1>1. intent[q] \in Intents
  BY DEF ClientTypes
<1>2. ASSUME UNCHANGED route PROVE RouteStep(q)
  BY <1>2, RouteRests
<1>3. ASSUME NEW s \in {"none", "queued", "claimed", "sending", "delivered", "completed", "cancelled"},
             IntentBecomes(q, s),
             intent[q].state = "cancelled" => s = "cancelled",
             intent[q].state \in {"delivered", "completed"} => s \in {"delivered", "completed"}
      PROVE  RouteStep(q)
  BY <1>3, IntentMoves
<1>4. CASE Submit(q, heard)
  <2> PICK s : s = IF intent[q].state = "none" THEN "queued" ELSE intent[q].state
    OBVIOUS
  <2>1. s \in {"none", "queued", "claimed", "sending", "delivered", "completed", "cancelled"}
        /\ (intent[q].state = "cancelled" => s = "cancelled")
        /\ (intent[q].state \in {"delivered", "completed"} => s \in {"delivered", "completed"})
    BY <1>1 DEF Intents
  <2>2. IntentBecomes(q, s) \/ UNCHANGED route
    BY <1>4 DEF Submit, Call
  <2> QED
    BY <1>2, <1>3, <2>1, <2>2
<1>5. CASE BeginDelivery(q, lease, heard)
  BY <1>2, <1>3, <1>5 DEF BeginDelivery, Call
<1>6. CASE Release(q, lease, heard)
  BY <1>2, <1>3, <1>6 DEF Release, Call
<1>7. CASE Complete(q, lease, heard)
  <2> PICK s : s = IF intent[q].state = "sending" THEN "delivered" ELSE intent[q].state
    OBVIOUS
  <2>1. s \in {"none", "queued", "claimed", "sending", "delivered", "completed", "cancelled"}
        /\ (intent[q].state = "cancelled" => s = "cancelled")
        /\ (intent[q].state \in {"delivered", "completed"} => s \in {"delivered", "completed"})
    BY <1>1 DEF Intents
  <2>2. IntentBecomes(q, s) \/ UNCHANGED route
    BY <1>7 DEF Complete, Call
  <2> QED
    BY <1>2, <1>3, <2>1, <2>2
<1>8. CASE CancelIntent(q, lease, heard)
  BY <1>2, <1>3, <1>8 DEF CancelIntent, Call
<1>9. CASE ReleaseVisible(q, heard)
  BY <1>2, <1>3, <1>9 DEF ReleaseVisible, Call
<1> QED
  BY <1>4, <1>5, <1>6, <1>7, <1>8, <1>9

LEMMA BridgeCalls ==
  ASSUME ClientTypes, NEW q \in Questions, NEW heard \in BOOLEAN,
         BridgeStage(q, heard) \/ BridgeDeliver(q, heard) \/ BridgeCancel(q, heard)
  PROVE  RouteStep(q) /\ intent' = intent
<1>1. conv[q] \in Convs
  BY DEF ClientTypes
<1>2. ASSUME UNCHANGED route PROVE RouteStep(q) /\ intent' = intent
  BY <1>2, RouteRests DEF route
<1>3. ASSUME NEW s, ConvBecomes(q, s), s \in Convs, Shown(q) => s \notin {"none", "prepared"}
      PROVE  RouteStep(q) /\ intent' = intent
  BY <1>3, ConvMoves
<1>4. CASE BridgeStage(q, heard)
  <2> PICK s : s = IF conv[q] = "none" THEN "prepared" ELSE conv[q]
    OBVIOUS
  <2>1. s \in Convs /\ (Shown(q) => s \notin {"none", "prepared"})
    BY <1>1 DEF Convs, Shown
  <2>2. ConvBecomes(q, s) \/ UNCHANGED route
    BY <1>4 DEF BridgeStage, Call
  <2> QED
    BY <1>2, <1>3, <2>1, <2>2
<1>5. CASE BridgeDeliver(q, heard)
  <2> PICK s : s = IF conv[q] = "prepared" THEN "awaiting_reply" ELSE conv[q]
    OBVIOUS
  <2>1. s \in Convs /\ (Shown(q) => s \notin {"none", "prepared"})
    BY <1>1 DEF Convs, Shown
  <2>2. ConvBecomes(q, s) \/ UNCHANGED route
    BY <1>5 DEF BridgeDeliver, Call
  <2> QED
    BY <1>2, <1>3, <2>1, <2>2
<1>6. CASE BridgeCancel(q, heard)
  <2> PICK s : s = IF conv[q] = "awaiting_reply" THEN "cancelled" ELSE conv[q]
    OBVIOUS
  <2>1. s \in Convs /\ (Shown(q) => s \notin {"none", "prepared"})
    BY <1>1 DEF Convs, Shown
  <2>2. ConvBecomes(q, s) \/ UNCHANGED route
    BY <1>6 DEF BridgeCancel, Call
  <2> QED
    BY <1>2, <1>3, <2>1, <2>2
<1> QED
  BY <1>4, <1>5, <1>6

(* What the broker, the bridge and the agent do by themselves.              *)
LEMMA OthersMoveOn ==
  ASSUME ClientTypes, Others
  PROVE  /\ \E q \in Asked :
              /\ RouteStep(q)
              /\ \/ intent'[q].state = intent[q].state
                 \/ /\ intent[q].state \in {"queued", "claimed"}
                    /\ intent'[q].state \in {"queued", "claimed"}
         /\ UNCHANGED <<question, agenda, actions, changed, proc>>
<1>1. PICK q \in Asked :
         \/ ClaimNext(q) \/ LeaseLapses(q)
         \/ BridgeEnds(q, "completed")
         \/ BridgeEnds(q, "expired")
  BY DEF Others
<1>2. q \in Questions
  BY DEF Asked
<1>3. CASE ClaimNext(q)
  <2> PICK n : n = intent[q].lease
    OBVIOUS
  <2> PICK new : new = [state |-> "claimed", lease |-> n + 1]
    OBVIOUS
  <2>1. intent \in [Questions -> Intents] /\ n \in Nat
    BY <1>2 DEF ClientTypes, Intents
  <2>2. new \in Intents /\ new.state = "claimed"
    BY <2>1 DEF Intents
  <2>3. intent' = [intent EXCEPT ![q] = new] /\ conv' = conv /\ intent[q].state = "queued"
    BY <1>2, <1>3, <2>1 DEF ClaimNext
  <2>4. intent' \in [Questions -> Intents] /\ intent'[q] = new
        /\ \A o \in Questions : o # q => intent'[o] = intent[o]
    BY <1>2, <2>1, <2>2, <2>3
  <2>5. RouteStep(q)
    BY <1>2, <2>2, <2>3, <2>4 DEF RouteStep, Onward, Shown, ClientTypes
  <2> QED
    BY <2>2, <2>3, <2>4, <2>5 DEF Others
<1>4. CASE LeaseLapses(q)
  <2>1. RouteStep(q) /\ intent'[q].state = "queued" /\ intent[q].state = "claimed"
    BY <1>2, <1>4, IntentMoves DEF LeaseLapses
  <2> QED
    BY <2>1 DEF Others
<1>5. ASSUME NEW s \in {"completed", "expired"}, BridgeEnds(q, s) PROVE RouteStep(q) /\ intent' = intent
  BY <1>2, <1>5, ConvMoves DEF BridgeEnds, Convs
<1>6. CASE BridgeEnds(q, "completed") \/ BridgeEnds(q, "expired")
  <2>1. RouteStep(q) /\ intent'[q].state = intent[q].state
    BY <1>5, <1>6
  <2> QED
    BY <2>1 DEF Others
<1> QED
  BY <1>1, <1>3, <1>4, <1>6

-----------------------------------------------------------------------------
(* What was asked, shown, delivered or committed stays so.                  *)
Grows ==
  /\ Asked \subseteq Asked'
  /\ \A q \in Questions :
       /\ Shown(q) => Shown(q)'
       /\ Ended(q) => Ended(q)'
       /\ \A i \in Items : actions[q][i] # Nothing => actions'[q][i] # Nothing

LEMMA CommandKept ==
  ASSUME ClientTypes, Grows, NEW o \in Procs, CommandOK(o), proc'[o] = proc[o]
  PROVE  CommandOK(o)'
<1>1. Asked \subseteq Questions
  BY DEF Asked
<1>2. IsDispatcher(o) \/ IsCanceller(o) \/ IsApplier(o) => proc[o].q \in Asked' /\ proc[o].q \in Questions
  BY <1>1 DEF CommandOK, Grows
<1>3. proc[o].pc \in {"complete", "delivered"} => IsDispatcher(o)
  BY DEF IsDispatcher, DispatcherSteps
<1> PICK q : q = proc[o].q
  OBVIOUS
<1>4. proc[o].pc \in {"complete", "delivered"} \/ IsApplier(o) => Shown(q)'
  BY <1>2, <1>3 DEF CommandOK, Grows
<1>5. proc[o].pc = "delivered" => Ended(q)'
  BY <1>2, <1>3 DEF CommandOK, Grows
<1>6. proc'[o].q = q
  OBVIOUS
<1>7. CommandOK(o)' = /\ IsDispatcher(o)' \/ IsCanceller(o)' \/ IsApplier(o)' => q \in Asked'
                      /\ proc'[o].pc \in {"complete", "delivered"} \/ IsApplier(o)' => Shown(q)'
                      /\ proc'[o].pc = "delivered" => Ended(q)'
  BY <1>6 DEF CommandOK
<1> QED
  BY <1>2, <1>4, <1>5, <1>7 DEF IsDispatcher, IsCanceller, IsApplier

LEMMA TruthKept ==
  ASSUME Grows, NEW q \in Questions, NEW it, it \in StoredQuestion, SaysTruly(q, it)
  PROVE  SaysTruly(q, it)'
<1>1. DOMAIN it.pending \subseteq Items /\ it.outcomes \subseteq Items
  BY DEF StoredQuestion, Receipts
<1> QED
  BY <1>1 DEF SaysTruly, Grows

(* A step that keeps all this.                                              *)
LEMMA ClientStep ==
  ASSUME ClientInv, ClientTypes', Grows, Numbered',
         \A o \in Procs : proc'[o] = proc[o] \/ CommandOK(o)',
         \A q \in Asked' : (q \in Asked /\ question'[q] = question[q]) \/ SaysTruly(q, question[q])'
  PROVE  ClientInv'
<1>1. \A o \in Procs : CommandOK(o)'
  BY CommandKept DEF ClientInv
<1>2. ASSUME NEW q \in Asked' PROVE SaysTruly(q, question[q])'
  <2>1. CASE q \in Asked /\ question'[q] = question[q]
    <3> PICK it : it = question[q]
      OBVIOUS
    <3>1. q \in Questions /\ it \in StoredQuestion /\ SaysTruly(q, it)
      BY <2>1 DEF ClientInv, ClientTypes, Asked
    <3>2. SaysTruly(q, it)' /\ question'[q] = it
      BY <2>1, <3>1, TruthKept
    <3> QED
      BY <3>2 DEF SaysTruly
  <2> QED
    BY <1>2, <2>1
<1> QED
  BY <1>1, <1>2 DEF ClientInv

(* Commands that move, in their roles and with what they know.              *)
CommandsGo ==
  /\ proc' \in [Procs -> Work]
  /\ \A o \in Procs : proc'[o] = proc[o] \/ (RoleOK(o)' /\ CommandOK(o)')

(* None of them begins to prepare.                                          *)
NoneReads == \A o \in Procs : proc'[o] = proc[o] \/ ~IsPreparer(o)'
CommandsMove == CommandsGo /\ NoneReads

(* Questions keep their items, and what was prepared stays as it was.       *)
Steady ==
  /\ \A q \in Asked : q \in Asked' /\ question'[q].items = question[q].items
  /\ NoneReads

ActionsGrow ==
  /\ actions' \in [Questions -> [Items -> Submissions \cup {Nothing}]]
  /\ \A q \in Questions, i \in Items : actions[q][i] # Nothing => actions'[q][i] # Nothing

LEMMA TypesOfStep ==
  ASSUME ClientTypes, AgendaTypes', ActionsGrow, CommandsGo,
         question' \in [Questions -> StoredQuestion \cup {Nothing}],
         intent' \in [Questions -> Intents], conv' \in [Questions -> Convs]
  PROVE  ClientTypes'
<1>1. \A o \in Procs : RoleOK(o)'
  BY DEF CommandsGo, ClientTypes, RoleOK, IsDispatcher, IsApplier
<1> QED
  BY <1>1 DEF ClientTypes, ActionsGrow, CommandsGo

LEMMA RouteGrows ==
  ASSUME ClientTypes, NEW q \in Questions, RouteStep(q)
  PROVE  /\ intent' \in [Questions -> Intents] /\ conv' \in [Questions -> Convs]
         /\ \A o \in Questions : (Shown(o) => Shown(o)') /\ (Ended(o) => Ended(o)')
BY DEF RouteStep, Onward, Shown, Ended

(* A step about one question of the file.                                   *)
LEMMA SectionInv ==
  ASSUME ClientInv, NEW q \in Asked, NEW it, Rewrites(q, it), SaysTruly(q, it)', RouteStep(q),
         it.items = question[q].items, AgendaTypes', ActionsGrow, CommandsMove
  PROVE  ClientInv' /\ Steady
<1>1. ClientTypes /\ q \in Questions
  BY DEF ClientInv, Asked
<1>2. /\ question' \in [Questions -> StoredQuestion \cup {Nothing}]
      /\ question'[q] = it /\ Asked' = Asked
      /\ \A o \in Questions : o # q => question'[o] = question[o]
  BY <1>1, OneQuestion
<1>3. ClientTypes'
  BY <1>1, <1>2, RouteGrows, TypesOfStep DEF CommandsMove
<1>4. Grows
  BY <1>1, <1>2, RouteGrows DEF Grows, ActionsGrow
<1>5. Numbered'
  BY <1>2 DEF ClientInv, Numbered
<1>6. ASSUME NEW r \in Asked' PROVE (r \in Asked /\ question'[r] = question[r]) \/ SaysTruly(r, question[r])'
  <2>1. CASE r = q
    BY <1>2, <2>1 DEF SaysTruly
  <2>2. CASE r # q
    BY <1>2, <2>2 DEF Asked
  <2> QED
    BY <2>1, <2>2
<1>7. ClientInv'
  BY <1>3, <1>4, <1>5, <1>6, ClientStep DEF CommandsMove, CommandsGo
<1>8. Steady
  BY <1>2 DEF Steady, CommandsMove, Asked
<1> QED
  BY <1>7, <1>8

(* A step that leaves the questions and the route as they are.              *)
LEMMA AgendaGoesInv ==
  ASSUME ClientInv, UNCHANGED <<question, route>>, AgendaTypes', ActionsGrow, CommandsGo
  PROVE  ClientInv'
<1>1. ClientTypes /\ intent' = intent /\ conv' = conv /\ Asked' = Asked
  BY DEF ClientInv, route, Asked
<1>2. ClientTypes'
  BY <1>1, TypesOfStep DEF ClientTypes
<1>3. Grows
  BY <1>1 DEF Grows, ActionsGrow, Shown, Ended
<1>4. Numbered'
  BY <1>1 DEF ClientInv, Numbered
<1> QED
  BY <1>1, <1>2, <1>3, <1>4, ClientStep DEF CommandsGo

LEMMA AgendaInv ==
  ASSUME ClientInv, UNCHANGED <<question, route>>, AgendaTypes', ActionsGrow, CommandsMove
  PROVE  ClientInv' /\ Steady
<1>1. ClientInv'
  BY AgendaGoesInv DEF CommandsMove
<1>2. Steady
  BY DEF Steady, CommandsMove, Asked
<1> QED
  BY <1>1, <1>2

(* A new question, with the next number.                                    *)
LEMMA NewInv ==
  ASSUME ClientInv, NEW q \in Questions, NEW it, q = Cardinality(Asked) + 1, Rewrites(q, it),
         SaysTruly(q, it), UNCHANGED <<actions, route, proc>>, AgendaTypes'
  PROVE  ClientInv' /\ q \notin Asked /\ Steady
<1>1. ClientTypes /\ intent' = intent /\ conv' = conv
  BY DEF ClientInv, route
<1>2. /\ question' \in [Questions -> StoredQuestion \cup {Nothing}]
      /\ question'[q] = it /\ Asked' = Asked \cup {q}
      /\ \A o \in Questions : o # q => question'[o] = question[o]
  BY <1>1, OneQuestion
<1>3. IsFiniteSet(Asked) /\ \A r \in Asked : r <= Cardinality(Asked)
  BY DEF ClientInv, Numbered
<1>4. Cardinality(Asked) \in Nat
  BY <1>3, FS_CardinalityType
<1>5. q \notin Asked
  <2>1. ~(q <= Cardinality(Asked))
    BY <1>4
  <2> QED
    BY <1>3, <2>1
<1>6. IsFiniteSet(Asked') /\ Cardinality(Asked') = q
  BY <1>2, <1>3, <1>5, FS_AddElement
<1>7. Numbered'
  <2>1. ASSUME NEW r \in Asked' PROVE r <= q
    <3>1. r = q \/ r <= Cardinality(Asked)
      BY <1>2, <1>3
    <3>2. r \in Nat /\ q \in Nat
      BY ClientAssumption DEF Asked
    <3> QED
      BY <1>4, <3>1, <3>2
  <2> QED
    BY <1>6, <2>1 DEF Numbered
<1>8. ActionsGrow /\ CommandsMove
  BY <1>1 DEF ActionsGrow, CommandsMove, CommandsGo, NoneReads, ClientTypes
<1>9. ClientTypes'
  BY <1>1, <1>2, <1>8, TypesOfStep DEF ClientTypes, CommandsMove
<1>10. Grows
  BY <1>1, <1>2 DEF Grows, Shown, Ended
<1>11. ASSUME NEW r \in Asked' PROVE (r \in Asked /\ question'[r] = question[r]) \/ SaysTruly(r, question[r])'
  <2>1. CASE r = q
    <3>1. it \in StoredQuestion
      BY DEF Rewrites
    <3>2. SaysTruly(q, it)'
      BY <1>10, <3>1, TruthKept
    <3> QED
      BY <1>2, <2>1, <3>2 DEF SaysTruly
  <2>2. CASE r # q
    BY <1>2, <2>2 DEF Asked
  <2> QED
    BY <2>1, <2>2
<1>12. ClientInv'
  BY <1>7, <1>8, <1>9, <1>10, <1>11, ClientStep DEF CommandsMove, CommandsGo
<1>13. Steady
  BY <1>2, <1>5, <1>8 DEF Steady, CommandsMove, Asked
<1> QED
  BY <1>5, <1>12, <1>13

-----------------------------------------------------------------------------
LEMMA AskedQuestion ==
  ASSUME ClientInv, NEW q \in Asked
  PROVE  /\ q \in Questions /\ question[q] \in StoredQuestion
         /\ SaysTruly(q, question[q]) /\ Rewrites(q, question[q]) = (question' = question)
<1>1. q \in Questions /\ question[q] \in StoredQuestion /\ question = [question EXCEPT ![q] = question[q]]
  BY DEF ClientInv, ClientTypes, Asked
<1> QED
  BY <1>1 DEF Rewrites, ClientInv

LEMMA AtWork ==
  ASSUME ClientInv, NEW p \in Procs, IsDispatcher(p) \/ IsCanceller(p) \/ IsApplier(p)
  PROVE  proc[p].q \in Asked /\ proc[p].q \in Questions /\ CommandOK(p)
BY DEF ClientInv, CommandOK, Asked

(* A command that ends, or one that only this moves.                        *)
LEMMA EndsMoves ==
  ASSUME ClientTypes, NEW p \in Procs, Ends(p)
  PROVE  CommandsMove
<1>1. OnlyMoves(p) /\ proc'[p].pc = "idle"
  BY CommandEnds
<1>2. RoleOK(p)' /\ CommandOK(p)' /\ ~IsPreparer(p)'
  BY <1>1 DEF RoleOK, CommandOK, IsPreparer, IsDispatcher, IsCanceller, IsApplier, DispatcherSteps,
    CancellerSteps, ApplierSteps
<1> QED
  BY <1>1, <1>2 DEF CommandsMove, CommandsGo, NoneReads, OnlyMoves

LEMMA GoesMoves ==
  ASSUME ClientTypes, NEW p \in Procs, OnlyMoves(p), RoleOK(p)', CommandOK(p)'
  PROVE  CommandsGo /\ (~IsPreparer(p)' => CommandsMove)
BY DEF CommandsMove, CommandsGo, NoneReads, OnlyMoves

LEMMA NoneMoves == ASSUME ClientTypes, UNCHANGED proc PROVE CommandsMove
BY DEF CommandsMove, CommandsGo, NoneReads, ClientTypes

LEMMA AgendaKept ==
  ASSUME ClientTypes, UNCHANGED <<agenda, actions, changed>>
  PROVE  AgendaTypes' /\ ActionsGrow
BY DEF agenda, ClientTypes, AgendaTypes, ActionsGrow

-----------------------------------------------------------------------------
(* The runs are numbers up to a bound, and so are those the cursor may be   *)
(* moved to: there is a greatest one.                                       *)
LEMMA MaxOf ==
  ASSUME NEW K \in Nat, NEW S \in SUBSET (0 .. K), S # {}
  PROVE  Max(S) \in S /\ \A y \in S : y <= Max(S)
<1> DEFINE Below == {K - x : x \in S}
<1>1. Below \subseteq Nat /\ Below # {}
  <2>1. \A x \in S : x \in 0 .. K /\ K - x \in Nat
    OBVIOUS
  <2>2. PICK x \in S : TRUE
    OBVIOUS
  <2>3. K - x \in Below
    BY <2>2
  <2> QED
    BY <2>1, <2>3
<1>2. PICK m \in Below : \A k \in Below : ~(<<k, m>> \in OpToRel(<, Nat))
  BY <1>1, NatLessThanWellFounded, WFMin, Zenon
<1>3. PICK x \in S : m = K - x
  OBVIOUS
<1>4. ASSUME NEW y \in S PROVE y <= x
  <2>1. K - y \in Below
    OBVIOUS
  <2>2. ~(K - y < m)
    BY <1>1, <1>2, <2>1 DEF OpToRel
  <2> QED
    BY <1>3, <2>2
<1>5. \E z \in S : \A y \in S : z >= y
  BY <1>4
<1> QED
  BY <1>5 DEF Max

LEMMA RunsAreNumbers == Cardinality(Runs) \in Nat /\ Runs = 1 .. Cardinality(Runs) /\ Runs \subseteq Nat \ {0}
<1>1. Cardinality(Runs) \in Nat /\ Runs = 1 .. Cardinality(Runs)
  BY ClientAssumption, FS_CardinalityType
<1>2. \A K \in Nat : 1 .. K \subseteq Nat \ {0}
  OBVIOUS
<1> QED
  BY <1>1, <1>2

LEMMA LatestRun ==
  ASSUME NEW from \in {0} \cup Runs, NEW S, from \in S, S \subseteq {from} \cup Runs
  PROVE  Max(S) \in S /\ from <= Max(S)
<1>1. PICK K \in Nat : Runs = 1 .. K
  BY RunsAreNumbers
<1>2. S \subseteq 0 .. K /\ S # {}
  BY <1>1
<1> QED
  BY <1>1, <1>2, MaxOf

LEMMA CursorMoves ==
  ASSUME NEW known, NEW from \in {0} \cup Runs, NEW to, to = AdvancedCursor(known, from)
  PROVE  /\ to \in {0} \cup Runs /\ from <= to
         /\ to = from \/ (known[to] # Nothing
                          /\ \A s \in Runs : from < s /\ s <= to /\ known[s] # Nothing => known[s].reviewed)
<1>0. PICK S : S = {from} \cup {r \in Runs : /\ known[r] # Nothing
                                           /\ \A s \in Runs : from < s /\ s <= r /\ known[s] # Nothing
                                                                => known[s].reviewed}
  OBVIOUS
<1>1. from \in S /\ S \subseteq {from} \cup Runs
  BY <1>0
<1>2. to = Max(S)
  BY <1>0 DEF AdvancedCursor
<1>3. to \in S /\ from <= to
  BY <1>1, <1>2, LatestRun
<1>4. to = from \/ (to \in Runs /\ known[to] # Nothing
                   /\ \A s \in Runs : from < s /\ s <= to /\ known[s] # Nothing => known[s].reviewed)
  BY <1>0, <1>3, Zenon
<1> QED
  BY <1>3, <1>4

LEMMA ReviewTypes ==
  ASSUME ClientTypes, NEW closed, NEW selected, ReviewRuns(closed, selected)
  PROVE  audits' \in [Runs -> Audit \cup {Nothing}] /\ cursor' \in {0} \cup Runs
<1>1. audits \in [Runs -> Audit \cup {Nothing}] /\ cursor \in {0} \cup Runs
  BY DEF ClientTypes, AgendaTypes
<1>2. ASSUME NEW r \in Runs, audits[r] # Nothing PROVE [audits[r] EXCEPT !.reviewed = TRUE] \in Audit
  BY <1>1, <1>2 DEF Audit
<1>3. audits' \in [Runs -> Audit \cup {Nothing}]
  BY <1>1, <1>2 DEF ReviewRuns
<1>4. cursor' = AdvancedCursor(audits', cursor)
  BY DEF ReviewRuns
<1> QED
  BY <1>1, <1>3, <1>4, CursorMoves

(* What prepare has read are items.                                         *)
LEMMA AnomaliesAreItems == ASSUME NEW runs PROVE BuildAnomalies(runs) \subseteq Items
BY DEF BuildAnomalies, FoundIn

LEMMA PrepareReadInv ==
  ASSUME ClientInv, NEW p \in Procs, NEW latest \in Runs \cup {0}, PrepareRead(p, latest)
  PROVE  ClientInv' /\ OnlyMoves(p) /\ proc'[p].pc = "store"
<1> PICK w : w = [pc |-> "store", q |-> Nothing, runs |-> cursor + 1 .. latest,
                  items |-> BuildAnomalies(cursor + 1 .. latest)]
  OBVIOUS
<1>1. ClientTypes
  BY DEF ClientInv
<1>2. w \in PreparerWork /\ w.pc = "store"
  <2>1. cursor \in Nat /\ latest \in Nat
    BY <1>1, RunsAreNumbers DEF ClientTypes, AgendaTypes
  <2>2. cursor + 1 .. latest \subseteq Nat
    BY <2>1
  <2> QED
    BY <2>2, AnomaliesAreItems DEF PreparerWork
<1>3. Becomes(p, w) /\ UNCHANGED <<question, agenda, actions, changed, route>>
  BY DEF PrepareRead
<1>4. OnlyMoves(p) /\ proc'[p] = w
  BY <1>1, <1>2, <1>3, CommandBecomes DEF Work
<1>5. RoleOK(p)' /\ CommandOK(p)'
  BY <1>2, <1>4 DEF RoleOK, CommandOK, IsDispatcher, IsCanceller, IsApplier, DispatcherSteps,
    CancellerSteps, ApplierSteps
<1> QED
  BY <1>1, <1>2, <1>3, <1>4, <1>5, GoesMoves, AgendaKept, AgendaGoesInv

LEMMA PrepareStoreInv ==
  ASSUME ClientInv, NEW p \in Procs, PrepareStore(p)
  PROVE  ClientInv' /\ Steady /\ cursor' \in {0} \cup Runs
<1>1. ClientTypes /\ cursor \in {0} \cup Runs
  BY DEF ClientInv, ClientTypes, AgendaTypes
<1>2. proc[p] \in PreparerWork
  BY <1>1, WorkShape DEF PrepareStore, IsPreparer
<1> PICK items : items = proc[p].items
  OBVIOUS
<1>3. items \subseteq Items
  BY <1>2 DEF PreparerWork
<1>4. current' \subseteq Items
  BY <1>3 DEF PrepareStore
<1>5. audits' \in [Runs -> Audit \cup {Nothing}]
  <2>1. ASSUME NEW of \in SUBSET Items PROVE [items |-> of, reviewed |-> of = {}] \in Audit
    BY DEF Audit
  <2>2. ASSUME NEW r \in Runs
        PROVE  [items |-> {i \in items : RunOf[i] = r},
                reviewed |-> {i \in items : RunOf[i] = r} = {}] \in Audit
    BY <1>3, <2>1
  <2>3. audits' = [r \in Runs |->
                     IF r \in proc[p].runs
                       THEN [items |-> {i \in items : RunOf[i] = r},
                             reviewed |-> {i \in items : RunOf[i] = r} = {}]
                       ELSE audits[r]]
    BY DEF PrepareStore
  <2> QED
    BY <1>1, <2>2, <2>3 DEF ClientTypes, AgendaTypes
<1>6. cursor' \in {0} \cup Runs
  BY <1>1, CursorMoves DEF PrepareStore
<1>7. Ends(p) /\ UNCHANGED <<question, terminal, suppressed, actions, changed, route>>
  BY DEF PrepareStore
<1>8. AgendaTypes' /\ ActionsGrow
  BY <1>1, <1>4, <1>5, <1>6, <1>7 DEF ClientTypes, AgendaTypes, ActionsGrow
<1> QED
  BY <1>1, <1>6, <1>7, <1>8, EndsMoves, AgendaInv

LEMMA NewQuestionFits ==
  ASSUME NEW q \in Questions, NEW members \in SUBSET Items, NEW it, it = NewQuestion(members)
  PROVE  /\ it \in StoredQuestion /\ SaysTruly(q, it) /\ it.items = members
         /\ it.state = "staged" /\ it.attn = "none" /\ ~it.blind /\ it.pending = NoActions
<1>1. NoActions \in Receipts /\ DOMAIN NoActions = {}
  <2>1. NoActions \in [{} -> {"planned", "committed", "verified"}]
    BY DEF NoActions
  <2> QED
    BY <2>1 DEF Receipts, NoActions
<1>2. it \in StoredQuestion
  BY <1>1 DEF NewQuestion, StoredQuestion, Open
<1>3. it.pending = NoActions /\ it.outcomes = {} /\ it.state = "staged" /\ it.attn = "none"
      /\ it.items = members /\ ~it.blind
  BY DEF NewQuestion
<1> QED
  BY <1>1, <1>2, <1>3 DEF SaysTruly

(* What a stage plan speaks of are current items.                           *)
LEMMA PlanShape ==
  ASSUME ClientTypes, NEW plan \in StagePlans
  PROVE  DOMAIN plan \subseteq Items
BY DEF StagePlans, ClientTypes, AgendaTypes

Clean(plan) == {i \in DOMAIN plan : plan[i] = "no_anomaly"}
Questioned(plan) == {i \in DOMAIN plan : plan[i] = "question"}
Members(plan) == {i \in Questioned(plan) : PersonOf[i] = Min({PersonOf[j] : j \in Questioned(plan)})}

LEMMA StageInv ==
  ASSUME ClientInv, NEW q \in Questions, NEW plan \in StagePlans, Stage(q, plan)
  PROVE  /\ ClientInv' /\ Steady /\ terminal' = terminal \cup Clean(plan)
         /\ UNCHANGED <<actions, changed, route, proc>>
         /\ \/ question' = question /\ ReviewRuns(terminal', {})
            \/ /\ q \notin Asked /\ Rewrites(q, NewQuestion(Members(plan)))
               /\ NewQuestion(Members(plan)).items = Members(plan)
               /\ ReviewRuns(terminal', Members(plan))
<1>1. ClientTypes /\ DOMAIN plan \subseteq Items
  BY PlanShape DEF ClientInv
<1>2. /\ q = Cardinality(Asked) + 1
      /\ terminal' = terminal \cup Clean(plan)
      /\ UNCHANGED <<current, actions, changed, route, proc>>
  BY DEF Stage, Clean
<1>3. \/ UNCHANGED <<question, suppressed>> /\ ReviewRuns(terminal', {})
      \/ /\ question' = [question EXCEPT ![q] = NewQuestion(Members(plan))]
         /\ suppressed' = suppressed \cup Members(plan) /\ ReviewRuns(terminal', Members(plan))
  BY DEF Stage, Members, Questioned
<1>4. Clean(plan) \subseteq Items /\ Members(plan) \in SUBSET Items
  BY <1>1 DEF Clean, Members, Questioned
<1>5. ASSUME NEW selected, ReviewRuns(terminal', selected)
      PROVE  audits' \in [Runs -> Audit \cup {Nothing}] /\ cursor' \in {0} \cup Runs
  BY <1>1, <1>5, ReviewTypes
<1>6. AgendaTypes'
  BY <1>1, <1>2, <1>3, <1>4, <1>5 DEF ClientTypes, AgendaTypes
<1>7. UNCHANGED <<actions, changed, route, proc>>
  BY <1>2
<1>8. CASE UNCHANGED <<question, suppressed>> /\ ReviewRuns(terminal', {})
  <2>1. ActionsGrow /\ CommandsMove
    BY <1>1, <1>2, NoneMoves DEF ActionsGrow, ClientTypes
  <2> QED
    BY <1>2, <1>6, <1>7, <1>8, <2>1, AgendaInv
<1>9. CASE /\ question' = [question EXCEPT ![q] = NewQuestion(Members(plan))]
           /\ suppressed' = suppressed \cup Members(plan) /\ ReviewRuns(terminal', Members(plan))
  <2>0. PICK it : it = NewQuestion(Members(plan))
    OBVIOUS
  <2>1. it \in StoredQuestion /\ SaysTruly(q, it) /\ it.items = Members(plan)
    BY <1>4, <2>0, NewQuestionFits
  <2>2. Rewrites(q, it)
    BY <1>9, <2>0, <2>1 DEF Rewrites
  <2>3. ClientInv' /\ Steady /\ q \notin Asked
    BY <1>2, <1>6, <2>1, <2>2, NewInv
  <2> QED
    BY <1>2, <1>7, <1>9, <2>0, <2>1, <2>2, <2>3
<1> QED
  BY <1>3, <1>8, <1>9

LEMMA ReissueInv ==
  ASSUME ClientInv, NEW old \in Questions, NEW q \in Questions, Reissue(old, q)
  PROVE  /\ ClientInv' /\ Steady /\ q \notin Asked /\ UNCHANGED <<agenda, actions, changed, route, proc>>
         /\ \E it \in StoredQuestion : /\ Rewrites(q, it) /\ it.items = question[old].items
                                       /\ it.state = "staged" /\ it.attn = "none" /\ ~it.blind
                                       /\ it.pending = NoActions
<1>1. ClientTypes /\ old \in Asked
  BY DEF ClientInv, Reissue
<1>2. question[old] \in StoredQuestion
  BY <1>1, AskedQuestion
<1>3. question[old].items \in SUBSET Items /\ question[old].plan \in Submissions \cup {Nothing}
      /\ question[old].last \in Submissions \cup {Nothing}
  BY <1>2 DEF StoredQuestion
<1>4. PICK new : new = NewQuestion(question[old].items)
  OBVIOUS
<1>5. PICK it : it = [new EXCEPT !.plan = question[old].plan, !.last = question[old].last]
  OBVIOUS
<1>6. new \in StoredQuestion /\ SaysTruly(q, new) /\ new.items = question[old].items
      /\ new.state = "staged" /\ new.attn = "none" /\ ~new.blind /\ new.pending = NoActions
  BY <1>3, <1>4, NewQuestionFits
<1>7. /\ it \in StoredQuestion /\ it.pending = new.pending /\ it.outcomes = new.outcomes
      /\ it.state = new.state /\ it.attn = new.attn /\ it.items = new.items /\ it.blind = new.blind
  BY <1>3, <1>5, <1>6 DEF StoredQuestion
<1>8. Rewrites(q, it)
  BY <1>4, <1>5, <1>7 DEF Reissue, Rewrites
<1>9. SaysTruly(q, it)
  BY <1>6, <1>7 DEF SaysTruly
<1>10. q = Cardinality(Asked) + 1 /\ UNCHANGED <<agenda, actions, changed, route, proc>>
  BY DEF Reissue
<1>11. AgendaTypes'
  BY <1>1, <1>10, AgendaKept
<1>12. ClientInv' /\ Steady /\ q \notin Asked
  BY <1>8, <1>9, <1>10, <1>11, NewInv
<1> QED
  BY <1>6, <1>7, <1>8, <1>10, <1>12

LEMMA RecordsChangeInv ==
  ASSUME ClientInv, NEW i \in Items, RecordsChange(i)
  PROVE  ClientInv' /\ Steady
<1>1. ClientTypes /\ UNCHANGED <<question, agenda, actions, route, proc>> /\ changed' = changed \cup {i}
  BY DEF ClientInv, RecordsChange
<1>2. AgendaTypes' /\ ActionsGrow /\ CommandsMove
  BY <1>1, NoneMoves DEF ClientTypes, AgendaTypes, agenda, ActionsGrow
<1> QED
  BY <1>1, <1>2, AgendaInv

LEMMA CooldownEndsInv ==
  ASSUME ClientInv, NEW i \in Items, CooldownEnds(i)
  PROVE  ClientInv' /\ Steady
<1>1. ClientTypes /\ UNCHANGED <<question, terminal, current, audits, cursor, actions, changed, route, proc>>
      /\ suppressed' = suppressed \ {i}
  BY DEF ClientInv, CooldownEnds
<1>2. AgendaTypes' /\ ActionsGrow /\ CommandsMove
  BY <1>1, NoneMoves DEF ClientTypes, AgendaTypes, ActionsGrow
<1> QED
  BY <1>1, <1>2, AgendaInv

LEMMA CrashInv ==
  ASSUME ClientInv, NEW p \in Procs, Crash(p)
  PROVE  ClientInv' /\ Steady
<1>1. ClientTypes /\ Ends(p) /\ UNCHANGED <<question, agenda, actions, changed, route>>
  BY DEF ClientInv, Crash
<1> QED
  BY <1>1, EndsMoves, AgendaKept, AgendaInv

LEMMA OthersInv ==
  ASSUME ClientInv, Others
  PROVE  ClientInv' /\ Steady
<1>1. PICK q \in Asked : RouteStep(q)
  BY OthersMoveOn DEF ClientInv
<1>2. UNCHANGED <<question, agenda, actions, changed, proc>> /\ ClientTypes
  BY OthersMoveOn DEF ClientInv
<1>3. PICK it : it = question[q]
  OBVIOUS
<1>4. q \in Questions /\ it \in StoredQuestion /\ SaysTruly(q, it) /\ Rewrites(q, it)
  BY <1>2, <1>3, AskedQuestion
<1>5. AgendaTypes' /\ ActionsGrow /\ CommandsMove
  BY <1>2, AgendaKept, NoneMoves
<1>6. Grows
  BY <1>2, <1>4, <1>1, <1>5, RouteGrows DEF Grows, ActionsGrow, Asked
<1>7. SaysTruly(q, it)'
  BY <1>4, <1>6, TruthKept
<1> QED
  BY <1>1, <1>3, <1>4, <1>5, <1>7, SectionInv

(* A call of the broker or the bridge, and the delivery it is recorded as.  *)
WithAttn(q, attn) == [question[q] EXCEPT !.attn = attn]
AttnSet(q, attn) == [question EXCEPT ![q].attn = attn]
Attns == {"none", "queued", "claimed", "sending", "delivery_unknown", "delivered", "completed", "cancelled"}

LEMMA AttnChanges ==
  ASSUME ClientInv, NEW q \in Asked, NEW attn \in Attns, NEW it, it = WithAttn(q, attn)
  PROVE  /\ it \in StoredQuestion /\ it.attn = attn /\ it.state = question[q].state
         /\ it.items = question[q].items /\ it.pending = question[q].pending
         /\ it.outcomes = question[q].outcomes /\ it.blind = question[q].blind
         /\ it.lease = question[q].lease /\ it.plan = question[q].plan
         /\ AttnSet(q, attn) = [question EXCEPT ![q] = it]
<1>1. q \in Questions /\ question[q] \in StoredQuestion
  BY AskedQuestion
<1>2. /\ it \in StoredQuestion /\ it.attn = attn /\ it.state = question[q].state
      /\ it.items = question[q].items /\ it.pending = question[q].pending
      /\ it.outcomes = question[q].outcomes /\ it.blind = question[q].blind
      /\ it.lease = question[q].lease /\ it.plan = question[q].plan
  BY <1>1 DEF WithAttn, StoredQuestion, Attns
<1> QED
  BY <1>2 DEF WithAttn, AttnSet

LEMMA GrowsBy ==
  ASSUME ClientTypes, NEW q \in Questions, RouteStep(q), Asked \subseteq Asked', ActionsGrow
  PROVE  Grows
BY RouteGrows DEF Grows, ActionsGrow

(* How the commands go on.                                                  *)
LEMMA DispatcherMoves ==
  ASSUME ClientInv, Grows, NEW p \in Procs, IsDispatcher(p), NEW pc \in DispatcherSteps, Goes(p, pc),
         NEW q, q = proc[p].q,
         pc \in {"complete", "delivered"} => Shown(q)',
         pc = "delivered" => Ended(q)'
  PROVE  CommandsMove /\ Moves(p, pc) /\ IsDispatcher(p)'
<1>1. ClientTypes /\ Moves(p, pc)
  BY DispatcherGoes DEF ClientInv
<1>2. /\ OnlyMoves(p) /\ proc'[p].pc = pc /\ proc'[p].q = proc[p].q
  BY <1>1 DEF Moves
<1>4. q \in Asked' /\ p \in Dispatchers
  BY <1>1, AtWork DEF Grows, ClientTypes, RoleOK
<1>5. /\ IsDispatcher(p)' /\ ~IsApplier(p)' /\ ~IsPreparer(p)'
  BY <1>2 DEF IsDispatcher, IsApplier, IsPreparer, DispatcherSteps, ApplierSteps
<1>6. RoleOK(p)'
  BY <1>4, <1>5 DEF RoleOK
<1>8. proc'[p].q = q
  BY <1>2
<1>9. CommandOK(p)'
  <2>1. CommandOK(p)' = /\ IsDispatcher(p)' \/ IsCanceller(p)' \/ IsApplier(p)' => q \in Asked'
                        /\ pc \in {"complete", "delivered"} \/ IsApplier(p)' => Shown(q)'
                        /\ pc = "delivered" => Ended(q)'
    BY <1>2, <1>8 DEF CommandOK
  <2> QED
    BY <1>4, <1>5, <2>1
<1> QED
  BY <1>1, <1>2, <1>5, <1>6, <1>9, GoesMoves

LEMMA CancellerMoves ==
  ASSUME ClientInv, Grows, NEW p \in Procs, IsCanceller(p), NEW pc \in CancellerSteps, Goes(p, pc)
  PROVE  CommandsMove /\ Moves(p, pc) /\ IsCanceller(p)' /\ proc'[p].seen = proc[p].seen
<1>1. ClientTypes /\ Moves(p, pc) /\ proc'[p].seen = proc[p].seen
  BY CancellerGoes DEF ClientInv
<1>2. /\ OnlyMoves(p) /\ proc'[p].pc = pc /\ proc'[p].q = proc[p].q
  BY <1>1 DEF Moves
<1>4. proc'[p].q \in Asked'
  BY <1>2, AtWork DEF Grows
<1>5. /\ IsCanceller(p)' /\ ~IsApplier(p)' /\ ~IsDispatcher(p)' /\ ~IsPreparer(p)'
  BY <1>2 DEF IsPreparer, IsDispatcher, IsApplier, IsCanceller, CancellerSteps, DispatcherSteps, ApplierSteps
<1>6. RoleOK(p)'
  BY <1>5 DEF RoleOK
<1>9. CommandOK(p)'
  BY <1>2, <1>4, <1>5 DEF CommandOK, CancellerSteps
<1> QED
  BY <1>1, <1>2, <1>5, <1>6, <1>9, GoesMoves

LEMMA ApplierMoves ==
  ASSUME ClientInv, Grows, NEW p \in Procs, IsApplier(p), OnlyMoves(p),
         IsApplier(p)', proc'[p].q = proc[p].q
  PROVE  CommandsMove
<1>1. ClientTypes
  BY DEF ClientInv
<1>3. PICK q : q = proc[p].q
  OBVIOUS
<1>4. q \in Asked' /\ p \in Appliers /\ Shown(q)'
  <2>1. q \in Asked /\ q \in Questions /\ Shown(q)
    BY <1>3, AtWork DEF CommandOK
  <2> QED
    BY <1>1, <2>1 DEF Grows, ClientTypes, RoleOK
<1>5. ~IsDispatcher(p)' /\ ~IsCanceller(p)' /\ ~IsPreparer(p)'
  BY DEF IsPreparer, IsDispatcher, IsCanceller, IsApplier, DispatcherSteps, CancellerSteps, ApplierSteps
<1>6. RoleOK(p)'
  BY <1>4, <1>5 DEF RoleOK
<1>8. proc'[p].q = q
  BY <1>3
<1>7. proc'[p].pc \notin {"complete", "delivered"}
  BY DEF IsApplier, ApplierSteps
<1>9. CommandOK(p)'
  BY <1>4, <1>5, <1>7, <1>8 DEF CommandOK
<1> QED
  BY <1>1, <1>5, <1>6, <1>9, GoesMoves

-----------------------------------------------------------------------------
(* A call, or a look at the route, that the file does not record.           *)
LEMMA UnrecordedInv ==
  ASSUME ClientInv, NEW q \in Asked, RouteStep(q), UNCHANGED <<question, agenda, changed>>,
         ActionsGrow, CommandsMove
  PROVE  ClientInv' /\ Steady
<1>1. ClientTypes /\ Asked' = Asked
  BY DEF ClientInv, Asked
<1>2. PICK it : it = question[q]
  OBVIOUS
<1>3. q \in Questions /\ it \in StoredQuestion /\ SaysTruly(q, it) /\ Rewrites(q, it)
  BY <1>2, AskedQuestion
<1>4. AgendaTypes'
  BY <1>1 DEF ClientTypes, AgendaTypes, agenda
<1>6. Grows
  BY <1>1, <1>3, GrowsBy
<1>5. SaysTruly(q, it)'
  BY <1>3, <1>6, TruthKept
<1> QED
  BY <1>2, <1>3, <1>4, <1>5, SectionInv

(* A call that the file records as the state of the delivery.               *)
LEMMA RecordedInv ==
  ASSUME ClientInv, NEW q \in Asked, RouteStep(q), UNCHANGED <<agenda, actions, changed>>, CommandsMove,
         NEW attn \in Attns, question' = AttnSet(q, attn),
         attn = "delivered" => Ended(q)'
  PROVE  ClientInv' /\ Steady
<1>1. ClientTypes /\ q \in Questions
  BY DEF ClientInv, Asked
<1>2. PICK it : it = WithAttn(q, attn)
  OBVIOUS
<1>3. /\ it \in StoredQuestion /\ it.attn = attn /\ it.state = question[q].state
      /\ it.items = question[q].items /\ it.pending = question[q].pending
      /\ it.outcomes = question[q].outcomes /\ it.blind = question[q].blind
      /\ AttnSet(q, attn) = [question EXCEPT ![q] = it]
  BY <1>2, AttnChanges
<1>4. Rewrites(q, it)
  BY <1>3 DEF Rewrites
<1>5. AgendaTypes' /\ ActionsGrow
  BY <1>1, AgendaKept
<1>6. Asked' = Asked
  BY <1>1, <1>4, OneQuestion
<1>7. Grows
  BY <1>1, <1>5, <1>6, GrowsBy
<1>8. SaysTruly(q, question[q])
  BY AskedQuestion
<1>9. PICK old : old = question[q]
  OBVIOUS
<1>10. SaysTruly(q, old)' /\ it.state = old.state /\ it.pending = old.pending /\ it.outcomes = old.outcomes
  <2>1. old \in StoredQuestion /\ SaysTruly(q, old)
    BY <1>8, <1>9, AskedQuestion
  <2> QED
    BY <1>1, <1>3, <1>7, <1>9, <2>1, TruthKept
<1>11. SaysTruly(q, it)'
  BY <1>3, <1>10 DEF SaysTruly
<1> QED
  BY <1>3, <1>4, <1>5, <1>11, SectionInv

LEMMA SubmitAttentionInv ==
  ASSUME ClientInv, NEW q \in Questions, NEW heard \in BOOLEAN, SubmitAttention(q, heard)
  PROVE  /\ ClientInv' /\ Steady /\ q \in Asked /\ RouteStep(q) /\ UNCHANGED <<agenda, actions, changed, proc>>
         /\ question' = question \/ \E attn \in Attns : question' = AttnSet(q, attn)
<1>1. q \in Asked /\ UNCHANGED <<agenda, actions, changed, proc>> /\ ClientTypes
  BY DEF SubmitAttention, ClientInv
<1>2. RouteStep(q)
  BY <1>1, BrokerCalls DEF SubmitAttention
<1>3. CommandsMove /\ ActionsGrow
  BY <1>1, AgendaKept, NoneMoves
<1>4. CASE heard
  <2>1. PICK attn : attn = intent'[q].state
    OBVIOUS
  <2>2. attn \in Attns /\ (attn = "delivered" => Ended(q)')
    BY <1>2, <2>1 DEF RouteStep, Intents, Attns, Ended
  <2>3. question' = AttnSet(q, attn)
    BY <1>4, <2>1 DEF SubmitAttention, AttnSet
  <2> QED
    BY <1>1, <1>2, <1>3, <2>2, <2>3, RecordedInv
<1>5. CASE ~heard
  <2>1. question' = question
    BY <1>5 DEF SubmitAttention
  <2> QED
    BY <1>1, <1>2, <1>3, <2>1, UnrecordedInv
<1> QED
  BY <1>4, <1>5

(* The broker keeps the intent until the last call.                         *)
LEMMA CompletedInv ==
  ASSUME ClientInv, NEW q \in Asked, NEW heard \in BOOLEAN, ReleaseVisible(q, heard),
         question' = IF heard THEN AttnSet(q, "completed") ELSE question,
         UNCHANGED <<agenda, actions, changed>>, CommandsMove
  PROVE  ClientInv' /\ Steady /\ RouteStep(q)
<1>1. ClientTypes /\ q \in Questions
  BY DEF ClientInv, Asked
<1>2. RouteStep(q) /\ ActionsGrow
  BY <1>1, BrokerCalls, AgendaKept
<1>3. "completed" \in Attns
  BY DEF Attns
<1>4. CASE heard
  BY <1>2, <1>3, <1>4, RecordedInv
<1>5. CASE ~heard
  BY <1>2, <1>5, UnrecordedInv
<1> QED
  BY <1>2, <1>4, <1>5

LEMMA CompleteAttentionInv ==
  ASSUME ClientInv, NEW q \in Questions, NEW heard \in BOOLEAN, CompleteAttention(q, heard)
  PROVE  ClientInv' /\ Steady /\ RouteStep(q)
<1>1. /\ q \in Asked /\ UNCHANGED <<agenda, actions, changed, proc>> /\ ClientTypes /\ ReleaseVisible(q, heard)
      /\ question' = IF heard THEN AttnSet(q, "completed") ELSE question
  BY DEF CompleteAttention, ClientInv, AttnSet
<1>2. CommandsMove
  BY <1>1, NoneMoves
<1> QED
  BY <1>1, <1>2, CompletedInv

LEMMA CancelReleaseInv ==
  ASSUME ClientInv, NEW p \in Procs, NEW heard \in BOOLEAN, CancelRelease(p, heard)
  PROVE  ClientInv' /\ Steady /\ RouteStep(proc[p].q)
<1>0. PICK q : q = proc[p].q
  OBVIOUS
<1>1. /\ UNCHANGED <<agenda, actions, changed>> /\ Ends(p) /\ ClientTypes /\ ReleaseVisible(q, heard)
      /\ question' = IF heard THEN AttnSet(q, "completed") ELSE question
  BY <1>0 DEF CancelRelease, ClientInv, AttnSet
<1>2. q \in Asked
  BY <1>0, AtWork DEF CancelRelease, IsCanceller, CancellerSteps
<1>3. CommandsMove
  BY <1>1, EndsMoves
<1> QED
  BY <1>0, <1>1, <1>2, <1>3, CompletedInv

(* How the commands begin.                                                  *)
LEMMA DispatcherBegins ==
  ASSUME ClientTypes, NEW p \in Procs, p \in Dispatchers, NEW w \in DispatcherWork, Becomes(p, w),
         w.q \in Asked', w.pc \notin {"complete", "delivered"}
  PROVE  CommandsMove /\ OnlyMoves(p) /\ proc'[p] = w
<1>1. OnlyMoves(p) /\ proc'[p] = w
  BY CommandBecomes DEF Work
<1>2. w.pc \in DispatcherSteps
  BY DEF DispatcherWork
<1>3. IsDispatcher(p)' /\ ~IsCanceller(p)' /\ ~IsApplier(p)' /\ ~IsPreparer(p)'
  BY <1>1, <1>2 DEF IsPreparer, IsDispatcher, IsCanceller, IsApplier, DispatcherSteps, CancellerSteps, ApplierSteps
<1>4. RoleOK(p)' /\ CommandOK(p)'
  BY <1>1, <1>3 DEF RoleOK, CommandOK
<1> QED
  BY <1>1, <1>3, <1>4, GoesMoves

LEMMA CancellerBegins ==
  ASSUME ClientTypes, NEW p \in Procs, NEW w \in CancellerWork, Becomes(p, w), w.q \in Asked'
  PROVE  CommandsMove /\ OnlyMoves(p) /\ proc'[p] = w
<1>1. OnlyMoves(p) /\ proc'[p] = w
  BY CommandBecomes DEF Work
<1>2. w.pc \in CancellerSteps
  BY DEF CancellerWork
<1>3. ~IsDispatcher(p)' /\ IsCanceller(p)' /\ ~IsApplier(p)' /\ proc'[p].pc \notin {"complete", "delivered"}
      /\ ~IsPreparer(p)'
  BY <1>1, <1>2 DEF IsPreparer, IsDispatcher, IsCanceller, IsApplier, DispatcherSteps, CancellerSteps, ApplierSteps
<1>4. RoleOK(p)' /\ CommandOK(p)'
  BY <1>1, <1>3 DEF RoleOK, CommandOK
<1> QED
  BY <1>1, <1>3, <1>4, GoesMoves

LEMMA DispatchStartInv ==
  ASSUME ClientInv, NEW p \in Procs, p \in Dispatchers, NEW q \in Questions, NEW lease \in 1 .. MaxLeases,
         NEW overdue \in BOOLEAN, DispatchStart(p, q, lease, overdue)
  PROVE  /\ ClientInv' /\ Steady /\ OnlyMoves(p) /\ proc'[p].q = q /\ UNCHANGED <<question, agenda, actions, changed, route>>
         /\ proc'[p].pc \in {"cancel", "bridge", "begin", "deliver"} /\ proc'[p].lease = lease
<1>0. PICK w : w = [pc |-> IF question[q].state # "staged" \/ overdue THEN "cancel"
                           ELSE IF Unleased(question[q]) THEN "bridge"
                           ELSE IF question[q].attn = "claimed" THEN "begin" ELSE "deliver",
                    q |-> q, lease |-> lease]
  OBVIOUS
<1>1. ClientTypes /\ q \in Asked /\ Becomes(p, w) /\ UNCHANGED <<question, agenda, actions, changed, route>>
  BY <1>0 DEF ClientInv, DispatchStart
<1>2. w.pc \in {"cancel", "bridge", "begin", "deliver"} /\ w.q = q /\ w.lease = lease
  BY <1>0
<1>3. lease \in Nat
  BY RouteAssumption
<1>4. w \in DispatcherWork
  BY <1>0, <1>3 DEF DispatcherWork, DispatcherSteps
<1>5. q \in Asked'
  BY <1>1 DEF Asked
<1>6. CommandsMove /\ OnlyMoves(p) /\ proc'[p] = w
  BY <1>1, <1>2, <1>4, <1>5, DispatcherBegins
<1> QED
  BY <1>1, <1>2, <1>6, AgendaKept, AgendaInv

LEMMA RecoverWithdrawsInv ==
  ASSUME ClientInv, NEW p \in Procs, p \in Dispatchers, NEW q \in Questions, RecoverWithdraws(p, q)
  PROVE  /\ ClientInv' /\ Steady /\ OnlyMoves(p) /\ proc'[p].q = q /\ UNCHANGED <<question, agenda, actions, changed, route>>
         /\ proc'[p].pc = "cancel"
<1>0. PICK w : w = [pc |-> "cancel", q |-> q, lease |-> question[q].lease]
  OBVIOUS
<1>1. ClientTypes /\ q \in Asked /\ Becomes(p, w) /\ UNCHANGED <<question, agenda, actions, changed, route>>
  BY <1>0 DEF ClientInv, RecoverWithdraws
<1>2. w.pc = "cancel" /\ w.q = q
  BY <1>0
<1>3. question[q].lease \in Nat
  BY <1>1, AskedQuestion DEF StoredQuestion
<1>4. w \in DispatcherWork
  BY <1>0, <1>3 DEF DispatcherWork, DispatcherSteps
<1>5. q \in Asked'
  BY <1>1 DEF Asked
<1>6. CommandsMove /\ OnlyMoves(p) /\ proc'[p] = w
  BY <1>1, <1>2, <1>4, <1>5, DispatcherBegins
<1> QED
  BY <1>1, <1>2, <1>6, AgendaKept, AgendaInv

LEMMA CancelStartInv ==
  ASSUME ClientInv, NEW p \in Procs, NEW q \in Questions, CancelStart(p, q)
  PROVE  /\ ClientInv' /\ Steady /\ OnlyMoves(p) /\ UNCHANGED <<question, agenda, actions, changed, route>>
         /\ q \in Asked /\ proc'[p].q = q /\ proc'[p].seen = question[q].attn
         /\ proc'[p].pc \in CancellerSteps
         /\ proc'[p].pc = "release" => question[q].attn = "delivered"
         /\ proc'[p].pc = "close" => question[q].attn = "none"
         /\ proc'[p].pc = "unbridge" => question[q].attn = "delivered"
         /\ proc'[p].pc = "broker" => question[q].attn \in {"queued", "claimed"}
<1>0. PICK w : w = [pc |-> IF question[q].state = "cancelled" THEN "release"
                           ELSE CASE question[q].attn = "none" -> "close"
                                  [] question[q].attn = "delivered" -> "unbridge"
                                  [] OTHER -> "broker",
                    q |-> q, lease |-> question[q].lease, seen |-> question[q].attn]
  OBVIOUS
<1>1. /\ ClientTypes /\ q \in Asked /\ Becomes(p, w) /\ UNCHANGED <<question, agenda, actions, changed, route>>
      /\ question[q].attn \in {"none", "queued", "claimed", "delivered"}
      /\ question[q].state = "cancelled" => question[q].attn = "delivered"
  BY <1>0 DEF ClientInv, CancelStart
<1>2. /\ w.pc \in CancellerSteps /\ w.q = q /\ w.seen = question[q].attn
      /\ w.pc = "release" => question[q].attn = "delivered"
      /\ w.pc = "close" => question[q].attn = "none"
      /\ w.pc = "unbridge" => question[q].attn = "delivered"
      /\ w.pc = "broker" => question[q].attn \in {"queued", "claimed"}
  BY <1>0, <1>1 DEF CancellerSteps
<1>3. question[q].lease \in Nat
  BY <1>1, AskedQuestion DEF StoredQuestion
<1>4. w \in CancellerWork
  <2>1. \E pc \in CancellerSteps : w = [pc |-> pc, q |-> q, lease |-> question[q].lease, seen |-> question[q].attn]
    BY <1>0, <1>2
  <2> QED
    BY <1>1, <1>3, <2>1 DEF CancellerWork
<1>5. q \in Asked'
  BY <1>1 DEF Asked
<1>6. CommandsMove /\ OnlyMoves(p) /\ proc'[p] = w
  BY <1>1, <1>2, <1>4, <1>5, CancellerBegins
<1> QED
  BY <1>1, <1>2, <1>6, AgendaKept, AgendaInv

-----------------------------------------------------------------------------
(* A call after which a command goes on or ends; the file is as it was.     *)
LEMMA PlainCall ==
  ASSUME ClientInv, NEW p \in Procs, NEW q, q = proc[p].q, RouteStep(q),
         UNCHANGED <<question, agenda, actions, changed>>,
         \/ Ends(p)
         \/ \E pc \in DispatcherSteps : /\ IsDispatcher(p) /\ Goes(p, pc)
                                        /\ pc \in {"complete", "delivered"} => Shown(q)'
                                        /\ pc = "delivered" => Ended(q)'
         \/ \E pc \in CancellerSteps : IsCanceller(p) /\ Goes(p, pc),
         IsDispatcher(p) \/ IsCanceller(p)
  PROVE  ClientInv' /\ Steady
<1>1. ClientTypes /\ q \in Asked /\ q \in Questions /\ Asked' = Asked
  BY AtWork DEF ClientInv, Asked
<1>2. ActionsGrow /\ Grows
  BY <1>1, AgendaKept, GrowsBy
<1>3. CommandsMove
  BY <1>1, <1>2, EndsMoves, DispatcherMoves, CancellerMoves
<1> QED
  BY <1>1, <1>2, <1>3, UnrecordedInv

LEMMA PlainCallsInv ==
  ASSUME ClientInv, NEW p \in Procs, NEW heard \in BOOLEAN,
         \/ WithdrawIntent(p, heard) \/ DispatchBridge(p, heard) \/ DispatchRelease(p, heard)
         \/ DispatchBegin(p, heard) \/ CancelBroker(p, heard) \/ CancelBridge(p, heard)
  PROVE  ClientInv' /\ Steady /\ RouteStep(proc[p].q)
<1>0. PICK q : q = proc[p].q
  OBVIOUS
<1>1. ClientTypes
  BY DEF ClientInv
<1>2. IsDispatcher(p) \/ IsCanceller(p)
  BY DEF WithdrawIntent, DispatchBridge, DispatchRelease, DispatchBegin, CancelBroker, CancelBridge,
    IsDispatcher, IsCanceller, DispatcherSteps, CancellerSteps
<1>3. q \in Questions /\ q \in Asked
  BY <1>0, <1>2, AtWork
<1>4. RouteStep(q)
  BY <1>0, <1>1, <1>3, BrokerCalls, BridgeCalls DEF WithdrawIntent, DispatchBridge, DispatchRelease,
    DispatchBegin, CancelBroker, CancelBridge
<1>5. UNCHANGED <<question, agenda, actions, changed>>
  BY DEF WithdrawIntent, DispatchBridge, DispatchRelease, DispatchBegin, CancelBroker, CancelBridge
<1>6. \/ Ends(p)
      \/ \E pc \in {"withdraw", "claim", "giveback", "sending"} : IsDispatcher(p) /\ Goes(p, pc)
      \/ \E pc \in {"close"} : IsCanceller(p) /\ Goes(p, pc)
  BY DEF WithdrawIntent, DispatchBridge, DispatchRelease, DispatchBegin, CancelBroker, CancelBridge,
    IsDispatcher, IsCanceller, DispatcherSteps, CancellerSteps
<1>7. \/ Ends(p)
      \/ \E pc \in DispatcherSteps : /\ IsDispatcher(p) /\ Goes(p, pc)
                                     /\ pc \in {"complete", "delivered"} => Shown(q)'
                                     /\ pc = "delivered" => Ended(q)'
      \/ \E pc \in CancellerSteps : IsCanceller(p) /\ Goes(p, pc)
  <2>1. /\ {"withdraw", "claim", "giveback", "sending"} \subseteq DispatcherSteps \ {"complete", "delivered"}
        /\ {"close"} \subseteq CancellerSteps
    BY DEF DispatcherSteps, CancellerSteps
  <2> QED
    BY <1>6, <2>1
<1> QED
  BY <1>0, <1>2, <1>4, <1>5, <1>7, PlainCall

(* The dispatcher looks at the conversation before it confirms.             *)
LEMMA DispatchReceiptInv ==
  ASSUME ClientInv, NEW p \in Procs, DispatchReceipt(p)
  PROVE  ClientInv' /\ Steady
<1>0. PICK q : q = proc[p].q
  OBVIOUS
<1>1. ClientTypes /\ IsDispatcher(p) /\ UNCHANGED <<question, agenda, actions, changed, route>>
  BY DEF ClientInv, DispatchReceipt, IsDispatcher, DispatcherSteps
<1>2. q \in Questions
  BY <1>0, <1>1, AtWork
<1>3. RouteStep(q) /\ conv' = conv
  BY <1>1, <1>2, RouteRests DEF route
<1>4. CASE conv[q] = "awaiting_reply"
  <2>1. Goes(p, "complete") /\ Shown(q)' /\ "complete" \in DispatcherSteps
    BY <1>0, <1>3, <1>4 DEF DispatchReceipt, Shown, DispatcherSteps
  <2> QED
    BY <1>0, <1>1, <1>3, <2>1, PlainCall
<1>5. CASE conv[q] # "awaiting_reply"
  <2>1. Ends(p)
    BY <1>0, <1>5 DEF DispatchReceipt
  <2> QED
    BY <1>0, <1>1, <1>3, <2>1, PlainCall
<1> QED
  BY <1>4, <1>5

LEMMA DispatchCompleteInv ==
  ASSUME ClientInv, NEW p \in Procs, NEW heard \in BOOLEAN, DispatchComplete(p, heard)
  PROVE  ClientInv' /\ Steady /\ RouteStep(proc[p].q)
<1>0. PICK q : q = proc[p].q
  OBVIOUS
<1>1. ClientTypes /\ IsDispatcher(p) /\ UNCHANGED <<question, agenda, actions, changed>>
  BY DEF ClientInv, DispatchComplete, IsDispatcher, DispatcherSteps
<1>2. q \in Questions /\ Shown(q)
  BY <1>0, <1>1, AtWork DEF CommandOK, DispatchComplete
<1>3. RouteStep(q)
  BY <1>0, <1>1, <1>2, BrokerCalls DEF DispatchComplete
<1>4. CASE heard
  <2>1. Goes(p, "delivered") /\ "delivered" \in DispatcherSteps
    BY <1>4 DEF DispatchComplete, DispatcherSteps
  <2>2. PICK s : s = IF intent[q].state = "sending" THEN "delivered" ELSE intent[q].state
    OBVIOUS
  <2>3. intent[q].state \in {"sending", "delivered", "completed"} /\ IntentBecomes(q, s)
    BY <1>0, <1>4, <2>2 DEF DispatchComplete, Complete, Call
  <2>4. s \in {"delivered", "completed"}
    BY <2>2, <2>3
  <2>5. intent'[q].state = s
    BY <1>1, <1>2, <2>3, <2>4, IntentMoves
  <2>6. Ended(q)' /\ Shown(q)'
    BY <1>1, <1>2, <1>3, <2>4, <2>5, RouteGrows DEF Ended
  <2> QED
    BY <1>0, <1>1, <1>3, <2>1, <2>6, PlainCall
<1>5. CASE ~heard
  <2>1. Ends(p)
    BY <1>5 DEF DispatchComplete
  <2> QED
    BY <1>0, <1>1, <1>3, <2>1, PlainCall
<1> QED
  BY <1>0, <1>3, <1>4, <1>5

-----------------------------------------------------------------------------
(* The sections of the delivery.                                            *)
ShownStates == {"awaiting_reply", "applying", "committed_unverified", "verified_applied", "deferred"}

DeliverySays(q, it) ==
  /\ it \in StoredQuestion /\ question' = [question EXCEPT ![q] = it]
  /\ it.items = question[q].items
  /\ it.pending = question[q].pending /\ it.outcomes = question[q].outcomes
  /\ it.state \in ShownStates => it.state = question[q].state \/ Shown(q)
  /\ it.attn = "delivered" => it.attn = question[q].attn \/ Ended(q)

LEMMA DeliverySectionInv ==
  ASSUME ClientInv, NEW q \in Asked, NEW it, DeliverySays(q, it), RouteStep(q), CommandsMove,
         AgendaTypes', ActionsGrow
  PROVE  ClientInv' /\ Steady /\ Rewrites(q, it)
<1>1. ClientTypes /\ q \in Questions
  BY DEF ClientInv, Asked
<1>2. Rewrites(q, it)
  BY DEF DeliverySays, Rewrites
<1>3. Asked' = Asked
  BY <1>1, <1>2, OneQuestion
<1>4. Grows
  BY <1>1, <1>3, GrowsBy
<1>5. SaysTruly(q, it)
  <2>1. SaysTruly(q, question[q])
    BY AskedQuestion
  <2> QED
    BY <2>1 DEF SaysTruly, DeliverySays, ShownStates
<1>6. SaysTruly(q, it)'
  BY <1>1, <1>2, <1>4, <1>5, TruthKept DEF Rewrites
<1>7. it.items = question[q].items
  BY DEF DeliverySays
<1> QED
  BY <1>2, <1>6, <1>7, SectionInv

(* What a dispatcher stores of a delivery.                                  *)
Delivery(q, state, attn, lease) ==
  [question[q] EXCEPT !.state = state, !.attn = attn, !.lease = lease, !.bound = TRUE]
Withdrawn(q, end) == [question[q] EXCEPT !.state = end, !.attn = "cancelled", !.lease = 0]

LEMMA DeliveryShape ==
  ASSUME ClientInv, NEW q \in Asked, NEW state \in Open \cup Closed, NEW attn \in Attns,
         NEW lease \in Nat,
         NEW it, it = Delivery(q, state, attn, lease)
  PROVE  /\ it \in StoredQuestion /\ it.state = state /\ it.attn = attn /\ it.lease = lease
         /\ it.items = question[q].items /\ it.pending = question[q].pending
         /\ it.outcomes = question[q].outcomes /\ it.blind = question[q].blind
         /\ it.plan = question[q].plan
<1>1. question[q] \in StoredQuestion
  BY AskedQuestion
<1> QED
  BY <1>1 DEF Delivery, StoredQuestion, Attns

LEMMA WithdrawnShape ==
  ASSUME ClientInv, NEW q \in Asked, NEW end \in Open \cup Closed, NEW it, it = Withdrawn(q, end)
  PROVE  /\ it \in StoredQuestion /\ it.state = end /\ it.attn = "cancelled"
         /\ it.items = question[q].items /\ it.pending = question[q].pending
         /\ it.outcomes = question[q].outcomes /\ it.blind = question[q].blind
         /\ it.plan = question[q].plan
<1>1. question[q] \in StoredQuestion
  BY AskedQuestion
<1> QED
  BY <1>1 DEF Withdrawn, StoredQuestion

LEMMA DeliveryEnds ==
  ASSUME ClientInv, NEW q \in Asked, UNCHANGED <<agenda, actions, changed, route>>
  PROVE  AgendaTypes' /\ ActionsGrow /\ RouteStep(q)
<1>1. ClientTypes /\ q \in Questions
  BY DEF ClientInv, Asked
<1> QED
  BY <1>1, AgendaKept, RouteRests

LEMMA DispatchClaimInv ==
  ASSUME ClientInv, NEW p \in Procs, DispatchClaim(p)
  PROVE  ClientInv' /\ Steady
<1>0. PICK q : q = proc[p].q
  OBVIOUS
<1>1. ClientTypes /\ IsDispatcher(p) /\ UNCHANGED <<agenda, actions, changed, route>>
  BY DEF ClientInv, DispatchClaim, IsDispatcher, DispatcherSteps
<1>2. q \in Asked /\ q \in Questions /\ proc[p].lease \in Nat /\ question[q] \in StoredQuestion
  BY <1>0, <1>1, AtWork, WorkShape, AskedQuestion DEF DispatcherWork
<1>3. AgendaTypes' /\ ActionsGrow /\ RouteStep(q)
  BY <1>1, <1>2, DeliveryEnds
<1>4. CASE question[q].state = "staged"
  <2>0. PICK it : it = Delivery(q, question[q].state, "claimed", proc[p].lease)
    OBVIOUS
  <2>1. question[q].state \in Open \cup Closed /\ "claimed" \in Attns /\ "begin" \in DispatcherSteps
    BY <1>2 DEF StoredQuestion, Attns, DispatcherSteps
  <2>2. /\ it \in StoredQuestion /\ it.state = question[q].state /\ it.attn = "claimed"
        /\ it.items = question[q].items /\ it.pending = question[q].pending /\ it.outcomes = question[q].outcomes
    BY <1>2, <2>0, <2>1, DeliveryShape
  <2>3. question' = [question EXCEPT ![q] = it]
    <3>1. question' = [question EXCEPT ![q].attn = "claimed", ![q].lease = proc[p].lease, ![q].bound = TRUE]
      BY <1>0, <1>4 DEF DispatchClaim
    <3>2. it = [question[q] EXCEPT !.attn = "claimed", !.lease = proc[p].lease, !.bound = TRUE]
      BY <1>2, <2>0 DEF Delivery, StoredQuestion
    <3> QED
      BY <1>1, <1>2, <3>1, <3>2 DEF ClientTypes
  <2>4. DeliverySays(q, it)
    BY <2>2, <2>3 DEF DeliverySays
  <2>5. Asked' = Asked
    <3>1. Rewrites(q, it)
      BY <2>2, <2>3 DEF Rewrites
    <3>2. Asked' = Asked \cup {q}
      BY <1>1, <1>2, <3>1, OneQuestion
    <3> QED
      BY <1>2, <3>2
  <2>6. Grows
    BY <1>1, <1>2, <1>3, <2>5, GrowsBy
  <2>7. Goes(p, "begin")
    BY <1>0, <1>4 DEF DispatchClaim
  <2>8. CommandsMove
    BY <1>0, <1>1, <2>1, <2>6, <2>7, DispatcherMoves
  <2> QED
    BY <1>2, <1>3, <2>4, <2>8, DeliverySectionInv
<1>5. CASE question[q].state # "staged"
  <2>1. question' = question /\ Ends(p)
    BY <1>0, <1>5 DEF DispatchClaim
  <2> QED
    BY <1>0, <1>1, <1>3, <2>1, PlainCall
<1> QED
  BY <1>4, <1>5

LEMMA MarkedShape ==
  ASSUME ClientInv, NEW p \in Procs, NEW q, q = proc[p].q, IsDispatcher(p),
         NEW attn \in Attns \ {"delivered"}, question' = Marked(p, attn)
  PROVE  \E it : DeliverySays(q, it) /\ it = Delivery(q, question[q].state, attn, proc[p].lease)
<1>1. q \in Asked /\ q \in Questions /\ proc[p].lease \in Nat /\ question[q] \in StoredQuestion
  BY AtWork, WorkShape, AskedQuestion DEF DispatcherWork, ClientInv
<1>2. PICK it : it = Delivery(q, question[q].state, attn, proc[p].lease)
  OBVIOUS
<1>3. question[q].state \in Open \cup Closed /\ attn # "delivered"
  BY <1>1 DEF StoredQuestion
<1>4. /\ it \in StoredQuestion /\ it.state = question[q].state /\ it.attn = attn
      /\ it.items = question[q].items /\ it.pending = question[q].pending /\ it.outcomes = question[q].outcomes
  BY <1>1, <1>2, <1>3, DeliveryShape
<1>5. question' = [question EXCEPT ![q] = it]
  <2>1. question' = [question EXCEPT ![q].attn = attn, ![q].lease = proc[p].lease, ![q].bound = TRUE]
    BY DEF Marked
  <2>2. it = [question[q] EXCEPT !.attn = attn, !.lease = proc[p].lease, !.bound = TRUE]
    BY <1>1, <1>2 DEF Delivery, StoredQuestion
  <2> QED
    BY <1>1, <2>1, <2>2 DEF ClientInv, ClientTypes
<1>6. DeliverySays(q, it)
  BY <1>3, <1>4, <1>5 DEF DeliverySays
<1> QED
  BY <1>2, <1>6

LEMMA DispatchSendingInv ==
  ASSUME ClientInv, NEW p \in Procs, DispatchSending(p)
  PROVE  ClientInv' /\ Steady
<1>0. PICK q : q = proc[p].q
  OBVIOUS
<1>1. ClientTypes /\ IsDispatcher(p) /\ UNCHANGED <<agenda, actions, changed, route>>
  BY DEF ClientInv, DispatchSending, IsDispatcher, DispatcherSteps
<1>2. q \in Asked /\ q \in Questions
  BY <1>0, <1>1, AtWork
<1>3. AgendaTypes' /\ ActionsGrow /\ RouteStep(q)
  BY <1>1, <1>2, DeliveryEnds
<1>4. "sending" \in Attns \ {"delivered"} /\ "deliver" \in DispatcherSteps
  BY DEF Attns, DispatcherSteps
<1>5. PICK it : DeliverySays(q, it)
  BY <1>0, <1>1, <1>4, MarkedShape DEF DispatchSending
<1>6. Asked' = Asked
  BY <1>1, <1>2, <1>5, OneQuestion DEF Rewrites, DeliverySays
<1>7. CommandsMove
  BY <1>0, <1>1, <1>2, <1>3, <1>4, <1>6, GrowsBy, DispatcherMoves DEF DispatchSending
<1> QED
  BY <1>2, <1>3, <1>5, <1>7, DeliverySectionInv

LEMMA DispatchDeliverInv ==
  ASSUME ClientInv, NEW p \in Procs, NEW heard \in BOOLEAN, DispatchDeliver(p, heard)
  PROVE  ClientInv' /\ Steady /\ RouteStep(proc[p].q)
<1>0. PICK q : q = proc[p].q
  OBVIOUS
<1>1. ClientTypes /\ IsDispatcher(p) /\ UNCHANGED <<agenda, actions, changed>>
  BY DEF ClientInv, DispatchDeliver, IsDispatcher, DispatcherSteps
<1>2. q \in Asked /\ q \in Questions
  BY <1>0, <1>1, AtWork
<1>3. AgendaTypes' /\ ActionsGrow /\ RouteStep(q)
  BY <1>0, <1>1, <1>2, AgendaKept, BridgeCalls DEF DispatchDeliver
<1>4. CASE heard
  <2>1. Goes(p, "context") /\ question' = question /\ "context" \in DispatcherSteps
    BY <1>4 DEF DispatchDeliver, DispatcherSteps
  <2> QED
    BY <1>0, <1>1, <1>3, <2>1, PlainCall
<1>5. CASE ~heard
  <2>1. "delivery_unknown" \in Attns \ {"delivered"}
    BY DEF Attns
  <2>2. PICK it : DeliverySays(q, it)
    BY <1>0, <1>1, <1>5, <2>1, MarkedShape DEF DispatchDeliver
  <2>3. CommandsMove
    BY <1>1, <1>5, EndsMoves DEF DispatchDeliver
  <2> QED
    BY <1>0, <1>2, <1>3, <2>2, <2>3, DeliverySectionInv
<1> QED
  BY <1>4, <1>5

LEMMA DispatchDeliveredInv ==
  ASSUME ClientInv, NEW p \in Procs, DispatchDelivered(p)
  PROVE  ClientInv' /\ Steady
<1>0. PICK q : q = proc[p].q
  OBVIOUS
<1>1. ClientTypes /\ IsDispatcher(p) /\ UNCHANGED <<agenda, actions, changed, route>> /\ Ends(p)
  BY DEF ClientInv, DispatchDelivered, IsDispatcher, DispatcherSteps
<1>2. q \in Asked /\ q \in Questions /\ question[q] \in StoredQuestion /\ Shown(q) /\ Ended(q)
  BY <1>0, <1>1, AtWork, AskedQuestion DEF CommandOK, DispatchDelivered
<1>3. AgendaTypes' /\ ActionsGrow /\ RouteStep(q)
  BY <1>1, <1>2, DeliveryEnds
<1>4. PICK it : it = Delivery(q, "awaiting_reply", "delivered", 0)
  OBVIOUS
<1>5. /\ it \in StoredQuestion
      /\ it.items = question[q].items /\ it.pending = question[q].pending /\ it.outcomes = question[q].outcomes
  <2>1. "awaiting_reply" \in Open \cup Closed /\ "delivered" \in Attns /\ 0 \in Nat
    BY DEF Attns, Open
  <2> QED
    BY <1>2, <1>4, <2>1, DeliveryShape
<1>6. question' = [question EXCEPT ![q] = it]
  <2>1. question' = [question EXCEPT ![q].attn = "delivered", ![q].lease = 0, ![q].bound = TRUE,
                                     ![q].state = "awaiting_reply"]
    BY <1>0 DEF DispatchDelivered
  <2> QED
    BY <1>1, <1>2, <1>4, <2>1 DEF ClientTypes, Delivery, StoredQuestion
<1>7. DeliverySays(q, it)
  BY <1>2, <1>5, <1>6 DEF DeliverySays
<1> QED
  BY <1>1, <1>2, <1>3, <1>7, EndsMoves, DeliverySectionInv

LEMMA WithdrawStoreInv ==
  ASSUME ClientInv, NEW p \in Procs, NEW overdue \in BOOLEAN, WithdrawStore(p, overdue)
  PROVE  ClientInv' /\ Steady
<1>0. PICK q : q = proc[p].q
  OBVIOUS
<1>1. ClientTypes /\ IsDispatcher(p) /\ UNCHANGED <<agenda, actions, changed, route>> /\ Ends(p)
  BY DEF ClientInv, WithdrawStore, IsDispatcher, DispatcherSteps
<1>2. q \in Asked /\ q \in Questions /\ question[q] \in StoredQuestion
  BY <1>0, <1>1, AtWork, AskedQuestion
<1>3. AgendaTypes' /\ ActionsGrow /\ RouteStep(q)
  BY <1>1, <1>2, DeliveryEnds
<1>4. PICK end : end = IF question[q].state \in Closed THEN question[q].state
                       ELSE IF overdue THEN "expired" ELSE "cancelled"
  OBVIOUS
<1>5. end \in Open \cup Closed /\ (end = question[q].state \/ end \notin ShownStates)
  BY <1>4 DEF Closed, ShownStates
<1>6. PICK it : it = Withdrawn(q, end)
  OBVIOUS
<1>8. /\ it \in StoredQuestion /\ it.state = end /\ it.attn = "cancelled"
      /\ it.items = question[q].items /\ it.pending = question[q].pending /\ it.outcomes = question[q].outcomes
  BY <1>2, <1>5, <1>6, WithdrawnShape
<1>9. question' = [question EXCEPT ![q] = it]
  <2>1. question' = [question EXCEPT ![q].state = end, ![q].attn = "cancelled", ![q].lease = 0]
    BY <1>0, <1>4 DEF WithdrawStore
  <2> QED
    BY <1>1, <1>2, <1>6, <2>1 DEF ClientTypes, Withdrawn, StoredQuestion
<1>10. DeliverySays(q, it)
  BY <1>5, <1>8, <1>9 DEF DeliverySays
<1> QED
  BY <1>1, <1>2, <1>3, <1>10, EndsMoves, DeliverySectionInv

(* The file of a cancelled question.                                        *)
CancelledAttn(attn) == IF attn \in {"queued", "claimed"} THEN "cancelled" ELSE attn
CancelledAs(q, blind) ==
  [question[q] EXCEPT !.state = "cancelled", !.blind = blind, !.attn = CancelledAttn(@)]

LEMMA CancelledShape ==
  ASSUME ClientInv, NEW q \in Asked, NEW blind \in BOOLEAN, NEW it, it = CancelledAs(q, blind)
  PROVE  /\ it \in StoredQuestion /\ it.state = "cancelled"
         /\ it.attn = question[q].attn \/ (question[q].attn \in {"queued", "claimed"} /\ it.attn = "cancelled")
         /\ it.items = question[q].items /\ it.pending = question[q].pending
         /\ it.outcomes = question[q].outcomes /\ it.plan = question[q].plan /\ it.blind = blind
<1>1. question[q] \in StoredQuestion
  BY AskedQuestion
<1>2. PICK attn : attn = CancelledAttn(question[q].attn)
  OBVIOUS
<1>3. /\ attn \in Attns
      /\ attn = question[q].attn \/ (question[q].attn \in {"queued", "claimed"} /\ attn = "cancelled")
  BY <1>1, <1>2 DEF CancelledAttn, StoredQuestion, Attns
<1>4. it = [question[q] EXCEPT !.state = "cancelled", !.blind = blind, !.attn = attn]
  BY <1>1, <1>2 DEF CancelledAs, StoredQuestion
<1>5. "cancelled" \in Open \cup Closed
  BY DEF Closed
<1> QED
  BY <1>1, <1>3, <1>4, <1>5 DEF StoredQuestion, Attns

LEMMA CancelStoreInv ==
  ASSUME ClientInv, NEW p \in Procs, CancelStore(p)
  PROVE  /\ ClientInv' /\ Steady /\ UNCHANGED <<terminal, current, audits, cursor, actions, changed, route>>
         /\ \/ question' = question
            \/ \E blind \in BOOLEAN : Rewrites(proc[p].q, CancelledAs(proc[p].q, blind))
<1>0. PICK q : q = proc[p].q
  OBVIOUS
<1>1. /\ ClientTypes /\ IsCanceller(p)
      /\ UNCHANGED <<terminal, current, audits, cursor, actions, changed, route>>
  BY DEF ClientInv, CancelStore, IsCanceller, CancellerSteps
<1>2. q \in Asked /\ q \in Questions /\ question[q] \in StoredQuestion
  BY <1>0, <1>1, AtWork, AskedQuestion
<1>3. RouteStep(q) /\ ActionsGrow
  BY <1>1, <1>2, RouteRests DEF ActionsGrow, ClientTypes
<1>4. suppressed' \subseteq suppressed
  BY DEF CancelStore
<1>5. AgendaTypes'
  BY <1>1, <1>4 DEF ClientTypes, AgendaTypes
<1>6. CASE UNCHANGED <<question, suppressed>> /\ Ends(p)
  <2>1. CommandsMove
    BY <1>1, <1>6, EndsMoves
  <2>2. UNCHANGED <<question, route>>
    BY <1>1, <1>6
  <2> QED
    BY <1>1, <1>3, <1>5, <2>1, <2>2, AgendaInv
<1>7. CASE ~(UNCHANGED <<question, suppressed>> /\ Ends(p))
  <2>1. /\ question' = [question EXCEPT ![q].state = "cancelled",
                          ![q].blind = proc[p].seen = "none",
                          ![q].attn = IF @ \in {"queued", "claimed"} THEN "cancelled" ELSE @]
        /\ Goes(p, "release") \/ Ends(p)
    BY <1>0, <1>7 DEF CancelStore
  <2>2. PICK blind \in BOOLEAN : blind = (proc[p].seen = "none")
    OBVIOUS
  <2>3. PICK it : it = CancelledAs(q, blind)
    OBVIOUS
  <2>4. /\ it \in StoredQuestion /\ it.state = "cancelled"
        /\ it.attn = question[q].attn \/ (question[q].attn \in {"queued", "claimed"} /\ it.attn = "cancelled")
        /\ it.items = question[q].items
        /\ it.pending = question[q].pending /\ it.outcomes = question[q].outcomes
    BY <1>2, <2>3, CancelledShape
  <2>5. question' = [question EXCEPT ![q] = it]
    BY <1>1, <1>2, <2>1, <2>2, <2>3 DEF ClientTypes, CancelledAs, CancelledAttn, StoredQuestion
  <2>6. Rewrites(q, it) /\ DeliverySays(q, it)
    BY <2>4, <2>5 DEF Rewrites, DeliverySays, ShownStates
  <2>7. Asked' = Asked
    BY <1>1, <1>2, <2>6, OneQuestion
  <2>8. Grows
    BY <1>1, <1>2, <1>3, <2>7, GrowsBy
  <2>9. "release" \in CancellerSteps
    BY DEF CancellerSteps
  <2>10. CommandsMove
    BY <1>1, <2>1, <2>8, <2>9, EndsMoves, CancellerMoves
  <2>11. ClientInv' /\ Steady
    BY <1>2, <1>3, <1>5, <2>6, <2>10, DeliverySectionInv
  <2> QED
    BY <1>0, <1>1, <2>3, <2>6, <2>11
<1> QED
  BY <1>6, <1>7

-----------------------------------------------------------------------------
(* The commands that apply answers.                                         *)
LEMMA ReceiptSet ==
  ASSUME NEW f \in Receipts, NEW i \in DOMAIN f, NEW v \in {"planned", "committed", "verified"},
         NEW g, g = [f EXCEPT ![i] = v]
  PROVE  /\ g \in Receipts /\ DOMAIN g = DOMAIN f /\ DOMAIN f \subseteq Items /\ g[i] = v
         /\ \A j \in DOMAIN f : j # i => g[j] = f[j]
<1>1. PICK items \in SUBSET Items : f \in [items -> {"planned", "committed", "verified"}]
  BY DEF Receipts
<1>2. g \in [items -> {"planned", "committed", "verified"}]
  BY <1>1
<1> QED
  BY <1>1, <1>2 DEF Receipts

LEMMA NothingPlanned == NoActions \in Receipts /\ DOMAIN NoActions = {}
<1>1. NoActions \in [{} -> {"planned", "committed", "verified"}]
  BY DEF NoActions
<1> QED
  BY <1>1 DEF Receipts, NoActions

LEMMA ApplierAtWork ==
  ASSUME ClientInv, NEW p \in Procs, IsApplier(p), NEW q, q = proc[p].q
  PROVE  /\ q \in Asked /\ q \in Questions /\ question[q] \in StoredQuestion /\ SaysTruly(q, question[q])
         /\ Shown(q) /\ proc[p].s \in Submissions /\ proc[p].s # Nothing
         /\ proc[p].left \subseteq Items /\ proc[p].before \subseteq Items /\ proc[p] \in ApplierWork
<1>1. proc[p] \in ApplierWork
  BY WorkShape DEF ClientInv
<1>2. q \in Asked /\ q \in Questions /\ Shown(q)
  BY AtWork DEF CommandOK
<1>3. Nothing \notin Submissions
  BY ClientAssumption
<1> QED
  BY <1>1, <1>2, <1>3, AskedQuestion DEF ApplierWork

(* It goes on with the same question, or ends.                              *)
Continues(p) == \/ Ends(p)
                \/ OnlyMoves(p) /\ IsApplier(p)' /\ proc'[p].q = proc[p].q

LEMMA ApplierSectionInv ==
  ASSUME ClientInv, NEW p \in Procs, IsApplier(p), Continues(p), NEW q, q = proc[p].q,
         NEW it, it \in StoredQuestion, question' = [question EXCEPT ![q] = it], SaysTruly(q, it),
         it.items = question[q].items, AgendaTypes', ActionsGrow, UNCHANGED route
  PROVE  ClientInv' /\ Steady
<1>1. ClientTypes /\ q \in Asked /\ q \in Questions
  BY ApplierAtWork DEF ClientInv
<1>2. Rewrites(q, it)
  BY DEF Rewrites
<1>3. Asked' = Asked
  BY <1>1, <1>2, OneQuestion
<1>4. RouteStep(q)
  BY <1>1, RouteRests
<1>5. Grows
  BY <1>1, <1>3, <1>4, GrowsBy
<1>6. SaysTruly(q, it)'
  BY <1>1, <1>5, TruthKept
<1>7. CommandsMove
  BY <1>1, <1>5, EndsMoves, ApplierMoves DEF Continues
<1> QED
  BY <1>1, <1>2, <1>4, <1>6, <1>7, SectionInv

LEMMA ApplierLooksInv ==
  ASSUME ClientInv, NEW p \in Procs, IsApplier(p), Continues(p), question' = question,
         AgendaTypes', ActionsGrow, UNCHANGED route
  PROVE  ClientInv' /\ Steady
<1>0. PICK q : q = proc[p].q
  OBVIOUS
<1>1. PICK it : it = question[q]
  OBVIOUS
<1>2. q \in Asked /\ q \in Questions /\ it \in StoredQuestion /\ SaysTruly(q, it)
  BY <1>0, <1>1, ApplierAtWork
<1>3. question' = [question EXCEPT ![q] = it]
  BY <1>1, <1>2 DEF ClientInv, ClientTypes
<1> QED
  BY <1>0, <1>1, <1>2, <1>3, ApplierSectionInv

LEMMA ApplierGoesOn ==
  ASSUME ClientInv, NEW p \in Procs, IsApplier(p), NEW pc \in ApplierSteps, Goes(p, pc)
  PROVE  Continues(p)
<1>1. Moves(p, pc)
  BY ApplierGoes DEF ClientInv
<1> QED
  BY <1>1 DEF Moves, Continues, IsApplier

LEMMA LeftShrinks ==
  ASSUME ClientInv, NEW p \in Procs, IsApplier(p), NEW i,
         \/ proc' = [proc EXCEPT ![p].left = @ \ {i}]
         \/ proc' = [proc EXCEPT ![p].pc = "next", ![p].left = @ \ {i}]
  PROVE  Continues(p)
<1>1. proc[p] \in ApplierWork /\ proc \in [Procs -> Work]
  BY ApplierAtWork DEF ClientInv, ClientTypes
<1>2. PICK w : w = proc'[p]
  OBVIOUS
<1>3. w = [proc[p] EXCEPT !.left = @ \ {i}] \/ w = [proc[p] EXCEPT !.pc = "next", !.left = @ \ {i}]
  BY <1>1, <1>2
<1>4. w \in ApplierWork /\ w.q = proc[p].q
  <2>1. PICK rest : rest = proc[p].left \ {i}
    OBVIOUS
  <2>2. rest \subseteq Items
    BY <1>1, <2>1 DEF ApplierWork
  <2>3. w = [proc[p] EXCEPT !.left = rest] \/ w = [proc[p] EXCEPT !.pc = "next", !.left = rest]
    BY <1>1, <1>3, <2>1 DEF ApplierWork
  <2>4. "next" \in ApplierSteps
    BY DEF ApplierSteps
  <2> QED
    BY <1>1, <2>2, <2>3, <2>4 DEF ApplierWork
<1>5. \A o \in Procs : o # p => proc'[o] = proc[o]
  BY <1>1
<1>6. proc' = [proc EXCEPT ![p] = w]
  BY <1>1, <1>2
<1>7. OnlyMoves(p)
  BY <1>1, <1>4, <1>5, <1>6 DEF OnlyMoves, Work
<1> QED
  BY <1>2, <1>4, <1>7 DEF Continues, IsApplier, ApplierWork

LEMMA ApplierWait ==
  ASSUME ClientInv, UNCHANGED <<agenda, actions, changed>>
  PROVE  ClientTypes /\ AgendaTypes' /\ ActionsGrow
BY AgendaKept DEF ClientInv

(* What a plan makes of its question.                                       *)
Planned(q, pending, s, state) ==
  [question[q] EXCEPT !.pending = pending, !.plan = s, !.state = state]

LEMMA PlannedShape ==
  ASSUME ClientInv, NEW q \in Asked, NEW pending \in Receipts, NEW s \in Submissions \cup {Nothing},
         NEW state \in Open \cup Closed, NEW it, it = Planned(q, pending, s, state)
  PROVE  /\ it \in StoredQuestion /\ it.pending = pending /\ it.plan = s /\ it.state = state
         /\ it.items = question[q].items /\ it.outcomes = question[q].outcomes
         /\ it.attn = question[q].attn /\ it.blind = question[q].blind
<1>1. question[q] \in StoredQuestion /\ q \in Questions
  BY AskedQuestion
<1> QED
  BY <1>1 DEF Planned, StoredQuestion

LEMMA ApplyPlanInv ==
  ASSUME ClientInv, NEW p \in Procs, p \in Appliers, NEW q \in Questions, NEW s \in Submissions,
         ApplyPlan(p, q, s)
  PROVE  /\ ClientInv' /\ Steady /\ UNCHANGED <<agenda, actions, changed, route>>
         /\ OnlyMoves(p) /\ proc'[p].q = q /\ proc'[p].pc \in {"next", "proof"}
<1>0. PICK todo : todo = Acting(s) \ (question[q].resolved \cup question[q].deferred)
  OBVIOUS
<1>1. PICK pending : pending = IF question[q].state \in {"applying", "committed_unverified"}
                                 THEN question[q].pending ELSE [i \in todo |-> "planned"]
  OBVIOUS
<1>2. PICK state : state = IF Committed(pending) THEN "committed_unverified" ELSE "applying"
  OBVIOUS
<1>3. PICK w : w = [pc |-> IF question[q].state = "committed_unverified" THEN "next" ELSE "proof",
                    q |-> q, s |-> s, left |-> todo,
                    before |-> question[q].resolved \cup question[q].deferred]
  OBVIOUS
<1>4. /\ q \in Asked /\ question[q].state \in {"awaiting_reply", "applying", "committed_unverified"}
      /\ UNCHANGED <<agenda, actions, changed, route>> /\ ClientTypes
      /\ question' = [question EXCEPT ![q].pending = pending, ![q].plan = s, ![q].state = state]
      /\ Becomes(p, w)
  BY <1>0, <1>1, <1>2, <1>3, Zenon DEF ApplyPlan, ClientInv
<1>5. question[q] \in StoredQuestion /\ SaysTruly(q, question[q]) /\ Shown(q)
  BY <1>4, AskedQuestion DEF SaysTruly
<1>6. DOMAIN Answers[s] \subseteq Items
  BY ClientAssumption
<1>7. todo \subseteq Items
  BY <1>0, <1>6 DEF Acting
<1>8. /\ pending \in Receipts
      /\ \A i \in DOMAIN pending : pending[i] = "verified" => actions[q][i] # Nothing
  <2>1. CASE question[q].state \in {"applying", "committed_unverified"}
    BY <1>1, <1>5, <2>1 DEF StoredQuestion, SaysTruly
  <2>2. CASE question[q].state \notin {"applying", "committed_unverified"}
    <3>1. pending = [i \in todo |-> "planned"]
      BY <1>1, <2>2
    <3>2. pending \in [todo -> {"planned", "committed", "verified"}]
      BY <3>1
    <3> QED
      BY <1>7, <3>1, <3>2 DEF Receipts
  <2> QED
    BY <2>1, <2>2
<1>9. state \in Open \cup Closed
  BY <1>2 DEF Open
<1>10. PICK it : it = Planned(q, pending, s, state)
  OBVIOUS
<1>11. /\ it \in StoredQuestion /\ it.pending = pending /\ it.outcomes = question[q].outcomes
       /\ it.attn = question[q].attn /\ it.items = question[q].items
       /\ question' = [question EXCEPT ![q] = it]
  <2>1. s \in Submissions \cup {Nothing}
    OBVIOUS
  <2>2. /\ it \in StoredQuestion /\ it.pending = pending /\ it.outcomes = question[q].outcomes
        /\ it.attn = question[q].attn /\ it.items = question[q].items
    BY <1>4, <1>8, <1>9, <1>10, <2>1, PlannedShape
  <2>3. question' = [question EXCEPT ![q] = it]
    BY <1>4, <1>10 DEF Planned, ClientTypes
  <2> QED
    BY <2>2, <2>3
<1>12. SaysTruly(q, it)
  BY <1>5, <1>8, <1>11 DEF SaysTruly
<1>13. w \in ApplierWork /\ w.q = q /\ w.pc \in {"next", "proof"}
  <2>1. question[q].resolved \cup question[q].deferred \subseteq Items
    BY <1>5 DEF StoredQuestion
  <2> QED
    BY <1>3, <1>7, <2>1 DEF ApplierWork, ApplierSteps
<1>14. OnlyMoves(p) /\ proc'[p] = w
  BY <1>4, <1>13, CommandBecomes DEF Work
<1>15. Rewrites(q, it)
  BY <1>11 DEF Rewrites
<1>16. Asked' = Asked /\ Shown(q)'
  <2>0. ClientTypes /\ q \in Asked
    BY <1>4
  <2>1. Asked' = Asked
    BY <1>15, <2>0, OneQuestion
  <2>2. Shown(q)'
    BY <1>4, <1>5 DEF route, Shown
  <2> QED
    BY <2>1, <2>2
<1>17. RoleOK(p)' /\ CommandOK(p)'
  <2>1. IsApplier(p)' /\ ~IsDispatcher(p)' /\ ~IsCanceller(p)' /\ proc'[p].pc \notin {"complete", "delivered"}
    BY <1>13, <1>14 DEF IsApplier, IsDispatcher, IsCanceller, ApplierSteps, DispatcherSteps, CancellerSteps
  <2>2. proc'[p].q = q
    BY <1>13, <1>14
  <2>3. CommandOK(p)' = /\ IsDispatcher(p)' \/ IsCanceller(p)' \/ IsApplier(p)' => q \in Asked'
                        /\ proc'[p].pc \in {"complete", "delivered"} \/ IsApplier(p)' => Shown(q)'
                        /\ proc'[p].pc = "delivered" => Ended(q)'
    BY <2>2 DEF CommandOK
  <2> QED
    BY <1>4, <1>16, <2>1, <2>3 DEF RoleOK
<1>18. CommandsMove
  <2>1. ~IsPreparer(p)'
    BY <1>13, <1>14 DEF IsPreparer
  <2> QED
    BY <1>4, <1>14, <1>17, <2>1, GoesMoves
<1>19. AgendaTypes' /\ ActionsGrow /\ RouteStep(q)
  BY <1>4, DeliveryEnds
<1>20. SaysTruly(q, it)'
  <2>1. Grows
    BY <1>4, <1>16, <1>19, GrowsBy
  <2> QED
    BY <1>11, <1>12, <2>1, TruthKept
<1>21. ClientInv' /\ Steady
  <2>1. it.items = question[q].items
    BY <1>11
  <2> QED
    BY <1>4, <1>15, <1>18, <1>19, <1>20, <2>1, SectionInv
<1> QED
  BY <1>4, <1>13, <1>14, <1>21

(* A question is opened again; it has been shown.                           *)
LEMMA ReopenedShape ==
  ASSUME ClientInv, NEW q \in Asked, Shown(q)
  PROVE  \E it \in StoredQuestion :
           /\ SaysTruly(q, it) /\ Reopened(q) = [question EXCEPT ![q] = it]
           /\ it.items = question[q].items /\ it = Planned(q, NoActions, Nothing, "awaiting_reply")
<1>1. q \in Questions /\ SaysTruly(q, question[q]) /\ question \in [Questions -> StoredQuestion \cup {Nothing}]
  BY AskedQuestion DEF ClientInv, ClientTypes
<1>2. PICK it : it = Planned(q, NoActions, Nothing, "awaiting_reply")
  OBVIOUS
<1>3. "awaiting_reply" \in Open \cup Closed /\ Nothing \in Submissions \cup {Nothing}
  BY DEF Open
<1>4. /\ it \in StoredQuestion /\ it.pending = NoActions /\ it.outcomes = question[q].outcomes
      /\ it.attn = question[q].attn /\ it.items = question[q].items
  <2>1. NoActions \in Receipts
    BY NothingPlanned
  <2> QED
    BY <1>2, <1>3, <2>1, PlannedShape
<1>5. SaysTruly(q, it)
  BY <1>1, <1>4, NothingPlanned DEF SaysTruly
<1>6. Reopened(q) = [question EXCEPT ![q] = it]
  BY <1>1, <1>2 DEF Reopened, Planned
<1> QED
  BY <1>2, <1>4, <1>5, <1>6

LEMMA ApplyProofInv ==
  ASSUME ClientInv, NEW p \in Procs, NEW heard \in BOOLEAN, ApplyProof(p, heard)
  PROVE  ClientInv' /\ Steady /\ UNCHANGED <<agenda, actions, changed, route>>
<1>0. PICK q : q = proc[p].q
  OBVIOUS
<1>1. IsApplier(p) /\ UNCHANGED <<agenda, actions, changed, route>> /\ "next" \in ApplierSteps
  BY DEF ApplyProof, IsApplier, ApplierSteps
<1>2. q \in Asked /\ Shown(q)
  BY <1>0, <1>1, ApplierAtWork
<1>3. Continues(p)
  <2>1. Goes(p, "next") \/ Ends(p)
    BY DEF ApplyProof
  <2> QED
    BY <1>1, <2>1, ApplierGoesOn DEF Continues
<1>4. AgendaTypes' /\ ActionsGrow
  BY <1>1, ApplierWait
<1>5. CASE question' = question
  BY <1>1, <1>3, <1>4, <1>5, ApplierLooksInv
<1>6. CASE question' = Reopened(q)
  <2>1. PICK it \in StoredQuestion : /\ SaysTruly(q, it) /\ it.items = question[q].items
                                     /\ Reopened(q) = [question EXCEPT ![q] = it]
    BY <1>2, ReopenedShape
  <2>2. question' = [question EXCEPT ![q] = it]
    BY <1>6, <2>1
  <2> QED
    BY <1>0, <1>1, <1>3, <1>4, <2>1, <2>2, ApplierSectionInv
<1>7. question' = question \/ question' = Reopened(q)
  BY <1>0 DEF ApplyProof
<1> QED
  BY <1>1, <1>5, <1>6, <1>7

LEMMA ApplyNextInv ==
  ASSUME ClientInv, NEW p \in Procs, ApplyNext(p)
  PROVE  ClientInv' /\ Steady /\ UNCHANGED <<question, agenda, actions, changed, route>>
<1>1. /\ IsApplier(p) /\ UNCHANGED <<question, agenda, actions, changed, route>>
      /\ {"finish", "read", "post"} \subseteq ApplierSteps
  BY DEF ApplyNext, IsApplier, ApplierSteps
<1>2. \/ Ends(p) \/ Goes(p, "finish") \/ Goes(p, "read") \/ Goes(p, "post")
      \/ proc' = [proc EXCEPT ![p].left = @ \ {Min(proc[p].left)}]
  BY DEF ApplyNext
<1>3. Continues(p)
  <2>1. CASE Ends(p)
    BY <2>1 DEF Continues
  <2>2. CASE Goes(p, "finish") \/ Goes(p, "read") \/ Goes(p, "post")
    BY <1>1, <2>2, ApplierGoesOn
  <2>3. CASE proc' = [proc EXCEPT ![p].left = @ \ {Min(proc[p].left)}]
    BY <1>1, <2>3, LeftShrinks
  <2> QED
    BY <1>2, <2>1, <2>2, <2>3
<1>4. AgendaTypes' /\ ActionsGrow /\ question' = question
  BY <1>1, ApplierWait
<1> QED
  BY <1>1, <1>3, <1>4, ApplierLooksInv

(* The backend's action is another's only when there was none.              *)
LEMMA ApplyPostInv ==
  ASSUME ClientInv, NEW p \in Procs, NEW heard \in BOOLEAN, ApplyPost(p, heard)
  PROVE  ClientInv' /\ Steady /\ ActionsGrow /\ UNCHANGED <<question, agenda, changed, route>>
<1>0. PICK q : q = proc[p].q
  OBVIOUS
<1>1. /\ IsApplier(p) /\ UNCHANGED <<question, agenda, changed, route>> /\ "receipt" \in ApplierSteps
      /\ ClientTypes
  BY DEF ApplyPost, IsApplier, ApplierSteps, ClientInv
<1>2. q \in Questions /\ proc[p].s \in Submissions /\ proc[p].s # Nothing
  BY <1>0, <1>1, ApplierAtWork
<1>3. PICK i : i = Min(proc[p].left)
  OBVIOUS
<1>4. actions' = [actions EXCEPT ![q][i] = proc[p].s]
  BY <1>0, <1>3 DEF ApplyPost
<1>5. ActionsGrow
  BY <1>1, <1>2, <1>4 DEF ActionsGrow, ClientTypes
<1>6. AgendaTypes'
  BY <1>1 DEF agenda, AgendaTypes, ClientTypes
<1>7. Continues(p)
  <2>1. Goes(p, "receipt") \/ Ends(p)
    BY DEF ApplyPost
  <2> QED
    BY <1>1, <2>1, ApplierGoesOn DEF Continues
<1>8. UNCHANGED route /\ question' = question
  BY <1>1
<1>9. ClientInv' /\ Steady
  BY <1>1, <1>5, <1>6, <1>7, <1>8, ApplierLooksInv
<1> QED
  BY <1>1, <1>5, <1>9

(* A state of the question that says it has been shown, or that it ended.   *)
WithState(q, state) == [question[q] EXCEPT !.state = state]

LEMMA StateShape ==
  ASSUME ClientInv, NEW q \in Asked, NEW state \in Open \cup Closed, Shown(q),
         NEW it, it = WithState(q, state)
  PROVE  /\ it \in StoredQuestion /\ SaysTruly(q, it) /\ it.state = state
         /\ it.items = question[q].items /\ it.pending = question[q].pending
         /\ it.outcomes = question[q].outcomes /\ it.attn = question[q].attn /\ it.blind = question[q].blind
<1>1. question[q] \in StoredQuestion /\ SaysTruly(q, question[q])
  BY AskedQuestion
<1>2. /\ it \in StoredQuestion /\ it.state = state
      /\ it.items = question[q].items /\ it.pending = question[q].pending
      /\ it.outcomes = question[q].outcomes /\ it.attn = question[q].attn /\ it.blind = question[q].blind
  BY <1>1 DEF WithState, StoredQuestion
<1>3. SaysTruly(q, it)
  BY <1>1, <1>2 DEF SaysTruly
<1> QED
  BY <1>2, <1>3

LEMMA ApplyConflictInv ==
  ASSUME ClientInv, NEW p \in Procs, ApplyConflict(p)
  PROVE  ClientInv' /\ Steady /\ UNCHANGED <<agenda, actions, changed, route>>
<1>0. PICK q : q = proc[p].q
  OBVIOUS
<1>1. IsApplier(p) /\ UNCHANGED <<agenda, actions, changed, route>> /\ Ends(p)
  BY DEF ApplyConflict, IsApplier, ApplierSteps
<1>2. q \in Asked /\ Shown(q) /\ q \in Questions
  BY <1>0, <1>1, ApplierAtWork
<1>3. Continues(p)
  BY <1>1 DEF Continues
<1>4. AgendaTypes' /\ ActionsGrow
  BY <1>1, ApplierWait
<1>5. CASE question' = question
  BY <1>1, <1>3, <1>4, <1>5, ApplierLooksInv
<1>6. CASE question' = [question EXCEPT ![q].state = "stale"]
  <2>1. PICK it : it = WithState(q, "stale")
    OBVIOUS
  <2>2. "stale" \in Open \cup Closed
    BY DEF Closed
  <2>3. it \in StoredQuestion /\ SaysTruly(q, it) /\ it.items = question[q].items
    BY <1>2, <2>1, <2>2, StateShape
  <2>4. question' = [question EXCEPT ![q] = it]
    BY <1>2, <1>6, <2>1 DEF WithState, ClientInv, ClientTypes
  <2> QED
    BY <1>0, <1>1, <1>3, <1>4, <2>3, <2>4, ApplierSectionInv
<1>7. question' = question \/ question' = [question EXCEPT ![q].state = "stale"]
  BY <1>0 DEF ApplyConflict
<1> QED
  BY <1>1, <1>5, <1>6, <1>7

LEMMA ApplyInvalidInv ==
  ASSUME ClientInv, NEW p \in Procs, ApplyInvalid(p)
  PROVE  ClientInv' /\ Steady /\ UNCHANGED <<agenda, actions, changed, route>>
<1>0. PICK q : q = proc[p].q
  OBVIOUS
<1>1. IsApplier(p) /\ UNCHANGED <<agenda, actions, changed, route>> /\ Ends(p)
  BY DEF ApplyInvalid, IsApplier, ApplierSteps
<1>2. q \in Asked /\ Shown(q)
  BY <1>0, <1>1, ApplierAtWork
<1>3. Continues(p)
  BY <1>1 DEF Continues
<1>4. AgendaTypes' /\ ActionsGrow
  BY <1>1, ApplierWait
<1>5. CASE question' = question
  BY <1>1, <1>3, <1>4, <1>5, ApplierLooksInv
<1>6. CASE question' = Reopened(q)
  <2>1. PICK it \in StoredQuestion : /\ SaysTruly(q, it) /\ it.items = question[q].items
                                     /\ Reopened(q) = [question EXCEPT ![q] = it]
    BY <1>2, ReopenedShape
  <2>2. question' = [question EXCEPT ![q] = it]
    BY <1>6, <2>1
  <2> QED
    BY <1>0, <1>1, <1>3, <1>4, <2>1, <2>2, ApplierSectionInv
<1>7. question' = question \/ question' = Reopened(q)
  BY <1>0 DEF ApplyInvalid
<1> QED
  BY <1>1, <1>5, <1>6, <1>7

(* A receipt goes on; a verified one has its action at the backend.         *)
WithReceipt(q, i, receipt, state) ==
  [question[q] EXCEPT !.pending = [question[q].pending EXCEPT ![i] = receipt], !.state = state]

LEMMA ReceiptShape ==
  ASSUME ClientInv, NEW q \in Asked, Shown(q), NEW i \in DOMAIN question[q].pending,
         NEW receipt \in {"planned", "committed", "verified"}, NEW state \in Open \cup Closed,
         receipt = "verified" => actions[q][i] # Nothing,
         NEW it, it = WithReceipt(q, i, receipt, state)
  PROVE  /\ it \in StoredQuestion /\ SaysTruly(q, it) /\ it.state = state
         /\ it.items = question[q].items /\ it.outcomes = question[q].outcomes
         /\ it.attn = question[q].attn /\ it.blind = question[q].blind
         /\ DOMAIN it.pending = DOMAIN question[q].pending /\ it.pending[i] = receipt
         /\ \A j \in DOMAIN it.pending : j # i => it.pending[j] = question[q].pending[j]
<1>1. question[q] \in StoredQuestion /\ SaysTruly(q, question[q])
  BY AskedQuestion
<1>2. PICK old : old = question[q].pending
  OBVIOUS
<1>3. PICK new : new = [old EXCEPT ![i] = receipt]
  OBVIOUS
<1>4. old \in Receipts /\ i \in DOMAIN old
  BY <1>1, <1>2 DEF StoredQuestion
<1>5. /\ new \in Receipts /\ DOMAIN new = DOMAIN old /\ new[i] = receipt
      /\ \A j \in DOMAIN old : j # i => new[j] = old[j]
  BY <1>3, <1>4, ReceiptSet
<1>6. it = [question[q] EXCEPT !.pending = new, !.state = state]
  BY <1>2, <1>3 DEF WithReceipt
<1>7. /\ it \in StoredQuestion /\ it.state = state /\ it.pending = new
      /\ it.items = question[q].items /\ it.outcomes = question[q].outcomes
      /\ it.attn = question[q].attn /\ it.blind = question[q].blind
  BY <1>1, <1>5, <1>6 DEF StoredQuestion
<1>8. \A j \in DOMAIN new : new[j] = "verified" => actions[q][j] # Nothing
  BY <1>1, <1>2, <1>5 DEF SaysTruly
<1>9. SaysTruly(q, it)
  BY <1>1, <1>7, <1>8 DEF SaysTruly
<1> QED
  BY <1>2, <1>5, <1>7, <1>9

LEMMA ApplyReceiptInv ==
  ASSUME ClientInv, NEW p \in Procs, ApplyReceipt(p)
  PROVE  ClientInv' /\ Steady /\ UNCHANGED <<agenda, actions, changed, route>>
<1>0. PICK q : q = proc[p].q
  OBVIOUS
<1>1. PICK i : i = Min(proc[p].left)
  OBVIOUS
<1>2. IsApplier(p) /\ UNCHANGED <<agenda, actions, changed, route>> /\ "read" \in ApplierSteps
  BY DEF ApplyReceipt, IsApplier, ApplierSteps
<1>3. q \in Asked /\ q \in Questions /\ Shown(q) /\ question[q] \in StoredQuestion
  BY <1>0, <1>2, ApplierAtWork
<1>4. AgendaTypes' /\ ActionsGrow
  BY <1>2, ApplierWait
<1>5. Continues(p)
  <2>1. Goes(p, "read") \/ Ends(p)
    BY DEF ApplyReceipt
  <2> QED
    BY <1>2, <2>1, ApplierGoesOn DEF Continues
<1>6. CASE question' = question
  BY <1>2, <1>4, <1>5, <1>6, ApplierLooksInv
<1>7. CASE /\ i \in DOMAIN question[q].pending
           /\ question' = [question EXCEPT ![q].pending[i] = "committed", ![q].state = "committed_unverified"]
  <2>1. PICK it : it = WithReceipt(q, i, "committed", "committed_unverified")
    OBVIOUS
  <2>2. "committed_unverified" \in Open \cup Closed
    BY DEF Open
  <2>3. it \in StoredQuestion /\ SaysTruly(q, it) /\ it.items = question[q].items
    BY <1>3, <1>7, <2>1, <2>2, ReceiptShape
  <2>4. question' = [question EXCEPT ![q] = it]
    BY <1>3, <1>7, <2>1 DEF WithReceipt, ClientInv, ClientTypes, StoredQuestion
  <2> QED
    BY <1>0, <1>2, <1>4, <1>5, <2>3, <2>4, ApplierSectionInv
<1>8. \/ question' = question
      \/ /\ i \in DOMAIN question[q].pending
         /\ question' = [question EXCEPT ![q].pending[i] = "committed", ![q].state = "committed_unverified"]
  BY <1>0, <1>1 DEF ApplyReceipt
<1> QED
  BY <1>2, <1>6, <1>7, <1>8

LEMMA ApplyReadInv ==
  ASSUME ClientInv, NEW p \in Procs, NEW verified \in BOOLEAN, ApplyRead(p, verified)
  PROVE  ClientInv' /\ Steady /\ UNCHANGED <<agenda, actions, changed, route>>
<1>0. PICK q : q = proc[p].q
  OBVIOUS
<1>1. PICK i : i = Min(proc[p].left)
  OBVIOUS
<1>2. IsApplier(p) /\ UNCHANGED <<agenda, actions, changed, route>>
  BY DEF ApplyRead, IsApplier, ApplierSteps
<1>3. q \in Asked /\ q \in Questions /\ Shown(q) /\ question[q] \in StoredQuestion /\ proc[p].s # Nothing
  BY <1>0, <1>2, ApplierAtWork
<1>4. AgendaTypes' /\ ActionsGrow
  BY <1>2, ApplierWait
<1>5. CASE question' = question /\ Ends(p)
  BY <1>2, <1>4, <1>5, ApplierLooksInv DEF Continues
<1>6. CASE question' = [question EXCEPT ![q].state = "committed_unverified"] /\ Ends(p)
  <2>1. PICK it : it = WithState(q, "committed_unverified")
    OBVIOUS
  <2>2. "committed_unverified" \in Open \cup Closed
    BY DEF Open
  <2>3. it \in StoredQuestion /\ SaysTruly(q, it) /\ it.items = question[q].items
    BY <1>3, <2>1, <2>2, StateShape
  <2>4. question' = [question EXCEPT ![q] = it]
    BY <1>3, <1>6, <2>1 DEF WithState, ClientInv, ClientTypes
  <2> QED
    BY <1>0, <1>2, <1>4, <1>6, <2>3, <2>4, ApplierSectionInv DEF Continues
<1>7. CASE /\ i \in DOMAIN question[q].pending /\ ReadsBack(p)
           /\ question' = [question EXCEPT ![q].pending[i] = "verified"]
           /\ proc' = [proc EXCEPT ![p].pc = "next", ![p].left = @ \ {i}]
  <2>1. PICK state : state = question[q].state
    OBVIOUS
  <2>2. PICK it : it = WithReceipt(q, i, "verified", state)
    OBVIOUS
  <2>3. state \in Open \cup Closed /\ actions[q][i] # Nothing
    BY <1>0, <1>1, <1>3, <1>7, <2>1 DEF StoredQuestion, ReadsBack
  <2>4. it \in StoredQuestion /\ SaysTruly(q, it) /\ it.items = question[q].items
    BY <1>3, <1>7, <2>2, <2>3, ReceiptShape
  <2>5. question' = [question EXCEPT ![q] = it]
    <3>1. it = [question[q] EXCEPT !.pending = [question[q].pending EXCEPT ![i] = "verified"]]
      BY <1>3, <2>1, <2>2 DEF WithReceipt, StoredQuestion
    <3> QED
      BY <1>3, <1>7, <3>1 DEF ClientInv, ClientTypes, StoredQuestion
  <2>6. Continues(p)
    BY <1>2, <1>7, LeftShrinks
  <2> QED
    BY <1>0, <1>2, <1>4, <2>4, <2>5, <2>6, ApplierSectionInv
<1>8. \/ question' = question /\ Ends(p)
      \/ question' = [question EXCEPT ![q].state = "committed_unverified"] /\ Ends(p)
      \/ /\ i \in DOMAIN question[q].pending /\ ReadsBack(p)
         /\ question' = [question EXCEPT ![q].pending[i] = "verified"]
         /\ proc' = [proc EXCEPT ![p].pc = "next", ![p].left = @ \ {i}]
  BY <1>0, <1>1 DEF ApplyRead
<1> QED
  BY <1>2, <1>5, <1>6, <1>7, <1>8

LEMMA ApplyResultInv ==
  ASSUME ClientInv, NEW p \in Procs, ApplyResult(p)
  PROVE  ClientInv' /\ Steady /\ UNCHANGED <<agenda, actions, changed, route>>
<1>0. PICK q : q = proc[p].q
  OBVIOUS
<1>2. IsApplier(p) /\ UNCHANGED <<agenda, actions, changed, route>> /\ Ends(p)
  BY DEF ApplyResult, IsApplier, ApplierSteps
<1>3. /\ q \in Asked /\ q \in Questions /\ question[q] \in StoredQuestion /\ SaysTruly(q, question[q])
      /\ proc[p].s \in Submissions
  BY <1>0, <1>2, ApplierAtWork
<1>4. AgendaTypes' /\ ActionsGrow
  BY <1>2, ApplierWait
<1>5. Continues(p)
  BY <1>2 DEF Continues
<1>6. CASE question' = question
  BY <1>2, <1>4, <1>5, <1>6, ApplierLooksInv
<1>7. CASE question' = [question EXCEPT ![q].last = proc[p].s, ![q].plan = Nothing]
  <2>1. PICK it : it = [question[q] EXCEPT !.last = proc[p].s, !.plan = Nothing]
    OBVIOUS
  <2>2. /\ it \in StoredQuestion /\ it.state = question[q].state /\ it.pending = question[q].pending
        /\ it.outcomes = question[q].outcomes /\ it.attn = question[q].attn /\ it.items = question[q].items
    BY <1>3, <2>1 DEF StoredQuestion
  <2>3. SaysTruly(q, it)
    BY <1>3, <2>2 DEF SaysTruly
  <2>4. question' = [question EXCEPT ![q] = it]
    BY <1>3, <1>7, <2>1 DEF ClientInv, ClientTypes
  <2> QED
    BY <1>0, <1>2, <1>4, <1>5, <2>2, <2>3, <2>4, ApplierSectionInv
<1>8. \/ question' = question
      \/ question' = [question EXCEPT ![q].last = proc[p].s, ![q].plan = Nothing]
  BY <1>0 DEF ApplyResult
<1> QED
  BY <1>2, <1>6, <1>7, <1>8

(* What an applied submission leaves of its question.                       *)
Finished(q, resolved, deferred, outcomes, state) ==
  [question[q] EXCEPT !.resolved = resolved, !.deferred = deferred, !.pending = NoActions,
                      !.outcomes = outcomes, !.state = state]

Verified(q) == {i \in DOMAIN question[q].pending : question[q].pending[i] = "verified"}

LEMMA FinishedShape ==
  ASSUME ClientInv, NEW q \in Asked, Shown(q), NEW resolved \in SUBSET Items, NEW deferred \in SUBSET Items,
         NEW outcomes, outcomes = question[q].outcomes \cup Verified(q), NEW state \in Open \cup Closed,
         NEW it, it = Finished(q, resolved, deferred, outcomes, state)
  PROVE  /\ it \in StoredQuestion /\ SaysTruly(q, it) /\ it.state = state /\ it.items = question[q].items
         /\ it.outcomes = outcomes /\ it.attn = question[q].attn /\ it.blind = question[q].blind
         /\ it.pending = NoActions
<1>1. question[q] \in StoredQuestion /\ SaysTruly(q, question[q])
  BY AskedQuestion
<1>2. DOMAIN question[q].pending \subseteq Items /\ question[q].outcomes \subseteq Items
  BY <1>1 DEF StoredQuestion, Receipts
<1>3. outcomes \subseteq Items /\ \A i \in outcomes : actions[q][i] # Nothing
  BY <1>1, <1>2 DEF Verified, SaysTruly
<1>4. NoActions \in Receipts /\ DOMAIN NoActions = {}
  BY NothingPlanned
<1>5. /\ it \in StoredQuestion /\ it.state = state /\ it.items = question[q].items
      /\ it.pending = NoActions
      /\ it.outcomes = outcomes /\ it.attn = question[q].attn /\ it.blind = question[q].blind
  BY <1>1, <1>3, <1>4 DEF Finished, StoredQuestion
<1>6. SaysTruly(q, it)
  BY <1>1, <1>3, <1>4, <1>5 DEF SaysTruly
<1> QED
  BY <1>5, <1>6

LEMMA DecidesItems ==
  ASSUME ClientInv, NEW p \in Procs, IsApplier(p), NEW options
  PROVE  Decides(p, options) \subseteq Items
<1>1. proc[p].s \in Submissions
  BY ApplierAtWork
<1>2. DOMAIN Answers[proc[p].s] \subseteq Items
  BY <1>1, ClientAssumption
<1> QED
  BY <1>2 DEF Decides

LEMMA ApplyFinishInv ==
  ASSUME ClientInv, NEW p \in Procs, ApplyFinish(p)
  PROVE  /\ ClientInv' /\ Steady /\ ActionsGrow /\ UNCHANGED <<current, actions, changed, route>> /\ Continues(p)
         /\ terminal' = terminal \cup Decides(p, {"act", "keep"})
         /\ \/ UNCHANGED <<audits, cursor>>
            \/ ReviewRuns(terminal', Decides(p, {"act", "keep"}))
         /\ \E it \in StoredQuestion :
              Rewrites(proc[p].q, it) /\ it.items = question[proc[p].q].items
<1>0. PICK q : q = proc[p].q
  OBVIOUS
<1>1. PICK now : now = Decides(p, {"act", "keep"})
  OBVIOUS
<1>2. PICK later : later = Decides(p, {"unsure"})
  OBVIOUS
<1>3. /\ IsApplier(p) /\ UNCHANGED <<current, actions, changed, route>> /\ Goes(p, "result")
      /\ "result" \in ApplierSteps
      /\ terminal' = terminal \cup now /\ suppressed' = suppressed \cup later
      /\ ReviewRuns(terminal', now) \/ UNCHANGED <<audits, cursor>>
  BY <1>1, <1>2 DEF ApplyFinish, IsApplier, ApplierSteps
<1>4. now \subseteq Items /\ later \subseteq Items
  BY <1>1, <1>2, <1>3, DecidesItems
<1>5. q \in Asked /\ q \in Questions /\ Shown(q) /\ question[q] \in StoredQuestion
  BY <1>0, <1>3, ApplierAtWork
<1>6. PICK resolved : resolved = question[q].resolved \cup now
  OBVIOUS
<1>7. PICK deferred : deferred = question[q].deferred \cup later
  OBVIOUS
<1>8. PICK outcomes : outcomes = question[q].outcomes \cup Verified(q)
  OBVIOUS
<1>9. PICK state : state = IF question[q].items \ (resolved \cup deferred) # {} THEN "awaiting_reply"
                           ELSE IF deferred # {} THEN "deferred" ELSE "verified_applied"
  OBVIOUS
<1>10. PICK it : it = Finished(q, resolved, deferred, outcomes, state)
  OBVIOUS
<1>11. resolved \in SUBSET Items /\ deferred \in SUBSET Items /\ state \in Open \cup Closed
  BY <1>4, <1>5, <1>6, <1>7, <1>9 DEF StoredQuestion, Open, Closed
<1>12. it \in StoredQuestion /\ SaysTruly(q, it) /\ it.items = question[q].items
  BY <1>5, <1>8, <1>10, <1>11, FinishedShape
<1>13. question' = [question EXCEPT ![q] = it]
  <2>1. question' = [question EXCEPT ![q] =
           [question[q] EXCEPT !.resolved = resolved, !.deferred = deferred, !.pending = NoActions,
              !.outcomes = @ \cup Verified(q), !.state = state]]
    BY <1>0, <1>1, <1>2, <1>6, <1>7, <1>9, Zenon DEF ApplyFinish, Verified
  <2>2. it = [question[q] EXCEPT !.resolved = resolved, !.deferred = deferred, !.pending = NoActions,
                !.outcomes = @ \cup Verified(q), !.state = state]
    BY <1>5, <1>8, <1>10 DEF Finished, StoredQuestion
  <2> QED
    BY <2>1, <2>2
<1>14. ClientTypes
  BY DEF ClientInv
<1>15. AgendaTypes' /\ ActionsGrow
  <2>1. audits' \in [Runs -> Audit \cup {Nothing}] /\ cursor' \in {0} \cup Runs
    BY <1>3, <1>14, ReviewTypes DEF ClientTypes, AgendaTypes
  <2> QED
    BY <1>3, <1>4, <1>14, <2>1 DEF ClientTypes, AgendaTypes, ActionsGrow
<1>16. Continues(p)
  BY <1>3, ApplierGoesOn
<1>17. Rewrites(q, it)
  BY <1>12, <1>13 DEF Rewrites
<1>18. ClientInv' /\ Steady
  BY <1>0, <1>3, <1>12, <1>13, <1>15, <1>16, ApplierSectionInv
<1> QED
  BY <1>0, <1>1, <1>3, <1>12, <1>15, <1>16, <1>17, <1>18

-----------------------------------------------------------------------------
LEMMA ClientInitInv == ClientInit => ClientInv
<1> SUFFICES ASSUME ClientInit PROVE ClientInv
  OBVIOUS
<1>1. Asked = {}
  BY DEF ClientInit, Asked
<1>2. Numbered
  BY <1>1, FS_EmptySet DEF Numbered
<1>3. \A p \in Procs : proc[p].pc = "idle"
  BY DEF ClientInit, AtRest
<1>4. ClientTypes
  BY <1>3 DEF ClientInit, RouteInit, ClientTypes, AgendaTypes, RoleOK, Work, Intents, Convs,
    IsDispatcher, IsApplier, DispatcherSteps, ApplierSteps
<1>5. \A p \in Procs : CommandOK(p)
  BY <1>3 DEF CommandOK, IsDispatcher, IsCanceller, IsApplier, DispatcherSteps, CancellerSteps, ApplierSteps
<1> QED
  BY <1>1, <1>2, <1>4, <1>5 DEF ClientInv

LEMMA ClientSteps ==
  ASSUME ClientInv, ClientNext
  PROVE  ClientInv'
<1> USE DEF Procs
<1>1. CASE \E p \in Preparers : Prepare(p)
  BY <1>1, PrepareReadInv, PrepareStoreInv DEF Prepare
<1>2. CASE \E p \in Dispatchers : Dispatch(p)
  <2>1. PICK p \in Dispatchers : Dispatch(p)
    BY <1>2
  <2> QED
    BY <2>1, DispatchStartInv, RecoverWithdrawsInv, PlainCallsInv, DispatchDeliverInv, DispatchCompleteInv,
      WithdrawStoreInv, DispatchClaimInv, DispatchSendingInv, DispatchReceiptInv, DispatchDeliveredInv
      DEF Dispatch
<1>3. CASE \E p \in Cancellers : Cancel(p)
  BY <1>3, CancelStartInv, PlainCallsInv, CancelReleaseInv, CancelStoreInv DEF Cancel
<1>4. CASE \E p \in Appliers : Answer(p)
  <2>1. PICK p \in Appliers : Answer(p)
    BY <1>4
  <2> QED
    BY <2>1, ApplyPlanInv, ApplyProofInv, ApplyPostInv, ApplyReadInv, ApplyNextInv, ApplyConflictInv,
      ApplyInvalidInv, ApplyReceiptInv, ApplyFinishInv, ApplyResultInv DEF Answer
<1>5. CASE \E q \in Questions : Manage(q)
  BY <1>5, StageInv, ReissueInv, SubmitAttentionInv, CompleteAttentionInv DEF Manage
<1>6. CASE \E i \in Items : RecordsChange(i) \/ CooldownEnds(i)
  BY <1>6, RecordsChangeInv, CooldownEndsInv
<1>7. CASE \E p \in Procs : Crash(p)
  BY <1>7, CrashInv
<1>8. CASE Others
  BY <1>8, OthersInv
<1> QED
  BY <1>1, <1>2, <1>3, <1>4, <1>5, <1>6, <1>7, <1>8 DEF ClientNext

LEMMA ClientRests == ASSUME ClientInv, UNCHANGED clientVars PROVE ClientInv'
<1>1. ClientTypes /\ UNCHANGED <<question, agenda, actions, changed, route, proc>>
  BY DEF ClientInv, clientVars
<1>2. AgendaTypes' /\ ActionsGrow
  BY <1>1, AgendaKept
<1>3. CommandsMove
  BY <1>1, NoneMoves
<1> QED
  BY <1>1, <1>2, <1>3, AgendaInv

(* Whatever the commands that run at the same time do, and wherever one of  *)
(* them stops: the file, the agenda and the route keep their types, what a  *)
(* running command relies on is so, and what the file says is true.         *)
THEOREM ReconciliationClientInvariant == ClientSpec => []ClientInv
<1>1. ClientInv /\ [ClientNext]_clientVars => ClientInv'
  BY ClientSteps, ClientRests
<1> QED
  BY ClientInitInv, <1>1, PTL DEF ClientSpec

(* The canonical file claims of a question only what happened: an item it   *)
(* calls applied has its action, a question that waited for a reply was     *)
(* shown, and one stored as delivered is delivered at the broker.           *)
THEOREM ReconciliationFileTruthful == ClientSpec => []FileIsTruthful
<1>1. ClientInv => FileIsTruthful
  BY DEF ClientInv, SaysTruly, FileIsTruthful, Ended
<1> QED
  BY <1>1, ReconciliationClientInvariant, PTL

-----------------------------------------------------------------------------
(* The cursor of the runs. While the anomalies are never more than a       *)
(* preparation lists, a run holds each of its items that nothing has        *)
(* settled, the runs are known from the first on, and a reviewed run is     *)
(* settled.                                                                 *)
Uncut == IsFiniteSet(Items) /\ ItemLimit \in Nat /\ Cardinality(Items) <= ItemLimit

OfRun(r) == {i \in Items : RunOf[i] = r}
Settled == terminal \cup Gone \cup UNION {question[q].items : q \in Asked}

AuditOK(r) ==
  audits[r] # Nothing =>
    /\ \A s \in Runs : s < r => audits[s] # Nothing
    /\ OfRun(r) \subseteq audits[r].items \cup Settled
    /\ audits[r].reviewed => OfRun(r) \subseteq Settled

PreparerOK(p) ==
  IsPreparer(p) =>
    \A r \in Runs : r \in proc[p].runs =>
      /\ OfRun(r) \subseteq proc[p].items \cup Gone
      /\ \A s \in Runs : s < r => s \in proc[p].runs \/ audits[s] # Nothing

Passed(r) == audits[r] # Nothing /\ OfRun(r) \subseteq Settled

CursorInv ==
  /\ \A r \in Runs : AuditOK(r)
  /\ \A p \in Procs : PreparerOK(p)
  /\ \A r \in Runs : r <= cursor => Passed(r)

LEMMA AllFound ==
  ASSUME Uncut, NEW runs
  PROVE  BuildAnomalies(runs) = FoundIn(runs)
<1>1. ASSUME NEW i \in FoundIn(runs) PROVE Cardinality({j \in FoundIn(runs) : j < i}) < ItemLimit
  <2>1. PICK before : before = {j \in FoundIn(runs) : j < i}
    OBVIOUS
  <2>2. before \subseteq Items /\ i \in Items /\ i \notin before
    <3>1. i \in Nat /\ FoundIn(runs) \subseteq Items /\ i \in Items
      BY <1>1, ClientAssumption DEF FoundIn
    <3>2. ~(i < i)
      BY <3>1
    <3> QED
      BY <2>1, <3>1, <3>2
  <2>3. /\ IsFiniteSet(before) /\ Cardinality(before) <= Cardinality(Items)
        /\ (Cardinality(before) = Cardinality(Items) => before = Items)
    BY <2>2, FS_Subset DEF Uncut
  <2>4. Cardinality(before) \in Nat /\ Cardinality(Items) \in Nat
    BY <2>3, FS_CardinalityType DEF Uncut
  <2>5. Cardinality(before) # Cardinality(Items)
    BY <2>2, <2>3
  <2>6. Cardinality(before) < ItemLimit
    BY <2>3, <2>4, <2>5 DEF Uncut
  <2> QED
    BY <2>1, <2>6
<1> QED
  BY <1>1 DEF BuildAnomalies

(* What is settled stays so.                                                *)
Settles == /\ terminal \subseteq terminal' /\ changed \subseteq changed'
           /\ ActionsGrow /\ Steady

LEMMA SettledGrows ==
  ASSUME ClientTypes, \A q \in Asked : q \in Asked' /\ question'[q].items = question[q].items,
         terminal \subseteq terminal', changed \subseteq changed', ActionsGrow
  PROVE  Gone \subseteq Gone' /\ Settled \subseteq Settled'
<1>1. Gone \subseteq Gone'
  BY DEF Gone, Applied, ActionsGrow
<1>2. ASSUME NEW i \in UNION {question[q].items : q \in Asked}
      PROVE  i \in UNION {question[q].items : q \in Asked}'
  <2>1. PICK q \in Asked : i \in question[q].items
    BY <1>2
  <2>2. q \in Asked' /\ i \in question'[q].items
    BY <2>1
  <2> QED
    BY <2>2
<1> QED
  BY <1>1, <1>2 DEF Settled

LEMMA PreparersKept ==
  ASSUME NoneReads, Gone \subseteq Gone', \A p \in Procs : PreparerOK(p),
         \A r \in Runs : audits[r] # Nothing => audits'[r] # Nothing
  PROVE  \A p \in Procs : PreparerOK(p)'
<1> SUFFICES ASSUME NEW p \in Procs PROVE PreparerOK(p)'
  OBVIOUS
<1>1. CASE ~IsPreparer(p)'
  BY <1>1 DEF PreparerOK
<1>2. CASE proc'[p] = proc[p]
  BY <1>2 DEF PreparerOK, IsPreparer
<1> QED
  BY <1>1, <1>2 DEF NoneReads

LEMMA CursorKept ==
  ASSUME ClientInv, CursorInv, Settles, UNCHANGED <<audits, cursor>>
  PROVE  CursorInv'
<1>1. Gone \subseteq Gone' /\ Settled \subseteq Settled'
  BY SettledGrows DEF Settles, Steady, ClientInv
<1>2. \A p \in Procs : PreparerOK(p)'
  BY <1>1, PreparersKept DEF Settles, Steady, CursorInv
<1>3. \A r \in Runs : AuditOK(r)'
  BY <1>1 DEF CursorInv, AuditOK
<1>4. \A r \in Runs : r <= cursor' => Passed(r)'
  BY <1>1 DEF CursorInv, Passed
<1> QED
  BY <1>2, <1>3, <1>4 DEF CursorInv

LEMMA CursorAdvances ==
  ASSUME cursor \in {0} \cup Runs, \A r \in Runs : AuditOK(r)', \A r \in Runs : r <= cursor => Passed(r)',
         cursor' = AdvancedCursor(audits', cursor)
  PROVE  \A r \in Runs : r <= cursor' => Passed(r)'
<1>1. PICK to : to = cursor'
  OBVIOUS
<1>2. PICK known : known = audits'
  OBVIOUS
<1>3. /\ to \in {0} \cup Runs /\ cursor <= to
      /\ to = cursor \/ (known[to] # Nothing
                         /\ \A s \in Runs : cursor < s /\ s <= to /\ known[s] # Nothing => known[s].reviewed)
  <2>1. to = AdvancedCursor(known, cursor)
    BY <1>1, <1>2
  <2> QED
    BY <2>1, CursorMoves
<1>4. ASSUME NEW r \in Runs, r <= to PROVE Passed(r)'
  <2>1. CASE r <= cursor
    BY <2>1
  <2>2. CASE ~(r <= cursor)
    <3>1. r \in Nat /\ to \in Nat /\ cursor \in Nat
      BY <1>3, RunsAreNumbers
    <3>2. cursor < r /\ to # cursor /\ to \in Runs
      BY <1>3, <1>4, <2>2, <3>1
    <3>3. known[r] # Nothing
      <4>1. CASE r = to
        BY <1>3, <3>2, <4>1
      <4>2. CASE r # to
        <5>1. r < to
          BY <1>4, <3>1, <4>2
        <5>2. AuditOK(to)'
          BY <3>2
        <5> QED
          BY <1>2, <1>3, <3>2, <5>1, <5>2 DEF AuditOK
      <4> QED
        BY <4>1, <4>2
    <3>4. known[r].reviewed
      BY <1>3, <1>4, <3>2, <3>3
    <3>5. AuditOK(r)'
      OBVIOUS
    <3> QED
      BY <1>2, <3>3, <3>4, <3>5 DEF AuditOK, Passed
  <2> QED
    BY <2>1, <2>2
<1> QED
  BY <1>1, <1>4

(* A review, with selected items that the same step settles.                *)
LEMMA ReviewPasses ==
  ASSUME ClientInv, CursorInv, Settles, NEW selected, ReviewRuns(terminal', selected),
         selected \subseteq Settled'
  PROVE  CursorInv'
<1>1. Gone \subseteq Gone' /\ Settled \subseteq Settled' /\ terminal' \subseteq Settled'
  BY SettledGrows DEF Settles, Steady, ClientInv, Settled
<1>2. audits \in [Runs -> Audit \cup {Nothing}] /\ cursor \in {0} \cup Runs
  BY DEF ClientInv, ClientTypes, AgendaTypes
<1>3. ASSUME NEW r \in Runs
      PROVE  /\ audits'[r] # Nothing <=> audits[r] # Nothing
             /\ audits[r] # Nothing =>
                  /\ audits'[r].items = audits[r].items
                  /\ audits'[r].reviewed => audits[r].reviewed \/ audits[r].items \subseteq terminal' \cup selected
  <2>1. audits'[r] = IF audits[r] # Nothing /\ audits[r].items \subseteq terminal' \cup selected
                       THEN [audits[r] EXCEPT !.reviewed = TRUE] ELSE audits[r]
    BY DEF ReviewRuns
  <2>2. CASE audits[r] # Nothing /\ audits[r].items \subseteq terminal' \cup selected
    <3>1. PICK new : new = [audits[r] EXCEPT !.reviewed = TRUE]
      OBVIOUS
    <3>2. audits[r] \in Audit
      BY <1>2, <2>2
    <3>3. new \in Audit /\ new.items = audits[r].items
      BY <3>1, <3>2 DEF Audit
    <3>4. new # Nothing
      BY <3>3, ClientAssumption
    <3> QED
      BY <2>1, <2>2, <3>1, <3>3, <3>4
  <2>3. CASE ~(audits[r] # Nothing /\ audits[r].items \subseteq terminal' \cup selected)
    BY <2>1, <2>3
  <2> QED
    BY <2>2, <2>3
<1>4. ASSUME NEW r \in Runs PROVE AuditOK(r)'
  <2> SUFFICES ASSUME audits'[r] # Nothing
               PROVE  /\ \A s \in Runs : s < r => audits'[s] # Nothing
                      /\ OfRun(r) \subseteq audits'[r].items \cup Settled'
                      /\ audits'[r].reviewed => OfRun(r) \subseteq Settled'
    BY DEF AuditOK, OfRun
  <2>1. AuditOK(r) /\ audits[r] # Nothing
    BY <1>3 DEF CursorInv
  <2>2. \A s \in Runs : s < r => audits'[s] # Nothing
    BY <1>3, <2>1 DEF AuditOK
  <2>3. OfRun(r) \subseteq audits[r].items \cup Settled'
    BY <1>1, <2>1 DEF AuditOK
  <2>4. ASSUME audits'[r].reviewed PROVE OfRun(r) \subseteq Settled'
    <3>1. CASE audits[r].reviewed
      BY <1>1, <2>1, <3>1 DEF AuditOK
    <3>2. CASE audits[r].items \subseteq terminal' \cup selected
      BY <1>1, <2>3, <3>2
    <3> QED
      BY <1>3, <2>1, <2>4, <3>1, <3>2
  <2> QED
    BY <1>3, <2>1, <2>2, <2>3, <2>4
<1>5. \A p \in Procs : PreparerOK(p)'
  BY <1>1, <1>3, PreparersKept DEF Settles, Steady, CursorInv
<1>6. ASSUME NEW r \in Runs, r <= cursor PROVE Passed(r)'
  <2>1. Passed(r)
    BY <1>6 DEF CursorInv
  <2> QED
    BY <1>1, <1>3, <2>1 DEF Passed, OfRun
<1>7. cursor' = AdvancedCursor(audits', cursor)
  BY DEF ReviewRuns
<1>8. \A r \in Runs : r <= cursor' => Passed(r)'
  BY <1>2, <1>4, <1>6, <1>7, CursorAdvances
<1> QED
  BY <1>4, <1>5, <1>8 DEF CursorInv

LEMMA PrepareReadCursor ==
  ASSUME Uncut, ClientInv, CursorInv, NEW p \in Procs, NEW latest \in Runs \cup {0}, PrepareRead(p, latest)
  PROVE  CursorInv'
<1>1. PICK runs : runs = cursor + 1 .. latest
  OBVIOUS
<1>2. PICK w : w = [pc |-> "store", q |-> Nothing, runs |-> runs, items |-> BuildAnomalies(runs)]
  OBVIOUS
<1>3. Becomes(p, w) /\ UNCHANGED <<question, agenda, actions, changed, route>>
  BY <1>1, <1>2 DEF PrepareRead
<1>4. /\ terminal' = terminal /\ audits' = audits /\ cursor' = cursor /\ changed' = changed
      /\ actions' = actions /\ question' = question
      /\ \A o \in Procs : o # p => proc'[o] = proc[o]
  BY <1>3 DEF agenda, Becomes, ClientInv, ClientTypes
<1>5. proc'[p] = w
  BY <1>3 DEF Becomes, ClientInv, ClientTypes
<1>6. cursor \in Nat /\ Runs \subseteq Nat \ {0} /\ latest \in Nat /\ cursor \in {0} \cup Runs
  BY RunsAreNumbers DEF ClientInv, ClientTypes, AgendaTypes
<1>7. Gone' = Gone /\ Settled' = Settled
  BY <1>4 DEF Gone, Applied, Settled, Asked
<1>8. PreparerOK(p)'
  <2>1. ASSUME NEW r \in Runs, r \in runs
        PROVE  /\ OfRun(r) \subseteq w.items \cup Gone
               /\ \A s \in Runs : s < r => s \in runs \/ audits[s] # Nothing
    <3>1. w.items = FoundIn(runs)
      BY <1>2, AllFound
    <3>2. OfRun(r) \subseteq w.items \cup Gone
      BY <2>1, <3>1 DEF OfRun, FoundIn
    <3>3. ASSUME NEW s \in Runs, s < r PROVE s \in runs \/ audits[s] # Nothing
      <4>1. CASE s <= cursor
        BY <4>1 DEF CursorInv, Passed
      <4>2. CASE ~(s <= cursor)
        BY <1>1, <1>6, <2>1, <3>3, <4>2
      <4> QED
        BY <4>1, <4>2
    <3> QED
      BY <3>2, <3>3
  <2>2. w.runs = runs
    BY <1>2
  <2> QED
    BY <1>4, <1>5, <1>7, <2>1, <2>2 DEF PreparerOK, OfRun
<1>9. \A o \in Procs : PreparerOK(o)'
  <2>1. ASSUME NEW o \in Procs, o # p PROVE PreparerOK(o)'
    BY <1>4, <1>7, <2>1 DEF CursorInv, PreparerOK, IsPreparer, OfRun
  <2> QED
    BY <1>8, <2>1
<1>10. \A r \in Runs : AuditOK(r)' /\ (r <= cursor' => Passed(r)')
  BY <1>4, <1>7 DEF CursorInv, AuditOK, Passed, OfRun
<1> QED
  BY <1>9, <1>10 DEF CursorInv

LEMMA PrepareStoreCursor ==
  ASSUME ClientInv, CursorInv, NEW p \in Procs, PrepareStore(p)
  PROVE  CursorInv'
<1>1. ClientTypes /\ Steady
  BY PrepareStoreInv DEF ClientInv
<1>2. proc[p] \in PreparerWork /\ IsPreparer(p)
  BY <1>1, WorkShape DEF PrepareStore, IsPreparer
<1>3. PICK items : items = proc[p].items
  OBVIOUS
<1>4. PICK runs : runs = proc[p].runs
  OBVIOUS
<1>5. /\ items \subseteq Items /\ UNCHANGED <<question, terminal, actions, changed>>
      /\ cursor \in {0} \cup Runs /\ cursor' = AdvancedCursor(audits', cursor)
  BY <1>1, <1>2, <1>3 DEF PreparerWork, PrepareStore, ClientTypes, AgendaTypes
<1>6. Gone' = Gone /\ Settled' = Settled
  BY <1>5 DEF Gone, Applied, Settled, Asked
<1>7. ASSUME NEW r \in Runs
      PROVE  /\ r \in runs => /\ audits'[r] # Nothing
                              /\ audits'[r].items = {i \in items : RunOf[i] = r}
                              /\ audits'[r].reviewed => {i \in items : RunOf[i] = r} = {}
             /\ r \notin runs => audits'[r] = audits[r]
  <2>1. PICK of : of = {i \in items : RunOf[i] = r}
    OBVIOUS
  <2>2. PICK new : new = [items |-> of, reviewed |-> of = {}]
    OBVIOUS
  <2>3. audits'[r] = IF r \in runs THEN new ELSE audits[r]
    BY <1>3, <1>4, <2>1, <2>2 DEF PrepareStore
  <2>4. of \in SUBSET Items
    BY <1>5, <2>1
  <2>5. new \in Audit /\ new.items = of /\ (new.reviewed => of = {})
    BY <2>2, <2>4 DEF Audit
  <2>6. new # Nothing
    BY <2>5, ClientAssumption
  <2> QED
    BY <2>1, <2>3, <2>5, <2>6
<1>8. ASSUME NEW r \in Runs, r \in runs
      PROVE  /\ OfRun(r) \subseteq {i \in items : RunOf[i] = r} \cup Gone
             /\ \A s \in Runs : s < r => s \in runs \/ audits[s] # Nothing
  <2>1. /\ OfRun(r) \subseteq items \cup Gone
        /\ \A s \in Runs : s < r => s \in runs \/ audits[s] # Nothing
    BY <1>2, <1>3, <1>4, <1>8 DEF CursorInv, PreparerOK
  <2>2. OfRun(r) = {i \in OfRun(r) : RunOf[i] = r}
    BY DEF OfRun
  <2> QED
    BY <2>1, <2>2
<1>9. \A r \in Runs : audits[r] # Nothing => audits'[r] # Nothing
  BY <1>7
<1>10. ASSUME NEW r \in Runs PROVE AuditOK(r)'
  <2> SUFFICES ASSUME audits'[r] # Nothing
               PROVE  /\ \A s \in Runs : s < r => audits'[s] # Nothing
                      /\ OfRun(r) \subseteq audits'[r].items \cup Settled'
                      /\ audits'[r].reviewed => OfRun(r) \subseteq Settled'
    BY DEF AuditOK, OfRun
  <2>1. CASE r \in runs
    <3>1. \A s \in Runs : s < r => audits'[s] # Nothing
      BY <1>7, <1>8, <2>1
    <3>2. Gone \subseteq Settled'
      BY <1>6 DEF Settled
    <3> QED
      BY <1>7, <1>8, <2>1, <3>1, <3>2
  <2>2. CASE r \notin runs
    <3>1. AuditOK(r) /\ audits'[r] = audits[r]
      BY <1>7, <2>2 DEF CursorInv
    <3> QED
      BY <1>6, <1>9, <3>1 DEF AuditOK
  <2> QED
    BY <2>1, <2>2
<1>11. \A o \in Procs : PreparerOK(o)'
  BY <1>1, <1>6, <1>9, PreparersKept DEF Steady, CursorInv
<1>12. \A r \in Runs : r <= cursor => Passed(r)'
  BY <1>6, <1>9 DEF CursorInv, Passed, OfRun
<1>13. \A r \in Runs : r <= cursor' => Passed(r)'
  BY <1>5, <1>10, <1>12, CursorAdvances
<1> QED
  BY <1>10, <1>11, <1>13 DEF CursorInv

LEMMA StageCursor ==
  ASSUME ClientInv, CursorInv, NEW q \in Questions, NEW plan \in StagePlans, Stage(q, plan)
  PROVE  CursorInv'
<1>1. /\ Steady /\ terminal' = terminal \cup Clean(plan) /\ UNCHANGED <<actions, changed>> /\ ClientTypes
  BY StageInv DEF ClientInv
<1>2. ActionsGrow
  BY <1>1 DEF ActionsGrow, ClientTypes
<1>3. Settles
  BY <1>1, <1>2 DEF Settles
<1>4. CASE ReviewRuns(terminal', {})
  BY <1>3, <1>4, ReviewPasses
<1>5. CASE /\ Rewrites(q, NewQuestion(Members(plan))) /\ NewQuestion(Members(plan)).items = Members(plan)
           /\ ReviewRuns(terminal', Members(plan))
  <2>1. PICK it : it = NewQuestion(Members(plan))
    OBVIOUS
  <2>2. Rewrites(q, it) /\ it.items = Members(plan)
    BY <1>5, <2>1
  <2>3. question'[q] = it /\ q \in Asked'
    BY <1>1, <2>2, OneQuestion
  <2>4. Members(plan) \subseteq Settled'
    BY <2>2, <2>3 DEF Settled
  <2> QED
    BY <1>3, <1>5, <2>4, ReviewPasses
<1> QED
  BY <1>4, <1>5, StageInv

LEMMA ApplyFinishCursor ==
  ASSUME ClientInv, CursorInv, NEW p \in Procs, ApplyFinish(p)
  PROVE  CursorInv'
<1>1. /\ Steady /\ ActionsGrow /\ terminal' = terminal \cup Decides(p, {"act", "keep"})
      /\ UNCHANGED changed
      /\ UNCHANGED <<audits, cursor>> \/ ReviewRuns(terminal', Decides(p, {"act", "keep"}))
  BY ApplyFinishInv
<1>2. Settles
  BY <1>1 DEF Settles
<1>3. Decides(p, {"act", "keep"}) \subseteq Settled'
  BY <1>1 DEF Settled
<1> QED
  BY <1>1, <1>2, <1>3, CursorKept, ReviewPasses

(* The other steps leave the audits alone.                                  *)
LEMMA Unaudited ==
  ASSUME ClientInv, CursorInv, Steady, ActionsGrow, UNCHANGED <<terminal, audits, cursor>>,
         changed \subseteq changed'
  PROVE  CursorInv'
BY CursorKept DEF Settles

LEMMA Unlisted ==
  ASSUME ClientInv, CursorInv, Steady, UNCHANGED <<agenda, actions, changed>>
  PROVE  CursorInv'
<1>1. ActionsGrow
  BY AgendaKept DEF ClientInv
<1> QED
  BY <1>1, Unaudited DEF agenda

LEMMA CursorSteps ==
  ASSUME Uncut, ClientInv, CursorInv, ClientNext
  PROVE  CursorInv'
<1> USE DEF Procs
<1>1. CASE \E p \in Preparers : Prepare(p)
  BY <1>1, PrepareReadCursor, PrepareStoreCursor DEF Prepare
<1>2. CASE \E p \in Dispatchers : Dispatch(p)
  <2>1. PICK p \in Dispatchers : Dispatch(p)
    BY <1>2
  <2>2. Steady
    BY <2>1, DispatchStartInv, RecoverWithdrawsInv, PlainCallsInv, DispatchDeliverInv, DispatchCompleteInv,
      WithdrawStoreInv, DispatchClaimInv, DispatchSendingInv, DispatchReceiptInv, DispatchDeliveredInv
      DEF Dispatch
  <2>3. UNCHANGED <<agenda, actions, changed>>
    BY <2>1 DEF Dispatch, DispatchStart, RecoverWithdraws, WithdrawIntent, DispatchBridge, DispatchRelease,
      DispatchBegin, DispatchDeliver, DispatchComplete, WithdrawStore, DispatchClaim, DispatchSending,
      DispatchReceipt, DispatchDelivered
  <2> QED
    BY <2>2, <2>3, Unlisted
<1>3. CASE \E p \in Cancellers : Cancel(p)
  <2>1. PICK p \in Cancellers : Cancel(p)
    BY <1>3
  <2>2. CASE CancelStore(p)
    <3>1. Steady /\ UNCHANGED <<terminal, audits, cursor, actions, changed>>
      BY <2>2, CancelStoreInv
    <3>2. ActionsGrow
      BY <3>1 DEF ActionsGrow, ClientInv, ClientTypes
    <3> QED
      BY <3>1, <3>2, Unaudited
  <2>3. CASE ~CancelStore(p)
    <3>1. Steady
      BY <2>1, <2>3, CancelStartInv, PlainCallsInv, CancelReleaseInv DEF Cancel
    <3>2. UNCHANGED <<agenda, actions, changed>>
      BY <2>1, <2>3 DEF Cancel, CancelStart, CancelBroker, CancelBridge, CancelRelease
    <3> QED
      BY <3>1, <3>2, Unlisted
  <2> QED
    BY <2>2, <2>3
<1>4. CASE \E p \in Appliers : Answer(p)
  <2>1. PICK p \in Appliers : Answer(p)
    BY <1>4
  <2>2. CASE ApplyFinish(p)
    BY <2>2, ApplyFinishCursor
  <2>3. CASE \E heard \in BOOLEAN : ApplyPost(p, heard)
    <3>1. Steady /\ ActionsGrow /\ UNCHANGED <<agenda, changed>>
      BY <2>3, ApplyPostInv
    <3> QED
      BY <3>1, Unaudited DEF agenda
  <2>4. CASE \/ \E q \in Questions, s \in Submissions : ApplyPlan(p, q, s)
             \/ \E heard \in BOOLEAN : ApplyProof(p, heard) \/ ApplyRead(p, heard)
             \/ ApplyNext(p) \/ ApplyConflict(p) \/ ApplyInvalid(p) \/ ApplyReceipt(p) \/ ApplyResult(p)
    <3>1. Steady /\ UNCHANGED <<agenda, actions, changed>>
      BY <2>4, ApplyPlanInv, ApplyProofInv, ApplyReadInv, ApplyNextInv, ApplyConflictInv,
        ApplyInvalidInv, ApplyReceiptInv, ApplyResultInv
    <3> QED
      BY <3>1, Unlisted
  <2> QED
    BY <2>1, <2>2, <2>3, <2>4 DEF Answer
<1>5. CASE \E q \in Questions : Manage(q)
  <2>1. PICK q \in Questions : Manage(q)
    BY <1>5
  <2>2. CASE \E plan \in StagePlans : Stage(q, plan)
    BY <2>2, StageCursor
  <2>3. CASE \/ \E old \in Questions : Reissue(old, q)
             \/ \E heard \in BOOLEAN : SubmitAttention(q, heard) \/ CompleteAttention(q, heard)
    <3>1. Steady
      BY <2>3, ReissueInv, SubmitAttentionInv, CompleteAttentionInv
    <3>2. UNCHANGED <<agenda, actions, changed>>
      BY <2>3 DEF Reissue, SubmitAttention, CompleteAttention
    <3> QED
      BY <3>1, <3>2, Unlisted
  <2> QED
    BY <2>1, <2>2, <2>3 DEF Manage
<1>6. CASE \E i \in Items : RecordsChange(i)
  <2>1. Steady
    BY <1>6, RecordsChangeInv
  <2>2. UNCHANGED <<agenda, actions>> /\ changed \subseteq changed'
    BY <1>6 DEF RecordsChange
  <2>3. ActionsGrow
    BY <2>2 DEF ActionsGrow, ClientInv, ClientTypes
  <2> QED
    BY <2>1, <2>2, <2>3, Unaudited DEF agenda
<1>7. CASE \E i \in Items : CooldownEnds(i)
  <2>1. Steady
    BY <1>7, CooldownEndsInv
  <2>2. UNCHANGED <<terminal, audits, cursor, actions, changed>>
    BY <1>7 DEF CooldownEnds
  <2>3. ActionsGrow
    BY <2>2 DEF ActionsGrow, ClientInv, ClientTypes
  <2> QED
    BY <2>1, <2>2, <2>3, Unaudited
<1>8. CASE \E p \in Procs : Crash(p)
  <2>1. Steady /\ UNCHANGED <<agenda, actions, changed>>
    BY <1>8, CrashInv DEF Crash
  <2> QED
    BY <2>1, Unlisted
<1>9. CASE Others
  <2>1. Steady /\ UNCHANGED <<agenda, actions, changed>>
    BY <1>9, OthersInv DEF Others
  <2> QED
    BY <2>1, Unlisted
<1> QED
  BY <1>1, <1>2, <1>3, <1>4, <1>5, <1>6, <1>7, <1>8, <1>9 DEF ClientNext

LEMMA CursorRests == ASSUME ClientInv, CursorInv, UNCHANGED clientVars PROVE CursorInv'
<1>1. UNCHANGED <<question, agenda, actions, changed, route, proc>>
  BY DEF clientVars
<1>2. Steady
  BY <1>1, NoneMoves DEF Steady, CommandsMove, Asked, ClientInv
<1> QED
  BY <1>1, <1>2, Unlisted

LEMMA CursorInitInv == ClientInit => CursorInv
<1> SUFFICES ASSUME ClientInit PROVE CursorInv
  OBVIOUS
<1>1. cursor = 0 /\ \A r \in Runs : audits[r] = Nothing
  BY DEF ClientInit
<1>2. \A r \in Runs : ~(r <= cursor)
  BY <1>1, RunsAreNumbers
<1>3. \A p \in Procs : ~IsPreparer(p)
  BY DEF ClientInit, IsPreparer, AtRest
<1> QED
  BY <1>1, <1>2, <1>3 DEF CursorInv, AuditOK, PreparerOK

(* No anomaly of a run that the cursor has passed is forgotten: it is in a  *)
(* question, settled, or no longer an anomaly. A list that was cut would    *)
(* leave some behind, hence Uncut.                                          *)
THEOREM ReconciliationCursor ==
  ASSUME Uncut
  PROVE  ClientSpec => []CursorLeavesNothing
<1>1. ClientInv /\ CursorInv /\ [ClientNext]_clientVars => CursorInv'
  BY CursorSteps, CursorRests
<1>2. ClientInv /\ CursorInv => CursorLeavesNothing
  <2> SUFFICES ASSUME ClientInv, CursorInv, NEW i \in Items, RunOf[i] \in 1 .. cursor
               PROVE  i \in Settled
    BY DEF CursorLeavesNothing, Settled
  <2>1. PICK r : r = RunOf[i]
    OBVIOUS
  <2>2. r \in Runs
    <3>1. cursor \in {0} \cup Runs /\ r \in 1 .. cursor
      BY <2>1 DEF ClientInv, ClientTypes, AgendaTypes
    <3>2. PICK K \in Nat : Runs = 1 .. K
      BY RunsAreNumbers
    <3> QED
      BY <3>1, <3>2
  <2>3. r <= cursor
    <3>1. cursor \in Nat
      BY RunsAreNumbers DEF ClientInv, ClientTypes, AgendaTypes
    <3> QED
      BY <2>1, <3>1
  <2>4. Passed(r)
    BY <2>2, <2>3 DEF CursorInv
  <2> QED
    BY <2>1, <2>4 DEF Passed, OfRun
<1> QED
  BY CursorInitInv, <1>1, <1>2, ReconciliationClientInvariant, PTL DEF ClientSpec

-----------------------------------------------------------------------------
(* The delivery of a question and its answers, with one dispatcher and one *)
(* applier at a time. What a question says, what its intent is and what    *)
(* each command found there hold together: who still delivers finds the    *)
(* question staged, or closed without a look at its intent, and who applies *)
(* finds the receipts that it has left behind verified.                    *)
OneAtATime == (\A p, r \in Dispatchers : p = r) /\ (\A p, r \in Appliers : p = r)

Received == {"delivered", "completed"}
Late == {"sending", "delivered", "completed"}
Underway == {"sending", "deliver", "context", "complete", "delivered"}

Showable(q) == question[q].state = "staged" \/ question[q].blind

IntentOK(q) ==
  /\ q \notin Asked => intent[q].state = "none"
  /\ q \in Asked /\ question[q].attn = "none" => intent[q].state \in {"none", "queued", "claimed"}
  /\ q \in Asked /\ question[q].attn \in {"sending", "delivery_unknown"} => intent[q].state \in Late

ReplyOK(q) ==
  /\ question[q].state \in ShownStates => question[q].attn \in Received
  /\ Committed(question[q].pending) => question[q].state = "committed_unverified"

DispatchFits(q, pc) ==
  /\ question[q].attn \notin {"none"} \cup Received
  /\ pc \in Underway => intent[q].state \in Late /\ Showable(q)
  /\ pc = "begin" => Showable(q) \/ intent[q].state = "cancelled"

CancelFits(q, pc, seen) ==
  /\ pc = "broker" => question[q].attn # "none" /\ seen \notin {"none", "delivered"}
  /\ pc = "close" => \/ seen = "none"
                     \/ seen # "delivered" /\ intent[q].state = "cancelled"
                     \/ seen = "delivered" /\ question[q].attn \in Received
  /\ pc = "unbridge" => seen = "delivered"
  /\ pc \in {"unbridge", "release"} => question[q].attn \in Received

AnswerFits(q, pc, left) ==
  /\ question[q].attn \in Received
  /\ pc # "result" =>
       /\ question[q].state \in {"applying", "committed_unverified"}
       /\ \A i \in DOMAIN question[q].pending \ left : question[q].pending[i] = "verified"
  /\ pc \in {"post", "receipt", "read"} => Min(left) \in left
  /\ pc = "read" => /\ Min(left) \in DOMAIN question[q].pending
                    /\ question[q].pending[Min(left)] = "committed"
  /\ pc = "finish" => left = {}

WorkOK(p) ==
  /\ IsDispatcher(p) => DispatchFits(proc[p].q, proc[p].pc)
  /\ IsCanceller(p) => CancelFits(proc[p].q, proc[p].pc, proc[p].seen)
  /\ IsApplier(p) => AnswerFits(proc[p].q, proc[p].pc, proc[p].left)

OneOpen == \A q, r \in OpenQuestions : ~question[q].blind /\ ~question[r].blind => q = r

DeliveryInv ==
  /\ \A q \in Questions : IntentOK(q)
  /\ \A q \in Asked : ReplyOK(q)
  /\ \A p \in Procs : WorkOK(p)
  /\ OneOpen

(* What a step at a question may do to the commands that do not move.       *)
Calm(q) ==
  /\ question[q].attn # "none" => question'[q].attn # "none"
  /\ question[q].attn \in Received => question'[q].attn \in Received
  /\ intent[q].state = "cancelled" => intent'[q].state = "cancelled"
  /\ intent[q].state \in Late => intent'[q].state \in Late

ForDispatcher(q) ==
  question[q].attn \notin {"none"} \cup Received =>
    /\ question'[q].attn \notin Received
    /\ Showable(q) => Showable(q)' \/ intent'[q].state = "cancelled"

ForApplier(q) ==
  question[q].attn \in Received =>
    /\ question'[q].pending = question[q].pending
    /\ question[q].state \in {"applying", "committed_unverified"} => question'[q].state = question[q].state

(* It opens no question, keeps the receipts and shows only what is staged.  *)
OpensNone(q) ==
  question'[q].state \in Open /\ ~question'[q].blind => question[q].state \in Open /\ ~question[q].blind

Keeps(q) ==
  \A i \in DOMAIN question[q].pending :
    question[q].pending[i] # "planned" =>
      \/ i \in DOMAIN question'[q].pending /\ question'[q].pending[i] # "planned"
      \/ question[q].pending[i] = "verified" /\ i \in question'[q].outcomes

ShowsStaged(q) == conv[q] = "prepared" /\ conv'[q] # "prepared" => Showable(q)

Delivers == (\A q \in Asked : Keeps(q)) /\ (\A q \in Questions : ShowsStaged(q))

LEMMA StaysFit ==
  ASSUME ClientInv, NEW o \in Procs, WorkOK(o), proc'[o] = proc[o], NEW q, q = proc[o].q, Calm(q),
         IsDispatcher(o) => ForDispatcher(q), IsApplier(o) => ForApplier(q)
  PROVE  WorkOK(o)'
<1>1. PICK pc : pc = proc[o].pc
  OBVIOUS
<1>2. PICK seen : seen = proc[o].seen
  OBVIOUS
<1>3. PICK left : left = proc[o].left
  OBVIOUS
<1>4. /\ IsDispatcher(o)' = IsDispatcher(o) /\ IsCanceller(o)' = IsCanceller(o)
      /\ IsApplier(o)' = IsApplier(o)
      /\ proc'[o].q = q /\ proc'[o].pc = pc /\ proc'[o].seen = seen /\ proc'[o].left = left
  BY <1>1, <1>2, <1>3 DEF IsDispatcher, IsCanceller, IsApplier
<1>5. ASSUME IsDispatcher(o) PROVE DispatchFits(q, pc)'
  <2>1. DispatchFits(q, pc) /\ ForDispatcher(q)
    BY <1>1, <1>5 DEF WorkOK
  <2>2. Showable(q) => Showable(q)' \/ intent'[q].state = "cancelled"
    BY <2>1 DEF DispatchFits, ForDispatcher
  <2>3. intent[q].state \in Late => intent'[q].state # "cancelled"
    BY DEF Calm, Late
  <2> QED
    BY <2>1, <2>2, <2>3 DEF DispatchFits, ForDispatcher, Calm
<1>6. ASSUME IsCanceller(o) PROVE CancelFits(q, pc, seen)'
  <2>1. CancelFits(q, pc, seen)
    BY <1>1, <1>2, <1>6 DEF WorkOK
  <2> QED
    BY <2>1 DEF CancelFits, Calm
<1>7. ASSUME IsApplier(o) PROVE AnswerFits(q, pc, left)'
  <2>1. AnswerFits(q, pc, left) /\ ForApplier(q)
    BY <1>1, <1>3, <1>7 DEF WorkOK
  <2> QED
    BY <2>1 DEF AnswerFits, ForApplier, Calm
<1>8. WorkOK(o)' = /\ IsDispatcher(o) => DispatchFits(q, pc)'
                   /\ IsCanceller(o) => CancelFits(q, pc, seen)'
                   /\ IsApplier(o) => AnswerFits(q, pc, left)'
  BY <1>4 DEF WorkOK, DispatchFits, CancelFits, AnswerFits, Showable
<1> QED
  BY <1>5, <1>6, <1>7, <1>8

(* A step at one question.                                                  *)
OnlyAt(q) ==
  /\ Asked' = Asked
  /\ \A r \in Questions : r # q => question'[r] = question[r] /\ intent'[r] = intent[r] /\ conv'[r] = conv[r]

LEMMA DeliveryStep ==
  ASSUME ClientInv, DeliveryInv, NEW q \in Asked, OnlyAt(q), Calm(q), OpensNone(q), Keeps(q), ShowsStaged(q),
         IntentOK(q)', ReplyOK(q)',
         \A o \in Procs : \/ WorkOK(o)'
                          \/ /\ proc'[o] = proc[o]
                             /\ IsDispatcher(o) => ForDispatcher(q)
                             /\ IsApplier(o) => ForApplier(q)
  PROVE  DeliveryInv' /\ Delivers
<1>0. q \in Questions /\ Asked \subseteq Questions /\ ClientTypes
  BY DEF Asked, ClientInv
<1>1. ASSUME NEW r \in Questions PROVE IntentOK(r)'
  <2>1. CASE r = q
    BY <2>1
  <2>2. CASE r # q
    <3>1. IntentOK(r) /\ question'[r] = question[r] /\ intent'[r] = intent[r] /\ Asked' = Asked
      BY <2>2 DEF DeliveryInv, OnlyAt
    <3> QED
      BY <3>1 DEF IntentOK
  <2> QED
    BY <2>1, <2>2
<1>2. ASSUME NEW r \in Asked' PROVE ReplyOK(r)'
  <2>1. CASE r = q
    BY <2>1
  <2>2. CASE r # q
    <3>1. ReplyOK(r) /\ question'[r] = question[r]
      BY <1>0, <2>2 DEF DeliveryInv, OnlyAt
    <3> QED
      BY <3>1 DEF ReplyOK, Committed
  <2> QED
    BY <2>1, <2>2
<1>3. ASSUME NEW o \in Procs PROVE WorkOK(o)'
  <2>1. CASE WorkOK(o)'
    BY <2>1
  <2>2. CASE /\ proc'[o] = proc[o]
             /\ IsDispatcher(o) => ForDispatcher(q)
             /\ IsApplier(o) => ForApplier(q)
    <3>1. PICK r : r = proc[o].q
      OBVIOUS
    <3>2. WorkOK(o)
      BY DEF DeliveryInv
    <3>3. CASE IsDispatcher(o) \/ IsCanceller(o) \/ IsApplier(o)
      <4>1. r \in Questions
        BY <3>1, <3>3, AtWork
      <4>2. CASE r = q
        BY <2>2, <3>1, <3>2, <4>2, StaysFit
      <4>3. CASE r # q
        <5>1. question'[r] = question[r] /\ intent'[r] = intent[r]
          BY <4>1, <4>3 DEF OnlyAt
        <5>2. Calm(r) /\ ForDispatcher(r) /\ ForApplier(r)
          BY <5>1 DEF Calm, ForDispatcher, ForApplier, Showable
        <5> QED
          BY <2>2, <3>1, <3>2, <5>2, StaysFit
      <4> QED
        BY <4>2, <4>3
    <3>4. CASE ~(IsDispatcher(o) \/ IsCanceller(o) \/ IsApplier(o))
      BY <2>2, <3>4 DEF WorkOK, IsDispatcher, IsCanceller, IsApplier
    <3> QED
      BY <3>3, <3>4
  <2> QED
    BY <2>1, <2>2
<1>4. OneOpen'
  <2>1. ASSUME NEW r \in OpenQuestions', ~question'[r].blind
        PROVE  r \in OpenQuestions /\ ~question[r].blind
    <3>1. r \in Asked /\ question'[r].state \in Open
      BY <2>1 DEF OpenQuestions, OnlyAt
    <3>2. CASE r = q
      BY <2>1, <3>1, <3>2 DEF OpenQuestions, OpensNone
    <3>3. CASE r # q
      BY <1>0, <2>1, <3>1, <3>3 DEF OpenQuestions, OnlyAt
    <3> QED
      BY <3>2, <3>3
  <2> QED
    BY <2>1 DEF DeliveryInv, OneOpen
<1>5. Delivers
  <2>1. ASSUME NEW r \in Asked PROVE Keeps(r)
    <3>1. CASE r = q
      BY <3>1
    <3>2. CASE r # q
      BY <1>0, <3>2 DEF OnlyAt, Keeps
    <3> QED
      BY <3>1, <3>2
  <2>2. ASSUME NEW r \in Questions PROVE ShowsStaged(r)
    <3>1. CASE r = q
      BY <3>1
    <3>2. CASE r # q
      BY <3>2 DEF OnlyAt, ShowsStaged
    <3> QED
      BY <3>1, <3>2
  <2> QED
    BY <2>1, <2>2 DEF Delivers
<1> QED
  BY <1>1, <1>2, <1>3, <1>4, <1>5 DEF DeliveryInv

LEMMA OneOfEach ==
  ASSUME ClientInv, OneAtATime, NEW p \in Procs, NEW o \in Procs
  PROVE  /\ IsDispatcher(p) /\ IsDispatcher(o) => o = p
         /\ IsApplier(p) /\ IsApplier(o) => o = p
BY DEF OneAtATime, ClientInv, ClientTypes, RoleOK

(* Who is at rest, or prepares, relies on nothing here.                     *)
LEMMA Unconcerned ==
  ASSUME NEW o \in Procs, proc'[o].pc \in {"idle", "store"}
  PROVE  WorkOK(o)'
BY DEF WorkOK, IsDispatcher, IsCanceller, IsApplier, DispatcherSteps, CancellerSteps, ApplierSteps

LEMMA EndsFit ==
  ASSUME ClientTypes, NEW p \in Procs, Ends(p)
  PROVE  WorkOK(p)' /\ \A o \in Procs : o # p => proc'[o] = proc[o]
BY CommandEnds, Unconcerned DEF OnlyMoves

(* A step that leaves the questions and the route as they are.              *)
LEMMA RestDelivers ==
  ASSUME ClientInv, DeliveryInv, UNCHANGED <<question, route>>,
         \A o \in Procs : WorkOK(o)' \/ proc'[o] = proc[o]
  PROVE  DeliveryInv' /\ Delivers
<1>1. intent' = intent /\ conv' = conv /\ question' = question /\ Asked' = Asked
  BY DEF route, Asked
<1>2. \A q \in Questions : IntentOK(q)'
  BY <1>1 DEF DeliveryInv, IntentOK
<1>3. \A q \in Asked' : ReplyOK(q)'
  BY <1>1 DEF DeliveryInv, ReplyOK
<1>4. ASSUME NEW o \in Procs PROVE WorkOK(o)'
  <2>1. PICK q : q = proc[o].q
    OBVIOUS
  <2>2. Calm(q) /\ ForDispatcher(q) /\ ForApplier(q) /\ WorkOK(o)
    BY <1>1 DEF Calm, ForDispatcher, ForApplier, Showable, DeliveryInv
  <2> QED
    BY <2>1, <2>2, StaysFit
<1>5. OneOpen'
  BY <1>1 DEF DeliveryInv, OneOpen, OpenQuestions
<1>6. Delivers
  BY <1>1 DEF Delivers, Keeps, ShowsStaged
<1> QED
  BY <1>2, <1>3, <1>4, <1>5, <1>6 DEF DeliveryInv

(* A call at one question: what may become of the intent.                   *)
GoesOn(q) ==
  /\ intent[q].state = "cancelled" => intent'[q].state = "cancelled"
  /\ intent[q].state \in Late => intent'[q].state \in Late
  /\ question[q].attn = "none" /\ intent[q].state \in {"none", "queued", "claimed"} =>
       intent'[q].state \in {"none", "queued", "claimed"}

LEMMA CallDelivers ==
  ASSUME ClientInv, DeliveryInv, NEW q \in Asked, RouteStep(q), UNCHANGED question, GoesOn(q), ShowsStaged(q),
         \A o \in Procs : WorkOK(o)' \/ proc'[o] = proc[o]
  PROVE  DeliveryInv' /\ Delivers
<1>1. q \in Questions /\ question'[q] = question[q] /\ Asked' = Asked
  BY DEF Asked
<1>2. OnlyAt(q)
  BY <1>1 DEF OnlyAt, RouteStep
<1>3. Calm(q) /\ OpensNone(q) /\ Keeps(q) /\ ForDispatcher(q) /\ ForApplier(q)
  BY <1>1 DEF Calm, OpensNone, Keeps, ForDispatcher, ForApplier, GoesOn, Showable
<1>4. IntentOK(q)'
  <2>1. IntentOK(q)
    BY <1>1 DEF DeliveryInv
  <2> QED
    BY <1>1, <2>1 DEF IntentOK, GoesOn
<1>5. ReplyOK(q)'
  <2>1. ReplyOK(q)
    BY DEF DeliveryInv
  <2> QED
    BY <1>1, <2>1 DEF ReplyOK, Committed
<1> QED
  BY <1>2, <1>3, <1>4, <1>5, DeliveryStep

(* A section of the file at one question; its intent stays as it is.        *)
LEMMA SectionDelivers ==
  ASSUME ClientInv, DeliveryInv, NEW q \in Asked, NEW it, Rewrites(q, it), RouteStep(q), intent' = intent,
         Calm(q), OpensNone(q), Keeps(q), ShowsStaged(q), ReplyOK(q)',
         it.attn = "none" => question[q].attn = "none",
         it.attn \in {"sending", "delivery_unknown"} => it.attn = question[q].attn \/ intent[q].state \in Late,
         \A o \in Procs : \/ WorkOK(o)'
                          \/ /\ proc'[o] = proc[o]
                             /\ IsDispatcher(o) => ForDispatcher(q)
                             /\ IsApplier(o) => ForApplier(q)
  PROVE  DeliveryInv' /\ Delivers
<1>1. q \in Questions /\ ClientTypes
  BY DEF Asked, ClientInv
<1>2. question'[q] = it /\ Asked' = Asked /\ \A r \in Questions : r # q => question'[r] = question[r]
  BY <1>1, OneQuestion
<1>3. OnlyAt(q)
  BY <1>2 DEF OnlyAt, RouteStep
<1>4. IntentOK(q)'
  <2>1. IntentOK(q)
    BY <1>1 DEF DeliveryInv
  <2> QED
    BY <1>2, <2>1 DEF IntentOK
<1> QED
  BY <1>3, <1>4, DeliveryStep

-----------------------------------------------------------------------------
(* The broker's calls.                                                      *)
Stays(q) == intent'[q].state = intent[q].state
Turns(q, from, to) == intent[q].state \in from /\ intent'[q].state = to

LEMMA BecomesState ==
  ASSUME ClientTypes, NEW q \in Questions, NEW s, IntentBecomes(q, s)
  PROVE  intent'[q].state = s /\ conv' = conv
BY DEF ClientTypes, IntentBecomes, Intents

LEMMA SubmitShape ==
  ASSUME ClientTypes, NEW q \in Questions, NEW heard, Submit(q, heard)
  PROVE  /\ conv' = conv
         /\ (Stays(q) /\ (heard => intent[q].state # "none")) \/ Turns(q, {"none"}, "queued")
<1>1. PICK s : s = IF intent[q].state = "none" THEN "queued" ELSE intent[q].state
  OBVIOUS
<1>2. IntentBecomes(q, s) \/ (~heard /\ UNCHANGED route)
  BY <1>1 DEF Submit, Call
<1>3. CASE IntentBecomes(q, s)
  <2>1. intent'[q].state = s /\ conv' = conv
    BY <1>3, BecomesState
  <2> QED
    BY <1>1, <2>1 DEF Stays, Turns
<1>4. CASE ~heard /\ UNCHANGED route
  BY <1>4 DEF route, Stays
<1> QED
  BY <1>2, <1>3, <1>4

LEMMA BeginShape ==
  ASSUME ClientTypes, NEW q \in Questions, NEW lease, NEW heard, BeginDelivery(q, lease, heard)
  PROVE  /\ conv' = conv
         /\ Turns(q, {"claimed", "sending"}, "sending") \/ (~heard /\ Stays(q))
BY BecomesState DEF BeginDelivery, Call, route, Stays, Turns

LEMMA ReleaseShape ==
  ASSUME ClientTypes, NEW q \in Questions, NEW lease, NEW heard, Release(q, lease, heard)
  PROVE  conv' = conv /\ (Stays(q) \/ Turns(q, {"claimed"}, "queued"))
BY BecomesState DEF Release, Call, route, Stays, Turns

LEMMA CompleteShape ==
  ASSUME ClientTypes, NEW q \in Questions, NEW lease, NEW heard, Complete(q, lease, heard)
  PROVE  conv' = conv /\ (Stays(q) \/ Turns(q, {"sending"}, "delivered"))
<1>1. PICK s : s = IF intent[q].state = "sending" THEN "delivered" ELSE intent[q].state
  OBVIOUS
<1>2. IntentBecomes(q, s) \/ UNCHANGED route
  BY <1>1 DEF Complete, Call
<1> QED
  BY <1>1, <1>2, BecomesState DEF route, Stays, Turns

LEMMA CancelShape ==
  ASSUME ClientTypes, NEW q \in Questions, NEW lease, NEW heard, CancelIntent(q, lease, heard)
  PROVE  /\ conv' = conv
         /\ Turns(q, {"queued", "claimed", "cancelled"}, "cancelled") \/ (~heard /\ Stays(q))
BY BecomesState DEF CancelIntent, Call, route, Stays, Turns

LEMMA VisibleShape ==
  ASSUME ClientTypes, NEW q \in Questions, NEW heard, ReleaseVisible(q, heard)
  PROVE  conv' = conv /\ (Stays(q) \/ Turns(q, {"delivered", "completed"}, "completed"))
BY BecomesState DEF ReleaseVisible, Call, route, Stays, Turns

(* The bridge shows a question only when it is told to deliver it.          *)
LEMMA BridgeShape ==
  ASSUME ClientTypes, NEW q \in Questions, NEW heard, BridgeStage(q, heard) \/ BridgeCancel(q, heard)
  PROVE  intent' = intent /\ ShowsStaged(q)
<1>1. ASSUME NEW s, ConvBecomes(q, s), conv[q] = "prepared" => s = "prepared"
      PROVE  intent' = intent /\ ShowsStaged(q)
  BY <1>1 DEF ClientTypes, ConvBecomes, ShowsStaged
<1>2. ASSUME UNCHANGED route PROVE intent' = intent /\ ShowsStaged(q)
  BY <1>2 DEF route, ShowsStaged
<1>3. CASE BridgeStage(q, heard)
  <2>1. PICK s : s = IF conv[q] = "none" THEN "prepared" ELSE conv[q]
    OBVIOUS
  <2>2. ConvBecomes(q, s) \/ UNCHANGED route
    BY <1>3, <2>1 DEF BridgeStage, Call
  <2> QED
    BY <1>1, <1>2, <2>1, <2>2
<1>4. CASE BridgeCancel(q, heard)
  <2>1. PICK s : s = IF conv[q] = "awaiting_reply" THEN "cancelled" ELSE conv[q]
    OBVIOUS
  <2>2. ConvBecomes(q, s) \/ UNCHANGED route
    BY <1>4, <2>1 DEF BridgeCancel, Call
  <2> QED
    BY <1>1, <1>2, <2>1, <2>2
<1> QED
  BY <1>3, <1>4

-----------------------------------------------------------------------------
(* The dispatcher.                                                          *)
LEMMA DispatcherFits ==
  ASSUME ClientInv, NEW p \in Procs, IsDispatcher(p), NEW pc \in DispatcherSteps, Goes(p, pc),
         NEW q, q = proc[p].q, DispatchFits(q, pc)'
  PROVE  WorkOK(p)' /\ \A o \in Procs : o # p => proc'[o] = proc[o]
<1>1. OnlyMoves(p) /\ proc'[p].pc = pc /\ proc'[p].q = q
  BY DispatcherGoes DEF ClientInv, Moves
<1>2. IsDispatcher(p)' /\ ~IsCanceller(p)' /\ ~IsApplier(p)'
  BY <1>1 DEF IsDispatcher, IsCanceller, IsApplier, DispatcherSteps, CancellerSteps, ApplierSteps
<1>3. WorkOK(p)' = DispatchFits(q, pc)'
  BY <1>1, <1>2 DEF WorkOK, DispatchFits, Showable
<1> QED
  BY <1>1, <1>3 DEF OnlyMoves

LEMMA DispatcherStarts ==
  ASSUME ClientInv, DeliveryInv, NEW p \in Procs, NEW w \in DispatcherWork, Becomes(p, w),
         UNCHANGED <<question, route>>, DispatchFits(w.q, w.pc)
  PROVE  DeliveryInv' /\ Delivers
<1>1. OnlyMoves(p) /\ proc'[p] = w
  BY CommandBecomes DEF Work, ClientInv
<1>2. w.pc \in DispatcherSteps
  BY DEF DispatcherWork
<1>3. IsDispatcher(p)' /\ ~IsCanceller(p)' /\ ~IsApplier(p)'
  BY <1>1, <1>2 DEF IsDispatcher, IsCanceller, IsApplier, DispatcherSteps, CancellerSteps, ApplierSteps
<1>4. WorkOK(p)'
  BY <1>1, <1>3 DEF WorkOK, DispatchFits, Showable, route
<1>5. \A o \in Procs : WorkOK(o)' \/ proc'[o] = proc[o]
  BY <1>1, <1>4 DEF OnlyMoves
<1> QED
  BY <1>5, RestDelivers

LEMMA DispatchStartDelivers ==
  ASSUME ClientInv, DeliveryInv, NEW p \in Procs, NEW q \in Questions, NEW lease \in 1 .. MaxLeases,
         NEW overdue \in BOOLEAN, DispatchStart(p, q, lease, overdue)
  PROVE  DeliveryInv' /\ Delivers
<1>0. PICK pc : pc = IF question[q].state # "staged" \/ overdue THEN "cancel"
                     ELSE IF Unleased(question[q]) THEN "bridge"
                     ELSE IF question[q].attn = "claimed" THEN "begin" ELSE "deliver"
  OBVIOUS
<1>1. PICK w : w = [pc |-> pc, q |-> q, lease |-> lease]
  OBVIOUS
<1>2. /\ q \in Asked /\ Becomes(p, w) /\ UNCHANGED <<question, route>>
      /\ question[q].attn \notin {"none", "delivered", "completed"}
      /\ question[q].state # "staged" \/ overdue \/ question[q].attn # "cancelled"
  BY <1>0, <1>1 DEF DispatchStart
<1>3. question[q] \in StoredQuestion /\ lease \in Nat /\ IntentOK(q)
  BY <1>2, AskedQuestion, RouteAssumption DEF DeliveryInv
<1>4. pc \in {"cancel", "bridge", "begin", "deliver"}
  BY <1>0
<1>5. w \in DispatcherWork /\ w.pc = pc /\ w.q = q
  BY <1>1, <1>3, <1>4 DEF DispatcherWork, DispatcherSteps
<1>6. pc \in {"begin", "deliver"} => question[q].state = "staged"
  BY <1>0
<1>7. pc = "deliver" => intent[q].state \in Late
  <2>1. pc = "deliver" => question[q].attn \in {"sending", "delivery_unknown"}
    BY <1>0, <1>2, <1>3 DEF Unleased, StoredQuestion
  <2> QED
    BY <1>2, <1>3, <2>1 DEF IntentOK
<1>8. DispatchFits(q, pc)
  BY <1>2, <1>4, <1>6, <1>7 DEF DispatchFits, Showable, Underway, Received
<1> QED
  BY <1>2, <1>5, <1>8, DispatcherStarts

LEMMA RecoverWithdrawsDelivers ==
  ASSUME ClientInv, DeliveryInv, NEW p \in Procs, NEW q \in Questions, RecoverWithdraws(p, q)
  PROVE  DeliveryInv' /\ Delivers
<1>1. PICK w : w = [pc |-> "cancel", q |-> q, lease |-> question[q].lease]
  OBVIOUS
<1>2. /\ q \in Asked /\ Becomes(p, w) /\ UNCHANGED <<question, route>>
      /\ question[q].attn \in {"queued", "claimed"}
  BY <1>1 DEF RecoverWithdraws
<1>3. question[q].lease \in Nat
  BY <1>2, AskedQuestion DEF StoredQuestion
<1>4. w \in DispatcherWork /\ w.pc = "cancel" /\ w.q = q
  BY <1>1, <1>3 DEF DispatcherWork, DispatcherSteps
<1>5. DispatchFits(q, "cancel")
  BY <1>2 DEF DispatchFits, Underway, Received
<1> QED
  BY <1>2, <1>4, <1>5, DispatcherStarts

(* A call of the dispatcher, after which it goes on or ends.                *)
LEMMA DispatcherCalls ==
  ASSUME ClientInv, DeliveryInv, NEW p \in Procs, IsDispatcher(p), NEW q, q = proc[p].q,
         RouteStep(q), UNCHANGED question, GoesOn(q), ShowsStaged(q),
         Ends(p) \/ \E pc \in DispatcherSteps : Goes(p, pc) /\ DispatchFits(q, pc)'
  PROVE  DeliveryInv' /\ Delivers
<1>1. q \in Asked /\ ClientTypes
  BY AtWork DEF ClientInv
<1>2. WorkOK(p)' /\ \A o \in Procs : o # p => proc'[o] = proc[o]
  BY <1>1, EndsFit, DispatcherFits
<1> QED
  BY <1>1, <1>2, CallDelivers

LEMMA AtDispatch ==
  ASSUME ClientInv, DeliveryInv, NEW p \in Procs, IsDispatcher(p), NEW q, q = proc[p].q
  PROVE  /\ q \in Asked /\ q \in Questions /\ ClientTypes /\ question[q] \in StoredQuestion
         /\ proc[p].lease \in Nat
         /\ IntentOK(q) /\ ReplyOK(q) /\ DispatchFits(q, proc[p].pc)
         /\ question[q].attn \notin {"none"} \cup Received /\ question[q].state \notin ShownStates
         /\ ~Committed(question[q].pending)
<1>1. q \in Asked /\ q \in Questions /\ ClientTypes
  BY AtWork DEF ClientInv
<1>2. question[q] \in StoredQuestion /\ proc[p].lease \in Nat
  BY <1>1, AskedQuestion, WorkShape DEF DispatcherWork
<1>3. IntentOK(q) /\ ReplyOK(q) /\ DispatchFits(q, proc[p].pc)
  BY <1>1 DEF DeliveryInv, WorkOK
<1>4. question[q].attn \notin {"none"} \cup Received
  BY <1>3 DEF DispatchFits
<1>5. question[q].state \notin ShownStates /\ ~Committed(question[q].pending)
  BY <1>3, <1>4 DEF ReplyOK, ShownStates
<1> QED
  BY <1>1, <1>2, <1>3, <1>4, <1>5

LEMMA DispatcherCallsDeliver ==
  ASSUME ClientInv, DeliveryInv, NEW p \in Procs, NEW heard \in BOOLEAN,
         \/ WithdrawIntent(p, heard) \/ DispatchBridge(p, heard) \/ DispatchRelease(p, heard)
         \/ DispatchBegin(p, heard) \/ DispatchComplete(p, heard)
  PROVE  DeliveryInv' /\ Delivers
<1>0. PICK q : q = proc[p].q
  OBVIOUS
<1>1. IsDispatcher(p) /\ UNCHANGED question
  BY DEF WithdrawIntent, DispatchBridge, DispatchRelease, DispatchBegin, DispatchComplete,
    IsDispatcher, DispatcherSteps
<1>2. /\ q \in Asked /\ q \in Questions /\ ClientTypes
      /\ DispatchFits(q, proc[p].pc) /\ question[q].attn \notin {"none"} \cup Received
  BY <1>0, <1>1, AtDispatch
<1>3. RouteStep(q)
  BY <1>0, <1>2, BrokerCalls, BridgeCalls
    DEF WithdrawIntent, DispatchBridge, DispatchRelease, DispatchBegin, DispatchComplete
<1>4. ASSUME conv' = conv, Stays(q) \/ Turns(q, {"queued", "claimed", "cancelled"}, "cancelled")
                           \/ Turns(q, {"claimed"}, "queued")
                           \/ Turns(q, {"claimed", "sending"}, "sending")
                           \/ Turns(q, {"sending"}, "delivered")
      PROVE  GoesOn(q) /\ ShowsStaged(q)
  BY <1>2, <1>4 DEF GoesOn, ShowsStaged, Stays, Turns, Late
<1>5. ASSUME NEW pc \in DispatcherSteps \ (Underway \cup {"begin"}) PROVE DispatchFits(q, pc)'
  BY <1>1, <1>2 DEF DispatchFits
<1>6. {"withdraw", "claim", "giveback"} \subseteq DispatcherSteps \ (Underway \cup {"begin"})
      /\ {"sending", "delivered"} \subseteq DispatcherSteps
  BY DEF DispatcherSteps, Underway
<1>7. CASE WithdrawIntent(p, heard)
  <2>1. conv' = conv /\ (Stays(q) \/ Turns(q, {"queued", "claimed", "cancelled"}, "cancelled"))
    BY <1>0, <1>2, <1>7, CancelShape DEF WithdrawIntent
  <2>2. Goes(p, "withdraw") \/ Ends(p)
    BY <1>7 DEF WithdrawIntent
  <2> QED
    BY <1>0, <1>1, <1>3, <1>4, <1>5, <1>6, <2>1, <2>2, DispatcherCalls
<1>8. CASE DispatchBridge(p, heard)
  <2>1. intent' = intent /\ ShowsStaged(q)
    BY <1>0, <1>2, <1>8, BridgeShape DEF DispatchBridge
  <2>2. GoesOn(q)
    BY <2>1 DEF GoesOn
  <2>3. Goes(p, "claim") \/ Goes(p, "giveback")
    BY <1>8 DEF DispatchBridge
  <2> QED
    BY <1>0, <1>1, <1>3, <1>5, <1>6, <2>1, <2>2, <2>3, DispatcherCalls
<1>9. CASE DispatchRelease(p, heard)
  <2>1. conv' = conv /\ (Stays(q) \/ Turns(q, {"claimed"}, "queued"))
    BY <1>0, <1>2, <1>9, ReleaseShape DEF DispatchRelease
  <2> QED
    BY <1>0, <1>1, <1>3, <1>4, <1>9, <2>1, DispatcherCalls DEF DispatchRelease
<1>10. CASE DispatchBegin(p, heard)
  <2>1. conv' = conv /\ (Turns(q, {"claimed", "sending"}, "sending") \/ (~heard /\ Stays(q)))
    BY <1>0, <1>2, <1>10, BeginShape DEF DispatchBegin
  <2>2. heard => DispatchFits(q, "sending")'
    <3>1. Showable(q) \/ intent[q].state = "cancelled"
      BY <1>0, <1>2, <1>10 DEF DispatchFits, DispatchBegin
    <3>2. heard => Showable(q) /\ intent'[q].state = "sending"
      BY <2>1, <3>1 DEF Turns
    <3> QED
      BY <1>1, <1>2, <3>2 DEF DispatchFits, Showable, Late
  <2>3. Ends(p) \/ (heard /\ Goes(p, "sending"))
    BY <1>10 DEF DispatchBegin
  <2> QED
    BY <1>0, <1>1, <1>3, <1>4, <1>6, <2>1, <2>2, <2>3, DispatcherCalls
<1>11. CASE DispatchComplete(p, heard)
  <2>1. conv' = conv /\ (Stays(q) \/ Turns(q, {"sending"}, "delivered"))
    BY <1>0, <1>2, <1>11, CompleteShape DEF DispatchComplete
  <2>2. DispatchFits(q, "delivered")'
    <3>1. intent[q].state \in Late /\ Showable(q)
      BY <1>0, <1>2, <1>11 DEF DispatchFits, DispatchComplete, Underway
    <3>2. intent'[q].state \in Late
      BY <2>1, <3>1 DEF Stays, Turns, Late
    <3> QED
      BY <1>1, <1>2, <3>1, <3>2 DEF DispatchFits, Showable
  <2>3. Ends(p) \/ Goes(p, "delivered")
    BY <1>11 DEF DispatchComplete
  <2> QED
    BY <1>0, <1>1, <1>3, <1>4, <1>6, <2>1, <2>2, <2>3, DispatcherCalls
<1> QED
  BY <1>7, <1>8, <1>9, <1>10, <1>11

LEMMA DispatchReceiptDelivers ==
  ASSUME ClientInv, DeliveryInv, NEW p \in Procs, DispatchReceipt(p)
  PROVE  DeliveryInv' /\ Delivers
<1>0. PICK q : q = proc[p].q
  OBVIOUS
<1>1. IsDispatcher(p) /\ UNCHANGED <<question, route>> /\ (Goes(p, "complete") \/ Ends(p))
      /\ "complete" \in DispatcherSteps
  BY DEF DispatchReceipt, IsDispatcher, DispatcherSteps
<1>2. q \in Questions /\ ClientTypes /\ DispatchFits(q, proc[p].pc)
  BY <1>0, <1>1, AtDispatch
<1>3. RouteStep(q) /\ GoesOn(q) /\ ShowsStaged(q)
  BY <1>1, <1>2, RouteRests DEF GoesOn, ShowsStaged, route
<1>4. DispatchFits(q, "complete")'
  BY <1>0, <1>1, <1>2 DEF DispatchFits, DispatchReceipt, Underway, Showable, route
<1> QED
  BY <1>0, <1>1, <1>3, <1>4, DispatcherCalls

(* A section in which the dispatcher records the delivery.                  *)
LEMMA DispatcherRecords ==
  ASSUME ClientInv, DeliveryInv, OneAtATime, NEW p \in Procs, IsDispatcher(p), NEW q, q = proc[p].q,
         NEW it, Rewrites(q, it), RouteStep(q), intent' = intent, ShowsStaged(q),
         it.pending = question[q].pending, it.blind = question[q].blind, it.attn # "none",
         it.state \in Open /\ ~it.blind => question[q].state \in Open,
         it.state \in ShownStates => it.attn \in Received,
         it.attn \in {"sending", "delivery_unknown"} => intent[q].state \in Late,
         Ends(p) \/ \E pc \in DispatcherSteps : Goes(p, pc) /\ DispatchFits(q, pc)'
  PROVE  DeliveryInv' /\ Delivers
<1>1. /\ q \in Asked /\ q \in Questions /\ ClientTypes /\ ~Committed(question[q].pending)
      /\ question[q].attn \notin {"none"} \cup Received
  BY AtDispatch
<1>2. question'[q] = it
  BY <1>1, OneQuestion
<1>3. Calm(q) /\ OpensNone(q) /\ Keeps(q) /\ ReplyOK(q)' /\ ForApplier(q)
  BY <1>1, <1>2 DEF Calm, OpensNone, Keeps, ReplyOK, ForApplier, Committed
<1>4. WorkOK(p)' /\ \A o \in Procs : o # p => proc'[o] = proc[o] /\ ~IsDispatcher(o)
  BY <1>1, EndsFit, DispatcherFits, OneOfEach
<1> QED
  BY <1>1, <1>3, <1>4, SectionDelivers

LEMMA DispatchClaimDelivers ==
  ASSUME ClientInv, DeliveryInv, OneAtATime, NEW p \in Procs, DispatchClaim(p)
  PROVE  DeliveryInv' /\ Delivers
<1>0. PICK q : q = proc[p].q
  OBVIOUS
<1>1. IsDispatcher(p) /\ UNCHANGED route /\ "begin" \in DispatcherSteps
  BY DEF DispatchClaim, IsDispatcher, DispatcherSteps
<1>2. /\ q \in Asked /\ q \in Questions /\ ClientTypes /\ question[q] \in StoredQuestion
      /\ proc[p].lease \in Nat /\ question[q].state \notin ShownStates
  BY <1>0, <1>1, AtDispatch
<1>3. RouteStep(q) /\ intent' = intent /\ ShowsStaged(q)
  BY <1>1, <1>2, RouteRests DEF route, ShowsStaged
<1>4. CASE question[q].state = "staged"
  <2>1. PICK it : it = Delivery(q, question[q].state, "claimed", proc[p].lease)
    OBVIOUS
  <2>2. question[q].state \in Open \cup Closed /\ "claimed" \in Attns
    BY <1>2 DEF StoredQuestion, Attns
  <2>3. /\ it \in StoredQuestion /\ it.state = question[q].state /\ it.attn = "claimed"
        /\ it.pending = question[q].pending /\ it.blind = question[q].blind
    BY <1>2, <2>1, <2>2, DeliveryShape
  <2>4. Rewrites(q, it) /\ Goes(p, "begin")
    <3>1. question' = [question EXCEPT ![q].attn = "claimed", ![q].lease = proc[p].lease, ![q].bound = TRUE]
          /\ Goes(p, "begin")
      BY <1>0, <1>4 DEF DispatchClaim
    <3>2. it = [question[q] EXCEPT !.attn = "claimed", !.lease = proc[p].lease, !.bound = TRUE]
      BY <1>2, <2>1 DEF Delivery, StoredQuestion
    <3>3. question' = [question EXCEPT ![q] = it]
      BY <1>2, <3>1, <3>2 DEF ClientTypes
    <3> QED
      BY <2>3, <3>1, <3>3 DEF Rewrites
  <2>5. DispatchFits(q, "begin")'
    <3>1. question'[q] = it
      BY <1>2, <2>4, OneQuestion
    <3> QED
      BY <1>4, <2>3, <3>1 DEF DispatchFits, Showable, Underway, Received
  <2> QED
    BY <1>0, <1>1, <1>2, <1>3, <2>3, <2>4, <2>5, DispatcherRecords
<1>5. CASE question[q].state # "staged"
  <2>1. UNCHANGED question /\ Ends(p)
    BY <1>0, <1>5 DEF DispatchClaim
  <2>2. GoesOn(q)
    BY <1>3 DEF GoesOn
  <2> QED
    BY <1>0, <1>1, <1>3, <2>1, <2>2, DispatcherCalls
<1> QED
  BY <1>4, <1>5

(* A mark of the delivery, whatever the question's state is.                *)
LEMMA MarksDeliver ==
  ASSUME ClientInv, DeliveryInv, OneAtATime, NEW p \in Procs, IsDispatcher(p), NEW q, q = proc[p].q,
         NEW attn \in {"sending", "delivery_unknown"}, question' = Marked(p, attn),
         RouteStep(q), intent' = intent, proc[p].pc \in Underway, ShowsStaged(q),
         Ends(p) \/ \E pc \in DispatcherSteps : Goes(p, pc)
  PROVE  DeliveryInv' /\ Delivers
<1>1. /\ q \in Asked /\ q \in Questions /\ ClientTypes /\ question[q] \in StoredQuestion
      /\ proc[p].lease \in Nat /\ question[q].state \notin ShownStates
      /\ intent[q].state \in Late /\ Showable(q)
  BY AtDispatch DEF DispatchFits
<1>2. attn \in Attns \ {"delivered"} /\ attn \notin {"none"} \cup Received
  BY DEF Attns, Received
<1>3. PICK it : DeliverySays(q, it) /\ it = Delivery(q, question[q].state, attn, proc[p].lease)
  BY <1>2, MarkedShape
<1>4. question[q].state \in Open \cup Closed
  BY <1>1 DEF StoredQuestion
<1>5. /\ it.state = question[q].state /\ it.attn = attn
      /\ it.pending = question[q].pending /\ it.blind = question[q].blind
  BY <1>1, <1>2, <1>3, <1>4, DeliveryShape
<1>6. Rewrites(q, it)
  BY <1>3 DEF Rewrites, DeliverySays
<1>7. question'[q] = it
  BY <1>1, <1>6, OneQuestion
<1>8. \A pc \in DispatcherSteps : DispatchFits(q, pc)'
  BY <1>1, <1>2, <1>5, <1>7 DEF DispatchFits, Showable
<1> QED
  BY <1>1, <1>2, <1>5, <1>6, <1>8, DispatcherRecords

LEMMA DispatchSendingDelivers ==
  ASSUME ClientInv, DeliveryInv, OneAtATime, NEW p \in Procs, DispatchSending(p)
  PROVE  DeliveryInv' /\ Delivers
<1>0. PICK q : q = proc[p].q
  OBVIOUS
<1>1. /\ IsDispatcher(p) /\ UNCHANGED route /\ question' = Marked(p, "sending")
      /\ Goes(p, "deliver") /\ "deliver" \in DispatcherSteps /\ proc[p].pc \in Underway
  BY DEF DispatchSending, IsDispatcher, DispatcherSteps, Underway
<1>2. q \in Questions /\ ClientTypes
  BY <1>0, <1>1, AtDispatch
<1>3. RouteStep(q) /\ intent' = intent /\ ShowsStaged(q)
  BY <1>1, <1>2, RouteRests DEF route, ShowsStaged
<1> QED
  BY <1>0, <1>1, <1>3, MarksDeliver

LEMMA DispatchDeliverDelivers ==
  ASSUME ClientInv, DeliveryInv, OneAtATime, NEW p \in Procs, NEW heard \in BOOLEAN, DispatchDeliver(p, heard)
  PROVE  DeliveryInv' /\ Delivers
<1>0. PICK q : q = proc[p].q
  OBVIOUS
<1>1. IsDispatcher(p) /\ proc[p].pc \in Underway /\ "context" \in DispatcherSteps \cap Underway
  BY DEF DispatchDeliver, IsDispatcher, DispatcherSteps, Underway
<1>2. q \in Questions /\ ClientTypes /\ Showable(q) /\ DispatchFits(q, proc[p].pc)
  BY <1>0, <1>1, AtDispatch DEF DispatchFits
<1>3. RouteStep(q) /\ intent' = intent /\ ShowsStaged(q)
  BY <1>0, <1>2, BridgeCalls DEF DispatchDeliver, ShowsStaged
<1>4. CASE heard
  <2>1. Goes(p, "context") /\ UNCHANGED question
    BY <1>4 DEF DispatchDeliver
  <2>2. GoesOn(q) /\ DispatchFits(q, "context")'
    BY <1>1, <1>2, <1>3, <2>1 DEF GoesOn, DispatchFits, Showable
  <2> QED
    BY <1>0, <1>1, <1>3, <2>1, <2>2, DispatcherCalls
<1>5. CASE ~heard
  BY <1>0, <1>1, <1>3, <1>5, MarksDeliver DEF DispatchDeliver
<1> QED
  BY <1>4, <1>5

LEMMA DispatchDeliveredDelivers ==
  ASSUME ClientInv, DeliveryInv, OneAtATime, NEW p \in Procs, DispatchDelivered(p)
  PROVE  DeliveryInv' /\ Delivers
<1>0. PICK q : q = proc[p].q
  OBVIOUS
<1>1. IsDispatcher(p) /\ UNCHANGED route /\ Ends(p) /\ proc[p].pc \in Underway
  BY DEF DispatchDelivered, IsDispatcher, DispatcherSteps, Underway
<1>2. /\ q \in Asked /\ q \in Questions /\ ClientTypes /\ question[q] \in StoredQuestion /\ Showable(q)
  BY <1>0, <1>1, AtDispatch DEF DispatchFits
<1>3. RouteStep(q) /\ intent' = intent /\ ShowsStaged(q)
  BY <1>1, <1>2, RouteRests DEF route, ShowsStaged
<1>4. PICK it : it = Delivery(q, "awaiting_reply", "delivered", 0)
  OBVIOUS
<1>5. "awaiting_reply" \in Open \cup Closed /\ "delivered" \in Attns /\ "delivered" \in Received
      /\ "staged" \in Open
  BY DEF Attns, Open, Received
<1>6. /\ it \in StoredQuestion /\ it.state = "awaiting_reply" /\ it.attn = "delivered"
      /\ it.pending = question[q].pending /\ it.blind = question[q].blind
  BY <1>2, <1>4, <1>5, DeliveryShape
<1>7. question' = [question EXCEPT ![q] = it]
  <2>1. question' = [question EXCEPT ![q].attn = "delivered", ![q].lease = 0, ![q].bound = TRUE,
                                     ![q].state = "awaiting_reply"]
    BY <1>0 DEF DispatchDelivered
  <2> QED
    BY <1>2, <1>4, <2>1 DEF ClientTypes, Delivery, StoredQuestion
<1>8. Rewrites(q, it)
  BY <1>6, <1>7 DEF Rewrites
<1>9. ~it.blind => question[q].state \in Open
  BY <1>2, <1>5, <1>6 DEF Showable
<1> QED
  BY <1>0, <1>1, <1>3, <1>5, <1>6, <1>8, <1>9, DispatcherRecords

LEMMA WithdrawStoreDelivers ==
  ASSUME ClientInv, DeliveryInv, OneAtATime, NEW p \in Procs, NEW overdue \in BOOLEAN, WithdrawStore(p, overdue)
  PROVE  DeliveryInv' /\ Delivers
<1>0. PICK q : q = proc[p].q
  OBVIOUS
<1>1. IsDispatcher(p) /\ UNCHANGED route /\ Ends(p)
  BY DEF WithdrawStore, IsDispatcher, DispatcherSteps
<1>2. /\ q \in Asked /\ q \in Questions /\ ClientTypes /\ question[q] \in StoredQuestion
      /\ question[q].state \notin ShownStates
  BY <1>0, <1>1, AtDispatch
<1>3. RouteStep(q) /\ intent' = intent /\ ShowsStaged(q)
  BY <1>1, <1>2, RouteRests DEF route, ShowsStaged
<1>4. PICK end : end = IF question[q].state \in Closed THEN question[q].state
                       ELSE IF overdue THEN "expired" ELSE "cancelled"
  OBVIOUS
<1>5. end \in Open \cup Closed /\ end \notin Open /\ end \notin ShownStates
  BY <1>2, <1>4 DEF Closed, Open, ShownStates
<1>6. PICK it : it = Withdrawn(q, end)
  OBVIOUS
<1>7. /\ it \in StoredQuestion /\ it.state = end /\ it.attn = "cancelled"
      /\ it.pending = question[q].pending /\ it.blind = question[q].blind
  BY <1>2, <1>5, <1>6, WithdrawnShape
<1>8. question' = [question EXCEPT ![q] = it]
  <2>1. question' = [question EXCEPT ![q].state = end, ![q].attn = "cancelled", ![q].lease = 0]
    BY <1>0, <1>4 DEF WithdrawStore
  <2> QED
    BY <1>2, <1>6, <2>1 DEF ClientTypes, Withdrawn, StoredQuestion
<1>9. Rewrites(q, it)
  BY <1>7, <1>8 DEF Rewrites
<1> QED
  BY <1>0, <1>1, <1>3, <1>5, <1>7, <1>9, DispatcherRecords

-----------------------------------------------------------------------------
(* The calls that the file records: the submission and the completion.      *)
LEMMA SubmitAttentionDelivers ==
  ASSUME ClientInv, DeliveryInv, NEW q \in Questions, NEW heard \in BOOLEAN, SubmitAttention(q, heard)
  PROVE  DeliveryInv' /\ Delivers
<1>1. /\ q \in Asked /\ question[q].state = "staged" /\ question[q].attn = "none" /\ Submit(q, heard)
      /\ UNCHANGED proc /\ ClientTypes
      /\ question' = IF heard THEN AttnSet(q, intent'[q].state) ELSE question
  BY DEF SubmitAttention, ClientInv, AttnSet
<1>2. IntentOK(q) /\ ReplyOK(q)
  BY <1>1 DEF DeliveryInv
<1>3. intent[q].state \in {"none", "queued", "claimed"}
  BY <1>1, <1>2 DEF IntentOK
<1>4. /\ RouteStep(q) /\ conv' = conv /\ intent'[q].state \in {"none", "queued", "claimed"}
      /\ heard => intent'[q].state # "none"
  BY <1>1, <1>3, BrokerCalls, SubmitShape DEF Stays, Turns
<1>5. CASE heard
  <2>1. PICK attn : attn = intent'[q].state
    OBVIOUS
  <2>2. attn \in {"queued", "claimed"} /\ attn \in Attns
    BY <1>4, <1>5, <2>1 DEF Attns
  <2>3. PICK it : it = WithAttn(q, attn)
    OBVIOUS
  <2>4. /\ it \in StoredQuestion /\ it.attn = attn /\ it.state = question[q].state
        /\ it.pending = question[q].pending /\ it.blind = question[q].blind
        /\ AttnSet(q, attn) = [question EXCEPT ![q] = it]
    BY <1>1, <2>2, <2>3, AttnChanges
  <2>5. Rewrites(q, it)
    BY <1>1, <1>5, <2>1, <2>4 DEF Rewrites
  <2>6. /\ question'[q] = it /\ Asked' = Asked
        /\ \A r \in Questions : r # q => question'[r] = question[r]
    BY <1>1, <2>5, OneQuestion
  <2>7. OnlyAt(q)
    BY <1>4, <2>6 DEF OnlyAt, RouteStep
  <2>8. /\ Calm(q) /\ OpensNone(q) /\ Keeps(q) /\ ShowsStaged(q) /\ ForDispatcher(q) /\ ForApplier(q)
    BY <1>1, <1>3, <1>4, <2>2, <2>4, <2>6
      DEF Calm, OpensNone, Keeps, ShowsStaged, ForDispatcher, ForApplier, Received, Late
  <2>9. IntentOK(q)' /\ ReplyOK(q)'
    BY <1>1, <1>2, <2>2, <2>4, <2>6 DEF IntentOK, ReplyOK, Committed, ShownStates
  <2> QED
    BY <1>1, <2>7, <2>8, <2>9, DeliveryStep
<1>6. CASE ~heard
  <2>1. GoesOn(q) /\ ShowsStaged(q) /\ UNCHANGED question
    BY <1>1, <1>3, <1>4, <1>6 DEF GoesOn, ShowsStaged, Late
  <2> QED
    BY <1>1, <1>4, <2>1, CallDelivers
<1> QED
  BY <1>5, <1>6

LEMMA CompletionDelivers ==
  ASSUME ClientInv, DeliveryInv, NEW q \in Asked, question[q].attn \in Received,
         NEW heard \in BOOLEAN, ReleaseVisible(q, heard),
         question' = IF heard THEN AttnSet(q, "completed") ELSE question,
         \A o \in Procs : WorkOK(o)' \/ proc'[o] = proc[o]
  PROVE  DeliveryInv' /\ Delivers
<1>1. q \in Questions /\ ClientTypes /\ IntentOK(q) /\ ReplyOK(q)
  BY DEF Asked, ClientInv, DeliveryInv
<1>2. /\ RouteStep(q) /\ conv' = conv
      /\ Stays(q) \/ Turns(q, {"delivered", "completed"}, "completed")
  BY <1>1, BrokerCalls, VisibleShape
<1>3. GoesOn(q) /\ ShowsStaged(q)
  BY <1>2 DEF GoesOn, ShowsStaged, Stays, Turns, Late, Received
<1>4. CASE heard
  <2>1. PICK it : it = WithAttn(q, "completed")
    OBVIOUS
  <2>2. "completed" \in Attns /\ "completed" \in Received
    BY DEF Attns, Received
  <2>3. /\ it \in StoredQuestion /\ it.attn = "completed" /\ it.state = question[q].state
        /\ it.pending = question[q].pending /\ it.blind = question[q].blind
        /\ AttnSet(q, "completed") = [question EXCEPT ![q] = it]
    BY <2>1, <2>2, AttnChanges
  <2>4. Rewrites(q, it)
    BY <1>4, <2>3 DEF Rewrites
  <2>5. /\ question'[q] = it /\ Asked' = Asked
        /\ \A r \in Questions : r # q => question'[r] = question[r]
    BY <1>1, <2>4, OneQuestion
  <2>6. OnlyAt(q)
    BY <1>2, <2>5 DEF OnlyAt, RouteStep
  <2>7. /\ Calm(q) /\ OpensNone(q) /\ Keeps(q) /\ ForDispatcher(q) /\ ForApplier(q)
    BY <1>3, <2>2, <2>3, <2>5 DEF Calm, OpensNone, Keeps, ForDispatcher, ForApplier, GoesOn
  <2>8. IntentOK(q)' /\ ReplyOK(q)'
    BY <1>1, <2>2, <2>3, <2>5 DEF IntentOK, ReplyOK, Committed
  <2> QED
    BY <1>3, <2>6, <2>7, <2>8, DeliveryStep
<1>5. CASE ~heard
  BY <1>2, <1>3, <1>5, CallDelivers
<1> QED
  BY <1>4, <1>5

LEMMA CompleteAttentionDelivers ==
  ASSUME ClientInv, DeliveryInv, NEW q \in Questions, NEW heard \in BOOLEAN, CompleteAttention(q, heard)
  PROVE  DeliveryInv' /\ Delivers
<1>1. /\ q \in Asked /\ ReleaseVisible(q, heard) /\ question[q].attn \in Received /\ UNCHANGED proc
      /\ question' = IF heard THEN AttnSet(q, "completed") ELSE question
  BY DEF CompleteAttention, AttnSet, Received
<1> QED
  BY <1>1, CompletionDelivers

-----------------------------------------------------------------------------
(* The canceller.                                                           *)
LEMMA AtCancel ==
  ASSUME ClientInv, DeliveryInv, NEW p \in Procs, IsCanceller(p), NEW q, q = proc[p].q
  PROVE  /\ q \in Asked /\ q \in Questions /\ ClientTypes /\ question[q] \in StoredQuestion
         /\ IntentOK(q) /\ ReplyOK(q) /\ CancelFits(q, proc[p].pc, proc[p].seen)
<1>1. q \in Asked /\ q \in Questions /\ ClientTypes
  BY AtWork DEF ClientInv
<1> QED
  BY <1>1, AskedQuestion DEF DeliveryInv, WorkOK

LEMMA CancellerFits ==
  ASSUME ClientInv, NEW p \in Procs, IsCanceller(p), NEW pc \in CancellerSteps, Goes(p, pc),
         NEW q, q = proc[p].q, NEW seen, seen = proc[p].seen, CancelFits(q, pc, seen)'
  PROVE  WorkOK(p)' /\ \A o \in Procs : o # p => proc'[o] = proc[o]
<1>1. OnlyMoves(p) /\ proc'[p].pc = pc /\ proc'[p].q = q /\ proc'[p].seen = seen
  BY CancellerGoes DEF ClientInv, Moves
<1>2. ~IsDispatcher(p)' /\ IsCanceller(p)' /\ ~IsApplier(p)'
  BY <1>1 DEF IsDispatcher, IsCanceller, IsApplier, DispatcherSteps, CancellerSteps, ApplierSteps
<1>3. WorkOK(p)' = CancelFits(q, pc, seen)'
  BY <1>1, <1>2 DEF WorkOK, CancelFits
<1> QED
  BY <1>1, <1>3 DEF OnlyMoves

LEMMA CancelStartDelivers ==
  ASSUME ClientInv, DeliveryInv, NEW p \in Procs, NEW q \in Questions, CancelStart(p, q)
  PROVE  DeliveryInv' /\ Delivers
<1>1. /\ OnlyMoves(p) /\ UNCHANGED <<question, route>>
      /\ proc'[p].q = q /\ proc'[p].seen = question[q].attn
      /\ proc'[p].pc \in CancellerSteps
      /\ proc'[p].pc = "release" => question[q].attn = "delivered"
      /\ proc'[p].pc = "close" => question[q].attn = "none"
      /\ proc'[p].pc = "unbridge" => question[q].attn = "delivered"
      /\ proc'[p].pc = "broker" => question[q].attn \in {"queued", "claimed"}
  BY CancelStartInv
<1>2. PICK pc : pc = proc'[p].pc
  OBVIOUS
<1>3. PICK seen : seen = question[q].attn
  OBVIOUS
<1>4. CancelFits(q, pc, seen)'
  BY <1>1, <1>2, <1>3 DEF CancelFits, Received
<1>5. ~IsDispatcher(p)' /\ IsCanceller(p)' /\ ~IsApplier(p)'
  BY <1>1 DEF IsDispatcher, IsCanceller, IsApplier, DispatcherSteps, CancellerSteps, ApplierSteps
<1>6. WorkOK(p)'
  BY <1>1, <1>2, <1>3, <1>4, <1>5 DEF WorkOK, CancelFits
<1>7. \A o \in Procs : WorkOK(o)' \/ proc'[o] = proc[o]
  BY <1>1, <1>6 DEF OnlyMoves
<1> QED
  BY <1>1, <1>7, RestDelivers

LEMMA CancellerCallsDeliver ==
  ASSUME ClientInv, DeliveryInv, NEW p \in Procs, NEW heard \in BOOLEAN,
         CancelBroker(p, heard) \/ CancelBridge(p, heard)
  PROVE  DeliveryInv' /\ Delivers
<1>0. PICK q : q = proc[p].q
  OBVIOUS
<1>1. PICK seen : seen = proc[p].seen
  OBVIOUS
<1>2. IsCanceller(p) /\ UNCHANGED question /\ "close" \in CancellerSteps
  BY DEF CancelBroker, CancelBridge, IsCanceller, CancellerSteps
<1>3. q \in Asked /\ q \in Questions /\ ClientTypes /\ CancelFits(q, proc[p].pc, seen)
  BY <1>0, <1>1, <1>2, AtCancel
<1>4. RouteStep(q)
  BY <1>0, <1>3, BrokerCalls, BridgeCalls DEF CancelBroker, CancelBridge
<1>5. ASSUME Ends(p) \/ (Goes(p, "close") /\ CancelFits(q, "close", seen)'), GoesOn(q), ShowsStaged(q)
      PROVE  DeliveryInv' /\ Delivers
  <2>1. WorkOK(p)' /\ \A o \in Procs : o # p => proc'[o] = proc[o]
    BY <1>0, <1>1, <1>2, <1>3, <1>5, EndsFit, CancellerFits
  <2> QED
    BY <1>2, <1>3, <1>4, <1>5, <2>1, CallDelivers
<1>6. CASE CancelBroker(p, heard)
  <2>1. /\ conv' = conv
        /\ Turns(q, {"queued", "claimed", "cancelled"}, "cancelled") \/ (~heard /\ Stays(q))
    BY <1>0, <1>3, <1>6, CancelShape DEF CancelBroker
  <2>2. question[q].attn # "none" /\ seen \notin {"none", "delivered"}
    BY <1>3, <1>6 DEF CancelFits, CancelBroker
  <2>3. GoesOn(q) /\ ShowsStaged(q)
    BY <2>1, <2>2 DEF GoesOn, ShowsStaged, Stays, Turns, Late
  <2>4. heard => CancelFits(q, "close", seen)'
    BY <2>1, <2>2 DEF CancelFits, Turns
  <2>5. Ends(p) \/ (heard /\ Goes(p, "close"))
    BY <1>6 DEF CancelBroker
  <2> QED
    BY <1>5, <2>3, <2>4, <2>5
<1>7. CASE CancelBridge(p, heard)
  <2>1. intent' = intent /\ ShowsStaged(q)
    BY <1>0, <1>3, <1>7, BridgeShape DEF CancelBridge
  <2>2. seen = "delivered" /\ question[q].attn \in Received
    BY <1>3, <1>7 DEF CancelFits, CancelBridge
  <2>3. GoesOn(q) /\ CancelFits(q, "close", seen)'
    BY <1>2, <2>1, <2>2 DEF GoesOn, CancelFits
  <2>4. Ends(p) \/ Goes(p, "close")
    BY <1>7 DEF CancelBridge
  <2> QED
    BY <1>5, <2>1, <2>3, <2>4
<1> QED
  BY <1>6, <1>7

LEMMA CancelReleaseDelivers ==
  ASSUME ClientInv, DeliveryInv, NEW p \in Procs, NEW heard \in BOOLEAN, CancelRelease(p, heard)
  PROVE  DeliveryInv' /\ Delivers
<1>0. PICK q : q = proc[p].q
  OBVIOUS
<1>1. /\ IsCanceller(p) /\ Ends(p) /\ proc[p].pc = "release" /\ ReleaseVisible(q, heard)
      /\ question' = IF heard THEN AttnSet(q, "completed") ELSE question
  BY <1>0 DEF CancelRelease, AttnSet, IsCanceller, CancellerSteps
<1>2. q \in Asked /\ ClientTypes /\ question[q].attn \in Received
  BY <1>0, <1>1, AtCancel DEF CancelFits
<1>3. \A o \in Procs : WorkOK(o)' \/ proc'[o] = proc[o]
  BY <1>1, <1>2, EndsFit
<1> QED
  BY <1>1, <1>2, <1>3, CompletionDelivers

LEMMA CancelStoreDelivers ==
  ASSUME ClientInv, DeliveryInv, NEW p \in Procs, CancelStore(p)
  PROVE  DeliveryInv' /\ Delivers
<1>0. PICK q : q = proc[p].q
  OBVIOUS
<1>1. PICK seen : seen = proc[p].seen
  OBVIOUS
<1>2. IsCanceller(p) /\ UNCHANGED route /\ proc[p].pc = "close" /\ "release" \in CancellerSteps
  BY DEF CancelStore, IsCanceller, CancellerSteps
<1>3. /\ q \in Asked /\ q \in Questions /\ ClientTypes /\ question[q] \in StoredQuestion
      /\ CancelFits(q, "close", seen) /\ ReplyOK(q)
  BY <1>0, <1>1, <1>2, AtCancel
<1>4. RouteStep(q) /\ intent' = intent /\ ShowsStaged(q)
  BY <1>2, <1>3, RouteRests DEF route, ShowsStaged
<1>5. CASE UNCHANGED question /\ Ends(p)
  BY <1>2, <1>3, <1>5, EndsFit, RestDelivers
<1>6. CASE ~(UNCHANGED question /\ Ends(p))
  <2>1. /\ question[q].state \in {"staged", "awaiting_reply"}
        /\ question' = [question EXCEPT ![q].state = "cancelled",
                          ![q].blind = proc[p].seen = "none",
                          ![q].attn = IF @ \in {"queued", "claimed"} THEN "cancelled" ELSE @]
        /\ (seen = "delivered" /\ Goes(p, "release")) \/ Ends(p)
    BY <1>0, <1>1, <1>6 DEF CancelStore
  <2>2. PICK blind \in BOOLEAN : blind = (seen = "none")
    OBVIOUS
  <2>3. PICK it : it = CancelledAs(q, blind)
    OBVIOUS
  <2>4. /\ it \in StoredQuestion /\ it.state = "cancelled"
        /\ it.attn = question[q].attn \/ (question[q].attn \in {"queued", "claimed"} /\ it.attn = "cancelled")
        /\ it.pending = question[q].pending /\ it.blind = blind
    BY <1>3, <2>3, CancelledShape
  <2>5. question' = [question EXCEPT ![q] = it]
    BY <1>1, <1>3, <2>1, <2>2, <2>3 DEF ClientTypes, CancelledAs, CancelledAttn, StoredQuestion
  <2>6. Rewrites(q, it)
    BY <2>4, <2>5 DEF Rewrites
  <2>7. question'[q] = it
    BY <1>3, <2>6, OneQuestion
  <2>8. Calm(q) /\ OpensNone(q) /\ Keeps(q)
    BY <1>4, <2>4, <2>7 DEF Calm, OpensNone, Keeps, Open, Received
  <2>9. ForDispatcher(q)
    <3>1. question[q].attn \notin Received => blind \/ intent[q].state = "cancelled"
      BY <1>3, <2>2 DEF CancelFits
    <3> QED
      BY <1>4, <2>4, <2>7, <3>1 DEF ForDispatcher, Showable, Received
  <2>10. ForApplier(q)
    BY <2>1, <2>4, <2>7 DEF ForApplier
  <2>11. ReplyOK(q)'
    <3>1. ~Committed(question[q].pending)
      BY <1>3, <2>1 DEF ReplyOK
    <3> QED
      BY <2>4, <2>7, <3>1 DEF ReplyOK, Committed, ShownStates
  <2>12. seen = "delivered" => CancelFits(q, "release", seen)'
    <3>1. seen = "delivered" => question[q].attn \in Received
      BY <1>3 DEF CancelFits
    <3> QED
      BY <2>4, <2>7, <3>1 DEF CancelFits, Received
  <2>13. WorkOK(p)' /\ \A o \in Procs : o # p => proc'[o] = proc[o]
    BY <1>0, <1>1, <1>2, <1>3, <2>1, <2>12, EndsFit, CancellerFits
  <2>14. it.attn = "none" => question[q].attn = "none"
    BY <2>4
  <2>15. it.attn \in {"sending", "delivery_unknown"} => it.attn = question[q].attn
    BY <2>4
  <2> QED
    BY <1>3, <1>4, <2>6, <2>8, <2>9, <2>10, <2>11, <2>13, <2>14, <2>15, SectionDelivers
<1> QED
  BY <1>5, <1>6

-----------------------------------------------------------------------------
(* The applier.                                                             *)

LEMMA AtApply ==
  ASSUME ClientInv, DeliveryInv, NEW p \in Procs, IsApplier(p), NEW q, q = proc[p].q
  PROVE  /\ q \in Asked /\ q \in Questions /\ ClientTypes /\ question[q] \in StoredQuestion /\ Shown(q)
         /\ p \in Appliers /\ ReplyOK(q) /\ AnswerFits(q, proc[p].pc, proc[p].left)
         /\ question[q].attn \in Received
<1>1. q \in Asked /\ q \in Questions /\ ClientTypes /\ Shown(q) /\ question[q] \in StoredQuestion
  BY ApplierAtWork DEF ClientInv
<1>2. p \in Appliers
  BY <1>1 DEF ClientTypes, RoleOK
<1>3. ReplyOK(q) /\ AnswerFits(q, proc[p].pc, proc[p].left)
  BY <1>1 DEF DeliveryInv, WorkOK
<1>4. question[q].attn \in Received
  BY <1>3 DEF AnswerFits
<1> QED
  BY <1>1, <1>2, <1>3, <1>4

LEMMA ApplierFits ==
  ASSUME NEW p \in Procs, OnlyMoves(p), IsApplier(p)', NEW q, proc'[p].q = q,
         AnswerFits(q, proc[p].pc, proc[p].left)'
  PROVE  WorkOK(p)' /\ \A o \in Procs : o # p => proc'[o] = proc[o]
<1>1. ~IsDispatcher(p)' /\ ~IsCanceller(p)'
  BY DEF IsDispatcher, IsCanceller, IsApplier, DispatcherSteps, CancellerSteps, ApplierSteps
<1>2. PICK pc : pc = proc'[p].pc
  OBVIOUS
<1>3. PICK left : left = proc'[p].left
  OBVIOUS
<1>4. AnswerFits(q, pc, left)'
  BY <1>2, <1>3 DEF AnswerFits
<1> QED
  BY <1>1, <1>2, <1>3, <1>4 DEF WorkOK, AnswerFits, OnlyMoves

LEMMA ApplierRecords ==
  ASSUME ClientInv, DeliveryInv, OneAtATime, NEW p \in Procs, p \in Appliers, NEW q \in Asked,
         question[q].attn \in Received, NEW it, Rewrites(q, it), UNCHANGED route,
         it.attn = question[q].attn, it.blind = question[q].blind,
         it.state \in Open => question[q].state \in Open, Keeps(q), ReplyOK(q)',
         WorkOK(p)', \A o \in Procs : o # p => proc'[o] = proc[o]
  PROVE  DeliveryInv' /\ Delivers
<1>1. q \in Questions /\ ClientTypes
  BY DEF Asked, ClientInv
<1>2. question'[q] = it
  BY <1>1, OneQuestion
<1>3. RouteStep(q) /\ intent' = intent /\ ShowsStaged(q)
  BY <1>1, RouteRests DEF route, ShowsStaged
<1>4. Calm(q) /\ OpensNone(q) /\ ForDispatcher(q)
  BY <1>2, <1>3 DEF Calm, OpensNone, ForDispatcher
<1>5. \A o \in Procs : o # p => ~IsApplier(o)
  BY <1>1 DEF OneAtATime, ClientTypes, RoleOK
<1>6. it.attn \notin {"none", "sending", "delivery_unknown"}
  BY DEF Received
<1> QED
  BY <1>3, <1>4, <1>5, <1>6, SectionDelivers

(* A step of the applier that leaves the file as it is.                     *)
LEMMA ApplierLooksOn ==
  ASSUME ClientInv, DeliveryInv, NEW p \in Procs, IsApplier(p), NEW q, q = proc[p].q,
         UNCHANGED <<question, route>>,
         \/ Ends(p)
         \/ \E pc \in ApplierSteps : Goes(p, pc) /\ AnswerFits(q, pc, proc[p].left)
  PROVE  DeliveryInv' /\ Delivers
<1>1. ClientTypes
  BY DEF ClientInv
<1>2. CASE Ends(p)
  BY <1>1, <1>2, EndsFit, RestDelivers
<1>3. CASE \E pc \in ApplierSteps : Goes(p, pc) /\ AnswerFits(q, pc, proc[p].left)
  <2>1. PICK pc \in ApplierSteps : Goes(p, pc) /\ AnswerFits(q, pc, proc[p].left)
    BY <1>3
  <2>2. OnlyMoves(p) /\ proc'[p].pc = pc /\ proc'[p].q = q /\ proc'[p].left = proc[p].left
    BY <1>1, <2>1, ApplierGoes DEF Moves
  <2>3. IsApplier(p)'
    BY <2>2 DEF IsApplier
  <2>4. AnswerFits(q, proc[p].pc, proc[p].left)'
    BY <2>1, <2>2 DEF AnswerFits
  <2>5. WorkOK(p)' /\ \A o \in Procs : o # p => proc'[o] = proc[o]
    BY <2>2, <2>3, <2>4, ApplierFits
  <2> QED
    BY <2>5, RestDelivers
<1> QED
  BY <1>2, <1>3

LEMMA ReopeningDelivers ==
  ASSUME ClientInv, DeliveryInv, OneAtATime, NEW p \in Procs, IsApplier(p), NEW q, q = proc[p].q,
         question[q].state = "applying", ~Committed(question[q].pending),
         question' = Reopened(q), UNCHANGED route, Ends(p)
  PROVE  DeliveryInv' /\ Delivers
<1>1. /\ q \in Asked /\ q \in Questions /\ ClientTypes /\ Shown(q)
      /\ p \in Appliers /\ question[q].attn \in Received
  BY AtApply
<1>2. PICK it \in StoredQuestion : /\ Reopened(q) = [question EXCEPT ![q] = it]
                                   /\ it = Planned(q, NoActions, Nothing, "awaiting_reply")
  BY <1>1, ReopenedShape
<1>3. "awaiting_reply" \in Open \cup Closed /\ "applying" \in Open
  BY DEF Open
<1>4. NoActions \in Receipts /\ DOMAIN NoActions = {}
  BY NothingPlanned
<1>5. /\ it.pending = NoActions /\ it.state = "awaiting_reply"
      /\ it.attn = question[q].attn /\ it.blind = question[q].blind
  <2>1. Nothing \in Submissions \cup {Nothing}
    OBVIOUS
  <2> QED
    BY <1>1, <1>2, <1>3, <1>4, <2>1, PlannedShape
<1>6. Rewrites(q, it)
  BY <1>2 DEF Rewrites
<1>7. question'[q] = it
  BY <1>1, <1>6, OneQuestion
<1>8. Keeps(q)
  BY DEF Keeps, Committed
<1>9. ReplyOK(q)'
  BY <1>1, <1>4, <1>5, <1>7 DEF ReplyOK, Committed
<1>10. WorkOK(p)' /\ \A o \in Procs : o # p => proc'[o] = proc[o]
  BY <1>1, EndsFit
<1> QED
  BY <1>1, <1>3, <1>5, <1>6, <1>8, <1>9, <1>10, ApplierRecords

LEMMA ApplyProofDelivers ==
  ASSUME ClientInv, DeliveryInv, OneAtATime, NEW p \in Procs, NEW heard \in BOOLEAN, ApplyProof(p, heard)
  PROVE  DeliveryInv' /\ Delivers
<1>0. PICK q : q = proc[p].q
  OBVIOUS
<1>1. IsApplier(p) /\ proc[p].pc = "proof" /\ UNCHANGED route /\ "next" \in ApplierSteps
  BY DEF ApplyProof, IsApplier, ApplierSteps
<1>2. AnswerFits(q, "proof", proc[p].left)
  BY <1>0, <1>1, AtApply
<1>3. AnswerFits(q, "next", proc[p].left)
  BY <1>2 DEF AnswerFits
<1>4. CASE question' = question
  BY <1>0, <1>1, <1>3, <1>4, ApplierLooksOn DEF ApplyProof
<1>5. CASE question' # question
  <2>1. /\ ~heard /\ question[q].state = "applying" /\ ~Committed(question[q].pending)
        /\ question' = Reopened(q)
    BY <1>0, <1>5 DEF ApplyProof
  <2>2. Ends(p)
    BY <2>1 DEF ApplyProof
  <2> QED
    BY <1>0, <1>1, <2>1, <2>2, ReopeningDelivers
<1> QED
  BY <1>4, <1>5

LEMMA ApplyInvalidDelivers ==
  ASSUME ClientInv, DeliveryInv, OneAtATime, NEW p \in Procs, ApplyInvalid(p)
  PROVE  DeliveryInv' /\ Delivers
<1>0. PICK q : q = proc[p].q
  OBVIOUS
<1>1. IsApplier(p) /\ UNCHANGED route /\ Ends(p)
  BY DEF ApplyInvalid, IsApplier, ApplierSteps
<1>2. CASE question' = question
  BY <1>0, <1>1, <1>2, ApplierLooksOn
<1>3. CASE question' # question
  <2>1. /\ question[q].state = "applying" /\ ~Committed(question[q].pending)
        /\ question' = Reopened(q)
    BY <1>0, <1>3 DEF ApplyInvalid
  <2> QED
    BY <1>0, <1>1, <2>1, ReopeningDelivers
<1> QED
  BY <1>2, <1>3

LEMMA ApplyPostDelivers ==
  ASSUME ClientInv, DeliveryInv, NEW p \in Procs, NEW heard \in BOOLEAN, ApplyPost(p, heard)
  PROVE  DeliveryInv' /\ Delivers
<1>0. PICK q : q = proc[p].q
  OBVIOUS
<1>1. /\ IsApplier(p) /\ proc[p].pc = "post" /\ UNCHANGED <<question, route>> /\ "receipt" \in ApplierSteps
      /\ Goes(p, "receipt") \/ Ends(p)
  BY DEF ApplyPost, IsApplier, ApplierSteps
<1>2. AnswerFits(q, "post", proc[p].left)
  BY <1>0, <1>1, AtApply
<1>3. AnswerFits(q, "receipt", proc[p].left)
  BY <1>2 DEF AnswerFits
<1> QED
  BY <1>0, <1>1, <1>3, ApplierLooksOn

(* The item that it looks at has been left so far.                          *)
LEMMA ApplyNextDelivers ==
  ASSUME ClientInv, DeliveryInv, NEW p \in Procs, ApplyNext(p)
  PROVE  DeliveryInv' /\ Delivers
<1>0. PICK q : q = proc[p].q
  OBVIOUS
<1>1. PICK left : left = proc[p].left
  OBVIOUS
<1>2. PICK i : i = Min(left)
  OBVIOUS
<1>3. /\ IsApplier(p) /\ proc[p].pc = "next" /\ UNCHANGED <<question, route>>
      /\ {"finish", "read", "post"} \subseteq ApplierSteps
  BY DEF ApplyNext, IsApplier, ApplierSteps
<1>4. AnswerFits(q, "next", left) /\ question[q] \in StoredQuestion
  BY <1>0, <1>1, <1>3, AtApply
<1>5. \/ Ends(p)
      \/ left = {} /\ Goes(p, "finish")
      \/ i \in DOMAIN question[q].pending /\ question[q].pending[i] = "committed" /\ Goes(p, "read")
      \/ /\ i \in DOMAIN question[q].pending /\ question[q].pending[i] \notin {"committed", "verified"}
         /\ Goes(p, "post")
      \/ question[q].pending[i] = "verified" /\ proc' = [proc EXCEPT ![p].left = @ \ {i}]
  BY <1>0, <1>1, <1>2 DEF ApplyNext
<1>6. CASE Ends(p)
  BY <1>0, <1>3, <1>6, ApplierLooksOn
<1>7. CASE left = {} /\ Goes(p, "finish")
  <2>1. AnswerFits(q, "finish", left)
    BY <1>4, <1>7 DEF AnswerFits
  <2> QED
    BY <1>0, <1>1, <1>3, <1>7, <2>1, ApplierLooksOn
<1>8. CASE i \in DOMAIN question[q].pending /\ question[q].pending[i] = "committed" /\ Goes(p, "read")
  <2>1. AnswerFits(q, "read", left)
    BY <1>2, <1>4, <1>8 DEF AnswerFits
  <2> QED
    BY <1>0, <1>1, <1>3, <1>8, <2>1, ApplierLooksOn
<1>9. CASE /\ i \in DOMAIN question[q].pending /\ question[q].pending[i] \notin {"committed", "verified"}
           /\ Goes(p, "post")
  <2>1. AnswerFits(q, "post", left)
    BY <1>2, <1>4, <1>9 DEF AnswerFits
  <2> QED
    BY <1>0, <1>1, <1>3, <1>9, <2>1, ApplierLooksOn
<1>10. CASE question[q].pending[i] = "verified" /\ proc' = [proc EXCEPT ![p].left = @ \ {i}]
  <2>1. proc[p] \in ApplierWork /\ proc \in [Procs -> Work]
    BY <1>3, ApplierAtWork DEF ClientInv, ClientTypes
  <2>2. proc'[p].left = left \ {i} /\ proc'[p].pc = "next" /\ proc'[p].q = q
    BY <1>0, <1>1, <1>3, <1>10, <2>1 DEF ApplierWork
  <2>3. \A o \in Procs : o # p => proc'[o] = proc[o]
    BY <1>10, <2>1
  <2>4. AnswerFits(q, proc[p].pc, proc[p].left)'
    <3>1. AnswerFits(q, "next", left \ {i})
      BY <1>4, <1>10 DEF AnswerFits
    <3> QED
      BY <1>3, <2>2, <3>1 DEF AnswerFits
  <2>5. IsApplier(p)' /\ ~IsDispatcher(p)' /\ ~IsCanceller(p)'
    BY <2>2 DEF IsApplier, IsDispatcher, IsCanceller, ApplierSteps, DispatcherSteps, CancellerSteps
  <2>6. WorkOK(p)'
    <3>1. PICK rest : rest = proc'[p].left
      OBVIOUS
    <3>2. AnswerFits(q, "next", rest)'
      BY <2>2, <2>4, <3>1 DEF AnswerFits
    <3> QED
      BY <2>2, <2>5, <3>1, <3>2 DEF WorkOK, AnswerFits
  <2> QED
    BY <1>3, <2>3, <2>6, RestDelivers
<1> QED
  BY <1>5, <1>6, <1>7, <1>8, <1>9, <1>10

(* A plan takes up the receipts of the one before, or begins without any.   *)
LEMMA ApplyPlanDelivers ==
  ASSUME ClientInv, DeliveryInv, OneAtATime, NEW p \in Procs, p \in Appliers, NEW q \in Questions,
         NEW s \in Submissions, ApplyPlan(p, q, s)
  PROVE  DeliveryInv' /\ Delivers
<1>0. PICK todo : todo = Acting(s) \ (question[q].resolved \cup question[q].deferred)
  OBVIOUS
<1>1. PICK pending : pending = IF question[q].state \in {"applying", "committed_unverified"}
                                 THEN question[q].pending ELSE [i \in todo |-> "planned"]
  OBVIOUS
<1>2. PICK state : state = IF Committed(pending) THEN "committed_unverified" ELSE "applying"
  OBVIOUS
<1>3. PICK w : w = [pc |-> IF question[q].state = "committed_unverified" THEN "next" ELSE "proof",
                    q |-> q, s |-> s, left |-> todo,
                    before |-> question[q].resolved \cup question[q].deferred]
  OBVIOUS
<1>4. /\ q \in Asked /\ question[q].state \in {"awaiting_reply", "applying", "committed_unverified"}
      /\ UNCHANGED route
      /\ question[q].state \in {"applying", "committed_unverified"} => DOMAIN question[q].pending = todo
      /\ question' = [question EXCEPT ![q].pending = pending, ![q].plan = s, ![q].state = state]
      /\ Becomes(p, w)
  BY <1>0, <1>1, <1>2, <1>3, Zenon DEF ApplyPlan
<1>5. ClientTypes /\ question[q] \in StoredQuestion /\ ReplyOK(q)
  BY <1>4, AskedQuestion DEF ClientInv, DeliveryInv
<1>6. question[q].attn \in Received
  BY <1>4, <1>5 DEF ReplyOK, ShownStates
<1>7. todo \subseteq Items
  <2>1. DOMAIN Answers[s] \subseteq Items
    BY ClientAssumption
  <2> QED
    BY <1>0, <2>1 DEF Acting
<1>8. pending \in Receipts /\ DOMAIN pending = todo
  <2>1. CASE question[q].state \in {"applying", "committed_unverified"}
    BY <1>1, <1>4, <1>5, <2>1 DEF StoredQuestion
  <2>2. CASE question[q].state \notin {"applying", "committed_unverified"}
    <3>1. pending \in [todo -> {"planned", "committed", "verified"}]
      BY <1>1, <2>2
    <3> QED
      BY <1>7, <3>1 DEF Receipts
  <2> QED
    BY <2>1, <2>2
<1>9. state \in {"applying", "committed_unverified"} /\ (Committed(pending) => state = "committed_unverified")
  BY <1>2
<1>10. state \in Open \cup Closed /\ question[q].state \in Open
  BY <1>4, <1>9 DEF Open
<1>11. PICK it : it = Planned(q, pending, s, state)
  OBVIOUS
<1>12. /\ it \in StoredQuestion /\ it.pending = pending /\ it.state = state
       /\ it.attn = question[q].attn /\ it.blind = question[q].blind
  <2>1. s \in Submissions \cup {Nothing}
    OBVIOUS
  <2> QED
    BY <1>4, <1>8, <1>10, <1>11, <2>1, PlannedShape
<1>13. Rewrites(q, it)
  BY <1>4, <1>5, <1>11, <1>12 DEF Planned, ClientTypes, Rewrites
<1>14. question'[q] = it
  BY <1>5, <1>13, OneQuestion
<1>15. Keeps(q)
  <2>1. CASE question[q].state \in {"applying", "committed_unverified"}
    BY <1>1, <1>12, <1>14, <2>1 DEF Keeps
  <2>2. CASE question[q].state \notin {"applying", "committed_unverified"}
    BY <1>5, <2>2 DEF Keeps, ReplyOK, Committed
  <2> QED
    BY <2>1, <2>2
<1>16. ReplyOK(q)'
  BY <1>6, <1>9, <1>12, <1>14 DEF ReplyOK, Committed
<1>17. w \in ApplierWork /\ w.q = q /\ w.pc \in {"next", "proof"} /\ w.left = todo
  <2>1. question[q].resolved \cup question[q].deferred \subseteq Items
    BY <1>5 DEF StoredQuestion
  <2> QED
    BY <1>3, <1>7, <2>1 DEF ApplierWork, ApplierSteps
<1>18. OnlyMoves(p) /\ proc'[p] = w
  BY <1>4, <1>5, <1>17, CommandBecomes DEF Work
<1>19. IsApplier(p)' /\ proc'[p].q = q
  BY <1>17, <1>18 DEF IsApplier, ApplierSteps
<1>20. AnswerFits(q, proc[p].pc, proc[p].left)'
  BY <1>6, <1>8, <1>9, <1>12, <1>14, <1>17, <1>18 DEF AnswerFits
<1>21. WorkOK(p)' /\ \A o \in Procs : o # p => proc'[o] = proc[o]
  BY <1>18, <1>19, <1>20, ApplierFits
<1> QED
  BY <1>4, <1>6, <1>10, <1>12, <1>13, <1>15, <1>16, <1>21, ApplierRecords

LEMMA ApplyConflictDelivers ==
  ASSUME ClientInv, DeliveryInv, OneAtATime, NEW p \in Procs, ApplyConflict(p)
  PROVE  DeliveryInv' /\ Delivers
<1>0. PICK q : q = proc[p].q
  OBVIOUS
<1>1. IsApplier(p) /\ UNCHANGED route /\ Ends(p)
  BY DEF ApplyConflict, IsApplier, ApplierSteps
<1>2. /\ q \in Asked /\ q \in Questions /\ ClientTypes /\ Shown(q)
      /\ p \in Appliers /\ question[q].attn \in Received
  BY <1>0, <1>1, AtApply
<1>3. CASE question' = question
  BY <1>0, <1>1, <1>3, ApplierLooksOn
<1>4. CASE question' # question
  <2>1. ~Committed(question[q].pending) /\ question' = [question EXCEPT ![q].state = "stale"]
    BY <1>0, <1>4 DEF ApplyConflict
  <2>2. PICK it : it = WithState(q, "stale")
    OBVIOUS
  <2>3. "stale" \in Open \cup Closed /\ "stale" \notin Open \cup ShownStates
    BY DEF Open, Closed, ShownStates
  <2>4. /\ it \in StoredQuestion /\ it.state = "stale" /\ it.pending = question[q].pending
        /\ it.attn = question[q].attn /\ it.blind = question[q].blind
    BY <1>2, <2>2, <2>3, StateShape
  <2>5. Rewrites(q, it)
    BY <1>2, <2>1, <2>2, <2>4 DEF WithState, ClientTypes, Rewrites
  <2>6. question'[q] = it
    BY <1>2, <2>5, OneQuestion
  <2>7. Keeps(q) /\ ReplyOK(q)'
    BY <2>1, <2>3, <2>4, <2>6 DEF Keeps, ReplyOK, Committed
  <2>8. WorkOK(p)' /\ \A o \in Procs : o # p => proc'[o] = proc[o]
    BY <1>1, <1>2, EndsFit
  <2> QED
    BY <1>1, <1>2, <2>3, <2>4, <2>5, <2>7, <2>8, ApplierRecords
<1> QED
  BY <1>3, <1>4

LEMMA ApplyReceiptDelivers ==
  ASSUME ClientInv, DeliveryInv, OneAtATime, NEW p \in Procs, ApplyReceipt(p)
  PROVE  DeliveryInv' /\ Delivers
<1>0. PICK q : q = proc[p].q
  OBVIOUS
<1>1. PICK left : left = proc[p].left
  OBVIOUS
<1>2. PICK i : i = Min(left)
  OBVIOUS
<1>3. IsApplier(p) /\ proc[p].pc = "receipt" /\ UNCHANGED route /\ "read" \in ApplierSteps
  BY DEF ApplyReceipt, IsApplier, ApplierSteps
<1>4. /\ q \in Asked /\ q \in Questions /\ ClientTypes /\ Shown(q) /\ question[q] \in StoredQuestion
      /\ p \in Appliers /\ question[q].attn \in Received /\ AnswerFits(q, "receipt", left)
  BY <1>0, <1>1, <1>3, AtApply
<1>5. CASE i \notin DOMAIN question[q].pending
  <2>1. UNCHANGED question /\ Ends(p)
    BY <1>0, <1>1, <1>2, <1>5 DEF ApplyReceipt
  <2> QED
    BY <1>0, <1>3, <2>1, ApplierLooksOn
<1>6. CASE i \in DOMAIN question[q].pending
  <2>1. /\ question' = [question EXCEPT ![q].pending[i] = "committed", ![q].state = "committed_unverified"]
        /\ Goes(p, "read")
    BY <1>0, <1>1, <1>2, <1>6 DEF ApplyReceipt
  <2>2. PICK it : it = WithReceipt(q, i, "committed", "committed_unverified")
    OBVIOUS
  <2>3. "committed_unverified" \in Open \cup Closed /\ {"applying", "committed_unverified"} \subseteq Open
    BY DEF Open
  <2>4. /\ it \in StoredQuestion /\ it.state = "committed_unverified"
        /\ it.attn = question[q].attn /\ it.blind = question[q].blind
        /\ DOMAIN it.pending = DOMAIN question[q].pending /\ it.pending[i] = "committed"
        /\ \A j \in DOMAIN it.pending : j # i => it.pending[j] = question[q].pending[j]
    BY <1>4, <1>6, <2>2, <2>3, ReceiptShape
  <2>5. question' = [question EXCEPT ![q] = it]
    BY <1>4, <1>6, <2>1, <2>2 DEF WithReceipt, ClientTypes, StoredQuestion
  <2>6. Rewrites(q, it)
    BY <2>4, <2>5 DEF Rewrites
  <2>7. question'[q] = it
    BY <1>4, <2>6, OneQuestion
  <2>8. Keeps(q)
    BY <2>4, <2>7 DEF Keeps
  <2>9. ReplyOK(q)'
    BY <1>4, <2>4, <2>7 DEF ReplyOK
  <2>10. OnlyMoves(p) /\ proc'[p].pc = "read" /\ proc'[p].q = q /\ proc'[p].left = left
    BY <1>0, <1>1, <1>3, <1>4, <2>1, ApplierGoes DEF Moves
  <2>11. IsApplier(p)'
    BY <1>3, <2>10 DEF IsApplier
  <2>12. AnswerFits(q, proc[p].pc, proc[p].left)'
    <3>1. AnswerFits(q, "read", left)'
      BY <1>2, <1>4, <1>6, <2>4, <2>7 DEF AnswerFits
    <3> QED
      BY <2>10, <3>1 DEF AnswerFits
  <2>13. WorkOK(p)' /\ \A o \in Procs : o # p => proc'[o] = proc[o]
    BY <2>10, <2>11, <2>12, ApplierFits
  <2>14. question[q].state \in Open
    BY <1>4, <2>3 DEF AnswerFits
  <2> QED
    BY <1>3, <1>4, <2>4, <2>6, <2>8, <2>9, <2>13, <2>14, ApplierRecords
<1> QED
  BY <1>5, <1>6

LEMMA ApplyReadDelivers ==
  ASSUME ClientInv, DeliveryInv, OneAtATime, NEW p \in Procs, NEW verified \in BOOLEAN, ApplyRead(p, verified)
  PROVE  DeliveryInv' /\ Delivers
<1>0. PICK q : q = proc[p].q
  OBVIOUS
<1>1. PICK left : left = proc[p].left
  OBVIOUS
<1>2. PICK i : i = Min(left)
  OBVIOUS
<1>3. IsApplier(p) /\ proc[p].pc = "read" /\ UNCHANGED route
  BY DEF ApplyRead, IsApplier, ApplierSteps
<1>4. /\ q \in Asked /\ q \in Questions /\ ClientTypes /\ Shown(q) /\ question[q] \in StoredQuestion
      /\ p \in Appliers /\ question[q].attn \in Received /\ AnswerFits(q, "read", left) /\ ReplyOK(q)
  BY <1>0, <1>1, <1>3, AtApply
<1>5. /\ i \in DOMAIN question[q].pending /\ question[q].pending[i] = "committed"
      /\ question[q].state = "committed_unverified"
  BY <1>2, <1>4 DEF AnswerFits, ReplyOK, Committed
<1>6. "committed_unverified" \in Open \cup Closed /\ "committed_unverified" \in Open
  BY DEF Open
<1>7. CASE ~verified
  <2>1. question' = [question EXCEPT ![q].state = "committed_unverified"] /\ Ends(p)
    BY <1>0, <1>7 DEF ApplyRead
  <2>2. question' = question
    BY <1>4, <1>5, <2>1 DEF ClientTypes, StoredQuestion
  <2> QED
    BY <1>0, <1>3, <2>1, <2>2, ApplierLooksOn
<1>8. CASE verified
  <2>1. /\ question' = [question EXCEPT ![q].pending[i] = "verified"] /\ ReadsBack(p)
        /\ proc' = [proc EXCEPT ![p].pc = "next", ![p].left = @ \ {i}]
    BY <1>0, <1>1, <1>2, <1>5, <1>8 DEF ApplyRead
  <2>2. PICK it : it = WithReceipt(q, i, "verified", "committed_unverified")
    OBVIOUS
  <2>3. actions[q][i] # Nothing
    <3>1. proc[p].s # Nothing
      BY <1>3, ApplierAtWork
    <3> QED
      BY <1>0, <1>1, <1>2, <2>1, <3>1 DEF ReadsBack
  <2>4. /\ it \in StoredQuestion /\ it.state = "committed_unverified"
        /\ it.attn = question[q].attn /\ it.blind = question[q].blind
        /\ DOMAIN it.pending = DOMAIN question[q].pending /\ it.pending[i] = "verified"
        /\ \A j \in DOMAIN it.pending : j # i => it.pending[j] = question[q].pending[j]
    BY <1>4, <1>5, <1>6, <2>2, <2>3, ReceiptShape
  <2>5. question' = [question EXCEPT ![q] = it]
    <3>1. it = [question[q] EXCEPT !.pending = [question[q].pending EXCEPT ![i] = "verified"]]
      BY <1>4, <1>5, <2>2 DEF WithReceipt, StoredQuestion
    <3> QED
      BY <1>4, <2>1, <3>1 DEF ClientTypes, StoredQuestion
  <2>6. Rewrites(q, it)
    BY <2>4, <2>5 DEF Rewrites
  <2>7. question'[q] = it
    BY <1>4, <2>6, OneQuestion
  <2>8. Keeps(q)
    BY <2>4, <2>7 DEF Keeps
  <2>9. ReplyOK(q)'
    BY <1>4, <2>4, <2>7 DEF ReplyOK
  <2>10. proc[p] \in ApplierWork /\ proc \in [Procs -> Work]
    BY <1>3, <1>4, ApplierAtWork DEF ClientTypes
  <2>11. proc'[p].left = left \ {i} /\ proc'[p].pc = "next" /\ proc'[p].q = q
    BY <1>0, <1>1, <2>1, <2>10 DEF ApplierWork
  <2>12. \A o \in Procs : o # p => proc'[o] = proc[o]
    BY <2>1, <2>10
  <2>13. WorkOK(p)'
    <3>1. IsApplier(p)' /\ ~IsDispatcher(p)' /\ ~IsCanceller(p)'
      BY <2>11 DEF IsApplier, IsDispatcher, IsCanceller, ApplierSteps, DispatcherSteps, CancellerSteps
    <3>2. PICK rest : rest = left \ {i}
      OBVIOUS
    <3>3. AnswerFits(q, "next", rest)'
      BY <1>4, <2>4, <2>7, <3>2 DEF AnswerFits
    <3> QED
      BY <2>11, <3>1, <3>2, <3>3 DEF WorkOK, AnswerFits
  <2> QED
    BY <1>3, <1>4, <1>5, <1>6, <2>4, <2>6, <2>8, <2>9, <2>12, <2>13, ApplierRecords
<1> QED
  BY <1>7, <1>8

LEMMA ApplyFinishDelivers ==
  ASSUME ClientInv, DeliveryInv, OneAtATime, NEW p \in Procs, ApplyFinish(p)
  PROVE  DeliveryInv' /\ Delivers
<1>0. PICK q : q = proc[p].q
  OBVIOUS
<1>1. PICK now : now = Decides(p, {"act", "keep"})
  OBVIOUS
<1>2. PICK later : later = Decides(p, {"unsure"})
  OBVIOUS
<1>3. /\ IsApplier(p) /\ proc[p].pc = "finish" /\ UNCHANGED route /\ Goes(p, "result")
      /\ "result" \in ApplierSteps
  BY DEF ApplyFinish, IsApplier, ApplierSteps
<1>4. now \subseteq Items /\ later \subseteq Items
  BY <1>1, <1>2, <1>3, DecidesItems
<1>5. PICK left : left = proc[p].left
  OBVIOUS
<1>6. /\ q \in Asked /\ q \in Questions /\ ClientTypes /\ Shown(q) /\ question[q] \in StoredQuestion
      /\ p \in Appliers /\ question[q].attn \in Received /\ AnswerFits(q, "finish", left)
  BY <1>0, <1>3, <1>5, AtApply
<1>7. PICK resolved : resolved = question[q].resolved \cup now
  OBVIOUS
<1>8. PICK deferred : deferred = question[q].deferred \cup later
  OBVIOUS
<1>9. PICK outcomes : outcomes = question[q].outcomes \cup Verified(q)
  OBVIOUS
<1>10. PICK state : state = IF question[q].items \ (resolved \cup deferred) # {} THEN "awaiting_reply"
                            ELSE IF deferred # {} THEN "deferred" ELSE "verified_applied"
  OBVIOUS
<1>11. PICK it : it = Finished(q, resolved, deferred, outcomes, state)
  OBVIOUS
<1>12. resolved \in SUBSET Items /\ deferred \in SUBSET Items /\ state \in Open \cup Closed
  BY <1>4, <1>6, <1>7, <1>8, <1>10 DEF StoredQuestion, Open, Closed
<1>13. /\ it \in StoredQuestion /\ it.outcomes = outcomes /\ it.pending = NoActions
       /\ it.attn = question[q].attn /\ it.blind = question[q].blind
  BY <1>6, <1>9, <1>11, <1>12, FinishedShape
<1>14. question' = [question EXCEPT ![q] = it]
  <2>1. question' = [question EXCEPT ![q] =
           [question[q] EXCEPT !.resolved = resolved, !.deferred = deferred, !.pending = NoActions,
              !.outcomes = @ \cup Verified(q), !.state = state]]
    BY <1>0, <1>1, <1>2, <1>7, <1>8, <1>10, Zenon DEF ApplyFinish, Verified
  <2>2. it = [question[q] EXCEPT !.resolved = resolved, !.deferred = deferred, !.pending = NoActions,
                !.outcomes = @ \cup Verified(q), !.state = state]
    BY <1>6, <1>9, <1>11 DEF Finished, StoredQuestion
  <2> QED
    BY <2>1, <2>2
<1>15. Rewrites(q, it)
  BY <1>13, <1>14 DEF Rewrites
<1>16. question'[q] = it
  BY <1>6, <1>15, OneQuestion
<1>17. Keeps(q)
  BY <1>6, <1>9, <1>13, <1>16 DEF Keeps, AnswerFits, Verified
<1>18. ReplyOK(q)'
  BY <1>6, <1>13, <1>16, NothingPlanned DEF ReplyOK, Committed
<1>19. OnlyMoves(p) /\ proc'[p].pc = "result" /\ proc'[p].q = q
  BY <1>0, <1>3, <1>6, ApplierGoes DEF Moves
<1>20. IsApplier(p)'
  BY <1>3, <1>19 DEF IsApplier
<1>21. AnswerFits(q, proc[p].pc, proc[p].left)'
  BY <1>6, <1>13, <1>16, <1>19 DEF AnswerFits
<1>22. WorkOK(p)' /\ \A o \in Procs : o # p => proc'[o] = proc[o]
  BY <1>19, <1>20, <1>21, ApplierFits
<1>23. question[q].state \in Open
  BY <1>6 DEF AnswerFits, Open
<1> QED
  BY <1>3, <1>6, <1>13, <1>15, <1>17, <1>18, <1>22, <1>23, ApplierRecords

LEMMA ApplyResultDelivers ==
  ASSUME ClientInv, DeliveryInv, OneAtATime, NEW p \in Procs, ApplyResult(p)
  PROVE  DeliveryInv' /\ Delivers
<1>0. PICK q : q = proc[p].q
  OBVIOUS
<1>1. IsApplier(p) /\ UNCHANGED route /\ Ends(p)
  BY DEF ApplyResult, IsApplier, ApplierSteps
<1>2. /\ q \in Asked /\ q \in Questions /\ ClientTypes /\ question[q] \in StoredQuestion
      /\ p \in Appliers /\ question[q].attn \in Received /\ ReplyOK(q)
  BY <1>0, <1>1, AtApply
<1>3. proc[p].s \in Submissions
  BY <1>1, ApplierAtWork
<1>4. CASE question' = question
  BY <1>0, <1>1, <1>4, ApplierLooksOn
<1>5. CASE question' = [question EXCEPT ![q].last = proc[p].s, ![q].plan = Nothing]
  <2>1. PICK it : it = [question[q] EXCEPT !.last = proc[p].s, !.plan = Nothing]
    OBVIOUS
  <2>2. /\ it \in StoredQuestion /\ it.state = question[q].state /\ it.pending = question[q].pending
        /\ it.attn = question[q].attn /\ it.blind = question[q].blind
    BY <1>2, <1>3, <2>1 DEF StoredQuestion
  <2>3. Rewrites(q, it)
    BY <1>2, <1>5, <2>1, <2>2 DEF ClientTypes, Rewrites
  <2>4. question'[q] = it
    BY <1>2, <2>3, OneQuestion
  <2>5. Keeps(q) /\ ReplyOK(q)'
    BY <1>2, <2>2, <2>4 DEF Keeps, ReplyOK, Committed
  <2>6. WorkOK(p)' /\ \A o \in Procs : o # p => proc'[o] = proc[o]
    BY <1>1, <1>2, EndsFit
  <2> QED
    BY <1>1, <1>2, <2>2, <2>3, <2>5, <2>6, ApplierRecords
<1>6. question' = question \/ question' = [question EXCEPT ![q].last = proc[p].s, ![q].plan = Nothing]
  BY <1>0 DEF ApplyResult
<1> QED
  BY <1>4, <1>5, <1>6

-----------------------------------------------------------------------------
(* A new question, while none is open.                                      *)
LEMMA NewDelivers ==
  ASSUME ClientInv, DeliveryInv, NEW q \in Questions, q \notin Asked, OpenQuestions = {},
         NEW it, Rewrites(q, it), UNCHANGED <<route, proc>>,
         it.state = "staged", it.attn = "none", it.pending = NoActions
  PROVE  DeliveryInv' /\ Delivers
<1>1. ClientTypes /\ intent' = intent /\ conv' = conv /\ proc' = proc /\ Asked \subseteq Questions
  BY DEF ClientInv, route, Asked
<1>2. /\ question'[q] = it /\ Asked' = Asked \cup {q}
      /\ \A r \in Questions : r # q => question'[r] = question[r]
  BY <1>1, OneQuestion
<1>3. ASSUME NEW r \in Questions PROVE IntentOK(r)'
  <2>1. IntentOK(r)
    BY DEF DeliveryInv
  <2>2. CASE r = q
    BY <1>1, <1>2, <2>1, <2>2 DEF IntentOK
  <2>3. CASE r # q
    BY <1>1, <1>2, <2>1, <2>3 DEF IntentOK
  <2> QED
    BY <2>2, <2>3
<1>4. ASSUME NEW r \in Asked' PROVE ReplyOK(r)'
  <2>1. CASE r = q
    BY <1>2, <2>1, NothingPlanned DEF ReplyOK, ShownStates, Committed
  <2>2. CASE r # q
    <3>1. r \in Asked /\ question'[r] = question[r]
      BY <1>1, <1>2, <2>2
    <3> QED
      BY <3>1 DEF DeliveryInv, ReplyOK, Committed
  <2> QED
    BY <2>1, <2>2
<1>5. ASSUME NEW o \in Procs PROVE WorkOK(o)'
  <2>1. PICK r : r = proc[o].q
    OBVIOUS
  <2>2. WorkOK(o) /\ proc'[o] = proc[o]
    BY <1>1 DEF DeliveryInv
  <2>3. CASE IsDispatcher(o) \/ IsCanceller(o) \/ IsApplier(o)
    <3>1. r \in Asked /\ r # q
      BY <2>1, <2>3, AtWork
    <3>2. question'[r] = question[r] /\ intent'[r] = intent[r]
      BY <1>1, <1>2, <3>1
    <3>3. Calm(r) /\ ForDispatcher(r) /\ ForApplier(r)
      BY <3>2 DEF Calm, ForDispatcher, ForApplier, Showable
    <3> QED
      BY <2>1, <2>2, <3>3, StaysFit
  <2>4. CASE ~(IsDispatcher(o) \/ IsCanceller(o) \/ IsApplier(o))
    BY <2>2, <2>4 DEF WorkOK, IsDispatcher, IsCanceller, IsApplier
  <2> QED
    BY <2>3, <2>4
<1>6. OneOpen'
  <2>1. ASSUME NEW r \in OpenQuestions' PROVE r = q
    <3>1. r \in Asked' /\ question'[r].state \in Open
      BY DEF OpenQuestions
    <3>2. r # q => r \in OpenQuestions
      BY <1>1, <1>2, <3>1 DEF OpenQuestions
    <3> QED
      BY <3>2
  <2> QED
    BY <2>1 DEF OneOpen
<1>7. Delivers
  <2>1. ASSUME NEW r \in Asked PROVE Keeps(r)
    <3>1. question'[r] = question[r]
      BY <1>1, <1>2
    <3> QED
      BY <3>1 DEF Keeps
  <2> QED
    BY <1>1, <2>1 DEF Delivers, ShowsStaged
<1> QED
  BY <1>3, <1>4, <1>5, <1>6, <1>7 DEF DeliveryInv

LEMMA StageDelivers ==
  ASSUME ClientInv, DeliveryInv, NEW q \in Questions, NEW plan \in StagePlans, Stage(q, plan)
  PROVE  DeliveryInv' /\ Delivers
<1>1. /\ UNCHANGED <<route, proc>>
      /\ question' = question \/ (q \notin Asked /\ Rewrites(q, NewQuestion(Members(plan))))
  BY StageInv
<1>2. OpenQuestions = {}
  BY DEF Stage
<1>3. CASE question' = question
  BY <1>1, <1>3, RestDelivers
<1>4. CASE q \notin Asked /\ Rewrites(q, NewQuestion(Members(plan)))
  <2>1. Members(plan) \in SUBSET Items
    BY PlanShape DEF ClientInv, Members, Questioned
  <2>2. PICK it : it = NewQuestion(Members(plan))
    OBVIOUS
  <2>3. it.state = "staged" /\ it.attn = "none" /\ it.pending = NoActions
    BY <2>1, <2>2, NewQuestionFits
  <2> QED
    BY <1>1, <1>2, <1>4, <2>2, <2>3, NewDelivers
<1> QED
  BY <1>1, <1>3, <1>4

LEMMA ReissueDelivers ==
  ASSUME ClientInv, DeliveryInv, NEW old \in Questions, NEW q \in Questions, Reissue(old, q)
  PROVE  DeliveryInv' /\ Delivers
<1>1. /\ q \notin Asked /\ UNCHANGED <<route, proc>>
      /\ \E it \in StoredQuestion : /\ Rewrites(q, it) /\ it.state = "staged" /\ it.attn = "none"
                                    /\ it.pending = NoActions
  BY ReissueInv
<1>2. OpenQuestions = {}
  BY DEF Reissue
<1> QED
  BY <1>1, <1>2, NewDelivers

(* What does not touch the questions or the route.                          *)
LEMMA QuietDelivers ==
  ASSUME ClientInv, DeliveryInv,
         \/ \E p \in Preparers : Prepare(p)
         \/ \E i \in Items : RecordsChange(i) \/ CooldownEnds(i)
         \/ \E p \in Procs : Crash(p)
  PROVE  DeliveryInv' /\ Delivers
<1>1. UNCHANGED <<question, route>>
  BY DEF Prepare, PrepareRead, PrepareStore, RecordsChange, CooldownEnds, Crash
<1>2. ClientTypes /\ Preparers \subseteq Procs
  BY DEF ClientInv, Procs
<1>3. CASE UNCHANGED proc
  BY <1>1, <1>3, RestDelivers
<1>4. CASE \E p \in Procs : Ends(p)
  BY <1>1, <1>2, <1>4, EndsFit, RestDelivers
<1>5. CASE \E p \in Preparers, latest \in Runs \cup {0} : PrepareRead(p, latest)
  <2>1. PICK p \in Procs : OnlyMoves(p) /\ proc'[p].pc = "store"
    BY <1>2, <1>5, PrepareReadInv
  <2>2. WorkOK(p)' /\ \A o \in Procs : o # p => proc'[o] = proc[o]
    BY <2>1, Unconcerned DEF OnlyMoves
  <2> QED
    BY <1>1, <2>2, RestDelivers
<1>6. \/ UNCHANGED proc \/ (\E p \in Procs : Ends(p))
      \/ \E p \in Preparers, latest \in Runs \cup {0} : PrepareRead(p, latest)
  BY <1>2 DEF Prepare, PrepareStore, RecordsChange, CooldownEnds, Crash
<1> QED
  BY <1>3, <1>4, <1>5, <1>6

LEMMA OthersDeliver ==
  ASSUME ClientInv, DeliveryInv, Others
  PROVE  DeliveryInv' /\ Delivers
<1>1. ClientTypes /\ UNCHANGED <<question, proc>>
  BY DEF ClientInv, Others
<1>2. PICK q \in Asked :
        /\ RouteStep(q)
        /\ \/ intent'[q].state = intent[q].state
           \/ /\ intent[q].state \in {"queued", "claimed"}
              /\ intent'[q].state \in {"queued", "claimed"}
  BY <1>1, OthersMoveOn
<1>3. \A r \in Questions : conv[r] = "prepared" => conv'[r] = "prepared"
  <2>1. PICK r \in Asked : ClaimNext(r) \/ LeaseLapses(r) \/ BridgeEnds(r, "completed") \/ BridgeEnds(r, "expired")
    BY DEF Others
  <2>2. CASE ClaimNext(r) \/ LeaseLapses(r)
    BY <2>2 DEF ClaimNext, LeaseLapses, IntentBecomes
  <2>3. ASSUME NEW s, BridgeEnds(r, s) PROVE \A o \in Questions : conv[o] = "prepared" => conv'[o] = "prepared"
    BY <1>1, <2>3 DEF BridgeEnds, ConvBecomes, ClientTypes
  <2> QED
    BY <2>1, <2>2, <2>3
<1>4. q \in Questions
  BY DEF Asked
<1>5. GoesOn(q) /\ ShowsStaged(q)
  BY <1>2, <1>3, <1>4 DEF GoesOn, ShowsStaged, Late
<1> QED
  BY <1>1, <1>2, <1>5, CallDelivers

-----------------------------------------------------------------------------
LEMMA DeliveryInitInv == ClientInit => DeliveryInv
<1> SUFFICES ASSUME ClientInit PROVE DeliveryInv
  OBVIOUS
<1>1. Asked = {}
  BY DEF ClientInit, Asked
<1>2. \A q \in Questions : IntentOK(q)
  BY <1>1 DEF IntentOK, ClientInit, RouteInit
<1>3. \A p \in Procs : proc[p].pc = "idle"
  BY DEF ClientInit, AtRest
<1>4. \A p \in Procs : WorkOK(p)
  BY <1>3 DEF WorkOK, IsDispatcher, IsCanceller, IsApplier, DispatcherSteps, CancellerSteps, ApplierSteps
<1> QED
  BY <1>1, <1>2, <1>4 DEF DeliveryInv, OneOpen, OpenQuestions

LEMMA DeliverySteps ==
  ASSUME OneAtATime, ClientInv, DeliveryInv, ClientNext
  PROVE  DeliveryInv' /\ Delivers
<1>0. Dispatchers \cup Cancellers \cup Appliers \subseteq Procs
  BY DEF Procs
<1>1. CASE \E p \in Dispatchers : Dispatch(p)
  <2>1. PICK p \in Procs : Dispatch(p)
    BY <1>0, <1>1
  <2> QED
    BY <2>1, DispatchStartDelivers, RecoverWithdrawsDelivers, DispatcherCallsDeliver, DispatchDeliverDelivers,
      WithdrawStoreDelivers, DispatchClaimDelivers, DispatchSendingDelivers, DispatchReceiptDelivers,
      DispatchDeliveredDelivers DEF Dispatch
<1>2. CASE \E p \in Cancellers : Cancel(p)
  <2>1. PICK p \in Procs : Cancel(p)
    BY <1>0, <1>2
  <2> QED
    BY <2>1, CancelStartDelivers, CancellerCallsDeliver, CancelReleaseDelivers, CancelStoreDelivers DEF Cancel
<1>3. CASE \E p \in Appliers : Answer(p)
  <2>1. PICK p \in Procs : p \in Appliers /\ Answer(p)
    BY <1>0, <1>3
  <2> QED
    BY <2>1, ApplyPlanDelivers, ApplyProofDelivers, ApplyPostDelivers, ApplyReadDelivers, ApplyNextDelivers,
      ApplyConflictDelivers, ApplyInvalidDelivers, ApplyReceiptDelivers, ApplyFinishDelivers,
      ApplyResultDelivers DEF Answer
<1>4. CASE \E q \in Questions : Manage(q)
  BY <1>4, StageDelivers, ReissueDelivers, SubmitAttentionDelivers, CompleteAttentionDelivers DEF Manage
<1> QED
  BY <1>1, <1>2, <1>3, <1>4, QuietDelivers, OthersDeliver DEF ClientNext

LEMMA DeliveryRests ==
  ASSUME ClientInv, DeliveryInv, UNCHANGED clientVars
  PROVE  DeliveryInv' /\ Delivers
<1>1. UNCHANGED <<question, route, proc>>
  BY DEF clientVars
<1> QED
  BY <1>1, RestDelivers

LEMMA ReconciliationDelivery ==
  ASSUME OneAtATime
  PROVE  ClientSpec => [](ClientInv /\ DeliveryInv)
<1>1. ClientInv /\ DeliveryInv /\ [ClientNext]_clientVars => DeliveryInv'
  BY DeliverySteps, DeliveryRests
<1> QED
  BY DeliveryInitInv, <1>1, ReconciliationClientInvariant, PTL DEF ClientSpec

(* At most one question is open, except one that was cancelled without a    *)
(* look at its intent: neither a delivery nor an answer opens one that was  *)
(* closed meanwhile.                                                        *)
THEOREM ReconciliationOneOpen == ASSUME OneAtATime PROVE ClientSpec => []OneOpenQuestion
<1>1. DeliveryInv => OneOpenQuestion
  <2> SUFFICES ASSUME DeliveryInv PROVE OneOpenQuestion
    OBVIOUS
  <2>1. PICK open : open = {q \in OpenQuestions : ~question[q].blind}
    OBVIOUS
  <2>2. \A q, r \in open : q = r
    BY <2>1 DEF DeliveryInv, OneOpen
  <2>3. CASE open = {}
    <3>1. Cardinality(open) = 0
      BY <2>3, FS_EmptySet
    <3> QED
      BY <2>1, <3>1 DEF OneOpenQuestion
  <2>4. CASE open # {}
    <3>1. PICK q \in open : open = {q}
      BY <2>2, <2>4
    <3>2. Cardinality(open) = 1
      BY <3>1, FS_Singleton
    <3> QED
      BY <2>1, <3>2 DEF OneOpenQuestion
  <2> QED
    BY <2>3, <2>4
<1> QED
  BY <1>1, ReconciliationDelivery, PTL

(* The owner is shown a question only while it is staged, or after a cancel *)
(* that did not look at its intent, however a cancel and a delivery overlap *)
(* and whichever of their calls fail.                                       *)
THEOREM ReconciliationShown == ASSUME OneAtATime PROVE ClientSpec => ShownOnlyWhileStaged
<1>1. ClientInv /\ DeliveryInv /\ [ClientNext]_clientVars
        => [\A q \in Questions : conv[q] = "prepared" /\ conv'[q] # "prepared" =>
              question[q].state = "staged" \/ question[q].blind]_clientVars
  BY DeliverySteps DEF Delivers, ShowsStaged, Showable
<1> QED
  BY <1>1, ReconciliationDelivery, PTL DEF ClientSpec, ShownOnlyWhileStaged

(* No receipt of a committed action is lost before its readback: only what  *)
(* was verified leaves the plan, and it leaves into the outcomes.           *)
THEOREM ReconciliationReceipts == ASSUME OneAtATime PROVE ClientSpec => ReceiptsAreKept
<1>1. ClientInv /\ DeliveryInv /\ [ClientNext]_clientVars
        => [\A q \in Asked : \A i \in DOMAIN question[q].pending :
              question[q].pending[i] # "planned" =>
                \/ i \in DOMAIN question'[q].pending /\ question'[q].pending[i] # "planned"
                \/ question[q].pending[i] = "verified" /\ i \in question'[q].outcomes]_clientVars
  BY DeliverySteps DEF Delivers, Keeps
<1> QED
  BY <1>1, ReconciliationDelivery, PTL DEF ClientSpec, ReceiptsAreKept
=============================================================================
