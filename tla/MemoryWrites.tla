---------------------------- MODULE MemoryWrites ----------------------------
(***************************************************************************)
(* MemoryService.write and the compatibility CRUD handlers as they run, an *)
(* implementation of MemoryLedger on the same tables:                      *)
(* one database session per request, several requests at a time, each      *)
(* transaction a sequence of locking statements. Rows a transaction has    *)
(* written are invisible to the others until it commits (READ COMMITTED),  *)
(* so a session carries only what it has checked, locked and reserved.     *)
(* A client may resend any request at any time, a transaction may be       *)
(* rolled back between any two statements, and the reply to a committed    *)
(* request may be lost.                                                    *)
(***************************************************************************)
EXTENDS MemoryLedger

CONSTANT Sessions   \* the request workers, each with its database session

VARIABLES
  session,    \* [Sessions -> SessionState]: the handler each worker is running
  receipts    \* what clients have been told: [request, body they sent, new]

vars == <<rec, entity, changes, session, receipts>>

(* Where a handler stands: it has looked the request up and is about to    *)
(* insert the reservation, to lock the old record, to lock the next        *)
(* entity, or to commit.                                                   *)
PCs == {"idle", "reserve", "lock_old", "lock_entities", "commit"}

SessionState == [pc : PCs, req : Requests \cup {None}, body : Bodies \cup {None},
                 held : SUBSET Entities, new : Records \cup {None}]

IdleSession == [pc |-> "idle", req |-> None, body |-> None, held |-> {}, new |-> None]

Begin(r, b, pc) == [pc |-> pc, req |-> r, body |-> b, held |-> {}, new |-> None]

(* Faulty: a waiting insert already blocks the other one; the old record is *)
(* read without FOR UPDATE; the entity locks are not kept until commit.    *)
HoldsRequest_Waiting(s, r) == session[s].req = r /\ session[s].pc # "idle"
HoldsRecord_NotLocked(s, q) == FALSE
HoldsEntity_NotLocked(s, e) == FALSE

(* The database locks, as the transactions' progress implies them.         *)
HoldsRequest(s, r) ==
  session[s].req = r /\ session[s].pc \in {"lock_old", "lock_entities", "commit"}
HoldsRecord(s, q) ==
  session[s].pc \in {"lock_entities", "commit"} /\ session[s].body.old = q
HoldsEntity(s, e) == e \in session[s].held

AfterReserve(b) == IF b.old = None THEN "lock_entities" ELSE "lock_old"

Receipt(r, b, n) == [request |-> r, body |-> b, new |-> n]

(* Faulty: the identifier alone decides that a request is a replay. *)
SameContent_IdOnly(c, b) == TRUE

(* The answer to a request whose identifier is already in the table: its   *)
(* original receipt when the content is the same, a conflict otherwise.    *)
SameContent(c, b) == c.body = b

AnswerExisting(r, b) ==
  \E c \in changes :
    /\ c.request = r
    /\ receipts' = IF SameContent(c, b)
                     THEN receipts \cup {Receipt(r, b, c.new)}
                     ELSE receipts

-----------------------------------------------------------------------------
(* A request arrives: the first lookup by request_id either answers it or  *)
(* lets the handler go on. Compatibility writes have no identifier.        *)
Receive(s, r, b) ==
  /\ session[s].pc = "idle"
  /\ IsMemory(b)
  /\ IF \E c \in changes : c.request = r
       THEN AnswerExisting(r, b) /\ UNCHANGED session
       ELSE /\ session' = [session EXCEPT ![s] = Begin(r, b, "reserve")]
            /\ UNCHANGED receipts
  /\ UNCHANGED tables

ReceiveLegacy(s, b) ==
  /\ session[s].pc = "idle"
  /\ ~IsMemory(b)
  /\ session' = [session EXCEPT ![s] = Begin(None, b, AfterReserve(b))]
  /\ UNCHANGED <<tables, receipts>>

(* Inserting the MemoryChange row waits while another transaction holds an *)
(* uncommitted row with the same request_id. When that one has committed,  *)
(* the insert fails, and the rolled-back handler answers from its row.     *)
Reserve(s) ==
  LET r == session[s].req
      b == session[s].body
  IN /\ session[s].pc = "reserve"
     /\ \A t \in Sessions \ {s} : ~HoldsRequest(t, r)
     /\ IF \E c \in changes : c.request = r
          THEN /\ AnswerExisting(r, b)
               /\ session' = [session EXCEPT ![s] = IdleSession]
          ELSE /\ session' = [session EXCEPT ![s].pc = AfterReserve(b)]
               /\ UNCHANGED receipts
     /\ UNCHANGED tables

(* Faulty: the checks of the old record run, but do not stop the handler. *)
LockOld_ChecksIgnored(s) ==
  /\ session[s].pc = "lock_old"
  /\ \A t \in Sessions \ {s} : ~HoldsRecord(t, session[s].body.old)
  /\ session' = [session EXCEPT ![s].pc = "lock_entities"]
  /\ UNCHANGED <<tables, receipts>>

(* Lock the record the request refers to and, holding it, check that it    *)
(* may be replaced; otherwise the transaction is rolled back.              *)
LockOld(s) ==
  LET b == session[s].body
  IN /\ session[s].pc = "lock_old"
     /\ \A t \in Sessions \ {s} : ~HoldsRecord(t, b.old)
     /\ session' = [session EXCEPT ![s] =
                      IF RecordAcceptable(b) THEN [@ EXCEPT !.pc = "lock_entities"]
                                             ELSE IdleSession]
     /\ UNCHANGED <<tables, receipts>>

(* Faulty: the entity rows are locked in the order they happen to come.    *)
NextLock_AnyOrder(s, e) == e \in LockSet(session[s].body) \ session[s].held

(* lock_active_entities: SELECT ... ORDER BY id FOR UPDATE takes the row    *)
(* locks one by one in ascending order.                                    *)
NextLock(s, e) ==
  LET missing == LockSet(session[s].body) \ session[s].held
  IN e \in missing /\ \A f \in missing : e <= f

LockActiveEntity(s, e) ==
  /\ session[s].pc = "lock_entities"
  /\ NextLock(s, e)
  /\ \A t \in Sessions \ {s} : ~HoldsEntity(t, e)
  /\ session' = [session EXCEPT ![s].held = @ \cup {e}]
  /\ UNCHANGED <<tables, receipts>>

(* The identities no row has, committed or about to be. When none is left  *)
(* the write is refused: Records bounds how many rows there can be.        *)
Fresh == {n \in Records : ~Present(n) /\ \A t \in Sessions : session[t].new # n}

(* With every lock held: refuse an inactive entity or a taken axis, or     *)
(* insert the new row, still invisible to the others.                      *)
WriteRecord(s) ==
  LET b == session[s].body
      ids == IF Creates(b) THEN Fresh ELSE {None}
  IN /\ session[s].pc = "lock_entities"
     /\ LockSet(b) \subseteq session[s].held
     /\ IF RecordWritable(b) /\ ids # {}
          THEN \E n \in ids :
                 session' = [session EXCEPT ![s] =
                               [[@ EXCEPT !.pc = "commit"] EXCEPT !.new = n]]
          ELSE session' = [session EXCEPT ![s] = IdleSession]
     /\ UNCHANGED <<tables, receipts>>

(* The transaction commits; the reply may not reach the client. *)
Commit(s) ==
  LET b == session[s].body
      r == session[s].req
      n == session[s].new
  IN /\ session[s].pc = "commit"
     /\ rec' = Written(b, n)
     /\ IF IsMemory(b)
          THEN /\ changes' = changes \cup {Receipt(r, b, n)}
               /\ receipts' \in {receipts, receipts \cup {Receipt(r, b, n)}}
          ELSE UNCHANGED <<changes, receipts>>
     /\ session' = [session EXCEPT ![s] = IdleSession]
     /\ UNCHANGED entity

(* A rollback for any other reason: a lost connection, a crashed worker.   *)
Abort(s) ==
  /\ session[s].pc # "idle"
  /\ session' = [session EXCEPT ![s] = IdleSession]
  /\ UNCHANGED <<tables, receipts>>

EntityUnlocked(e) == \A s \in Sessions : ~HoldsEntity(s, e)

(* Both entity handlers are a single locking statement and its commit.     *)
EntityHandler(e) ==
  /\ EntityUnlocked(e)
  /\ DeleteEntity(e) \/ \E st \in EntityStatus : PatchEntity(e, st)
  /\ UNCHANGED <<session, receipts>>

Advance(s) ==
  \/ Reserve(s)
  \/ LockOld(s)
  \/ \E e \in Entities : LockActiveEntity(s, e)
  \/ WriteRecord(s)
  \/ Commit(s)

Next ==
  \/ \E s \in Sessions, b \in Bodies :
       (\E r \in Requests : Receive(s, r, b)) \/ ReceiveLegacy(s, b)
  \/ \E s \in Sessions : Advance(s) \/ Abort(s)
  \/ \E e \in Entities : EntityHandler(e)

Init ==
  /\ LedgerInit
  /\ session = [s \in Sessions |-> IdleSession]
  /\ receipts = {}

Spec == Init /\ [][Next]_vars

(* A lock that is released over and over is granted in the end: the        *)
(* database queues the waiting transactions.                               *)
Fairness == \A s \in Sessions : SF_vars(Advance(s))

LiveSpec == Spec /\ Fairness

-----------------------------------------------------------------------------
(* Type invariant of the tables, the running handlers and the receipts.    *)
TypeOK ==
  /\ TablesOK
  /\ session \in [Sessions -> SessionState]
  /\ \A s \in Sessions : session[s].pc # "idle" => session[s].body \in Bodies
  /\ receipts \subseteq [request : Requests, body : Bodies, new : Records \cup {None}]

(* The handlers with all their steps implement the abstract ledger: each   *)
(* write takes effect at its commit, alone and at once.                    *)
ImplementsLedger == Ledger

(* Every receipt a client holds, from the first attempt or from a replay,  *)
(* names a committed change with that identifier and exactly the content   *)
(* this client sent.                                                       *)
ReceiptsTruthful == receipts \subseteq changes

(* The sessions whose locks s is waiting for. *)
WaitsFor(s) ==
  {t \in Sessions \ {s} :
     \/ session[s].pc = "reserve" /\ HoldsRequest(t, session[s].req)
     \/ session[s].pc = "lock_old" /\ HoldsRecord(t, session[s].body.old)
     \/ /\ session[s].pc = "lock_entities"
        /\ \E e \in Entities : NextLock(s, e) /\ HoldsEntity(t, e)}

(* No group of transactions waits on one another: requests, then the old   *)
(* record, then entities in ascending order.                               *)
NoWaitCycle ==
  \A S \in (SUBSET Sessions) \ {{}} : \E s \in S : WaitsFor(s) \cap S = {}

(* Two transactions never both hold the insert of a current assessment for *)
(* the same person and axis: the partial unique index never has to step in. *)
AxisSlotExclusive ==
  \A s, t \in Sessions :
    /\ s # t /\ session[s].pc = "commit" /\ session[t].pc = "commit"
    /\ session[s].body.axis # None
    => ~(/\ session[s].body.axis = session[t].body.axis
         /\ session[s].body.target = session[t].body.target)

(* What a handler has checked under its locks is still true when it        *)
(* commits, whatever the other sessions and the entity handlers did since: *)
(* its request is unused, its old record may be replaced, its entities are *)
(* active and its axis is free.                                            *)
ChecksStillHold ==
  \A s \in Sessions :
    /\ \A r \in Requests : HoldsRequest(s, r) => \A c \in changes : c.request # r
    /\ session[s].pc \in {"lock_entities", "commit"} => RecordAcceptable(session[s].body)
    /\ session[s].pc = "commit" => /\ WriteReady(session[s].body, session[s].new)
                                   /\ LockSet(session[s].body) \subseteq session[s].held

(* Whatever it waits for, a started request is answered.                   *)
EveryRequestEnds ==
  \A s \in Sessions : session[s].pc # "idle" ~> session[s].pc = "idle"

=============================================================================
