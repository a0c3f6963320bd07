----------------------- MODULE PostTurnMemory_proofs -----------------------
(***************************************************************************)
(* The submission of turns for every number of processes, turns, people,   *)
(* claims, attempts, crashes and other writers. The argument: the journal  *)
(* has one holder, so what it found there for a claim is still there when  *)
(* it records an outcome (Journalled); a change or an attempt still under  *)
(* way carries the very body the journal holds (BodiesKept), so a second   *)
(* one cannot take effect; and an outcome that gives a claim up is written *)
(* only when nothing of it took place or can still arrive (OutcomesHold).  *)
(***************************************************************************)
EXTENDS PostTurnMemory, FiniteSetTheorems, TLAPS

(* What a line of a page can be. *)
Line == {Own} \cup {d.line : d \in Decisions}

Run == [pc : PCs, turn : Turns \cup {None}, who : People \cup {None}, seen : Nat,
        resolved : People \cup {None}, index : Nat, tries : Nat, replay : BOOLEAN,
        copy : Seq(Line), known : SUBSET Line]

TypeOK ==
  /\ frame \in [Turns -> Frame \cup {None}]
  /\ run \in [Procs -> Run]
  /\ lock \in Procs \cup {None}
  /\ extracted \in [Turns -> Decisions \cup {None}]
  /\ requests \in [Inputs -> Body \cup {None}]
  /\ outcomes \in [Inputs -> OutcomeState]
  /\ candidateLog \subseteq Turns
  /\ evidence \in [Domains -> Seq(Line)]
  /\ page \in [Domains -> Seq(Line)]
  /\ slot \in [People -> Nat]
  /\ card \in [People -> Nat]
  /\ active \in [People -> BOOLEAN]
  /\ changes \subseteq Body /\ IsFiniteSet(changes)
  /\ pending \subseteq Body
  /\ told \in [Inputs -> SUBSET Report]
  /\ policy \in Policies
  /\ budget \in [Turns \cup {"crashes", "others"} -> Nat]
  /\ budget["others"] <= MaxOthers

(* Where a process stands in the submission of a turn's claims. *)
InJournal == {"claim", "resolve", "select", "post", "record", "verify"}
AtClaim == InJournal \ {"claim"}

Journalled(p) ==
  run[p].pc \in InJournal =>
    /\ lock = p
    /\ run[p].index \in 1..(Len(extracted[run[p].turn].claims) + 1)
    /\ run[p].pc # "claim" =>
         /\ run[p].index <= Len(extracted[run[p].turn].claims)
         /\ outcomes[Input(p)] \notin {"noop", "terminal"}
    /\ run[p].pc \in {"resolve", "select"} => requests[Input(p)] = None
    /\ run[p].pc = "select" => run[p].resolved # None
    /\ run[p].pc \in {"post", "record", "verify"} => requests[Input(p)] # None
    /\ run[p].pc \in {"record", "verify"} => requests[Input(p)] \in changes

(* What a run has, from its start. *)
Running(p) ==
  /\ run[p].pc # "idle" => run[p].turn \in Turns
  /\ run[p].pc \notin {"idle", "extract"} => extracted[run[p].turn] # None
  /\ run[p].pc = "idle" => run[p].who = None

(* What takes effect is what the journal holds. *)
BodiesKept ==
  /\ \A i \in Inputs : requests[i] # None => requests[i].input = i
  /\ \A c \in changes \cup pending : c = requests[c.input]

(* An outcome is what happened in the backend, and stays it. *)
OutcomesHold ==
  \A i \in Inputs :
    /\ told[i] \cap {"saved", "unverified"} # {} \/ outcomes[i] = "receipt" =>
         requests[i] \in changes
    /\ outcomes[i] \in {"noop", "terminal"} => requests[i] \notin changes \cup pending

(* The person a frame holds was seen in a lookup of that frame. *)
FramesHold ==
  \A t \in Turns : frame[t] # None /\ frame[t].who # None =>
    /\ ~frame[t].conflict
    /\ \E snapshot \in frame[t].lookups : snapshot[frame[t].who] = frame[t].seen

(* The person a run carries is the one its own closed frame holds. *)
Attached(p) ==
  run[p].who # None =>
    LET f == frame[run[p].turn]
    IN f # None /\ f.proc = p /\ f.closed /\ f.who = run[p].who /\ f.seen = run[p].seen

(* A run about to write a page has its line in the evidence ledger. *)
Curating(p) ==
  run[p].pc \in {"page", "replace"} =>
    LET d == extracted[run[p].turn]
    IN /\ d.line \in run[p].known
       /\ run[p].known \subseteq Range(evidence[Domain(d)])
       /\ run[p].pc = "replace" =>
            /\ Range(run[p].copy) \subseteq {Own} \cup Range(evidence[Domain(d)])
            /\ d.cultural = None => Own \in Range(run[p].copy)

Process(p) == Journalled(p) /\ Running(p) /\ Attached(p) /\ Curating(p)

(* The evidence ledger has generated lines only. *)
LedgerGenerated == \A d \in Domains : Own \notin Range(evidence[d])

IInv ==
  /\ TypeOK
  /\ BodiesKept
  /\ OutcomesHold
  /\ FramesHold
  /\ LedgerGenerated
  /\ KnowledgeKept
  /\ \A p \in Procs : Process(p)

-----------------------------------------------------------------------------
(* Facts about single operators.                                           *)

(* The rank of a position numbers the kept positions from 1. *)
Rank(kept, i) == Cardinality({j \in kept : j <= i})

(* The elements of a finite set of positions, counted from the smallest, have *)
(* each number up to its size once.                                        *)
LEMMA RankNumbers ==
  ASSUME NEW kept \in SUBSET Nat, IsFiniteSet(kept)
  PROVE  /\ Cardinality(kept) \in Nat
         /\ \A n \in 1..Cardinality(kept) : \E i \in kept : Rank(kept, i) = n
         /\ \A i \in kept : Rank(kept, i) \in 1..Cardinality(kept)
         /\ \A i, j \in kept : Rank(kept, i) = Rank(kept, j) => i = j
<1> DEFINE Upto(i) == {j \in kept : j <= i}
           size == Cardinality(kept)
           rank == [i \in kept |-> Cardinality(Upto(i))]
<1>1. size \in Nat /\ IsFiniteSet(1..size) /\ Cardinality(1..size) = size
  BY FS_CardinalityType, FS_Interval
<1>2. ASSUME NEW i \in kept
      PROVE  /\ IsFiniteSet(Upto(i)) /\ Cardinality(Upto(i)) \in 1..size
  <2>1. IsFiniteSet(Upto(i)) /\ Cardinality(Upto(i)) <= size
    BY FS_Subset
  <2>2. Cardinality(Upto(i)) \in Nat
    BY <2>1, FS_CardinalityType
  <2>3. i \in Upto(i)
    OBVIOUS
  <2>4. Cardinality(Upto(i)) # 0
    BY <2>1, <2>3, FS_EmptySet
  <2> QED
    BY <1>1, <2>1, <2>2, <2>4
<1>3. ASSUME NEW i \in kept, NEW j \in kept, i < j
      PROVE  Cardinality(Upto(i)) # Cardinality(Upto(j))
  <2>1. \A k \in kept : k \in Nat
    OBVIOUS
  <2>2. j \in Upto(j) /\ j \notin Upto(i)
    BY <1>3, <2>1
  <2>3. \A k \in kept : k <= i => k <= j
    BY <1>3, <2>1
  <2>4. Upto(i) \in SUBSET Upto(j)
    BY <2>3
  <2> QED
    BY <1>2, <2>2, <2>4, FS_Subset
<1>4. \A i, j \in kept : Cardinality(Upto(i)) = Cardinality(Upto(j)) => i = j
  BY <1>3
<1>5. rank \in Injection(kept, 1..size)
  BY <1>2, <1>4 DEF Injection, IsInjective
<1>6. rank \in Surjection(kept, 1..size)
  <2>1. Cardinality(kept) = Cardinality(1..size)
    BY <1>1
  <2> HIDE DEF rank, size
  <2>2. Cardinality(kept) = Cardinality(1..size) <=> rank \in Surjection(kept, 1..size)
    BY <1>1, <1>5, FS_Injection
  <2> QED
    BY <2>1, <2>2
<1>7. \A n \in 1..size : \E i \in kept : rank[i] = n
  BY <1>6 DEF Surjection
<1> QED
  BY <1>1, <1>2, <1>4, <1>7 DEF Rank

(* LinesAt keeps the lines at the positions it is given, and only those. *)
LEMMA LinesAtKeeps ==
  ASSUME NEW T, NEW lines \in Seq(T), NEW kept \in SUBSET (DOMAIN lines)
  PROVE  /\ LinesAt(lines, kept) \in Seq(T)
         /\ Range(LinesAt(lines, kept)) = {lines[i] : i \in kept}
<1> DEFINE Picked(n) == CHOOSE i \in kept : Rank(kept, i) = n
           size == Cardinality(kept)
<1>1. kept \in SUBSET Nat /\ IsFiniteSet(kept)
  <2>1. IsFiniteSet(1..Len(lines))
    BY FS_Interval
  <2> QED
    BY <2>1, FS_Subset
<1>2. /\ size \in Nat
      /\ \A n \in 1..size : \E i \in kept : Rank(kept, i) = n
      /\ \A i \in kept : Rank(kept, i) \in 1..size
      /\ \A i, j \in kept : Rank(kept, i) = Rank(kept, j) => i = j
  BY <1>1, RankNumbers
<1>3. LinesAt(lines, kept) = [n \in 1..size |-> lines[Picked(n)]]
  BY DEF LinesAt, Rank
<1>4. \A n \in 1..size : Picked(n) \in kept /\ Rank(kept, Picked(n)) = n
  BY <1>2
<1>5. \A i \in kept : Picked(Rank(kept, i)) = i
  <2> TAKE i \in kept
  <2>1. Rank(kept, i) \in 1..size
    BY <1>2
  <2>2. Picked(Rank(kept, i)) \in kept /\ Rank(kept, Picked(Rank(kept, i))) = Rank(kept, i)
    BY <1>4, <2>1
  <2> QED
    BY <1>2, <2>2
<1> HIDE DEF Picked, size
<1>6. LinesAt(lines, kept) \in Seq(T)
  <2>1. \A n \in 1..size : lines[Picked(n)] \in T
    BY <1>4
  <2> QED
    BY <1>2, <1>3, <2>1
<1>7. Range(LinesAt(lines, kept)) = {lines[Picked(n)] : n \in 1..size}
  BY <1>3 DEF Range
<1>8. {lines[Picked(n)] : n \in 1..size} = {lines[i] : i \in kept}
  BY <1>2, <1>4, <1>5
<1> QED
  BY <1>6, <1>7, <1>8

(* Retention keeps lines of the page only, and every one it does not know. *)
LEMMA LastOfKeeps ==
  ASSUME NEW T, NEW lines \in Seq(T), NEW known
  PROVE  /\ LastOf(lines, known) \in Seq(T)
         /\ Range(LastOf(lines, known)) \subseteq Range(lines)
         /\ Range(lines) \ known \subseteq Range(LastOf(lines, known))
<1> DEFINE Recent(i) == Cardinality({j \in DOMAIN lines : j > i /\ lines[j] \in known}) < MaxItems
           kept == {i \in DOMAIN lines : lines[i] \in known => Recent(i)}
<1>1. LastOf(lines, known) = LinesAt(lines, kept)
  BY DEF LastOf
<1>2. \A i \in DOMAIN lines : lines[i] \notin known => i \in kept
  OBVIOUS
<1>3. kept \in SUBSET (DOMAIN lines)
  OBVIOUS
<1> HIDE DEF kept
<1>4. /\ LinesAt(lines, kept) \in Seq(T)
      /\ Range(LinesAt(lines, kept)) = {lines[i] : i \in kept}
  BY <1>3, LinesAtKeeps
<1> QED
  BY <1>1, <1>2, <1>3, <1>4 DEF Range

(* What a page has after a line was appended.                              *)
LEMMA AppendRange ==
  ASSUME NEW T, NEW lines \in Seq(T), NEW l \in T
  PROVE  /\ Append(lines, l) \in Seq(T)
         /\ Range(Append(lines, l)) = Range(lines) \cup {l}
<1>1. /\ Append(lines, l) \in Seq(T)
      /\ DOMAIN Append(lines, l) = 1..(Len(lines) + 1)
      /\ \A i \in 1..Len(lines) : Append(lines, l)[i] = lines[i]
      /\ Append(lines, l)[Len(lines) + 1] = l
      /\ DOMAIN lines = 1..Len(lines) /\ Len(lines) \in Nat
  OBVIOUS
<1>2. 1..(Len(lines) + 1) = 1..Len(lines) \cup {Len(lines) + 1}
  BY <1>1
<1> QED
  BY <1>1, <1>2 DEF Range

(* An updated page has no line that neither the page nor the decision has; *)
(* a line of a page of context updates that retention does not know stays. *)
LEMMA UpdatedKeeps ==
  ASSUME NEW d \in Decisions, NEW lines \in Seq(Line), NEW known
  PROVE  /\ Updated(d, lines, known) \in Seq(Line)
         /\ Range(Updated(d, lines, known)) \subseteq Range(lines) \cup {d.line}
         /\ d.cultural = None =>
              Range(lines) \ known \subseteq Range(Updated(d, lines, known))
<1>1. d.line \in Line
  BY DEF Line
<1>2. CASE d.cultural = None
  <2> PICK more : more = Append(lines, d.line)
    OBVIOUS
  <2>1. more \in Seq(Line) /\ Range(more) = Range(lines) \cup {d.line}
    BY <1>1, AppendRange
  <2>2. Updated(d, lines, known) = LastOf(more, known)
    BY <1>2 DEF Updated
  <2>3. /\ LastOf(more, known) \in Seq(Line)
        /\ Range(LastOf(more, known)) \subseteq Range(more)
        /\ Range(more) \ known \subseteq Range(LastOf(more, known))
    BY <2>1, LastOfKeeps
  <2> QED
    BY <2>1, <2>2, <2>3
<1>3. CASE d.cultural # None
  <2> DEFINE kept == {i \in DOMAIN lines : lines[i] # d.line}
             others == LinesAt(lines, kept)
  <2>1. kept \in SUBSET (DOMAIN lines)
    OBVIOUS
  <2>2. Updated(d, lines, known) =
          LastOf(Append(others, d.line), Range(Append(others, d.line)))
    BY <1>3 DEF Updated
  <2> HIDE DEF kept
  <2>3. others \in Seq(Line) /\ Range(others) = {lines[i] : i \in kept}
    BY <2>1, LinesAtKeeps
  <2>4. Range(others) \subseteq Range(lines)
    BY <2>1, <2>3 DEF Range
  <2> HIDE DEF others
  <2> PICK more : more = Append(others, d.line)
    OBVIOUS
  <2>5. more \in Seq(Line) /\ Range(more) = Range(others) \cup {d.line}
    BY <1>1, <2>3, AppendRange
  <2>6. /\ LastOf(more, Range(more)) \in Seq(Line)
        /\ Range(LastOf(more, Range(more))) \subseteq Range(more)
    BY <2>5, LastOfKeeps
  <2> QED
    BY <1>3, <2>2, <2>4, <2>5, <2>6
<1> QED
  BY <1>2, <1>3

(* The state of a process that has nothing to do.                          *)
LEMMA IdleShape == Idle \in Run /\ Idle.pc = "idle" /\ Idle.who = None /\ Idle.resolved = None
BY DEF Idle, Run, PCs

(* The claim a process works on has an input.                              *)
LEMMA ClaimInput ==
  ASSUME TypeOK, NEW p \in Procs, Process(p), run[p].pc \in AtClaim
  PROVE  /\ Input(p) \in Inputs
         /\ run[p].turn \in Turns
         /\ extracted[run[p].turn] \in Decisions
<1>1. run[p].pc \in InJournal /\ run[p].pc # "claim" /\ run[p].pc \notin {"idle", "extract"}
  BY DEF AtClaim, InJournal
<1>2. run[p].turn \in Turns /\ extracted[run[p].turn] \in Decisions
  BY <1>1 DEF Process, Running, TypeOK
<1>3. run[p].index \in 1..MaxClaims
  <2> PICK d \in Decisions : d = extracted[run[p].turn]
    BY <1>2
  <2>1. Len(d.claims) \in Nat /\ Len(d.claims) <= MaxClaims /\ MaxClaims \in Nat
    BY DecisionsAssumption, BoundsAssumption
  <2>2. run[p].index \in 1..(Len(d.claims) + 1) /\ run[p].index <= Len(d.claims)
    BY <1>1 DEF Process, Journalled
  <2> QED
    BY <2>1, <2>2
<1> QED
  BY <1>2, <1>3 DEF Input, Inputs

(* What a request does to the backend's tables.                            *)
LEMMA ProcessedShape ==
  ASSUME TypeOK, NEW body \in Body, Processed(body)
  PROVE  /\ slot' \in [People -> Nat] /\ card' \in [People -> Nat]
         /\ changes' \subseteq Body /\ IsFiniteSet(changes')
         /\ \/ UNCHANGED <<slot, card, changes>>
            \/ changes' = changes \cup {body} /\ body \notin changes
<1>1. CASE UNCHANGED <<slot, card, changes>>
  BY <1>1 DEF TypeOK
<1>2. CASE ~UNCHANGED <<slot, card, changes>>
  <2>1. /\ changes' = changes \cup {body} /\ body \notin changes
        /\ card' = [card EXCEPT ![body.who] = @ + 1]
        /\ slot' = [slot EXCEPT ![body.who] =
             CASE body.kind = "note" -> @ [] body.kind = "retract" -> 0 [] OTHER -> Fresh]
    BY <1>2 DEF Processed, Applied
  <2>2. Fresh \in Nat
    <3>1. Cardinality(changes) \in Nat
      BY FS_CardinalityType DEF TypeOK
    <3>2. budget["others"] \in Nat /\ budget["others"] <= MaxOthers
      BY DEF TypeOK
    <3> QED
      BY <3>1, <3>2, BoundsAssumption DEF Fresh
  <2>3. IsFiniteSet(changes')
    BY <2>1, FS_AddElement DEF TypeOK
  <2>4. body.who \in People
    BY DEF Body
  <2>5. card' \in [People -> Nat]
    BY <2>1, <2>4 DEF TypeOK
  <2>6. slot' \in [People -> Nat]
    BY <2>1, <2>2, <2>4 DEF TypeOK
  <2> QED
    BY <2>1, <2>3, <2>5, <2>6 DEF TypeOK
<1> QED
  BY <1>1, <1>2

-----------------------------------------------------------------------------
(* A process that does not move keeps what it knows: the journal is its own *)
(* while it holds the lock, and everything else it relies on only grows.    *)
LEMMA OthersUndisturbed ==
  ASSUME IInv, NEW q \in Procs, run'[q] = run[q],
         lock = q => /\ lock' = q
                     /\ \A i \in Inputs : outcomes'[i] = outcomes[i]
                     /\ \A i \in Inputs : requests'[i] = requests[i],
         \A t \in Turns : extracted[t] # None => extracted'[t] = extracted[t],
         changes \subseteq changes',
         \A t \in Turns : frame[t] # None /\ frame[t].proc = q /\ frame[t].closed =>
                            frame'[t] = frame[t],
         \A d \in Domains : Range(evidence[d]) \subseteq Range(evidence'[d])
  PROVE  Process(q)'
<1>1. Journalled(q) /\ Running(q) /\ Attached(q) /\ Curating(q)
  BY DEF IInv, Process
<1>2. Running(q)'
  BY <1>1 DEF Running
<1>3. run[q].pc \notin {"idle", "extract"} => extracted'[run[q].turn] = extracted[run[q].turn]
  BY <1>1 DEF Running
<1>4. Input(q)' = Input(q)
  BY DEF Input
<1>5. run[q].pc \in AtClaim => Input(q) \in Inputs
  BY ClaimInput DEF IInv
<1>6. Journalled(q)'
  <2> SUFFICES ASSUME run[q].pc \in InJournal PROVE Journalled(q)'
    BY DEF Journalled
  <2>1. lock' = q /\ run[q].pc \notin {"idle", "extract"}
    BY <1>1 DEF Journalled, InJournal
  <2>2. extracted'[run[q].turn] = extracted[run[q].turn]
    BY <1>3, <2>1
  <2>3. CASE run[q].pc = "claim"
    BY <1>1, <2>1, <2>2, <2>3 DEF Journalled, InJournal
  <2>4. CASE run[q].pc # "claim"
    <3>1. lock = q /\ Input(q) \in Inputs
      BY <1>1, <1>5, <2>4 DEF Journalled, AtClaim
    <3>2. outcomes'[Input(q)] = outcomes[Input(q)] /\ requests'[Input(q)] = requests[Input(q)]
      BY <3>1
    <3> QED
      BY <1>1, <1>4, <2>1, <2>2, <3>2 DEF Journalled
  <2> QED
    BY <2>3, <2>4
<1>7. Attached(q)'
  <2> SUFFICES ASSUME run[q].who # None PROVE Attached(q)'
    BY DEF Attached
  <2>1. run[q].turn \in Turns
    BY <1>1 DEF Running
  <2> QED
    BY <1>1, <2>1 DEF Attached
<1>8. Curating(q)'
  <2> SUFFICES ASSUME run[q].pc \in {"page", "replace"} PROVE Curating(q)'
    BY DEF Curating
  <2>1. extracted'[run[q].turn] = extracted[run[q].turn]
    BY <1>3
  <2>2. Domain(extracted[run[q].turn]) \in Domains
    BY DEF Domain, Domains
  <2>3. Range(evidence[Domain(extracted[run[q].turn])])
          \subseteq Range(evidence'[Domain(extracted[run[q].turn])])
    BY <2>2
  <2> QED
    BY <1>1, <2>1, <2>3 DEF Curating, Domain
<1> QED
  BY <1>2, <1>6, <1>7, <1>8 DEF Process

(* A step that leaves journal and backend alone keeps what they say.        *)
LEMMA ClaimsUndisturbed ==
  ASSUME BodiesKept, OutcomesHold, UNCHANGED <<requests, outcomes, changes, pending, told>>
  PROVE  BodiesKept' /\ OutcomesHold'
BY DEF BodiesKept, OutcomesHold

(* The invariant holds at the start.                                       *)
LEMMA InitInv == Init => IInv
<1> SUFFICES ASSUME Init PROVE IInv
  OBVIOUS
<1>1. \A p \in Procs : run[p] = Idle
  BY DEF Init
<1>2. TypeOK
  <2>1. IsFiniteSet(changes)
    BY FS_EmptySet DEF Init
  <2>2. /\ budget \in [Turns \cup {"crashes", "others"} -> Nat]
        /\ budget["others"] <= MaxOthers
    BY BoundsAssumption DEF Init
  <2>3. <<Own>> \in Seq(Line) /\ <<>> \in Seq(Line)
    BY DEF Line
  <2> QED
    BY <2>1, <2>2, <2>3, IdleShape DEF Init, TypeOK, OutcomeState
<1>3. BodiesKept /\ OutcomesHold /\ FramesHold
  BY DEF Init, BodiesKept, OutcomesHold, FramesHold
<1>4. LedgerGenerated /\ KnowledgeKept
  BY DEF Init, LedgerGenerated, KnowledgeKept, Range, Domains
<1>5. \A p \in Procs : Process(p)
  BY <1>1 DEF Process, Journalled, Running, Attached, Curating, Idle, InJournal
<1> QED
  BY <1>2, <1>3, <1>4, <1>5 DEF IInv

-----------------------------------------------------------------------------
(* The agent's decision.                                                    *)

(* Only the frame of a turn changes, and no closed one. *)
LEMMA FrameMoves ==
  ASSUME IInv, UNCHANGED <<run, lock, journal, files, backend, told, policy, budget>>,
         NEW t \in Turns, NEW f \in Frame, frame' = [frame EXCEPT ![t] = f],
         frame[t] # None => ~frame[t].closed,
         f.who # None => ~f.conflict /\ \E snapshot \in f.lookups : snapshot[f.who] = f.seen
  PROVE  IInv'
<1>1. frame'[t] = f /\ \A u \in Turns \ {t} : frame'[u] = frame[u]
  BY DEF IInv, TypeOK
<1>2. TypeOK'
  BY DEF IInv, TypeOK, journal, files, backend
<1>3. FramesHold'
  BY <1>1 DEF IInv, FramesHold
<1>4. \A q \in Procs : Process(q)'
  BY <1>1, OthersUndisturbed DEF journal, files, backend
<1>5. BodiesKept' /\ OutcomesHold'
  BY ClaimsUndisturbed DEF IInv, journal, backend
<1> QED
  BY <1>2, <1>3, <1>4, <1>5 DEF IInv, LedgerGenerated, KnowledgeKept, files

(* A snapshot of candidates has a version for each person.                 *)
LEMMA CandidatesShape == TypeOK => Candidates \in [People -> Nat]
BY DEF TypeOK, Candidates

(* A frame is opened.                                                      *)
LEMMA PreInv == ASSUME IInv, NEW p \in Procs, NEW t \in Turns, Pre(p, t) PROVE IInv'
<1> DEFINE f == [proc |-> p, lookups |-> {}, who |-> None, seen |-> 0,
                 conflict |-> FALSE, closed |-> FALSE]
<1>1. f \in Frame
  BY DEF Frame
<1> QED
  BY <1>1, FrameMoves DEF Pre

(* A lookup hands out a snapshot.                                          *)
LEMMA LookupInv == ASSUME IInv, NEW t \in Turns, Lookup(t) PROVE IInv'
<1> PICK f : f = [frame[t] EXCEPT !.lookups = @ \cup {Candidates}]
  OBVIOUS
<1>1. frame[t] \in Frame /\ ~frame[t].closed
  BY DEF Lookup, IInv, TypeOK
<1>2. /\ f \in Frame /\ f.who = frame[t].who /\ f.seen = frame[t].seen
      /\ f.conflict = frame[t].conflict /\ frame[t].lookups \subseteq f.lookups
  BY <1>1, CandidatesShape DEF Frame, IInv
<1>3. f.who # None => ~f.conflict /\ \E snapshot \in f.lookups : snapshot[f.who] = f.seen
  BY <1>1, <1>2, NoneAssumption DEF IInv, FramesHold
<1> QED
  BY <1>1, <1>2, <1>3, FrameMoves DEF Lookup

(* The agent decides: a person it keeps was seen in a lookup of this frame. *)
LEMMA DecideInv ==
  ASSUME IInv, NEW t \in Turns, frame[t] # None,
         NEW snapshot \in frame[t].lookups, NEW x \in People, Decide(t, snapshot, x)
  PROVE  IInv'
<1> DEFINE clash == frame[t].conflict \/ frame[t].who \notin {None, x}
           stale == snapshot # Candidates
<1> PICK f : f = [frame[t] EXCEPT !.who = IF stale \/ clash THEN None ELSE x,
                                  !.seen = snapshot[x],
                                  !.conflict = @ \/ (clash /\ ~stale)]
  OBVIOUS
<1>1. frame[t] \in Frame /\ ~frame[t].closed
  BY DEF Decide, IInv, TypeOK
<1>2. snapshot[x] \in Nat
  BY <1>1 DEF Frame
<1>3. /\ f \in Frame /\ f.lookups = frame[t].lookups
      /\ f.who = (IF stale \/ clash THEN None ELSE x)
      /\ f.seen = snapshot[x]
      /\ f.conflict = (frame[t].conflict \/ (clash /\ ~stale))
  BY <1>1, <1>2 DEF Frame
<1>4. frame' = [frame EXCEPT ![t] = f]
  BY DEF Decide
<1>5. f.who # None => ~f.conflict /\ \E s \in f.lookups : s[f.who] = f.seen
  BY <1>3
<1>6. UNCHANGED <<run, lock, journal, files, backend, told, policy, budget>>
  BY DEF Decide
<1> HIDE DEF clash, stale
<1> QED
  BY <1>1, <1>3, <1>4, <1>5, <1>6, FrameMoves

(* The agent takes its decision back.                                      *)
LEMMA UnresolveInv == ASSUME IInv, NEW t \in Turns, Unresolve(t) PROVE IInv'
<1> PICK f : f = [frame[t] EXCEPT !.who = None]
  OBVIOUS
<1>1. frame[t] \in Frame /\ ~frame[t].closed
  BY DEF Unresolve, IInv, TypeOK
<1>2. f \in Frame /\ f.who = None
  BY <1>1 DEF Frame
<1>3. frame' = [frame EXCEPT ![t] = f]
  BY DEF Unresolve
<1> QED
  BY <1>1, <1>2, <1>3, FrameMoves DEF Unresolve

-----------------------------------------------------------------------------
(* The steps of a run outside the journal.                                  *)

(* One process moves; journal and backend stay as they are. *)
LEMMA RunMoves ==
  ASSUME IInv, TypeOK', NEW p \in Procs, NEW x, run' = [run EXCEPT ![p] = x],
         UNCHANGED <<requests, outcomes, changes, pending, told>>,
         \A q \in Procs : q # p /\ lock = q => lock' = q,
         \A t \in Turns : extracted[t] # None => extracted'[t] = extracted[t],
         \A t \in Turns : frame[t] # None /\ frame[t].proc # p => frame'[t] = frame[t],
         \A d \in Domains : Range(evidence[d]) \subseteq Range(evidence'[d]),
         FramesHold', LedgerGenerated', KnowledgeKept', Process(p)'
  PROVE  IInv'
<1>1. \A q \in Procs : q # p => run'[q] = run[q]
  BY DEF IInv, TypeOK
<1>2. ASSUME NEW q \in Procs, q # p PROVE Process(q)'
  <2>1. \A t \in Turns : frame[t] # None /\ frame[t].proc = q /\ frame[t].closed =>
                           frame'[t] = frame[t]
    BY <1>2
  <2> QED
    BY <1>1, <1>2, <2>1, OthersUndisturbed
<1>3. BodiesKept' /\ OutcomesHold'
  BY ClaimsUndisturbed DEF IInv
<1> QED
  BY <1>2, <1>3 DEF IInv

(* One process moves and nothing else changes. *)
LEMMA OnlyRunMoves ==
  ASSUME IInv, NEW p \in Procs, NEW x \in Run, run' = [run EXCEPT ![p] = x],
         UNCHANGED <<frame, lock, journal, files, backend, told, policy, budget>>,
         Process(p)'
  PROVE  IInv'
<1>1. TypeOK'
  BY DEF IInv, TypeOK, journal, files, backend
<1>2. FramesHold' /\ LedgerGenerated' /\ KnowledgeKept'
  BY DEF IInv, FramesHold, LedgerGenerated, KnowledgeKept, files
<1> QED
  BY <1>1, <1>2, RunMoves DEF journal, files, backend

(* What a process that has nothing to do knows. *)
LEMMA IdleProcess ==
  ASSUME NEW p \in Procs, run'[p] = Idle
  PROVE  Process(p)'
BY DEF Process, Journalled, Running, Attached, Curating, Idle, InJournal

(* A turn is offered: a run takes the person its own closed frame holds.   *)
LEMMA DeliverInv == ASSUME IInv, NEW p \in Procs, NEW t \in Turns, Deliver(p, t) PROVE IInv'
<1> DEFINE who == IF Native(p, t) THEN frame[t].who ELSE None
           seen == IF Native(p, t) THEN frame[t].seen ELSE 0
<1> PICK x : x = [Idle EXCEPT !.pc = "extract", !.turn = t, !.who = who, !.seen = seen]
  OBVIOUS
<1>1. Native(p, t) => frame[t] \in Frame
  BY DEF Native, IInv, TypeOK
<1>2. who \in People \cup {None} /\ seen \in Nat
  BY <1>1 DEF Frame
<1>3. /\ x \in Run /\ x.pc = "extract" /\ x.turn = t /\ x.who = who /\ x.seen = seen
  <2> HIDE DEF who, seen
  <2> QED
    BY <1>2, IdleShape DEF Run, PCs
<1>4. /\ run' = [run EXCEPT ![p] = x]
      /\ frame' = IF Native(p, t) THEN [frame EXCEPT ![t].closed = TRUE] ELSE frame
      /\ budget' = [budget EXCEPT ![t] = @ - 1] /\ budget[t] > 0
      /\ UNCHANGED <<lock, journal, files, backend, told, policy>>
  BY DEF Deliver, Spend
<1>5. run'[p] = x
  BY <1>4 DEF IInv, TypeOK
<1>6. \A u \in Turns : frame[u] # None /\ ~(u = t /\ Native(p, t)) => frame'[u] = frame[u]
  BY <1>4 DEF IInv, TypeOK
<1>7. ASSUME Native(p, t)
      PROVE  /\ frame'[t] \in Frame /\ frame'[t].closed /\ frame'[t].proc = p
             /\ frame'[t].who = who /\ frame'[t].seen = seen
             /\ frame'[t].lookups = frame[t].lookups /\ frame'[t].conflict = frame[t].conflict
  BY <1>1, <1>4, <1>7 DEF Frame, Native, IInv, TypeOK
<1>8. TypeOK'
  <2>1. frame' \in [Turns -> Frame \cup {None}]
    BY <1>4, <1>7 DEF IInv, TypeOK
  <2>2. /\ budget' \in [Turns \cup {"crashes", "others"} -> Nat]
        /\ budget'["others"] <= MaxOthers
    <3>1. budget[t] \in Nat /\ budget["others"] \in Nat
      BY DEF IInv, TypeOK
    <3>2. budget'["others"] \in {budget["others"], budget["others"] - 1}
      BY <1>4 DEF IInv, TypeOK
    <3> QED
      BY <1>4, <3>1, <3>2, BoundsAssumption DEF IInv, TypeOK
  <2> QED
    BY <1>3, <1>4, <2>1, <2>2 DEF IInv, TypeOK, journal, files, backend
<1>9. FramesHold'
  <2> SUFFICES ASSUME NEW u \in Turns, frame'[u] # None, frame'[u].who # None
               PROVE  /\ ~frame'[u].conflict
                      /\ \E s \in frame'[u].lookups : s[frame'[u].who] = frame'[u].seen
    BY DEF FramesHold
  <2>1. CASE u = t /\ Native(p, t)
    BY <1>7, <2>1 DEF IInv, FramesHold, Native
  <2>2. CASE ~(u = t /\ Native(p, t))
    <3>1. frame'[u] = frame[u]
      BY <1>4, <2>2 DEF IInv, TypeOK
    <3> QED
      BY <3>1 DEF IInv, FramesHold
  <2> QED
    BY <2>1, <2>2
<1>10. Process(p)'
  <2>1. Attached(p)'
    BY <1>3, <1>5, <1>7, NoneAssumption DEF Attached
  <2> QED
    BY <1>3, <1>5, <2>1 DEF Process, Journalled, Running, Curating, InJournal
<1>11. LedgerGenerated' /\ KnowledgeKept'
  BY <1>4 DEF IInv, LedgerGenerated, KnowledgeKept, files
<1>12. \A u \in Turns : frame[u] # None /\ frame[u].proc # p => frame'[u] = frame[u]
  BY <1>6 DEF Native
<1> QED
  BY <1>4, <1>8, <1>9, <1>10, <1>11, <1>12, RunMoves DEF journal, files, backend

(* A decision is kept in the journal; no run is beyond it.                 *)
LEMMA ExtractInv == ASSUME IInv, NEW p \in Procs, Extract(p) PROVE IInv'
<1> DEFINE t == run[p].turn
<1> PICK x : x = [run[p] EXCEPT !.pc = "log"]
  OBVIOUS
<1>1. t \in Turns /\ run[p] \in Run
  BY DEF Extract, IInv, Process, Running, TypeOK
<1>2. /\ x \in Run /\ x.pc = "log" /\ x.turn = t /\ x.who = run[p].who /\ x.seen = run[p].seen
  BY <1>1 DEF Run, PCs
<1>3. /\ run' = [run EXCEPT ![p] = x]
      /\ UNCHANGED <<frame, lock, requests, outcomes, files, backend, told, policy, budget>>
  BY DEF Extract, Goto
<1>4. \/ extracted' = extracted /\ extracted[t] # None
      \/ \E d \in Decisions : extracted' = [extracted EXCEPT ![t] = d] /\ extracted[t] = None
  BY DEF Extract
<1>5. /\ extracted' \in [Turns -> Decisions \cup {None}] /\ extracted'[t] # None
      /\ \A u \in Turns : extracted[u] # None => extracted'[u] = extracted[u]
  <2>1. \A d \in Decisions : d # None
    BY NoneAssumption
  <2>2. extracted \in [Turns -> Decisions \cup {None}]
    BY DEF IInv, TypeOK
  <2>3. CASE extracted' = extracted /\ extracted[t] # None
    BY <2>2, <2>3
  <2>4. ASSUME NEW d \in Decisions, extracted' = [extracted EXCEPT ![t] = d], extracted[t] = None
        PROVE  /\ extracted' \in [Turns -> Decisions \cup {None}] /\ extracted'[t] # None
               /\ \A u \in Turns : extracted[u] # None => extracted'[u] = extracted[u]
    BY <1>1, <2>1, <2>2, <2>4
  <2> QED
    BY <1>4, <2>3, <2>4
<1>6. run'[p] = x
  BY <1>3 DEF IInv, TypeOK
<1>7. TypeOK'
  BY <1>2, <1>3, <1>5 DEF IInv, TypeOK, files, backend
<1>8. Process(p)'
  <2>1. Attached(p)'
    BY <1>2, <1>3, <1>6 DEF IInv, Process, Attached
  <2> QED
    BY <1>1, <1>2, <1>5, <1>6, <2>1 DEF Process, Journalled, Running, Curating, InJournal
<1>9. FramesHold' /\ LedgerGenerated' /\ KnowledgeKept'
  BY <1>3 DEF IInv, FramesHold, LedgerGenerated, KnowledgeKept, files
<1> QED
  BY <1>3, <1>5, <1>7, <1>8, <1>9, RunMoves DEF files, backend

(* A run ends, wherever it stood, and leaves everything as it is. *)
LEMMA RunEnds ==
  ASSUME IInv, NEW p \in Procs, run' = [run EXCEPT ![p] = Idle],
         lock' \in {lock, None}, lock' # lock => lock = p,
         UNCHANGED <<frame, extracted, requests, outcomes, evidence, page, backend, told, policy,
                     budget>>,
         candidateLog' \subseteq Turns
  PROVE  IInv'
<1>1. run'[p] = Idle
  BY DEF IInv, TypeOK
<1>2. TypeOK'
  BY IdleShape DEF IInv, TypeOK, backend
<1>3. FramesHold' /\ LedgerGenerated' /\ KnowledgeKept'
  BY DEF IInv, FramesHold, LedgerGenerated, KnowledgeKept
<1> QED
  BY <1>1, <1>2, <1>3, IdleProcess, RunMoves DEF backend

(* The candidate log is written, and an owner of the information chosen.   *)
LEMMA LogCandidateInv == ASSUME IInv, NEW p \in Procs, LogCandidate(p) PROVE IInv'
<1> DEFINE d == extracted[run[p].turn]
           pc == IF PersonSpecific(d) THEN "lock" ELSE "evidence"
<1> PICK x : x = [run[p] EXCEPT !.pc = pc]
  OBVIOUS
<1>1. /\ run[p] \in Run /\ run[p].turn \in Turns /\ d # None
  BY DEF LogCandidate, IInv, Process, Running, TypeOK
<1>2. /\ x \in Run /\ x.pc = pc /\ x.turn = run[p].turn /\ x.who = run[p].who
      /\ x.seen = run[p].seen
  BY <1>1 DEF Run, PCs
<1>3. candidateLog' \subseteq Turns
  BY <1>1 DEF LogCandidate, IInv, TypeOK
<1>4. UNCHANGED <<frame, lock, journal, evidence, page, backend, told, policy, budget>>
  BY DEF LogCandidate
<1>5. run' = [run EXCEPT ![p] = Idle] \/ run' = [run EXCEPT ![p] = x]
  BY DEF LogCandidate
<1>6. CASE run' = [run EXCEPT ![p] = Idle]
  BY <1>3, <1>4, <1>6, RunEnds DEF journal
<1>7. CASE run' = [run EXCEPT ![p] = x]
  <2>1. run'[p] = x
    BY <1>7 DEF IInv, TypeOK
  <2>2. TypeOK'
    BY <1>2, <1>3, <1>4, <1>7 DEF IInv, TypeOK, journal, backend
  <2>3. FramesHold' /\ LedgerGenerated' /\ KnowledgeKept'
    BY <1>4 DEF IInv, FramesHold, LedgerGenerated, KnowledgeKept
  <2>4. Process(p)'
    <3>1. Attached(p)'
      BY <1>2, <1>4, <2>1 DEF IInv, Process, Attached
    <3> QED
      BY <1>1, <1>2, <1>4, <2>1, <3>1
         DEF Process, Journalled, Running, Curating, InJournal, journal
  <2> QED
    BY <1>4, <1>7, <2>2, <2>3, <2>4, RunMoves DEF journal, backend
<1> QED
  BY <1>5, <1>6, <1>7

(* A process becomes the holder of the journal, at its first claim.        *)
LEMMA LockJournalInv == ASSUME IInv, NEW p \in Procs, LockJournal(p) PROVE IInv'
<1> PICK x : x = [[run[p] EXCEPT !.pc = "claim"] EXCEPT !.index = 1]
  OBVIOUS
<1>1. run[p] \in Run /\ run[p].turn \in Turns /\ extracted[run[p].turn] \in Decisions
  BY DEF LockJournal, IInv, Process, Running, TypeOK
<1>2. /\ x \in Run /\ x.pc = "claim" /\ x.index = 1 /\ x.turn = run[p].turn
      /\ x.who = run[p].who /\ x.seen = run[p].seen
  BY <1>1 DEF Run, PCs
<1>3. /\ run' = [run EXCEPT ![p] = x] /\ lock = None /\ lock' = p
      /\ UNCHANGED <<frame, journal, files, backend, told, policy, budget>>
  BY DEF LockJournal
<1>4. run'[p] = x
  BY <1>3 DEF IInv, TypeOK
<1>5. TypeOK'
  BY <1>2, <1>3 DEF IInv, TypeOK, journal, files, backend
<1>6. Process(p)'
  <2>1. Attached(p)'
    BY <1>2, <1>3, <1>4 DEF IInv, Process, Attached
  <2>2. Len(extracted'[run[p].turn].claims) \in Nat
    BY <1>1, <1>3, DecisionsAssumption DEF journal
  <2>3. 1 \in 1..(Len(extracted'[run[p].turn].claims) + 1)
    BY <2>2
  <2>4. Journalled(p)'
    BY <1>2, <1>3, <1>4, <2>3 DEF Journalled
  <2> QED
    BY <1>1, <1>2, <1>3, <1>4, <2>1, <2>4, NoneAssumption
       DEF Process, Running, Curating, journal
<1>7. FramesHold' /\ LedgerGenerated' /\ KnowledgeKept'
  BY <1>3 DEF IInv, FramesHold, LedgerGenerated, KnowledgeKept, files
<1>8. \A q \in Procs : lock # q
  BY <1>3, NoneAssumption
<1> QED
  BY <1>3, <1>5, <1>6, <1>7, <1>8, RunMoves DEF journal, files, backend

(* The holder lets go of the journal.                                      *)
LEMMA LeaveJournalInv == ASSUME IInv, NEW p \in Procs, LeaveJournal(p) PROVE IInv'
<1>1. lock = p
  BY DEF LeaveJournal, IInv, Process, Journalled, InJournal
<1>2. candidateLog' \subseteq Turns
  BY DEF LeaveJournal, files, IInv, TypeOK
<1> QED
  BY <1>1, <1>2, RunEnds DEF LeaveJournal, journal, files

-----------------------------------------------------------------------------
(* The user's pages.                                                        *)

(* A run that reaches the pages has a decision with a known line. *)
LEMMA CuratedDecision ==
  ASSUME IInv, NEW p \in Procs, run[p].pc \in {"evidence", "page", "replace"}
  PROVE  /\ run[p] \in Run /\ run[p].turn \in Turns
         /\ extracted[run[p].turn] \in Decisions
         /\ extracted[run[p].turn].line \in Line
         /\ Domain(extracted[run[p].turn]) \in Domains
<1>1. /\ run[p] \in Run /\ run[p].turn \in Turns /\ extracted[run[p].turn] \in Decisions
  BY DEF IInv, Process, Running, TypeOK
<1>2. extracted[run[p].turn].line \in Line
  BY <1>1 DEF Line
<1> QED
  BY <1>1, <1>2 DEF Domain, Domains

(* A line enters the ledger before any page has it.                        *)
LEMMA AppendEvidenceInv == ASSUME IInv, NEW p \in Procs, AppendEvidence(p) PROVE IInv'
<1> PICK d : d = extracted[run[p].turn]
  OBVIOUS
<1>1. /\ run[p] \in Run /\ run[p].turn \in Turns /\ d \in Decisions
      /\ d.line \in Line /\ Domain(d) \in Domains
  BY CuratedDecision DEF AppendEvidence
<1>2. UNCHANGED <<frame, lock, journal, candidateLog, page, backend, told, policy, budget>>
  BY DEF AppendEvidence
<1>3. CASE evidence' = evidence /\ run' = [run EXCEPT ![p] = Idle]
  BY <1>2, <1>3, RunEnds DEF journal, IInv, TypeOK
<1>4. CASE ~(evidence' = evidence /\ run' = [run EXCEPT ![p] = Idle])
  <2> PICK x : x = [[run[p] EXCEPT !.pc = "page"] EXCEPT !.known = Range(evidence'[Domain(d)])]
    OBVIOUS
  <2>1. /\ evidence' = [evidence EXCEPT ![Domain(d)] = Append(@, d.line)]
        /\ run' = [run EXCEPT ![p] = x]
    BY <1>4 DEF AppendEvidence
  <2>2. /\ evidence[Domain(d)] \in Seq(Line)
        /\ evidence'[Domain(d)] = Append(evidence[Domain(d)], d.line)
        /\ \A e \in Domains : e # Domain(d) => evidence'[e] = evidence[e]
    BY <1>1, <2>1 DEF IInv, TypeOK
  <2>3. /\ evidence'[Domain(d)] \in Seq(Line)
        /\ Range(evidence'[Domain(d)]) = Range(evidence[Domain(d)]) \cup {d.line}
    BY <1>1, <2>2, AppendRange
  <2>4. Range(evidence'[Domain(d)]) \subseteq Line
    BY <2>3 DEF Range
  <2>5. /\ x \in Run /\ x.pc = "page" /\ x.turn = run[p].turn /\ x.who = run[p].who
        /\ x.seen = run[p].seen /\ x.known = Range(evidence'[Domain(d)])
    BY <1>1, <2>4 DEF Run, PCs
  <2>6. \A e \in Domains : Range(evidence[e]) \subseteq Range(evidence'[e])
    BY <2>2, <2>3
  <2>7. TypeOK'
    <3>1. evidence' \in [Domains -> Seq(Line)]
      BY <1>1, <2>1, <2>2, <2>3 DEF IInv, TypeOK
    <3> QED
      BY <1>2, <2>1, <2>5, <3>1 DEF IInv, TypeOK, journal, backend
  <2>8. run'[p] = x
    BY <2>1 DEF IInv, TypeOK
  <2>9. Process(p)'
    <3>1. Attached(p)'
      BY <1>2, <2>5, <2>8 DEF IInv, Process, Attached
    <3>2. Domain(d)' = Domain(d) /\ extracted'[run[p].turn] = d
      BY <1>2 DEF Domain, journal
    <3>3. Curating(p)'
      BY <2>3, <2>5, <2>8, <3>2 DEF Curating, Domain
    <3>4. d # None
      BY <1>1, NoneAssumption
    <3> QED
      BY <1>1, <2>5, <2>8, <3>1, <3>2, <3>3, <3>4 DEF Process, Journalled, Running, InJournal
  <2>10. FramesHold'
    BY <1>2 DEF IInv, FramesHold
  <2>11. LedgerGenerated'
    BY <1>1, <2>2, <2>3, OwnAssumption DEF IInv, LedgerGenerated
  <2>12. KnowledgeKept'
    BY <1>2, <2>6 DEF IInv, KnowledgeKept
  <2> QED
    BY <1>2, <2>1, <2>6, <2>7, <2>9, <2>10, <2>11, <2>12, RunMoves DEF journal, backend
<1> QED
  BY <1>3, <1>4

(* A page is copied: the copy has nothing the page does not have.          *)
LEMMA ReadPageInv == ASSUME IInv, NEW p \in Procs, ReadPage(p) PROVE IInv'
<1> PICK d : d = extracted[run[p].turn]
  OBVIOUS
<1> PICK x : x = [[run[p] EXCEPT !.pc = "replace"] EXCEPT !.copy = page[Domain(d)]]
  OBVIOUS
<1>1. /\ run[p] \in Run /\ run[p].turn \in Turns /\ d \in Decisions /\ Domain(d) \in Domains
  BY CuratedDecision DEF ReadPage
<1>2. UNCHANGED <<frame, lock, journal, files, backend, told, policy, budget>>
  BY DEF ReadPage
<1>3. run' = [run EXCEPT ![p] = Idle] \/ run' = [run EXCEPT ![p] = x]
  BY DEF ReadPage
<1>4. CASE run' = [run EXCEPT ![p] = Idle]
  BY <1>2, <1>4, RunEnds DEF journal, files, IInv, TypeOK
<1>5. CASE run' = [run EXCEPT ![p] = x]
  <2>1. page[Domain(d)] \in Seq(Line)
    BY <1>1 DEF IInv, TypeOK
  <2>2. /\ x \in Run /\ x.pc = "replace" /\ x.turn = run[p].turn /\ x.who = run[p].who
        /\ x.seen = run[p].seen /\ x.known = run[p].known /\ x.copy = page[Domain(d)]
    BY <1>1, <2>1 DEF Run, PCs
  <2>3. run'[p] = x
    BY <1>5 DEF IInv, TypeOK
  <2>4. /\ d.line \in run[p].known /\ run[p].known \subseteq Range(evidence[Domain(d)])
    BY DEF ReadPage, IInv, Process, Curating
  <2>5. /\ Range(page[Domain(d)]) \subseteq {Own} \cup Range(evidence[Domain(d)])
        /\ d.cultural = None => Own \in Range(page[Domain(d)])
    BY <1>1 DEF IInv, KnowledgeKept, Domain
  <2>6. Process(p)'
    <3>1. Attached(p)'
      BY <1>2, <2>2, <2>3 DEF IInv, Process, Attached
    <3>2. Domain(d)' = Domain(d) /\ extracted'[run[p].turn] = d /\ evidence' = evidence
      BY <1>2 DEF Domain, journal, files
    <3>3. Curating(p)'
      BY <2>2, <2>3, <2>4, <2>5, <3>2 DEF Curating, Domain
    <3>4. d # None
      BY <1>1, NoneAssumption
    <3> QED
      BY <1>1, <2>2, <2>3, <3>1, <3>2, <3>3, <3>4 DEF Process, Journalled, Running, InJournal
  <2> QED
    BY <1>2, <1>5, <2>2, <2>6, OnlyRunMoves
<1> QED
  BY <1>3, <1>4, <1>5

(* A page is replaced by the updated copy, which may be older than the page; *)
(* the line is in the ledger, and the user's own line was in the copy.     *)
LEMMA ReplacePageInv == ASSUME IInv, NEW p \in Procs, ReplacePage(p) PROVE IInv'
<1> PICK d : d = extracted[run[p].turn]
  OBVIOUS
<1> PICK new : new = Updated(d, run[p].copy, run[p].known)
  OBVIOUS
<1>1. /\ run[p] \in Run /\ run[p].turn \in Turns /\ d \in Decisions /\ Domain(d) \in Domains
  BY CuratedDecision DEF ReplacePage
<1>2. /\ page' = [page EXCEPT ![Domain(d)] = new] /\ run' = [run EXCEPT ![p] = Idle]
      /\ UNCHANGED <<frame, lock, journal, candidateLog, evidence, backend, told, policy, budget>>
  BY DEF ReplacePage
<1>3. /\ d.line \in run[p].known /\ run[p].known \subseteq Range(evidence[Domain(d)])
      /\ Range(run[p].copy) \subseteq {Own} \cup Range(evidence[Domain(d)])
      /\ d.cultural = None => Own \in Range(run[p].copy)
  BY DEF ReplacePage, IInv, Process, Curating
<1>4. run[p].copy \in Seq(Line)
  BY <1>1 DEF Run
<1>5. /\ new \in Seq(Line) /\ Range(new) \subseteq Range(run[p].copy) \cup {d.line}
      /\ d.cultural = None => Range(run[p].copy) \ run[p].known \subseteq Range(new)
  BY <1>1, <1>4, UpdatedKeeps
<1>6. Own \notin run[p].known
  BY <1>1, <1>3 DEF IInv, LedgerGenerated
<1>7. page'[Domain(d)] = new /\ \A e \in Domains : e # Domain(d) => page'[e] = page[e]
  BY <1>1, <1>2 DEF IInv, TypeOK
<1>8. TypeOK'
  <2>1. page' \in [Domains -> Seq(Line)]
    BY <1>1, <1>2, <1>5 DEF IInv, TypeOK
  <2> QED
    BY <1>2, <2>1, IdleShape DEF IInv, TypeOK, journal, backend
<1>9. KnowledgeKept'
  <2>1. Own \in Range(page'["context"])
    <3>1. CASE d.cultural = None
      <4>1. Domain(d) = "context"
        BY <3>1 DEF Domain
      <4> QED
        BY <1>3, <1>5, <1>6, <1>7, <3>1, <4>1
    <3>2. CASE d.cultural # None
      <4>1. Domain(d) = "cultural" /\ "context" \in Domains
        BY <3>2 DEF Domain, Domains
      <4> QED
        BY <1>7, <4>1 DEF IInv, KnowledgeKept
    <3> QED
      BY <3>1, <3>2
  <2>2. \A e \in Domains : Range(page'[e]) \subseteq {Own} \cup Range(evidence[e])
    BY <1>3, <1>5, <1>7 DEF IInv, KnowledgeKept
  <2> QED
    BY <1>2, <2>1, <2>2 DEF KnowledgeKept
<1>10. Process(p)'
  <2>1. run'[p] = Idle
    BY <1>2 DEF IInv, TypeOK
  <2> QED
    BY <2>1, IdleProcess
<1>11. FramesHold' /\ LedgerGenerated'
  BY <1>2 DEF IInv, FramesHold, LedgerGenerated
<1> QED
  BY <1>2, <1>8, <1>9, <1>10, <1>11, RunMoves DEF journal, backend

-----------------------------------------------------------------------------
(* Crashes and other writers.                                               *)

(* A crash takes the run, the frames and the hold on the journal at once.  *)
LEMMA CrashInv == ASSUME IInv, NEW p \in Procs, Crash(p) PROVE IInv'
<1>1. /\ run' = [run EXCEPT ![p] = Idle]
      /\ lock' = IF lock = p THEN None ELSE lock
      /\ frame' = [t \in Turns |->
                     IF frame[t] # None /\ frame[t].proc = p THEN None ELSE frame[t]]
      /\ budget["crashes"] > 0 /\ budget' = [budget EXCEPT !["crashes"] = @ - 1]
      /\ UNCHANGED <<journal, files, backend, told, policy>>
  BY DEF Crash, Spend
<1>2. TypeOK'
  <2>1. /\ budget' \in [Turns \cup {"crashes", "others"} -> Nat]
        /\ budget'["others"] <= MaxOthers
    BY <1>1 DEF IInv, TypeOK
  <2>2. frame' \in [Turns -> Frame \cup {None}]
    BY <1>1 DEF IInv, TypeOK
  <2> QED
    BY <1>1, <2>1, <2>2, IdleShape DEF IInv, TypeOK, journal, files, backend
<1>3. FramesHold'
  <2>1. \A t \in Turns : frame'[t] # None => frame'[t] = frame[t]
    BY <1>1
  <2> QED
    BY <2>1 DEF IInv, FramesHold
<1>4. LedgerGenerated' /\ KnowledgeKept'
  BY <1>1 DEF IInv, LedgerGenerated, KnowledgeKept, files
<1>5. Process(p)'
  <2>1. run'[p] = Idle
    BY <1>1 DEF IInv, TypeOK
  <2> QED
    BY <2>1, IdleProcess
<1>6. \A t \in Turns : frame[t] # None /\ frame[t].proc # p => frame'[t] = frame[t]
  BY <1>1
<1> QED
  BY <1>1, <1>2, <1>3, <1>4, <1>5, <1>6, RunMoves DEF journal, files, backend

(* No process moves; the backend's people and changes do. *)
LEMMA BackendMoves ==
  ASSUME IInv, TypeOK', BodiesKept', OutcomesHold', changes \subseteq changes',
         UNCHANGED <<frame, run, lock, journal, files>>
  PROVE  IInv'
<1>1. \A q \in Procs : Process(q)'
  BY OthersUndisturbed DEF journal, files
<1> QED
  BY <1>1 DEF IInv, FramesHold, LedgerGenerated, KnowledgeKept, files

(* Another writer changes the people, and neither changes nor journal.     *)
LEMMA OtherWriterInv == ASSUME IInv, NEW x \in People, OtherWriter(x) PROVE IInv'
<1>1. /\ card' = [card EXCEPT ![x] = @ + 1]
      /\ budget["others"] > 0 /\ budget' = [budget EXCEPT !["others"] = @ - 1]
      /\ UNCHANGED <<frame, run, lock, journal, files, changes, pending, told, policy>>
  BY DEF OtherWriter, Spend
<1>2. Fresh \in Nat
  <2>1. Cardinality(changes) \in Nat
    BY FS_CardinalityType DEF IInv, TypeOK
  <2>2. budget["others"] \in Nat /\ budget["others"] <= MaxOthers
    BY DEF IInv, TypeOK
  <2> QED
    BY <2>1, <2>2, BoundsAssumption DEF Fresh
<1>3. slot' \in [People -> Nat] /\ active' \in [People -> BOOLEAN]
  <2>1. slot \in [People -> Nat] /\ active \in [People -> BOOLEAN]
    BY DEF IInv, TypeOK
  <2>2. CASE \E v \in {0, Fresh} : slot' = [slot EXCEPT ![x] = v] /\ UNCHANGED active
    BY <1>2, <2>1, <2>2
  <2>3. CASE active' = [active EXCEPT ![x] = ~@] /\ UNCHANGED slot
    BY <2>1, <2>3
  <2> QED
    BY <2>2, <2>3 DEF OtherWriter
<1>4. card' \in [People -> Nat]
  BY <1>1 DEF IInv, TypeOK
<1>5. /\ budget' \in [Turns \cup {"crashes", "others"} -> Nat]
      /\ budget'["others"] <= MaxOthers
  <2>1. budget["others"] \in Nat /\ budget["others"] <= MaxOthers
    BY DEF IInv, TypeOK
  <2>2. budget'["others"] = budget["others"] - 1
    BY <1>1 DEF IInv, TypeOK
  <2> QED
    BY <1>1, <2>1, <2>2, BoundsAssumption DEF IInv, TypeOK
<1>6. TypeOK'
  BY <1>1, <1>3, <1>4, <1>5 DEF IInv, TypeOK, journal, files
<1>7. BodiesKept' /\ OutcomesHold'
  BY <1>1, ClaimsUndisturbed DEF IInv, journal
<1> QED
  BY <1>1, <1>6, <1>7, BackendMoves

(* A body the journal holds may take effect while its claim is not given up. *)
LEMMA EffectKeepsClaims ==
  ASSUME IInv, NEW body \in Body, body = requests[body.input],
         body.input \in Inputs, outcomes[body.input] \notin {"noop", "terminal"},
         changes' = changes \/ changes' = changes \cup {body},
         pending' \subseteq pending,
         UNCHANGED <<requests, outcomes, told>>
  PROVE  BodiesKept' /\ OutcomesHold' /\ changes \subseteq changes'
<1>1. \A c \in changes' \cup pending' : c \in changes \cup pending \/ c = body
  OBVIOUS
<1>2. BodiesKept'
  BY <1>1 DEF IInv, BodiesKept
<1>3. ASSUME NEW i \in Inputs, outcomes[i] \in {"noop", "terminal"}
      PROVE  requests[i] \notin changes' \cup pending'
  <2>1. requests[i] \notin changes \cup pending
    BY <1>3 DEF IInv, OutcomesHold
  <2>2. requests[i] # body
    <3> SUFFICES ASSUME requests[i] = body PROVE FALSE
      OBVIOUS
    <3>1. body # None
      BY NoneAssumption
    <3> QED
      BY <1>3, <3>1 DEF IInv, BodiesKept
  <2> QED
    BY <1>1, <2>1, <2>2
<1>4. OutcomesHold'
  BY <1>3 DEF IInv, OutcomesHold
<1> QED
  BY <1>2, <1>4

(* A late attempt takes effect: the claim it belongs to is not given up.   *)
LEMMA ProcessPendingInv == ASSUME IInv, ProcessPending PROVE IInv'
<1>1. PICK body \in pending : Processed(body) /\ pending' = pending \ {body}
  BY DEF ProcessPending
<1>2. UNCHANGED <<frame, run, lock, journal, files, active, told, policy, budget>>
  BY DEF ProcessPending
<1>3. body \in Body /\ body.input \in Inputs
  BY DEF IInv, TypeOK, Body
<1>4. body = requests[body.input]
  BY DEF IInv, BodiesKept
<1>5. outcomes[body.input] \notin {"noop", "terminal"}
  BY <1>3, <1>4 DEF IInv, OutcomesHold
<1>6. /\ slot' \in [People -> Nat] /\ card' \in [People -> Nat]
      /\ changes' \subseteq Body /\ IsFiniteSet(changes')
      /\ changes' = changes \/ changes' = changes \cup {body}
  BY <1>1, <1>3, ProcessedShape DEF IInv
<1>7. TypeOK'
  BY <1>1, <1>2, <1>6 DEF IInv, TypeOK, journal, files
<1>8. BodiesKept' /\ OutcomesHold' /\ changes \subseteq changes'
  BY <1>1, <1>2, <1>3, <1>4, <1>5, <1>6, EffectKeepsClaims DEF journal
<1> QED
  BY <1>2, <1>7, <1>8, BackendMoves

-----------------------------------------------------------------------------
(* The steps of the holder of the journal.                                  *)

(* Nobody else holds the journal. *)
LEMMA JournalMoves ==
  ASSUME IInv, TypeOK', NEW p \in Procs, run[p].pc \in InJournal,
         NEW x, run' = [run EXCEPT ![p] = x],
         UNCHANGED <<frame, lock, extracted, files>>,
         changes \subseteq changes', BodiesKept', OutcomesHold', Process(p)'
  PROVE  IInv'
<1>1. lock = p
  BY DEF IInv, Process, Journalled
<1>2. ASSUME NEW q \in Procs, q # p PROVE Process(q)'
  <2>1. run'[q] = run[q] /\ lock # q
    BY <1>1, <1>2 DEF IInv, TypeOK
  <2> QED
    BY <2>1, OthersUndisturbed DEF files
<1> QED
  BY <1>2 DEF IInv, FramesHold, LedgerGenerated, KnowledgeKept, files

(* What the holder must know after its step. *)
LEMMA HolderKnows ==
  ASSUME IInv, NEW p \in Procs, run[p].pc \in InJournal,
         NEW x \in Run, run' = [run EXCEPT ![p] = x],
         UNCHANGED <<frame, lock, extracted>>,
         x.turn = run[p].turn, x.who = run[p].who, x.seen = run[p].seen,
         x.pc \in InJournal,
         x.index \in 1..(Len(extracted[run[p].turn].claims) + 1),
         x.pc # "claim" =>
           /\ x.index = run[p].index /\ x.index <= Len(extracted[run[p].turn].claims)
           /\ outcomes'[Input(p)] \notin {"noop", "terminal"},
         x.pc \in {"resolve", "select"} => requests'[Input(p)] = None,
         x.pc = "select" => x.resolved # None,
         x.pc \in {"post", "record", "verify"} => requests'[Input(p)] # None,
         x.pc \in {"record", "verify"} => requests'[Input(p)] \in changes'
  PROVE  Process(p)'
<1>1. run'[p] = x
  BY DEF IInv, TypeOK
<1>2. x.pc # "claim" => Input(p)' = Input(p)
  BY <1>1 DEF Input
<1>3. lock = p /\ run[p].turn \in Turns /\ extracted[run[p].turn] # None
  BY DEF IInv, Process, Journalled, Running, InJournal
<1>4. Attached(p)'
  BY <1>1 DEF IInv, Process, Attached
<1>5. Journalled(p)'
  BY <1>1, <1>2, <1>3 DEF Journalled, InJournal
<1>6. Running(p)' /\ Curating(p)'
  BY <1>1, <1>3 DEF Running, Curating, InJournal
<1> QED
  BY <1>4, <1>5, <1>6 DEF Process

(* What the holder of the journal works on.                                *)
LEMMA HolderShape ==
  ASSUME IInv, NEW p \in Procs, run[p].pc \in InJournal
  PROVE  /\ run[p] \in Run /\ run[p].turn \in Turns
         /\ Len(extracted[run[p].turn].claims) \in Nat
         /\ run[p].index \in 1..(Len(extracted[run[p].turn].claims) + 1)
<1>1. /\ run[p] \in Run /\ run[p].turn \in Turns /\ extracted[run[p].turn] \in Decisions
  BY DEF IInv, Process, Running, TypeOK, InJournal
<1>2. run[p].index \in 1..(Len(extracted[run[p].turn].claims) + 1)
  BY DEF IInv, Process, Journalled
<1> QED
  BY <1>1, <1>2, DecisionsAssumption

(* On to the next claim. *)
LEMMA NextClaimKnows ==
  ASSUME IInv, NEW p \in Procs, run[p].pc \in InJournal,
         run[p].index <= Len(extracted[run[p].turn].claims),
         NextClaim(p), UNCHANGED <<frame, lock, extracted>>
  PROVE  /\ Process(p)' /\ run' \in [Procs -> Run]
         /\ \E x \in Run : run' = [run EXCEPT ![p] = x]
<1>1. /\ run[p] \in Run /\ Len(extracted[run[p].turn].claims) \in Nat
      /\ run[p].index \in 1..(Len(extracted[run[p].turn].claims) + 1)
  BY HolderShape
<1> PICK n \in Nat : n = run[p].index + 1
  BY <1>1
<1> PICK x : x = [run[p] EXCEPT !.pc = "claim", !.index = n, !.tries = 0, !.replay = FALSE]
  OBVIOUS
<1>2. /\ x \in Run /\ x.pc = "claim" /\ x.index = n /\ x.turn = run[p].turn
      /\ x.who = run[p].who /\ x.seen = run[p].seen
  BY <1>1 DEF Run, PCs
<1>3. run' = [run EXCEPT ![p] = x]
  BY <1>1 DEF NextClaim, IInv, TypeOK, Run
<1>4. x.index \in 1..(Len(extracted[run[p].turn].claims) + 1)
  BY <1>1, <1>2
<1>5. Process(p)'
  BY <1>2, <1>3, <1>4, HolderKnows DEF InJournal
<1> QED
  BY <1>2, <1>3, <1>5 DEF IInv, TypeOK

(* A claim that fails: given up only if nothing of it is or will be there.  *)
LEMMA FailedInv ==
  ASSUME IInv, NEW p \in Procs, run[p].pc \in AtClaim,
         NEW transport \in BOOLEAN, NEW attempted \in BOOLEAN, Failed(p, transport, attempted),
         UNCHANGED <<frame, lock, extracted, requests, files, slot, card, active, changes,
                     policy, budget>>,
         \/ pending' = pending
         \/ pending' = pending \cup {requests[Input(p)]} /\ requests[Input(p)] # None,
         ~transport => requests[Input(p)] \notin changes \cup pending'
  PROVE  IInv'
<1> PICK i : i = Input(p)
  OBVIOUS
<1> DEFINE o == IF outcomes[i] = "receipt" THEN "receipt"
                ELSE IF transport THEN "retryable" ELSE "terminal"
           w == IF outcomes[i] = "receipt" THEN "unverified"
                ELSE IF transport /\ attempted THEN "unknown" ELSE "not_committed"
<1>1. run[p].pc \in InJournal /\ run[p].pc # "claim" /\ i \in Inputs
  BY ClaimInput DEF AtClaim, IInv
<1>2. outcomes' = [outcomes EXCEPT ![i] = o] /\ told' = [told EXCEPT ![i] = @ \cup {w}]
  BY DEF Failed, Tell
<1>3. /\ Process(p)' /\ run' \in [Procs -> Run]
      /\ \E x \in Run : run' = [run EXCEPT ![p] = x]
  <2>1. run[p].index <= Len(extracted[run[p].turn].claims)
    BY <1>1 DEF IInv, Process, Journalled
  <2> QED
    BY <1>1, <2>1, NextClaimKnows DEF Failed
<1>4. o \in OutcomeState /\ w \in Report
  BY DEF OutcomeState, Report
<1>5. requests[i] # None => requests[i] \in Body /\ requests[i].input = i
  BY <1>1 DEF IInv, TypeOK, BodiesKept
<1>6. TypeOK'
  <2>1. outcomes' \in [Inputs -> OutcomeState] /\ told' \in [Inputs -> SUBSET Report]
    BY <1>1, <1>2, <1>4 DEF IInv, TypeOK
  <2>2. pending' \subseteq Body
    BY <1>5 DEF IInv, TypeOK
  <2> QED
    BY <1>3, <2>1, <2>2 DEF IInv, TypeOK, files
<1>7. BodiesKept'
  BY <1>5 DEF IInv, BodiesKept
<1>8. OutcomesHold'
  <2> SUFFICES ASSUME NEW j \in Inputs
               PROVE  /\ told'[j] \cap {"saved", "unverified"} # {} \/ outcomes'[j] = "receipt"
                           => requests[j] \in changes
                      /\ outcomes'[j] \in {"noop", "terminal"}
                           => requests[j] \notin changes \cup pending'
    BY DEF OutcomesHold
  <2>1. /\ told[j] \cap {"saved", "unverified"} # {} \/ outcomes[j] = "receipt"
             => requests[j] \in changes
        /\ outcomes[j] \in {"noop", "terminal"} => requests[j] \notin changes \cup pending
    BY DEF IInv, OutcomesHold
  <2>2. CASE j # i
    <3>1. outcomes'[j] = outcomes[j] /\ told'[j] = told[j]
      BY <1>2, <2>2 DEF IInv, TypeOK
    <3>2. requests[i] # None => requests[j] # requests[i]
      BY <1>5, <2>2 DEF IInv, BodiesKept
    <3> QED
      BY <2>1, <3>1, <3>2
  <2>3. CASE j = i
    <3>1. outcomes'[i] = o /\ told'[i] = told[i] \cup {w}
      BY <1>1, <1>2 DEF IInv, TypeOK
    <3>2. w \in {"saved", "unverified"} => outcomes[i] = "receipt"
      OBVIOUS
    <3>3. o \in {"noop", "terminal"} => ~transport
      OBVIOUS
    <3>4. o = "receipt" => outcomes[i] = "receipt"
      OBVIOUS
    <3> QED
      BY <2>1, <2>3, <3>1, <3>2, <3>3, <3>4
  <2> QED
    BY <2>2, <2>3
<1> QED
  BY <1>1, <1>3, <1>6, <1>7, <1>8, JournalMoves

(* A step of the holder to another point of the same claim. *)
LEMMA GotoKnows ==
  ASSUME IInv, NEW p \in Procs, run[p].pc \in InJournal,
         NEW x \in Run, run' = [run EXCEPT ![p] = x],
         x.turn = run[p].turn, x.who = run[p].who, x.seen = run[p].seen,
         x.index = run[p].index, x.pc \in AtClaim,
         run[p].index <= Len(extracted[run[p].turn].claims),
         UNCHANGED <<frame, lock, extracted>>,
         outcomes'[Input(p)] \notin {"noop", "terminal"},
         x.pc \in {"resolve", "select"} => requests'[Input(p)] = None,
         x.pc = "select" => x.resolved # None,
         x.pc \in {"post", "record", "verify"} => requests'[Input(p)] # None,
         x.pc \in {"record", "verify"} => requests'[Input(p)] \in changes'
  PROVE  Process(p)' /\ run' \in [Procs -> Run]
<1>1. run[p].index \in 1..(Len(extracted[run[p].turn].claims) + 1)
  BY HolderShape
<1>2. Process(p)'
  BY <1>1, HolderKnows DEF AtClaim
<1> QED
  BY <1>2 DEF IInv, TypeOK

(* The holder takes up a claim: what it reads in the journal stays so.     *)
LEMMA TakeClaimInv == ASSUME IInv, NEW p \in Procs, TakeClaim(p) PROVE IInv'
<1> PICK i : i = Input(p)
  OBVIOUS
<1>1. /\ run[p].pc = "claim" /\ run[p].pc \in InJournal
      /\ run[p].index <= Len(extracted[run[p].turn].claims)
      /\ UNCHANGED <<frame, lock, journal, files, backend, policy, budget>>
  BY DEF TakeClaim, InJournal
<1>2. run[p] \in Run /\ i \in Inputs
  <2> PICK d \in Decisions : d = extracted[run[p].turn]
    BY <1>1 DEF IInv, Process, Running, TypeOK
  <2>1. Len(d.claims) \in Nat /\ Len(d.claims) <= MaxClaims /\ MaxClaims \in Nat
    BY DecisionsAssumption, BoundsAssumption
  <2>2. /\ run[p] \in Run /\ run[p].turn \in Turns
        /\ run[p].index \in 1..(Len(d.claims) + 1) /\ run[p].index <= Len(d.claims)
    BY <1>1, HolderShape
  <2>3. run[p].index \in 1..MaxClaims
    BY <2>1, <2>2
  <2> QED
    BY <2>2, <2>3 DEF Input, Inputs
<1>3. CASE outcomes[i] \in {"noop", "terminal"}
  <2>1. /\ NextClaim(p)
        /\ \/ UNCHANGED told
           \/ outcomes[i] = "terminal" /\ told' = [told EXCEPT ![i] = @ \cup {"not_committed"}]
    BY <1>3 DEF TakeClaim, Tell
  <2>2. /\ Process(p)' /\ run' \in [Procs -> Run]
        /\ \E x \in Run : run' = [run EXCEPT ![p] = x]
    BY <1>1, <2>1, NextClaimKnows DEF journal
  <2>3. told' \in [Inputs -> SUBSET Report]
    <3>1. told \in [Inputs -> SUBSET Report]
      BY DEF IInv, TypeOK
    <3>2. told[i] \cup {"not_committed"} \in SUBSET Report
      BY <1>2, <3>1 DEF Report
    <3> QED
      BY ONLY <2>1, <3>1, <3>2
  <2>4. TypeOK'
    BY <1>1, <2>2, <2>3 DEF IInv, TypeOK, journal, files, backend
  <2>5. \A j \in Inputs : told'[j] \cap {"saved", "unverified"} = told[j] \cap {"saved", "unverified"}
    BY <1>2, <2>1 DEF IInv, TypeOK
  <2>6. BodiesKept' /\ OutcomesHold'
    BY <1>1, <2>5 DEF IInv, BodiesKept, OutcomesHold, journal, backend
  <2> QED
    BY <1>1, <2>2, <2>4, <2>6, JournalMoves DEF journal, backend
<1>4. CASE outcomes[i] \notin {"noop", "terminal"}
  <2>1. /\ UNCHANGED told
        /\ \/ /\ requests[i] # None
              /\ run' = [run EXCEPT ![p].pc = "post", ![p].replay = TRUE]
           \/ requests[i] = None /\ run' = [run EXCEPT ![p].pc = "resolve"]
    BY <1>4 DEF TakeClaim, Goto
  <2>2. PICK x \in Run : /\ run' = [run EXCEPT ![p] = x]
                         /\ x.turn = run[p].turn /\ x.who = run[p].who /\ x.seen = run[p].seen
                         /\ x.index = run[p].index
                         /\ \/ x.pc = "post" /\ requests[i] # None
                            \/ x.pc = "resolve" /\ requests[i] = None
    <3>1. CASE requests[i] # None
      <4> PICK x : x = [run[p] EXCEPT !.pc = "post", !.replay = TRUE]
        OBVIOUS
      <4>1. /\ x \in Run /\ x.turn = run[p].turn /\ x.who = run[p].who /\ x.seen = run[p].seen
            /\ x.index = run[p].index /\ x.pc = "post"
        BY <1>2 DEF Run, PCs
      <4>2. run' = [run EXCEPT ![p] = x]
        BY <2>1, <3>1 DEF IInv, TypeOK
      <4> QED
        BY <3>1, <4>1, <4>2
    <3>2. CASE requests[i] = None
      <4> PICK x : x = [run[p] EXCEPT !.pc = "resolve"]
        OBVIOUS
      <4>1. /\ x \in Run /\ x.turn = run[p].turn /\ x.who = run[p].who /\ x.seen = run[p].seen
            /\ x.index = run[p].index /\ x.pc = "resolve"
        BY <1>2 DEF Run, PCs
      <4>2. run' = [run EXCEPT ![p] = x]
        BY <2>1, <3>2 DEF IInv, TypeOK
      <4> QED
        BY <3>2, <4>1, <4>2
    <3> QED
      BY <3>1, <3>2
  <2>3. Process(p)' /\ run' \in [Procs -> Run]
    BY <1>1, <1>4, <2>2, GotoKnows DEF AtClaim, InJournal, journal
  <2>4. TypeOK'
    BY <1>1, <2>1, <2>3 DEF IInv, TypeOK, journal, files, backend
  <2>5. BodiesKept' /\ OutcomesHold'
    BY <1>1, <2>1, ClaimsUndisturbed DEF IInv, journal, backend
  <2> QED
    BY <1>1, <2>2, <2>3, <2>4, <2>5, JournalMoves DEF journal, backend
<1> QED
  BY <1>3, <1>4

(* Before a body is prepared, nothing of the claim is or will be there.    *)
LEMMA UnpreparedClaim ==
  ASSUME IInv, NEW p \in Procs, run[p].pc \in {"resolve", "select"}
  PROVE  /\ requests[Input(p)] = None /\ None \notin changes \cup pending
         /\ run[p].pc \in AtClaim /\ run[p].pc \in InJournal /\ Input(p) \in Inputs
         /\ run[p].index <= Len(extracted[run[p].turn].claims)
         /\ outcomes[Input(p)] \notin {"noop", "terminal"}
<1>1. /\ run[p].pc \in AtClaim /\ run[p].pc \in InJournal /\ run[p].pc # "claim"
  BY DEF AtClaim, InJournal
<1>2. None \notin Body
  BY NoneAssumption
<1> QED
  BY <1>1, <1>2, ClaimInput DEF IInv, TypeOK, Process, Journalled

(* The person is resolved or the claim fails, before any body exists.      *)
LEMMA ResolveInv == ASSUME IInv, NEW p \in Procs, Resolve(p) PROVE IInv'
<1>1. /\ requests[Input(p)] = None /\ None \notin changes \cup pending
      /\ run[p].pc \in AtClaim /\ run[p].pc \in InJournal /\ Input(p) \in Inputs
      /\ run[p].index <= Len(extracted[run[p].turn].claims)
      /\ outcomes[Input(p)] \notin {"noop", "terminal"}
  BY UnpreparedClaim DEF Resolve
<1>2. UNCHANGED <<frame, lock, extracted, requests, files, backend, policy, budget>>
  BY DEF Resolve
<1>3. run[p] \in Run
  BY <1>1, HolderShape
<1>4. ASSUME NEW x \in Run, run' = [run EXCEPT ![p] = x], UNCHANGED <<outcomes, told>>,
             x.turn = run[p].turn, x.who = run[p].who, x.seen = run[p].seen,
             x.index = run[p].index, x.pc = "select", x.resolved # None
      PROVE  IInv'
  <2>1. Process(p)' /\ run' \in [Procs -> Run]
    BY <1>1, <1>2, <1>4, GotoKnows DEF AtClaim, InJournal
  <2>2. TypeOK'
    BY <1>2, <1>4, <2>1 DEF IInv, TypeOK, files, backend
  <2>3. BodiesKept' /\ OutcomesHold'
    BY <1>2, <1>4, ClaimsUndisturbed DEF IInv, backend
  <2> QED
    BY <1>1, <1>2, <1>4, <2>1, <2>2, <2>3, JournalMoves DEF backend
<1>5. CASE run[p].resolved # None
  <2> PICK x : x = [run[p] EXCEPT !.pc = "select"]
    OBVIOUS
  <2>1. /\ x \in Run /\ x.turn = run[p].turn /\ x.who = run[p].who /\ x.seen = run[p].seen
        /\ x.index = run[p].index /\ x.pc = "select" /\ x.resolved = run[p].resolved
    BY <1>3 DEF Run, PCs
  <2>2. run' = [run EXCEPT ![p] = x] /\ UNCHANGED <<outcomes, told>>
    BY <1>5 DEF Resolve, Goto
  <2> QED
    BY <1>4, <1>5, <2>1, <2>2
<1>6. CASE run[p].resolved = None /\ StillShown(p)
  <2> PICK x : x = [run[p] EXCEPT !.pc = "select", !.resolved = run[p].who]
    OBVIOUS
  <2>1. /\ x \in Run /\ x.turn = run[p].turn /\ x.who = run[p].who /\ x.seen = run[p].seen
        /\ x.index = run[p].index /\ x.pc = "select" /\ x.resolved = run[p].who
    BY <1>3 DEF Run, PCs
  <2>2. /\ run' = [run EXCEPT ![p].pc = "select", ![p].resolved = run[p].who]
        /\ UNCHANGED <<outcomes, told>> /\ run[p].who # None
    BY <1>6 DEF Resolve, StillShown
  <2>3. run' = [run EXCEPT ![p] = x]
    BY <2>2 DEF IInv, TypeOK
  <2> QED
    BY <1>4, <2>1, <2>2, <2>3
<1>7. CASE run[p].resolved = None /\ ~StillShown(p)
  <2>1. Failed(p, FALSE, FALSE)
    BY <1>7 DEF Resolve
  <2> QED
    BY <1>1, <1>2, <2>1, FailedInv DEF backend
<1> QED
  BY <1>5, <1>6, <1>7

(* A read fails before any body exists.                                    *)
LEMMA PrepareFailsInv == ASSUME IInv, NEW p \in Procs, PrepareFails(p) PROVE IInv'
<1>1. /\ run[p].pc \in AtClaim /\ Failed(p, TRUE, FALSE)
      /\ UNCHANGED <<frame, lock, extracted, requests, files, backend, policy, budget>>
  BY UnpreparedClaim DEF PrepareFails
<1> QED
  BY <1>1, FailedInv DEF backend

(* The first and only body of a claim is prepared.                         *)
LEMMA PrepareInv == ASSUME IInv, NEW p \in Procs, Prepare(p) PROVE IInv'
<1> PICK i : i = Input(p)
  OBVIOUS
<1> PICK body : body = NewBody(p, Target(p))
  OBVIOUS
<1>1. /\ requests[i] = None /\ None \notin changes \cup pending
      /\ run[p].pc \in AtClaim /\ run[p].pc \in InJournal /\ i \in Inputs
      /\ run[p].index <= Len(extracted[run[p].turn].claims)
      /\ outcomes[i] \notin {"noop", "terminal"}
      /\ run[p].pc = "select"
  BY UnpreparedClaim DEF Prepare
<1>2. UNCHANGED <<frame, lock, extracted, files, backend, policy, budget>>
  BY DEF Prepare
<1>3. run[p] \in Run /\ run[p].resolved \in People
  <2>1. run[p] \in Run /\ run[p].resolved # None
    BY <1>1, HolderShape DEF IInv, Process, Journalled
  <2> QED
    BY <2>1 DEF Run
<1>4. body # None => body \in Body /\ body.input = i
  <2> PICK current \in Nat : current = Target(p)
    BY <1>3 DEF Target, IInv, TypeOK
  <2> PICK claim : claim = Claim(p)
    OBVIOUS
  <2>1. claim \in {"note", "set", "correct", "retract"}
    <3>1. extracted[run[p].turn].claims \in Seq({"note", "set", "correct", "retract"})
      BY <1>1, ClaimInput, DecisionsAssumption DEF IInv
    <3>2. run[p].index \in 1..Len(extracted[run[p].turn].claims)
      BY <1>1, HolderShape
    <3> QED
      BY <3>1, <3>2 DEF Claim
  <2>2. \A kind \in {"note", "create", "correct", "retract"}, old \in Nat :
          BodyFor(p, kind, old) \in Body /\ BodyFor(p, kind, old).input = i
    BY <1>1, <1>3 DEF BodyFor, Body
  <2>3. body = CASE claim = "note" -> BodyFor(p, "note", 0)
                 [] claim = "set" ->
                      BodyFor(p, IF current = 0 THEN "create" ELSE "correct", current)
                 [] OTHER -> IF current = 0 THEN None ELSE BodyFor(p, claim, current)
    BY DEF NewBody
  <2> QED
    BY <2>1, <2>2, <2>3
<1>5. CASE body # None
  <2>1. /\ requests' = [requests EXCEPT ![i] = body] /\ UNCHANGED <<outcomes, told>>
        /\ run' = [run EXCEPT ![p].pc = "post"]
    BY <1>5 DEF Prepare
  <2> PICK x : x = [run[p] EXCEPT !.pc = "post"]
    OBVIOUS
  <2>2. /\ x \in Run /\ x.turn = run[p].turn /\ x.who = run[p].who /\ x.seen = run[p].seen
        /\ x.index = run[p].index /\ x.pc = "post" /\ run' = [run EXCEPT ![p] = x]
    BY <1>3, <2>1 DEF Run, PCs
  <2>3. /\ requests'[i] = body /\ \A j \in Inputs : j # i => requests'[j] = requests[j]
    BY <1>1, <2>1 DEF IInv, TypeOK
  <2>4. Process(p)' /\ run' \in [Procs -> Run]
    <3>1. outcomes'[i] \notin {"noop", "terminal"} /\ requests'[i] # None /\ x.pc \in AtClaim
      BY <1>1, <1>5, <2>1, <2>2, <2>3 DEF AtClaim, InJournal
    <3> QED
      BY <1>1, <1>2, <2>2, <3>1, GotoKnows
  <2>5. TypeOK'
    <3>1. requests' \in [Inputs -> Body \cup {None}]
      BY <1>4, <1>5, <2>1 DEF IInv, TypeOK
    <3> QED
      BY <1>2, <2>1, <2>4, <3>1 DEF IInv, TypeOK, files, backend
  <2>6. \A c \in changes \cup pending : c.input # i /\ c.input \in Inputs
    <3> TAKE c \in changes \cup pending
    <3>1. c \in Body /\ c = requests[c.input]
      BY DEF IInv, TypeOK, BodiesKept
    <3> QED
      BY <1>1, <3>1 DEF Body
  <2>7. BodiesKept'
    BY <1>2, <1>4, <1>5, <2>3, <2>6 DEF IInv, BodiesKept, backend
  <2>8. OutcomesHold'
    <3>1. \A j \in Inputs : requests[j] \in changes => j # i
      BY <1>1
    <3>2. outcomes'[i] \notin {"noop", "terminal"}
      BY <1>1, <2>1
    <3> QED
      BY <1>2, <2>1, <2>3, <3>1, <3>2 DEF IInv, OutcomesHold, backend
  <2> QED
    BY <1>1, <1>2, <2>2, <2>4, <2>5, <2>7, <2>8, JournalMoves DEF backend
<1>6. CASE body = None /\ Claim(p) = "retract"
  <2>1. /\ outcomes' = [outcomes EXCEPT ![i] = "noop"] /\ NextClaim(p)
        /\ UNCHANGED <<requests, told>>
    BY <1>6 DEF Prepare
  <2>2. /\ Process(p)' /\ run' \in [Procs -> Run]
        /\ \E x \in Run : run' = [run EXCEPT ![p] = x]
    BY <1>1, <1>2, <2>1, NextClaimKnows
  <2>3. TypeOK'
    <3>1. outcomes' \in [Inputs -> OutcomeState]
      BY <1>1, <2>1 DEF IInv, TypeOK, OutcomeState
    <3> QED
      BY <1>2, <2>1, <2>2, <3>1 DEF IInv, TypeOK, files, backend
  <2>4. BodiesKept'
    BY <1>2, <2>1 DEF IInv, BodiesKept, backend
  <2>5. OutcomesHold'
    <3>1. outcomes'[i] = "noop" /\ \A j \in Inputs : j # i => outcomes'[j] = outcomes[j]
      BY <1>1, <2>1 DEF IInv, TypeOK
    <3> QED
      BY <1>1, <1>2, <2>1, <3>1 DEF IInv, OutcomesHold, backend
  <2> QED
    BY <1>1, <1>2, <2>2, <2>3, <2>4, <2>5, JournalMoves DEF backend
<1>7. CASE body = None /\ Claim(p) # "retract"
  <2>1. Failed(p, FALSE, FALSE) /\ UNCHANGED requests
    BY <1>7 DEF Prepare
  <2> QED
    BY <1>1, <1>2, <2>1, FailedInv DEF backend
<1> QED
  BY <1>5, <1>6, <1>7

(* The claim of a holder whose body is prepared. *)
LEMMA PreparedClaim ==
  ASSUME IInv, NEW p \in Procs, run[p].pc \in {"post", "record", "verify"}
  PROVE  /\ run[p] \in Run /\ run[p].pc \in AtClaim /\ run[p].pc \in InJournal
         /\ Input(p) \in Inputs /\ run[p].index <= Len(extracted[run[p].turn].claims)
         /\ outcomes[Input(p)] \notin {"noop", "terminal"}
         /\ requests[Input(p)] \in Body /\ requests[Input(p)] # None
         /\ requests[Input(p)].input = Input(p)
         /\ run[p].pc \in {"record", "verify"} => requests[Input(p)] \in changes
<1>1. /\ run[p].pc \in AtClaim /\ run[p].pc \in InJournal /\ run[p].pc # "claim"
  BY DEF AtClaim, InJournal
<1>2. Input(p) \in Inputs /\ run[p] \in Run
  BY <1>1, ClaimInput DEF IInv, TypeOK
<1>3. /\ run[p].index <= Len(extracted[run[p].turn].claims)
      /\ outcomes[Input(p)] \notin {"noop", "terminal"}
      /\ requests[Input(p)] # None
      /\ run[p].pc \in {"record", "verify"} => requests[Input(p)] \in changes
  BY <1>1 DEF IInv, Process, Journalled
<1>4. requests[Input(p)] \in Body /\ requests[Input(p)].input = Input(p)
  BY <1>2, <1>3 DEF IInv, TypeOK, BodiesKept
<1> QED
  BY <1>1, <1>2, <1>3, <1>4

(* A request is answered; a refusal is final only because no attempt of it *)
(* is pending.                                                             *)
LEMMA PostAnsweredInv == ASSUME IInv, NEW p \in Procs, PostAnswered(p) PROVE IInv'
<1> PICK i : i = Input(p)
  OBVIOUS
<1> PICK body : body = requests[i]
  OBVIOUS
<1>1. /\ run[p] \in Run /\ run[p].pc \in AtClaim /\ run[p].pc \in InJournal
      /\ i \in Inputs /\ run[p].index <= Len(extracted[run[p].turn].claims)
      /\ outcomes[i] \notin {"noop", "terminal"}
      /\ body \in Body /\ body # None /\ body.input = i
  BY PreparedClaim DEF PostAnswered
<1>2. /\ body \notin pending /\ Processed(body)
      /\ UNCHANGED <<frame, lock, extracted, requests, files, active, pending, policy, budget>>
  BY DEF PostAnswered
<1>3. /\ slot' \in [People -> Nat] /\ card' \in [People -> Nat]
      /\ changes' \subseteq Body /\ IsFiniteSet(changes')
      /\ \/ UNCHANGED <<slot, card, changes>>
         \/ changes' = changes \cup {body} /\ body \notin changes
  BY <1>1, <1>2, ProcessedShape DEF IInv
<1>4. CASE body \in changes'
  <2>1. run' = [run EXCEPT ![p].pc = "record"] /\ UNCHANGED <<outcomes, told>>
    BY <1>4 DEF PostAnswered, Goto
  <2> PICK x : x = [run[p] EXCEPT !.pc = "record"]
    OBVIOUS
  <2>2. /\ x \in Run /\ x.turn = run[p].turn /\ x.who = run[p].who /\ x.seen = run[p].seen
        /\ x.index = run[p].index /\ x.pc = "record" /\ run' = [run EXCEPT ![p] = x]
    BY <1>1, <2>1 DEF Run, PCs
  <2>3. Process(p)' /\ run' \in [Procs -> Run]
    BY <1>1, <1>2, <1>4, <2>1, <2>2, GotoKnows DEF AtClaim, InJournal
  <2>4. TypeOK'
    BY <1>2, <1>3, <2>1, <2>3 DEF IInv, TypeOK, files
  <2>5. BodiesKept' /\ OutcomesHold' /\ changes \subseteq changes'
    BY <1>1, <1>2, <1>3, <2>1, EffectKeepsClaims
  <2> QED
    BY <1>1, <1>2, <2>2, <2>3, <2>4, <2>5, JournalMoves
<1>5. CASE body \notin changes'
  <2>1. Failed(p, FALSE, TRUE)
    BY <1>5 DEF PostAnswered
  <2>2. UNCHANGED <<slot, card, changes>>
    BY <1>3, <1>5
  <2> QED
    BY <1>1, <1>2, <1>5, <2>1, <2>2, FailedInv
<1> QED
  BY <1>4, <1>5

(* An attempt times out and may be pending; the claim is not given up.     *)
LEMMA PostTimesOutInv == ASSUME IInv, NEW p \in Procs, PostTimesOut(p) PROVE IInv'
<1> PICK i : i = Input(p)
  OBVIOUS
<1>1. /\ run[p] \in Run /\ run[p].pc \in AtClaim /\ run[p].pc \in InJournal
      /\ i \in Inputs /\ run[p].index <= Len(extracted[run[p].turn].claims)
      /\ outcomes[i] \notin {"noop", "terminal"}
      /\ requests[i] \in Body /\ requests[i] # None /\ requests[i].input = i
      /\ run[p].pc = "post"
  BY PreparedClaim DEF PostTimesOut
<1>2. /\ pending' = pending \/ pending' = pending \cup {requests[i]}
      /\ UNCHANGED <<frame, lock, extracted, requests, files, slot, card, active, changes,
                     policy, budget>>
  BY DEF PostTimesOut
<1>3. CASE run[p].tries + 1 < Attempts
  <2>1. run' = [run EXCEPT ![p].tries = @ + 1] /\ UNCHANGED <<outcomes, told>>
    BY <1>3 DEF PostTimesOut
  <2> PICK n \in Nat : n = run[p].tries + 1
    BY <1>1 DEF Run
  <2> PICK x : x = [run[p] EXCEPT !.tries = n]
    OBVIOUS
  <2>2. /\ x \in Run /\ x.turn = run[p].turn /\ x.who = run[p].who /\ x.seen = run[p].seen
        /\ x.index = run[p].index /\ x.pc = "post"
    BY <1>1 DEF Run
  <2>3. run' = [run EXCEPT ![p] = x]
    BY <2>1
  <2>4. Process(p)' /\ run' \in [Procs -> Run]
    BY <1>1, <1>2, <2>1, <2>2, <2>3, GotoKnows DEF AtClaim, InJournal
  <2>5. TypeOK'
    BY <1>1, <1>2, <2>1, <2>4 DEF IInv, TypeOK, files
  <2>6. BodiesKept'
    BY <1>1, <1>2 DEF IInv, BodiesKept
  <2>7. OutcomesHold'
    <3>1. ASSUME NEW j \in Inputs, outcomes[j] \in {"noop", "terminal"}
          PROVE  requests[j] # requests[i]
      BY <1>1, <3>1 DEF IInv, BodiesKept
    <3> QED
      BY <1>2, <2>1, <3>1 DEF IInv, OutcomesHold
  <2> QED
    BY <1>1, <1>2, <2>3, <2>4, <2>5, <2>6, <2>7, JournalMoves
<1>4. CASE ~(run[p].tries + 1 < Attempts)
  <2>1. Failed(p, TRUE, TRUE)
    BY <1>4 DEF PostTimesOut
  <2> QED
    BY <1>1, <1>2, <2>1, FailedInv
<1> QED
  BY <1>3, <1>4

(* A receipt is recorded for a change that took place.                     *)
LEMMA RecordInv == ASSUME IInv, NEW p \in Procs, Record(p) PROVE IInv'
<1> PICK i : i = Input(p)
  OBVIOUS
<1> PICK x : x = [run[p] EXCEPT !.pc = "verify"]
  OBVIOUS
<1>1. /\ run[p] \in Run /\ run[p].pc \in AtClaim /\ run[p].pc \in InJournal
      /\ i \in Inputs /\ run[p].index <= Len(extracted[run[p].turn].claims)
      /\ requests[i] # None /\ requests[i] \in changes
  BY PreparedClaim DEF Record
<1>2. /\ outcomes' = [outcomes EXCEPT ![i] = "receipt"] /\ run' = [run EXCEPT ![p] = x]
      /\ UNCHANGED <<frame, lock, extracted, requests, files, backend, told, policy, budget>>
  BY DEF Record, Goto
<1>3. /\ x \in Run /\ x.turn = run[p].turn /\ x.who = run[p].who /\ x.seen = run[p].seen
      /\ x.index = run[p].index /\ x.pc = "verify"
  BY <1>1 DEF Run, PCs
<1>4. outcomes'[i] = "receipt" /\ \A j \in Inputs : j # i => outcomes'[j] = outcomes[j]
  BY <1>1, <1>2 DEF IInv, TypeOK
<1>5. Process(p)' /\ run' \in [Procs -> Run]
  BY <1>1, <1>2, <1>3, <1>4, GotoKnows DEF AtClaim, InJournal, backend
<1>6. TypeOK'
  <2>1. outcomes' \in [Inputs -> OutcomeState]
    BY <1>1, <1>2 DEF IInv, TypeOK, OutcomeState
  <2> QED
    BY <1>2, <1>5, <2>1 DEF IInv, TypeOK, files, backend
<1>7. BodiesKept' /\ OutcomesHold'
  BY <1>1, <1>2, <1>4 DEF IInv, BodiesKept, OutcomesHold, backend
<1> QED
  BY <1>1, <1>2, <1>5, <1>6, <1>7, JournalMoves DEF backend

(* The change is read back.                                                *)
LEMMA VerifyInv == ASSUME IInv, NEW p \in Procs, Verify(p) PROVE IInv'
<1> PICK i : i = Input(p)
  OBVIOUS
<1>1. /\ run[p] \in Run /\ run[p].pc \in AtClaim /\ run[p].pc \in InJournal
      /\ i \in Inputs /\ run[p].index <= Len(extracted[run[p].turn].claims)
      /\ requests[i] \in changes
  BY PreparedClaim DEF Verify
<1>2. UNCHANGED <<frame, lock, extracted, requests, files, backend, policy, budget>>
  BY DEF Verify
<1>3. CASE Tell(p, "saved") /\ NextClaim(p) /\ UNCHANGED outcomes
  <2>1. told' = [told EXCEPT ![i] = @ \cup {"saved"}]
    BY <1>3 DEF Tell
  <2>2. /\ Process(p)' /\ run' \in [Procs -> Run]
        /\ \E x \in Run : run' = [run EXCEPT ![p] = x]
    BY <1>1, <1>2, <1>3, NextClaimKnows
  <2>3. TypeOK'
    <3>1. told' \in [Inputs -> SUBSET Report]
      BY <1>1, <2>1 DEF IInv, TypeOK, Report
    <3> QED
      BY <1>2, <1>3, <2>2, <3>1 DEF IInv, TypeOK, files, backend
  <2>4. \A j \in Inputs : j # i => told'[j] = told[j]
    BY <2>1 DEF IInv, TypeOK
  <2>5. BodiesKept' /\ OutcomesHold'
    BY <1>1, <1>2, <1>3, <2>4 DEF IInv, BodiesKept, OutcomesHold, backend
  <2> QED
    BY <1>1, <1>2, <2>2, <2>3, <2>5, JournalMoves DEF backend
<1>4. CASE Failed(p, TRUE, TRUE)
  BY <1>1, <1>2, <1>4, FailedInv DEF backend
<1> QED
  BY <1>3, <1>4 DEF Verify

-----------------------------------------------------------------------------
(* Every step preserves the invariant.                                     *)
LEMMA StepInv == IInv /\ [Next]_vars => IInv'
<1> SUFFICES ASSUME IInv, [Next]_vars PROVE IInv'
  OBVIOUS
<1>1. ASSUME NEW p \in Procs, Step(p) PROVE IInv'
  <2>1. ASSUME ExtractFails(p) PROVE IInv'
    BY <2>1, RunEnds DEF ExtractFails, journal, files, IInv, TypeOK
  <2> QED
    BY <1>1, <2>1, ExtractInv, LogCandidateInv, LockJournalInv, LeaveJournalInv, TakeClaimInv,
       ResolveInv, PrepareFailsInv, PrepareInv, PostAnsweredInv, PostTimesOutInv, RecordInv,
       VerifyInv, AppendEvidenceInv, ReadPageInv, ReplacePageInv DEF Step
<1>2. ASSUME NEW t \in Turns,
             \/ Lookup(t) \/ Unresolve(t)
             \/ frame[t] # None /\ \E s \in frame[t].lookups, x \in People : Decide(t, s, x)
      PROVE  IInv'
  BY <1>2, LookupInv, UnresolveInv, DecideInv
<1>3. CASE UNCHANGED vars
  <2>1. TypeOK'
    BY <1>3 DEF IInv, TypeOK, vars, journal, files, backend
  <2>2. BodiesKept' /\ OutcomesHold'
    BY <1>3, ClaimsUndisturbed DEF IInv, vars, journal, backend
  <2> QED
    BY <1>3, <2>1, <2>2, BackendMoves DEF vars, backend
<1> QED
  BY <1>1, <1>2, <1>3, CrashInv, PreInv, DeliverInv, ProcessPendingInv, OtherWriterInv DEF Next

(* However many processes submit turns, crash and time out, the journal, the *)
(* backend and the runs stay in the relation that IInv states.             *)
THEOREM SubmissionInvariant == Spec => []IInv
BY InitInv, StepInv, PTL DEF Spec

(* Every variable has its type.                                            *)
THEOREM SubmissionTypeCorrect == Spec => []TypeOK
BY SubmissionInvariant, PTL DEF IInv

(* "saved" and a receipt mean that the change took place, a claim that failed *)
(* for good was never reported as committed, and a change has the very body *)
(* the journal holds (_submit_kinlayer_memories and its journal).          *)
THEOREM ReportsAreTruthful == Spec => []ReportsTruthful
<1>1. IInv => ReportsTruthful
  <2> SUFFICES ASSUME IInv, NEW i \in Inputs
               PROVE  /\ "saved" \in told[i] \/ outcomes[i] = "receipt" => requests[i] \in changes
                      /\ outcomes[i] = "terminal" => told[i] \cap {"saved", "unverified"} = {}
                      /\ \A c \in changes : c.input = i => c = requests[i]
    BY DEF ReportsTruthful
  <2> QED
    BY DEF IInv, OutcomesHold, BodiesKept
<1> QED
  BY <1>1, SubmissionInvariant, PTL

(* Pages never lose the line the user wrote, and have no other line that the *)
(* evidence ledger lacks (_append_evidence_ledger, _prune_context_update_lines *)
(* and the replacement of a page, also by two processes at once).          *)
THEOREM KnowledgeIsKept == Spec => []KnowledgeKept
BY SubmissionInvariant, PTL DEF IInv

-----------------------------------------------------------------------------
(* Only Resolve gives a process a person. *)
LEMMA OnlyResolveResolves ==
  ASSUME IInv, [Next]_vars, NEW p \in Procs, run'[p].resolved \notin {None, run[p].resolved}
  PROVE  Resolve(p)
<1>1. run \in [Procs -> Run]
  BY DEF IInv, TypeOK
<1>2. ASSUME NEW q \in Procs, Step(q), ~Resolve(p) PROVE FALSE
  <2>1. p = q \/ run'[p] = run[p]
    BY <1>1, <1>2
       DEF Step, Extract, ExtractFails, LogCandidate, LockJournal, LeaveJournal, TakeClaim,
           Resolve, PrepareFails, Prepare, PostAnswered, PostTimesOut, Record, Verify,
           AppendEvidence, ReadPage, ReplacePage, Failed, NextClaim, Goto
  <2>2. p = q
    BY <2>1
  <2>3. run[p] \in Run
    BY <1>1
  <2>4. NextClaim(p) => run'[p].resolved = run[p].resolved
    BY <1>1, <2>3 DEF NextClaim, Run
  <2>5. \A pc : Goto(p, pc) => run'[p].resolved = run[p].resolved
    BY <1>1, <2>3 DEF Goto, Run
  <2>6. run' = [run EXCEPT ![p] = Idle] => run'[p].resolved = None
    BY <1>1, IdleShape
  <2>7. \A t, a : Failed(p, t, a) => NextClaim(p)
    BY DEF Failed
  <2>8. CASE Extract(p) \/ ExtractFails(p) \/ LeaveJournal(p) \/ Record(p) \/ ReplacePage(p)
    BY <2>5, <2>6, <2>8 DEF Extract, ExtractFails, LeaveJournal, Record, ReplacePage
  <2>9. CASE LogCandidate(p)
    BY <1>1, <2>3, <2>6, <2>9 DEF LogCandidate, Run
  <2>10. CASE LockJournal(p) \/ TakeClaim(p)
    BY <1>1, <2>3, <2>4, <2>5, <2>10 DEF LockJournal, TakeClaim, Run
  <2>11. CASE PrepareFails(p) \/ Verify(p)
    BY <2>4, <2>7, <2>11 DEF PrepareFails, Verify
  <2>12. CASE Prepare(p)
    BY <1>1, <2>3, <2>4, <2>7, <2>12 DEF Prepare, Run
  <2>13. CASE PostAnswered(p)
    BY <2>4, <2>5, <2>7, <2>13 DEF PostAnswered
  <2>14. CASE PostTimesOut(p)
    BY <1>1, <2>3, <2>4, <2>7, <2>14 DEF PostTimesOut, Run
  <2>15. CASE AppendEvidence(p)
    BY <1>1, <2>3, <2>6, <2>15 DEF AppendEvidence, Run
  <2>16. CASE ReadPage(p)
    BY <1>1, <2>3, <2>6, <2>16 DEF ReadPage, Run
  <2> QED
    BY <1>2, <2>2, <2>8, <2>9, <2>10, <2>11, <2>12, <2>13, <2>14, <2>15, <2>16 DEF Step
<1>3. ASSUME NEW q \in Procs, Crash(q) PROVE FALSE
  BY <1>1, <1>3, IdleShape DEF Crash
<1>4. ASSUME NEW q \in Procs, NEW t \in Turns, Deliver(q, t) PROVE FALSE
  <2>1. PICK x : run' = [run EXCEPT ![q] = x] /\ x.resolved = None
    BY <1>4 DEF Deliver, Idle
  <2> QED
    BY <1>1, <2>1
<1>5. ASSUME run' = run PROVE FALSE
  BY <1>5
<1>6. CASE \/ \E q \in Procs, t \in Turns : Pre(q, t)
           \/ \E t \in Turns :
                \/ Lookup(t) \/ Unresolve(t)
                \/ frame[t] # None /\ \E s \in frame[t].lookups, x \in People : Decide(t, s, x)
           \/ ProcessPending
           \/ \E x \in People : OtherWriter(x)
           \/ UNCHANGED vars
  BY <1>5, <1>6 DEF Pre, Lookup, Unresolve, Decide, ProcessPending, OtherWriter, vars
<1> QED
  BY <1>2, <1>3, <1>4, <1>6 DEF Next

(* The person of a claim is the one the agent decided in this turn.        *)
THEOREM PersonIsAsDecided == Spec => PersonAsDecided
<1>1. ASSUME IInv, [Next]_vars, NEW p \in Procs, run'[p].resolved \notin {None, run[p].resolved}
      PROVE  LET f == frame[run[p].turn] x == run'[p].resolved
             IN /\ f # None /\ f.proc = p /\ f.closed /\ ~f.conflict
                /\ active[x] /\ \E snapshot \in f.lookups : snapshot[x] = card[x]
  <2>1. Resolve(p)
    BY <1>1, OnlyResolveResolves
  <2>2. run \in [Procs -> Run] /\ run[p] \in Run /\ run[p].turn \in Turns
    BY <1>1, <2>1 DEF IInv, TypeOK, Process, Running, Resolve
  <2>3. CASE run[p].resolved # None \/ ~StillShown(p)
    <3>1. run'[p].resolved = run[p].resolved
      BY <2>1, <2>2, <2>3 DEF Resolve, Failed, NextClaim, Goto, Run
    <3> QED
      BY <1>1, <3>1
  <2>4. CASE run[p].resolved = None /\ StillShown(p)
    <3>1. run'[p].resolved = run[p].who
      BY <2>1, <2>2, <2>4 DEF Resolve, Run
    <3>2. /\ run[p].who # None /\ active[run[p].who] /\ card[run[p].who] = run[p].seen
      BY <2>4 DEF StillShown
    <3>3. LET f == frame[run[p].turn]
          IN f # None /\ f.proc = p /\ f.closed /\ f.who = run[p].who /\ f.seen = run[p].seen
      BY <1>1, <3>2 DEF IInv, Process, Attached
    <3>4. LET f == frame[run[p].turn]
          IN ~f.conflict /\ \E snapshot \in f.lookups : snapshot[f.who] = f.seen
      BY <1>1, <2>2, <3>2, <3>3 DEF IInv, FramesHold
    <3> QED
      BY <3>1, <3>2, <3>3, <3>4
  <2> QED
    BY <2>3, <2>4
<1>2. IInv /\ [Next]_vars =>
        [\A p \in Procs :
           run'[p].resolved \notin {None, run[p].resolved} =>
             LET f == frame[run[p].turn] x == run'[p].resolved
             IN /\ f # None /\ f.proc = p /\ f.closed /\ ~f.conflict
                /\ active[x] /\ \E snapshot \in f.lookups : snapshot[x] = card[x]]_vars
  BY <1>1
<1> QED
  BY <1>2, SubmissionInvariant, PTL DEF Spec, PersonAsDecided

-----------------------------------------------------------------------------
(* What the outcomes give up, and the changes made for one input.          *)
GivenUp == {i \in Inputs : outcomes[i] \in {"noop", "terminal"}}
ChangesFor(i) == {c \in changes : c.input = i}

(* The three things a step may do to the effects of the claims: nothing, a  *)
(* change of the outcome of a claim that is not given up, or the effect of  *)
(* the body the journal holds for such a claim.                             *)
NothingHappens == changes' = changes /\ outcomes' = outcomes

OutcomeChanges ==
  /\ changes' = changes
  /\ \E i \in Inputs \ GivenUp, o \in OutcomeState : outcomes' = [outcomes EXCEPT ![i] = o]

EffectHappens ==
  /\ outcomes' = outcomes
  /\ \E body \in Body :
       /\ body = requests[body.input] /\ body.input \in Inputs \ GivenUp
       /\ body \notin changes /\ changes' = changes \cup {body}

(* Instances, for the steps of one process.                                *)
LEMMA OutcomeOfStep ==
  ASSUME NEW p \in Procs, Input(p) \in Inputs \ GivenUp, changes' = changes,
         \/ outcomes' = outcomes
         \/ \E o \in OutcomeState : outcomes' = [outcomes EXCEPT ![Input(p)] = o]
         \/ \E t, a \in BOOLEAN : Failed(p, t, a)
  PROVE  OutcomeChanges \/ NothingHappens
<1> PICK i \in Inputs \ GivenUp : i = Input(p)
  OBVIOUS
<1>1. CASE outcomes' = outcomes
  BY <1>1 DEF NothingHappens
<1>2. CASE \E o \in OutcomeState : outcomes' = [outcomes EXCEPT ![Input(p)] = o]
  <2>1. PICK o \in OutcomeState : outcomes' = [outcomes EXCEPT ![i] = o]
    BY <1>2
  <2> QED
    BY <2>1 DEF OutcomeChanges
<1>3. CASE \E t, a \in BOOLEAN : Failed(p, t, a)
  <2>1. PICK t \in BOOLEAN, a \in BOOLEAN : Failed(p, t, a)
    BY <1>3
  <2>2. PICK o \in OutcomeState :
          o = IF outcomes[i] = "receipt" THEN "receipt" ELSE IF t THEN "retryable" ELSE "terminal"
    BY DEF OutcomeState
  <2>3. outcomes' = [outcomes EXCEPT ![i] = o]
    <3>1. outcomes' = [outcomes EXCEPT ![Input(p)] =
            IF outcomes[Input(p)] = "receipt" THEN "receipt"
            ELSE IF t THEN "retryable" ELSE "terminal"]
      BY <2>1 DEF Failed
    <3> QED
      BY ONLY <2>2, <3>1, i = Input(p)
  <2> QED
    BY <2>3 DEF OutcomeChanges
<1> QED
  BY <1>1, <1>2, <1>3

(* A request that is processed changes nothing, or has the effect of its body. *)
LEMMA EffectOfBody ==
  ASSUME TypeOK, outcomes' = outcomes, NEW body \in Body, Processed(body),
         body = requests[body.input], body.input \in Inputs \ GivenUp
  PROVE  EffectHappens \/ NothingHappens
<1>1. \/ changes' = changes
      \/ changes' = changes \cup {body} /\ body \notin changes
  BY ProcessedShape
<1>2. CASE changes' = changes
  BY <1>2 DEF NothingHappens
<1>3. CASE changes' = changes \cup {body} /\ body \notin changes
  BY <1>3 DEF EffectHappens
<1> QED
  BY <1>1, <1>2, <1>3

(* Every step does one of the three.                                       *)
LEMMA EffectOrOutcome ==
  ASSUME IInv, [Next]_vars
  PROVE  NothingHappens \/ OutcomeChanges \/ EffectHappens
<1>1. ASSUME NEW p \in Procs, Resolve(p) \/ PrepareFails(p) \/ Prepare(p)
      PROVE  OutcomeChanges \/ NothingHappens
  <2>1. run[p].pc \in {"resolve", "select"} /\ changes' = changes
    BY <1>1 DEF Resolve, PrepareFails, Prepare, backend
  <2>2. Input(p) \in Inputs \ GivenUp
    BY <2>1, UnpreparedClaim DEF GivenUp
  <2>3. \/ outcomes' = outcomes
        \/ outcomes' = [outcomes EXCEPT ![Input(p)] = "noop"]
        \/ Failed(p, FALSE, FALSE) \/ Failed(p, TRUE, FALSE)
    BY <1>1 DEF Resolve, PrepareFails, Prepare
  <2>4. CASE Failed(p, FALSE, FALSE) \/ Failed(p, TRUE, FALSE)
    <3>1. \E t, a \in BOOLEAN : Failed(p, t, a)
      BY <2>4
    <3> QED
      BY <2>1, <2>2, <3>1, OutcomeOfStep
  <2>5. CASE outcomes' = [outcomes EXCEPT ![Input(p)] = "noop"]
    <3>1. "noop" \in OutcomeState
      BY DEF OutcomeState
    <3> QED
      BY <2>1, <2>2, <2>5, <3>1, OutcomeOfStep
  <2>6. CASE outcomes' = outcomes
    BY <2>1, <2>6 DEF NothingHappens
  <2> QED
    BY <2>3, <2>4, <2>5, <2>6
<1>2. ASSUME NEW p \in Procs, PostAnswered(p)
      PROVE  OutcomeChanges \/ EffectHappens \/ NothingHappens
  <2>0. run[p].pc \in {"post", "record", "verify"}
    BY <1>2 DEF PostAnswered
  <2>1. Input(p) \in Inputs \ GivenUp
    BY <2>0, PreparedClaim DEF GivenUp
  <2> PICK body : body = requests[Input(p)]
    OBVIOUS
  <2>2. body \in Body /\ body.input = Input(p) /\ Processed(body)
    BY <1>2, <2>0, PreparedClaim DEF PostAnswered
  <2>3. body = requests[body.input] /\ body.input \in Inputs \ GivenUp
    BY <2>1, <2>2
  <2>4. CASE body \in changes'
    <3>1. outcomes' = outcomes
      BY <1>2, <2>4 DEF PostAnswered
    <3>2. TypeOK
      BY DEF IInv
    <3> QED
      BY <2>2, <2>3, <3>1, <3>2, EffectOfBody
  <2>5. CASE body \notin changes'
    <3>1. changes' = changes
      BY <2>2, <2>5, ProcessedShape DEF IInv
    <3>2. Failed(p, FALSE, TRUE)
      BY <1>2, <2>5 DEF PostAnswered
    <3>3. \E t, a \in BOOLEAN : Failed(p, t, a)
      BY <3>2
    <3> QED
      BY <2>1, <3>1, <3>3, OutcomeOfStep
  <2> QED
    BY <2>4, <2>5
<1>3. ASSUME NEW p \in Procs, PostTimesOut(p) \/ Record(p) \/ Verify(p)
      PROVE  OutcomeChanges \/ NothingHappens
  <2>1. run[p].pc \in {"post", "record", "verify"} /\ changes' = changes
    BY <1>3 DEF PostTimesOut, Record, Verify, backend
  <2>2. Input(p) \in Inputs \ GivenUp
    BY <2>1, PreparedClaim DEF GivenUp
  <2>3. \/ outcomes' = outcomes
        \/ outcomes' = [outcomes EXCEPT ![Input(p)] = "receipt"]
        \/ Failed(p, TRUE, TRUE)
    BY <1>3 DEF PostTimesOut, Record, Verify
  <2>4. CASE Failed(p, TRUE, TRUE)
    <3>1. \E t, a \in BOOLEAN : Failed(p, t, a)
      BY <2>4
    <3> QED
      BY <2>1, <2>2, <3>1, OutcomeOfStep
  <2>5. CASE outcomes' = [outcomes EXCEPT ![Input(p)] = "receipt"]
    <3>1. "receipt" \in OutcomeState
      BY DEF OutcomeState
    <3> QED
      BY <2>1, <2>2, <2>5, <3>1, OutcomeOfStep
  <2>6. CASE outcomes' = outcomes
    BY <2>1, <2>6 DEF NothingHappens
  <2> QED
    BY <2>3, <2>4, <2>5, <2>6
<1>4. ASSUME ProcessPending
      PROVE  EffectHappens \/ NothingHappens
  <2>1. PICK body \in pending : Processed(body)
    BY <1>4 DEF ProcessPending
  <2>2. body \in Body /\ body.input \in Inputs
    BY <2>1 DEF IInv, TypeOK, Body
  <2>3. body = requests[body.input]
    BY <2>1 DEF IInv, BodiesKept
  <2>4. body.input \notin GivenUp
    BY <2>1, <2>2, <2>3 DEF IInv, OutcomesHold, GivenUp
  <2>5. outcomes' = outcomes /\ TypeOK
    BY <1>4 DEF ProcessPending, journal, IInv
  <2> QED
    BY <2>1, <2>2, <2>3, <2>4, <2>5, EffectOfBody
<1>5. ASSUME NEW p \in Procs,
             \/ Extract(p) \/ ExtractFails(p) \/ LogCandidate(p) \/ LockJournal(p)
             \/ LeaveJournal(p) \/ TakeClaim(p) \/ AppendEvidence(p) \/ ReadPage(p)
             \/ ReplacePage(p) \/ Crash(p)
      PROVE  NothingHappens
  BY <1>5 DEF NothingHappens, Extract, ExtractFails, LogCandidate, LockJournal, LeaveJournal,
              TakeClaim, AppendEvidence, ReadPage, ReplacePage, Crash, journal, backend
<1>6. ASSUME NEW p \in Procs, NEW t \in Turns, Pre(p, t) \/ Deliver(p, t)
      PROVE  NothingHappens
  BY <1>6 DEF NothingHappens, Pre, Deliver, journal, backend
<1>7. ASSUME NEW t \in Turns,
             \/ Lookup(t) \/ Unresolve(t)
             \/ \E s \in frame[t].lookups, x \in People : Decide(t, s, x)
      PROVE  NothingHappens
  BY <1>7 DEF NothingHappens, Lookup, Unresolve, Decide, journal, backend
<1>8. CASE (\E x \in People : OtherWriter(x)) \/ UNCHANGED vars
  BY <1>8 DEF NothingHappens, OtherWriter, vars, journal, backend
<1> QED
  <2>1. CASE \E p \in Procs : Step(p) \/ Crash(p)
    <3>1. PICK p \in Procs : Step(p) \/ Crash(p)
      BY <2>1
    <3> QED
      BY <3>1, <1>1, <1>2, <1>3, <1>5 DEF Step
  <2> QED
    BY <2>1, <1>4, <1>6, <1>7, <1>8 DEF Next

(* A claim has its effect once, or is given up and never has it: the        *)
(* refinement of AtMostOnce, step by step.                                  *)
THEOREM ClaimsTakeEffectOnceOrNever == Spec => ClaimsOnceOrNever
<1> DEFINE effects == [i \in Inputs |-> Cardinality({c \in changes : c.input = i})]
<1>1. Init => OnceOrNever!Init
  <2> SUFFICES ASSUME Init PROVE OnceOrNever!Init
    OBVIOUS
  <2>1. \A i \in Inputs : ChangesFor(i) = {}
    BY DEF Init, ChangesFor
  <2>2. \A i \in Inputs : Cardinality({c \in changes : c.input = i}) = 0
    BY <2>1, FS_EmptySet DEF ChangesFor
  <2>3. GivenUp = {}
    BY DEF Init, GivenUp
  <2> QED
    BY <2>2, <2>3 DEF OnceOrNever!Init, GivenUp
<1>2. ASSUME IInv, IInv', [Next]_vars
      PROVE  \/ \E w \in Inputs : OnceOrNever!Perform(w) \/ OnceOrNever!GiveUp(w)
             \/ UNCHANGED <<effects, GivenUp>>
  <2>1. CASE NothingHappens
    BY <2>1 DEF GivenUp, NothingHappens
  <2>2. ASSUME changes' = changes, NEW i \in Inputs, NEW o \in OutcomeState,
               outcomes' = [outcomes EXCEPT ![i] = o], i \notin GivenUp
        PROVE  OnceOrNever!GiveUp(i) \/ UNCHANGED <<effects, GivenUp>>
    <3>1. outcomes'[i] = o /\ \A j \in Inputs : j # i => outcomes'[j] = outcomes[j]
      BY <1>2, <2>2 DEF IInv, TypeOK
    <3>2. CASE o \notin {"noop", "terminal"}
      BY <2>2, <3>1, <3>2 DEF GivenUp
    <3>3. CASE o \in {"noop", "terminal"}
      <4>1. GivenUp' = GivenUp \cup {i}
        BY <2>2, <3>1, <3>3 DEF GivenUp
      <4>2. requests'[i] \notin changes
        BY <1>2, <2>2, <3>1, <3>3 DEF IInv, OutcomesHold
      <4>3. ChangesFor(i) = {}
        BY <1>2, <2>2, <4>2 DEF IInv, BodiesKept, ChangesFor
      <4>4. effects[i] = 0
        BY <4>3, FS_EmptySet DEF ChangesFor
      <4>5. effects' = effects
        BY <2>2
      <4> QED
        BY <4>1, <4>4, <4>5 DEF OnceOrNever!GiveUp, GivenUp
    <3> QED
      BY <3>2, <3>3
  <2>3. ASSUME outcomes' = outcomes, NEW body \in Body, changes' = changes \cup {body},
               body \notin changes, body = requests[body.input],
               body.input \in Inputs \ GivenUp
        PROVE  OnceOrNever!Perform(body.input)
    <3> PICK i \in Inputs : i = body.input /\ i \notin GivenUp
      BY <2>3
    <3>1. ChangesFor(i) = {}
      BY <1>2, <2>3 DEF IInv, BodiesKept, ChangesFor
    <3>2. ChangesFor(i)' = {body}
      BY <2>3, <3>1 DEF ChangesFor
    <3>3. \A j \in Inputs : j # i => ChangesFor(j)' = ChangesFor(j)
      BY <2>3 DEF ChangesFor
    <3>4. effects[i] = 0 /\ effects'[i] = 1
      BY <3>1, <3>2, FS_EmptySet, FS_Singleton DEF ChangesFor
    <3>5. effects' = [effects EXCEPT ![i] = 1]
      BY <3>3, <3>4 DEF ChangesFor
    <3>6. GivenUp' = GivenUp
      BY <2>3 DEF GivenUp
    <3> QED
      BY <3>4, <3>5, <3>6 DEF OnceOrNever!Perform, GivenUp
  <2> QED
    BY <1>2, <2>1, <2>2, <2>3, EffectOrOutcome DEF OutcomeChanges, EffectHappens
<1>3. IInv /\ IInv' /\ [Next]_vars => [OnceOrNever!Next]_<<effects, GivenUp>>
  BY <1>2 DEF OnceOrNever!Next
<1> QED
  BY <1>1, <1>3, SubmissionInvariant, PTL DEF Spec, ClaimsOnceOrNever, OnceOrNever!Spec, GivenUp

=============================================================================
