----------------------- MODULE CurationClient_proofs -----------------------
(***************************************************************************)
(* The cursor of the curation client, for every number of candidates,      *)
(* every size of a window, any reviewer, and any number of changes of the  *)
(* mode and of errors. The argument: the backend only moves the status of  *)
(* a run, so the copy of the runs that a cycle has read still says where   *)
(* they begin and end (CopyHolds); apply runs follow one another without   *)
(* an overlap and no shadow run begins before the runs it follows (InLine),*)
(* so wherever the next window begins, it begins at the end of the newest  *)
(* apply run.                                                              *)
(***************************************************************************)
EXTENDS CurationClient, FiniteSetTheorems, SequenceTheorems, WellFoundedInduction, TLAPS

Modes == {"shadow", "apply"}
Status == Unsettled \cup {"pending", "planning", "completed"}
Verdicts == Plans \cup {"allowed", "blocked", "executed", "failed"}
Over(values) == UNION {[window -> values] : window \in SUBSET Candidates}

Run == [mode : Modes, from : 0 .. N, to : 0 .. N, plan : Over(Plans), dec : Over(Verdicts),
        status : Status]

WithCopy == {"recover", "pack", "replanned", "reapplied"}
WithRun == {"replanned", "reapplied", "created", "executed", "resumed"}

ClientState ==
  [pc : {"idle"}] \cup
  [pc : {"recover", "pack"}, mode : Modes, h : Seq(Run)] \cup
  [pc : {"replanned", "reapplied"}, mode : Modes, h : Seq(Run), run : Nat] \cup
  [pc : {"post"}, mode : Modes, new : Run] \cup
  [pc : {"created", "executed", "resumed"}, run : Nat]

TypeOK ==
  /\ cand \in [Candidates -> {"absent", "pending", "done", "reviewed"}]
  /\ runs \in Seq(Run)
  /\ work \in Seq({"none", "create", "evaluate", "execute"})
  /\ Len(work) = Len(runs)
  /\ mode \in Modes
  /\ client \in ClientState
  /\ switches \in Nat /\ errors \in Nat

(* The window of a run, and what is planned in it.                         *)
InWindow(run) ==
  /\ run.from <= run.to
  /\ \A c \in DOMAIN run.plan : run.from < c /\ c <= run.to

(* An apply run begins where the apply runs before it have ended, or later, *)
(* and so does a shadow run, after the runs before it up to an apply run;   *)
(* the first run of all begins with the first candidate.                    *)
InLine(h) ==
  /\ \A r \in DOMAIN h : InWindow(h[r])
  /\ \A r, s \in DOMAIN h :
       r < s /\ (\/ h[r].mode = "apply" /\ h[s].mode = "apply"
                 \/ \A t \in (r + 1) .. s : h[t].mode = "shadow")
         => h[r].to <= h[s].from
  /\ h # <<>> => h[1].from = 0

(* Candidates appear in order, and all up to the end of a run have.        *)
Seen(to) == \A c \in Candidates : c <= to => cand[c] # "absent"
InOrder == \A c \in Candidates : cand[c] # "absent" => Seen(c)
WindowsSeen == \A r \in DOMAIN runs : Seen(runs[r].to)

(* The runs a cycle has read are the runs, but for what became of them.    *)
Follows(h) ==
  /\ Len(h) = Len(runs)
  /\ \A r \in DOMAIN runs :
       /\ h[r].mode = runs[r].mode /\ h[r].from = runs[r].from
       /\ h[r].to = runs[r].to /\ h[r].plan = runs[r].plan
       /\ h[r].status = "completed" => runs[r].status = "completed"

CopyHolds ==
  client.pc \in WithCopy =>
    /\ Follows(client.h)
    /\ client.pc = "pack" => \A r \in Applies(client.h) : client.h[r].status = "completed"

(* What a run that is about to be created continues.                       *)
Continues(new) ==
  /\ InWindow(new) /\ Seen(new.to) /\ new.status = "pending"
  /\ new.mode = "apply" =>
       /\ \A r \in Applies(runs) : runs[r].status = "completed" /\ runs[r].to <= new.from
       /\ new.from = 0 \/ \E r \in Applies(runs) : runs[r].to = new.from
  /\ new.mode = "shadow" => new.from = IF runs = <<>> THEN 0 ELSE runs[Len(runs)].to

NewHolds == client.pc = "post" => Continues(client.new)

(* A cycle waits for a run there is.                                       *)
RunHolds == client.pc \in WithRun => client.run \in DOMAIN runs

IInv ==
  /\ TypeOK
  /\ InLine(runs)
  /\ WindowsSeen
  /\ InOrder
  /\ NothingSkipped
  /\ NeverWedged
  /\ CopyHolds
  /\ NewHolds
  /\ RunHolds

-----------------------------------------------------------------------------
(* Numbers up to a bound have a greatest one.                              *)
LEMMA MaxOf ==
  ASSUME NEW K \in Nat, NEW S \in SUBSET (0 .. K), S # {}
  PROVE  Max(S) \in S /\ \A y \in S : y <= Max(S)
<1> DEFINE Below == {K - x : x \in S}
<1>1. Below \subseteq Nat /\ Below # {}
  OBVIOUS
<1>2. PICK m \in Below : \A k \in Below : ~(<<k, m>> \in OpToRel(<, Nat))
  BY <1>1, NatLessThanWellFounded, WFMin, Zenon
<1>3. PICK x \in S : m = K - x
  OBVIOUS
<1>4. ASSUME NEW y \in S PROVE y <= x
  <2>1. K - y \in Below
    OBVIOUS
  <2>2. ~(K - y < m)
    BY <1>1, <1>2, <2>1 DEF OpToRel
  <2> QED
    BY <1>3, <2>2
<1>5. \E z \in S : \A y \in S : z >= y
  BY <1>4
<1> QED
  BY <1>5 DEF Max

(* ... and a least one.                                                    *)
LEMMA MinOf ==
  ASSUME NEW K \in Nat, NEW S \in SUBSET (0 .. K), S # {}
  PROVE  Min(S) \in S /\ \A y \in S : Min(S) <= y
<1>1. S \subseteq Nat
  OBVIOUS
<1>2. PICK m \in S : \A k \in S : ~(<<k, m>> \in OpToRel(<, Nat))
  BY <1>1, NatLessThanWellFounded, WFMin, Zenon
<1>3. ASSUME NEW y \in S PROVE m <= y
  <2>1. y \in Nat /\ m \in Nat
    BY <1>1
  <2>2. ~(y < m)
    BY <1>2, <2>1 DEF OpToRel
  <2> QED
    BY <2>1, <2>2
<1>4. \E z \in S : \A y \in S : z =< y
  BY <1>3
<1> QED
  BY <1>4 DEF Min

(* What a history of runs is made of.                                      *)
LEMMA HistoryShape ==
  ASSUME NEW h \in Seq(Run)
  PROVE  /\ Len(h) \in Nat /\ DOMAIN h = 1 .. Len(h)
         /\ \A r \in DOMAIN h :
              /\ h[r] \in Run /\ h[r].mode \in Modes /\ h[r].status \in Status
              /\ h[r].from \in 0 .. N /\ h[r].to \in 0 .. N
<1>1. Len(h) \in Nat /\ DOMAIN h = 1 .. Len(h) /\ \A r \in DOMAIN h : h[r] \in Run
  BY ElementOfSeq, LenProperties
<1> QED
  BY <1>1 DEF Run

(* The newest apply run is the one where no other apply run ends later.    *)
LEMMA NewestShape ==
  ASSUME NEW h \in Seq(Run)
  PROVE  /\ Applies(h) = {} => NewestApply(h) = 0
         /\ Applies(h) # {} => /\ NewestApply(h) \in Applies(h)
                               /\ \A r \in Applies(h) : r <= NewestApply(h)
         /\ Applies(h) \subseteq DOMAIN h /\ NewestApply(h) \in 0 .. Len(h)
<1>1. Applies(h) \in SUBSET (0 .. Len(h)) /\ Applies(h) \subseteq DOMAIN h /\ Len(h) \in Nat
  BY HistoryShape DEF Applies
<1>2. CASE Applies(h) = {}
  BY <1>1, <1>2 DEF NewestApply
<1>3. CASE Applies(h) # {}
  <2>1. /\ Max(Applies(h)) \in Applies(h)
        /\ \A r \in Applies(h) : r <= Max(Applies(h))
    BY <1>1, <1>3, MaxOf
  <2> QED
    BY <1>1, <1>3, <2>1 DEF NewestApply
<1> QED
  BY <1>2, <1>3

-----------------------------------------------------------------------------
(* Where a replay of shadow runs ends: at the end of one of them.           *)
End(h, shadows) == Max({h[r].to : r \in shadows})

LEMMA ReplayEnd ==
  ASSUME NEW h \in Seq(Run), NEW shadows \in SUBSET DOMAIN h, shadows # {}
  PROVE  /\ End(h, shadows) \in 0 .. N
         /\ \E r \in shadows : h[r].to = End(h, shadows)
         /\ \A r \in shadows : h[r].to <= End(h, shadows)
<1> DEFINE ends == {h[r].to : r \in shadows}
<1>1. ends \in SUBSET (0 .. N) /\ ends # {} /\ N \in Nat
  BY HistoryShape, CurationClientAssumption
<1>2. Max(ends) \in ends /\ \A y \in ends : y <= Max(ends)
  <2> HIDE DEF ends
  <2> QED
    BY <1>1, MaxOf
<1> QED
  BY <1>1, <1>2 DEF End

(* A shadow run that no apply run follows begins after all apply runs.      *)
LEMMA ShadowsFollow ==
  ASSUME NEW h \in Seq(Run), InLine(h), NEW a \in DOMAIN h, NEW s \in DOMAIN h, a < s,
         \A r \in Applies(h) : r <= a
  PROVE  h[a].to <= h[s].from /\ h[s].from <= h[s].to
<1>1. \A t \in (a + 1) .. s : t \in DOMAIN h /\ h[t].mode \in Modes
  BY HistoryShape
<1>2. \A t \in (a + 1) .. s : h[t].mode = "shadow"
  BY <1>1, HistoryShape DEF Applies, Modes
<1> QED
  BY <1>2 DEF InLine, InWindow

(* The end of the newest apply run lies behind all apply runs.              *)
LEMMA NewestEnds ==
  ASSUME NEW h \in Seq(Run), InLine(h), NEW r \in Applies(h)
  PROVE  h[r].to <= h[NewestApply(h)].to
<1> PICK a \in Applies(h) : a = NewestApply(h) /\ r <= a
  BY NewestShape
<1>1. r \in DOMAIN h /\ a \in DOMAIN h /\ h[r].mode = "apply" /\ h[a].mode = "apply"
  BY DEF Applies
<1>2. /\ h[r].to \in 0 .. N /\ h[a].to \in 0 .. N /\ h[a].from \in 0 .. N
      /\ r \in Nat /\ a \in Nat /\ N \in Nat
  BY <1>1, HistoryShape, CurationClientAssumption
<1>3. h[a].from <= h[a].to
  BY <1>1 DEF InLine, InWindow
<1>4. CASE r = a
  BY <1>2, <1>4
<1>5. CASE r < a
  <2>1. h[r].to <= h[a].from
    BY <1>1, <1>5 DEF InLine
  <2> QED
    BY <1>2, <1>3, <2>1
<1> QED
  BY <1>2, <1>4, <1>5

(* Where the next window begins: in apply mode behind all apply runs and at *)
(* the end of one of them; in shadow mode where the latest run has ended. A *)
(* replay ends with a run, and not before it begins.                        *)
LEMMA NextWindow ==
  ASSUME NEW h \in Seq(Run), InLine(h), NEW m \in Modes,
         NEW next, next = Continuity(h, m), next.ok
  PROVE  /\ next.from \in 0 .. N
         /\ m = "shadow" =>
              next.upper = None /\ next.from = IF h = <<>> THEN 0 ELSE h[Len(h)].to
         /\ m = "apply" =>
              /\ \A r \in Applies(h) : h[r].to <= next.from
              /\ next.from = 0 \/ \E r \in Applies(h) : h[r].to = next.from
         /\ \/ next.upper = None
            \/ /\ next.upper \in 0 .. N /\ next.from <= next.upper
               /\ \E r \in DOMAIN h : h[r].to = next.upper
<1> DEFINE newest == NewestApply(h)
           initial == InitialEpoch(h)
           base == IF newest # 0 THEN h[newest].to
                   ELSE IF initial # {} THEN h[Min(initial)].from ELSE 0
           successor == SuccessorEpoch(h, base)
<1>1. N \in Nat
  BY CurationClientAssumption
<1>2. CASE m = "shadow"
  <2>1. next = From(IF h = <<>> THEN 0 ELSE h[Len(h)].to, None)
    BY <1>2 DEF Continuity
  <2>2. h # <<>> => Len(h) \in DOMAIN h
    BY HistoryShape, EmptySeq
  <2>3. (IF h = <<>> THEN 0 ELSE h[Len(h)].to) \in 0 .. N
    BY <1>1, <2>2, HistoryShape
  <2> QED
    BY <1>2, <2>1, <2>3 DEF From, Modes
<1>3. CASE m = "apply"
  <2>1. /\ base \in 0 .. N
        /\ \A r \in Applies(h) : h[r].to <= base
        /\ base = 0 \/ \E r \in Applies(h) : h[r].to = base
    <3>1. CASE newest # 0
      <4>1. newest \in Applies(h) /\ newest \in DOMAIN h
        BY <3>1, NewestShape
      <4> QED
        BY <3>1, <4>1, NewestEnds, HistoryShape
    <3>2. CASE newest = 0
      <4>1. Applies(h) = {}
        <5>1. \A r \in Applies(h) : r >= 1
          BY HistoryShape DEF Applies
        <5> QED
          BY <3>2, <5>1, NewestShape
      <4>2. initial = DOMAIN h
        <5>1. \A r \in DOMAIN h : h[r].mode = "shadow" /\ r > 0
          BY <4>1, HistoryShape DEF Applies, Modes
        <5> QED
          BY <3>2, <5>1 DEF InitialEpoch
      <4>3. CASE initial # {}
        <5>1. initial \in SUBSET (0 .. Len(h)) /\ 1 \in initial /\ h # <<>> /\ Len(h) \in Nat
          BY <4>2, <4>3, HistoryShape
        <5>2. Min(initial) \in initial /\ \A y \in initial : Min(initial) <= y
          <6> HIDE DEF initial
          <6> QED
            BY <5>1, MinOf
        <5>3. Min(initial) = 1
          <6> PICK x \in initial : x = Min(initial) /\ x <= 1
            BY <5>1, <5>2
          <6>1. x \in 1 .. Len(h)
            BY <4>2, HistoryShape
          <6> QED
            BY <5>1, <6>1
        <5>4. h[1].from = 0
          BY <5>1 DEF InLine
        <5> QED
          BY <1>1, <3>2, <4>1, <4>3, <5>3, <5>4
      <4>4. CASE initial = {}
        BY <1>1, <3>2, <4>1, <4>4
      <4> QED
        BY <4>3, <4>4
    <3> QED
      BY <3>1, <3>2
  <2>2. \A r \in initial : base <= h[r].to
    <3> SUFFICES ASSUME NEW r \in initial PROVE base <= h[r].to
      OBVIOUS
    <3>1. r \in DOMAIN h /\ r > newest /\ h[r].to \in 0 .. N /\ h[r].from \in 0 .. N
      BY HistoryShape DEF InitialEpoch
    <3>2. CASE newest # 0
      <4>1. newest \in DOMAIN h /\ \A q \in Applies(h) : q <= newest
        BY <3>2, NewestShape
      <4>2. h[newest].to <= h[r].from /\ h[r].from <= h[r].to
        BY <3>1, <4>1, ShadowsFollow
      <4>3. h[newest].to \in 0 .. N
        BY <4>1, HistoryShape
      <4> QED
        BY <3>1, <3>2, <4>2, <4>3
    <3>3. CASE newest = 0
      <4>1. Applies(h) = {}
        <5>1. \A q \in Applies(h) : q >= 1
          BY HistoryShape DEF Applies
        <5> QED
          BY <3>3, <5>1, NewestShape
      <4>2. base = 0
        BY <2>1, <4>1
      <4> QED
        BY <3>1, <4>2
    <3> QED
      BY <3>2, <3>3
  <2>3. \A r \in successor : base <= h[r].to
    <3> SUFFICES ASSUME NEW r \in successor PROVE base <= h[r].to
      OBVIOUS
    <3>1. h[r].to > base /\ h[r].to \in 0 .. N
      BY HistoryShape DEF SuccessorEpoch
    <3> QED
      BY <2>1, <3>1
  <2>4. initial \subseteq DOMAIN h /\ successor \subseteq DOMAIN h
    BY DEF InitialEpoch, SuccessorEpoch
  <2>5. \/ next = From(base, None)
        \/ initial # {} /\ next = From(base, End(h, initial))
        \/ successor # {} /\ next = From(base, End(h, successor))
    <3>1. \/ Continuity(h, m) = From(base, None) \/ Continuity(h, m) = Broken
          \/ initial # {} /\ Continuity(h, m) = From(base, End(h, initial))
          \/ successor # {} /\ Continuity(h, m) = From(base, End(h, successor))
      BY <1>3, "apply" # "shadow", Zenon DEF Continuity, End
    <3>2. next # Broken
      BY DEF Broken
    <3> QED
      BY <3>1, <3>2
  <2> HIDE DEF base, initial, successor
  <2>6. ASSUME NEW shadows \in SUBSET DOMAIN h, shadows # {}, NEW upper, upper = End(h, shadows),
               \A r \in shadows : base <= h[r].to, next = From(base, upper)
        PROVE  /\ next.from = base /\ next.upper = upper /\ upper \in 0 .. N
               /\ base <= upper /\ \E r \in DOMAIN h : h[r].to = upper
    <3>1. /\ upper \in 0 .. N
          /\ \E r \in shadows : h[r].to = upper
      BY <2>6, ReplayEnd
    <3> QED
      BY <2>6, <3>1 DEF From
  <2>7. CASE next = From(base, None)
    BY <1>3, <2>1, <2>7 DEF From
  <2>8. CASE initial # {} /\ next = From(base, End(h, initial))
    BY <1>3, <2>1, <2>2, <2>4, <2>6, <2>8
  <2>9. CASE successor # {} /\ next = From(base, End(h, successor))
    BY <1>3, <2>1, <2>3, <2>4, <2>6, <2>9
  <2> QED
    BY <2>5, <2>7, <2>8, <2>9
<1> QED
  BY <1>2, <1>3 DEF Modes

-----------------------------------------------------------------------------
(* Plans and decisions are functions over candidates.                      *)
LEMMA OverShape ==
  ASSUME NEW values, NEW f
  PROVE  f \in Over(values) <=> DOMAIN f \subseteq Candidates /\ f \in [DOMAIN f -> values]
BY DEF Over

(* What a step does that creates no run: runs go on, candidates appear or  *)
(* are resolved, and nothing that was seen becomes pending again.          *)
Kept ==
  /\ Len(runs') = Len(runs)
  /\ \A r \in DOMAIN runs :
       /\ runs'[r].mode = runs[r].mode /\ runs'[r].from = runs[r].from
       /\ runs'[r].to = runs[r].to /\ runs'[r].plan = runs[r].plan
       /\ runs[r].status = "completed" => runs'[r].status = "completed"
  /\ \A c \in Candidates : cand[c] # "absent" =>
       cand'[c] # "absent" /\ (cand'[c] = "pending" => cand[c] = "pending")

LEMMA CursorKept ==
  ASSUME IInv, TypeOK', Kept
  PROVE  /\ InLine(runs)' /\ WindowsSeen' /\ NothingSkipped' /\ NeverWedged'
         /\ \A h : Follows(h) => Follows(h)'
         /\ \A new : Continues(new) => Continues(new)'
<1>1. /\ DOMAIN runs' = DOMAIN runs /\ DOMAIN runs = 1 .. Len(runs) /\ Len(runs) \in Nat
      /\ \A r \in DOMAIN runs : runs[r].to \in 0 .. N /\ runs[r].from \in 0 .. N
  <2>1. runs \in Seq(Run) /\ runs' \in Seq(Run)
    BY DEF IInv, TypeOK
  <2> QED
    BY <2>1, HistoryShape DEF Kept
<1>2. Applies(runs)' = Applies(runs)
  BY <1>1 DEF Kept, Applies
<1>3. \A to : Seen(to) => Seen(to)'
  BY DEF Kept, Seen
<1>4. runs' = <<>> <=> runs = <<>>
  <2>1. runs \in Seq(Run) /\ runs' \in Seq(Run)
    BY DEF IInv, TypeOK
  <2> QED
    BY <2>1, EmptySeq DEF Kept
<1>5. InLine(runs)'
  <2>1. \A r \in DOMAIN runs : InWindow(runs'[r])
    BY <1>1 DEF IInv, InLine, InWindow, Kept
  <2>2. ASSUME NEW r \in DOMAIN runs, NEW s \in DOMAIN runs, r < s,
               \/ runs'[r].mode = "apply" /\ runs'[s].mode = "apply"
               \/ \A t \in (r + 1) .. s : runs'[t].mode = "shadow"
        PROVE  runs'[r].to <= runs'[s].from
    <3>1. \A t \in (r + 1) .. s : t \in DOMAIN runs
      BY <1>1
    <3>2. \/ runs[r].mode = "apply" /\ runs[s].mode = "apply"
          \/ \A t \in (r + 1) .. s : runs[t].mode = "shadow"
      BY <2>2, <3>1 DEF Kept
    <3>3. runs[r].to <= runs[s].from
      BY <2>2, <3>2 DEF IInv, InLine
    <3> QED
      BY <3>3 DEF Kept
  <2>3. runs' # <<>> => runs'[1].from = 0
    <3>1. runs # <<>> => 1 \in DOMAIN runs
      BY <1>1, EmptySeq DEF IInv, TypeOK
    <3> QED
      BY <1>4, <3>1 DEF IInv, InLine, Kept
  <2> QED
    BY <1>1, <2>1, <2>2, <2>3 DEF InLine
<1>6. WindowsSeen'
  BY <1>1, <1>3 DEF IInv, WindowsSeen, Kept
<1>7. NothingSkipped'
  <2> SUFFICES ASSUME NEW r \in Applies(runs), NEW c \in Candidates, cand'[c] = "pending",
                      c <= runs'[r].to
               PROVE  \E s \in Applies(runs) : c \in DOMAIN runs'[s].plan
    BY <1>2 DEF NothingSkipped
  <2>1. r \in DOMAIN runs /\ runs'[r].to = runs[r].to
    BY DEF Applies, Kept
  <2>2. cand[c] = "pending"
    BY <2>1 DEF IInv, WindowsSeen, Seen, Kept
  <2>3. PICK s \in Applies(runs) : c \in DOMAIN runs[s].plan
    BY <2>1, <2>2 DEF IInv, NothingSkipped
  <2> QED
    BY <2>3 DEF Applies, Kept
<1>8. NeverWedged'
  BY <1>2 DEF IInv, NeverWedged, Applies, Kept
<1>9. \A h : Follows(h) => Follows(h)'
  BY <1>1 DEF Follows, Kept
<1>10. ASSUME NEW new, Continues(new) PROVE Continues(new)'
  <2>1. Seen(new.to)'
    BY <1>3, <1>10 DEF Continues
  <2>2. \A r \in Applies(runs) :
          /\ runs'[r].to = runs[r].to
          /\ runs[r].status = "completed" => runs'[r].status = "completed"
    BY DEF Applies, Kept
  <2>3. runs # <<>> => runs'[Len(runs')].to = runs[Len(runs)].to
    <3>1. runs # <<>> => Len(runs) \in DOMAIN runs
      BY <1>1, EmptySeq DEF IInv, TypeOK
    <3> QED
      BY <3>1 DEF Kept
  <2> QED
    BY <1>2, <1>4, <1>10, <2>1, <2>2, <2>3 DEF Continues
<1> QED
  BY <1>5, <1>6, <1>7, <1>8, <1>9, <1>10

(* What remains to be shown of such a step concerns the client alone.      *)
LEMMA ClientMoves ==
  ASSUME IInv, TypeOK', Kept, InOrder', CopyHolds', NewHolds', RunHolds'
  PROVE  IInv'
BY CursorKept DEF IInv

(* ... and nothing at all when the client stands still.                    *)
LEMMA ClientStands ==
  ASSUME IInv, TypeOK', Kept, InOrder', UNCHANGED client
  PROVE  IInv'
<1>1. DOMAIN runs' = DOMAIN runs
  BY HistoryShape DEF IInv, TypeOK, Kept
<1>2. CopyHolds'
  <2> SUFFICES ASSUME client.pc \in WithCopy
               PROVE  /\ Follows(client.h)'
                      /\ client.pc = "pack" =>
                           \A r \in Applies(client.h) : client.h[r].status = "completed"
    BY DEF CopyHolds
  <2> PICK h : h = client.h /\ h = client'.h
    OBVIOUS
  <2>1. Follows(h) /\ (Follows(h) => Follows(h)')
    BY CursorKept DEF IInv, CopyHolds
  <2> QED
    BY <2>1 DEF IInv, CopyHolds
<1>3. NewHolds'
  <2> PICK new : new = client.new /\ new = client'.new
    OBVIOUS
  <2>1. Continues(new) => Continues(new)'
    BY CursorKept
  <2> QED
    BY <2>1 DEF IInv, NewHolds
<1>4. RunHolds'
  BY <1>1 DEF IInv, RunHolds
<1> QED
  BY <1>2, <1>3, <1>4, ClientMoves

(* ... or when its cycle ends.                                             *)
LEMMA ClientQuits ==
  ASSUME IInv, TypeOK', Kept, InOrder', client' = Idle
  PROVE  IInv'
BY ClientMoves DEF CopyHolds, NewHolds, RunHolds, WithCopy, WithRun, Idle

(* A candidate that was resolved.                                          *)
LEMMA Resolved ==
  ASSUME TypeOK, InOrder, NEW c \in Candidates, cand[c] # "absent",
         NEW state \in {"done", "reviewed"}, cand' = [cand EXCEPT ![c] = state]
  PROVE  /\ InOrder'
         /\ cand' \in [Candidates -> {"absent", "pending", "done", "reviewed"}]
         /\ \A b \in Candidates : cand[b] # "absent" =>
              cand'[b] # "absent" /\ (cand'[b] = "pending" => cand[b] = "pending")
<1>1. \A b \in Candidates : cand'[b] = "absent" <=> cand[b] = "absent"
  BY DEF TypeOK
<1> QED
  BY <1>1 DEF TypeOK, InOrder, Seen

(* The backend's steps change what became of one run.                      *)
LEMMA RunMoves ==
  ASSUME IInv, NEW r \in DOMAIN runs, NEW x \in Run, runs' = [runs EXCEPT ![r] = x],
         x.mode = runs[r].mode, x.from = runs[r].from, x.to = runs[r].to, x.plan = runs[r].plan,
         runs[r].status # "completed",
         cand' \in [Candidates -> {"absent", "pending", "done", "reviewed"}], InOrder',
         \A b \in Candidates : cand[b] # "absent" =>
           cand'[b] # "absent" /\ (cand'[b] = "pending" => cand[b] = "pending"),
         work' = work \/ \E w \in {"none", "execute"} : work' = [work EXCEPT ![r] = w],
         UNCHANGED <<mode, client, switches>>, errors' \in Nat
  PROVE  IInv'
<1>1. /\ runs \in Seq(Run) /\ DOMAIN runs = 1 .. Len(runs) /\ Len(work) = Len(runs)
      /\ work \in Seq({"none", "create", "evaluate", "execute"})
  BY HistoryShape DEF IInv, TypeOK
<1>2. /\ runs' \in Seq(Run) /\ Len(runs') = Len(runs)
      /\ \A q \in 1 .. Len(runs) : runs'[q] = IF q = r THEN x ELSE runs[q]
  BY <1>1, ExceptSeq
<1>3. work' \in Seq({"none", "create", "evaluate", "execute"}) /\ Len(work') = Len(work)
  <2>1. CASE work' = work
    BY <1>1, <2>1
  <2>2. ASSUME NEW w \in {"none", "execute"}, work' = [work EXCEPT ![r] = w]
        PROVE  work' \in Seq({"none", "create", "evaluate", "execute"}) /\ Len(work') = Len(work)
    <3>1. w \in {"none", "create", "evaluate", "execute"} /\ r \in 1 .. Len(work)
      BY <1>1
    <3> QED
      BY <1>1, <2>2, <3>1, ExceptSeq
  <2> QED
    BY <2>1, <2>2
<1>4. TypeOK'
  BY <1>1, <1>2, <1>3 DEF IInv, TypeOK
<1>5. Kept
  BY <1>1, <1>2 DEF Kept
<1> QED
  BY <1>4, <1>5, ClientStands

-----------------------------------------------------------------------------
(* The invariant holds at the start.                                       *)
LEMMA InitInv == Init => IInv
<1> SUFFICES ASSUME Init PROVE IInv
  OBVIOUS
<1>1. client = Idle /\ runs = <<>> /\ work = <<>> /\ DOMAIN runs = {}
  BY DEF Init
<1>2. TypeOK
  <2>1. /\ runs \in Seq(Run) /\ work \in Seq({"none", "create", "evaluate", "execute"})
        /\ Len(work) = Len(runs)
    BY <1>1
  <2> QED
    BY <2>1 DEF Init, TypeOK, Modes, ClientState, Idle
<1>3. Applies(runs) = {}
  BY <1>1 DEF Applies
<1>4. InOrder
  BY DEF Init, InOrder
<1> QED
  BY <1>1, <1>2, <1>3, <1>4 DEF IInv, InLine, WindowsSeen, NothingSkipped, NeverWedged,
     CopyHolds, NewHolds, RunHolds, WithCopy, WithRun, Idle

(* A run as the backend has it.                                            *)
LEMMA RunShape ==
  ASSUME TypeOK, NEW r \in DOMAIN runs
  PROVE  /\ runs[r] \in Run /\ r \in Nat /\ r \in 1 .. Len(work)
         /\ DOMAIN runs[r].plan \subseteq Candidates
         /\ DOMAIN runs[r].dec \subseteq Candidates
         /\ runs[r].dec \in [DOMAIN runs[r].dec -> Verdicts]
<1>1. runs[r] \in Run /\ r \in 1 .. Len(runs)
  BY HistoryShape DEF TypeOK
<1>2. runs[r].plan \in Over(Plans) /\ runs[r].dec \in Over(Verdicts)
  BY <1>1 DEF Run
<1> QED
  BY <1>1, <1>2, OverShape DEF TypeOK

(* An evaluation begins, or ends with a verdict on each decision.          *)
LEMMA EvaluateInv == ASSUME IInv, NEW r \in DOMAIN runs, Evaluate(r) PROVE IInv'
<1> DEFINE verdict == [c \in DOMAIN runs[r].plan |->
                         IF Allowed(runs[r], c) THEN "allowed" ELSE "blocked"]
<1>1. runs[r] \in Run /\ DOMAIN runs[r].plan \subseteq Candidates
  BY RunShape DEF IInv
<1>2. InOrder' /\ UNCHANGED <<cand, mode, client, switches, errors>>
  BY DEF IInv, Evaluate, InOrder, Seen
<1>3. CASE runs[r].status = "pending"
  <2> PICK x : x = [runs[r] EXCEPT !.status = "planning"]
    OBVIOUS
  <2>1. /\ x \in Run /\ x.mode = runs[r].mode /\ x.from = runs[r].from /\ x.to = runs[r].to
        /\ x.plan = runs[r].plan
    BY <1>1 DEF Run, Status, Unsettled
  <2>2. runs' = [runs EXCEPT ![r] = x] /\ work' = work
    BY <1>3 DEF Evaluate
  <2> QED
    BY <1>2, <1>3, <2>1, <2>2, RunMoves DEF IInv, TypeOK
<1>4. CASE runs[r].status # "pending"
  <2> PICK x : x = [runs[r] EXCEPT !.status = "ready", !.dec = verdict]
    OBVIOUS
  <2>1. verdict \in Over(Verdicts)
    BY <1>1, OverShape DEF Verdicts
  <2>2. /\ x \in Run /\ x.mode = runs[r].mode /\ x.from = runs[r].from /\ x.to = runs[r].to
        /\ x.plan = runs[r].plan
    BY <1>1, <2>1 DEF Run, Status, Unsettled
  <2>3. runs[r].status = "planning" /\ runs' = [runs EXCEPT ![r] = x]
    BY <1>1, <1>4 DEF Evaluate, Run
  <2>4. \E w \in {"none", "execute"} : work' = [work EXCEPT ![r] = w]
    BY <1>4 DEF Evaluate
  <2> QED
    BY <1>2, <2>2, <2>3, <2>4, RunMoves DEF IInv, TypeOK
<1> QED
  BY <1>3, <1>4

(* The execution of a run begins.                                          *)
LEMMA StartExecutionInv == ASSUME IInv, NEW r \in DOMAIN runs, StartExecution(r) PROVE IInv'
<1> DEFINE again == [c \in DOMAIN runs[r].dec |->
                       IF runs[r].dec[c] = "failed" THEN "allowed" ELSE runs[r].dec[c]]
<1> PICK x : x = [runs[r] EXCEPT !.status = "executing", !.dec = again]
  OBVIOUS
<1>1. runs[r] \in Run /\ again \in Over(Verdicts)
  BY RunShape, OverShape DEF IInv, Verdicts
<1>2. /\ x \in Run /\ x.mode = runs[r].mode /\ x.from = runs[r].from /\ x.to = runs[r].to
      /\ x.plan = runs[r].plan
  BY <1>1 DEF Run, Status, Unsettled
<1>3. runs[r].status # "completed" /\ runs' = [runs EXCEPT ![r] = x]
  BY <1>1 DEF StartExecution, Run
<1>4. InOrder' /\ UNCHANGED <<cand, mode, client, switches, errors, work>>
  BY DEF IInv, StartExecution, InOrder, Seen
<1> QED
  BY <1>2, <1>3, <1>4, RunMoves DEF IInv, TypeOK

(* A decision is executed, blocked, or fails.                              *)
LEMMA ExecuteInv == ASSUME IInv, NEW r \in DOMAIN runs, Execute(r) PROVE IInv'
<1> PICK c : c = Min(ToDo(runs[r]))
  OBVIOUS
<1>1. /\ runs[r] \in Run /\ DOMAIN runs[r].dec \subseteq Candidates
      /\ runs[r].dec \in [DOMAIN runs[r].dec -> Verdicts]
  BY RunShape DEF IInv
<1>2. c \in DOMAIN runs[r].dec /\ c \in Candidates /\ runs[r].dec[c] = "allowed"
  <2>1. ToDo(runs[r]) \in SUBSET (0 .. N) /\ ToDo(runs[r]) # {} /\ N \in Nat
    BY <1>1, CurationClientAssumption DEF Execute, ToDo, Candidates
  <2>2. c \in ToDo(runs[r])
    BY <2>1, MinOf
  <2> QED
    BY <1>1, <2>2 DEF ToDo
<1>3. PICK v \in {"executed", "blocked", "failed"} : runs' = [runs EXCEPT ![r].dec[c] = v]
  BY DEF Execute
<1> PICK x : x = [runs[r] EXCEPT !.dec = [runs[r].dec EXCEPT ![c] = v]]
  OBVIOUS
<1>4. [runs[r].dec EXCEPT ![c] = v] \in Over(Verdicts)
  <2>1. v \in Verdicts
    BY DEF Verdicts
  <2>2. /\ [runs[r].dec EXCEPT ![c] = v] \in [DOMAIN runs[r].dec -> Verdicts]
        /\ DOMAIN [runs[r].dec EXCEPT ![c] = v] = DOMAIN runs[r].dec
    BY <1>1, <2>1
  <2> QED
    BY <1>1, <2>2, OverShape
<1>5. /\ x \in Run /\ x.mode = runs[r].mode /\ x.from = runs[r].from /\ x.to = runs[r].to
      /\ x.plan = runs[r].plan
  BY <1>1, <1>4 DEF Run
<1>6. runs[r].status # "completed" /\ runs' = [runs EXCEPT ![r] = x]
  BY <1>1, <1>3 DEF Execute, Run
<1>7. /\ cand' \in [Candidates -> {"absent", "pending", "done", "reviewed"}] /\ InOrder'
      /\ \A b \in Candidates : cand[b] # "absent" =>
           cand'[b] # "absent" /\ (cand'[b] = "pending" => cand[b] = "pending")
  <2>1. CASE cand' = cand
    BY <2>1 DEF IInv, TypeOK, InOrder, Seen
  <2>2. CASE cand[c] = "pending" /\ cand' = [cand EXCEPT ![c] = "done"]
    BY <1>2, <2>2, Resolved DEF IInv
  <2> QED
    BY <2>1, <2>2 DEF Execute
<1>8. work' = work /\ UNCHANGED <<mode, client, switches>> /\ errors' \in Nat
  BY DEF Execute, IInv, TypeOK
<1> QED
  BY <1>5, <1>6, <1>7, <1>8, RunMoves

(* The execution of a run ends.                                            *)
LEMMA FinishExecutionInv == ASSUME IInv, NEW r \in DOMAIN runs, FinishExecution(r) PROVE IInv'
<1>1. PICK st \in {"completed", "partial"} : runs' = [runs EXCEPT ![r].status = st]
  BY DEF FinishExecution
<1> PICK x : x = [runs[r] EXCEPT !.status = st]
  OBVIOUS
<1>2. runs[r] \in Run
  BY RunShape DEF IInv
<1>3. /\ x \in Run /\ x.mode = runs[r].mode /\ x.from = runs[r].from /\ x.to = runs[r].to
      /\ x.plan = runs[r].plan
  BY <1>2 DEF Run, Status, Unsettled
<1>4. runs[r].status # "completed" /\ runs' = [runs EXCEPT ![r] = x]
  BY <1>1 DEF FinishExecution
<1>5. InOrder' /\ UNCHANGED <<cand, mode, client, switches, errors>> /\ work' = [work EXCEPT ![r] = "none"]
  BY DEF IInv, FinishExecution, InOrder, Seen
<1> QED
  BY <1>3, <1>4, <1>5, RunMoves DEF IInv, TypeOK

-----------------------------------------------------------------------------
(* What a cycle carries, by where it stands.                               *)
LEMMA ClientShape ==
  ASSUME NEW c \in ClientState
  PROVE  /\ c.pc \in {"recover", "pack"} =>
              c \in [pc : {"recover", "pack"}, mode : Modes, h : Seq(Run)]
         /\ c.pc \in {"replanned", "reapplied"} =>
              c \in [pc : {"replanned", "reapplied"}, mode : Modes, h : Seq(Run), run : Nat]
         /\ c.pc = "post" => c \in [pc : {"post"}, mode : Modes, new : Run]
         /\ c.pc \in {"created", "executed", "resumed"} =>
              c \in [pc : {"created", "executed", "resumed"}, run : Nat]
BY DEF ClientState

(* The copy that a cycle has read says of the windows what the runs say.    *)
LEMMA CopyShape ==
  ASSUME IInv, NEW h \in Seq(Run), Follows(h)
  PROVE  /\ InLine(h) /\ Applies(h) = Applies(runs) /\ DOMAIN h = DOMAIN runs
         /\ h = <<>> <=> runs = <<>>
         /\ runs # <<>> => Len(runs) \in DOMAIN runs
         /\ Len(h) = Len(runs)
<1>1. /\ runs \in Seq(Run) /\ DOMAIN runs = 1 .. Len(runs) /\ DOMAIN h = 1 .. Len(h)
      /\ Len(runs) \in Nat /\ Len(h) = Len(runs)
  BY HistoryShape DEF IInv, TypeOK, Follows
<1>2. (h = <<>> <=> runs = <<>>) /\ (runs # <<>> => Len(runs) \in DOMAIN runs)
  BY <1>1, EmptySeq
<1>3. Applies(h) = Applies(runs)
  BY <1>1 DEF Applies, Follows
<1>4. InLine(h)
  <2>1. \A r \in DOMAIN h : InWindow(h[r])
    BY <1>1 DEF IInv, InLine, InWindow, Follows
  <2>2. ASSUME NEW r \in DOMAIN h, NEW s \in DOMAIN h, r < s,
               \/ h[r].mode = "apply" /\ h[s].mode = "apply"
               \/ \A t \in (r + 1) .. s : h[t].mode = "shadow"
        PROVE  h[r].to <= h[s].from
    <3>1. \A t \in (r + 1) .. s : t \in DOMAIN runs
      BY <1>1
    <3>2. \/ runs[r].mode = "apply" /\ runs[s].mode = "apply"
          \/ \A t \in (r + 1) .. s : runs[t].mode = "shadow"
      BY <1>1, <2>2, <3>1 DEF Follows
    <3>3. runs[r].to <= runs[s].from
      BY <1>1, <2>2, <3>2 DEF IInv, InLine
    <3> QED
      BY <1>1, <3>3 DEF Follows
  <2>3. h # <<>> => h[1].from = 0
    <3>1. runs # <<>> => 1 \in DOMAIN runs
      BY <1>1, <1>2
    <3> QED
      BY <1>2, <3>1 DEF IInv, InLine, Follows
  <2> QED
    BY <2>1, <2>2, <2>3 DEF InLine
<1> QED
  BY <1>1, <1>2, <1>3, <1>4

(* A step of the client leaves candidates and runs as they are.            *)
LEMMA ClientSteps ==
  ASSUME IInv, UNCHANGED <<cand, runs>>
  PROVE  Kept /\ InOrder'
BY DEF Kept, IInv, InOrder, Seen

(* The backend takes up, or puts down, what it does for one run.           *)
LEMMA WorkMoves ==
  ASSUME TypeOK, NEW r \in DOMAIN runs, NEW w \in {"none", "create", "evaluate", "execute"},
         work' = [work EXCEPT ![r] = w]
  PROVE  work' \in Seq({"none", "create", "evaluate", "execute"}) /\ Len(work') = Len(work)
<1>1. r \in 1 .. Len(work)
  BY RunShape
<1> QED
  BY <1>1, ExceptSeq DEF TypeOK

(* A cycle begins with a copy of the runs.                                 *)
LEMMA BeginInv == ASSUME IInv, Begin PROVE IInv'
<1>1. /\ client' = [pc |-> "recover", mode |-> mode, h |-> runs]
      /\ UNCHANGED <<cand, runs, work, mode, switches, errors>>
  BY DEF Begin, Becomes
<1>2. TypeOK'
  BY <1>1 DEF IInv, TypeOK, ClientState
<1>3. Follows(runs)
  BY DEF Follows
<1>4. CopyHolds'
  BY <1>1, <1>3 DEF CopyHolds, Follows
<1> QED
  BY <1>1, <1>2, <1>4, ClientSteps, ClientMoves DEF NewHolds, RunHolds, WithRun

(* A resumed run: the request is refused, or the cycle waits for it.       *)
LEMMA ResumeInv ==
  ASSUME IInv, NEW r \in DOMAIN runs, NEW next \in ClientState, Resume(r, next),
         next.pc \in WithRun => next.run = r,
         next.pc \in WithCopy => next.pc # "pack" /\ Follows(next.h),
         next.pc # "post",
         UNCHANGED <<cand, runs, mode, switches, errors>>
  PROVE  IInv'
<1>1. Kept /\ InOrder'
  BY ClientSteps
<1>2. CASE client' = Idle /\ UNCHANGED work
  <2>1. TypeOK'
    BY <1>2 DEF IInv, TypeOK, ClientState, Idle
  <2> QED
    BY <1>1, <1>2, <2>1, ClientQuits
<1>3. CASE client' # Idle \/ work' # work
  <2>1. /\ client' = next
        /\ work' = [work EXCEPT ![r] = IF work[r] = "none" THEN Resumes(runs[r]) ELSE work[r]]
    BY <1>3 DEF Resume, Becomes, Quits
  <2>2. PICK w \in {"none", "create", "evaluate", "execute"} :
          w = IF work[r] = "none" THEN Resumes(runs[r]) ELSE work[r]
    <3>1. Resumes(runs[r]) \in {"none", "evaluate", "execute"}
      BY DEF Resumes
    <3>2. work[r] \in {"none", "create", "evaluate", "execute"}
      BY RunShape, ElementOfSeq DEF IInv, TypeOK
    <3> QED
      BY <3>1, <3>2
  <2>3. TypeOK'
    BY <2>1, <2>2, WorkMoves DEF IInv, TypeOK
  <2>4. Follows(next.h) => Follows(next.h)'
    <3> PICK h : h = next.h
      OBVIOUS
    <3>1. Follows(h) => Follows(h)'
      BY <1>1, <2>3, CursorKept
    <3> QED
      BY <3>1
  <2>5. CopyHolds' /\ NewHolds' /\ RunHolds'
    BY <2>1, <2>4 DEF CopyHolds, NewHolds, RunHolds
  <2> QED
    BY <1>1, <2>3, <2>5, ClientMoves
<1> QED
  BY <1>2, <1>3

(* What an earlier cycle left is resumed, or there is nothing left.        *)
LEMMA RecoverInv == ASSUME IInv, Recover PROVE IInv'
<1> PICK h : h = client.h
  OBVIOUS
<1>1. /\ client.pc = "recover" /\ client \in ClientState
      /\ UNCHANGED <<cand, runs, mode, switches, errors>>
  BY DEF Recover, IInv, TypeOK
<1>2. /\ client \in [pc : {"recover", "pack"}, mode : Modes, h : Seq(Run)] /\ client.mode \in Modes
      /\ h \in Seq(Run)
  BY <1>1, ClientShape
<1>3. Follows(h) /\ DOMAIN h = DOMAIN runs /\ Applies(h) = Applies(runs)
      /\ DOMAIN h = 1 .. Len(h) /\ Len(h) \in Nat
  BY <1>1, <1>2, CopyShape, HistoryShape DEF IInv, CopyHolds, WithCopy
<1>4. ASSUME NEW r \in DOMAIN runs, NEW pc \in {"replanned", "reapplied"},
             Resume(r, [pc |-> pc, mode |-> client.mode, h |-> client.h, run |-> r])
      PROVE  IInv'
  <2> PICK next : next = [pc |-> pc, mode |-> client.mode, h |-> client.h, run |-> r]
    OBVIOUS
  <2>1. /\ next.pc = pc /\ next.run = r /\ next.h = h /\ next.h \in Seq(Run) /\ r \in Nat
    BY <1>2, RunShape DEF IInv
  <2>2. next \in ClientState
    BY <1>2, <2>1 DEF ClientState
  <2>3. Resume(r, next)
    BY <1>4
  <2> QED
    BY <1>1, <1>3, <2>1, <2>2, <2>3, ResumeInv DEF WithRun, WithCopy
<1>5. CASE /\ Unplanned(h) # {}
           /\ Resume(Min(Unplanned(h)), [pc |-> "replanned", mode |-> client.mode, h |-> client.h,
                                         run |-> Min(Unplanned(h))])
  <2> PICK r : r = Min(Unplanned(h))
    OBVIOUS
  <2>1. Unplanned(h) \in SUBSET (0 .. Len(h)) /\ Unplanned(h) \subseteq DOMAIN h
    BY <1>3 DEF Unplanned
  <2>2. r \in DOMAIN runs
    BY <1>3, <1>5, <2>1, MinOf
  <2> QED
    BY <1>4, <1>5, <2>2
<1>6. CASE /\ Incomplete(h) = {NewestApply(h)}
           /\ Resume(NewestApply(h), [pc |-> "reapplied", mode |-> client.mode, h |-> client.h,
                                      run |-> NewestApply(h)])
  <2> PICK r : r = NewestApply(h)
    OBVIOUS
  <2>1. r \in DOMAIN runs
    BY <1>3, <1>6 DEF Incomplete, Applies
  <2> QED
    BY <1>4, <1>6, <2>1
<1>7. CASE /\ Unplanned(h) = {} /\ Incomplete(h) = {}
           /\ client' = [client EXCEPT !.pc = "pack"] /\ UNCHANGED work
  <2>1. /\ client' \in [pc : {"recover", "pack"}, mode : Modes, h : Seq(Run)]
        /\ client'.pc = "pack" /\ client'.h = h
    BY <1>2, <1>7
  <2>2. TypeOK'
    BY <1>1, <1>7, <2>1 DEF IInv, TypeOK, ClientState
  <2>3. \A r \in Applies(h) : h[r].status = "completed"
    <3> SUFFICES ASSUME NEW r \in Applies(h) PROVE h[r].status = "completed"
      OBVIOUS
    <3>1. r \in DOMAIN h /\ h[r].status \in Status
      BY <1>2, HistoryShape DEF Applies
    <3>2. h[r].status \notin {"pending", "planning"} /\ h[r].status \notin Unsettled
      BY <1>7, <3>1 DEF Unplanned, Incomplete
    <3> QED
      BY <3>1, <3>2 DEF Status
  <2>4. Kept /\ InOrder' /\ Follows(h)'
    BY <1>1, <1>3, <2>2, ClientSteps, CursorKept
  <2>5. CopyHolds'
    BY <2>1, <2>3, <2>4 DEF CopyHolds
  <2> QED
    BY <2>1, <2>2, <2>4, <2>5, ClientMoves DEF NewHolds, RunHolds, WithRun
<1>8. CASE client' = Idle /\ UNCHANGED work
  <2>1. TypeOK'
    BY <1>1, <1>8 DEF IInv, TypeOK, ClientState, Idle
  <2> QED
    BY <1>1, <1>8, <2>1, ClientSteps, ClientQuits
<1> QED
  BY <1>5, <1>6, <1>7, <1>8 DEF Recover, Becomes, Quits

(* The answer for a resumed run becomes part of the copy.                  *)
LEMMA RecoveredInv == ASSUME IInv, Recovered PROVE IInv'
<1>1. /\ client.pc \in {"replanned", "reapplied"} /\ client \in ClientState
      /\ UNCHANGED <<cand, runs, work, mode, switches, errors>>
      /\ \/ client' = Idle
         \/ client' = [pc |-> "recover", mode |-> client.mode,
                       h |-> [client.h EXCEPT ![client.run] = runs[client.run]]]
  BY DEF Recovered, Answered, Becomes, Quits, IInv, TypeOK
<1>2. Kept /\ InOrder'
  BY <1>1, ClientSteps
<1>3. CASE client' = Idle
  <2>1. TypeOK'
    BY <1>1, <1>3 DEF IInv, TypeOK, ClientState, Idle
  <2> QED
    BY <1>2, <1>3, <2>1, ClientQuits
<1>4. CASE client' # Idle
  <2> PICK h, r, g : h = client.h /\ r = client.run /\ g = [h EXCEPT ![r] = runs[r]]
    OBVIOUS
  <2>1. /\ h \in Seq(Run) /\ client.mode \in Modes
        /\ Follows(h) /\ r \in DOMAIN runs /\ DOMAIN h = DOMAIN runs
    BY <1>1, ClientShape, CopyShape DEF IInv, CopyHolds, RunHolds, WithCopy, WithRun
  <2>2. r \in 1 .. Len(h) /\ runs[r] \in Run /\ DOMAIN runs = 1 .. Len(h)
    BY <2>1, HistoryShape, RunShape DEF IInv
  <2>3. /\ g \in Seq(Run) /\ Len(g) = Len(h)
        /\ \A q \in 1 .. Len(h) : g[q] = IF q = r THEN runs[r] ELSE h[q]
    BY <2>1, <2>2, ExceptSeq
  <2>4. Follows(g)
    BY <2>1, <2>2, <2>3 DEF Follows
  <2>5. client' = [pc |-> "recover", mode |-> client.mode, h |-> g]
    BY <1>1, <1>4
  <2>6. TypeOK'
    BY <1>1, <2>1, <2>3, <2>5 DEF IInv, TypeOK, ClientState
  <2>7. Follows(g)'
    BY <1>2, <2>4, <2>6, CursorKept
  <2>8. CopyHolds' /\ NewHolds' /\ RunHolds'
    BY <2>5, <2>7 DEF CopyHolds, NewHolds, RunHolds, WithRun
  <2> QED
    BY <1>2, <2>6, <2>8, ClientMoves
<1> QED
  BY <1>3, <1>4

-----------------------------------------------------------------------------
(* A planned run is put to the backend.                                    *)
LEMMA PostsInv ==
  ASSUME IInv, NEW new \in Run, Posts(new), Continues(new), client.mode \in Modes
  PROVE  IInv'
<1>1. /\ client' = [pc |-> "post", mode |-> client.mode, new |-> new]
      /\ UNCHANGED <<cand, runs, work, mode, switches, errors>>
  BY DEF Posts, Becomes
<1>2. TypeOK'
  BY <1>1 DEF IInv, TypeOK, ClientState
<1>3. Kept /\ InOrder'
  BY <1>1, ClientSteps
<1>4. NewHolds'
  <2>1. Continues(new)'
    BY <1>2, <1>3, CursorKept
  <2> QED
    BY <1>1, <2>1 DEF NewHolds
<1> QED
  BY <1>1, <1>2, <1>3, <1>4, ClientMoves DEF CopyHolds, RunHolds, WithCopy, WithRun

(* What a cycle knows that has recovered.                                  *)
LEMMA PackShape ==
  ASSUME IInv, client.pc = "pack"
  PROVE  /\ client.h \in Seq(Run) /\ client.mode \in Modes
         /\ Follows(client.h) /\ InLine(client.h) /\ Applies(client.h) = Applies(runs)
         /\ \A r \in Applies(runs) : /\ runs[r].status = "completed"
                                     /\ client.h[r].to = runs[r].to
         /\ client.h = <<>> <=> runs = <<>>
         /\ runs # <<>> => client.h[Len(client.h)].to = runs[Len(runs)].to
<1> PICK h : h = client.h
  OBVIOUS
<1>1. h \in Seq(Run) /\ client.mode \in Modes
  BY ClientShape DEF IInv, TypeOK
<1>2. Follows(h) /\ \A r \in Applies(h) : h[r].status = "completed"
  BY DEF IInv, CopyHolds, WithCopy
<1>3. /\ InLine(h) /\ Applies(h) = Applies(runs) /\ DOMAIN h = DOMAIN runs
      /\ h = <<>> <=> runs = <<>>
      /\ runs # <<>> => Len(runs) \in DOMAIN runs
      /\ Len(h) = Len(runs)
  BY <1>1, <1>2, CopyShape
<1>4. \A r \in Applies(runs) : runs[r].status = "completed" /\ h[r].to = runs[r].to
  BY <1>2, <1>3 DEF Follows, Applies
<1>5. runs # <<>> => h[Len(h)].to = runs[Len(runs)].to
  BY <1>2, <1>3 DEF Follows
<1> QED
  BY <1>1, <1>2, <1>3, <1>4, <1>5

(* A run over the next window, or up to its upper end, continues the runs.  *)
LEMMA NewContinues ==
  ASSUME IInv, client.pc = "pack", NEW next, next = Continuity(client.h, client.mode), next.ok,
         NEW new \in Run, new.mode = client.mode, new.from = next.from, new.status = "pending",
         InWindow(new), Seen(new.to)
  PROVE  Continues(new)
<1> PICK h : h = client.h
  OBVIOUS
<1>1. /\ h \in Seq(Run) /\ InLine(h) /\ client.mode \in Modes /\ Applies(h) = Applies(runs)
      /\ \A r \in Applies(runs) : runs[r].status = "completed" /\ h[r].to = runs[r].to
      /\ h = <<>> <=> runs = <<>>
      /\ runs # <<>> => h[Len(h)].to = runs[Len(runs)].to
  BY PackShape
<1>2. /\ client.mode = "shadow" => next.from = IF h = <<>> THEN 0 ELSE h[Len(h)].to
      /\ client.mode = "apply" =>
           /\ \A r \in Applies(h) : h[r].to <= next.from
           /\ next.from = 0 \/ \E r \in Applies(h) : h[r].to = next.from
  BY <1>1, NextWindow
<1>3. CASE client.mode = "apply"
  BY <1>1, <1>2, <1>3 DEF Continues
<1>4. CASE client.mode = "shadow"
  BY <1>1, <1>2, <1>4 DEF Continues
<1> QED
  BY <1>1, <1>3, <1>4 DEF Modes

(* The candidates of a window are pending and lie behind its start.        *)
LEMMA WindowShape ==
  ASSUME NEW from, NEW upper
  PROVE  \A c \in Window(from, upper) : c \in Candidates /\ from < c /\ cand[c] = "pending"
BY DEF Window, Pending

(* The window of a cycle is planned.                                       *)
LEMMA PlanWindowInv == ASSUME IInv, PlanWindow PROVE IInv'
<1> PICK next, window : next = Continuity(client.h, client.mode) /\ window = SourcePack(next)
  OBVIOUS
<1>1. client.pc = "pack" /\ window # {}
  BY DEF PlanWindow
<1>2. next.ok /\ window = Window(next.from, next.upper)
  BY <1>1 DEF SourcePack
<1>3. /\ window \subseteq Candidates
      /\ \A c \in window : next.from < c /\ cand[c] = "pending"
  BY <1>2, WindowShape
<1>4. client.h \in Seq(Run) /\ client.mode \in Modes /\ InLine(client.h)
  BY <1>1, PackShape
<1>5. next.from \in 0 .. N
  BY <1>2, <1>4, NextWindow
<1> PICK to : to = Max(window)
  OBVIOUS
<1>6. to \in window /\ (\A c \in window : c <= to) /\ to \in 0 .. N
  <2>1. window \in SUBSET (0 .. N) /\ N \in Nat
    BY <1>3, CurationClientAssumption DEF Candidates
  <2> QED
    BY <1>1, <2>1, MaxOf
<1>7. PICK plan \in [window -> Plans] : Posts(NewRun(next, to, plan))
  BY DEF PlanWindow
<1> PICK new : new = NewRun(next, to, plan)
  OBVIOUS
<1>8. /\ new \in Run /\ new.mode = client.mode /\ new.from = next.from /\ new.to = to
      /\ new.status = "pending" /\ new.plan = plan
  <2>1. plan \in Over(Plans) /\ plan \in Over(Verdicts)
    <3>1. plan \in [window -> Verdicts] /\ DOMAIN plan = window
      BY DEF Verdicts
    <3> QED
      BY <1>3, <3>1, OverShape
  <2> QED
    BY <1>4, <1>5, <1>6, <2>1 DEF NewRun, Run, Status
<1>9. InWindow(new)
  <2>1. DOMAIN new.plan = window
    BY <1>8
  <2>2. next.from < to
    BY <1>3, <1>6
  <2>3. next.from <= to
    BY <1>5, <1>6, <2>2
  <2> QED
    BY <1>3, <1>6, <1>8, <2>1, <2>3 DEF InWindow
<1>10. Seen(new.to)
  BY <1>3, <1>6, <1>8 DEF IInv, InOrder
<1>11. Continues(new)
  BY <1>1, <1>2, <1>8, <1>9, <1>10, NewContinues
<1> QED
  BY <1>4, <1>7, <1>8, <1>11, PostsInv

(* A replay ends with a checkpoint.                                        *)
LEMMA EndReplayInv == ASSUME IInv, EndReplay PROVE IInv'
<1> PICK next, h : next = Continuity(client.h, client.mode) /\ h = client.h
  OBVIOUS
<1>1. /\ client.pc = "pack" /\ next.ok /\ next.upper # None
      /\ Posts(NewRun(next, next.upper, <<>>))
  BY DEF EndReplay
<1>2. h \in Seq(Run) /\ client.mode \in Modes /\ InLine(h) /\ Follows(h)
  BY <1>1, PackShape
<1>3. /\ next.from \in 0 .. N /\ next.upper \in 0 .. N /\ next.from <= next.upper
      /\ \E r \in DOMAIN h : h[r].to = next.upper
  BY <1>1, <1>2, NextWindow
<1> PICK new : new = NewRun(next, next.upper, <<>>)
  OBVIOUS
<1>4. /\ new \in Run /\ new.mode = client.mode /\ new.from = next.from /\ new.to = next.upper
      /\ new.status = "pending" /\ DOMAIN new.plan = {}
  <2>1. DOMAIN <<>> = {} /\ <<>> \in Over(Plans) /\ <<>> \in Over(Verdicts)
    <3>1. <<>> \in Seq(Plans) /\ <<>> \in Seq(Verdicts) /\ DOMAIN <<>> = {}
      OBVIOUS
    <3>2. <<>> = [c \in {} |-> "auto"]
      OBVIOUS
    <3>3. <<>> \in [{} -> Plans] /\ <<>> \in [{} -> Verdicts]
      BY <3>2, Zenon
    <3> QED
      BY <3>1, <3>3, OverShape
  <2> QED
    BY <1>2, <1>3, <2>1 DEF NewRun, Run, Status
<1>5. InWindow(new)
  BY <1>3, <1>4 DEF InWindow
<1>6. Seen(new.to)
  <2>1. PICK r \in DOMAIN h : h[r].to = next.upper
    BY <1>3
  <2>2. r \in DOMAIN runs /\ runs[r].to = new.to
    BY <1>2, <1>4, <2>1, CopyShape DEF Follows
  <2> QED
    BY <2>2 DEF IInv, WindowsSeen
<1>7. Continues(new)
  BY <1>1, <1>4, <1>5, <1>6, NewContinues
<1> QED
  BY <1>1, <1>2, <1>4, <1>7, PostsInv

(* A cycle ends without a run.                                             *)
LEMMA NothingNewInv == ASSUME IInv, NothingNew PROVE IInv'
<1>1. client' = Idle /\ UNCHANGED <<cand, runs, work, mode, switches, errors>>
  BY DEF NothingNew, Quits, Becomes
<1>2. TypeOK'
  BY <1>1 DEF IInv, TypeOK, ClientState, Idle
<1> QED
  BY <1>1, <1>2, ClientSteps, ClientQuits

-----------------------------------------------------------------------------
(* The run is created: the one step that changes where the cursor stands.  *)
LEMMA CreateInv ==
  ASSUME IInv, Post, Accepted(client.new)
  PROVE  IInv'
<1> PICK new, K : new = client.new /\ K = Len(runs)
  OBVIOUS
<1>1. /\ client.pc = "post" /\ runs' = Append(runs, new) /\ work' = Append(work, "create")
      /\ client' = [pc |-> "created", run |-> K + 1]
      /\ UNCHANGED <<cand, mode, switches, errors>>
  BY DEF Post, CreateRun, Becomes
<1>2. new \in Run /\ Continues(new)
  <2>1. client \in [pc : {"post"}, mode : Modes, new : Run]
    BY <1>1, ClientShape DEF IInv, TypeOK
  <2> QED
    BY <1>1, <2>1 DEF IInv, NewHolds
<1>3. /\ runs \in Seq(Run) /\ K \in Nat /\ DOMAIN runs = 1 .. K
      /\ \A r \in DOMAIN runs : /\ runs[r].from \in 0 .. N /\ runs[r].to \in 0 .. N
                                /\ runs[r].mode \in Modes
      /\ new.from \in 0 .. N /\ new.to \in 0 .. N /\ new.mode \in Modes
      /\ N \in Nat
  BY <1>2, HistoryShape, CurationClientAssumption DEF IInv, TypeOK, Run
<1>4. /\ runs' \in Seq(Run) /\ Len(runs') = K + 1 /\ DOMAIN runs' = 1 .. (K + 1)
      /\ runs'[K + 1] = new /\ \A r \in 1 .. K : runs'[r] = runs[r]
  <2>1. Append(runs, new) \in Seq(Run)
    BY <1>2, <1>3, AppendProperties
  <2>2. /\ Len(Append(runs, new)) = Len(runs) + 1
        /\ \A i \in 1 .. Len(runs) : Append(runs, new)[i] = runs[i]
        /\ Append(runs, new)[Len(runs) + 1] = new
    BY <1>2, <1>3, AppendProperties
  <2>3. DOMAIN Append(runs, new) = 1 .. (K + 1)
    BY <2>1, <2>2, HistoryShape
  <2> QED
    BY <1>1, <2>1, <2>2, <2>3
<1>5. TypeOK'
  <2>1. /\ work' \in Seq({"none", "create", "evaluate", "execute"})
        /\ Len(work') = Len(work) + 1
    <3>1. work \in Seq({"none", "create", "evaluate", "execute"})
      BY DEF IInv, TypeOK
    <3> QED
      BY <1>1, <3>1, AppendProperties
  <2>2. client' \in ClientState
    BY <1>1, <1>3 DEF ClientState
  <2> QED
    BY <1>1, <1>4, <2>1, <2>2 DEF IInv, TypeOK
<1>6. /\ \A r \in Applies(runs) : r \in 1 .. K /\ r \in Applies(runs)'
      /\ \A r \in Applies(runs)' : r \in Applies(runs) \/ (r = K + 1 /\ new.mode = "apply")
  <2>1. \A r \in 1 .. (K + 1) : r \in 1 .. K \/ r = K + 1
    BY <1>3
  <2>2. \A r \in 1 .. K : r \in 1 .. (K + 1)
    BY <1>3
  <2> QED
    BY <1>3, <1>4, <2>1, <2>2 DEF Applies
<1>7. InLine(runs)'
  <2>1. \A r \in 1 .. (K + 1) : InWindow(runs'[r])
    <3>1. \A r \in 1 .. K : InWindow(runs[r])
      BY <1>3 DEF IInv, InLine
    <3>2. InWindow(new)
      BY <1>2 DEF Continues
    <3>3. \A r \in 1 .. (K + 1) : r \in 1 .. K \/ r = K + 1
      BY <1>3
    <3> QED
      BY <1>4, <3>1, <3>2, <3>3
  <2>2. ASSUME NEW r \in 1 .. (K + 1), NEW s \in 1 .. (K + 1), r < s,
               \/ runs'[r].mode = "apply" /\ runs'[s].mode = "apply"
               \/ \A t \in (r + 1) .. s : runs'[t].mode = "shadow"
        PROVE  runs'[r].to <= runs'[s].from
    <3>1. r \in 1 .. K /\ runs'[r] = runs[r] /\ r \in DOMAIN runs
      BY <1>3, <1>4, <2>2
    <3>2. CASE s \in 1 .. K
      <4>1. \A t \in (r + 1) .. s : runs'[t] = runs[t]
        <5>1. \A t \in (r + 1) .. s : t \in 1 .. K
          BY <1>3, <3>1, <3>2
        <5> QED
          BY <1>4, <5>1
      <4>2. \/ runs[r].mode = "apply" /\ runs[s].mode = "apply"
            \/ \A t \in (r + 1) .. s : runs[t].mode = "shadow"
        BY <1>4, <2>2, <3>1, <3>2, <4>1
      <4>3. s \in DOMAIN runs
        BY <1>3, <3>2
      <4>4. runs[r].to <= runs[s].from
        BY <2>2, <3>1, <4>2, <4>3 DEF IInv, InLine
      <4> QED
        BY <1>4, <3>1, <3>2, <4>4
    <3>3. CASE s = K + 1 /\ runs[r].mode = "apply" /\ new.mode = "apply"
      <4>1. r \in Applies(runs)
        BY <3>1, <3>3 DEF Applies
      <4> QED
        BY <1>2, <1>4, <3>1, <3>3, <4>1 DEF Continues
    <3>4. CASE s = K + 1 /\ \A t \in (r + 1) .. s : runs'[t].mode = "shadow"
      <4>1. new.mode = "shadow"
        BY <1>3, <1>4, <2>2, <3>4
      <4>2. runs # <<>> /\ K \in DOMAIN runs /\ new.from = runs[K].to
        BY <1>2, <1>3, <3>1, <4>1, EmptySeq DEF Continues
      <4>3. CASE r = K
        BY <1>3, <1>4, <3>1, <3>4, <4>2, <4>3
      <4>4. CASE r # K
        <5>1. \A t \in (r + 1) .. K : runs[t].mode = "shadow"
          BY <1>3, <1>4, <3>1, <3>4
        <5>2. r < K
          BY <1>3, <3>1, <4>4
        <5>3. runs[r].to <= runs[K].from
          BY <3>1, <4>2, <5>1, <5>2 DEF IInv, InLine
        <5>4. runs[K].from <= runs[K].to
          BY <4>2 DEF IInv, InLine, InWindow
        <5>5. runs[r].to <= runs[K].to
          BY <1>3, <3>1, <4>2, <5>3, <5>4
        <5> QED
          BY <1>4, <3>1, <3>4, <4>2, <5>5
      <4> QED
        BY <4>3, <4>4
    <3> QED
      BY <1>3, <1>4, <2>2, <3>1, <3>2, <3>3, <3>4
  <2>3. runs'[1].from = 0
    <3>1. CASE runs = <<>>
      <4>1. K = 0 /\ DOMAIN runs = {}
        BY <1>3, <3>1, EmptySeq
      <4>2. Applies(runs) = {}
        BY <4>1 DEF Applies
      <4>3. new.from = 0
        BY <1>2, <1>3, <3>1, <4>2 DEF Continues, Modes
      <4> QED
        BY <1>4, <4>1, <4>3
    <3>2. CASE runs # <<>>
      <4>1. 1 \in 1 .. K
        BY <1>3, <3>2, EmptySeq
      <4> QED
        BY <1>4, <3>2, <4>1 DEF IInv, InLine
    <3> QED
      BY <3>1, <3>2
  <2> QED
    BY <1>4, <2>1, <2>2, <2>3 DEF InLine
<1>8. WindowsSeen' /\ InOrder'
  <2>1. \A to : Seen(to) => Seen(to)'
    BY <1>1 DEF Seen
  <2>2. \A r \in 1 .. (K + 1) : Seen(runs'[r].to)
    <3>1. \A r \in 1 .. K : Seen(runs[r].to)
      BY <1>3 DEF IInv, WindowsSeen
    <3>2. Seen(new.to)
      BY <1>2 DEF Continues
    <3>3. \A r \in 1 .. (K + 1) : r \in 1 .. K \/ r = K + 1
      BY <1>3
    <3> QED
      BY <1>4, <3>1, <3>2, <3>3
  <2>3. InOrder'
    BY <1>1 DEF IInv, InOrder, Seen
  <2>4. WindowsSeen'
    BY <1>1, <1>4, <2>2 DEF WindowsSeen, Seen
  <2> QED
    BY <2>3, <2>4
<1>9. NothingSkipped'
  <2>1. ASSUME NEW r \in Applies(runs), NEW c \in Candidates, cand[c] = "pending",
               c <= runs[r].to
        PROVE  \E s \in Applies(runs)' : c \in DOMAIN runs'[s].plan
    <3>1. PICK s \in Applies(runs) : c \in DOMAIN runs[s].plan
      BY <2>1 DEF IInv, NothingSkipped
    <3> QED
      BY <1>4, <1>6, <3>1
  <2>2. ASSUME new.mode = "apply", NEW c \in Candidates, cand[c] = "pending", c <= new.to,
               K + 1 \in Applies(runs)'
        PROVE  \E s \in Applies(runs)' : c \in DOMAIN runs'[s].plan
    <3>1. CASE new.from < c
      <4>1. c \in DOMAIN new.plan
        BY <2>2, <3>1 DEF Accepted, WindowMatches, Pending
      <4> QED
        BY <1>4, <2>2, <4>1
    <3>2. CASE ~(new.from < c)
      <4>1. c \in Nat /\ c # 0 /\ c <= new.from
        BY <1>3, <3>2 DEF Candidates
      <4>2. PICK r \in Applies(runs) : runs[r].to = new.from
        BY <1>2, <1>3, <2>2, <4>1 DEF Continues
      <4> QED
        BY <2>1, <2>2, <4>1, <4>2
    <3> QED
      BY <3>1, <3>2
  <2> SUFFICES ASSUME NEW r \in Applies(runs)', NEW c \in Candidates, cand[c] = "pending",
                      c <= runs'[r].to
               PROVE  \E s \in Applies(runs)' : c \in DOMAIN runs'[s].plan
    BY <1>1 DEF NothingSkipped
  <2> QED
    BY <1>4, <1>6, <2>1, <2>2
<1>10. NeverWedged'
  <2> SUFFICES ASSUME NEW r \in Applies(runs)', NEW s \in Applies(runs)',
                      runs'[r].status # "completed"
               PROVE  s <= r
    BY DEF NeverWedged
  <2>1. CASE r \in Applies(runs) /\ s \in Applies(runs)
    BY <1>4, <1>6, <2>1 DEF IInv, NeverWedged
  <2>2. CASE r \in Applies(runs) /\ s \notin Applies(runs)
    BY <1>2, <1>4, <1>6, <2>2 DEF Continues
  <2>3. CASE r = K + 1
    BY <1>3, <1>6, <2>3
  <2> QED
    BY <1>6, <2>1, <2>2, <2>3
<1>11. CopyHolds' /\ NewHolds' /\ RunHolds'
  <2>1. K + 1 \in DOMAIN runs'
    BY <1>3, <1>4
  <2> QED
    BY <1>1, <2>1 DEF CopyHolds, NewHolds, RunHolds, WithCopy
<1> QED
  BY <1>5, <1>7, <1>8, <1>9, <1>10, <1>11 DEF IInv

(* The backend accepts the run, or refuses it and the cycle ends.          *)
LEMMA PostInv == ASSUME IInv, Post PROVE IInv'
<1>1. CASE Accepted(client.new)
  BY <1>1, CreateInv
<1>2. CASE ~Accepted(client.new)
  <2>1. client' = Idle /\ UNCHANGED <<cand, runs, work, mode, switches, errors>>
    BY <1>2 DEF Post, Quits, Becomes
  <2>2. TypeOK'
    BY <2>1 DEF IInv, TypeOK, ClientState, Idle
  <2> QED
    BY <2>1, <2>2, ClientSteps, ClientQuits
<1> QED
  BY <1>1, <1>2

-----------------------------------------------------------------------------
(* The created run is executed, or the cycle ends.                         *)
LEMMA CreatedInv == ASSUME IInv, Created PROVE IInv'
<1> PICK r : r = client.run
  OBVIOUS
<1>1. /\ client.pc = "created" /\ r \in DOMAIN runs
      /\ UNCHANGED <<cand, runs, mode, switches, errors>>
  BY DEF Created, Answered, IInv, RunHolds, WithRun
<1>2. Kept /\ InOrder'
  BY <1>1, ClientSteps
<1>3. CASE client' = Idle /\ UNCHANGED work
  <2>1. TypeOK'
    BY <1>1, <1>3 DEF IInv, TypeOK, ClientState, Idle
  <2> QED
    BY <1>2, <1>3, <2>1, ClientQuits
<1>4. CASE client' = [pc |-> "executed", run |-> r] /\ work' = [work EXCEPT ![r] = "execute"]
  <2>1. TypeOK'
    <3>1. r \in Nat
      BY <1>1, RunShape DEF IInv
    <3>2. client' \in ClientState
      BY <1>4, <3>1 DEF ClientState
    <3>3. "execute" \in {"none", "create", "evaluate", "execute"}
      OBVIOUS
    <3> QED
      BY <1>1, <1>4, <3>2, <3>3, WorkMoves DEF IInv, TypeOK
  <2>2. CopyHolds' /\ NewHolds' /\ RunHolds'
    BY <1>1, <1>4 DEF CopyHolds, NewHolds, RunHolds, WithCopy
  <2> QED
    BY <1>2, <2>1, <2>2, ClientMoves
<1> QED
  BY <1>3, <1>4 DEF Created, Becomes, Quits

(* What is left is tried once more.                                        *)
LEMMA ExecutedInv == ASSUME IInv, Executed PROVE IInv'
<1> PICK r, next : r = client.run /\ next = [client EXCEPT !.pc = "resumed"]
  OBVIOUS
<1>1. /\ client.pc = "executed" /\ r \in DOMAIN runs
      /\ UNCHANGED <<cand, runs, mode, switches, errors>>
      /\ client \in [pc : {"created", "executed", "resumed"}, run : Nat]
  BY ClientShape DEF Executed, Answered, IInv, TypeOK, RunHolds, WithRun
<1>2. next \in ClientState /\ next.pc = "resumed" /\ next.run = r
  <2>1. next \in [pc : {"created", "executed", "resumed"}, run : Nat]
    BY <1>1
  <2> QED
    BY <1>1, <2>1 DEF ClientState
<1>3. CASE Resume(r, next)
  BY <1>1, <1>2, <1>3, ResumeInv DEF WithCopy
<1>4. CASE client' = Idle /\ UNCHANGED work
  <2>1. TypeOK'
    BY <1>1, <1>4 DEF IInv, TypeOK, ClientState, Idle
  <2> QED
    BY <1>1, <1>4, <2>1, ClientSteps, ClientQuits
<1> QED
  BY <1>3, <1>4 DEF Executed, Becomes, Quits

(* The second try was the last.                                            *)
LEMMA ResumedInv == ASSUME IInv, Resumed PROVE IInv'
<1>1. client' = Idle /\ UNCHANGED <<cand, runs, work, mode, switches, errors>>
  BY DEF Resumed, Quits, Becomes
<1>2. TypeOK'
  BY <1>1 DEF IInv, TypeOK, ClientState, Idle
<1> QED
  BY <1>1, <1>2, ClientSteps, ClientQuits

(* The cycle ends, or the backend stops working on a run.                  *)
LEMMA FaultInv == ASSUME IInv, Fault PROVE IInv'
<1>1. UNCHANGED <<cand, runs, mode, switches>> /\ errors' = errors + 1
  BY DEF Fault
<1>2. Kept /\ InOrder'
  BY <1>1, ClientSteps
<1>3. CASE client' = Idle /\ UNCHANGED work
  <2>1. TypeOK'
    BY <1>1, <1>3 DEF IInv, TypeOK, ClientState, Idle
  <2> QED
    BY <1>2, <1>3, <2>1, ClientQuits
<1>4. ASSUME NEW r \in DOMAIN runs, work' = [work EXCEPT ![r] = "none"], UNCHANGED client
      PROVE  IInv'
  <2>1. TypeOK'
    <3>1. "none" \in {"none", "create", "evaluate", "execute"}
      OBVIOUS
    <3> QED
      BY <1>1, <1>4, <3>1, WorkMoves DEF IInv, TypeOK
  <2> QED
    BY <1>2, <1>4, <2>1, ClientStands
<1> QED
  BY <1>3, <1>4 DEF Fault, Quits, Becomes

(* A candidate appears.                                                    *)
LEMMA AppearInv == ASSUME IInv, Appear PROVE IInv'
<1>1. PICK c \in Candidates : /\ cand[c] = "absent" /\ \A b \in 1 .. (c - 1) : cand[b] # "absent"
                              /\ cand' = [cand EXCEPT ![c] = "pending"]
  BY DEF Appear
<1>2. UNCHANGED <<runs, work, mode, client, switches, errors>>
  BY DEF Appear
<1>3. /\ cand' \in [Candidates -> {"absent", "pending", "done", "reviewed"}]
      /\ \A b \in Candidates : cand'[b] = IF b = c THEN "pending" ELSE cand[b]
  BY <1>1 DEF IInv, TypeOK
<1>4. TypeOK'
  BY <1>2, <1>3 DEF IInv, TypeOK
<1>5. Kept
  BY <1>1, <1>2, <1>3 DEF Kept
<1>6. InOrder'
  <2>1. \A to \in Candidates : Seen(to) => Seen(to)'
    BY <1>3 DEF Seen
  <2>2. Seen(c)'
    <3>1. \A b \in Candidates : b <= c => b = c \/ b \in 1 .. (c - 1)
      BY CurationClientAssumption DEF Candidates
    <3> QED
      BY <1>1, <1>3, <3>1 DEF Seen
  <2>3. ASSUME NEW b \in Candidates, cand'[b] # "absent" PROVE Seen(b)'
    <3>1. CASE b = c
      BY <2>2, <3>1
    <3>2. CASE b # c
      BY <1>3, <2>1, <2>3, <3>2 DEF IInv, InOrder
    <3> QED
      BY <3>1, <3>2
  <2> QED
    BY <2>3 DEF InOrder
<1> QED
  BY <1>2, <1>4, <1>5, <1>6, ClientStands

(* A reviewer resolves a candidate.                                        *)
LEMMA ReviewInv == ASSUME IInv, Review PROVE IInv'
<1>1. PICK c \in Candidates : cand[c] = "pending" /\ cand' = [cand EXCEPT ![c] = "reviewed"]
  BY CurationClientAssumption DEF Review, Candidates
<1>2. UNCHANGED <<runs, work, mode, client, switches, errors>>
  BY DEF Review
<1>3. /\ InOrder'
      /\ cand' \in [Candidates -> {"absent", "pending", "done", "reviewed"}]
      /\ \A b \in Candidates : cand[b] # "absent" =>
           cand'[b] # "absent" /\ (cand'[b] = "pending" => cand[b] = "pending")
  BY <1>1, Resolved DEF IInv
<1>4. TypeOK'
  BY <1>2, <1>3 DEF IInv, TypeOK
<1>5. Kept
  BY <1>2, <1>3 DEF Kept
<1> QED
  BY <1>2, <1>3, <1>4, <1>5, ClientStands

(* The operator changes the mode.                                          *)
LEMMA SwitchInv == ASSUME IInv, Switch PROVE IInv'
<1>1. UNCHANGED <<cand, runs, work, client, errors>>
  BY DEF Switch
<1>2. TypeOK'
  BY <1>1 DEF Switch, IInv, TypeOK, Modes
<1> QED
  BY <1>1, <1>2, ClientSteps, ClientStands

-----------------------------------------------------------------------------
(* Every step keeps the invariant.                                         *)
LEMMA StepInv == IInv /\ [Next]_vars => IInv'
<1> SUFFICES ASSUME IInv, [Next]_vars PROVE IInv'
  OBVIOUS
<1>1. CASE Begin
  BY <1>1, BeginInv
<1>2. CASE Cycle
  BY <1>2, RecoverInv, RecoveredInv, PlanWindowInv, EndReplayInv, NothingNewInv, PostInv,
     CreatedInv, ExecutedInv, ResumedInv DEF Cycle
<1>3. CASE Backend
  BY <1>3, EvaluateInv, StartExecutionInv, ExecuteInv, FinishExecutionInv DEF Backend
<1>4. CASE Fault
  BY <1>4, FaultInv
<1>5. CASE Appear
  BY <1>5, AppearInv
<1>6. CASE Review
  BY <1>6, ReviewInv
<1>7. CASE Switch
  BY <1>7, SwitchInv
<1>8. CASE UNCHANGED vars
  <2>1. UNCHANGED <<cand, runs, work, mode, client, switches, errors>>
    BY <1>8 DEF vars
  <2>2. TypeOK'
    BY <2>1 DEF IInv, TypeOK
  <2> QED
    BY <2>1, <2>2, ClientSteps, ClientStands
<1> QED
  BY <1>1, <1>2, <1>3, <1>4, <1>5, <1>6, <1>7, <1>8 DEF Next

(* The cursor of the curation client: where apply runs begin and end, what *)
(* a cycle that is running knows of it, and what a run that is about to be *)
(* created continues, whatever crashes, changes of the mode, reviews and   *)
(* lost answers come between.                                              *)
THEOREM CursorInvariant == Spec => []IInv
<1>1. Init => IInv
  BY InitInv
<1>2. IInv /\ [Next]_vars => IInv'
  BY StepInv
<1> QED
  BY <1>1, <1>2, PTL DEF Spec

(* Every variable has its type: a run, a cycle that has read the runs, a   *)
(* cycle that waits for one of them.                                       *)
THEOREM CurationTypeCorrect == Spec => []TypeOK
<1>1. IInv => TypeOK
  BY DEF IInv
<1> QED
  BY <1>1, CursorInvariant, PTL

(* The cursor never passes over a candidate: what is pending before the    *)
(* end of an apply run is in the plan of an apply run. The next window     *)
(* begins at the end of an earlier apply run, and the backend accepts a    *)
(* plan only for all that is pending in its window.                        *)
THEOREM NothingIsSkipped == Spec => []NothingSkipped
<1>1. IInv => NothingSkipped
  BY DEF IInv
<1> QED
  BY <1>1, CursorInvariant, PTL

(* No candidate is decided for execution a second time: the windows of two *)
(* apply runs do not overlap, replays of shadow runs included.             *)
THEOREM NothingIsDecidedTwice == Spec => []DecidedOnce
<1>1. IInv => DecidedOnce
  <2> SUFFICES ASSUME IInv, NEW r \in Applies(runs), NEW s \in Applies(runs),
                      NEW c \in DOMAIN runs[r].plan \cap DOMAIN runs[s].plan
               PROVE  r = s
    BY DEF DecidedOnce
  <2>1. /\ r \in DOMAIN runs /\ s \in DOMAIN runs
        /\ runs[r].mode = "apply" /\ runs[s].mode = "apply"
    BY DEF Applies
  <2>2. /\ runs[r].from < c /\ c <= runs[r].to /\ runs[s].from < c /\ c <= runs[s].to
    BY <2>1 DEF IInv, InLine, InWindow
  <2>3. /\ r < s => runs[r].to <= runs[s].from
        /\ s < r => runs[s].to <= runs[r].from
    BY <2>1 DEF IInv, InLine
  <2>4. /\ runs[r].to \in Int /\ runs[s].to \in Int /\ runs[r].from \in Int /\ runs[s].from \in Int
        /\ r \in Nat /\ s \in Nat
    BY <2>1, HistoryShape, RunShape DEF IInv, TypeOK
  <2>5. c \in Int
    BY <2>1, RunShape DEF IInv, Candidates
  <2> QED
    BY <2>2, <2>3, <2>4, <2>5
<1> QED
  BY <1>1, CursorInvariant, PTL

(* The client never brings about a history it refuses to recover: only the *)
(* newest apply run can be unfinished, since a new one is posted after all *)
(* earlier ones were completed.                                            *)
THEOREM RecoveryIsNeverWedged == Spec => []NeverWedged
<1>1. IInv => NeverWedged
  BY DEF IInv
<1> QED
  BY <1>1, CursorInvariant, PTL

=============================================================================
