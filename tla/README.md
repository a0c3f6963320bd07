# Kinlayer: specifications, model checking and proofs

Kinlayer keeps what a person's assistant knows about other people: entities,
facts, edges and observations in Postgres, behind a FastAPI backend
(`backend/src/kinlayer_backend`), and a plugin for the Hermes agent
(`integrations/hermes/personal-context-router`) that reads context before a
conversation turn and writes memories after it. This directory holds TLA+
specifications translated from that code, TLC configurations that check them on
small instances, and TLAPS proofs of the properties that matter most.

Run a model with `tlc -workers 2 -config X.cfg M`, a proof with
`tlapm M_proofs.tla`. `PROJECT.json` lists every run, its properties, the
theorems, the lines of code behind each definition, and for each property a
faulty variant of a definition (named `X_Something` and marked *Faulty*) that
violates it.

## 1. Inventory

### Backend

| Component | State | Operations | What is hard | Makes it correct |
|---|---|---|---|---|
| Memory writes (`services/memories.py`) | `entity_facts`, `entity_edges`, `observations`, `memory_changes` | create, correct, retract, reattribute | the same request sent twice at once; two writers of one record; one axis, two assessments | a request is applied once; revisions form a chain; one current assessment per person and axis; receipts tell the truth |
| Compatibility CRUD (`services/entities.py`, `relationships.py`) | the same tables, `entities`, `entity_aliases` | create, patch, delete, promote | competes with memory writes on the same rows | never touches a revision the memory API keeps; writes only about active entities |
| Entity guards and relationship profiles | none (row locks) | `lock_active_entities`, `require_memory_change_for_tracked_record`, `validate_assessment_write` | lock order, check-then-act | what was checked is still true at commit; no circular waits |
| Candidate review (`services/candidates.py`) | `candidates`, the canonical tables, `entity_merges` | submit, patch, accept, edit-accept, reject, archive, clarify, supersede | requests act on copies loaded earlier without a lock | one canonical record per candidate; accepts decide on the current row |
| Curation (`services/curation.py`) | `curation_runs`, `curation_decisions` | create, evaluate, execute, resume, read back | several workers on one run, crashes, lost acknowledgements of commits, stale copies | a decision is carried out once, only on what was reviewed, and never repeats what is known |
| Reconciliation (`services/reconciliation.py`) | `reconciliation_actions` | apply, read back | retries by `resolution_id`, stale snapshots, verification after the commit | one action per resolution; nothing changes when a snapshot is old |
| Enrichment (`services/enrichment.py`) | `enrichment_authorizations`, `enrichment_answer_actions` | stage, answer, get | expiry racing an answer, partial answers, two authorizations for one gap | an answer is applied once, only while authorized, and only into a gap |
| Material import, migration | import rows, receipts | run | idempotency key under concurrency | each claim once, with provenance |
| Embeddings | `observations.embedding*` | embed, backfill | a slow provider call between read and write | an embedding belongs to the content it is stored with |
| Reads: context, retrieval, graph, people, exports | none | queries | none (no state) | selection and ranking rules |
| Ontology, structured facts, write filter | static tables | validation | none (pure) | shape rules |

Components interact through the tables. Candidate acceptance, curation,
reconciliation, enrichment and imports all write canonical records; every writer
takes the same entity locks. There is no message bus and no background job in
the backend: each request runs in its own worker and database session
(READ COMMITTED, `autoflush` and `expire_on_commit` off), so concurrency is
between transactions.

### Hermes router

| Component | State | Operations | What is hard | Makes it correct |
|---|---|---|---|---|
| Post-turn queue (`router/hooks.py`) | bounded queue, key sets, one daemon thread | offer, run, flush, shutdown | threads, duplicate offers, full queue, shutdown timeouts | a turn runs once at a time and is persisted once; shutdown drains |
| Memory submission (`router/post_turn.py`, `identity.py`, `markdown_writer.py`) | journal of extractions, requests and outcomes (SQLite), evidence ledger, curated pages, identity frames in memory | extract, resolve, prepare, send, record, append | crash between journal and reply, several processes, stale identity | a claim takes effect once or never; a report is true; the person is the one the agent decided on |
| Curation client (`router/curation.py`) | none: the backend's list of runs is its cursor | one cycle: recover, plan, create, execute, resume | lost answers, half-finished runs, changes of mode, replays | no candidate skipped or decided twice; the backlog is worked off |
| Reconciliation client (`router/reconciliation.py`) | one JSON file under a file lock | prepare, stage, submit, dispatch, recover, complete, cancel, reissue, apply | commands overlap, every call may be lost, records change under a question | one open question; nothing shown after it was closed; receipts kept until verified |
| Enrichment client (`router/enrichment.py`) | one JSON file under a file lock, leases of appliers | stage, submit, dispatch, recover, complete, cancel, apply, expire | leases lapse, late answers of stale appliers, lost calls | one open question; one reply is one answer; outcomes are true |
| Attention (`router/attention.py`) | none here: the broker's intents and the bridge's conversations | submit, claim, begin, complete, release, cancel; stage, deliver, cancel | commands of another program, any of which may be lost | agreement with the files of the two clients |
| Cultural, read planning, dimensions, excerpts | caches | text heuristics, HTTP reads | none that is concurrent | pure rules |

The router calls the backend over HTTP with timeouts and retries; the backend
never calls the router. The web frontends keep no state of their own.

## 2. Modules

| Module | Models | Uses |
|---|---|---|
| `MemoryRecords` | the record tables, what both APIs require of a write and what a write does to the tables | |
| `MemoryLedger` | abstract specification: every accepted write happens alone and at once | `MemoryRecords` |
| `MemoryWrites` | the handlers with transactions, locks, retries, rollbacks and lost replies | implements `MemoryLedger` |
| `CandidateReview` | the review queue: unlocked loads, locked accepts, canonical writes, merges | |
| `FactPromotion` | `MemoryLedger` composed with `promote_fact` | `MemoryLedger` |
| `CurationExecution` | one curation run, its workers, and reviewers and writers beside it | |
| `ReconciliationLedger` | applying, retrying and reading back a user's answers, with other requests beside it | |
| `EnrichmentLedger` | authorizations, answers to their slots, expiry and readback, with other writers beside it | |
| `PostTurnQueue` | the router's queue, worker, synchronous callers and shutdown | |
| `AtMostOnce` | abstract specification: a piece of work has its effect once, or is given up and never has it | |
| `PostTurnMemory` | a finished turn in several router processes: identity, journal, requests, receipts, pages | implements `AtMostOnce` |
| `CurationClient` | the nightly client together with the backend's runs: cursor, recovery, replay | |
| `AttentionRoute` | the attention broker and the conversation bridge as the two clients use them | |
| `ReconciliationClient` | the client's file and commands over broker, bridge and the reconciliation API | `AttentionRoute` |
| `EnrichmentClient` | the same of the enrichment client, with its appliers' leases | `AttentionRoute` |
| `MC…` | constants of the TLC runs | |
| `…_proofs` | theorems and proofs | |

Each module says at its top what it abstracts. Data is reduced to what guards
read: a record is its kind, target, axis, status and revision; a payload of a
candidate its kind and entities; a decision's payload its fingerprint; a turn
its key.

### How the models correspond to the code

*Memory writes.* One `Session` runs one handler at a time. The program counter
names the next locking statement: `reserve` (the flush of the `MemoryChange` row,
which waits for an uncommitted row with the same `request_id`), `lock_old`
(`_lock_old` or `require_memory_change_for_tracked_record`), `lock_entities`
(`lock_active_entities`, one row at a time in order of id), then `commit`.
Uncommitted rows are invisible to the others, so a session carries only what it
holds, and the tables change in one step at `Commit`. Any step may be followed by
`Abort`; `Commit` may lose its reply; any client may send any body under any
identifier at any time. The partial unique index on current assessments is not
modelled as a guard: `AxisSlotExclusive` shows that it never has to refuse.

*Candidates.* `Load` is `_candidate_or_404`. Accepting locks and rereads the row
(`populate_existing`); the other resolutions do not, and their UPDATE, written as
SQLAlchemy writes it, changes only columns that differ from the loaded copy. The
unique indexes on `source_candidate_id` and `entity_merges.candidate_id` are the
guard `SourceIndexAllows`.

*Curation.* A worker's `seen`, `seenRun` and `row` are the copies its sessions
hold. Every lock statement, the checks under the locks, the commit, and the
read-back in a fresh session are steps of their own; a commit may succeed while
the worker is told it failed. All candidates of the modelled run are observations
about one person.

*Reconciliation.* The program counter names the statement a request does next:
the insert of its ledger row (`insert`), the two lock statements, each with the
snapshot check that follows it, `execute` (all that is flushed but not yet
visible), `commit`, and the two halves of the fresh session, `readback` and
`record`. A row's `version` stands for its `updated_at` and digests. A signed body
carries the versions the user saw; any signed body may be sent at any time, as
often as one likes. `OutcomeHolds` is the readback's list of demands, kept apart
from `Commit`, which is what the action writes: that the two agree is a property.
`Reviewed` are the people that a candidate outside the model created.

*Enrichment ledger.* A request's program counter names its next statement:
`insert` of a staged row, `lock` of the authorization, `check` before and `person`
after the lock of the person, `commit`, and the two halves of the readback. The
authorization is read as it is when its lock is granted. `Awaited` and `Filled`
are the two halves of `_require_gaps`; `Expire` only lets the time pass, and the
request that notices writes the status.

*Queue.* Each block under `_worker_lock` is one step, as are `queue.get`,
`task_done`, the start of persistence and each stage of `shutdown`.

*Post-turn memory.* `journal` is what survives a crash (`extractions`, `requests`,
`outcomes`), `frame` and `run` are what does not. The journal's file lock makes the
loop over claims of one process exclusive, and the program counter names its
steps: take a claim, resolve, prepare and store the body, send, record the receipt,
verify. A request whose answer did not come is still in the backend and may be
applied at any later step, also after the process has crashed. The curated page is
read and replaced in two steps, so that two processes may interleave; the evidence
ledger is written before it.

*Curation client.* `runs` is the backend's table, and the client's only memory. A
cycle reads it once and acts on that copy, as the code does; `work` is a request
the backend still carries out after its client gave up. A window is the pair of
its ends. `Continuity` is `_continuity` with the lineage of shadow runs.

*The two clients of the attention route.* A section under the file lock is one
step and a call is one step, which has its effect or not, and whose answer comes or
not (`answered`). `AttentionRoute` is not the code of this repository: the broker
and the bridge are separate programs, modelled by the commands the router sends
and the answers it accepts. A command carries along what it has read (`lease`,
`seen`), so that later sections act on old copies exactly where the code does.
`blind` is an auxiliary field: it marks a question that was cancelled by a command
which had read no intent.

## 3. Runs

| Run | Bounds | Shows |
|---|---|---|
| `memory_assess` | 2 workers, 2 requests, 2 people, 1 existing and 2 new rows | one assessment per axis, truthful receipts, every started request ends |
| `memory_edges` | 2 workers, 2 requests, 2 existing and 2 new rows, with compatibility writes on one edge | linear history, frozen revisions, writes about active entities only, refinement of `MemoryLedger`, no circular wait for a record and two people named in either order |
| `candidate_review` | 2 candidates, 2 reviewers, 2 people; accept, edit, reject, clarify | one record per candidate, an accepted candidate has its record, no circular wait |
| `curation_execution` | 2 workers, 2 candidates, one decision of each action, one interfering change | one record per decision, executes what was reviewed, no repeated content |
| `reconciliation` | 2 workers, 2 resolution ids, 2 signed answers out of 7 (one of each action, all about the same 3 candidates and 2 people), one change by another request | applied once, answered truthfully, exact snapshots, archives only people without context |
| `reconciliation_context` | 1 resolution id, a merge with claims | the disagreement described below |
| `enrichment_ledger` | 2 workers, 2 authorizations sharing one of 2 slots, 3 resolutions with 5 bodies, one change by others | an authorization's slots say what was answered, answers only fill gaps |
| `post_turn_queue` | capacity 1, recent limit 1, 2 keys and unkeyed turns, 4 turns, 2 stoppers | no duplicate work, persisted once, shutdown drains, admitted turns end |
| `post_turn_memory` | 2 processes, 1 turn offered twice, 2 claims, 2 people, 1 crash, 1 change by another writer | refinement of `AtMostOnce`, truthful reports, the person as decided, pages kept |
| `curation_client` | 3 candidates, windows of 2, 2 changes of mode, 1 error | nothing skipped, decided once, never wedged, the backlog is worked off |
| `reconciliation_client` | 2 questions, 2 items of one run, 1 command of each kind, 1 lease | the file agrees with broker, bridge and backend, the cursor leaves nothing, one open question, nothing shown after it was closed, receipts kept |
| `enrichment_client` | 2 plans of which 1 is followed to its end, 1 stager, dispatcher and canceller, 2 appliers, 2 readings of the reply | one open question, one answer each, true outcomes |

One run expects a violation. `reconciliation_context`: a merge whose answer also
carries context claims commits, but its readback requires exactly one derived
candidate, and the claims have added theirs: no retry can ever verify it. The
readback of an observation group has the same flaw with its outcome references.
The request schema and the router allow claims on both. The `reconciliation` run
therefore asks these two actions without claims (against
`docs/specs/acceptance-scenarios.md`, scenario M).

### Further configurations

These are kept beside the runs. TLC finds the named property violated in each,
and each trace is a disagreement between the code and what its documents or
comments say, or a history a maintainer would want to know of.

| Configuration | Property | What the trace shows |
|---|---|---|
| `MCCandidateReview_reject` | `RejectedContributesNothing` | a reject whose copy of the candidate is old turns an accepted candidate into a rejected one and leaves its canonical record in place (`services/candidates.py:347`; against `docs/specs/candidate-lifecycle-and-payload.md:99`) |
| `MCFactPromotion` | `HistoryFrozen` | `promote_fact` supersedes a fact that the memory API tracks, without a memory change (`services/entities.py:212`; against the docstring in `services/entity_guards.py:34`) |
| `MCReconciliationLedger_archive` | `ArchivesOnlyReviewed` | a candidate that was mapped to an existing person counts as that person's origin, so a person that review did not create can be archived (`services/reconciliation.py:697`; against `docs/specs/api-spec.md:1671`) |
| `MCCurationExecution_resume` | `RunStaysResumable` | an evaluation with an old copy of the run sets an executed run back to `planning`; neither evaluation nor execution accepts it from there (`services/curation.py:477`; against `docs/plans/relationship-curation-cycle.md:233`) |
| `MCEnrichmentLedger_skip` | `VerifiedStays` | a slot that was skipped is answered later; from then on the verified skip reads back as unverified (`services/enrichment.py:331`) |
| `MCReconciliationClient_retry` | `AmbiguityIsReadOnly` | a POST is lost with its effect, the proof of the retry fails, the question is open again, and another submission is accepted (`reconciliation.py:2408`; against `docs/reconciliation-channel-contract.md`) |
| `MCReconciliationClient_cut` | `CursorLeavesNothing` | a preparation finds more anomalies than `hard_question_limit * 4` (at least 4), the list is cut, and the audit of a run is made from what was listed: a run whose anomalies were all cut off counts as reviewed, the cursor passes it, and what it wrote is read again only as long as the source pack lists it as recent (`reconciliation.py:1224`, `:1048`; against `docs/plans/relationship-reconciliation-cycle.md:341`, "carry the rest to the next run"). The proof of `CursorLeavesNothing`, which needs the hypothesis `Uncut`, showed this |
| `MCEnrichmentClient_disowned` | `AnswersAreKept` | the same in the enrichment client: the question expires or is cancelled although the backend applied its answer (`enrichment.py:937`) |

### Bounds, and why they are enough

- `Records`, `Requests`, `Sessions`: every property of the write path relates at
  most two changes of one record or one axis, so two concurrent handlers with a
  replaced, a replacing and a competing row produce every conflict. The proofs
  hold for any number.
- `MaxRev` limits how often the compatibility API touches one row. Two touches
  tell "unchanged", "changed once" and "changed since".
- `MaxRecords` limits how many people a reopened `new_entity` candidate may add.
- `MaxTurns`, `Capacity`, `RecentLimit` of the queue are small enough that the queue
  is full, the memory of completed turns forgets, and a turn is offered again
  after it was forgotten.
- `MaxOthers` allows one change by a reviewer or another writer during a run. It
  may fall between any two steps of either worker, which is what
  `ExecutesWhatWasReviewed` and `NeverRepeats` need to fail when a lock is missing.
  The run checks each action in a run with a single decision; decisions of one run
  share no candidate, and two decisions are in `MCCurationExecution_resume`. The
  proofs hold for any plan.
- In `reconciliation`, `MaxBodies` allows two signed answers, with one resolution
  id or two, before or after the other one is applied, and `MaxOthers` one change
  of a candidate, a person, a person's context or a derived record between any
  two steps. Each property needs at most one of the two to fail.
- In `enrichment_ledger`, two authorizations share a slot and three resolutions
  answer them, two of which overlap with one that skips: each pair of answers that
  can conflict does. `MaxChanges` lets one other writer fill a gap, retire a record,
  change the person or the ontology between any two steps. The proofs hold for any
  number.
- In `post_turn_memory`, `Attempts` and `MaxLookups` are the retries of the code in
  small; one crash at any step and one change by another writer are enough, as
  each claim is sent at most twice. `MaxItems` is
  `MAX_CONTEXT_UPDATES_PER_SECTION`, small enough that the page drops a line.
- In `curation_client`, three candidates in windows of two make a replay take two
  windows. `MaxSwitches` is two because a change of mode and the way back is what
  strands a run; `MaxErrors` allows one lost answer, crash or failed decision at any step.
- In `reconciliation_client`, `Contended` is the question about which two commands
  may run at once, `Unsteady` the item whose records others may change: one of each
  is enough, because no property relates two contended questions or two changed
  items. `MaxBusy` lets two commands run at once; the proofs hold for any number.
  `ItemLimit` is `hard_question_limit * 4`, between 4 and 800 (200 unless configured). The
  run has two items and an `ItemLimit` of 8, so nothing is cut; `MCReconciliationClient_cut`
  has five items and the limit 4.
  Both clients have one lease of the dispatcher (`MaxLeases`), which may lapse.
- In `enrichment_client`, `Asks` names the plan that is followed to its end; the
  other one is only there to compete for the one open question. Two appliers are
  needed, since what is hard is the stale applier beside its successor. `MaxBusy` lets
  two commands run at once; no conflict the model knows of needs a third, and the
  proofs hold for any number.
- Symmetry is used for workers, requests, candidates and unused row identities,
  never in runs with liveness properties.
- `CHECK_DEADLOCK FALSE`: the router ends when it is shut down and its bound is used
  up (`post_turn_queue`), a turn is over when all its claims are (`post_turn_memory`),
  a curation run can really get stuck (`curation_execution`, as the extra
  configuration shows), and in the other runs each command is one process that
  ends; nothing is left to do once the bounds are used up.

### Fairness

`memory_assess` assumes strong fairness of each started handler: Postgres queues
the transactions that wait for a row, so a lock that is released again and again
is granted in the end. Requests need not arrive and rollbacks need not happen.
`post_turn_queue` assumes weak fairness of the worker thread and of the calling
threads: every HTTP call they make has a timeout, so a running turn ends. Nothing
is assumed of callers that offer turns or of `shutdown`.
`curation_client` assumes weak fairness of the client (`Begin \/ Cycle`: the nightly
schedule starts it again and each of its calls has a timeout) and of `Backend` (a
request it has accepted is worked on until it ends, also when the client is gone).
Changes of mode and errors are not fair; the bounds stop them, so
`BacklogIsWorkedOff` says what happens once they stop.

### Refinements

`memory_edges` checks that `MemoryWrites` implements `MemoryLedger`
(`ImplementsLedger`), which is also proved. `post_turn_memory` checks that each claim
of a turn, over all processes, crashes and resent bodies, implements `AtMostOnce`
(`ClaimsOnceOrNever`): what the journal and the request table say together maps to
undecided, done or given up, and a claim given up is never found done later.

## 4. Proofs

`MemoryWrites_proofs` first states what a write does to the tables, and proves the
properties of the abstract `MemoryLedger` from one inductive invariant: the tables have their types, request identifiers are unique, the
history is linear, and current assessments are unique per axis. The history needs
the conjunct that a replaced record is no longer current: without it, two changes
could name the same old record.

About the handlers it proves type correctness, mutual exclusion of the entity
locks, `ChecksStillHold` and `ReceiptsTruthful` as one inductive invariant. Its core
is `ChecksStillHold`: for each step of one handler, the request, the old record,
the entities and the axis that another handler has checked cannot have changed,
because that handler holds the lock the change needs. From it follows
`Refinement`: a `Commit` is a step of the ledger, every other step leaves the
tables alone. The ledger's theorems then carry over to the handlers
(`AppliedAtMostOnce`, `HistoryIsLinear`, `OneAssessmentPerAxis`,
`TrackedRevisionsFrozen`, `UpdatesNotLost`, `RowsAboutActiveEntities`). They hold
for any number of workers, requests, records, people and axes, under the
assumptions the modules state about request bodies (what the request schemas
enforce) and initial tables (`InitTables`: any tables without two current
assessments on one axis).

`NoWaitCycle` is proved there too (`HandlersDoNotDeadlock`), and for the reviewers in
`CandidateReview_proofs` (`ReviewsDoNotDeadlock`), for any set of sessions. The
argument is the order of the locks. `LockOrder` adds to the invariant that a session
which still takes entity locks holds only entities below the next one, because
`lock_active_entities` sorts by id, and that it holds none before its request
identifier, its old record or its candidate. In a circle, consider the sessions that
wait for an entity: the one that waits for the largest waits for somebody who holds
it and therefore waits for a larger one. Without such a session, whoever waits for a
record waits for somebody further on, who waits for an entity or not at all.

`CandidateReview_proofs` proves the safety properties of the review from an
invariant that says what an accept holds and has checked: the candidate is still
open, its payload is the one carried along, and the entities locked are still as
they were found.

`PostTurnMemory_proofs` proves the four properties of the run `post_turn_memory` for
any number of processes, turns, people, claims, attempts, crashes and other writers,
the refinement of `AtMostOnce` among them. The invariant `IInv` says three things
beside the types. `Journalled`: a process inside the loop over the claims is the
holder of the journal's lock, so what it found there for its claim (no body yet, or a
body; not given up) is still so when it writes the outcome. `BodiesKept`: every
change in the backend, and every attempt that may still arrive, is the body the
journal holds for its claim, so a claim has at most one change, and an attempt that is
repeated is recognised. `OutcomesHold`: a claim that is given up has no change *and no
pending attempt*. The second half is what makes it inductive: a refusal is final only
because the backend makes requests with one identifier wait for each other, and a
timeout is never recorded as final. With it a step either leaves changes and
outcomes alone, or changes the outcome of a claim that is not given up, or applies the
one body of such a claim (`EffectOrOutcome`): the steps of `AtMostOnce`. For
`PersonAsDecided` the invariant carries that a run has its person from the closed frame
of its own process (`Attached`), and for `KnowledgeKept` that the copy of a page which
a process is about to replace holds no line the ledger lacks, and the user's own line
(`Curating`), since another process may have replaced the page meanwhile. The added
assumptions are in the module: a decision has at most `MaxClaims` claims
(`router/post_turn.py:1049` refuses more), `None` is no value of any type, and the
user's own line is not a text the router generates, because retention recognises
generated lines by their text (`router/markdown_writer.py:74`).

`Enrichment_proofs` proves the two properties of the enrichment service for
any number of authorizations, slots, answers and workers. Its invariant `Inv` says
of each request what it may rely on: after the lock of the authorization, that the
row it carries is the row in the table; after the checks, that the slots it answers
are open; and before the commit, that it holds the person, that no action has its
resolution and that none of its slots is filled. `KeepsRequest` is the core: a step
that leaves alone what another request has locked leaves its knowledge true. With
it, a commit closes slots that no earlier answer had closed (`AnswersMatchSlots`) and
adds records to gaps only (`AnswersFillGaps`). The assumptions are those of the
module: an answer names slots of some authorization, and `None` is neither a worker
nor a row.

The second half of `Enrichment_proofs` proves the three properties of the run
`enrichment_client` for any number of questions, submissions, leases and commands
that run at once. A command holds the file's lock only within a section, so its
knowledge must be of a kind that no other command takes away. `ClientInv` lists it:
a question stays in the file, the submission it was given to is never replaced, a
message that was shown was shown, and what the backend refused once, it refuses for
good (`Refused`: overdue, outdated or expired, and not applied). `Steady` is that list
as a condition on a step, and `CommandStep` the lemma that such a step leaves the
other commands' knowledge true. With it the file's one `submission` is the only one
the backend can have applied (`QuestionOK`), which gives `EnrichmentAnswersOnce`;
an applier that gives up has `Refused`, and one that finishes has seen its submission
applied, which gives `EnrichmentOutcomes` although the question may belong to
another applier by then.

`OneOpenQuestion` needs a second invariant, `OpenInv`, because two sections set a
question's state without reading it. Storing a staged question is harmless because no
other question is open while one is staged (`StagingWork`). Storing `awaiting_reply`
could reopen a closed question; that it does not is `DeliveryOK`: as long as an intent
exists that is not cancelled and the file does not say that it was delivered, the
question is not closed, or is overdue, or was closed blindly. Every way to close a question
has to keep this: a withdrawal and a cancellation have cancelled the intent at the
broker before (`DeliveryWork`), an expiry is overdue, an applier's question is
recorded as delivered. The last point is where two dispatchers of one question break
it: the first records the delivery, the question is answered and closed, and the second,
which still has to record the same delivery, opens it again. The code has no lock
against that, so the theorem has the hypothesis `OneDispatcher`, as has the run.

`PostTurnQueue_proofs` proves the safety properties of the queue for every capacity,
every length of the memory of completed turns and any number of callers. Its
invariant has three parts. `Places` says where jobs can be in each mode, that the
count of unfinished tasks is what is queued or running, and that the stop marker is
the last thing in the queue. `Work` says that a keyed turn is in at most one place,
that the two key sets are the mirror of those places, and that a remembered turn is
in none of them. `History` says what it means to be forgotten: a turn that is
`p`-th from the newest of the remembered ones has at least `p` completions since it
was persisted, so one that has dropped out has more than `RecentLimit`. The last is what makes `PersistedOnce` inductive: the
property alone does not say why a turn that is offered again was forgotten.

`Reconciliation_proofs` proves the four properties of the run
`reconciliation` for any number of requests, candidates, people and questions.
`SessionOK` says what a request may rely on: its resolution is not in the ledger
while it writes, the candidates and then the people it has locked are still the
versions of its body, and a person to be archived still owns nothing. `Apart` says
that resolutions and row locks exclude one another. `Rows` is what connects the two:
the person a resolution creates does not exist before its commit, so nobody was
asked about it, so the commit of one request cannot touch a row of another. It is
the assumption `EntitiesAssumption` (a new person's id is new) that makes this true.

The second half of the module proves `FileIsTruthful` and `CursorLeavesNothing` of the run
`reconciliation_client` for any number of questions, items, runs and commands.
`ClientInv` is the invariant of both. `CommandOK` says what a command relies on from one
section of the file to the next: the question it works on is still in the file, a
dispatcher that is about to record a delivery has made it, and whoever applies an answer
works on a question that was shown. `SaysTruly` is what the file says of broker, bridge and backend. Since each of these only moves forward
(`RouteStep`: a delivered intent stays delivered, a conversation that was shown stays
shown; `ActionsGrow`: an action is never taken back), what one command has stored
cannot be made untrue by another. `CursorInv` is about the runs: an audited run has
all runs before it audited, each of its items is in its audit or settled, and a reviewed
one has all its items settled. A preparer carries the same promise between its reading and its
storing (`PreparerOK`). The theorem `ReconciliationCursor` has the hypothesis `Uncut`, that a
list is as long as all anomalies together; without it the property is false (above).

`OneOpenQuestion`, `ShownOnlyWhileStaged` and `ReceiptsAreKept` need a second invariant,
`DeliveryInv`, because the sections that end a delivery or an answer write a question's
state without reading it. `IntentOK` ties the file to the broker: a question without a
recorded attention has no intent beyond a claim, one whose sending is recorded has an intent that
was not cancelled. `ReplyOK` ties it to its answers: what waits for a reply was delivered, and
while a receipt waits for its readback the question is `committed_unverified`. `WorkOK` is what the commands know
between two sections. A dispatcher that is past its claim finds its question not
delivered, and staged or closed blindly; only before it confirms the sending may the intent
have been cancelled under it, and then the broker refuses (`DispatchFits`). A canceller that has not
seen a delivery either found no intent, or has cancelled it at the broker before it closes the
question (`CancelFits`); with the former comes `blind`. An applier finds the
question in the state in which it left it, and all items it has passed verified, so
that ending the plan drops no receipt (`AnswerFits`). `StaysFit` says which
changes of a question leave another command's knowledge true. `Delivers` is
what each step is shown to do besides keeping the invariant, which gives the two
action properties.

The three theorems have the hypothesis `OneAtATime`, one dispatcher and one applier at a
time, beside any number of cancellers and preparers. Neither half can be left out, as TLC shows
when the run gets a second command of the kind. Two dispatchers may deliver one
intent: the first records the delivery, the question is cancelled, the next one is
staged, and the second one records the delivery again and reopens the first. Two
appliers of one question may end each other's work: one whose reading leaves nothing to
write pauses before its last section, another one plans, commits and stores a receipt,
and the first one ends that plan with the receipt in it.

`CurationExecution_proofs` proves the three properties of `curation_execution` for
any window, plan and number of workers, also for plans of many decisions, which the
run leaves to a separate configuration. `WorkerOK` says that a worker which holds
the lock of the run holds that of its decision too and has found no reference under
it; with all locks, candidates and observations are as the policy found them.
`NextLock` matters: the decision's lock comes before that of the run. A commit needs
the lock of the run, so another worker that has it cannot be overtaken; the
unlocked writes of readback and marking never touch a reference
(`OverwrittenKeepsRef`). Added assumptions: `None` is not a reference, and what was
known before the run was not written by one of its decisions.

`CurationClient_proofs` proves the three safety properties of `curation_client` for
any number of candidates, any size of a window, any history of changes of the mode, of
reviews, lost answers, crashes and failed decisions. The client has no state of its own, so the
invariant `IInv` is about the list of runs and about what a cycle makes of an old
copy of it. `InLine`: the windows of apply runs follow one another without overlap,
and a shadow run never begins before the end of the run it follows. `CopyHolds`: the backend only moves
the status and the decisions of a run, never its window or plan, and a completed run
stays completed, so the copy still says where every window begins and ends, and when a cycle has
recovered all apply runs really are completed. `Continues` is the bridge: whatever
`_continuity` answers (the latest apply run, the start of the first shadow runs, a
replay of shadow runs, a checkpoint), a window in apply mode begins exactly where an apply run
has ended and behind all others (lemma `NextWindow`). What is skipped neither
follows from the runs nor from the cycle alone: candidates appear in order, so all up
to the end of a window have appeared (`WindowsSeen`), and the backend accepts a plan
only if it is about everything that is pending in its window (`CreateInv`). From
`InLine` alone follows that no candidate is decided twice. The proof relies on
two things the model says of the world: one cycle runs at a time, and candidates are not
committed behind the cursor (see Assumptions).

Some theorems have no run of their own because another run's property implies or
exercises the same step, and because TLC and the proof would say the same:
`TypeOK`, `UniqueRequest`, `ChecksStillHold`, `AxisSlotExclusive`, `NoLostUpdate`,
`AcceptsOnlyOpen`, `CanonicalAboutActive` and `KeysMirrorWork`.

Only model-checked: the liveness properties `EveryRequestEnds`, `AdmittedTurnsEnd` and
`BacklogIsWorkedOff` (TLAPS proves no liveness under fairness and no ENABLED). Every
other property of a passing run has a theorem. What is found violated in the further
configurations is not proved either way; the second commands of one kind that `OneDispatcher`
and `OneAtATime` leave out violate the properties, so there is nothing to prove for them.
Recursively defined functions are not used.

## 5. What is not modelled

Not modelled because there is nothing for a model checker to find: the frontends,
read-only queries (context, retrieval, graph, people, exports), logging,
configuration, DDL migrations. Pure rules are left to the tests: ontology and
structured facts, the write filter, dimensions, cultural and planning heuristics.
Embeddings, material imports and the migration of memories are small and not yet
modelled.

Abstracted inside the models: evidence rows and episodes, confidence, validity
intervals, ontology names. The memory models treat SQLite, which the tests use, as
a subset of Postgres: it serialises writers. Merges repoint records of an entity
inside `services/candidates.py` and are not among the writers of `MemoryLedger`, so
the theorems about the ledger speak of the memory and compatibility APIs only; the
same holds for promotion, which `FactPromotion` adds. The backend's enrichment and
reconciliation services are modelled apart from the clients that call them: in
`ReconciliationClient` and `EnrichmentClient` the backend is what an answer can be.

### Assumptions

- A request does not reach the backend after its client gave up, unless it was
  already being worked on. Requests with one identifier wait for each other (the
  unique index on it).
- One program submits readings of a user's reply to one question. The gap between
  two appliers of one question is not filled by a third writer.
- One command at a time dispatches the questions of a client, and one at a time applies
  the replies of the reconciliation client (see section 4 for what two of them can do
  to one question). No lock of the code enforces either.
- Two cycles of the curation client do not overlap: the nightly schedule is the only
  lock there is. Candidates that are committed behind the cursor, or reopened,
  are not looked at again by design of the cursor. Pages of the API are complete.
- The question of whether the ontology accepts a write is one bit.

### Known limits of the code that shape the models

Each is visible in a model as an exemption, a choice or a missing guard.

- When the lease of a dispatcher lapses, both clients cancel the broker's intent, but
  the file's validation refuses a `lease_id` beside the state `cancelled`; the
  question stays open until its deadline.
- An answer that was committed and whose readback never succeeds blocks staging for
  good. Staging the same plan again revives an expired question with its old
  deadline.
- A crash between `bridge_deliver` and the last section leaves a message in the
  conversation that `sent_at` does not know of.
- The reconciliation client: `prepare` marks the runs it cut off as reviewed
  (see section 3); cancelled items are never staged again;
  a reissue does not look for an active enrichment question; a command that has read no
  intent may cancel beside one that delivers, which `ShownOnlyWhileStaged` exempts
  (`blind`).
- The curation client: a change of mode in the middle of a shadow lineage can leave a
  gap that the client reports (`shadow_lineage_gap`) and never gets over, which
  `BacklogIsWorkedOff` exempts (`Straddled`).
- The enrichment service: a completed authorization whose time has passed becomes
  `expired` when a late new answer arrives (`services/enrichment.py:154`); whether the
  name is ambiguous is checked before the person is locked.
- Post-turn memory: a 401 on a resent request is recorded as final although the first
  sending may have been applied; ids of the evidence ledger are counted without a
  lock. The creation of people and deferred claims are not reachable.

### What could follow

1. Merges and promotions among the writers of `MemoryLedger`, with both lock orders.
2. `ObservationEmbedding` and `MaterialImport`.
3. The clients composed with the backend's ledgers, each as the other's environment.
4. Bounded checks of the pure rules: write filter, ontology rules, selection and
   ranking of context.
