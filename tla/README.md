# Verification of the citizen assistance system

TLA+ modules, TLC configurations and TLAPS proofs about the programs under
`src/`. Citizens of a commune ask a chat about administrative procedures; the
answers quote legal documents that administrators upload, link to procedure
versions and have indexed. Administrators also let an AI draft procedure versions from such
documents. The repository holds the training code of a speech recogniser too.

Six parts are modelled, each with its hazards, properties and theorems; they
are the parts in which several processes, or one process and its crashes, meet
over shared state.

| Section | Part | Modules | Runs |
|---|---|---|---|
| 2 | Index rows, service, pipeline, reaper, pins | `SourceServing`, `IndexStore`, `IndexApi`, `IndexPipeline`, `IndexReaper`, `IndexSystem`, `IndexInvariant`, `IndexProofs` | 3 |
| 3 | Chat turns | `Conversation`, `ChatTurn`, `ChatProofs` | 3 |
| 4 | Activation and its saga | `ActiveVersion`, `DraftActivation`, `ActivationProofs` | 2 |
| 5 | Drafting jobs | `DraftLedger`, `DraftJobs`, `DraftJobProofs` | 1 |
| 6 | Gate of the AI service | `CallAdmission`, `IndexGate`, `GateProofs`, `AdmissionProofs` | 1 |
| 7 | Training checkpoints | `CheckpointHistory`, `DurableCheckpoints`, `CheckpointProofs`, `CheckpointLineProofs` | 2 |

## 1. Inventory

| Part | Code | State it keeps | Operations | What is hard |
|---|---|---|---|---|
| Index rows | `apps/api/internal/repository/index.go` | links (`procedure_version_documents`), jobs with token and lease, generations, `documents.processing_status` | Link, Unlink, Claim, ExtendClaim, StageGeneration, Finish | late finishes, revived leases, relinked rows, a cached document status |
| Index service | `apps/api/internal/index` | one goroutine, heartbeat and slot per run (volatile) | dispatch, runWorker, startBackground, finishDetached | crash between claim and finish, dropped errors, a full slot channel |
| Index pipeline | `apps/ai-service/app/indexing/pipeline.py`, `postgres.py` | vectors in Qdrant, chunks in PostgreSQL | upsert, replace, compensating delete | two stores, no common transaction; killed at any point; outlives the call |
| Index reaper | `apps/api/cmd/index-reaper` | cleanup status, token, lease, attempts of a generation | claim, renew, delete, complete, mark | overlapping workers, deaths, racing with a live run |
| Source pins | `repository/pins.go` | generations a session refers to | EnsureSourcePins | pinning while generations are replaced or cleaned |
| Supervision | `ai-service/app/indexing/supervisor.py`, `runtime.py`, `procgroup.py` | slots, worker processes and their pipes, the gate's status and count | submit, wait, cancel, sweep, recover, shutdown | kills that meet replies, recoveries that meet a shutdown |
| Chat turns | `repository/turn.go`, `internal/chat` | `turn_idempotency`, messages, session pin, slot state, pending intent | Turn in three phases around a model call | retries, stolen claims, a context that changes during the call |
| Activation | `internal/activation` | procedure versions and the ACTIVE pointer, idempotent admin operations | draft, fill, activate | two administrators, repeated requests |
| Drafting jobs | `internal/drafting/jobs.go`, `repository/draft_job.go` | jobs with lease, batches | Claim, ExtendLease, StartBatch, EndBatch, Finish, Retry | takeover from an owner that is still running, counts, retries |
| Activation saga | `internal/drafting/activate.go` | nothing of its own; fixed request ids | link, index, wait, activate | partial failure and repetition |
| Drafting text | `drafting/aggregate.go`, `sections.go`, `coverage.go` | none | splitting, merging | pure text |
| Decision engine | `internal/decision` | none | intent, slots, guidance | pure functions |
| Extraction | `internal/aiextract` | none | Validate | pure checks of a remote answer |
| Retrieval | `internal/retrieve`, `indexing/retrieve.py` | none | search in the pinned generations | reads |
| Speech | `internal/speech` | transcriptions, their chat turn | Insert, LinkChatTurn | linking once |
| Sessions | `repository/session.go` | one open session per citizen and commune | GetOrCreate | concurrent creation |
| Intake | `internal/document`, `internal/storage` | objects, document rows | Upload | object without row |
| HTTP, auth, config | `internal/api`, `httpserver`, `middleware`, `auth`, `config` | none | routing, checks | - |
| Grounding, eval, providers | `ai-service/app/grounding`, `eval`, `providers` | none | model calls | - |
| Web client | `apps/web` | view state | polling, retries | - |
| Speech recognition research | `bahnar-s2tt-thesis` (`src/asr_full_train.py`, notebook 03 and offline scripts) | checkpoints on a rented machine's disk and in durable storage: `ckpts/`, numbered snapshots, `LATEST` | restore, train, save, synchronise, prune, pin the best | sessions that end between any two file operations, with their disk or without |

The parts meet in PostgreSQL rows. The API claims a job and calls the AI
service over HTTP; the AI service writes chunks and vectors for the generation
the API staged and answers with counts; the API publishes the generation in the
transaction that closes the job. The reaper works on the same rows from a timer
and never talks to the other two. A chat turn reads the links and freezes the
published generations in pins. `PROJECT.json` lists every hazard of this code
at its line with the properties that watch it.

## 2. Index system

### 2.1 Modules

```
SourceServing            what readers of a document are promised (abstract)
IndexStore               the rows and the volatile state, TypeOK, Init
  IndexApi               IndexRepo's transactions, index.Service's goroutines
  IndexPipeline          the write stage of run_pipeline
  IndexReaper            cmd/index-reaper
    IndexSystem          all of them, pins, properties, refinement
      IndexInvariant     the inductive invariant
        IndexProofs      the theorems
        MCIndexSystem    instances for TLC
```

One document is modelled: every transaction locks its row first and touches the
rows of that document only, so documents are independent but for the slot
channel, which the runs of one document are enough to fill.

| Model | Code |
|---|---|
| `linkStatus`, `linked`, `active`, `docStatus` | `index_status`, row present with `unlinked_at` NULL, `active_generation_id`, `documents.processing_status` |
| `jobStatus`, `jobVersion`, `jobToken`, `jobLease` | a row of `document_index_jobs`, named by its request id; the lease is `none`, `live` or `expired` instead of a time |
| a dispatch `d` | one claim that runs the worker: its claim token, and the generation it stages |
| `genStatus`, `cleanup`, `attempts`, `cleanupLease` | a row of `document_index_generations` |
| `chunks`, `vectors` | the generations with rows in `knowledge_chunks` and points in Qdrant |
| `pc`, `req` | the goroutine of a dispatch: `claimed` (dispatch), `queued` (waiting for a slot), `calling` (worker call), `publishing`/`failing` (the outcome is known, Finish is next), `done` |
| `ai` | the pipeline process of the call |
| `cleaner[d][n]` | the cleanup worker of attempt `n` |

Each transaction of `IndexRepo` is one action: it takes the document row's lock
first, so transactions of one document do not interleave. The steps of a
goroutine between transactions are actions of their own, and so are the steps
of the pipeline process, which runs on after the API gave up on it. Time is
two facts: a lease that is live may at any moment turn expired, and a
heartbeat makes it live again. Requests the code refuses or answers from a
stored reply change nothing and are stutters. Synchronous mode and the stub
worker are left out: production runs the pipeline in the background
(`IndexAsync`, pipeline mode).

### 2.2 Properties and runs

| Run | Bounds | Shows |
|---|---|---|
| `IndexSafety` | 1 version, 2 requests, 2 dispatches, 1 cleanup attempt, 1 slot, symmetry | 9 state invariants (`TypeOK`, `ActiveIsTheReadyGeneration`, `PublishedDataIntact`, `PinnedStaysRetrievable`, `ProcessingHasItsJob`, `JobMatchesGeneration`, `CleanedIsGone`, `DocumentStatusAgrees`, `ReadyDocumentIsServed`), the action property `ServingSurvives`, and `ImplementsServing` |
| `IndexQueue` | 1 version, 2 requests, 2 dispatches, 1 slot, fair, no reaper | `ProcessingIsDecidedOrRecoverable`, `DispatchSettles` |
| `IndexCleanup` | 1 version, 1 request, 1 dispatch, 3 attempts, fair | `AbandonedGenerationIsCleaned` |

Why the bounds are enough to be interesting: two dispatches give every overlap
of an old run with the one that replaced it, by takeover of the same request or
by a new one, across an unlink and a relink; one cleanup attempt beside them
races with both. More attempts only matter among cleanup workers and are
explored with one dispatch. The document status depends on all links of a
document; one link is checked and the theorem covers any number of them. The
pool of dispatches is finite, so a run ends when it is used up: deadlock is not
a property of the system and is not looked for. Symmetry is used only in runs
without liveness properties.

Bounds: `Dispatches` and `Requests` are finite pools; `MaxConcurrent` is the
code's slot channel; `MaxCleanupAttempts` is the code's own constant (5),
smaller in the runs. For the theorems all of them are arbitrary (`Dispatches`
finite).

### 2.3 Fairness

`FairSpec` assumes weak fairness of: the steps of each goroutine that is alive
(the Go scheduler, bounded worker calls), the steps of each pipeline process
(its deadline ends it), the reaper's claim (a timer starts it again and again)
and the steps of a cleanup worker, the passing of a cleanup lease, and the
passing of a job lease that nobody is renewing. It does not assume that users
do anything, that a crash happens or does not, that a call succeeds, or that a
lease that is being renewed ever runs out. An error path and its success path
are disjuncts of one fair action, so either may be taken every time.

### 2.4 What is proved

`IndexProofs` proves, for any set of versions and requests, any finite set of
dispatches and any limits, all the safety and action properties of the runs,
`OneClaimPerLink`, `TerminalJobIsFinal` and `ImplementsServing`. The argument is the inductive invariant `IInv`:

- `RunInv`: what a goroutine's position says about its job, generation and
  pipeline;
- `JobInv`: shape of a job row;
- `GenerationInv`: while a generation is STAGING, what its pipeline wrote is
  still there (nothing deletes data of a STAGING generation: the reaper turns
  it FAILED in the transaction that claims it); a published one is complete;
- `LinkInv`: the active generation is the link's READY one, and PROCESSING has
  a CLAIMED job;
- `ClaimInv`: at most one CLAIMED job per link.

It is needed because the properties are about rows, and what keeps them true
are facts about programs: a generation may be published only by a goroutine
whose pipeline reached its end, and that pipeline's data could only have been
removed by a reaper that would have left the generation FAILED. `InvStep` goes
through the actions, one lemma per group; `StepEffect` summarises what one step
can do to links and generations, and the action properties and the refinement
follow from it. The assumption is `IndexAssumption`: `None` is not an element,
`Dispatches` is finite, the limits are positive.

Only model-checked: the liveness properties (fairness is out of the prover's
reach).

### 2.5 Divergences

Seen while modelling, kept as notes; no run is spent on them.

- A cleanup interrupted in its last attempt is never retried nor recorded as
  failed (`claimSQL` bounds the attempts of lapsed claims too), although
  `deploy/README.production.md:55` says a retry after an interrupted cycle is
  idempotent. `AbandonedGenerationIsCleaned` says so with an exception: a
  cleanup that is interrupted in its last attempt.
- A claim from before an unlink may publish into the link made afterwards:
  `ExtendClaim` revives a lapsed lease and relinking does not close old jobs.
  The link goes from UPLOADED to READY with no request for it, which
  `docs/phase-0/db/data-model.md:310` does not foresee.
- A pipeline process the API gave up on may upsert vectors after the reaper
  counted zero and recorded COMPLETED. No code guards against it; the orphans
  are not reachable by retrieval.

## 3. Chat turns

### 3.1 Modules

```
Conversation             what a session promises its clients (abstract)
ChatTurn                 Service.Turn over the rows of one session, properties, refinement
  MCChatTurn             instances for TLC
  ChatProofs             the inductive invariant and the theorems
```

One session is modelled: every transaction of a turn locks the session row
first (`LockTurn`) and writes rows of that session only, so a transaction is
one action and sessions are independent.

| Model | Code |
|---|---|
| an attempt `t`, `asks[t]` | one call of `Turn`: request id, message, and whether the service runs with AI. A retry is another attempt with the same request id |
| `claim[r]` | the row of `turn_idempotency`; the lease is `none`, `live` or `expired`. `owner` is not a column: it says who set the lease last, and only the waiting uses it (below) |
| `answer[r]` | the USER and ASSISTANT messages of the request and, once COMPLETE, `response_json`. `by = None` are messages from before `turn_idempotency` |
| `session` | pin, `pending_intent`, `session_slot_states` (version and whether all slots are filled) |
| `catalog` | `procedures.active_version_id` |
| `pc`, `basis`, `tries` | the goroutine: phase 1, the model call, `waitForCompletedClaim`; `fingerprint1`; the loop counter |
| `seen[t]` | history: the session and the catalog as an attempt saw them when it entered its model call |

Actions: `TurnConflicts`, `TurnReplays`, `TurnReplaysLegacy`, `TurnDecides`,
`TurnClaims`, `TurnWaits` are the outcomes of a transaction at the start of a
turn (`turnKeywordOnly`, `beginTurnPhase` and what follows it); `TurnWrites` is
`finishAIWrite`; `WaiterReplays`, `WaiterTriesAgain`, `WaiterGivesUp` end a
wait. `AttemptIsLost` stands for a client that hangs up, a failed transaction
and a dead process: each leaves the rows as they are. What a turn decides is
any plan the planner can come to in the state it reads (`KeywordPlans`,
`PendingPlans`, `AiPlans`): scores and texts are data, the branches are kept.
The model of the AI service may answer anything or fail, so a turn in its call
may always fall back to keywords. A waiter's deadline is one lease long and
started no earlier than the lease it saw, so it passes only when that lease has
expired or belongs to another attempt by now; `watched` remembers which.

The session may have been answered before and any request may have messages
without a claim: `Init` allows both.

### 3.2 Properties and runs

| Run | Bounds | Shows |
|---|---|---|
| `ChatSafety` | 3 attempts, 2 requests, 2 messages, 2 procedures, 2 versions, 3 rounds, symmetry | `OneAnswerPerRequest`, `PinIsStable`, `ProposalOverwritesOnlyWhatItSaw`, `ImplementsConversation` |
| `ChatWaiters` | 3 attempts, 1 request, 1 message, 2 procedures, 1 version, 2 rounds, fair | `WaitsAreForWork`, `WaitersEnd` |
| `ChatVersion` | 3 attempts, 2 requests, 1 message, symmetry | violates `DecidedByThePinnedVersion` |

Three attempts at one request give an owner, one that takes its claim over and
one that waits for either; the other request changes the session in between.
Two messages are enough for a request id used twice.
`ChatWaiters` has fewer rounds than attempts, so that
giving up happens there. `ProposalOverwritesOnlyWhatItSaw` does not mention the
fingerprint: whenever a turn records a proposal, the pin, the
pending question and every slot row it changes are what `seen` has, and each
version it newly brings in was in the catalog it saw; so it fails when `computeFingerprint` leaves out anything that matters.
`OneAnswerPerRequest` is about the checks of the code:
the unique index on USER messages (`000005`) is a second line of defence and is
not in the model.

Fairness: an attempt that has begun goes on (`Started`), and a lease nobody can
renew runs out; there is no heartbeat on it. Nothing is assumed about new
requests, activations or losses. `AttemptIsLost` is not fair.

### 3.3 What is proved

`ChatProofs` proves, for any sets of attempts, requests, messages and
procedures and any limits, `TypeOK`, `ClaimTellsTheAnswer`, `RepliesAgree`,
`OneAnswerPerRequest`, `PinIsStable`, `ProposalOverwritesOnlyWhatItSaw`,
`WaitsAreForWork` and `ImplementsConversation`. `ChatInv` adds to the first three `AttemptInv` (a
waiter waits for a claim to its own message; who has not answered has no
answer) and `LeaseInv` (only a PENDING claim has a lease). The heart is
`FreshIsUnanswered`: a turn that passes the prologue has no answer yet,
although claims change hands without a token, because a PENDING claim has no
messages and a COMPLETE one is never fresh. `ProposalOverwritesOnlyWhatItSaw`
rests on `ContextInv`: the fingerprint an attempt holds is that of what it saw,
and slot rows are never deleted, so a fingerprint that has not changed stands for
the rows a plan can touch. The assumptions are
`ChatAssumption` (positive limits, `None` is no attempt) and `NoneAssumption`
(`None` is no record).

`WaitersEnd` is liveness and only model-checked, but what it rests on is proved
(`NobodyWaitsInVain`): a waiter has its answer, may go round again, or waits
for a running lease whose holder is in its model call or gone. It needs
`HolderInv`: a PENDING claim has a lease and a holder that is in its call or
done, because an attempt claims only on the way into the call and never goes
back to waiting from there. So attempts never wait in a circle, and what ends a
wait is the passing of a lease, which `FairSpec` assumes.

### 3.4 Divergences

- A question made from the model's proposal takes the pinned procedure's
  candidate from the catalog, so its answer may decide with a newer version
  than the pinned one (`docs/phase-0/db/data-model.md`, 6b).
  `ChatVersion` finds the behaviour.
- The slot row keeps the version it was created with when a session comes back
  to a procedure that was activated anew (`turn.go:252`, against
  `data-model.md:547`). A note, no run.

The migration that introduced claims says the extractor is called at most once
for concurrent turns of a request. That holds for the length of a lease (30 s,
longer than the model call's 8 s cap); after it a slow owner and the attempt
that took over may both call. The model allows both calls and shows that only
one is written.

## 4. Activation and its saga

### 4.1 Modules

```
ActiveVersion            what activation promises the readers of a procedure (abstract)
DraftActivation          internal/activation and drafting.Service.Activate over one procedure
  MCDraftActivation      instances for TLC
  ActivationProofs       the inductive invariant and the theorems
```

`drafting.Service.Activate` turns an approved AI draft into the active version
with a chain of transactions: create the version, note it in the draft, link
the source document, have it indexed, activate, publish the draft. It keeps
nothing between them; a client that lost the answer calls again, and request
ids made from the draft let the operations replay what an earlier call did.

| Model | Code |
|---|---|
| `status`, `source`, `active` | `procedure_versions.status`, `source_draft_id`; `procedures.active_version_id` |
| `link` | the index status of the version's link to the document; section 2 shows that READY goes with a published generation |
| `draft` | the `procedure_drafts` row; `stamp` is `updated_at`, which its updates compare |
| `created`, `linkedBy`, `indexedBy`, `activated` | the idempotency rows of the four requests. `Nil` is what a stored answer `{}` reads as: `uuid.Nil` |
| `pc`, `call`, `answer` | one HTTP request to activate a draft: its next step, what it holds in memory, what it told the client |
| `lived` | history: the versions that were ACTIVE at some time during the call |

Each transaction is one action, and `Stops` ends a call between any two of
them. Two calls may be at work on one draft, or on two drafts of the procedure;
administrators create, fill, link, unlink, index and activate versions of their
own accord at any time. Indexing may fail (`IndexEnds`).

### 4.2 Runs

| Run | Bounds | Shows |
|---|---|---|
| `Activation` | 2 versions, 2 drafts, 2 calls, symmetry | `DraftNamesItsVersion`, `PublishedWasActive`, `AnswersTellTheTruth`, `ImplementsActiveVersion` |
| `ActivationReplay` | 2 versions, 1 draft, 2 calls, symmetry | violates `RetriesKeepTheVersion` |

Two versions are one to activate and one that is active or is put in between;
two calls are a call and its repetition, or two drafts that meet in one
version. Nothing obliges a call to go on, so no liveness is stated: a saga that
stopped waits for a client.

### 4.3 What is proved

For any versions, drafts and calls: `TypeOK`, `ActiveIsPointed` (the pointer
names the one ACTIVE version), the four properties of the run. `IInv` adds to
the type: `VersionInv`, a draft has at most one version; `DraftInv`, what drafts
and stored answers say of versions; `RowOk`, only a call that read the draft
without a version may still name one, and it fails when the row has moved since
(the stamp); `AnswerOk`, a version a call is about to answer for was ACTIVE
while it ran. `RowOk` is what makes concurrent repetitions safe: two creates of
one draft lead to one version by `source_draft_id`, and the compare on
`updated_at` keeps the later writer from putting another in its place. The
assumption `ActivationAssumption` says that `None`, `Nil` and the rows are
different things.

### 4.4 Divergences

- `fillFromDraft` returns for a target that this draft filled before without
  storing its answer, and `CreateVersion` commits the claim of the request id
  with `{}`. The same request repeated reads the nil UUID, and the saga saves it
  as the draft's version: no further call can activate the draft. `activate.go`
  says retries stay idempotent through the request id. `ActivationReplay` shows
  it; `DraftNamesItsVersion` is therefore about drafts that name a version.
- A repeated call that resumes a PUBLISHED draft may write APPROVED back to it
  (`Note`, `persistApprovedPayload`). The version stays active, and the next
  reconciliation publishes the draft again.
- The web client leaves out `target_version_id` when it polls
  (`DraftReviewPage.jsx:623`); when the first call stopped before it saved the
  version, the repetition has the same request id and another payload and is
  refused.

## 5. Drafting jobs

`DraftJobs` models one job of `JobRunner` and its row: `Claim` takes a job that
is queued or whose lease ran out, the owner drafts batch by batch, a heartbeat
renews the lease, `aggregateJob` merges the results, `Finish` closes the job,
`Retry` queues the failed batches again. `DraftLedger` is what the job promises
its administrator: while it is open each batch gets one result, for good; the
progress shown is the number of results; the draft is made once, of all of them;
the job ends well only with its draft, and one that failed may open again.

| Model | Code |
|---|---|
| `job`, `owner`, `lease`, `done`, `failed` | the row of `procedure_draft_jobs`; the lease is `none`, `live` or `expired` |
| `batch`, `attempts`, `result` | the rows of `procedure_draft_job_batches`; a result is told apart by the owner that drafted it |
| `draft` | the results the draft row was merged from |
| `pc`, `view`, `at`, `tries` | the runner of one API process: its step, the batches as last read, its batch, its own count of attempts |
| `calls`, `retries`, `stalls` | histories: AI calls for a batch since it was queued, and the bounds |

An owner may die; it may also stall past its lease and go on without knowing.
Its guarded statements are then refused, but its reads and its merge are its
own. Creating the row and planning its batches is `Init`. `EndBatch` is one step
for the two statements of its transaction (`draft_job.go:246-274`): the first asks
for the lease and locks the batch row, the second counts the rows, whoever owns
the job by then.

`DraftJobs` (the run): 2 owners, 2 batches, 2 attempts per batch, 1 retry, 1
stall. Two owners are an owner and its successor; with one stall the first one
comes back beside it, with one retry a job fails and runs again. It shows
`CallsAreBounded`, `FinishedBatchStands`, `ImplementsLedger` and, under
`FairSpec`, `JobEnds`. Fair are the steps of a living owner, taken together (a
goroutine goes on, its calls have deadlines; an idle owner's scan is on a
timer) and the passing of a lease nobody renews. Deaths are not fair; a dead
owner stays dead, and one owner is always left, because the service is
restarted and the restarted process is an owner too. A read of the batches that
fails ends a run and leaves its lease to run out; it counts as a stall, since a
database that fails at every takeover would keep any job from ending.
`MaxRetries` and `MaxStalls` are bounds of the model, `MaxAttempts` is the
code's.

Proved for any numbers: `TypeOK` (with counts within the batches),
`CallsAreBounded`, `FinishedBatchStands`, and `DraftHasEveryBatch` (a draft has
the stored result of every batch), which the refinement implies. `IInv` adds
`CountsOk`: as long as an owner holds the job, the attempts it read for batches
ahead are those in the table, so the attempt it counts before a call is not one
another owner has used; and `MergeOk`: the SUCCEEDED batches in a merging
owner's copy are SUCCEEDED in the table with the same results, also when the
owner lost the job long ago. `JobEnds` is only model-checked.

`Refinement` proves `ImplementsLedger`, with `LedgerStatus` (queued and running
are open) and `LedgerResults` (a result counts once its batch is SUCCEEDED) for
the mapping. The ledger's progress goes up by one with each result, while the
code counts SUCCEEDED rows anew (`refreshCounts`), so the proof needs
`DoneIsTrue`: the count is right in every state, and not only where it is
refreshed. That takes every statement that changes a batch's status: the one of
an owner whose lease is gone must change none (`EndBatch` is refused), `Start`
and `Retry` must leave SUCCEEDED batches alone. A merge happens once because a
merging owner's copy has every batch (`MergeOk`) and the draft row is written by
`aggregateJob` only while it is missing. An owner that lost the job may still be
the one that makes the draft, which is why `MakeDraft` does not ask for an open
job.

## 6. The gate of the AI service

`IndexGate` models class `IndexGate` of `supervisor.py` after `start()`:
request threads (`submit`, `wait`), the thread that cancels on a client's
disconnect (`main.py`), the monitor's sweep, recovery threads, the worker
processes, and `shutdown`. What happens under the gate's lock is one step; a
kill, a spawn, the wait for a worker and an unlocked look at `_closed` are steps
between them. `CallAdmission` is what the gate promises its callers: a slot works
for one call at a time with one worker; a call gets its own answer or none; the
count is that of the calls in slots; while the gate is open no worker is taken
from a call that is in, and a worker comes only where the one before is known to
be gone; once closed no worker comes, and a clean shutdown leaves none.

| Model | Code |
|---|---|
| `slot` | a `_Slot`: its process (`none`, `booting`, `up`, `dead`, `stuck`: not confirmed gone), whether it has a pipe, `ready`, `busy`, `recovering`, `stopping`, `failures` |
| `pipe` | the call the worker is at, and the call whose reply waits to be read |
| `recovery` | the recovery of a slot: owed by the thread that claimed it, started, spawning, up; or a sweep that is about to seal the slot |
| `call` | a request thread, its `CallHandle` (`cancelled`, `finished`) and how far its cancel is |
| `gate`, `down` | status, `_closed`, `_pending`; the two passes of a shutdown |

`IndexGate` (the run): 2 slots, 2 calls, symmetry. Two slots are needed for the
status, which is taken over all of them, and for a recovery that ends while the
other slot is being stopped; two calls for a slot that is taken again before an
earlier call's reply was read. Each call is made once and each slot fails at
most twice, so behaviours end and deadlock is not looked for.

The run checks `AnswersAreOwn`, `PendingCounts`, `ReadyIsWhole`,
`RecoveringIsDecided` and `ImplementsAdmission` (893,837 states).

Proved for any finite set of slots and any calls: `TypeOK`, the properties of the
run, and `CleanShutdownIsEmpty`, which the refinement implies and the proof of
it uses. `IInv` adds what ties a call to its slot. A call *owns*
its slot while it is in it, while its cancel is, and while it may still write
to the pipe; a slot has one owner (`CallInv`). An owned slot is in no recovery
that could replace its worker, is busy until the call is cancelled, and is not
ready from then on (`OwnerOk`). What is in a pipe belongs to the owner
(`PipeInv`), which is why an answer is the caller's; a closed gate is neither
ready nor recovering (`ClosedInv`); a slot that is stopping has a cancel, one
that is recovering an owner of that recovery (`SlotInv`), which is why
`RecoveringIsDecided`. The only assumptions are finitely many slots and that
`None` is no call and no slot.

`AdmissionProofs` proves `ImplementsAdmission`. A call is *inside* (`Inside`)
from its checkout until it is answered or cancelled; that is its `Place` in the
abstract gate. The mapping needs more than `IInv`, namely `PlaceInv`
(`CallsHavePlaces`): a call that is inside has a busy slot that no other such
call has (so every cancel and reply takes exactly one off the count, although
the code guards the decrement with `busy` and `> 0`); while the gate is open
its slot has a pipe, so only a shutdown can strand it in `submit`; a live worker
has its pipe; and a recovery that has cleared its slot finds no process there
when it spawns. The last part is what `docs/p4b-runbook.md:54` says of
recoveries. The proof has one lemma per group of steps: those the callers see
map to one abstract step, all others leave `CallStays`, `SlotStays` and
`GateStays`, which make the step a stutter (`NobodySees`). A stranded call keeps
its place and its share of the count for good: the note on `submit` below.

Liveness is not stated: joins and boots have deadlines, but
a kill that cannot be confirmed ends in a stuck process by design.

Notes, without a property:

- `ready` is set before `recovering` is cleared (`supervisor.py:819`). A call
  that takes the slot in between and is cancelled finds a recovery running,
  starts none, and the slot is lost until the service restarts.
- A `submit` during shutdown may find `slot.conn` None: the `AttributeError` is
  none of the errors it catches, and the call stays in `_pending`.
- Two simplifications: `CancelFails` reads `_closed` (`supervisor.py:503`) and
  writes the status (510-514) in one step; a closed pipe that `submit` finds
  during a shutdown (`OSError`) is `SendFindsNoPipe`, like a missing one.
- `_begin_recovery` on a closed gate overwrites the status with `stopped`.
- A thread that cannot be started in `_launch_recovery` (not modelled) leaves
  the status `recovering`; likewise a second concurrent start in stage mode.

## 7. Training checkpoints

`DurableCheckpoints` models full training on rented machines (`asr_full_train`
and the `full_train` cell of notebook 03): a session restores what `LATEST`
advertises, trains, and copies every saved checkpoint into a store; a
synchronisation uploads (aside, copy, place), commits a numbered snapshot,
moves `LATEST` and prunes. Each file operation is a step; a session may stop
between any two, or half way through a copy or removal that is not atomic, with
its disk (`SessionEnds`) or without it (`MachineLost`).

| Model | Code |
|---|---|
| `store`, `aside`, `staged`, `snaps`, `latest`, `summary` | `ckpts/`, `*.bak_replace`, `*.tmp_copy`, `snapshots/`, `LATEST`, `full_train_summary.json` |
| `local`, `localBak`, `localFp` | the checkpoints on the machine's disk and the fingerprint beside them |
| a content | which sessions trained the steps up to it, and the best step its trainer state names; `Broken` is a directory with files missing |
| `session`, `pc`, `line`, `best`, `mode`, `todo` | the session, and why it synchronises |
| `stray` | history: a machine was lost with a snapshot committed and not advertised |

A session may also end after it wrote its summary: the history written next
(notebook 03, 2579) may fail, and every status but `SUCCESS_FULL_TRAINING` fails
the stage (2588). Nothing in the restore or in the cell asks for the summary, so
the stage may be run again, and is in the model. It resumes at `max_steps`,
synchronises without a best checkpoint, pins the best again and writes another
summary. Writing the summary is one step: training never reads it
(`write_full_train_summary`), so a half-written one changes nothing here.

`CheckpointHistory` is what a reader of `LATEST` is promised: a checkpoint that
stays advertised keeps its bytes, the newest one never gets older, a run is
reported finished with a best checkpoint that is advertised at that moment, and a
finished run goes no further. It does not promise that the best one stays
advertised: a rerun breaks that (below).

| Run | Bounds | Shows |
|---|---|---|
| `TrainSafety` | 5 saves, 3 sessions, 11 snapshots, budget 4 | `RetainedSnapshotsResolve`, `SnapshotsAreOneLine`, `SnapshotsFitBudget`, `ResumesAdvertised`, `FinishedRunStands`, `ImplementsHistory` |
| `TrainBest` | 2 saves, 2 sessions, 6 snapshots, budget 4 | violates `BestIsKept` |

Five saves exceed what is retained, so rotation and pruning happen; three
sessions are one that is interrupted, one that repeats its steps, and one that
reads what both left; eleven snapshots let a run that finished in one session be
run again twice (five saves, and two synchronisations at the end of each).
`FinishedRunStands` is what survives of a finished run: `LATEST` has the last
checkpoint, which names the summary's best one, and has that one too unless the
synchronisation at the end of a rerun came last. Sessions are not obliged to be
started, so no liveness.

Proved for any number of saves, sessions and snapshots and any budget: all
that `TrainSafety` checks.

- `CheckpointProofs`: `TypeOK` and `RetainedSnapshotsResolve` from
  `SnapshotInv`, `UploadInv` (what is being uploaded is no snapshot's),
  `CommitInv` and `BestInv`; `SnapshotsFitBudget` from `RoomInv`: the plan counts
  what stays in the store and what it will add, the copies change neither, and
  the commit adds only what was counted.
- `CheckpointLineProofs`: `SnapshotsAreOneLine` and `ResumesAdvertised` from
  `LineInv`: until a machine is lost with a snapshot committed and not
  advertised, all that snapshots declare and the disk has of a step is one line
  (`OneLine`), within reach of what `LATEST` declares or the disk has
  (`WithinReach`), which a session that has resumed continues (`Continues`). It
  needs that a snapshot takes from the store only what the disk or an earlier
  snapshot has (`ReuseInv`: an orphan of an earlier attempt is replaced first),
  that a restore leaves all of `LATEST` on the disk and nothing half replaced
  (`RestoreInv`), that no earlier snapshot reaches further than `LATEST`
  (`ReachInv`), that rotation spares the newest checkpoint (`CurrentInv`), and
  that a checkpoint of step s was trained for s steps (`LengthInv`).
  `FinishedRunStands` and `ImplementsHistory` follow from `FinishInv`: once there
  is a summary, whatever any snapshot or the disk has of the last step names the
  summary's best one, because a rerun restores that checkpoint (`RestoreInv`) and
  trains no further. It needs that a synchronisation of such a session carries the
  last checkpoint to the store, the snapshot and `LATEST` (`ModeInv`, `CarryInv`),
  and the best one beside it when it pins, and that the best step in memory is
  the one the newest checkpoint names (`BestNamedInv`).

Divergence: the synchronisation after `trainer.train` does not name the best
checkpoint, so a machine lost before the pinning one leaves a next session that
restores without the best and prunes it, although `asr_full_train.py:909` says it
is always protected. `TrainBest` shows it. The pin itself does not end this: a
rerun after the summary advertises the last checkpoint alone first, and if its
machine is lost before it pins the best again, the next rerun restores without
the best and prunes what the summary names; `evaluate` then refuses the run
(`asr_full_train.py:1758`), although the notebook says before the pin (2519) that
retention can never collect that checkpoint. Three sessions reach it, and
`FinishedRunStands` states what is left then: `LATEST` with the last checkpoint
alone, which still names the best one.

Notes: with `stray`, a checkpoint of an abandoned
attempt may be taken for the latest by its step number; a first synchronisation
that is interrupted leaves residue without `LATEST`, and a restore interrupted
before the fingerprint leaves checkpoints without one: both are refused from
then on, until somebody clears them; the prune after an interrupted
synchronisation deletes the previous `LATEST` snapshot.

## 8. What the proofs cover and what stays with TLC

Every safety property of a passing run is a theorem, in eight proof modules:
34 of the 39 properties; the other five are the liveness properties below. Each
modelled part has an abstract specification, and that the part implements it is
a theorem: `SourceServing`, `Conversation`, `ActiveVersion`, `DraftLedger`,
`CallAdmission`, `CheckpointHistory`. Every inductive invariant was first checked
by TLC on the
bounds of its run. Proofs are for every value of the constants under the named
assumptions, which TLC evaluates in the runs.

Out of the prover's reach, and checked by TLC only: liveness under fairness
(`ProcessingIsDecidedOrRecoverable`, `DispatchSettles`,
`AbandonedGenerationIsCleaned`, `WaitersEnd`, `JobEnds`) and ENABLED; induction
over data, and recursive operators, which no module here needs.

`CHECK_DEADLOCK` is off in every configuration: clients may stop asking, and
the finite pools of dispatches, attempts, calls and sessions run out.

## 9. Not modelled

- Idempotency rows of index requests but for the replay the saga relies on
  (replays are stutters elsewhere), audit rows, progress columns.
- OCR, chunking, embedding, retrieval ranking, slot extraction, model calls,
  and the merging of batch texts: sequential computation without shared state,
  inside one step of the modules above. The decision engine and `aiextract` are
  pure functions; `ChatTurn` chooses among their outcomes.
- A transcription, a session's creation and an upload are one call and one
  insert each; what they promise beyond that is a unique index of the database.
- Routing, authentication, rendering, configuration parsing, the web client.
- Starting the gate, its health report and the scan for members of a killed
  group; synchronous indexing and the stub worker.
- Speech research beyond section 7. The notebooks and `rq2_*`, `data_utils`,
  `vov4_*` scripts, which are most of the repository's Python lines, prepare
  data, train and score in one process, started by hand, without concurrent
  readers; a step that fails is started again by its author. What they keep on
  disk follows the pattern of section 7 in small (stage, seal, rename, verify,
  move `CURRENT`). Three observations from reading them: `CURRENT` moves before
  the flat files beside it are written, so a crash in between leaves them of
  two generations; a resumed production run refuses damaged shards when
  matching instead of dropping them; and a shard interrupted between its partial
  output and the saved state is checked again, although the docstring says a
  shard is never re-QA'd.

The map therefore covers a small share of the repository's Python lines. The
service's core is written in Go and is covered in the parts above.

## 10. State of the plan

Done: index system, chat turns, activation and its saga, drafting jobs, the
gate, training checkpoints; safety and the refinement of an abstract
specification proved for all of them. What a next step could add, in this order: the start
and the health report of the gate; the link of a transcription to the turn that
used it, beside `ChatTurn`; the object left behind by an interrupted upload; the
decision engine's missing-slot computation and the chunker as functions checked
against reference definitions.
