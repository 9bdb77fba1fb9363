# audit-go: models, checks and proofs

audit-go is the backend of an auditing tool: documents of joint ventures are
registered or uploaded, parsed by background workers, split into chunks, and
read by people who sample them and ask questions about them. Users sign in
through Entra ID and work inside regions and joint ventures their memberships
name. The program is one HTTP server (`cmd/audit`) that also runs the background
loops, a second binary that runs only the file worker (`cmd/worker`), one
PostgreSQL database, one blob store and one parsing service.

This directory holds TLA+ models of it, the TLC configurations that check them,
and theorems about them that TLAPS checks. Paths of source files are relative to
the repository's root; `usecases.go` without a directory is
`internal/features/documents/app/usecases.go` and `repository.go` is
`internal/features/processing/postgres/repository.go`.

## 1. The system

All durable state is in the database. Every process may be stopped between any
two statements; what was not committed is gone. Concurrency comes from HTTP
requests (one goroutine each), from the two or three background goroutines of a
server and from several processes on one database.

| Component | State | Operations | What makes it correct |
|---|---|---|---|
| Document use cases (`internal/features/documents`) | `documents.status`, a client-chosen or generated storage key | register, request upload, complete upload, delete; get, status, chunks, list | status never ahead of the job; a submission is recorded once in every table; nobody overwrites a later state with an earlier one |
| Job queue (`internal/features/processing/postgres`) | `processing_jobs`: status, attempts, max_attempts, available_at, locked_until | save, claim, complete, fail | one worker per job; settled jobs stay settled; every job is eventually claimed; bounded attempts |
| Outbox (`processing/postgres`, `worker/outbox_publisher.go`) | `outbox_events`: status, attempts, created_at | save with the document, publish (create the job), count a failure | every event leads to its job, once; attempts are counted; it drains |
| File worker (`worker/file_worker.go`) | its snapshot of the claimed job | poll, download, parse, chunk, complete or report a failure; stop | no work lost on a crash, no result of a late worker counted, chunks cover the text |
| Storage objects and blobs (`internal/platform/storage`) | `storage_objects` by (container, key): owner, verified_at, checksum; blobs in Azure | sign URL, get properties, open, save | the row describes the blob its document reads |
| Audit trail (`internal/features/audit`) | `audit_events` | append | what happened is recorded as often as it happened |
| Sessions and sign-in (`internal/features/access`) | auth states, access sessions, refresh tokens by family, cookies, a principal cache per process | login, callback, refresh, logout, authenticate, cleanup | one live token per family; a revoked family stays revoked; reuse ends the family; a state is used once |
| Memberships and authorization (`internal/features/access`) | memberships, roles, permissions | grant, list, revoke; check a region, a venture or a document | access exactly as the memberships say |
| Regions, joint ventures | rows with a status | create, update, delete (cascades) | no lost update; status moves only as the domain allows |
| Prompts and chat | prompts, versions, executions | create, new version, approve, deprecate, chat | versions numbered without gaps; the active version is an approved one; no chat uses a deprecated version |
| Sampling | rule sets, runs | create rule set, create run, preview | one active rule set per venture; limits respected |
| Transactions (`internal/platform/postgres/tx.go`) | one open transaction per request | begin, commit, roll back | all or nothing; no deadlock |
| HTTP platform, identity provider, parser client | keys cached from the provider | request plumbing | none of its own, but for the key cache |

**How they interact.** A request for a document writes the document, its storage
object, an audit event, an outbox event *and* the job, in one transaction. The
publisher turns pending outbox events into jobs; since the job is normally there
already, its insert does nothing (`ON CONFLICT (idempotency_key) DO NOTHING`).
A worker claims a job under a lease (`locked_until`), fetches the blob, calls the
parsing service and commits the artifacts, the document, the job and an audit
event together, or else records a failure that schedules a retry or gives up.
The document's status and the job's status are two columns of two tables that
four separately written transactions must move together.

**What is hard.** Leases are never renewed and a download has no deadline, so a
worker may report after its job was given to another; job updates find the row
by id alone. A worker may die at any point. The answer of a commit may be lost.
Upload-complete reads the row, checks it and the blob, and only then opens the
transaction in which it writes the row it read. Deleting a document leaves its
job, its outbox event and its storage object. A poll takes the first job in
`available_at` order, skipping locked rows. Outside the pipeline, use cases of memberships, regions
and joint ventures check a permission in one statement and write in another; an
update of a joint venture writes back the whole row it read; two rule sets
saved at once do not see each other; documents and ventures are deleted while runs
that refer to them are saved. All these are in the models below.
`PROJECT.json` lists each hazard at its line, with the properties that watch it.

## 2. The plan

Ordered by what the system is for: first the pipeline, then who may use it.

| # | Module | What it models | State |
|---|---|---|---|
| 1 | `DocumentPipeline` | documents, jobs, leases, outbox, storage, audit, workers | done |
| 2 | `DocumentLifecycle` | abstract: the life of one document as a user sees it | done, proved to be implemented |
| 3 | `DocumentPipelineProofs` | consistency under every fault, bounded attempts, exclusion under leases, the life of a document | done, proved |
| 4 | `Sessions`, `SessionsProofs` | sign-in, rotation of refresh tokens, reuse, logout, cleanup | done, proved |
| 5 | `Prompts`, `PromptsProofs` | writing, approving, deprecating and using versions, concurrently | done, proved |
| 6 | `SampleSelection`, `Previews`, `PreviewsProofs` | how a sample is chosen: filters, scores, rules, ranking, limits | done, proved |
| 7 | `Sampling`, `SamplingProofs` | rule sets and runs statement by statement, beside deletions | done, proved |
| 8 | `Access`, `AccessProofs` | roles, memberships, the authorizer, listings, delegation | done, proved |
| 9 | `Ventures`, `VenturesProofs` | the rows of regions and joint ventures, updates that race | done, proved |
| 10 | `JobTransactions`, `JobTransactionsProofs` | the job transactions statement by statement, with row locks; implements `DocumentPipeline`; deadlock | done, proved |
| 11 | `Outbox` | the publishers: the order of the queue, failures counted, transactions lost | done, proved in `JobTransactionsProofs` |
| 12 | `PrincipalCache` | cached roles beside a revocation | planned |

`Sampling` uses `SampleSelection` to choose the documents of a run, and so does
`Previews`. `JobTransactions` refines `DocumentPipeline`, which it extends: the same
variables and one more. `Access` and `Ventures` describe the same tables from two sides: `Access`
keeps which regions, ventures and memberships exist, `Ventures` what the rows of
regions and ventures say.

Every safety property, action property and refinement that a passing run checks is also stated
by a theorem. What stays with TLC is liveness, which is out of the prover's reach:
`EveryDocumentSettles`, `OutboxDrains` (of `Outbox`), `ExpiredTokensGo` and `SavesEnd`.

## 3. `DocumentPipeline`

### State

| Variable | In the code |
|---|---|
| `docs` | `documents.status`; `"none"` before the row, `"removed"` once it was deleted |
| `artifacts` | documents with a `document_parse_results` row (its chunks come and go with it) |
| `storage` | `storage_objects` by key: the owning document, `verified_at` set, checksum set |
| `blobs` | keys with a non-empty blob in the store |
| `urls` | documents whose signed upload URL reached the browser |
| `audit` | how many audit events of each action name the document |
| `outbox` | `outbox_events` of the document, pending and published |
| `jobs` | `processing_jobs`: status and attempts (`idempotency_key` makes it one per document) |
| `leaseLive` | `locked_until > now()` |
| `due`, `ahead` | `available_at <= now()`, and the order of `available_at` among due jobs |
| `workers` | a worker's place in a poll and its copy of the claimed job's `attempts` |
| `requests` | an upload-complete request between its checks and its transaction |
| `faults` | counts of the injected faults, to bound them |

The status of a job and of a document are the code's strings. Ids are the
documents themselves: the job's idempotency key is derived from the document, so
a document has at most one job. Time is not counted; only what a comparison with
the clock can tell is kept.

### Actions

| Action | Code |
|---|---|
| `CreateDocument` | `CreateDocumentUseCase.Execute`, one transaction |
| `RequestDocumentUpload` | `RequestDocumentUploadUseCase.Execute`: the transaction, then signing, which may fail |
| `PutBlob` | the browser's PUT to the store (external) |
| `BeginUploadComplete`, `FinishUploadComplete`, `AbandonUploadComplete` | `CompleteDocumentUploadUseCase.Execute`: the checks; `saveCompletedUpload`; an error or a cancelled request |
| `DeleteDocument` | `DeleteDocumentUseCase.Execute` |
| `PublishNextOutboxEvent` | the repository's method of that name, when it publishes; which event it takes, and what else may become of it, is in `Outbox` (section 5) |
| `SelectJob`, `CommitClaim`, `AbortClaim` | `ClaimNextJob`: the locking select; the updates and the commit; the rollback when the document is gone. They are apart because other claims run in between and skip the locked row |
| `CompleteParseJob` | `processJob` succeeding and `CompleteParseJob` committing |
| `CompleteUnacknowledged` | the same commit when its answer never arrives |
| `RecordJobFailure` | any error of `processJob` followed by `RecordJobFailure` |
| `Interrupt` | the process stops, or its context is cancelled, or the failure cannot be recorded |
| `LeaseRunsOut`, `LeaseOverrun`, `BecomeAvailable` | the clock passing `locked_until` with nobody working, with its holder still working, and `available_at` |

A transaction that updates a job row which an open claim holds waits for it: the
guard `~RowLocked(d)`. Transactions other than the claim are one step each. That
PostgreSQL's row locks justify this is not assumed but proved, of `JobTransactions`
(section 4), and two things in the module are there because that refinement failed without them:

* `SelectJob` may pass over a job that is due when a worker is still working on it
  whose lease has run out: that worker's report may hold the row;
* `RecordJobFailure` may leave a document alone that is there (`PutBack`): its update found
  no row, and before it commits an upload-complete puts the deleted document back.

`CreateDocument`, `GetDocument` and the other operations also check input and
permissions first; a refused request changes nothing and is no step.

Nothing in upload-complete asks whether a URL was ever signed: a document whose signing failed
is listed like any other (`ListDocumentsByJV`), and any contributor may complete it.
`BeginUploadComplete` has no such guard either. What keeps that document from being queued is that its
file is missing, as long as no other document has its key: `UploadVerifiedBeforeQueued`.

### Abstract specification

`DocumentLifecycle` is what a user who watches one document is promised: it
waits for an upload, is queued once, is processed until parsed or failed for
good, no outcome is taken back but by removal, and a parsed document has its
result. `DocumentPipeline` instantiates it with `status <- docs` and
`results <- artifacts`; `ImplementsLifecycle` is checked as a property and proved. It needs
two assumptions the code does not enforce: that leases outlive the work, and
`UploadsUndisturbed`, that while an upload-complete request is open its document
is not deleted and no second request for it is open.

### Runs

All instances use `MaxAttempts = 2` where the code has 5: two attempts are enough
for a retry, a last attempt, and a stale snapshot of an earlier attempt. Two workers and two requests are what every race
in the code needs; one document of each kind, because documents interact only
through the order of the queue and, when they share a key, in its storage object. In
`pipeline_leases` they share one, elsewhere each has its own. Permuting workers or
requests is sound: the specification treats them alike, and symmetry is used in
runs of safety properties only. Deadlock is not checked because the system may
stop: once every document has settled nothing remains to be done.

| Run | Bounds | Shows |
|---|---|---|
| `pipeline_faults` | 2 workers, 2 requests, 1 overrun, 1 lost commit, deletions | the consistency of documents, jobs, artifacts, outbox, audit and storage whatever happens |
| `pipeline_leases` | fair; 2 workers, 1 request, 2 interruptions, the direct document deleted, both with one key | exclusion and finality while leases outlive the work; what a storage object says is true of the document that owns it now; implements `DocumentLifecycle`; every submitted document settles unless a removed one holds it up |
| `pipeline_stuck` | 2 requests | **violated**: a late upload-complete puts a parsed document back to `queued` for ever |

The last is a disagreement with what the repository says of itself: `queued` is
documented as "Job de processamento criado". With one request at a time a document in
`queued` always gets out of it, which `pipeline_leases` checks as `EveryDocumentSettles`.

`AttemptsAccounted` holds attempts from both sides. `DeadLetterIsEarned`: a dead-lettered job had
all of its `max_attempts`. `AttemptsWithinBudget`, the sharpest upper bound that does hold:
`max_attempts` plus one for each interruption and each overrun.

The key of a `POST /documents` is chosen by the client, so a second document may take over the
storage object of the first, whose parse is still under way and will want to write its
checksum. `ObjectSpeaksForOwner` says what is left to believe of an object then. It does not
say that the blob is the owner's: one key holds one file, and documents that share it share the file.

Three more behaviours of the
code are in the model as they are, and limit what can be promised:

* a worker that outlived its lease completes a job its successor completed
  already, since the update finds the job by id alone; so `ParsedOnce` and `SettledIsFinal`
  are checked, and proved, only while leases outlive the work;
* the claim takes a job back without looking at `max_attempts`, so a file that
  kills its worker is tried for ever; hence the other terms of `AttemptsWithinBudget`;
* the claim of a deleted document's job is rolled back, and selected again by
  the next poll, before the jobs behind it; so `EveryDocumentSettles` excepts a
  document that `HeldUp` says is behind such a job for ever, and no other.

### Fairness

`FairSpec` assumes that a worker keeps polling (the ticker of
`FileWorker.Start`), that a claim transaction once begun ends, that a job in
progress ends in success or failure (a client's timeout, or the parser's answer),
and that the clock passes `locked_until` and `available_at`. Nothing is assumed of
users or of the publisher, and not that any parse succeeds: `WF_vars(CompleteParseJob(w) \/
RecordJobFailure(w))` is fairness of the pair. Weak fairness is enough: a worker
that can select stays able to until someone else takes the job, and each
document's own actions stay enabled until they are taken.

### Proofs

Every theorem holds for all values of the constants that satisfy
`ConstantsAssumption` (disjoint kinds of documents, a key for each, at least one attempt).

`DocumentPipelineProofs` has five parts:

* whatever the faults: `TypeCorrect`, whose content is that counters stay natural
  numbers and that a worker at work, and a job in the queue, are about a document; and seven invariants, all from one inductive invariant,
  `Coherent == TypeOK /\ Actors /\ Records`. None of the seven is inductive alone.
  For example `DocumentFollowsJob` survives `RecordJobFailure` only because a
  worker at work is about a document whose job exists (`WorkerHasJob`), and
  `DeadLetterIsEarned` only because a worker's copy of `attempts` is never ahead of the
  table (`SnapshotNotAhead`); `ParsedIsBacked` needs a key used by one document to
  be owned by it (`ObjectOwned`). The URL of a document in `UploadVerifiedBeforeQueued` comes from its file
  alone: a file under a key of one uploaded document arrived through its URL (`BlobsSent`). `Actors` collects what is true of workers, requests
  and the queue; `Records` what is true of the tables. There is one lemma for each action.
* storage objects, however keys are shared: `ObjectsSpeak`. It is inductive beside `Coherent`,
  because every step leaves the objects alone, takes one over as new, or writes a checksum to an
  object that its document owns (`ObjectWritten`), while jobs and audit events stay (`JobsStay`);
* while leases outlive the work: the properties that need
  `LeasesOutliveWork`, that is, no overrun and no lost commit, for any number of
  workers, requests and deletions. The
  strengthening `Leased` says that a worker at work holds the last claim, its
  job is running and its lease is live. From it follow exclusion, one parse per document,
  that settled jobs do not change, and `LeaseHonoured`, that no claim is granted over
  a live lease (proved and not checked by a run).
* while uploads are undisturbed: `InStep`, that a document shows exactly what its job is
  doing, that an open request is about a document that still waits for its upload, and that what was
  deleted stays deleted. Here `UploadsUndisturbed` is assumed of the
  behaviour and not of the constants, so the theorems speak of every behaviour of any number of
  clients in which no upload-complete happens to be disturbed. `QueuedWorks` says that then
  the documented meaning of `queued` is true, which run `pipeline_stuck` refutes
  in general; with `LeasesOutliveWork` as well, `LifecycleImplemented` maps every step
  of the pipeline to a step of `DocumentLifecycle` or a stutter. `OneClientLifecycle`
  derives the same from the constants alone, as the run `pipeline_leases` has them: one client, and uploads
  that nobody deletes.
* the attempts of a job: `AttemptsBounded`, whatever the faults. `AttemptsWithinBudget` does not look at
  the workers, and is far from inductive: a worker that lost its lease can still schedule one more
  attempt. `Budgeted` balances the account: the attempts made, those
  the job is still entitled to, one for each worker whose report would schedule the job
  again (`Reschedulers`, counted with the library's facts about cardinality), and one
  if the job may be claimed and nobody is making the attempt (`Open`), are at most
  `MaxAttempts` and the unreported ones. A claim spends the
  one of `Open`; a report turns a rescheduler into it; only an interruption or an overrun adds
  one. That a number of an attempt names one worker is `OneLeaseHolder`.

Only model-checked: the liveness property `EveryDocumentSettles`.

## 4. `JobTransactions`

### State

Everything in `DocumentPipeline`, and `tx`: for each actor the kind of its transaction and how
many of its row locks have been granted. The actors are the workers, the requests of
upload-complete, and the deletions; of two deletions of one document the second waits for the
row and finds none, so a deletion goes by the document's name. What a transaction has written shows when it commits, and until then it
holds what it has locked.

`Wanted` lists the locks of a transaction in the order of its statements. An insert that
refers to the document takes a share of the document's row, which a non-key update tolerates
and a deletion does not (`Compatible`); a deletion reaches the parse result by the cascade of
its foreign key.

| Transaction | Locks, in order | Source |
|---|---|---|
| claim | job (`SKIP LOCKED`), document | `ClaimNextJob` |
| completion | result, share of the document at a first parse, storage object, document, job | `CompleteParseJob` |
| failure | job, document | `RecordJobFailure` |
| upload-complete | document, storage object | `saveCompletedUpload` |
| deletion | document, result if there is one | `DeleteDocumentUseCase.Execute` |

The job that an upload-complete inserts is `ON CONFLICT DO NOTHING`: it updates no row
another holds.

### Actions

| Action | Code |
|---|---|
| `LockRow` | the next statement gets its row, when no other transaction holds it |
| `SelectForUpdate`, `ClaimCommits`, `ClaimFindsNoDocument` | `ClaimNextJob`: the select, the commit, the rollback when the update of the document finds nothing |
| `BeginComplete`, `ParseCommits`, `ParseCommitsUnheard` | `CompleteParseJob`, its commit heard or not |
| `CompleteFindsNoDocument`, `CompletionFails` | its error, after which a failure is recorded |
| `BeginFailure`, `FailureCommits` | `RecordJobFailure` |
| `FailureFindsNoDocument` | its update of the document finds no row, and it goes on with the job alone |
| `BeginUploadTx`, `UploadCommits`, `UploadFails` | the transaction of upload-complete |
| `BeginDeletion`, `DeletionCommits`, `DeletionFails` | the transaction of a deletion |
| `InterruptTx` | the worker stops: its transaction is rolled back |

Registrations, the publisher, the browser and the clock lock nothing another
transaction may hold, and are the actions of `DocumentPipeline`. A transaction that the database
ends to resolve a deadlock is one that fails.

### Run

`job_transactions`: one uploaded document that may be deleted, two workers, two requests, two attempts, one
fault of each kind. Rows belong to one document each and a transaction to one document, so a second document
adds no waiting; the order of the queue between documents is left to the proof.
Two workers and two requests put every pair of transactions at work on one document, the
late worker's and its successor's included, next to a deletion. Workers and requests are
symmetric. Deadlock (of the whole system) is not checked: the system may stop when all is settled.

`TransactionsAreAtomic` is the whole of `DocumentPipeline` as a property: every commit is
a step of it and every other statement a stutter. `DeadlockNeedsLateness` is about the
hazard in the order of locks: completion locks the document before the job, claim and failure the job
before the document. Transactions wait for each other in a circle only when one of them belongs to
a worker that lost its lease, to a second upload-complete of the same document, or to a deletion of a document that is
being parsed again. In ordinary operation the database has nothing to resolve.

### Proofs

`JobTransactionsProofs` proves `TransactionsAreAtomic` for any documents, workers and
requests, and by it carries the theorems of `DocumentPipelineProofs` over to the statements:
`TransactionsFollowJob` is one. It assumes `PartiesAssumption`: each document has a storage object of
its own, and the names of actors differ. The inductive invariant `TxInv` consists of

* `Coherent`, the invariant of the pipeline, which every step of the pipeline keeps;
* `TxTyped`, so that a count of locks says which are held;
* `Engaged`: a transaction belongs to what its actor is doing; and a failure that found no document holds the
  job, and the document is still away or was put back;
* `Apart`: locks held by different transactions are compatible. From it follows that a job is updated by no
  one while a claim is open, which is the pipeline's `RowLocked`;
* `Found`: a document that a transaction has locked stays there until it ends;
* `Buried`: a removed document has its audit event, by which `PutBack` knows one that came back.

`DeadlocksNeedLateness` proves `DeadlockNeedsLateness` for circles of any length and any
number of workers, clients and documents. Its argument does not follow the circle. Every transaction of a circle
holds a lock and is waited for, so there are two that hold locks of one document, and
what they are decides: two upload-completes would both hold the document's row; an
upload-complete beside a worker is not the first, since the worker has a job; a
deletion, once it holds the row, waits only for a completion that holds the parse result, so the document is being
parsed again (`DeletionWaits`); and of two workers one is late (`WorkersCollide`): a claim in progress is
for an attempt nobody is making (`ClaimsAreOpen`), and of two that are processing one
would have the other's attempt number (`OneLeaseHolder`).

## 5. `Outbox`

Every server process runs a publisher, so there are several. Each takes the oldest pending event that no
other has locked (`ORDER BY created_at`, `FOR UPDATE SKIP LOCKED`, `LIMIT 1`) and ends its transaction in
one of four ways. What publication does to the jobs is left to `DocumentPipeline`: the event's job is
there already (`SubmissionsAccounted`), so its insert does nothing.

| Variable | In the code |
|---|---|
| `events` | `outbox_events`: status, attempts, `created_at` |
| `claims` | the row each publisher has locked, with its `attempts` as read |
| `errors` | transactions lost so far, to bound them |

| Action | Code |
|---|---|
| `SaveEvent` | `SaveOutboxEvent`, in a submission that commits |
| `ClaimNextOutboxEvent` | `claimNextOutboxEvent` |
| `MarkOutboxPublished` | `publishOutboxEvent` succeeds, `markOutboxPublished`, commit |
| `RecordOutboxPublishFailure` | `publishOutboxEvent` fails before it writes; the attempt is counted, commit |
| `RefuseJob` | the row does not scan, or the statement that saves the job fails: the rollback |
| `LoseTransaction` | an error that passes: of the connection, of the commit, or the process stops |

The failures differ in what they leave. An event of an unknown type, or without a document or a key
(`Unreadable`), fails before anything is written, and the same transaction counts the attempt and gives up at
`maxOutboxPublishAttempts`. When the *database* refuses the job (`Refused`), the transaction is aborted,
the update that should count the attempt fails as well, and the event is back at the head of the queue as it was;
likewise when its payload is no object and does not scan. The program writes neither kind of event; the
table may hold those of another version. `created_at` is taken from the clock of the submitting server, before
the commit, and so may say any order, equal times included.

Run `outbox` has two events in order, one of each other kind, two times, two publishers, two attempts and
one lost transaction: enough for an event to be skipped because it is locked, for a lost transaction between
two attempts, for both publishers on one event one after the other, and for a failing event
before, between and after the others. Deadlock is not checked: every event may be settled.

* `AttemptsCounted`: an event is published in one counted attempt, and given up only if it is not understood,
  after exactly the attempts it may have; the decision is taken from the attempts as they were read.
* `OutboxDrains`: every pending event is settled in the end, *unless* an event that fails its transaction
  each time, no younger than it, is pending for ever (`HeldBack`). Without that exception the property is
  violated: the publisher comes back to the oldest event on every tick. This is the behaviour of the code
  (`repository.go:321`), and with events of this version alone there is no such event. An unreadable event
  holds up those behind it only until it is given up.

`FairOutboxSpec` assumes that each publisher claims again and again (the ticker of `OutboxPublisher.Start`) and
that a transaction, once begun, ends. Lost transactions and events that are saved later, with an earlier time
perhaps, only delay an event: an instance has finitely many of both.

`AttemptsAreCounted` and `SettledEventsAreLeft`, in the last section of `JobTransactionsProofs`, prove for any events,
publishers and limit that `AttemptsCounted` holds and that nobody touches an event that another has published
or given up (`SettledEventsStay`, proved and not checked by a run), from `ClaimsHold`: while a publisher holds an event's row,
the event is pending, has the attempts the publisher read, and nobody else holds it. Only model-checked:
`OutboxDrains`.

## 6. `Sessions`

Paths here are in `internal/features/access`.

### State

A sign-in or a refresh answers with a session token and a refresh token drawn
together; the pair is a *grant*, and a browser holds the two cookies of one
grant or none. A hash stands for its token, so a grant is also the key of its rows.

| Variable | In the code |
|---|---|
| `authStates` | `access_auth_states`: not there yet, open, expired, or deleted |
| `tokens` | `access_refresh_tokens` of each grant: live, revoked or deleted; past `expires_at`; `replaced_by_hash` set |
| `sessions` | `access_sessions` of each grant, likewise |
| `family` | `session_id` of a grant's rows, named after the first grant of the sign-in |
| `jar` | the cookies of each browser |
| `requests` | a request between two calls to the store: what it read, drew and was sent |
| `started` | which authorization attempt let a grant's sign-in through (history) |
| `reused` | families whose reuse was detected (history) |
| `losses` | requests that ended without an answer, to bound them |

### Actions

| Action | Code |
|---|---|
| `LoginURL` | `AuthService.LoginURL` |
| `BeginCallback`, `IssueSession`, `IssueToken` | `CompleteCallback`: `ConsumeAuthState`; `createSession`; `CreateRefreshToken`. The exchange with the provider is one of the ways to `Fail` in between |
| `BeginRefresh` | the handler reads the cookies; `Refresh` draws the next token and reads the clock |
| `LockToken`, `RefuseToken`, `DetectReuse` | `RotateRefreshToken` up to its decision, on the locked row |
| `RotateToken` | the rest of `RotateRefreshToken`, and its commit |
| `RevokeOldSession`, `RenewSession` | the two calls of `Refresh` after the rotation |
| `BeginLogout`, `EndSession`, `EndToken` | `Logout` |
| `Fail` | any call returns an error: what was committed stays |
| `Answer` | the handler writes all cookies, clears them, or leaves them |
| `Lose` | the process stops or the browser is gone; the browser keeps its cookies |
| `ExpireAuthState`, `ExpireSession`, `ExpireToken` | the clock |
| `CleanupExpired` | the cleanup loop of `cmd/audit/main.go` |

Only the rotation holds a row lock between two statements, so it alone is two
steps; the other calls to the store are single statements, or a transaction that
nothing in the model can tell from one. An update that would touch a row an open
rotation holds waits (`RowFree`).

Two assumptions about data: tokens and states do not collide
(each is 32 random bytes), and `APP_REFRESH_TTL` is longer than
`APP_SESSION_TTL`, as in every configuration the repository shows, so a session
expires before the refresh token issued with it.

### Runs

| Run | Bounds | Shows |
|---|---|---|
| `sessions_races` | 2 requests, 1 browser, 3 grants, 1 attempt, 1 lost answer | the five safety properties below, with requests of one browser that overlap and fail anywhere |
| `sessions_alone` | fair; 1 request, 3 grants, nothing lost | a browser that sends one request at a time and gets every answer is never taken for a thief; every expired token is deleted |

Three grants are a sign-in and two refreshes, enough for a token to be
presented, replaced, and presented again while its successor is replaced in turn;
two requests are enough for every pair of handlers to overlap. Requests and
grants are symmetric where only safety is checked. The bounds limit a run and not the
proofs. Deadlock is not checked: a run ends when its grants are used up.

`DetectReuse` revokes the family and is then rolled back with the error that reports the
reuse, so the family stays usable, although `FRONTEND_API_CONTRACT.md:224` says that
it is revoked. The action is what the code does; `reused` records the detection.

### Fairness

`FairSpec` assumes that a request that can go on does (its calls to the store
return) and that the cleanup loop ticks, which it does when
`AUTH_CLEANUP_INTERVAL` is positive, as by default. Weak fairness of `CleanupExpired` is
enough only because a rotation that holds an expired token's row ends; the run
checks just that.

### Proofs

`SessionsProofs` proves, for any sets of requests, browsers, grants and attempts and any number
of lost answers: `OneLiveToken`, `OneLiveSession`, `LogoutShutsFamily`,
`AuthStateUsedOnce` and `ClosedFamilyStaysClosed`. All follow from one inductive
invariant, `Sound`, with one lemma for each action.

`OneLiveToken` fails to be inductive by itself: `RotateToken` inserts a live token without
looking whether another is live. It is right because a family is a chain, in which only
the last token has no successor (`OneHead`); because the row of a rotating token
is held by one rotation and its token is still live (`Locked`); and because what is inserted is
a grant nobody else knows (`Private`, `Drawn`). `OneLiveSession`
is subtler, for `Refresh` revokes only the session it was *sent* and creates the next one
without a look at the others. It is right because of `Knowledge`: whoever knows a
token that has no successor knows the only grant of the family whose session may
work. So a refresh that gets as far as `renew_session` has seen to the only other session
(`Ended`), and so has a logout before it revokes the token. A browser that sends no
session cookie keeps to this because its session has expired, the
reason for the assumption about the two lifetimes.

`NoFalseReuse` is false when a browser sends two requests at once, or when an answer is lost. `NoFalseAlarm`
proves it for every behaviour with `OneAtATime`: no answer has been lost and no
*browser* has two requests at work, while any number of browsers refresh, sign in and log out
together. Behind it is `Orderly`: each grant is in one jar at most (`JarsApart`),
what a request presented stays in its browser's jar until the answer (`Presented`), and a rotated token
that is still in a jar belongs to a browser whose answer is under way and will take it
out (`OldTokensLeave`). `NoFalseAlarmAlone` is the case of the run `sessions_alone`, a
system with one request that loses no answer, for any number of browsers and grants.

Only model-checked: `ExpiredTokensGo` (liveness).

## 7. `Prompts`

Paths here are in `internal/features/prompts`.

### State

| Variable | In the code |
|---|---|
| `known`, `active` | rows of `prompts`, and their `active_version_id` |
| `versions` | `prompt_versions`: status, prompt, number; `"none"` before the insert |
| `requests` | a request between two calls to the repository: the version it is about, the number it has read, what its statement's snapshot holds |
| `requests[r].barred` | versions deprecated when a chat began and not approved since (history) |
| `raced` | versions whose last approval overlapped a deprecation of them (history) |

### Actions

| Action | Code |
|---|---|
| `CreatePrompt` | `CreatePromptUseCase.Execute` up to `SavePrompt` and its commit |
| `CreateVersion` | `CreateVersionUseCase.Execute` up to `NextVersionNumber` |
| `SaveVersion` | the insert of both; the unique key refuses a number already taken |
| `ApproveVersion` | the transaction of that name, which takes effect as it commits |
| `BeginDeprecate`, `FinishDeprecate` | the one statement of `DeprecateVersion`: its snapshot, and its effect |
| `ChatWith` | `resolveVersion` for a chat that names a version or a prompt: one read |
| `ListPrompts`, `FindVersion` | `resolveVersion` for a chat that names neither: two reads |
| `End` | the answer is saved as a run, or any step fails |

`DeprecateVersion` is two steps because PostgreSQL evaluates one statement against
one snapshot. Its update of `prompt_versions` waits for an approval that
holds the row and then goes on with the row's new contents; but its update of `prompts` looks for a
row whose `active_version_id` is the version *in the snapshot*, and looks at the new contents
only of rows it found there. Hence both conditions in `FinishDeprecate`.

A chat that names no prompt takes the first one listed that has an active version;
the order (by `updated_at`) is left open, so every such prompt may be taken.
Rows of `prompt_runs` are only added, and nothing modelled reads them.
A prompt is never deleted: the repository has no such operation.

### Runs

| Run | Bounds | Shows |
|---|---|---|
| `prompts` | 2 prompts, 3 versions, 2 requests | numbers in order; a deprecated version stays active only by a race; chats keep to what was deprecated before them |

Three versions let two requests draw one number while a third version is there, and
give each prompt a version with one to spare; an approval is a step of its
own, so two requests suffice for a deprecation, a chat and an approval that overlap.
All ids are symmetric. Deadlock is checked: an approval can always be repeated.

A version approved while it is being deprecated does end deprecated *and* active, and
chats with the prompt are then refused until another version is approved.
`StaleOnlyByRace` says that this is the only way to get there.

### Proofs

`PromptsProofs` proves the types, the three properties of run `prompts` and `OnlyItsDeprecationClears`, that nothing
but its deprecation takes an active version away (not checked by a run), for any sets of prompts, versions and requests, from the inductive invariant `Sound`. What has to be added to the properties:

* `NumbersInOrder` needs `Draws`: the predecessor of a number that was read is taken and
  stays taken, for versions are never deleted. The unique key does the rest.
* `StaleOnlyByRace` needs `Sees`: while a deprecation is under way, its version
  is not the active one, or its snapshot has it, or the version was
  approved since. It also needs `Owned`: a prompt's active version is a version of that prompt.
* `ChatsHonourDeprecation` needs `Reads`: a version barred from a chat is
  still deprecated when the chat reads it, because only an approval ends a deprecation.

## 8. `SampleSelection` and `Previews`

Paths in this section and the next are in `internal/features/sampling`.

`SampleSelection` is `BuildPreview` and what it calls, as operators. A document is
reduced to what they read: type, status, `processed`, the time of uploading, and which of
the words the rules look for its name contains. The sort of the code is stable; here it
is the relation `Precedes` and a document's `Rank` in it, so the sample is the set of
candidates whose rank is below the limit. Scores and weights are the code's
numbers. The percentage is rounded up with integers where the code calls `math.Ceil`
on a float, which agree for any number of documents a table holds.

`Previews` puts the operators to work: documents are registered, advance and go, and
a preview (`PreviewUseCase.Execute`) reads them in one listing. The listing is ordered
by `uploaded_at` and leaves the order of documents uploaded at once to the
database, so the model takes every such order. `sampling.go:62` calls the preview
deterministic; it is one for each listing.

Run `previews` takes every choice of up to three documents out of four kinds, two
stages and two times, eight inputs (shares that divide unevenly, values out of
range, a limit, a minimum score, filters) and four choices of rules. Three documents are enough
for one that is chosen, one that is not, and one between them; documents are
symmetric. What it checks are properties of the result that name neither the sort
nor the limit's formula: the sample takes the top, a document that a rule lets in gives way
to nothing below 90, percentage and number are met exactly.

`PreviewsProofs` proves the three for any documents, inputs and rules. The argument for
the first two is that `Precedes` is a strict order, so whoever precedes another has
a smaller rank (`Ranks`) and is not left out before it (`LeftOut`). For the third, the ranks of
the candidates are distinct and below their number, so every rank occurs, and exactly
as many are chosen as the limit says (`Chosen`, by counting with injections).

## 9. `Sampling`

### State and actions

| Variable | In the code |
|---|---|
| `ventures`, `deleting` | rows of `joint_ventures`; those whose row a deletion has locked |
| `documents` | rows of `documents`; `RowOf` says what is in each |
| `ruleSets` | `sampling_rule_sets`, and each saving request: how far it is, and which rows its `UPDATE` found |
| `runs` | `sampling_runs`, their items, and each saving request |
| `runs[r].retired` | rule sets that were inactive when the run was asked for (history) |

| Action | Code |
|---|---|
| `CreateRuleSet` | `CreateRuleSetUseCase.Execute` up to its transaction |
| `FindPreviousSets`, `DeactivatePreviousSets` | the `UPDATE` of `SaveRuleSet`: its snapshot, and its effect when the rows are free |
| `InsertRuleSet`, `CommitRuleSet` | the `INSERT`, which waits for the venture's row; the audit event and the commit |
| `CreateRun`, `ResolveRuleSet`, `SelectDocuments` | `CreateRunUseCase.Execute`: the request, `resolveRuleSet`, listing and `BuildPreview` |
| `InsertRun`, `InsertItem`, `CommitRun` | `SaveRun` and its transaction |
| `AbandonRuleSet`, `AbandonRun` | a statement fails, or the request is cancelled: the rollback |
| `Register`, `DeleteDocument` | a document's row; its items go with it (`ON DELETE CASCADE`) |
| `BeginDeleteVenture`, `FinishDeleteVenture`, `AbandonDeletion` | deleting a joint venture: its row is locked, then the rows that refer to it are deleted |
| `BreakDeadlock` | PostgreSQL's detector ends one of a save and a deletion that wait for each other |

What PostgreSQL contributes (READ COMMITTED snapshots, row locks, foreign keys that hold
the row they refer to, cascades, the detector) is written down in the actions' comments,
from the migrations and the statements in `postgres/repository.go`.

### Runs

| Run | Bounds | Shows |
|---|---|---|
| `sampling` | 2 rule sets, 1 run, 2 ventures, 2 documents, 2 clock readings | the five invariants; that every save ends |

Two sets saved at once do both stay active, since the update of each does not see the other's row,
although the comment of `SaveRuleSet` (`sampling/postgres/repository.go:26`) says that it makes previous sets inactive; no unique index prevents it.
`BothActiveOnlyByOverlap` says that an overlap is the only way to get there.

Two saves, one run and one deletion overlap in every order. Two ventures are needed
for a run that names another venture's rule set. The clocks of two
servers need not agree, hence two readings in any order: a run takes the latest of
the *active* rule sets, and the latest rule set may be inactive. Deadlock
is not checked: ids are used up; that nobody waits for ever is `SavesEnd`.

`Fairness`: a statement with nothing to wait for ends; PostgreSQL grants row locks
in order, so an insert does not wait for one deletion after another (`SF`), a deadlock
is broken after `deadlock_timeout`, an insert whose venture is gone fails. No
fairness is assumed of runs, documents, or of requests being made.

### Proofs

`SamplingProofs` proves the types and all five invariants for any number of rule sets,
runs, ventures and documents. `SomeRuleSetActive` is not inductive: a commit makes one set active
and others inactive at once, and must not find its own set among those, nor sets of another
venture. `Finds` says so: what an `UPDATE` found is saved, of the same venture, and inactive for
good once the finder has committed, from which `BothActiveOnlyByOverlap` follows as well. For runs, `Refers`
says what a run under way has read and written: its items are documents that are still
there and its rule set is saved, or its venture is gone; `Remembers`, that a rule set that was inactive
when the run was asked for is still.

Only model-checked: `SavesEnd`.

## 10. `Access`

### State and actions

| Variable | In the code |
|---|---|
| `regions`, `ventures` | which rows of `regions` and `joint_ventures` exist |
| `memberships` | rows of `access_memberships` |
| `m.source` | not stored: the scope in which the chain of grants left the hands of those who act for the whole system (history) |
| `requests` | an authorized request that has not written yet |

| Action or operator | Code, in `internal/features` |
|---|---|
| `RolesForPermission`, `CanAccessSystem`, `CanAccessRegion`, `CanAccessJV`, `Managers` | `access/access.go`, `access/postgres/authorizer.go` |
| `ListMemberships`, `ListAccessible`, `ListByRegionAccessible` | the listing queries, each with the rules of its own `WHERE` |
| `CreateMembership`, `SaveMembership` | `CreateMembershipUseCase.Execute`: check, and write; likewise for the next pairs |
| `DeleteMembership`, `RemoveMembership` | `DeleteMembershipUseCase.Execute` |
| `CreateRegion`, `SaveRegion`, `DeleteRegion`, `RemoveRegion` | `regions/app`, `regions/postgres` |
| `CreateJointVenture`, `SaveJointVenture`, `DeleteJointVenture`, `RemoveJointVenture` | `jointventures/app`, `jointventures/postgres` |
| `Fail` | the statement is refused or fails |

These use cases have no transaction: the check is one statement and the write
another, and anything may happen in between. A membership is not tied to the region or venture it
names; it outlives it. The first administrator has to be in the table before anyone can
grant anything, which is where `Init` begins.

### Run

`access`: two people, two requests at once, two regions, one venture, two roles to grant, three membership ids.
Two requests are enough to grant a role twice at once, to revoke while a grant is on its way, and to
delete a region while a venture is created in it. Two roles (`admin`, `jv_admin`) and
the three kinds of scopes separate every rule that `Managers` and the listings distinguish for managing; the
proofs cover all roles. Deadlock is not checked: the last system administrator may be
revoked, the code does not prevent it, and then no request is authorized any more.

`DelegationStaysWithin` is about chains of grants: someone who administers one region
grants, those they appoint grant, and so on, while ventures come and go; none of them ever gets
anything outside. `RevokedIsGone` is what the unique index is for. `ListingsAgree` compares three
queries with the authorizer.

### Proofs

`AccessProofs` proves the three properties of the run, `TypeOK`, and two more that
the code's tables decide: `AuthorityIsInherited`, that what a role gives in a scope it gives
below, and `VenturesHaveTheirRegion`. The inductive invariant adds to
`DelegationStaysWithin` that the grants pending in requests stay within their source as well
(`ChainsStayWithin`), that ids differ, pending ones included, and that there is one row for
a user, a role and a scope. At its centre is `ChainGoesOn`: what a membership authorizes is covered by
its source, even when the venture it is about has gone.

## 11. `Ventures`

| Variable | In the code |
|---|---|
| `regions`, `ventures` | the row of each id, or `None` |
| `retired` | ids that were drawn (UUIDs are not drawn twice) |
| `updates` | an update between reading the row and writing it: the row to write, the fields it named |
| `overtaken` | another update was written since this one read the row (history) |

`UpdateJointVentureUseCase.Execute` reads the row (`BeginUpdate`), lays the fields that
were given over it, and writes all of it (`SaveUpdate`); `FailUpdate` is the row that is gone or
a failure. Regions are written in one statement with everything that was sent. `Cleaned`
and `Valid` are the code's normalisation and validation, in its order: parties are cleaned
and then counted, a status is normalised and then checked. A `PATCH` may set any valid
status from any other: `Activate` and `Suspend`, which restrict this, are called by no use case.

Run `ventures` has two regions, one venture and two updates: names with and without blanks,
too few parties, a blank and an unknown status, an update of two fields. Codes `eu` and `EU`
meet after normalisation. `TypeOK` carries the validity of rows and the uniqueness of
codes: a row must stay valid through reading, overlaying and writing.
`OnlyRacesUndo` says that nobody's field changes by an update that did not name it,
unless that update was overtaken: a lost update is possible in the code, and this is
the only way it happens. `VenturesProofs` proves it for any rows and any number of
updates. What it needs is that an update not overtaken holds, in the fields it did not name, what
the row still says (`RowsHeld`), which creation and deletion in between could only break if
an id were drawn again. Deadlock is not checked: ids run out.

`TypeCorrect` proves `TypeOK` from `Tidy`: what a request carries between reading and
writing is a good row (`GoodRow`), good fields laid over a good row are good
(`OverlayIsGood`), and a stored code is as `NormalizeCode` leaves it, so that codes that differ as
stored differ in every spelling. The cleaned list of parties is the restriction of the list to the
positions that are not blank. The code also closes the gaps, which changes neither
the number of the parties nor their order.

## 12. Not modelled, and why

The data of documents, chunks and prompts (texts, file names, chat answers);
the HTTP layer, which has no state; token validation, which is cryptography; the
parsing service, an external program whose answer is a choice in the model;
the migrations, except for the foreign keys, unique keys and cascades the actions rely on.
The splitting of a parsed text into chunks is a sequential function with unit tests; the models
know whether chunks are there.

Left for later, because each needs its own level of detail:

* the cache of roles (`PrincipalByLogin`, `session_repository.go:158`): a role
  that was revoked may count for managing prompts until the entry expires. Sessions are looked up in their
  table on every request, and so are memberships by the authorizer of regions, ventures and documents;
* the cache of the identity provider's signing keys, and start-up and shutdown.
