--------------------------- MODULE DocumentPipeline ---------------------------
(***************************************************************************)
(* The document pipeline: the HTTP use cases that register, upload and     *)
(* delete documents (internal/features/documents), the job and outbox      *)
(* tables they share with the background workers                           *)
(* (internal/features/processing/postgres) and the workers themselves      *)
(* (internal/features/processing/worker).                                  *)
(*                                                                         *)
(* A database transaction is one action, except where the code reads before*)
(* the transaction that uses what it read (upload-complete), or where the  *)
(* transaction holds a row lock that others skip (ClaimNextJob).           *)
(*                                                                         *)
(* Time is not counted.  leaseLive[d] says whether locked_until of the     *)
(* last claim of d's job is in the future; due is the set of jobs whose    *)
(* available_at has passed, and ahead[d] the due jobs with an earlier      *)
(* available_at than d, which is all the claim query looks at.             *)
(*                                                                         *)
(* An operator whose name starts with Slip is a plausible mistake in the   *)
(* definition below it.  No action uses it: it is there to check that the  *)
(* properties notice the mistake.                                          *)
(***************************************************************************)
EXTENDS Naturals, FiniteSets

CONSTANTS
    DirectDocs,   \* documents registered by POST /documents
    UploadDocs,   \* documents created by upload-url and upload-complete
    Deletable,    \* the documents a user may ask to delete
    Workers,      \* file workers, in cmd/audit and in cmd/worker processes
    Clients,      \* concurrent upload-complete requests
    Keys,         \* blob storage keys
    KeyOf,        \* the storage key of each document
    MaxAttempts,  \* max_attempts of a job: 5 in processing.go
    MaxFaults,    \* bound on the faults of each kind in one behaviour
    None          \* no document

Docs == DirectDocs \cup UploadDocs

FaultKinds == {"interrupt", "overrun", "lost_commit"}

ASSUME ConstantsAssumption ==
    /\ DirectDocs \cap UploadDocs = {}
    /\ None \notin Docs
    /\ Deletable \subseteq Docs
    /\ KeyOf \in [Docs -> Keys]
    /\ MaxAttempts \in Nat \ {0}
    /\ MaxFaults \in [FaultKinds -> Nat]

VARIABLES
    docs,       \* documents.status; "none" before, "removed" after the row exists
    artifacts,  \* documents with a parse result and its chunks
    storage,    \* storage_objects by key: owner, verified_at set, checksum set
    blobs,      \* keys that hold a non-empty blob
    urls,       \* upload documents whose signed upload URL reached the client
    audit,      \* number of audit events of each action about a document
    outbox,     \* number of DocumentUploaded events pending and published
    jobs,       \* processing_jobs by document: status and attempts
    leaseLive,  \* is locked_until of the last claim in the future?
    due,        \* jobs whose available_at has passed
    ahead,      \* due jobs ordered before this one by available_at
    workers,    \* what each worker is doing, with its snapshot of the job
    requests,   \* the document each upload-complete request has read and verified
    faults      \* faults so far, by kind

httpVars == <<urls, blobs, requests>>
docVars == <<docs, artifacts, storage, audit>>
queueVars == <<jobs, leaseLive, due, ahead>>
vars == <<docVars, httpVars, queueVars, outbox, workers, faults>>

DocStatus == {"none", "upload_pending", "queued", "processing",
              "parsed", "failed", "removed"}
JobStatus == {"none", "queued", "running", "retry_scheduled",
              "completed", "dead_letter"}
OutboxStatus == {"pending", "published"}
AuditActions == {"upload_requested", "uploaded", "parsed", "deleted"}

Idle == [pc |-> "idle", doc |-> None, attempt |-> 0]
NoObject == [owner |-> None, verified |-> FALSE, checksum |-> FALSE]

Present(d) == docs[d] \notin {"none", "removed"}

-------------------------------------------------------------------------------
(* Updates shared by several handlers. *)

Audit(d, action) == audit' = [audit EXCEPT ![d][action] = @ + 1]

\* What a new job needs.
EnqueueJob(d) ==
    /\ jobs' = [jobs EXCEPT ![d] = [status |-> "queued", attempts |-> 0]]
    /\ due' = due \cup {d}
    /\ ahead' = [ahead EXCEPT ![d] = due \ {d}]

SlipUpsertJob(d) == EnqueueJob(d)

\* ON CONFLICT (idempotency_key) DO NOTHING leaves an existing job as it is.
SaveJob(d) ==
    \/ jobs[d].status = "none" /\ EnqueueJob(d)
    \/ jobs[d].status # "none" /\ UNCHANGED <<jobs, due, ahead>>

SaveStorageObject(d, verified) ==
    storage' = [storage EXCEPT ![KeyOf[d]] =
                    [owner |-> d, verified |-> verified, checksum |-> FALSE]]

SlipNoOutboxEvent(d) == UNCHANGED outbox

SaveOutboxEvent(d) == outbox' = [outbox EXCEPT ![d]["pending"] = @ + 1]

\* The job leaves the claimable part of the table, because available_at moves to
\* the future or the status is final.
LeaveQueue(d) ==
    /\ due' = due \ {d}
    /\ ahead' = [e \in Docs |-> IF e = d THEN {} ELSE ahead[e] \ {d}]

-------------------------------------------------------------------------------
(* The HTTP use cases. *)

CreateDocument(d) ==
    /\ d \in DirectDocs
    /\ docs[d] = "none"
    /\ docs' = [docs EXCEPT ![d] = "queued"]
    /\ SaveStorageObject(d, FALSE)
    /\ Audit(d, "uploaded")
    /\ SaveOutboxEvent(d)
    /\ SaveJob(d)
    /\ UNCHANGED <<artifacts, httpVars, leaseLive, workers, faults>>

\* The document is committed first; signing the URL may then fail.  The document is
\* listed all the same, with its id and its storage key.
RequestDocumentUpload(d) ==
    /\ d \in UploadDocs
    /\ docs[d] = "none"
    /\ docs' = [docs EXCEPT ![d] = "upload_pending"]
    /\ SaveStorageObject(d, FALSE)
    /\ Audit(d, "upload_requested")
    /\ \E signed \in BOOLEAN : urls' = IF signed THEN urls \cup {d} ELSE urls
    /\ UNCHANGED <<artifacts, blobs, requests, queueVars, outbox, workers, faults>>

\* The browser PUTs the file: with the signed URL, or by whatever means put the
\* file of a POST /documents in the store.
PutBlob(d) ==
    /\ KeyOf[d] \notin blobs
    /\ d \in urls \cup DirectDocs
    /\ blobs' = blobs \cup {KeyOf[d]}
    /\ UNCHANGED <<docVars, urls, requests, queueVars, outbox, workers, faults>>

SlipNoBlobCheck(c, d) ==
    /\ requests[c] = None
    /\ d \in UploadDocs
    /\ docs[d] = "upload_pending"
    /\ requests' = [requests EXCEPT ![c] = d]
    /\ UNCHANGED <<docVars, blobs, urls, queueVars, outbox, workers, faults>>

SlipNoStatusCheck(c, d) ==
    /\ requests[c] = None
    /\ Present(d)
    /\ KeyOf[d] \in blobs
    /\ requests' = [requests EXCEPT ![c] = d]
    /\ UNCHANGED <<docVars, blobs, urls, queueVars, outbox, workers, faults>>

\* Outside any transaction: the row is read, access checked, the blob's properties
\* fetched, and nobody asks whether a URL was ever signed.  A document in another
\* status is returned as it is.
BeginUploadComplete(c, d) ==
    /\ requests[c] = None
    /\ docs[d] = "upload_pending"
    /\ KeyOf[d] \in blobs
    /\ requests' = [requests EXCEPT ![c] = d]
    /\ UNCHANGED <<docVars, blobs, urls, queueVars, outbox, workers, faults>>

\* The transaction, with the row as it was read: the upsert takes no notice of
\* what the row has become, or that it is gone.
FinishUploadComplete(c) ==
    LET d == requests[c] IN
    /\ d # None
    /\ docs' = [docs EXCEPT ![d] = "queued"]
    /\ SaveStorageObject(d, TRUE)
    /\ Audit(d, "uploaded")
    /\ SaveOutboxEvent(d)
    /\ SaveJob(d)
    /\ requests' = [requests EXCEPT ![c] = None]
    /\ UNCHANGED <<artifacts, blobs, urls, leaseLive, workers, faults>>

\* The request is cancelled or its transaction fails.
AbandonUploadComplete(c) ==
    /\ requests[c] # None
    /\ requests' = [requests EXCEPT ![c] = None]
    /\ UNCHANGED <<docVars, blobs, urls, queueVars, outbox, workers, faults>>

SlipKeepArtifacts(d) ==
    /\ d \in Deletable
    /\ Present(d)
    /\ docs' = [docs EXCEPT ![d] = "removed"]
    /\ Audit(d, "deleted")
    /\ UNCHANGED <<artifacts, storage, httpVars, queueVars, outbox, workers, faults>>

\* The parse result and the chunks go with the row; the job, the outbox events and
\* the storage object have no foreign key and stay.
DeleteDocument(d) ==
    /\ d \in Deletable
    /\ Present(d)
    /\ docs' = [docs EXCEPT ![d] = "removed"]
    /\ artifacts' = artifacts \ {d}
    /\ Audit(d, "deleted")
    /\ UNCHANGED <<storage, httpVars, queueVars, outbox, workers, faults>>

-------------------------------------------------------------------------------
(* The outbox publisher. *)

\* One pending event becomes a job, if it has none yet, and is marked published.
\* Which of them comes next, and the transactions that end otherwise, is what the
\* module Outbox is about.
PublishNextOutboxEvent(d) ==
    /\ outbox[d]["pending"] > 0
    /\ outbox' = [outbox EXCEPT ![d]["pending"] = @ - 1, ![d]["published"] = @ + 1]
    /\ SaveJob(d)
    /\ UNCHANGED <<docVars, httpVars, leaseLive, workers, faults>>

-------------------------------------------------------------------------------
(* The file workers. *)

\* Worker w has an open claim transaction, which holds the lock of d's job row.
Claiming(w, d) == workers[w].pc = "claiming" /\ workers[w].doc = d

\* Worker w is processing d under some claim, perhaps an old one.
Processing(w, d) == workers[w].pc \in {"working", "failing"} /\ workers[w].doc = d

\* Worker w is processing d under the last claim of its job.
HoldsLease(w, d) == Processing(w, d) /\ workers[w].attempt = jobs[d].attempts

RowLocked(d) == \E w \in Workers : Claiming(w, d)

SlipIgnoreLease(d) ==
    /\ d \in due
    /\ jobs[d].status \in {"queued", "retry_scheduled", "running"}
    /\ ~RowLocked(d)

SlipNeverReclaim(d) ==
    /\ d \in due
    /\ jobs[d].status \in {"queued", "retry_scheduled"}
    /\ ~RowLocked(d)

Claimable(d) ==
    /\ d \in due
    /\ \/ jobs[d].status \in {"queued", "retry_scheduled"}
       \/ jobs[d].status = "running" /\ ~leaseLive[d]
    /\ ~RowLocked(d)

\* The select of the claim query: FOR UPDATE SKIP LOCKED, in available_at order.
\* What it skips may also be locked by the report of a worker past its lease.
SelectJob(w) ==
    /\ workers[w].pc = "idle"
    /\ \E d \in Docs :
         /\ Claimable(d)
         /\ \A e \in ahead[d] : Claimable(e) => \E v \in Workers : Processing(v, e)
         /\ workers' = [workers EXCEPT ![w] =
                            [pc |-> "claiming", doc |-> d, attempt |-> 0]]
    /\ UNCHANGED <<docVars, httpVars, queueVars, outbox, faults>>

SlipClaimJobOnly(w) ==
    LET d == workers[w].doc IN
    /\ workers[w].pc = "claiming"
    /\ Present(d)
    /\ jobs' = [jobs EXCEPT ![d].status = "running", ![d].attempts = @ + 1]
    /\ leaseLive' = [leaseLive EXCEPT ![d] = TRUE]
    /\ workers' = [workers EXCEPT ![w] =
                       [pc |-> "working", doc |-> d, attempt |-> jobs[d].attempts + 1]]
    /\ UNCHANGED <<docVars, httpVars, outbox, due, ahead, faults>>

\* The rest of the claim transaction: the job and its document change together.
CommitClaim(w) ==
    LET d == workers[w].doc IN
    /\ workers[w].pc = "claiming"
    /\ Present(d)
    /\ jobs' = [jobs EXCEPT ![d].status = "running", ![d].attempts = @ + 1]
    /\ leaseLive' = [leaseLive EXCEPT ![d] = TRUE]
    /\ docs' = [docs EXCEPT ![d] = "processing"]
    /\ workers' = [workers EXCEPT ![w] =
                       [pc |-> "working", doc |-> d, attempt |-> jobs[d].attempts + 1]]
    /\ UNCHANGED <<artifacts, storage, audit, httpVars, outbox, due, ahead, faults>>

\* The document row is gone: the claim is rolled back, and the poll ends.
AbortClaim(w) ==
    /\ workers[w].pc = "claiming"
    /\ ~Present(workers[w].doc)
    /\ workers' = [workers EXCEPT ![w] = Idle]
    /\ UNCHANGED <<docVars, httpVars, queueVars, outbox, faults>>

\* The lease of the last claim is over once its holder has reported; the clock
\* decides for anybody else.
LeaseAfter(w, d) ==
    [leaseLive EXCEPT ![d] = @ /\ workers[w].attempt # jobs[d].attempts]

SlipNoChecksum(d) == UNCHANGED storage

SlipChecksumOfAnyOwner(d) == storage' = [storage EXCEPT ![KeyOf[d]].checksum = TRUE]

\* updateRawStorageChecksum: only the row that still belongs to the document.
RawChecksum(d) ==
    storage' = [storage EXCEPT ![KeyOf[d]].checksum = @ \/ storage[KeyOf[d]].owner = d]

\* CompleteParseJob commits: artifacts, checksum, document, job and audit event.
\* The job is found by id alone.
CommitParse(w, d) ==
    /\ ~RowLocked(d)
    /\ Present(d)
    /\ KeyOf[d] \in blobs
    /\ artifacts' = artifacts \cup {d}
    /\ RawChecksum(d)
    /\ docs' = [docs EXCEPT ![d] = "parsed"]
    /\ jobs' = [jobs EXCEPT ![d].status = "completed"]
    /\ leaseLive' = LeaseAfter(w, d)
    /\ Audit(d, "parsed")
    /\ LeaveQueue(d)

CompleteParseJob(w) ==
    LET d == workers[w].doc IN
    /\ workers[w].pc = "working"
    /\ CommitParse(w, d)
    /\ workers' = [workers EXCEPT ![w] = Idle]
    /\ UNCHANGED <<httpVars, outbox, faults>>

\* The commit happens, the answer is lost: the worker sees an error.
CompleteUnacknowledged(w) ==
    LET d == workers[w].doc IN
    /\ workers[w].pc = "working"
    /\ faults["lost_commit"] < MaxFaults["lost_commit"]
    /\ CommitParse(w, d)
    /\ workers' = [workers EXCEPT ![w].pc = "failing"]
    /\ faults' = [faults EXCEPT !["lost_commit"] = @ + 1]
    /\ UNCHANGED <<httpVars, outbox>>

SlipGiveUpLate(attempt) == attempt > MaxAttempts

Exhausted(attempt) == attempt >= MaxAttempts

SlipFailJobOnly(w) ==
    LET d == workers[w].doc IN
    /\ workers[w].pc \in {"working", "failing"}
    /\ ~RowLocked(d)
    /\ jobs' = [jobs EXCEPT ![d].status =
                    IF Exhausted(workers[w].attempt) THEN "dead_letter" ELSE "retry_scheduled"]
    /\ leaseLive' = LeaseAfter(w, d)
    /\ LeaveQueue(d)
    /\ workers' = [workers EXCEPT ![w] = Idle]
    /\ UNCHANGED <<docVars, httpVars, outbox, faults>>

\* A late upload-complete has put back a document that was deleted.
PutBack(d) == d \in UploadDocs /\ docs[d] = "queued" /\ audit[d]["deleted"] > 0

\* processJob returned an error (download, parse or completion) and
\* RecordJobFailure commits, deciding by the worker's snapshot of attempts and
\* finding the job by id alone.
RecordJobFailure(w) ==
    LET d == workers[w].doc
        dead == Exhausted(workers[w].attempt)
    IN
    /\ workers[w].pc \in {"working", "failing"}
    /\ ~RowLocked(d)
    /\ jobs' = [jobs EXCEPT ![d].status = IF dead THEN "dead_letter" ELSE "retry_scheduled"]
    /\ \/ Present(d) /\ docs' = [docs EXCEPT ![d] = IF dead THEN "failed" ELSE "queued"]
       \/ ~Present(d) /\ UNCHANGED docs
       \/ PutBack(d) /\ UNCHANGED docs  \* after the update found no row
    /\ leaseLive' = LeaseAfter(w, d)
    /\ LeaveQueue(d)
    /\ workers' = [workers EXCEPT ![w] = Idle]
    /\ UNCHANGED <<artifacts, storage, audit, httpVars, outbox, faults>>

\* The process stops or crashes, its context is cancelled, or RecordJobFailure
\* itself fails: an open claim is rolled back, a job in progress stays running
\* until its lease runs out.
Interrupt(w) ==
    /\ workers[w].pc # "idle"
    /\ faults["interrupt"] < MaxFaults["interrupt"]
    /\ workers' = [workers EXCEPT ![w] = Idle]
    /\ faults' = [faults EXCEPT !["interrupt"] = @ + 1]
    /\ UNCHANGED <<docVars, httpVars, queueVars, outbox>>

-------------------------------------------------------------------------------
(* Time. *)

\* locked_until passes with nobody working under the lease.
LeaseRunsOut(d) ==
    /\ leaseLive[d]
    /\ \A w \in Workers : ~HoldsLease(w, d)
    /\ leaseLive' = [leaseLive EXCEPT ![d] = FALSE]
    /\ UNCHANGED <<docVars, httpVars, jobs, due, ahead, outbox, workers, faults>>

\* locked_until passes while its holder is still working: the lease is never
\* renewed and the download has no deadline.
LeaseOverrun(d) ==
    /\ leaseLive[d]
    /\ \E w \in Workers : HoldsLease(w, d)
    /\ faults["overrun"] < MaxFaults["overrun"]
    /\ leaseLive' = [leaseLive EXCEPT ![d] = FALSE]
    /\ faults' = [faults EXCEPT !["overrun"] = @ + 1]
    /\ UNCHANGED <<docVars, httpVars, jobs, due, ahead, outbox, workers>>

\* available_at of a retry passes: it is the latest of those that have.
BecomeAvailable(d) ==
    /\ jobs[d].status = "retry_scheduled"
    /\ d \notin due
    /\ due' = due \cup {d}
    /\ ahead' = [ahead EXCEPT ![d] = due]
    /\ UNCHANGED <<docVars, httpVars, jobs, leaseLive, outbox, workers, faults>>

-------------------------------------------------------------------------------

Init ==
    /\ docs = [d \in Docs |-> "none"]
    /\ artifacts = {}
    /\ storage = [k \in Keys |-> NoObject]
    /\ blobs = {}
    /\ urls = {}
    /\ audit = [d \in Docs |-> [a \in AuditActions |-> 0]]
    /\ outbox = [d \in Docs |-> [s \in OutboxStatus |-> 0]]
    /\ jobs = [d \in Docs |-> [status |-> "none", attempts |-> 0]]
    /\ leaseLive = [d \in Docs |-> FALSE]
    /\ due = {}
    /\ ahead = [d \in Docs |-> {}]
    /\ workers = [w \in Workers |-> Idle]
    /\ requests = [c \in Clients |-> None]
    /\ faults = [k \in FaultKinds |-> 0]

RequestStep ==
    \/ \E d \in Docs :
         \/ CreateDocument(d)
         \/ RequestDocumentUpload(d)
         \/ PutBlob(d)
         \/ DeleteDocument(d)
    \/ \E c \in Clients :
         \/ \E d \in Docs : BeginUploadComplete(c, d)
         \/ FinishUploadComplete(c)
         \/ AbandonUploadComplete(c)

WorkerStep(w) ==
    \/ SelectJob(w)
    \/ CommitClaim(w)
    \/ AbortClaim(w)
    \/ CompleteParseJob(w)
    \/ CompleteUnacknowledged(w)
    \/ RecordJobFailure(w)
    \/ Interrupt(w)

ClockStep(d) ==
    \/ LeaseRunsOut(d)
    \/ LeaseOverrun(d)
    \/ BecomeAvailable(d)

Next ==
    \/ RequestStep
    \/ \E d \in Docs : PublishNextOutboxEvent(d)
    \/ \E w \in Workers : WorkerStep(w)
    \/ \E d \in Docs : ClockStep(d)

Spec == Init /\ [][Next]_vars

\* Workers poll on a ticker, every call of theirs returns, and time passes.  Nothing
\* is assumed of users, of the publisher, nor that a parse ever succeeds.
Fairness ==
    /\ \A w \in Workers :
         /\ WF_vars(SelectJob(w))
         /\ WF_vars(CommitClaim(w))
         /\ WF_vars(AbortClaim(w))
         /\ WF_vars(CompleteParseJob(w) \/ RecordJobFailure(w))
    /\ \A d \in Docs :
         /\ WF_vars(LeaseRunsOut(d))
         /\ WF_vars(BecomeAvailable(d))

FairSpec == Spec /\ Fairness

-------------------------------------------------------------------------------
(* Properties that hold whatever fails. *)

TypeOK ==
    /\ docs \in [Docs -> DocStatus]
    /\ artifacts \subseteq Docs
    /\ storage \in [Keys -> [owner : Docs \cup {None}, verified : BOOLEAN, checksum : BOOLEAN]]
    /\ blobs \subseteq Keys
    /\ urls \subseteq Docs
    /\ audit \in [Docs -> [AuditActions -> Nat]]
    /\ outbox \in [Docs -> [OutboxStatus -> Nat]]
    /\ jobs \in [Docs -> [status : JobStatus, attempts : Nat]]
    /\ leaseLive \in [Docs -> BOOLEAN]
    /\ due \subseteq Docs
    /\ ahead \in [Docs -> SUBSET Docs]
    /\ workers \in [Workers -> [pc : {"idle", "claiming", "working", "failing"},
                                doc : Docs \cup {None}, attempt : Nat]]
    /\ requests \in [Clients -> Docs \cup {None}]
    /\ faults \in [FaultKinds -> Nat]

\* What a document shows is never ahead of its job: it waits for an upload only
\* while it has no job, shows processing only while the job is running, parsed only
\* when it is completed and failed only when it is dead-lettered.  Every handler
\* that touches one of the two rows must take the other along.
DocumentFollowsJob == \A d \in Docs :
    /\ docs[d] \in {"none", "upload_pending"} => jobs[d].status = "none"
    /\ docs[d] = "queued" => jobs[d].status # "none"
    /\ docs[d] = "processing" => jobs[d].status = "running"
    /\ docs[d] = "parsed" => jobs[d].status = "completed"
    /\ docs[d] = "failed" => jobs[d].status = "dead_letter"

\* What the status of a job lets its document show.
Shown(jobStatus) ==
    CASE jobStatus \in {"queued", "retry_scheduled"} -> "queued"
      [] jobStatus = "running" -> "processing"
      [] jobStatus = "completed" -> "parsed"
      [] jobStatus = "dead_letter" -> "failed"
      [] OTHER -> "none"

\* A document registered by POST /documents, which no upload-complete can rewrite,
\* shows exactly what its job is doing, through lost leases, late workers, lost
\* commits and restarts.
DirectDocumentShowsJob == \A d \in DirectDocs :
    Present(d) => docs[d] = Shown(jobs[d].status)

\* A document shown as parsed can be read: its parse result is stored, its file is
\* in the store, the parse was audited, and when no other document shares its key,
\* its raw object carries the checksum the parse computed.
ParsedIsBacked == \A d \in Docs : docs[d] = "parsed" =>
    /\ d \in artifacts
    /\ KeyOf[d] \in blobs
    /\ audit[d]["parsed"] > 0
    /\ (\A e \in Docs \ {d} : KeyOf[e] # KeyOf[d]) => storage[KeyOf[d]].checksum

\* A job is dead-lettered only after all the attempts it was entitled to, though
\* the decision is taken from the snapshot of a worker that may be late.
DeadLetterIsEarned == \A d \in Docs :
    jobs[d].status = "dead_letter" => jobs[d].attempts >= MaxAttempts

\* An uploaded document gets a job only after its file was found in the store, whoever
\* completes it.  So when no other document shares its key, the object is marked
\* verified, and an upload URL that was never signed leaves the document without a
\* job, though nothing but the missing file keeps it from being completed.
UploadVerifiedBeforeQueued == \A d \in UploadDocs : jobs[d].status # "none" =>
    /\ KeyOf[d] \in blobs
    /\ (\A e \in Docs \ {d} : KeyOf[e] # KeyOf[d]) =>
           d \in urls /\ storage[KeyOf[d]].verified

\* What a storage object says, it says of the document that owns it now, however many
\* documents have been given its key: it is verified by that document's upload-complete,
\* and carries a checksum that document's own parse computed.  Whoever takes the object
\* over, a parse of the former owner that is still under way must leave it alone.
ObjectSpeaksForOwner == \A k \in Keys : LET d == storage[k].owner IN
    /\ storage[k].verified => d \in UploadDocs /\ KeyOf[d] = k /\ jobs[d].status # "none"
    /\ storage[k].checksum => d \in Docs /\ KeyOf[d] = k /\ audit[d]["parsed"] > 0

\* Each submission leaves one audit event and one outbox event, whichever request
\* won, and no outbox event stands without its job.
SubmissionsAccounted == \A d \in Docs :
    LET events == outbox[d]["pending"] + outbox[d]["published"] IN
    /\ audit[d]["uploaded"] = events
    /\ events > 0 <=> jobs[d].status # "none"

\* A job is attempted no more often than it is entitled to, but for the attempts
\* that interruptions and overrun leases left without a report.
AttemptsWithinBudget == \A d \in Docs :
    jobs[d].attempts <= MaxAttempts + faults["interrupt"] + faults["overrun"]

\* The attempts of a job are given out neither sparingly nor lavishly: a dead-lettered
\* job had all it was entitled to, and no job has more than its faults cost it.
AttemptsAccounted == DeadLetterIsEarned /\ AttemptsWithinBudget

\* A claim in progress excludes every other on the same job.
OneOpenClaim == \A d \in Docs : \A v, w \in Workers :
    Claiming(v, d) /\ Claiming(w, d) => v = w

-------------------------------------------------------------------------------
(* Properties that need leases to outlive the work, acknowledged commits,      *)
(* one upload-complete request at a time or no deletions: each run says which. *)

\* Two workers never process the same document at once.
OneWorkerPerDocument == \A d \in Docs : \A v, w \in Workers :
    Processing(v, d) /\ Processing(w, d) => v = w

\* A claim is never granted while the holder of the previous one is at work within
\* its lease.
LeaseHonoured ==
    [][\A d \in Docs : jobs'[d].attempts > jobs[d].attempts =>
           ~(leaseLive[d] /\ \E w \in Workers : HoldsLease(w, d))]_vars

\* A completed job is never run again, nor its outcome taken back.
CompletedIsFinal ==
    [][\A d \in Docs : jobs[d].status = "completed" => jobs'[d] = jobs[d]]_vars

\* A dead-lettered job stays so: no late worker schedules it again.
DeadLetterIsFinal ==
    [][\A d \in Docs : jobs[d].status = "dead_letter" => jobs'[d] = jobs[d]]_vars

\* The outcome of a job is settled once and for all, whichever worker, event or
\* request comes late.
SettledIsFinal == CompletedIsFinal /\ DeadLetterIsFinal

\* A document is parsed, and audited as parsed, once.
ParsedOnce == \A d \in Docs : audit[d]["parsed"] <= 1

\* A queued document has work to wait for: its job is still to be run.
QueuedHasWork == \A d \in Docs : docs[d] = "queued" =>
    jobs[d].status \in {"queued", "retry_scheduled", "running"}

\* The job of a removed document waits ahead of d's: each poll selects it, finds
\* the document gone and ends.
HeldUp(d) == \E e \in ahead[d] :
    docs[e] = "removed" /\ jobs[e].status \in {"queued", "retry_scheduled", "running"}

\* Every document submitted for processing is eventually parsed, failed or removed,
\* unless the job of a removed document holds it up for ever.
EveryDocumentSettles == \A d \in Docs :
    \/ docs[d] \in {"queued", "processing"} ~> docs[d] \in {"parsed", "failed", "removed"}
    \/ <>[]HeldUp(d)

\* The pipeline implements the life of a document a user is promised.
Lifecycle == INSTANCE DocumentLifecycle WITH status <- docs, results <- artifacts
ImplementsLifecycle == Lifecycle!Spec
===============================================================================
