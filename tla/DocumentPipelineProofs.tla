------------------------ MODULE DocumentPipelineProofs ------------------------
(***************************************************************************)
(* The safety of DocumentPipeline, for any sets of documents, workers and  *)
(* clients, any assignment of storage keys, any max_attempts and any       *)
(* number of faults.                                                       *)
(*                                                                         *)
(* Coherent is the inductive invariant: the properties of DocumentPipeline *)
(* that hold whatever fails, and what they need of the workers, the        *)
(* requests and the storage objects between the steps that touch a job.    *)
(* There is one lemma per property, with one step per action that writes a *)
(* variable the property reads.  On top of it: what storage objects say    *)
(* (ObjectsSpeak), what holds while leases outlive the work (Leased),      *)
(* while uploads are undisturbed (InStep), and of the number of attempts   *)
(* whatever happens (Budgeted).                                            *)
(***************************************************************************)
EXTENDS DocumentPipeline, FiniteSetTheorems, TLAPS

-------------------------------------------------------------------------------
(* Typing. *)

\* What the shared updates leave in the variables they write.
LEMMA AuditType ==
    ASSUME TypeOK, NEW d \in Docs, NEW a \in AuditActions, Audit(d, a)
    PROVE  audit' \in [Docs -> [AuditActions -> Nat]]
BY DEF TypeOK, Audit

LEMMA SaveJobType ==
    ASSUME TypeOK, NEW d \in Docs, SaveJob(d)
    PROVE  /\ jobs' \in [Docs -> [status : JobStatus, attempts : Nat]]
           /\ due' \subseteq Docs
           /\ ahead' \in [Docs -> SUBSET Docs]
<1>1. CASE UNCHANGED <<jobs, due, ahead>>
  BY <1>1 DEF TypeOK
<1>2. CASE EnqueueJob(d)
  <2>1. [status |-> "queued", attempts |-> 0] \in [status : JobStatus, attempts : Nat]
    BY DEF JobStatus
  <2>2. jobs' \in [Docs -> [status : JobStatus, attempts : Nat]]
    BY <1>2, <2>1 DEF TypeOK, EnqueueJob
  <2>3. due' \subseteq Docs /\ ahead' \in [Docs -> SUBSET Docs]
    BY <1>2 DEF TypeOK, EnqueueJob
  <2>4. QED
    BY <2>2, <2>3
<1>3. QED
  BY <1>1, <1>2 DEF SaveJob

LEMMA SaveStorageType ==
    ASSUME TypeOK, NEW d \in Docs, NEW v \in BOOLEAN, SaveStorageObject(d, v)
    PROVE  storage' \in [Keys -> [owner : Docs \cup {None}, verified : BOOLEAN,
                                  checksum : BOOLEAN]]
BY DEF TypeOK, SaveStorageObject

LEMMA SaveOutboxType ==
    ASSUME TypeOK, NEW d \in Docs, SaveOutboxEvent(d)
    PROVE  outbox' \in [Docs -> [OutboxStatus -> Nat]]
BY DEF TypeOK, SaveOutboxEvent, OutboxStatus

LEMMA LeaveQueueType ==
    ASSUME TypeOK, NEW d \in Docs, LeaveQueue(d)
    PROVE  due' \subseteq Docs /\ ahead' \in [Docs -> SUBSET Docs]
BY DEF TypeOK, LeaveQueue

\* The steps of the HTTP use cases keep every variable in its type.
LEMMA RequestTypes == TypeOK /\ RequestStep => TypeOK'
<1> SUFFICES ASSUME TypeOK, RequestStep PROVE TypeOK'
  OBVIOUS
<1> USE DEF vars, docVars, httpVars, queueVars
<1>1. ASSUME NEW d \in Docs, CreateDocument(d) PROVE TypeOK'
  <2>1. docs' \in [Docs -> DocStatus]
    BY <1>1 DEF TypeOK, CreateDocument, DocStatus
  <2>2. Audit(d, "uploaded") /\ SaveJob(d) /\ SaveStorageObject(d, FALSE) /\ SaveOutboxEvent(d)
    BY <1>1 DEF CreateDocument
  <2>3. "uploaded" \in AuditActions
    BY DEF AuditActions
  <2>4. UNCHANGED <<artifacts, blobs, urls, requests, leaseLive, workers, faults>>
    BY <1>1 DEF CreateDocument
  <2>5. audit' \in [Docs -> [AuditActions -> Nat]]
    BY <2>2, <2>3, AuditType
  <2>6. /\ jobs' \in [Docs -> [status : JobStatus, attempts : Nat]]
        /\ due' \subseteq Docs
        /\ ahead' \in [Docs -> SUBSET Docs]
    BY <2>2, SaveJobType
  <2>7. storage' \in [Keys -> [owner : Docs \cup {None}, verified : BOOLEAN,
                               checksum : BOOLEAN]]
    BY <2>2, SaveStorageType
  <2>8. outbox' \in [Docs -> [OutboxStatus -> Nat]]
    BY <2>2, SaveOutboxType
  <2>9. QED
    BY <2>1, <2>4, <2>5, <2>6, <2>7, <2>8 DEF TypeOK
<1>2. ASSUME NEW d \in Docs, RequestDocumentUpload(d) PROVE TypeOK'
  <2>1. docs' \in [Docs -> DocStatus] /\ urls' \subseteq Docs
    <3>1. docs' = [docs EXCEPT ![d] = "upload_pending"] /\ urls' \in {urls, urls \cup {d}}
      BY <1>2 DEF RequestDocumentUpload
    <3>2. QED
      BY <3>1 DEF TypeOK, DocStatus
  <2>2. Audit(d, "upload_requested") /\ SaveStorageObject(d, FALSE)
    BY <1>2 DEF RequestDocumentUpload
  <2>3. "upload_requested" \in AuditActions
    BY DEF AuditActions
  <2>4. audit' \in [Docs -> [AuditActions -> Nat]]
    BY <2>2, <2>3, AuditType
  <2>5. storage' \in [Keys -> [owner : Docs \cup {None}, verified : BOOLEAN,
                               checksum : BOOLEAN]]
    BY <2>2, SaveStorageType
  <2>6. UNCHANGED <<artifacts, blobs, requests, queueVars, outbox, workers, faults>>
    BY <1>2 DEF RequestDocumentUpload
  <2>7. QED
    BY <2>1, <2>4, <2>5, <2>6 DEF TypeOK
<1>3. ASSUME NEW d \in Docs, PutBlob(d) PROVE TypeOK'
  BY <1>3, ConstantsAssumption DEF TypeOK, PutBlob
<1>4. ASSUME NEW d \in Docs, DeleteDocument(d) PROVE TypeOK'
  BY <1>4 DEF TypeOK, DeleteDocument, Audit, DocStatus, AuditActions
<1>5. ASSUME NEW c \in Clients, NEW d \in Docs, BeginUploadComplete(c, d) PROVE TypeOK'
  BY <1>5 DEF TypeOK, BeginUploadComplete
<1>6. ASSUME NEW c \in Clients, FinishUploadComplete(c) PROVE TypeOK'
  <2> DEFINE d == requests[c]
  <2>1. d \in Docs
    BY <1>6 DEF FinishUploadComplete, TypeOK
  <2>2. docs' \in [Docs -> DocStatus] /\ requests' \in [Clients -> Docs \cup {None}]
    BY <1>6 DEF TypeOK, FinishUploadComplete, DocStatus
  <2>3. Audit(d, "uploaded") /\ SaveJob(d) /\ SaveStorageObject(d, TRUE) /\ SaveOutboxEvent(d)
    BY <1>6 DEF FinishUploadComplete
  <2>4. "uploaded" \in AuditActions
    BY DEF AuditActions
  <2>5. UNCHANGED <<artifacts, blobs, urls, leaseLive, workers, faults>>
    BY <1>6 DEF FinishUploadComplete
  <2> HIDE DEF d
  <2>6. audit' \in [Docs -> [AuditActions -> Nat]]
    BY <2>1, <2>3, <2>4, AuditType
  <2>7. /\ jobs' \in [Docs -> [status : JobStatus, attempts : Nat]]
        /\ due' \subseteq Docs
        /\ ahead' \in [Docs -> SUBSET Docs]
    BY <2>1, <2>3, SaveJobType
  <2>8. storage' \in [Keys -> [owner : Docs \cup {None}, verified : BOOLEAN,
                               checksum : BOOLEAN]]
    BY <2>1, <2>3, SaveStorageType
  <2>9. outbox' \in [Docs -> [OutboxStatus -> Nat]]
    BY <2>1, <2>3, SaveOutboxType
  <2>10. QED
    BY <2>2, <2>5, <2>6, <2>7, <2>8, <2>9 DEF TypeOK
<1>7. ASSUME NEW c \in Clients, AbandonUploadComplete(c) PROVE TypeOK'
  BY <1>7 DEF TypeOK, AbandonUploadComplete
<1>8. QED
  BY <1>1, <1>2, <1>3, <1>4, <1>5, <1>6, <1>7 DEF RequestStep

\* A worker that is not idle is about some document.  Typing needs it, since the
\* worker's document indexes the job table.
WorkerAboutDocument == \A w \in Workers : workers[w].pc # "idle" => workers[w].doc \in Docs

\* Only workers change what workers do.
LEMMA OthersLeaveWorkers ==
    ASSUME RequestStep \/ \E d \in Docs : PublishNextOutboxEvent(d) \/ ClockStep(d)
    PROVE  UNCHANGED workers
BY DEF RequestStep, CreateDocument, RequestDocumentUpload, PutBlob, DeleteDocument,
       BeginUploadComplete, FinishUploadComplete, AbandonUploadComplete,
       PublishNextOutboxEvent, ClockStep, LeaseRunsOut, LeaseOverrun, BecomeAvailable

LEMMA WorkerAboutDocumentInductive ==
    TypeOK /\ WorkerAboutDocument /\ [Next]_vars => WorkerAboutDocument'
<1> SUFFICES ASSUME TypeOK, WorkerAboutDocument, [Next]_vars PROVE WorkerAboutDocument'
  OBVIOUS
<1>1. CASE UNCHANGED workers
  BY <1>1 DEF WorkerAboutDocument
<1>2. ASSUME NEW w \in Workers, WorkerStep(w) PROVE WorkerAboutDocument'
  <2> USE DEF WorkerAboutDocument, TypeOK
  <2>1. CASE SelectJob(w)
    <3>1. PICK d \in Docs : workers' = [workers EXCEPT ![w] =
                                [pc |-> "claiming", doc |-> d, attempt |-> 0]]
      BY <2>1 DEF SelectJob
    <3>2. QED
      BY <3>1
  <2>2. CASE CommitClaim(w)
    BY <2>2 DEF CommitClaim
  <2>3. CASE AbortClaim(w) \/ CompleteParseJob(w) \/ RecordJobFailure(w) \/ Interrupt(w)
    <3>1. workers' = [workers EXCEPT ![w] = Idle]
      BY <2>3 DEF AbortClaim, CompleteParseJob, RecordJobFailure, Interrupt
    <3>2. QED
      BY <3>1 DEF Idle
  <2>4. CASE CompleteUnacknowledged(w)
    BY <2>4 DEF CompleteUnacknowledged
  <2>5. QED
    BY <1>2, <2>1, <2>2, <2>3, <2>4 DEF WorkerStep
<1>3. QED
  BY <1>1, <1>2, OthersLeaveWorkers DEF Next, vars

\* The steps of the workers keep every variable in its type.
LEMMA WorkerTypes ==
    ASSUME TypeOK, WorkerAboutDocument, NEW w \in Workers, WorkerStep(w)
    PROVE  TypeOK'
<1> USE DEF vars, docVars, httpVars, queueVars
<1>1. CASE SelectJob(w)
  <2>1. PICK d \in Docs : workers' = [workers EXCEPT ![w] =
                              [pc |-> "claiming", doc |-> d, attempt |-> 0]]
    BY <1>1 DEF SelectJob
  <2>2. UNCHANGED <<docVars, httpVars, queueVars, outbox, faults>>
    BY <1>1 DEF SelectJob
  <2>3. QED
    BY <2>1, <2>2 DEF TypeOK
<1>2. CASE CommitClaim(w)
  <2> DEFINE d == workers[w].doc
  <2>1. d \in Docs
    BY <1>2 DEF CommitClaim, WorkerAboutDocument
  <2>2. docs' \in [Docs -> DocStatus] /\ leaseLive' \in [Docs -> BOOLEAN]
    BY <1>2 DEF TypeOK, CommitClaim, DocStatus
  <2>3. jobs' \in [Docs -> [status : JobStatus, attempts : Nat]]
    BY <1>2, <2>1 DEF TypeOK, CommitClaim, JobStatus
  <2>4. workers' \in [Workers -> [pc : {"idle", "claiming", "working", "failing"},
                                 doc : Docs \cup {None}, attempt : Nat]]
    BY <1>2, <2>1 DEF TypeOK, CommitClaim
  <2>5. UNCHANGED <<artifacts, storage, audit, httpVars, outbox, due, ahead, faults>>
    BY <1>2 DEF CommitClaim
  <2>6. QED
    BY <2>2, <2>3, <2>4, <2>5 DEF TypeOK
<1>3. ASSUME NEW d \in Docs, CommitParse(w, d)
      PROVE  /\ docs' \in [Docs -> DocStatus]
             /\ artifacts' \subseteq Docs
             /\ storage' \in [Keys -> [owner : Docs \cup {None}, verified : BOOLEAN,
                                       checksum : BOOLEAN]]
             /\ audit' \in [Docs -> [AuditActions -> Nat]]
             /\ jobs' \in [Docs -> [status : JobStatus, attempts : Nat]]
             /\ leaseLive' \in [Docs -> BOOLEAN]
             /\ due' \subseteq Docs
             /\ ahead' \in [Docs -> SUBSET Docs]
  <2>1. docs' \in [Docs -> DocStatus] /\ artifacts' \subseteq Docs
    BY <1>3 DEF TypeOK, CommitParse, DocStatus
  <2>2. jobs' \in [Docs -> [status : JobStatus, attempts : Nat]]
    BY <1>3 DEF TypeOK, CommitParse, JobStatus
  <2>3. leaseLive' \in [Docs -> BOOLEAN]
    BY <1>3 DEF TypeOK, CommitParse, LeaseAfter
  <2>4. storage' \in [Keys -> [owner : Docs \cup {None}, verified : BOOLEAN,
                              checksum : BOOLEAN]]
    <3> DEFINE k == KeyOf[d]
               known == storage[k].checksum \/ storage[k].owner = d
               object == [storage[k] EXCEPT !.checksum = known]
               Object == [owner : Docs \cup {None}, verified : BOOLEAN, checksum : BOOLEAN]
    <3>1. known \in BOOLEAN /\ k \in Keys
      BY ConstantsAssumption
    <3>2. storage' = [storage EXCEPT ![k] = object]
      BY <1>3 DEF CommitParse, RawChecksum
    <3>3. storage \in [Keys -> Object]
      BY DEF TypeOK
    <3>4. object \in Object
      <4>1. storage[k] \in Object
        BY <3>1, <3>3
      <4> HIDE DEF known
      <4>2. QED
        BY <3>1, <4>1, Zenon
    <3> HIDE DEF known, k, object, Object
    <3>5. storage' \in [Keys -> Object]
      BY <3>1, <3>2, <3>3, <3>4
    <3>6. QED
      BY <3>5 DEF Object
  <2>5. Audit(d, "parsed") /\ LeaveQueue(d) /\ "parsed" \in AuditActions
    BY <1>3 DEF CommitParse, AuditActions
  <2>6. audit' \in [Docs -> [AuditActions -> Nat]]
    BY <2>5, AuditType
  <2>7. due' \subseteq Docs /\ ahead' \in [Docs -> SUBSET Docs]
    BY <2>5, LeaveQueueType
  <2>8. QED
    BY <2>1, <2>2, <2>3, <2>4, <2>6, <2>7
<1>4. CASE CompleteParseJob(w)
  <2>1. workers[w].doc \in Docs /\ CommitParse(w, workers[w].doc)
    BY <1>4 DEF CompleteParseJob, WorkerAboutDocument
  <2>2. workers' = [workers EXCEPT ![w] = Idle] /\ UNCHANGED <<httpVars, outbox, faults>>
    BY <1>4 DEF CompleteParseJob
  <2>3. QED
    BY <1>3, <2>1, <2>2 DEF TypeOK, Idle
<1>5. CASE CompleteUnacknowledged(w)
  <2>1. workers[w].doc \in Docs /\ CommitParse(w, workers[w].doc)
    BY <1>5 DEF CompleteUnacknowledged, WorkerAboutDocument
  <2>2. /\ workers' = [workers EXCEPT ![w].pc = "failing"]
        /\ faults' = [faults EXCEPT !["lost_commit"] = @ + 1]
        /\ UNCHANGED <<httpVars, outbox>>
    BY <1>5 DEF CompleteUnacknowledged
  <2>3. workers' \in [Workers -> [pc : {"idle", "claiming", "working", "failing"},
                                 doc : Docs \cup {None}, attempt : Nat]]
    BY <2>2 DEF TypeOK
  <2>4. faults' \in [FaultKinds -> Nat]
    BY <2>2 DEF TypeOK, FaultKinds
  <2>5. QED
    BY <1>3, <2>1, <2>2, <2>3, <2>4 DEF TypeOK
<1>6. CASE RecordJobFailure(w)
  <2> DEFINE d == workers[w].doc
  <2>1. d \in Docs
    BY <1>6 DEF RecordJobFailure, WorkerAboutDocument
  <2>2. docs' \in [Docs -> DocStatus]
    BY <1>6, <2>1 DEF TypeOK, RecordJobFailure, DocStatus
  <2>3. jobs' \in [Docs -> [status : JobStatus, attempts : Nat]]
    <3> DEFINE outcome == IF Exhausted(workers[w].attempt) THEN "dead_letter"
                                                           ELSE "retry_scheduled"
    <3>1. outcome \in JobStatus
      BY DEF JobStatus
    <3>2. jobs' = [jobs EXCEPT ![d].status = outcome]
      BY <1>6 DEF RecordJobFailure
    <3> HIDE DEF outcome
    <3>3. QED
      BY <2>1, <3>1, <3>2 DEF TypeOK
  <2>4. leaseLive' \in [Docs -> BOOLEAN]
    BY <1>6 DEF TypeOK, RecordJobFailure, LeaseAfter
  <2>5. LeaveQueue(d)
    BY <1>6 DEF RecordJobFailure
  <2>6. due' \subseteq Docs /\ ahead' \in [Docs -> SUBSET Docs]
    BY <2>1, <2>5, LeaveQueueType
  <2>7. /\ workers' = [workers EXCEPT ![w] = Idle]
        /\ UNCHANGED <<artifacts, storage, audit, httpVars, outbox, faults>>
    BY <1>6 DEF RecordJobFailure
  <2>8. QED
    BY <2>2, <2>3, <2>4, <2>6, <2>7 DEF TypeOK, Idle
<1>7. CASE AbortClaim(w)
  BY <1>7 DEF TypeOK, AbortClaim, Idle
<1>8. CASE Interrupt(w)
  BY <1>8 DEF TypeOK, Interrupt, Idle, FaultKinds
<1>9. QED
  BY <1>1, <1>2, <1>4, <1>5, <1>6, <1>7, <1>8 DEF WorkerStep

\* So do the publisher and the clock.
LEMMA PublishTypes ==
    ASSUME TypeOK, NEW d \in Docs, PublishNextOutboxEvent(d)
    PROVE  TypeOK'
<1>1. outbox' \in [Docs -> [OutboxStatus -> Nat]]
  BY DEF TypeOK, PublishNextOutboxEvent, OutboxStatus
<1>2. SaveJob(d) /\ UNCHANGED <<docVars, httpVars, leaseLive, workers, faults>>
  BY DEF PublishNextOutboxEvent
<1>3. /\ jobs' \in [Docs -> [status : JobStatus, attempts : Nat]]
      /\ due' \subseteq Docs
      /\ ahead' \in [Docs -> SUBSET Docs]
  BY <1>2, SaveJobType
<1>4. QED
  BY <1>1, <1>2, <1>3 DEF TypeOK, docVars, httpVars

LEMMA ClockTypes ==
    ASSUME TypeOK, NEW d \in Docs, ClockStep(d)
    PROVE  TypeOK'
<1> USE DEF TypeOK, docVars, httpVars
<1>1. CASE LeaseRunsOut(d)
  BY <1>1 DEF LeaseRunsOut
<1>2. CASE LeaseOverrun(d)
  BY <1>2 DEF LeaseOverrun, FaultKinds
<1>3. CASE BecomeAvailable(d)
  BY <1>3 DEF BecomeAvailable
<1>4. QED
  BY <1>1, <1>2, <1>3 DEF ClockStep

LEMMA TypeInductive ==
    ASSUME TypeOK, WorkerAboutDocument, [Next]_vars
    PROVE  TypeOK'
<1>1. ASSUME NEW d \in Docs, PublishNextOutboxEvent(d) PROVE TypeOK'
  BY <1>1, PublishTypes
<1>2. ASSUME NEW w \in Workers, WorkerStep(w) PROVE TypeOK'
  BY <1>2, WorkerTypes
<1>3. ASSUME NEW d \in Docs, ClockStep(d) PROVE TypeOK'
  BY <1>3, ClockTypes
<1>4. CASE UNCHANGED vars
  BY <1>4 DEF TypeOK, vars, docVars, httpVars, queueVars
<1>5. QED
  BY <1>1, <1>2, <1>3, <1>4, RequestTypes DEF Next

\* Every variable keeps its type: in particular the outbox never counts a pending
\* event twice, and no report of a late worker reaches a job that does not exist.
THEOREM TypeCorrect == Spec => []TypeOK
<1> DEFINE Typed == TypeOK /\ WorkerAboutDocument
<1>1. Init => Typed
  BY DEF Init, TypeOK, WorkerAboutDocument, Idle, NoObject, DocStatus, JobStatus,
         OutboxStatus, AuditActions, FaultKinds
<1>2. Typed /\ [Next]_vars => Typed'
  BY TypeInductive, WorkerAboutDocumentInductive
<1>3. QED
  BY <1>1, <1>2, PTL DEF Spec

-------------------------------------------------------------------------------
(* Coherence. *)

\* A worker that is not idle is about a document whose job exists, so what it
\* commits late still lands on a job.
WorkerHasJob == \A w \in Workers : workers[w].pc # "idle" =>
    workers[w].doc \in Docs /\ jobs[workers[w].doc].status # "none"

DueHasJob == \A d \in due : jobs[d].status # "none"

\* An upload-complete request stays true to what it read: blobs do not vanish.
RequestVerified == \A c \in Clients : requests[c] # None =>
    requests[c] \in UploadDocs /\ KeyOf[requests[c]] \in blobs

\* The snapshot of a worker is not ahead of the job.
SnapshotNotAhead == \A w \in Workers :
    workers[w].pc \in {"working", "failing"} =>
        workers[w].attempt <= jobs[workers[w].doc].attempts

Unshared(d) == \A e \in Docs \ {d} : KeyOf[e] # KeyOf[d]

\* The file of an uploaded document with a key of its own came through its URL.
BlobsSent == \A d \in UploadDocs : Unshared(d) /\ KeyOf[d] \in blobs => d \in urls

ObjectOwned == \A d \in Docs :
    Unshared(d) /\ docs[d] # "none" => storage[KeyOf[d]].owner = d

\* What the workers, the requests and the queue are up to.
Actors ==
    /\ WorkerHasJob
    /\ DueHasJob
    /\ RequestVerified
    /\ BlobsSent
    /\ SnapshotNotAhead
    /\ OneOpenClaim

\* What the tables record.
Records ==
    /\ ObjectOwned
    /\ SubmissionsAccounted
    /\ DocumentFollowsJob
    /\ DirectDocumentShowsJob
    /\ DeadLetterIsEarned
    /\ UploadVerifiedBeforeQueued
    /\ ParsedIsBacked

Coherent == TypeOK /\ Actors /\ Records

-------------------------------------------------------------------------------
(* Steps that write none of the tables but the blob store. *)

LEMMA RecordsKept ==
    ASSUME Coherent, UNCHANGED <<docVars, jobs, outbox>>,
           urls \subseteq urls', blobs \subseteq blobs'
    PROVE  Records'
<1> USE DEF Coherent, Records, docVars
<1>1. ObjectOwned' /\ SubmissionsAccounted' /\ DocumentFollowsJob'
  BY DEF ObjectOwned, Unshared, SubmissionsAccounted, DocumentFollowsJob
<1>2. DirectDocumentShowsJob' /\ DeadLetterIsEarned'
  BY DEF DirectDocumentShowsJob, Present, Shown, DeadLetterIsEarned
<1>3. UploadVerifiedBeforeQueued'
  BY DEF UploadVerifiedBeforeQueued
<1>4. ParsedIsBacked'
  BY DEF ParsedIsBacked
<1>5. QED
  BY <1>1, <1>2, <1>3, <1>4

LEMMA QuietRequests ==
    ASSUME Coherent,
           \/ \E d \in Docs : PutBlob(d)
           \/ \E c \in Clients : \/ \E d \in Docs : BeginUploadComplete(c, d)
                                \/ AbandonUploadComplete(c)
    PROVE  Actors' /\ Records'
<1> USE DEF docVars, queueVars
<1>1. /\ UNCHANGED <<docVars, jobs, due, urls, outbox, workers>>
      /\ blobs \subseteq blobs'
  BY DEF PutBlob, BeginUploadComplete, AbandonUploadComplete
<1>2. Records'
  BY <1>1, RecordsKept
<1>3. WorkerHasJob' /\ DueHasJob' /\ SnapshotNotAhead' /\ OneOpenClaim'
  BY <1>1 DEF Coherent, Actors, WorkerHasJob, DueHasJob, SnapshotNotAhead,
              OneOpenClaim, Claiming
<1>4. RequestVerified'
  <2> USE <1>1 DEF Coherent, Actors, RequestVerified, TypeOK
  <2>1. ASSUME NEW d \in Docs, PutBlob(d) PROVE RequestVerified'
    BY <2>1 DEF PutBlob
  <2>2. ASSUME NEW c \in Clients, NEW d \in Docs, BeginUploadComplete(c, d)
        PROVE  RequestVerified'
    <3>1. d \in UploadDocs
      BY <2>2 DEF BeginUploadComplete, Records, DirectDocumentShowsJob, Present, Shown, Docs
    <3>2. QED
      BY <2>2, <3>1 DEF BeginUploadComplete
  <2>3. ASSUME NEW c \in Clients, AbandonUploadComplete(c) PROVE RequestVerified'
    BY <2>3 DEF AbandonUploadComplete
  <2>4. QED
    BY <2>1, <2>2, <2>3
<1>5. BlobsSent'
  <2> USE <1>1 DEF Coherent, Actors, BlobsSent, Unshared
  <2>1. CASE UNCHANGED blobs
    BY <2>1
  <2>2. ASSUME NEW d \in Docs, PutBlob(d) PROVE BlobsSent'
    <3>1. blobs' = blobs \cup {KeyOf[d]} /\ d \in urls \cup DirectDocs
      BY <2>2 DEF PutBlob
    <3>2. QED
      BY <3>1, ConstantsAssumption DEF Docs
  <2>3. QED
    BY <2>1, <2>2 DEF BeginUploadComplete, AbandonUploadComplete
<1>6. QED
  BY <1>2, <1>3, <1>4, <1>5 DEF Actors

LEMMA QuietClock ==
    ASSUME Coherent, NEW d \in Docs, ClockStep(d)
    PROVE  Actors' /\ Records'
<1> USE DEF docVars, httpVars
<1>1. UNCHANGED <<docVars, httpVars, jobs, outbox, workers>>
  BY DEF ClockStep, LeaseRunsOut, LeaseOverrun, BecomeAvailable
<1>2. Records'
  BY <1>1, RecordsKept
<1>3. /\ WorkerHasJob' /\ BlobsSent' /\ SnapshotNotAhead' /\ OneOpenClaim'
      /\ RequestVerified'
  BY <1>1 DEF Coherent, Actors, WorkerHasJob, RequestVerified, BlobsSent, Unshared,
              SnapshotNotAhead, OneOpenClaim, Claiming
<1>4. DueHasJob'
  <2>1. due' = due \/ (due' = due \cup {d} /\ jobs[d].status = "retry_scheduled")
    BY DEF ClockStep, LeaseRunsOut, LeaseOverrun, BecomeAvailable
  <2>2. QED
    BY <1>1, <2>1 DEF Coherent, Actors, DueHasJob
<1>5. QED
  BY <1>2, <1>3, <1>4 DEF Actors

LEMMA QuietWorkers ==
    ASSUME Coherent, NEW w \in Workers, SelectJob(w) \/ AbortClaim(w) \/ Interrupt(w)
    PROVE  Actors' /\ Records'
<1> USE DEF docVars, httpVars, queueVars
<1>1. UNCHANGED <<docVars, httpVars, queueVars, outbox>>
  BY DEF SelectJob, AbortClaim, Interrupt
<1>2. Records'
  BY <1>1, RecordsKept
<1>3. DueHasJob' /\ BlobsSent' /\ RequestVerified'
  BY <1>1 DEF Coherent, Actors, DueHasJob, BlobsSent, Unshared, RequestVerified
<1>4. WorkerHasJob' /\ SnapshotNotAhead' /\ OneOpenClaim'
  <2> USE DEF Coherent, Actors, WorkerHasJob, SnapshotNotAhead, OneOpenClaim, Claiming
  <2>1. CASE SelectJob(w)
    <3>1. PICK d \in Docs :
            /\ Claimable(d)
            /\ workers' = [workers EXCEPT ![w] =
                               [pc |-> "claiming", doc |-> d, attempt |-> 0]]
      BY <2>1 DEF SelectJob
    <3>2. jobs[d].status # "none" /\ \A v \in Workers : ~Claiming(v, d)
      BY <3>1 DEF Claimable, RowLocked
    <3>3. QED
      BY <1>1, <3>1, <3>2 DEF TypeOK
  <2>2. CASE AbortClaim(w) \/ Interrupt(w)
    <3>1. workers' = [workers EXCEPT ![w] = Idle]
      BY <2>2 DEF AbortClaim, Interrupt
    <3>2. QED
      BY <1>1, <3>1 DEF TypeOK, Idle
  <2>3. QED
    BY <2>1, <2>2
<1>5. QED
  BY <1>2, <1>3, <1>4 DEF Actors

-------------------------------------------------------------------------------
(* Steps of the HTTP use cases and of the publisher. *)

\* What saving a job does, given that a job that exists is left alone.
LEMMA SaveJobEffect ==
    ASSUME TypeOK, NEW d \in Docs, SaveJob(d)
    PROVE  /\ jobs'[d].status # "none"
           /\ \A e \in Docs : jobs[e].status # "none" => jobs'[e] = jobs[e]
           /\ \A e \in Docs \ {d} : jobs'[e] = jobs[e]
           /\ jobs[d].status = "none" => jobs'[d] = [status |-> "queued", attempts |-> 0]
           /\ due' \subseteq due \cup {d}
BY DEF TypeOK, SaveJob, EnqueueJob

\* Saving the job of a document leaves the workers and the queue in order.
LEMMA SaveJobActors ==
    ASSUME Coherent, NEW d \in Docs, SaveJob(d), UNCHANGED workers,
           RequestVerified', BlobsSent'
    PROVE  Actors'
<1>1. /\ jobs'[d].status # "none"
      /\ \A e \in Docs : jobs[e].status # "none" => jobs'[e] = jobs[e]
      /\ due' \subseteq due \cup {d}
  BY SaveJobEffect DEF Coherent
<1> USE DEF Coherent, Actors, TypeOK
<1>2. WorkerHasJob' /\ SnapshotNotAhead'
  BY <1>1 DEF WorkerHasJob, SnapshotNotAhead
<1>3. DueHasJob'
  BY <1>1 DEF DueHasJob
<1>4. OneOpenClaim'
  BY DEF OneOpenClaim, Claiming
<1>5. QED
  BY <1>2, <1>3, <1>4

\* Submitting a document: it becomes queued, its storage object is rewritten, and
\* an audit event, an outbox event and a job are saved.
Submitted(d, verified) ==
    /\ docs' = [docs EXCEPT ![d] = "queued"]
    /\ SaveStorageObject(d, verified)
    /\ Audit(d, "uploaded")
    /\ SaveOutboxEvent(d)
    /\ SaveJob(d)
    /\ UNCHANGED <<artifacts, blobs, urls>>

LEMMA SubmittedRecords ==
    ASSUME Coherent, NEW d \in Docs, NEW v \in BOOLEAN, Submitted(d, v),
           \/ d \in DirectDocs /\ docs[d] = "none"
           \/ d \in UploadDocs /\ v /\ KeyOf[d] \in blobs
    PROVE  Records'
<1> USE DEF Coherent, Records
<1>1. /\ jobs'[d].status # "none"
      /\ \A e \in Docs : jobs[e].status # "none" => jobs'[e] = jobs[e]
      /\ \A e \in Docs \ {d} : jobs'[e] = jobs[e]
      /\ jobs[d].status = "none" => jobs'[d] = [status |-> "queued", attempts |-> 0]
  BY SaveJobEffect DEF Submitted
<1>2. docs' = [docs EXCEPT ![d] = "queued"] /\ UNCHANGED <<artifacts, blobs, urls>>
  BY DEF Submitted
<1>3. /\ \A e \in Docs \ {d} : Unshared(e) => storage'[KeyOf[e]] = storage[KeyOf[e]]
      /\ storage'[KeyOf[d]].owner = d
      /\ storage'[KeyOf[d]].verified = v
  <2>1. \A e \in Docs : KeyOf[e] \in Keys
    BY ConstantsAssumption
  <2>2. QED
    BY <2>1 DEF Submitted, SaveStorageObject, Unshared, TypeOK
<1>4. /\ \A e \in Docs \ {d} : audit'[e] = audit[e] /\ outbox'[e] = outbox[e]
      /\ audit'[d]["uploaded"] = audit[d]["uploaded"] + 1
      /\ outbox'[d]["pending"] = outbox[d]["pending"] + 1
      /\ outbox'[d]["published"] = outbox[d]["published"]
  BY DEF Submitted, Audit, SaveOutboxEvent, TypeOK, AuditActions, OutboxStatus
<1>5. ObjectOwned'
  BY <1>2, <1>3 DEF ObjectOwned, Unshared, TypeOK
<1>6. SubmissionsAccounted'
  <2> SUFFICES ASSUME NEW e \in Docs
               PROVE  /\ audit'[e]["uploaded"] = outbox'[e]["pending"] + outbox'[e]["published"]
                      /\ outbox'[e]["pending"] + outbox'[e]["published"] > 0
                             <=> jobs'[e].status # "none"
    BY DEF SubmissionsAccounted
  <2>1. outbox[e]["pending"] \in Nat /\ outbox[e]["published"] \in Nat
    BY DEF TypeOK, OutboxStatus
  <2>2. CASE e # d
    BY <1>1, <1>4, <2>2 DEF SubmissionsAccounted
  <2>3. CASE e = d
    BY <1>1, <1>4, <2>1, <2>3 DEF SubmissionsAccounted
  <2>4. QED
    BY <2>2, <2>3
<1>7. DocumentFollowsJob'
  BY <1>1, <1>2 DEF DocumentFollowsJob, TypeOK
<1>8. DirectDocumentShowsJob'
  <2>1. CASE d \in DirectDocs /\ docs[d] = "none"
    <3>1. jobs'[d].status = "queued"
      BY <1>1, <2>1 DEF DocumentFollowsJob
    <3>2. QED
      BY <1>1, <1>2, <3>1 DEF DirectDocumentShowsJob, Present, Shown, TypeOK, Docs
  <2>2. CASE d \in UploadDocs
    BY <1>1, <1>2, <2>2, ConstantsAssumption
    DEF DirectDocumentShowsJob, Present, Shown, TypeOK, Docs
  <2>3. QED
    BY <2>1, <2>2
<1>9. DeadLetterIsEarned'
  BY <1>1 DEF DeadLetterIsEarned
<1>10. UploadVerifiedBeforeQueued'
  BY <1>1, <1>2, <1>3, ConstantsAssumption
  DEF Actors, BlobsSent, UploadVerifiedBeforeQueued, Unshared, Docs
<1>11. ParsedIsBacked'
  <2> SUFFICES ASSUME NEW e \in Docs, docs'[e] = "parsed"
               PROVE  /\ e \in artifacts' /\ KeyOf[e] \in blobs' /\ audit'[e]["parsed"] > 0
                      /\ Unshared(e) => storage'[KeyOf[e]].checksum
    BY DEF ParsedIsBacked, Unshared
  <2>1. e # d /\ docs[e] = "parsed"
    BY <1>2 DEF TypeOK
  <2>2. audit'[e] = audit[e] /\ (Unshared(e) => storage'[KeyOf[e]] = storage[KeyOf[e]])
    BY <1>3, <1>4, <2>1
  <2>3. QED
    BY <1>2, <2>1, <2>2 DEF ParsedIsBacked, Unshared
<1>12. QED
  BY <1>5, <1>6, <1>7, <1>8, <1>9, <1>10, <1>11

LEMMA CreateDocumentKeeps ==
    ASSUME Coherent, NEW d \in Docs, CreateDocument(d)
    PROVE  Actors' /\ Records'
<1>1. d \in DirectDocs /\ docs[d] = "none" /\ Submitted(d, FALSE)
  BY DEF CreateDocument, Submitted, httpVars
<1>2. UNCHANGED <<urls, blobs, requests, workers>> /\ SaveJob(d)
  BY DEF CreateDocument, httpVars
<1>3. RequestVerified' /\ BlobsSent'
  BY <1>2 DEF Coherent, Actors, RequestVerified, BlobsSent, Unshared
<1>4. QED
  BY <1>1, <1>2, <1>3, SaveJobActors, SubmittedRecords

LEMMA FinishUploadCompleteKeeps ==
    ASSUME Coherent, NEW c \in Clients, FinishUploadComplete(c)
    PROVE  Actors' /\ Records'
<1> DEFINE d == requests[c]
<1>1. d \in Docs /\ d \in UploadDocs /\ KeyOf[d] \in blobs
  BY DEF FinishUploadComplete, Coherent, Actors, RequestVerified, TypeOK
<1>2. Submitted(d, TRUE) /\ SaveJob(d)
  BY DEF FinishUploadComplete, Submitted
<1>3. RequestVerified' /\ BlobsSent' /\ UNCHANGED workers
  BY DEF FinishUploadComplete, Coherent, Actors, RequestVerified, BlobsSent, Unshared, TypeOK
<1> HIDE DEF d
<1>4. QED
  BY <1>1, <1>2, <1>3, SaveJobActors, SubmittedRecords

LEMMA RequestDocumentUploadKeeps ==
    ASSUME Coherent, NEW d \in Docs, RequestDocumentUpload(d)
    PROVE  Actors' /\ Records'
<1> USE DEF Coherent, Actors, Records
<1>1. /\ d \in UploadDocs /\ docs[d] = "none"
      /\ docs' = [docs EXCEPT ![d] = "upload_pending"]
      /\ SaveStorageObject(d, FALSE) /\ Audit(d, "upload_requested")
  BY DEF RequestDocumentUpload
<1>2. urls \subseteq urls' /\ urls' \subseteq urls \cup {d}
  BY DEF RequestDocumentUpload
<1>3. UNCHANGED <<artifacts, blobs, requests, jobs, due, outbox, workers>>
  BY DEF RequestDocumentUpload, queueVars
<1>4. jobs[d].status = "none"
  BY <1>1 DEF DocumentFollowsJob
<1>5. /\ \A e \in Docs \ {d} : Unshared(e) => storage'[KeyOf[e]] = storage[KeyOf[e]]
      /\ storage'[KeyOf[d]].owner = d
  BY <1>1, ConstantsAssumption DEF SaveStorageObject, Unshared, TypeOK
<1>6. /\ \A e \in Docs : audit'[e]["uploaded"] = audit[e]["uploaded"]
      /\ \A e \in Docs : audit'[e]["parsed"] = audit[e]["parsed"]
  BY <1>1 DEF Audit, TypeOK, AuditActions
<1>7. Actors'
  BY <1>1, <1>2, <1>3 DEF WorkerHasJob, DueHasJob, RequestVerified, BlobsSent, Unshared,
                          SnapshotNotAhead, OneOpenClaim, Claiming
<1>8. ObjectOwned' /\ SubmissionsAccounted' /\ DocumentFollowsJob'
  <2>1. ObjectOwned'
    BY <1>1, <1>5 DEF ObjectOwned, Unshared, TypeOK
  <2>2. SubmissionsAccounted'
    BY <1>3, <1>6 DEF SubmissionsAccounted
  <2>3. DocumentFollowsJob'
    BY <1>1, <1>3, <1>4 DEF DocumentFollowsJob, TypeOK
  <2>4. QED
    BY <2>1, <2>2, <2>3
<1>9. DirectDocumentShowsJob' /\ DeadLetterIsEarned'
  BY <1>1, <1>3, ConstantsAssumption
  DEF DirectDocumentShowsJob, Present, Shown, DeadLetterIsEarned, TypeOK, Docs
<1>10. UploadVerifiedBeforeQueued'
  BY <1>2, <1>3, <1>4, <1>5 DEF UploadVerifiedBeforeQueued, Unshared, Docs
<1>11. ParsedIsBacked'
  <2> SUFFICES ASSUME NEW e \in Docs, docs'[e] = "parsed"
               PROVE  /\ e \in artifacts' /\ KeyOf[e] \in blobs' /\ audit'[e]["parsed"] > 0
                      /\ Unshared(e) => storage'[KeyOf[e]].checksum
    BY DEF ParsedIsBacked, Unshared
  <2>1. e # d /\ docs[e] = "parsed"
    BY <1>1 DEF TypeOK
  <2>2. QED
    BY <1>3, <1>5, <1>6, <2>1 DEF ParsedIsBacked, Unshared
<1>12. QED
  BY <1>7, <1>8, <1>9, <1>10, <1>11

LEMMA DeleteDocumentKeeps ==
    ASSUME Coherent, NEW d \in Docs, DeleteDocument(d)
    PROVE  Actors' /\ Records'
<1> USE DEF Coherent, Actors, Records
<1>1. /\ docs' = [docs EXCEPT ![d] = "removed"] /\ artifacts' = artifacts \ {d}
      /\ Present(d) /\ Audit(d, "deleted")
  BY DEF DeleteDocument
<1>2. UNCHANGED <<storage, urls, blobs, requests, jobs, due, outbox, workers>>
  BY DEF DeleteDocument, httpVars, queueVars
<1>3. \A e \in Docs : /\ audit'[e]["uploaded"] = audit[e]["uploaded"]
                     /\ audit'[e]["parsed"] = audit[e]["parsed"]
  BY <1>1 DEF Audit, TypeOK, AuditActions
<1>4. Actors'
  BY <1>2 DEF WorkerHasJob, DueHasJob, RequestVerified, BlobsSent, Unshared,
              SnapshotNotAhead, OneOpenClaim, Claiming
<1>5. ObjectOwned' /\ SubmissionsAccounted' /\ DocumentFollowsJob'
  BY <1>1, <1>2, <1>3
  DEF ObjectOwned, Unshared, Present, SubmissionsAccounted, DocumentFollowsJob, TypeOK
<1>6. DirectDocumentShowsJob' /\ DeadLetterIsEarned' /\ UploadVerifiedBeforeQueued'
  BY <1>1, <1>2 DEF DirectDocumentShowsJob, Present, Shown, DeadLetterIsEarned,
                    UploadVerifiedBeforeQueued, TypeOK, Docs
<1>7. ParsedIsBacked'
  BY <1>1, <1>2, <1>3 DEF ParsedIsBacked, TypeOK
<1>8. QED
  BY <1>4, <1>5, <1>6, <1>7

\* An outbox event is never without its job: publishing it only moves the event.
LEMMA PublishKeeps ==
    ASSUME Coherent, NEW d \in Docs, PublishNextOutboxEvent(d)
    PROVE  Actors' /\ Records'
<1> USE DEF Coherent, Actors, Records
<1>1. /\ outbox[d]["pending"] > 0
      /\ outbox' = [outbox EXCEPT ![d]["pending"] = @ - 1, ![d]["published"] = @ + 1]
      /\ UNCHANGED <<docVars, httpVars, workers>>
  BY DEF PublishNextOutboxEvent
<1>2. UNCHANGED <<jobs, due>>
  <2>1. outbox[d]["published"] \in Nat /\ outbox[d]["pending"] \in Nat
    BY DEF TypeOK, OutboxStatus
  <2>2. jobs[d].status # "none"
    BY <1>1, <2>1 DEF SubmissionsAccounted
  <2>3. QED
    BY <2>2 DEF PublishNextOutboxEvent, SaveJob
<1>3. \A e \in Docs : outbox'[e]["pending"] + outbox'[e]["published"] =
                     outbox[e]["pending"] + outbox[e]["published"]
  BY <1>1 DEF TypeOK, OutboxStatus
<1> USE DEF docVars, httpVars
<1>4. Actors'
  BY <1>1, <1>2 DEF WorkerHasJob, DueHasJob, RequestVerified, BlobsSent, Unshared,
                    SnapshotNotAhead, OneOpenClaim, Claiming
<1>5. SubmissionsAccounted'
  BY <1>1, <1>2, <1>3 DEF SubmissionsAccounted
<1>6. ObjectOwned' /\ DocumentFollowsJob' /\ DirectDocumentShowsJob' /\ DeadLetterIsEarned'
  BY <1>1, <1>2 DEF ObjectOwned, Unshared, DocumentFollowsJob, DirectDocumentShowsJob,
                    Present, Shown, DeadLetterIsEarned
<1>7. UploadVerifiedBeforeQueued' /\ ParsedIsBacked'
  BY <1>1, <1>2 DEF UploadVerifiedBeforeQueued, ParsedIsBacked
<1>8. QED
  BY <1>4, <1>5, <1>6, <1>7

-------------------------------------------------------------------------------
(* Steps of the workers. *)

LEMMA CommitClaimKeeps ==
    ASSUME Coherent, NEW w \in Workers, CommitClaim(w)
    PROVE  Actors' /\ Records'
<1> USE DEF Coherent, Actors, Records
<1> DEFINE d == workers[w].doc
<1>1. /\ workers[w].pc = "claiming" /\ Present(d)
      /\ jobs' = [jobs EXCEPT ![d].status = "running", ![d].attempts = @ + 1]
      /\ docs' = [docs EXCEPT ![d] = "processing"]
      /\ workers' = [workers EXCEPT ![w] =
                         [pc |-> "working", doc |-> d, attempt |-> jobs[d].attempts + 1]]
      /\ UNCHANGED <<artifacts, storage, audit, httpVars, outbox, due>>
  BY DEF CommitClaim
<1>2. d \in Docs /\ jobs[d].status # "none"
  BY <1>1 DEF WorkerHasJob
<1> HIDE DEF d
<1>3. /\ jobs'[d].status = "running" /\ jobs'[d].attempts = jobs[d].attempts + 1
      /\ \A e \in Docs \ {d} : jobs'[e] = jobs[e]
      /\ jobs[d].attempts \in Nat
  BY <1>1, <1>2 DEF TypeOK
<1>4. /\ docs'[d] = "processing" /\ docs[d] # "none"
      /\ \A e \in Docs \ {d} : docs'[e] = docs[e]
  BY <1>1, <1>2 DEF TypeOK, Present
<1>5. /\ workers'[w] = [pc |-> "working", doc |-> d, attempt |-> jobs[d].attempts + 1]
      /\ \A v \in Workers \ {w} : workers'[v] = workers[v]
  BY <1>1 DEF TypeOK
<1>6. WorkerHasJob'
  BY <1>2, <1>3, <1>5 DEF WorkerHasJob
<1>7. SnapshotNotAhead'
  <2> SUFFICES ASSUME NEW v \in Workers, workers'[v].pc \in {"working", "failing"}
               PROVE  workers'[v].attempt <= jobs'[workers'[v].doc].attempts
    BY DEF SnapshotNotAhead
  <2>1. CASE v = w
    BY <1>3, <1>5, <2>1
  <2>2. CASE v # w
    <3>1. /\ workers[v].doc \in Docs /\ workers[v].attempt \in Nat
          /\ workers[v].attempt <= jobs[workers[v].doc].attempts
      BY <1>5, <2>2 DEF SnapshotNotAhead, WorkerHasJob, TypeOK
    <3>2. QED
      BY <1>3, <1>5, <2>2, <3>1
  <2>3. QED
    BY <2>1, <2>2
<1>8. OneOpenClaim'
  BY <1>5 DEF OneOpenClaim, Claiming
<1>9. DueHasJob' /\ RequestVerified' /\ BlobsSent'
  BY <1>1, <1>3 DEF DueHasJob, RequestVerified, BlobsSent, Unshared, httpVars, TypeOK
<1>10. ObjectOwned' /\ SubmissionsAccounted' /\ DocumentFollowsJob'
  <2>1. ObjectOwned'
    BY <1>1, <1>4 DEF ObjectOwned, Unshared
  <2>2. SubmissionsAccounted'
    BY <1>1, <1>2, <1>3 DEF SubmissionsAccounted
  <2>3. DocumentFollowsJob'
    BY <1>3, <1>4 DEF DocumentFollowsJob
  <2>4. QED
    BY <2>1, <2>2, <2>3
<1>11. DirectDocumentShowsJob' /\ DeadLetterIsEarned'
  BY <1>3, <1>4 DEF DirectDocumentShowsJob, Present, Shown, DeadLetterIsEarned, Docs
<1>12. UploadVerifiedBeforeQueued' /\ ParsedIsBacked'
  BY <1>1, <1>2, <1>3, <1>4
  DEF UploadVerifiedBeforeQueued, ParsedIsBacked, httpVars, Docs
<1>13. QED
  BY <1>6, <1>7, <1>8, <1>9, <1>10, <1>11, <1>12

\* A report on a job, be it success or failure: the worker's document is the job's,
\* and the job leaves the queue with another status and the same attempts.
Reported(w, status) ==
    LET d == workers[w].doc IN
    /\ workers[w].pc \in {"working", "failing"}
    /\ jobs' = [jobs EXCEPT ![d].status = status]
    /\ LeaveQueue(d)
    /\ \/ workers' = [workers EXCEPT ![w] = Idle]
       \/ workers' = [workers EXCEPT ![w].pc = "failing"]
    /\ UNCHANGED <<httpVars, outbox>>

LEMMA ReportedJob ==
    ASSUME Coherent, NEW w \in Workers, NEW status \in JobStatus \ {"none"},
           Reported(w, status)
    PROVE  /\ workers[w].doc \in Docs
           /\ jobs[workers[w].doc].status # "none"
           /\ jobs'[workers[w].doc].status = status
           /\ \A e \in Docs : jobs'[e].attempts = jobs[e].attempts
           /\ \A e \in Docs \ {workers[w].doc} : jobs'[e] = jobs[e]
BY DEF Coherent, Actors, WorkerHasJob, Reported, TypeOK

LEMMA ReportedActors ==
    ASSUME Coherent, NEW w \in Workers, NEW status \in JobStatus \ {"none"},
           Reported(w, status)
    PROVE  Actors'
<1> DEFINE d == workers[w].doc
<1>1. /\ d \in Docs
      /\ \A e \in Docs : jobs[e].status # "none" => jobs'[e].status # "none"
      /\ \A e \in Docs : jobs'[e].attempts = jobs[e].attempts
  BY ReportedJob
<1>2. ASSUME NEW v \in Workers, workers'[v].pc # "idle"
      PROVE  /\ workers[v].pc # "idle"
             /\ workers'[v].doc = workers[v].doc
             /\ workers'[v].attempt = workers[v].attempt
             /\ workers'[v].pc = workers[v].pc \/ (v = w /\ workers'[v].pc = "failing")
  <2>1. /\ workers[w].pc \in {"working", "failing"}
        /\ workers \in [Workers -> [pc : {"idle", "claiming", "working", "failing"},
                                   doc : Docs \cup {None}, attempt : Nat]]
        /\ \/ workers' = [workers EXCEPT ![w] = Idle]
           \/ workers' = [workers EXCEPT ![w].pc = "failing"]
    BY DEF Reported, TypeOK, Coherent
  <2>2. CASE v # w
    BY <1>2, <2>1, <2>2
  <2>3. CASE v = w
    <3>1. workers' = [workers EXCEPT ![w].pc = "failing"]
      BY <1>2, <2>1, <2>3 DEF Idle
    <3>2. workers[w] \in [pc : {"idle", "claiming", "working", "failing"},
                          doc : Docs \cup {None}, attempt : Nat]
      BY <2>1
    <3>3. workers'[w] = [workers[w] EXCEPT !.pc = "failing"]
      BY <2>1, <3>1
    <3>4. QED
      BY <2>1, <2>3, <3>2, <3>3
  <2>4. QED
    BY <2>2, <2>3
<1>3. due' \subseteq due /\ UNCHANGED <<urls, blobs, requests>>
  BY DEF Reported, LeaveQueue, httpVars
<1> USE DEF Coherent, Actors
<1>4. WorkerHasJob'
  BY <1>1, <1>2 DEF WorkerHasJob
<1>5. SnapshotNotAhead'
  <2> SUFFICES ASSUME NEW v \in Workers, workers'[v].pc \in {"working", "failing"}
               PROVE  workers'[v].attempt <= jobs'[workers'[v].doc].attempts
    BY DEF SnapshotNotAhead
  <2>1. workers[v].pc \in {"working", "failing"}
    BY <1>2 DEF Reported
  <2>2. workers[v].doc \in Docs /\ workers[v].attempt <= jobs[workers[v].doc].attempts
    BY <2>1 DEF SnapshotNotAhead, WorkerHasJob
  <2>3. QED
    BY <1>1, <1>2, <2>2
<1>6. OneOpenClaim'
  BY <1>2 DEF OneOpenClaim, Claiming
<1>7. DueHasJob' /\ RequestVerified' /\ BlobsSent'
  BY <1>1, <1>3 DEF DueHasJob, RequestVerified, BlobsSent, Unshared, TypeOK
<1>8. QED
  BY <1>4, <1>5, <1>6, <1>7

\* The checksum reaches the document's own object, and touches nothing else.
LEMMA RawChecksumEffect ==
    ASSUME TypeOK, NEW d \in Docs, RawChecksum(d)
    PROVE  /\ \A e \in Docs : storage'[KeyOf[e]].owner = storage[KeyOf[e]].owner
           /\ \A e \in Docs : storage'[KeyOf[e]].verified = storage[KeyOf[e]].verified
           /\ \A e \in Docs \ {d} : Unshared(e) => storage'[KeyOf[e]] = storage[KeyOf[e]]
           /\ storage[KeyOf[d]].owner = d => storage'[KeyOf[d]].checksum
<1> DEFINE k == KeyOf[d]
           known == storage[k].checksum \/ storage[k].owner = d
<1>1. \A e \in Docs : KeyOf[e] \in Keys
  BY ConstantsAssumption
<1>2. storage' = [storage EXCEPT ![k].checksum = known] /\ k \in Keys
  BY <1>1 DEF RawChecksum
<1>3. storage \in [Keys -> [owner : Docs \cup {None}, verified : BOOLEAN,
                           checksum : BOOLEAN]]
  BY DEF TypeOK
<1>4. \A e \in Docs \ {d} : Unshared(e) => KeyOf[e] # k
  BY DEF Unshared
<1>5. storage[k].owner = d => known
  OBVIOUS
<1> HIDE DEF known
<1>6. storage[k].owner = d => storage'[k].checksum
  BY <1>2, <1>3, <1>5
<1> HIDE DEF k
<1>7. ASSUME NEW l \in Keys
      PROVE  /\ storage'[l].owner = storage[l].owner
             /\ storage'[l].verified = storage[l].verified
             /\ l # k => storage'[l] = storage[l]
  BY <1>2, <1>3
<1>8. ASSUME NEW e \in Docs
      PROVE  /\ storage'[KeyOf[e]].owner = storage[KeyOf[e]].owner
             /\ storage'[KeyOf[e]].verified = storage[KeyOf[e]].verified
             /\ KeyOf[e] # k => storage'[KeyOf[e]] = storage[KeyOf[e]]
  <2>1. KeyOf[e] \in Keys
    BY <1>1
  <2>2. storage'[KeyOf[e]].owner = storage[KeyOf[e]].owner
    BY <1>7, <2>1
  <2>3. storage'[KeyOf[e]].verified = storage[KeyOf[e]].verified
    BY <1>7, <2>1
  <2>4. KeyOf[e] # k => storage'[KeyOf[e]] = storage[KeyOf[e]]
    BY <1>7, <2>1
  <2>5. QED
    BY <2>2, <2>3, <2>4
<1>9. \A e \in Docs \ {d} : Unshared(e) => storage'[KeyOf[e]] = storage[KeyOf[e]]
  BY <1>4, <1>8
<1>10. storage[KeyOf[d]].owner = d => storage'[KeyOf[d]].checksum
  BY <1>6 DEF k
<1>11. QED
  BY <1>8, <1>9, <1>10

LEMMA CommitParseKeeps ==
    ASSUME Coherent, NEW w \in Workers, workers[w].pc = "working",
           CommitParse(w, workers[w].doc), UNCHANGED <<httpVars, outbox>>,
           \/ workers' = [workers EXCEPT ![w] = Idle]
           \/ workers' = [workers EXCEPT ![w].pc = "failing"]
    PROVE  Actors' /\ Records'
<1> USE DEF Coherent, Actors, Records
<1> DEFINE d == workers[w].doc
<1>1. Reported(w, "completed") /\ "completed" \in JobStatus \ {"none"}
  BY DEF Reported, CommitParse, JobStatus
<1>2. Actors'
  BY <1>1, ReportedActors
<1>3. /\ d \in Docs /\ jobs[d].status # "none" /\ jobs'[d].status = "completed"
      /\ \A e \in Docs : jobs'[e].attempts = jobs[e].attempts
      /\ \A e \in Docs \ {d} : jobs'[e] = jobs[e]
  BY <1>1, ReportedJob
<1>4. /\ artifacts' = artifacts \cup {d} /\ RawChecksum(d) /\ Audit(d, "parsed")
      /\ docs' = [docs EXCEPT ![d] = "parsed"] /\ Present(d) /\ KeyOf[d] \in blobs
      /\ UNCHANGED <<blobs, urls, outbox>>
  BY DEF CommitParse, httpVars
<1> HIDE DEF d
<1>5. /\ docs'[d] = "parsed" /\ docs[d] # "none"
      /\ \A e \in Docs \ {d} : docs'[e] = docs[e]
  BY <1>3, <1>4 DEF TypeOK, Present
<1>6. /\ \A e \in Docs : storage'[KeyOf[e]].owner = storage[KeyOf[e]].owner
      /\ \A e \in Docs : storage'[KeyOf[e]].verified = storage[KeyOf[e]].verified
      /\ \A e \in Docs \ {d} : Unshared(e) => storage'[KeyOf[e]] = storage[KeyOf[e]]
      /\ Unshared(d) => storage'[KeyOf[d]].checksum
  <2>1. Unshared(d) => storage[KeyOf[d]].owner = d
    BY <1>3, <1>5 DEF ObjectOwned
  <2>2. QED
    BY <1>3, <1>4, <2>1, RawChecksumEffect
<1>7. /\ \A e \in Docs : audit'[e]["uploaded"] = audit[e]["uploaded"]
      /\ \A e \in Docs \ {d} : audit'[e] = audit[e]
      /\ audit'[d]["parsed"] > 0
  BY <1>3, <1>4 DEF Audit, TypeOK, AuditActions
<1>8. ObjectOwned'
  BY <1>5, <1>6 DEF ObjectOwned, Unshared
<1>9. SubmissionsAccounted'
  BY <1>3, <1>4, <1>7 DEF SubmissionsAccounted
<1>10. DocumentFollowsJob'
  BY <1>3, <1>5 DEF DocumentFollowsJob
<1>11. DirectDocumentShowsJob' /\ DeadLetterIsEarned'
  BY <1>3, <1>5 DEF DirectDocumentShowsJob, Present, Shown, DeadLetterIsEarned, Docs
<1>12. UploadVerifiedBeforeQueued'
  BY <1>3, <1>4, <1>6 DEF UploadVerifiedBeforeQueued, Docs
<1>13. ParsedIsBacked'
  BY <1>3, <1>4, <1>5, <1>6, <1>7 DEF ParsedIsBacked, Unshared
<1>14. QED
  BY <1>2, <1>8, <1>9, <1>10, <1>11, <1>12, <1>13

LEMMA RecordJobFailureKeeps ==
    ASSUME Coherent, NEW w \in Workers, RecordJobFailure(w)
    PROVE  Actors' /\ Records'
<1> USE DEF Coherent, Actors, Records
<1> DEFINE d == workers[w].doc
           dead == Exhausted(workers[w].attempt)
           status == IF dead THEN "dead_letter" ELSE "retry_scheduled"
<1>1. Reported(w, status) /\ status \in JobStatus \ {"none"}
  BY DEF Reported, RecordJobFailure, JobStatus
<1>2. Actors'
  BY <1>1, ReportedActors
<1>3. /\ d \in Docs /\ jobs[d].status # "none" /\ jobs'[d].status = status
      /\ \A e \in Docs : jobs'[e].attempts = jobs[e].attempts
      /\ \A e \in Docs \ {d} : jobs'[e] = jobs[e]
  BY <1>1, ReportedJob
<1>4. /\ \/ docs' = [docs EXCEPT ![d] = IF dead THEN "failed" ELSE "queued"]
         \/ UNCHANGED docs /\ (~Present(d) \/ (d \in UploadDocs /\ docs[d] = "queued"))
      /\ UNCHANGED <<artifacts, storage, audit, blobs, urls, outbox>>
  BY DEF RecordJobFailure, httpVars, PutBack
<1>5. dead => jobs[d].attempts >= MaxAttempts
  <2>1. /\ workers[w].attempt <= jobs[d].attempts
        /\ workers[w].attempt \in Nat /\ jobs[d].attempts \in Nat /\ MaxAttempts \in Nat
    BY <1>3, ConstantsAssumption DEF RecordJobFailure, SnapshotNotAhead, TypeOK
  <2>2. QED
    BY <2>1 DEF Exhausted
<1> HIDE DEF d, dead
<1>6. /\ \/ docs'[d] = "removed"
         \/ docs'[d] = IF dead THEN "failed" ELSE "queued"
         \/ d \in UploadDocs /\ docs'[d] = "queued"
      /\ docs[d] # "none"
      /\ \A e \in Docs \ {d} : docs'[e] = docs[e]
  <2>1. docs[d] # "none"
    BY <1>3 DEF DocumentFollowsJob
  <2>2. QED
    BY <1>3, <1>4, <2>1 DEF TypeOK, Present
<1>7. ObjectOwned'
  BY <1>4, <1>6 DEF ObjectOwned, Unshared
<1>8. SubmissionsAccounted'
  BY <1>3, <1>4 DEF SubmissionsAccounted
<1>9. DocumentFollowsJob'
  BY <1>3, <1>6 DEF DocumentFollowsJob
<1>10. DirectDocumentShowsJob'
  BY <1>3, <1>6, ConstantsAssumption DEF DirectDocumentShowsJob, Present, Shown, Docs
<1>11. DeadLetterIsEarned'
  BY <1>3, <1>5 DEF DeadLetterIsEarned
<1>12. UploadVerifiedBeforeQueued' /\ ParsedIsBacked'
  BY <1>3, <1>4, <1>6 DEF UploadVerifiedBeforeQueued, ParsedIsBacked, Docs
<1>13. QED
  BY <1>2, <1>7, <1>8, <1>9, <1>10, <1>11, <1>12

-------------------------------------------------------------------------------

LEMMA CoherentInductive == Coherent /\ [Next]_vars => Coherent'
<1> SUFFICES ASSUME Coherent, [Next]_vars PROVE Coherent'
  OBVIOUS
<1>1. TypeOK'
  BY TypeInductive DEF Coherent, Actors, WorkerHasJob, WorkerAboutDocument
<1>2. ASSUME RequestStep PROVE Actors' /\ Records'
  BY <1>2, CreateDocumentKeeps, RequestDocumentUploadKeeps, DeleteDocumentKeeps,
     FinishUploadCompleteKeeps, QuietRequests DEF RequestStep
<1>3. ASSUME NEW w \in Workers, WorkerStep(w) PROVE Actors' /\ Records'
  <2>1. CASE CompleteParseJob(w)
    BY <2>1, CommitParseKeeps DEF CompleteParseJob
  <2>2. CASE CompleteUnacknowledged(w)
    BY <2>2, CommitParseKeeps DEF CompleteUnacknowledged
  <2>3. QED
    BY <1>3, <2>1, <2>2, QuietWorkers, CommitClaimKeeps, RecordJobFailureKeeps DEF WorkerStep
<1>4. ASSUME UNCHANGED vars PROVE Actors' /\ Records'
  <2> USE <1>4 DEF vars, docVars, httpVars, queueVars
  <2>1. Records'
    BY RecordsKept
  <2>2. Actors'
    BY DEF Coherent, Actors, WorkerHasJob, DueHasJob, RequestVerified, BlobsSent, Unshared,
           SnapshotNotAhead, OneOpenClaim, Claiming
  <2>3. QED
    BY <2>1, <2>2
<1>5. QED
  BY <1>1, <1>2, <1>3, <1>4, PublishKeeps, QuietClock DEF Next, Coherent

LEMMA CoherentInitial == Init => Coherent
<1> SUFFICES ASSUME Init PROVE Coherent
  OBVIOUS
<1>1. TypeOK
  BY DEF Init, TypeOK, Idle, NoObject, DocStatus, JobStatus, OutboxStatus,
         AuditActions, FaultKinds
<1>2. Actors
  BY DEF Init, Actors, WorkerHasJob, DueHasJob, RequestVerified, BlobsSent, Unshared,
         SnapshotNotAhead, OneOpenClaim, Claiming, Idle
<1>3. Records
  BY DEF Init, Records, ObjectOwned, SubmissionsAccounted, DocumentFollowsJob,
         DirectDocumentShowsJob, Present, DeadLetterIsEarned,
         UploadVerifiedBeforeQueued, ParsedIsBacked, Docs, AuditActions, OutboxStatus
<1>4. QED
  BY <1>1, <1>2, <1>3 DEF Coherent

LEMMA CoherentAlways == Spec => []Coherent
<1>1. Init => Coherent
  BY CoherentInitial
<1>2. QED
  BY <1>1, CoherentInductive, PTL DEF Spec

\* A document never shows more than its job has reached, whatever the faults and
\* however many upload-complete requests race.
THEOREM FollowsJob == Spec => []DocumentFollowsJob
<1>1. Coherent => DocumentFollowsJob
  BY DEF Coherent, Records
<1>2. QED
  BY <1>1, CoherentAlways, PTL

\* A document registered by POST /documents always shows exactly what its job is
\* doing: claims, parses and failures change both rows or neither.
THEOREM DirectShowsJob == Spec => []DirectDocumentShowsJob
<1>1. Coherent => DirectDocumentShowsJob
  BY DEF Coherent, Records
<1>2. QED
  BY <1>1, CoherentAlways, PTL

\* A document shown as parsed has its parse result, its file, an audit event of
\* the parse and, when its storage key is its own, the checksum of its raw object.
THEOREM ParsedBacked == Spec => []ParsedIsBacked
<1>1. Coherent => ParsedIsBacked
  BY DEF Coherent, Records
<1>2. QED
  BY <1>1, CoherentAlways, PTL

\* No job is given up before max_attempts attempts, though RecordJobFailure decides
\* from a worker's old snapshot of the job.
THEOREM DeadLetterEarned == Spec => []DeadLetterIsEarned
<1>1. Coherent => DeadLetterIsEarned
  BY DEF Coherent, Records
<1>2. QED
  BY <1>1, CoherentAlways, PTL

\* An uploaded document gets a job only once its blob was found in the store.  When
\* its storage key is its own, the storage object is marked as verified, and the file
\* can only have come through the document's URL: BlobsSent, since the upload-complete
\* itself asks for the file and not for the URL.
THEOREM UploadVerified == Spec => []UploadVerifiedBeforeQueued
<1>1. Coherent => UploadVerifiedBeforeQueued
  BY DEF Coherent, Records
<1>2. QED
  BY <1>1, CoherentAlways, PTL

\* Each submission leaves one audit event and one outbox event, and documents with
\* an outbox event are those with a job: SaveOutboxEvent, SaveJob and the audit
\* event of a submission go together, and the publisher creates no job of its own.
THEOREM SubmissionsCounted == Spec => []SubmissionsAccounted
<1>1. Coherent => SubmissionsAccounted
  BY DEF Coherent, Records
<1>2. QED
  BY <1>1, CoherentAlways, PTL

\* FOR UPDATE SKIP LOCKED: no two workers are inside a claim of the same job.
THEOREM ClaimsExclude == Spec => []OneOpenClaim
<1>1. Coherent => OneOpenClaim
  BY DEF Coherent, Actors
<1>2. QED
  BY <1>1, CoherentAlways, PTL

-------------------------------------------------------------------------------
(* Storage objects: who they belong to and what they say of it. *)

\* A job, once it exists, does, and a parse that was audited stays so.
JobsStay == \A d \in Docs :
    /\ jobs[d].status # "none" => jobs'[d].status # "none"
    /\ audit[d]["parsed"] > 0 => audit'[d]["parsed"] > 0

\* The steps that write storage objects: what a submission says of the document it
\* writes the object for, and what a parse says of the document it was made for.
ObjectWritten ==
    \/ UNCHANGED storage
    \/ \E d \in Docs, v \in BOOLEAN :
         /\ SaveStorageObject(d, v)
         /\ v => d \in UploadDocs /\ jobs'[d].status # "none"
    \/ \E d \in Docs : RawChecksum(d) /\ audit'[d]["parsed"] > 0

LEMMA AuditStays ==
    ASSUME TypeOK, NEW d \in Docs, NEW a \in AuditActions, Audit(d, a)
    PROVE  /\ \A e \in Docs : audit[e]["parsed"] > 0 => audit'[e]["parsed"] > 0
           /\ a = "parsed" => audit'[d]["parsed"] > 0
BY DEF TypeOK, Audit, AuditActions

LEMMA ReportWrites ==
    ASSUME Coherent, NEW w \in Workers, WorkerStep(w)
    PROVE  JobsStay /\ ObjectWritten
<1> USE DEF docVars, queueVars
<1>1. CASE SelectJob(w) \/ AbortClaim(w) \/ Interrupt(w)
  BY <1>1 DEF SelectJob, AbortClaim, Interrupt, JobsStay, ObjectWritten
<1>2. CASE CommitClaim(w)
  BY <1>2 DEF CommitClaim, JobsStay, ObjectWritten, Coherent, TypeOK
<1>3. CASE RecordJobFailure(w)
  BY <1>3 DEF RecordJobFailure, JobsStay, ObjectWritten, Coherent, TypeOK
<1>4. CASE CompleteParseJob(w) \/ CompleteUnacknowledged(w)
  <2> DEFINE d == workers[w].doc
  <2>1. d \in Docs /\ CommitParse(w, d)
    BY <1>4 DEF CompleteParseJob, CompleteUnacknowledged, Coherent, Actors, WorkerHasJob
  <2> HIDE DEF d
  <2>2. \A e \in Docs : jobs[e].status # "none" => jobs'[e].status # "none"
    BY <2>1 DEF CommitParse, Coherent, TypeOK
  <2>3. Audit(d, "parsed") /\ RawChecksum(d) /\ "parsed" \in AuditActions
    BY <2>1 DEF CommitParse, AuditActions
  <2>4. /\ \A e \in Docs : audit[e]["parsed"] > 0 => audit'[e]["parsed"] > 0
        /\ audit'[d]["parsed"] > 0
    BY <2>1, <2>3, AuditStays DEF Coherent
  <2>5. QED
    BY <2>1, <2>2, <2>3, <2>4 DEF JobsStay, ObjectWritten
<1>5. QED
  BY <1>1, <1>2, <1>3, <1>4 DEF WorkerStep

LEMMA RequestWrites ==
    ASSUME Coherent, RequestStep
    PROVE  JobsStay /\ ObjectWritten
<1> USE DEF docVars, queueVars
<1>1. ASSUME NEW d \in Docs, NEW v \in BOOLEAN, SaveJob(d), Audit(d, "uploaded"),
             SaveStorageObject(d, v), v => d \in UploadDocs
      PROVE  JobsStay /\ ObjectWritten
  <2>1. /\ jobs'[d].status # "none"
        /\ \A e \in Docs : jobs[e].status # "none" => jobs'[e] = jobs[e]
    BY <1>1, SaveJobEffect DEF Coherent
  <2>2. \A e \in Docs : audit[e]["parsed"] > 0 => audit'[e]["parsed"] > 0
    BY <1>1, AuditStays DEF Coherent, AuditActions
  <2>3. QED
    BY <1>1, <2>1, <2>2 DEF JobsStay, ObjectWritten
<1>2. ASSUME NEW d \in Docs, CreateDocument(d) PROVE JobsStay /\ ObjectWritten
  BY <1>1, <1>2 DEF CreateDocument
<1>3. ASSUME NEW c \in Clients, FinishUploadComplete(c) PROVE JobsStay /\ ObjectWritten
  <2>1. requests[c] \in Docs /\ requests[c] \in UploadDocs
    BY <1>3 DEF FinishUploadComplete, Coherent, TypeOK, Actors, RequestVerified
  <2>2. QED
    BY <1>1, <1>3, <2>1 DEF FinishUploadComplete
<1>4. ASSUME NEW d \in Docs, RequestDocumentUpload(d) PROVE JobsStay /\ ObjectWritten
  <2>1. /\ SaveStorageObject(d, FALSE) /\ Audit(d, "upload_requested") /\ UNCHANGED jobs
        /\ "upload_requested" \in AuditActions
    BY <1>4 DEF RequestDocumentUpload, AuditActions
  <2>2. \A e \in Docs : audit[e]["parsed"] > 0 => audit'[e]["parsed"] > 0
    BY <2>1, AuditStays DEF Coherent
  <2>3. QED
    BY <2>1, <2>2 DEF JobsStay, ObjectWritten
<1>5. ASSUME NEW d \in Docs, DeleteDocument(d) PROVE JobsStay /\ ObjectWritten
  <2>1. Audit(d, "deleted") /\ UNCHANGED <<jobs, storage>> /\ "deleted" \in AuditActions
    BY <1>5 DEF DeleteDocument, AuditActions
  <2>2. \A e \in Docs : audit[e]["parsed"] > 0 => audit'[e]["parsed"] > 0
    BY <2>1, AuditStays DEF Coherent
  <2>3. QED
    BY <2>1, <2>2 DEF JobsStay, ObjectWritten
<1>6. CASE \/ \E d \in Docs : PutBlob(d)
           \/ \E c \in Clients : \/ \E d \in Docs : BeginUploadComplete(c, d)
                                \/ AbandonUploadComplete(c)
  BY <1>6 DEF PutBlob, BeginUploadComplete, AbandonUploadComplete, JobsStay, ObjectWritten
<1>7. QED
  BY <1>2, <1>3, <1>4, <1>5, <1>6 DEF RequestStep

LEMMA EveryStepWrites == Coherent /\ [Next]_vars => JobsStay /\ ObjectWritten
<1> SUFFICES ASSUME Coherent, [Next]_vars PROVE JobsStay /\ ObjectWritten
  OBVIOUS
<1>1. ASSUME NEW d \in Docs, PublishNextOutboxEvent(d) PROVE JobsStay /\ ObjectWritten
  <2>1. SaveJob(d) /\ UNCHANGED <<storage, audit>>
    BY <1>1 DEF PublishNextOutboxEvent, docVars
  <2>2. /\ jobs'[d].status # "none"
        /\ \A e \in Docs : jobs[e].status # "none" => jobs'[e] = jobs[e]
    BY <2>1, SaveJobEffect DEF Coherent
  <2>3. QED
    BY <2>1, <2>2 DEF JobsStay, ObjectWritten
<1>2. CASE UNCHANGED vars \/ \E d \in Docs : ClockStep(d)
  BY <1>2 DEF ClockStep, LeaseRunsOut, LeaseOverrun, BecomeAvailable, vars, docVars,
              queueVars, JobsStay, ObjectWritten
<1>3. QED
  BY <1>1, <1>2, RequestWrites, ReportWrites DEF Next

LEMMA ObjectsSpeakInductive ==
    Coherent /\ ObjectSpeaksForOwner /\ [Next]_vars => ObjectSpeaksForOwner'
<1> SUFFICES ASSUME Coherent, ObjectSpeaksForOwner, [Next]_vars, NEW k \in Keys
             PROVE  LET d == storage'[k].owner IN
                    /\ storage'[k].verified =>
                           d \in UploadDocs /\ KeyOf[d] = k /\ jobs'[d].status # "none"
                    /\ storage'[k].checksum =>
                           d \in Docs /\ KeyOf[d] = k /\ audit'[d]["parsed"] > 0
  BY DEF ObjectSpeaksForOwner
<1>1. JobsStay /\ ObjectWritten
  BY EveryStepWrites
<1>2. storage \in [Keys -> [owner : Docs \cup {None}, verified : BOOLEAN,
                           checksum : BOOLEAN]]
  BY DEF Coherent, TypeOK
<1>3. LET d == storage[k].owner IN
      /\ storage[k].verified => d \in UploadDocs /\ KeyOf[d] = k /\ jobs'[d].status # "none"
      /\ storage[k].checksum => d \in Docs /\ KeyOf[d] = k /\ audit'[d]["parsed"] > 0
  BY <1>1 DEF ObjectSpeaksForOwner, JobsStay, Docs
<1>4. CASE UNCHANGED storage
  BY <1>3, <1>4
<1>5. ASSUME NEW d \in Docs, NEW v \in BOOLEAN, SaveStorageObject(d, v),
             v => d \in UploadDocs /\ jobs'[d].status # "none"
      PROVE  LET e == storage'[k].owner IN
             /\ storage'[k].verified =>
                    e \in UploadDocs /\ KeyOf[e] = k /\ jobs'[e].status # "none"
             /\ storage'[k].checksum =>
                    e \in Docs /\ KeyOf[e] = k /\ audit'[e]["parsed"] > 0
  <2>1. storage' = [storage EXCEPT ![KeyOf[d]] =
                        [owner |-> d, verified |-> v, checksum |-> FALSE]]
    BY <1>5 DEF SaveStorageObject
  <2>2. CASE k = KeyOf[d]
    BY <1>2, <1>5, <2>1, <2>2
  <2>3. CASE k # KeyOf[d]
    BY <1>2, <1>3, <2>1, <2>3
  <2>4. QED
    BY <2>2, <2>3
<1>6. ASSUME NEW d \in Docs, RawChecksum(d), audit'[d]["parsed"] > 0
      PROVE  LET e == storage'[k].owner IN
             /\ storage'[k].verified =>
                    e \in UploadDocs /\ KeyOf[e] = k /\ jobs'[e].status # "none"
             /\ storage'[k].checksum =>
                    e \in Docs /\ KeyOf[e] = k /\ audit'[e]["parsed"] > 0
  <2>1. /\ storage'[k].owner = storage[k].owner
        /\ storage'[k].verified = storage[k].verified
        /\ storage'[k].checksum =>
               storage[k].checksum \/ (KeyOf[d] = k /\ storage[k].owner = d)
    <3> DEFINE known == storage[KeyOf[d]].checksum \/ storage[KeyOf[d]].owner = d
    <3>1. storage' = [storage EXCEPT ![KeyOf[d]].checksum = known]
      BY <1>6 DEF RawChecksum
    <3>2. CASE k # KeyOf[d]
      BY <1>2, <3>1, <3>2
    <3>3. CASE k = KeyOf[d]
      <4>1. storage'[k] = [storage[k] EXCEPT !.checksum = known]
        BY <1>2, <3>1, <3>3
      <4>2. storage[k] \in [owner : Docs \cup {None}, verified : BOOLEAN,
                            checksum : BOOLEAN]
        BY <1>2
      <4>3. storage'[k].owner = storage[k].owner /\ storage'[k].verified = storage[k].verified
        BY <4>1, <4>2
      <4>4. storage'[k].checksum = known
        BY <4>1, <4>2
      <4>5. QED
        BY <3>3, <4>3, <4>4
    <3>4. QED
      BY <3>2, <3>3
  <2>2. QED
    BY <1>3, <1>6, <2>1
<1>7. QED
  BY <1>1, <1>4, <1>5, <1>6 DEF ObjectWritten

\* Whatever keys documents share, an object that is marked verified or carries a
\* checksum owes it to the upload-complete, or to a parse, of the document that owns it
\* now: SaveStorageObject takes an object over as new, and RawChecksum asks who owns it.
THEOREM ObjectsSpeak == Spec => []ObjectSpeaksForOwner
<1>1. Init => ObjectSpeaksForOwner
  BY DEF Init, ObjectSpeaksForOwner, NoObject
<1>2. QED
  BY <1>1, CoherentAlways, ObjectsSpeakInductive, PTL DEF Spec

-------------------------------------------------------------------------------
(***************************************************************************)
(* What leases buy.  When no worker outlives its lease and no commit goes  *)
(* unacknowledged, a document is processed by one worker at a time, its    *)
(* parse is recorded once and the outcome of a job is final, however often *)
(* workers are interrupted.                                                *)
(***************************************************************************)

LeasesOutliveWork == MaxFaults["overrun"] = 0 /\ MaxFaults["lost_commit"] = 0

\* What a claim in progress has seen of the job, and nobody can change meanwhile.
Free(d) ==
    \/ jobs[d].status \in {"queued", "retry_scheduled"}
    \/ jobs[d].status = "running" /\ ~leaseLive[d]

\* The job of a document being processed.
HeldJob(d, attempt) ==
    /\ jobs[d].status = "running"
    /\ jobs[d].attempts = attempt
    /\ leaseLive[d]

NoFaults == faults["overrun"] = 0 /\ faults["lost_commit"] = 0

ClaimsAreFree == \A w \in Workers : workers[w].pc = "claiming" => Free(workers[w].doc)

WorkIsHeld == \A w \in Workers :
    /\ workers[w].pc # "failing"
    /\ workers[w].pc = "working" => HeldJob(workers[w].doc, workers[w].attempt)

ParsesCounted == \A d \in Docs :
    /\ audit[d]["parsed"] <= 1
    /\ jobs[d].status # "completed" => audit[d]["parsed"] = 0

Leased ==
    /\ NoFaults
    /\ ClaimsAreFree
    /\ WorkIsHeld
    /\ OneWorkerPerDocument
    /\ ParsesCounted

-------------------------------------------------------------------------------

\* Every step that changes a job creates it or is that of a worker at the job.
LEMMA JobChanges ==
    ASSUME Coherent, [Next]_vars, NEW d \in Docs, jobs'[d] # jobs[d]
    PROVE  \/ jobs[d].status = "none" /\ jobs'[d] = [status |-> "queued", attempts |-> 0]
           \/ \E w \in Workers :
                /\ workers[w].doc = d
                /\ \/ CommitClaim(w)
                   \/ CompleteParseJob(w)
                   \/ CompleteUnacknowledged(w)
                   \/ RecordJobFailure(w)
<1> USE DEF Coherent, queueVars
<1>1. ASSUME NEW e \in Docs, SaveJob(e)
      PROVE  jobs[d].status = "none" /\ jobs'[d] = [status |-> "queued", attempts |-> 0]
  BY <1>1, SaveJobEffect
<1>2. CASE RequestStep
  <2>1. ASSUME NEW e \in Docs, CreateDocument(e) PROVE SaveJob(e)
    BY <2>1 DEF CreateDocument
  <2>2. ASSUME NEW c \in Clients, FinishUploadComplete(c)
        PROVE  requests[c] \in Docs /\ SaveJob(requests[c])
    BY <2>2 DEF FinishUploadComplete, TypeOK
  <2>3. UNCHANGED jobs \/ (\E e \in Docs : CreateDocument(e))
                       \/ (\E c \in Clients : FinishUploadComplete(c))
    BY <1>2 DEF RequestStep, RequestDocumentUpload, PutBlob, DeleteDocument,
                BeginUploadComplete, AbandonUploadComplete
  <2>4. QED
    BY <1>1, <2>1, <2>2, <2>3
<1>3. CASE \E e \in Docs : PublishNextOutboxEvent(e)
  BY <1>1, <1>3 DEF PublishNextOutboxEvent
<1>4. CASE \E e \in Docs : ClockStep(e)
  BY <1>4 DEF ClockStep, LeaseRunsOut, LeaseOverrun, BecomeAvailable
<1>5. ASSUME NEW w \in Workers, WorkerStep(w)
      PROVE  /\ workers[w].doc = d
             /\ CommitClaim(w) \/ CompleteParseJob(w) \/ CompleteUnacknowledged(w)
                  \/ RecordJobFailure(w)
  <2>1. CASE SelectJob(w) \/ AbortClaim(w) \/ Interrupt(w)
    BY <2>1 DEF SelectJob, AbortClaim, Interrupt
  <2>2. CASE CommitClaim(w)
    BY <2>2 DEF CommitClaim, TypeOK
  <2>3. CASE CompleteParseJob(w)
    BY <2>3 DEF CompleteParseJob, CommitParse, TypeOK
  <2>4. CASE CompleteUnacknowledged(w)
    BY <2>4 DEF CompleteUnacknowledged, CommitParse, TypeOK
  <2>5. CASE RecordJobFailure(w)
    BY <2>5 DEF RecordJobFailure, TypeOK
  <2>6. QED
    BY <1>5, <2>1, <2>2, <2>3, <2>4, <2>5 DEF WorkerStep
<1>6. CASE UNCHANGED vars
  BY <1>6 DEF vars
<1>7. QED
  BY <1>2, <1>3, <1>4, <1>5, <1>6 DEF Next

\* Requests and the publisher can only give a job to a document that has none.
LEMMA RequestsCreateJobs ==
    ASSUME Coherent, RequestStep \/ (\E e \in Docs : PublishNextOutboxEvent(e)), NEW d \in Docs
    PROVE  \/ jobs'[d] = jobs[d]
           \/ jobs[d].status = "none" /\ jobs'[d] = [status |-> "queued", attempts |-> 0]
<1> SUFFICES ASSUME jobs'[d] # jobs[d]
             PROVE  jobs[d].status = "none" /\ jobs'[d] = [status |-> "queued", attempts |-> 0]
  OBVIOUS
<1>1. UNCHANGED workers
  BY OthersLeaveWorkers
<1>2. ASSUME NEW w \in Workers, CommitClaim(w) \/ CompleteParseJob(w)
                                   \/ CompleteUnacknowledged(w) \/ RecordJobFailure(w)
      PROVE  FALSE
  <2>1. workers[w].pc # "idle" /\ workers'[w].pc # workers[w].pc
    BY <1>2 DEF CommitClaim, CompleteParseJob, CompleteUnacknowledged, RecordJobFailure,
                Idle, Coherent, TypeOK
  <2>2. QED
    BY <1>1, <2>1
<1>3. QED
  BY <1>2, JobChanges DEF Next

\* So they leave leases and those who work under them alone.
LEMMA RequestsKeepLeases ==
    ASSUME Coherent, Leased, RequestStep \/ \E d \in Docs : PublishNextOutboxEvent(d)
    PROVE  Leased'
<1>1. UNCHANGED <<workers, leaseLive, faults>>
  BY DEF RequestStep, CreateDocument, RequestDocumentUpload, PutBlob, DeleteDocument,
         BeginUploadComplete, FinishUploadComplete, AbandonUploadComplete,
         PublishNextOutboxEvent, queueVars
<1>2. \A d \in Docs : audit'[d]["parsed"] = audit[d]["parsed"]
  <2>1. ASSUME NEW d \in Docs, NEW a \in {"uploaded", "upload_requested", "deleted"}, Audit(d, a)
        PROVE  \A e \in Docs : audit'[e]["parsed"] = audit[e]["parsed"]
    BY <2>1 DEF Audit, Coherent, TypeOK, AuditActions
  <2>2. \/ UNCHANGED audit
        \/ \E d \in Docs : \E a \in {"uploaded", "upload_requested", "deleted"} : Audit(d, a)
    BY DEF RequestStep, CreateDocument, RequestDocumentUpload, PutBlob, DeleteDocument,
           BeginUploadComplete, FinishUploadComplete, AbandonUploadComplete,
           PublishNextOutboxEvent, docVars, Coherent, TypeOK
  <2>3. QED
    BY <2>1, <2>2
<1>3. \A d \in Docs : jobs'[d] = jobs[d] \/ jobs[d].status = "none"
  BY RequestsCreateJobs
<1>4. NoFaults' /\ OneWorkerPerDocument'
  BY <1>1 DEF Leased, NoFaults, OneWorkerPerDocument, Processing
<1>5. ClaimsAreFree' /\ WorkIsHeld'
  <2>1. \A w \in Workers : workers[w].pc # "idle" =>
           jobs'[workers[w].doc] = jobs[workers[w].doc]
    BY <1>3 DEF Coherent, Actors, WorkerHasJob
  <2>2. QED
    BY <1>1, <2>1 DEF Leased, ClaimsAreFree, WorkIsHeld, Free, HeldJob
<1>6. ParsesCounted'
  BY <1>2, <1>3 DEF Leased, ParsesCounted
<1>7. QED
  BY <1>4, <1>5, <1>6 DEF Leased

\* Time frees only a job nobody works on.
LEMMA ClockKeepsLeases ==
    ASSUME Coherent, Leased, LeasesOutliveWork, NEW d \in Docs, ClockStep(d)
    PROVE  Leased'
<1> USE DEF Leased
<1>1. ~LeaseOverrun(d)
  BY DEF LeaseOverrun, NoFaults, LeasesOutliveWork
<1>2. UNCHANGED <<workers, jobs, audit, faults>>
  BY <1>1 DEF ClockStep, LeaseRunsOut, BecomeAvailable, docVars
<1>3. NoFaults' /\ OneWorkerPerDocument' /\ ParsesCounted'
  BY <1>2 DEF NoFaults, OneWorkerPerDocument, Processing, ParsesCounted
<1>4. \A w \in Workers : workers[w].pc # "idle" => workers[w].doc \in Docs
  BY DEF Coherent, Actors, WorkerHasJob
<1>5. \/ UNCHANGED leaseLive
      \/ /\ leaseLive' = [leaseLive EXCEPT ![d] = FALSE]
         /\ \A w \in Workers : ~HoldsLease(w, d)
  BY <1>1 DEF ClockStep, LeaseRunsOut, BecomeAvailable
<1>6. leaseLive \in [Docs -> BOOLEAN]
  BY DEF Coherent, TypeOK
<1>7. ClaimsAreFree'
  BY <1>2, <1>4, <1>5, <1>6 DEF ClaimsAreFree, Free
<1>8. WorkIsHeld'
  BY <1>2, <1>4, <1>5, <1>6 DEF WorkIsHeld, HeldJob, HoldsLease, Processing
<1>9. QED
  BY <1>3, <1>7, <1>8

\* Selecting a job, giving a claim up and being interrupted touch no job.
LEMMA QuietWorkersKeepLeases ==
    ASSUME Coherent, Leased, NEW w \in Workers,
           SelectJob(w) \/ AbortClaim(w) \/ Interrupt(w)
    PROVE  Leased'
<1> USE DEF Leased
<1>1. UNCHANGED <<jobs, leaseLive, audit>>
  BY DEF SelectJob, AbortClaim, Interrupt, docVars, queueVars
<1>2. NoFaults' /\ ParsesCounted'
  BY <1>1 DEF SelectJob, AbortClaim, Interrupt, NoFaults, ParsesCounted, Coherent, TypeOK,
              FaultKinds
<1>3. \/ workers' = [workers EXCEPT ![w] = Idle]
      \/ \E d \in Docs :
           /\ Free(d)
           /\ workers' = [workers EXCEPT ![w] =
                             [pc |-> "claiming", doc |-> d, attempt |-> 0]]
  BY DEF SelectJob, AbortClaim, Interrupt, Claimable, Free
<1>4. ASSUME NEW v \in Workers
      PROVE  \/ workers'[v] = workers[v]
             \/ workers'[v].pc = "idle"
             \/ workers'[v].pc = "claiming" /\ Free(workers'[v].doc)
  BY <1>3 DEF Idle, Coherent, TypeOK
<1>5. ClaimsAreFree'
  BY <1>1, <1>4 DEF ClaimsAreFree, Free
<1>6. WorkIsHeld'
  BY <1>1, <1>4 DEF WorkIsHeld, HeldJob
<1>7. OneWorkerPerDocument'
  BY <1>4 DEF OneWorkerPerDocument, Processing
<1>8. QED
  BY <1>2, <1>5, <1>6, <1>7

\* Nobody else is at a job being claimed, nor at a job being worked on.
LEMMA AloneAtJob ==
    ASSUME Coherent, Leased, NEW w \in Workers, NEW v \in Workers, v # w,
           \/ workers[w].pc = "claiming"
           \/ workers[w].pc = "working" /\ ~RowLocked(workers[w].doc)
    PROVE  workers[v].pc = "idle" \/ workers[v].doc # workers[w].doc
<1> SUFFICES ASSUME workers[v].pc # "idle", workers[v].doc = workers[w].doc PROVE FALSE
  OBVIOUS
<1> DEFINE d == workers[w].doc
<1>1. d \in Docs /\ workers[v].pc \in {"claiming", "working"}
  BY DEF Coherent, Actors, WorkerHasJob, Leased, WorkIsHeld, TypeOK
<1>2. CASE workers[w].pc = "claiming" /\ workers[v].pc = "claiming"
  BY <1>1, <1>2 DEF Coherent, Actors, OneOpenClaim, Claiming
<1>3. CASE workers[w].pc = "claiming" /\ workers[v].pc = "working"
  BY <1>3 DEF Leased, ClaimsAreFree, WorkIsHeld, Free, HeldJob
<1>4. CASE workers[w].pc = "working" /\ ~RowLocked(d)
  <2>1. workers[v].pc = "working"
    BY <1>1, <1>4 DEF RowLocked, Claiming
  <2>2. QED
    BY <1>1, <1>4, <2>1 DEF Leased, OneWorkerPerDocument, Processing
<1>5. QED
  BY <1>1, <1>2, <1>3, <1>4

\* A worker takes a job nobody works on.
LEMMA CommitClaimKeepsLeases ==
    ASSUME Coherent, Leased, NEW w \in Workers, CommitClaim(w)
    PROVE  Leased'
<1> DEFINE d == workers[w].doc
<1>1. /\ workers[w].pc = "claiming"
      /\ jobs' = [jobs EXCEPT ![d].status = "running", ![d].attempts = @ + 1]
      /\ leaseLive' = [leaseLive EXCEPT ![d] = TRUE]
      /\ workers' = [workers EXCEPT ![w] =
                         [pc |-> "working", doc |-> d, attempt |-> jobs[d].attempts + 1]]
      /\ UNCHANGED <<audit, faults>>
  BY DEF CommitClaim
<1>2. d \in Docs /\ Free(d)
  BY <1>1 DEF Coherent, Actors, WorkerHasJob, Leased, ClaimsAreFree
<1>3. ASSUME NEW v \in Workers \ {w} PROVE workers[v].pc = "idle" \/ workers[v].doc # d
  <2>1. v \in Workers /\ v # w /\ workers[w].pc = "claiming"
    BY <1>1
  <2>2. QED
    BY <2>1, AloneAtJob
<1>4. \A v \in Workers : workers[v].pc # "idle" => workers[v].doc \in Docs
  BY DEF Coherent, Actors, WorkerHasJob
<1> HIDE DEF d
<1>5. /\ workers'[w] = [pc |-> "working", doc |-> d, attempt |-> jobs[d].attempts + 1]
      /\ \A v \in Workers \ {w} : workers'[v] = workers[v]
  BY <1>1 DEF Coherent, TypeOK
<1>6. /\ HeldJob(d, jobs[d].attempts + 1)'
      /\ \A e \in Docs \ {d} : jobs'[e] = jobs[e] /\ leaseLive'[e] = leaseLive[e]
  BY <1>1, <1>2 DEF HeldJob, Coherent, TypeOK
<1>7. ClaimsAreFree'
  BY <1>3, <1>4, <1>5, <1>6 DEF Leased, ClaimsAreFree, Free
<1>8. WorkIsHeld'
  <2>1. jobs'[d].status = "running" /\ jobs'[d].attempts = jobs[d].attempts + 1 /\ leaseLive'[d]
    BY <1>1, <1>2 DEF Coherent, TypeOK
  <2>2. QED
    BY <1>3, <1>4, <1>5, <1>6, <2>1 DEF Leased, WorkIsHeld, HeldJob
<1>9. OneWorkerPerDocument'
  BY <1>3, <1>5 DEF Leased, OneWorkerPerDocument, Processing
<1>10. NoFaults' /\ ParsesCounted'
  BY <1>1, <1>2, <1>6 DEF Leased, NoFaults, ParsesCounted, Free
<1>11. QED
  BY <1>7, <1>8, <1>9, <1>10 DEF Leased

\* A worker reports on the job it holds and lets go of it.
LEMMA ReportKeepsLeases ==
    ASSUME Coherent, Leased, NEW w \in Workers, CompleteParseJob(w) \/ RecordJobFailure(w)
    PROVE  Leased'
<1> DEFINE d == workers[w].doc
<1>1. /\ workers[w].pc = "working" /\ ~RowLocked(d)
      /\ workers' = [workers EXCEPT ![w] = Idle]
      /\ UNCHANGED faults
  BY DEF CompleteParseJob, CommitParse, RecordJobFailure, Leased, WorkIsHeld
<1>2. d \in Docs /\ jobs[d].status = "running"
  BY <1>1 DEF Coherent, Actors, WorkerHasJob, Leased, WorkIsHeld, HeldJob
<1>3. \A v \in Workers \ {w} : workers[v].pc = "idle" \/ workers[v].doc # d
  BY <1>1, AloneAtJob
<1>4. \A v \in Workers : workers[v].pc # "idle" => workers[v].doc \in Docs
  BY DEF Coherent, Actors, WorkerHasJob
<1>5. \A e \in Docs \ {d} : jobs'[e] = jobs[e] /\ leaseLive'[e] = leaseLive[e]
  BY DEF CompleteParseJob, CommitParse, RecordJobFailure, LeaseAfter, Coherent, TypeOK
<1>6. ParsesCounted'
  <2>1. audit[d]["parsed"] = 0
    BY <1>2 DEF Leased, ParsesCounted
  <2>2. CASE CompleteParseJob(w)
    <3>1. Audit(d, "parsed") /\ jobs' = [jobs EXCEPT ![d].status = "completed"]
      BY <2>2 DEF CompleteParseJob, CommitParse
    <3>2. /\ audit'[d]["parsed"] = 1 /\ jobs'[d].status = "completed"
          /\ \A e \in Docs \ {d} : audit'[e] = audit[e]
      BY <1>2, <2>1, <3>1 DEF Audit, Coherent, TypeOK, AuditActions
    <3>3. QED
      BY <1>5, <3>2 DEF Leased, ParsesCounted
  <2>3. CASE RecordJobFailure(w)
    BY <1>5, <2>1, <2>3 DEF RecordJobFailure, Leased, ParsesCounted
  <2>4. QED
    BY <2>2, <2>3
<1> HIDE DEF d
<1>7. workers'[w].pc = "idle" /\ \A v \in Workers \ {w} : workers'[v] = workers[v]
  BY <1>1 DEF Idle, Coherent, TypeOK
<1>8. ClaimsAreFree' /\ WorkIsHeld'
  BY <1>3, <1>4, <1>5, <1>7 DEF Leased, ClaimsAreFree, WorkIsHeld, Free, HeldJob
<1>9. OneWorkerPerDocument' /\ NoFaults'
  BY <1>1, <1>7 DEF Leased, OneWorkerPerDocument, Processing, NoFaults
<1>10. QED
  BY <1>6, <1>8, <1>9 DEF Leased

LEMMA LeasedInductive ==
    ASSUME Coherent, Leased, LeasesOutliveWork, [Next]_vars
    PROVE  Leased'
<1>1. ASSUME NEW w \in Workers, WorkerStep(w) PROVE Leased'
  <2>1. ~CompleteUnacknowledged(w)
    BY DEF CompleteUnacknowledged, Leased, NoFaults, LeasesOutliveWork
  <2>2. QED
    BY <1>1, <2>1, QuietWorkersKeepLeases, CommitClaimKeepsLeases, ReportKeepsLeases
    DEF WorkerStep
<1>2. CASE UNCHANGED vars
  BY <1>2 DEF vars, docVars, queueVars, Leased, NoFaults, ClaimsAreFree, WorkIsHeld,
              OneWorkerPerDocument, ParsesCounted, Free, HeldJob, Processing
<1>3. QED
  BY <1>1, <1>2, RequestsKeepLeases, ClockKeepsLeases DEF Next

LEMMA LeasedAlways ==
    ASSUME LeasesOutliveWork
    PROVE  Spec => [](Coherent /\ Leased)
<1>1. Init => Leased
  BY DEF Init, Leased, NoFaults, ClaimsAreFree, WorkIsHeld, OneWorkerPerDocument, Processing,
         ParsesCounted, Idle, AuditActions, FaultKinds
<1>2. Leased /\ Coherent /\ [Next]_vars => Leased'
  BY LeasedInductive
<1>3. QED
  BY <1>1, <1>2, CoherentAlways, PTL DEF Spec

-------------------------------------------------------------------------------

\* While leases outlive the work, no two workers process the same document at once,
\* across interruptions, restarts and retries.
THEOREM OneWorker == LeasesOutliveWork => (Spec => []OneWorkerPerDocument)
<1> SUFFICES ASSUME LeasesOutliveWork PROVE Spec => []OneWorkerPerDocument
  OBVIOUS
<1>1. Leased => OneWorkerPerDocument
  BY DEF Leased
<1>2. QED
  BY <1>1, LeasedAlways, PTL

\* Under the same assumption a document is parsed, and audited as parsed, once.
THEOREM ParseRecordedOnce == LeasesOutliveWork => (Spec => []ParsedOnce)
<1> SUFFICES ASSUME LeasesOutliveWork PROVE Spec => []ParsedOnce
  OBVIOUS
<1>1. Leased => ParsedOnce
  BY DEF Leased, ParsesCounted, ParsedOnce
<1>2. QED
  BY <1>1, LeasedAlways, PTL

\* A worker at a job whose outcome is settled does not exist.
LEMMA SettledJobStays ==
    ASSUME Coherent, Leased, LeasesOutliveWork, [Next]_vars, NEW d \in Docs,
           jobs[d].status \in {"completed", "dead_letter"}
    PROVE  jobs'[d] = jobs[d]
<1> SUFFICES ASSUME jobs'[d] # jobs[d] PROVE FALSE
  OBVIOUS
<1>1. PICK w \in Workers :
        /\ workers[w].doc = d
        /\ \/ CommitClaim(w)
           \/ CompleteParseJob(w)
           \/ CompleteUnacknowledged(w)
           \/ RecordJobFailure(w)
  BY JobChanges
<1>2. workers[w].pc \in {"claiming", "working"}
  BY <1>1 DEF CommitClaim, CompleteParseJob, CompleteUnacknowledged, RecordJobFailure,
              Leased, WorkIsHeld
<1>3. CASE workers[w].pc = "claiming"
  BY <1>1, <1>3 DEF Leased, ClaimsAreFree, Free
<1>4. CASE workers[w].pc = "working"
  BY <1>1, <1>4 DEF Leased, WorkIsHeld, HeldJob
<1>5. QED
  BY <1>2, <1>3, <1>4

\* Under the same assumption a completed job is never run again nor failed.
THEOREM CompletedStays == LeasesOutliveWork => (Spec => CompletedIsFinal)
<1> SUFFICES ASSUME LeasesOutliveWork PROVE Spec => CompletedIsFinal
  OBVIOUS
<1>1. Coherent /\ Leased /\ [Next]_vars =>
        [\A d \in Docs : jobs[d].status = "completed" => jobs'[d] = jobs[d]]_vars
  BY SettledJobStays
<1>2. QED
  BY <1>1, LeasedAlways, PTL DEF Spec, CompletedIsFinal

\* Under the same assumption a dead-lettered job stays so.
THEOREM DeadLetterStays == LeasesOutliveWork => (Spec => DeadLetterIsFinal)
<1> SUFFICES ASSUME LeasesOutliveWork PROVE Spec => DeadLetterIsFinal
  OBVIOUS
<1>1. Coherent /\ Leased /\ [Next]_vars =>
        [\A d \in Docs : jobs[d].status = "dead_letter" => jobs'[d] = jobs[d]]_vars
  BY SettledJobStays
<1>2. QED
  BY <1>1, LeasedAlways, PTL DEF Spec, DeadLetterIsFinal

\* Neither outcome of a job is ever taken back, while leases outlive the work
\* (CompleteParseJob, RecordJobFailure, SaveJob).
THEOREM SettledStays == LeasesOutliveWork => (Spec => SettledIsFinal)
BY CompletedStays, DeadLetterStays DEF SettledIsFinal

\* Under the same assumption no claim is granted over the lease of a worker that
\* is still at the job.
THEOREM LeasesHonoured == LeasesOutliveWork => (Spec => LeaseHonoured)
<1> SUFFICES ASSUME LeasesOutliveWork PROVE Spec => LeaseHonoured
  OBVIOUS
<1>1. ASSUME Coherent, Leased, [Next]_vars, NEW d \in Docs,
             jobs'[d].attempts > jobs[d].attempts
      PROVE  ~(leaseLive[d] /\ \E w \in Workers : HoldsLease(w, d))
  <2>1. jobs[d].attempts \in Nat
    BY <1>1 DEF Coherent, TypeOK
  <2>2. CASE jobs[d].status = "none"
    BY <1>1, <2>2 DEF Leased, WorkIsHeld, HeldJob, HoldsLease, Processing
  <2>3. ASSUME NEW w \in Workers, workers[w].doc = d, CommitClaim(w)
        PROVE  ~(leaseLive[d] /\ \E v \in Workers : HoldsLease(v, d))
    BY <1>1, <2>3 DEF CommitClaim, Leased, ClaimsAreFree, WorkIsHeld, Free, HeldJob,
                      HoldsLease, Processing
  <2>4. ASSUME NEW w \in Workers, CompleteParseJob(w) \/ RecordJobFailure(w)
        PROVE  jobs'[d].attempts = jobs[d].attempts
    <3>1. jobs \in [Docs -> [status : JobStatus, attempts : Nat]]
      BY <1>1 DEF Coherent, TypeOK
    <3>2. CASE CompleteParseJob(w)
      BY <3>1, <3>2 DEF CompleteParseJob, CommitParse
    <3>3. CASE RecordJobFailure(w)
      BY <3>1, <3>3 DEF RecordJobFailure
    <3>4. QED
      BY <2>4, <3>2, <3>3
  <2>5. \A w \in Workers : ~CompleteUnacknowledged(w)
    BY <1>1 DEF CompleteUnacknowledged, Leased, NoFaults, LeasesOutliveWork
  <2>6. QED
    BY <1>1, <2>1, <2>2, <2>3, <2>4, <2>5, JobChanges
<1>2. Coherent /\ Leased /\ [Next]_vars =>
        [\A d \in Docs : jobs'[d].attempts > jobs[d].attempts =>
             ~(leaseLive[d] /\ \E w \in Workers : HoldsLease(w, d))]_vars
  BY <1>1
<1>3. QED
  BY <1>2, LeasedAlways, PTL DEF Spec, LeaseHonoured

-------------------------------------------------------------------------------
(***************************************************************************)
(* What undisturbed uploads buy.  An upload-complete request finishes with *)
(* the document row it read, however old.  As long as nobody removes the   *)
(* document meanwhile, and no other request for it is open, the document   *)
(* and its job change together for uploads too: a queued document has work *)
(* to wait for and, when leases outlive the work, the tables live through  *)
(* the life of a document that DocumentLifecycle promises.                 *)
(***************************************************************************)

\* No document is removed, nor upload-complete asked for a second time, while an
\* upload-complete request for it is open.
UploadsUndisturbed == \A c \in Clients : requests[c] # None =>
    /\ docs[requests[c]] # "removed"
    /\ \A e \in Clients : requests[e] = requests[c] => e = c

\* A document waits for its upload while it has no job, and shows what its job is
\* doing from then on.
ShowsJob == \A d \in Docs : Present(d) =>
    docs[d] = IF jobs[d].status = "none" THEN "upload_pending" ELSE Shown(jobs[d].status)

\* The row an open request has read is still as it was.
RequestsFresh == \A c \in Clients : requests[c] # None => docs[requests[c]] = "upload_pending"

RemovedForGood == \A d \in Docs : audit[d]["deleted"] > 0 => docs[d] = "removed"

InStep == ShowsJob /\ RequestsFresh /\ RemovedForGood

-------------------------------------------------------------------------------

\* Steps that leave the rows, their jobs and the open requests alone.
LEMMA InStepKept ==
    ASSUME InStep, UNCHANGED <<docs, jobs, audit>>,
           \A c \in Clients : requests'[c] \in {requests[c], None}
    PROVE  InStep'
BY DEF InStep, ShowsJob, Present, Shown, RequestsFresh, RemovedForGood

\* A document is registered or submitted, with or without a job, and its row says so.
LEMMA RequestsStayInStep ==
    ASSUME Coherent, InStep, UploadsUndisturbed, UploadsUndisturbed', RequestStep
    PROVE  InStep'
<1> USE DEF Coherent, Records
<1>1. ASSUME NEW d \in Docs, NEW a \in {"uploaded", "upload_requested"}, Audit(d, a)
      PROVE  \A e \in Docs : audit'[e]["deleted"] = audit[e]["deleted"]
  BY <1>1 DEF Audit, TypeOK, AuditActions
<1>2. ASSUME NEW d \in Docs, CreateDocument(d) PROVE InStep'
  <2>1. /\ docs[d] = "none" /\ docs' = [docs EXCEPT ![d] = "queued"]
        /\ UNCHANGED requests /\ SaveJob(d) /\ Audit(d, "uploaded")
    BY <1>2 DEF CreateDocument, httpVars
  <2>2. /\ jobs'[d].status = "queued"
        /\ \A e \in Docs \ {d} : jobs'[e] = jobs[e]
    BY <2>1, SaveJobEffect DEF DocumentFollowsJob
  <2>3. \A e \in Docs : docs'[e] = IF e = d THEN "queued" ELSE docs[e]
    BY <2>1 DEF TypeOK
  <2>4. ShowsJob'
    BY <2>2, <2>3 DEF InStep, ShowsJob, Present, Shown
  <2>5. RequestsFresh'
    BY <2>1, <2>3 DEF InStep, RequestsFresh, TypeOK
  <2>6. RemovedForGood'
    <3>1. \A e \in Docs : audit'[e]["deleted"] = audit[e]["deleted"]
      BY <1>1, <2>1
    <3>2. QED
      BY <2>1, <2>3, <3>1 DEF InStep, RemovedForGood
  <2>7. QED
    BY <2>4, <2>5, <2>6 DEF InStep
<1>3. ASSUME NEW d \in Docs, RequestDocumentUpload(d) PROVE InStep'
  <2>1. /\ docs[d] = "none" /\ docs' = [docs EXCEPT ![d] = "upload_pending"]
        /\ UNCHANGED <<requests, jobs>> /\ Audit(d, "upload_requested")
    BY <1>3 DEF RequestDocumentUpload, queueVars
  <2>2. jobs[d].status = "none"
    BY <2>1 DEF DocumentFollowsJob
  <2>3. \A e \in Docs : docs'[e] = IF e = d THEN "upload_pending" ELSE docs[e]
    BY <2>1 DEF TypeOK
  <2>4. ShowsJob'
    BY <2>1, <2>2, <2>3 DEF InStep, ShowsJob, Present, Shown
  <2>5. RequestsFresh'
    BY <2>1, <2>3 DEF InStep, RequestsFresh, TypeOK
  <2>6. RemovedForGood'
    <3>1. \A e \in Docs : audit'[e]["deleted"] = audit[e]["deleted"]
      BY <1>1, <2>1
    <3>2. QED
      BY <2>1, <2>3, <3>1 DEF InStep, RemovedForGood
  <2>7. QED
    BY <2>4, <2>5, <2>6 DEF InStep
<1>4. ASSUME NEW d \in Docs, DeleteDocument(d) PROVE InStep'
  <2>1. /\ docs' = [docs EXCEPT ![d] = "removed"] /\ Audit(d, "deleted")
        /\ UNCHANGED <<requests, jobs>>
    BY <1>4 DEF DeleteDocument, httpVars, queueVars
  <2>2. \A e \in Docs : docs'[e] = IF e = d THEN "removed" ELSE docs[e]
    BY <2>1 DEF TypeOK
  <2>3. \A e \in Docs \ {d} : audit'[e]["deleted"] = audit[e]["deleted"]
    BY <2>1 DEF Audit, TypeOK, AuditActions
  <2>4. ShowsJob' /\ RemovedForGood'
    BY <2>1, <2>2, <2>3 DEF InStep, ShowsJob, Present, Shown, RemovedForGood
  <2>5. RequestsFresh'
    BY <2>1, <2>2 DEF InStep, RequestsFresh, UploadsUndisturbed, TypeOK
  <2>6. QED
    BY <2>4, <2>5 DEF InStep
<1>5. ASSUME NEW c \in Clients, FinishUploadComplete(c) PROVE InStep'
  <2> DEFINE d == requests[c]
  <2>1. /\ d # None /\ docs' = [docs EXCEPT ![d] = "queued"]
        /\ requests' = [requests EXCEPT ![c] = None] /\ SaveJob(d) /\ Audit(d, "uploaded")
    BY <1>5 DEF FinishUploadComplete
  <2>2. d \in Docs /\ docs[d] = "upload_pending"
    BY <2>1 DEF TypeOK, InStep, RequestsFresh
  <2>3. \A e \in Clients \ {c} : requests[e] # d
    BY <2>1 DEF UploadsUndisturbed
  <2>4. \A e \in Clients : requests'[e] = IF e = c THEN None ELSE requests[e]
    BY <2>1 DEF TypeOK
  <2> HIDE DEF d
  <2>5. /\ jobs'[d].status = "queued"
        /\ \A e \in Docs \ {d} : jobs'[e] = jobs[e]
    BY <2>1, <2>2, SaveJobEffect DEF DocumentFollowsJob
  <2>6. \A e \in Docs : docs'[e] = IF e = d THEN "queued" ELSE docs[e]
    BY <2>1 DEF TypeOK
  <2>7. ShowsJob'
    BY <2>5, <2>6 DEF InStep, ShowsJob, Present, Shown
  <2>8. RequestsFresh'
    BY <2>3, <2>4, <2>6 DEF InStep, RequestsFresh, TypeOK
  <2>9. RemovedForGood'
    <3>1. \A e \in Docs : audit'[e]["deleted"] = audit[e]["deleted"]
      BY <1>1, <2>1, <2>2
    <3>2. QED
      BY <2>2, <2>6, <3>1 DEF InStep, RemovedForGood
  <2>10. QED
    BY <2>7, <2>8, <2>9 DEF InStep
<1>6. ASSUME NEW c \in Clients, NEW d \in Docs, BeginUploadComplete(c, d) PROVE InStep'
  <2>1. /\ requests' = [requests EXCEPT ![c] = d] /\ docs[d] = "upload_pending"
        /\ UNCHANGED <<docs, jobs, audit>>
    BY <1>6 DEF BeginUploadComplete, docVars, queueVars
  <2>2. ShowsJob' /\ RemovedForGood'
    BY <2>1 DEF InStep, ShowsJob, Present, Shown, RemovedForGood
  <2>3. RequestsFresh'
    BY <2>1 DEF InStep, RequestsFresh, TypeOK
  <2>4. QED
    BY <2>2, <2>3 DEF InStep
<1>7. ASSUME \/ \E d \in Docs : PutBlob(d)
             \/ \E c \in Clients : AbandonUploadComplete(c)
      PROVE  InStep'
  <2>1. UNCHANGED <<docs, jobs, audit>> /\ \A c \in Clients : requests'[c] \in {requests[c], None}
    BY <1>7 DEF PutBlob, AbandonUploadComplete, docVars, queueVars, TypeOK
  <2>2. QED
    BY <2>1, InStepKept
<1>8. QED
  BY <1>2, <1>3, <1>4, <1>5, <1>6, <1>7 DEF RequestStep

\* A worker's step on its job: the document, unless it is gone, shows what the job
\* has become.
LEMMA JobStepStaysInStep ==
    ASSUME Coherent, InStep, NEW d \in Docs, NEW status \in JobStatus \ {"none"},
           \A e \in Docs : jobs'[e].status = IF e = d THEN status ELSE jobs[e].status,
           \A e \in Docs : docs'[e] = IF e = d /\ Present(d) THEN Shown(status) ELSE docs[e],
           \A e \in Docs : audit'[e]["deleted"] = audit[e]["deleted"],
           jobs[d].status # "none",
           UNCHANGED requests
    PROVE  InStep'
<1> USE DEF InStep
<1>1. ShowsJob'
  BY DEF ShowsJob, Present, Shown, JobStatus
<1>2. RequestsFresh'
  BY DEF RequestsFresh, Coherent, Records, DocumentFollowsJob, TypeOK
<1>3. RemovedForGood'
  BY DEF RemovedForGood, Present
<1>4. QED
  BY <1>1, <1>2, <1>3

LEMMA WorkersStayInStep ==
    ASSUME Coherent, InStep, NEW w \in Workers, WorkerStep(w)
    PROVE  InStep'
<1> DEFINE d == workers[w].doc
<1> USE DEF httpVars, docVars, queueVars
<1>1. workers[w].pc # "idle" => d \in Docs /\ jobs[d].status # "none"
  BY DEF Coherent, Actors, WorkerHasJob
<1>2. CASE SelectJob(w) \/ AbortClaim(w) \/ Interrupt(w)
  <2>1. UNCHANGED <<docs, jobs, audit, requests>>
    BY <1>2 DEF SelectJob, AbortClaim, Interrupt
  <2>2. QED
    BY <2>1, InStepKept
<1>3. CASE CommitClaim(w)
  <2>1. /\ workers[w].pc = "claiming" /\ Present(d)
        /\ jobs' = [jobs EXCEPT ![d].status = "running", ![d].attempts = @ + 1]
        /\ docs' = [docs EXCEPT ![d] = "processing"] /\ UNCHANGED <<audit, requests>>
    BY <1>3 DEF CommitClaim
  <2>2. /\ \A e \in Docs : jobs'[e].status = IF e = d THEN "running" ELSE jobs[e].status
        /\ \A e \in Docs : docs'[e] = IF e = d THEN "processing" ELSE docs[e]
    BY <1>1, <2>1 DEF Coherent, TypeOK
  <2>3. "running" \in JobStatus \ {"none"} /\ Shown("running") = "processing"
    BY DEF JobStatus, Shown
  <2> HIDE DEF d
  <2>4. QED
    BY <1>1, <2>1, <2>2, <2>3, JobStepStaysInStep
<1>4. CASE CompleteParseJob(w) \/ CompleteUnacknowledged(w)
  <2>1. /\ workers[w].pc = "working" /\ Present(d)
        /\ jobs' = [jobs EXCEPT ![d].status = "completed"]
        /\ docs' = [docs EXCEPT ![d] = "parsed"] /\ UNCHANGED requests
        /\ Audit(d, "parsed")
    BY <1>4 DEF CompleteParseJob, CompleteUnacknowledged, CommitParse
  <2>2. /\ \A e \in Docs : jobs'[e].status = IF e = d THEN "completed" ELSE jobs[e].status
        /\ \A e \in Docs : docs'[e] = IF e = d THEN "parsed" ELSE docs[e]
        /\ \A e \in Docs : audit'[e]["deleted"] = audit[e]["deleted"]
    BY <1>1, <2>1 DEF Coherent, TypeOK, Audit, AuditActions
  <2>3. "completed" \in JobStatus \ {"none"} /\ Shown("completed") = "parsed"
    BY DEF JobStatus, Shown
  <2> HIDE DEF d
  <2>4. QED
    BY <1>1, <2>1, <2>2, <2>3, JobStepStaysInStep
<1>5. CASE RecordJobFailure(w)
  <2> DEFINE dead == Exhausted(workers[w].attempt)
             status == IF dead THEN "dead_letter" ELSE "retry_scheduled"
  <2>1. /\ workers[w].pc \in {"working", "failing"}
        /\ jobs' = [jobs EXCEPT ![d].status = status]
        /\ \/ Present(d) /\ docs' = [docs EXCEPT ![d] = IF dead THEN "failed" ELSE "queued"]
           \/ ~Present(d) /\ UNCHANGED docs
           \/ PutBack(d) /\ UNCHANGED docs
        /\ UNCHANGED <<audit, requests>>
    BY <1>5 DEF RecordJobFailure
  <2>2. d \in Docs /\ ~PutBack(d)
    BY <1>1, <2>1 DEF PutBack, InStep, RemovedForGood
  <2>3. /\ status \in JobStatus \ {"none"}
        /\ Shown(status) = IF dead THEN "failed" ELSE "queued"
    BY DEF JobStatus, Shown
  <2>4. /\ \A e \in Docs : jobs'[e].status = IF e = d THEN status ELSE jobs[e].status
        /\ \A e \in Docs : docs'[e] = IF e = d /\ Present(d) THEN Shown(status) ELSE docs[e]
    <3> HIDE DEF d, dead
    <3>1. QED
      BY <2>1, <2>2, <2>3 DEF Coherent, TypeOK
  <2> HIDE DEF d, status, dead
  <2>5. QED
    BY <1>1, <2>1, <2>2, <2>3, <2>4, JobStepStaysInStep DEF d
<1>6. QED
  BY <1>2, <1>3, <1>4, <1>5 DEF WorkerStep

LEMMA InStepInductive ==
    ASSUME Coherent, InStep, UploadsUndisturbed, UploadsUndisturbed', [Next]_vars
    PROVE  InStep'
<1>1. ASSUME NEW d \in Docs, PublishNextOutboxEvent(d) PROVE InStep'
  <2>1. outbox[d]["pending"] \in Nat /\ outbox[d]["published"] \in Nat
    BY DEF Coherent, TypeOK, OutboxStatus
  <2>2. jobs[d].status # "none"
    BY <1>1, <2>1 DEF PublishNextOutboxEvent, Coherent, Records, SubmissionsAccounted
  <2>3. UNCHANGED <<docs, jobs, audit, requests>>
    BY <1>1, <2>2 DEF PublishNextOutboxEvent, SaveJob, docVars, httpVars
  <2>4. QED
    BY <2>3, InStepKept
<1>2. ASSUME NEW d \in Docs, ClockStep(d) PROVE InStep'
  <2>1. UNCHANGED <<docs, jobs, audit, requests>>
    BY <1>2 DEF ClockStep, LeaseRunsOut, LeaseOverrun, BecomeAvailable, docVars, httpVars
  <2>2. QED
    BY <2>1, InStepKept
<1>3. CASE UNCHANGED vars
  BY <1>3, InStepKept DEF vars, docVars, httpVars, queueVars
<1>4. QED
  BY <1>1, <1>2, <1>3, RequestsStayInStep, WorkersStayInStep DEF Next

LEMMA InStepAlways == Spec /\ []UploadsUndisturbed => []InStep
<1>1. Init => InStep
  BY DEF Init, InStep, ShowsJob, Present, RequestsFresh, RemovedForGood, AuditActions
<1>2. Coherent /\ InStep /\ UploadsUndisturbed /\ UploadsUndisturbed' /\ [Next]_vars => InStep'
  BY InStepInductive
<1>3. QED
  BY <1>1, <1>2, CoherentAlways, PTL DEF Spec

\* As long as uploads are undisturbed, a document shown as queued has a job that is
\* still to be run, whatever happens to workers, leases and commits.
THEOREM QueuedWorks == Spec /\ []UploadsUndisturbed => []QueuedHasWork
<1>1. Coherent /\ InStep => QueuedHasWork
  BY DEF InStep, ShowsJob, Present, Shown, QueuedHasWork, Coherent, TypeOK, JobStatus
<1>2. QED
  BY <1>1, CoherentAlways, InStepAlways, PTL

\* As long as uploads are undisturbed and leases outlive the work, each step of the
\* pipeline is a step in the life of one document, or none: the tables implement
\* DocumentLifecycle, with claims of a running job, interruptions and everything
\* the outbox does out of a user's sight.
THEOREM LifecycleImplemented ==
    LeasesOutliveWork => (Spec /\ []UploadsUndisturbed => ImplementsLifecycle)
<1> SUFFICES ASSUME LeasesOutliveWork
             PROVE  Spec /\ []UploadsUndisturbed => ImplementsLifecycle
  OBVIOUS
<1>1. Init => Lifecycle!Init
  BY DEF Init, Lifecycle!Init
<1>2. ASSUME Coherent, Leased, InStep, [Next]_vars
      PROVE  [Lifecycle!Next]_<<docs, artifacts>>
  <2> USE DEF Lifecycle!Next
  <2>1. ASSUME NEW d \in Docs, CreateDocument(d) PROVE Lifecycle!Register(d)
    BY <2>1 DEF CreateDocument, Lifecycle!Register
  <2>2. ASSUME NEW d \in Docs, RequestDocumentUpload(d) PROVE Lifecycle!Register(d)
    BY <2>2 DEF RequestDocumentUpload, Lifecycle!Register
  <2>3. ASSUME NEW d \in Docs, DeleteDocument(d) PROVE Lifecycle!Remove(d)
    BY <2>3 DEF DeleteDocument, Present, Lifecycle!Remove
  <2>4. ASSUME NEW c \in Clients, FinishUploadComplete(c)
        PROVE  requests[c] \in Docs /\ Lifecycle!Submit(requests[c])
    <3>1. requests[c] \in Docs /\ docs[requests[c]] = "upload_pending"
      BY <1>2, <2>4 DEF FinishUploadComplete, Coherent, TypeOK, InStep, RequestsFresh
    <3>2. QED
      BY <2>4, <3>1 DEF FinishUploadComplete, Lifecycle!Submit
  <2>5. ASSUME NEW w \in Workers, CommitClaim(w)
        PROVE  \/ workers[w].doc \in Docs /\ Lifecycle!Start(workers[w].doc)
               \/ UNCHANGED <<docs, artifacts>>
    <3> DEFINE d == workers[w].doc
    <3>1. /\ workers[w].pc = "claiming" /\ Present(d)
          /\ docs' = [docs EXCEPT ![d] = "processing"] /\ UNCHANGED artifacts
      BY <2>5 DEF CommitClaim
    <3>2. d \in Docs /\ Free(d)
      BY <1>2, <3>1 DEF Coherent, Actors, WorkerHasJob, Leased, ClaimsAreFree
    <3>3. docs[d] \in {"queued", "processing"}
      BY <1>2, <3>1, <3>2 DEF InStep, ShowsJob, Shown, Free
    <3>4. CASE docs[d] = "queued"
      BY <3>1, <3>2, <3>4 DEF Lifecycle!Start
    <3>5. CASE docs[d] = "processing"
      <4>1. docs' = docs
        BY <1>2, <3>1, <3>2, <3>5 DEF Coherent, TypeOK
      <4>2. QED
        BY <3>1, <4>1
    <3>6. QED
      BY <3>3, <3>4, <3>5
  <2>6. ASSUME NEW w \in Workers, workers[w].pc = "working"
        PROVE  /\ workers[w].doc \in Docs
               /\ Present(workers[w].doc) => docs[workers[w].doc] = "processing"
    BY <1>2, <2>6 DEF Coherent, Actors, WorkerHasJob, Leased, WorkIsHeld, HeldJob,
                      InStep, ShowsJob, Shown
  <2>7. ASSUME NEW w \in Workers, CompleteParseJob(w)
        PROVE  workers[w].doc \in Docs /\ Lifecycle!Succeed(workers[w].doc)
    BY <2>6, <2>7 DEF CompleteParseJob, CommitParse, Lifecycle!Succeed
  <2>8. ASSUME NEW w \in Workers, RecordJobFailure(w)
        PROVE  \/ /\ workers[w].doc \in Docs
                  /\ Lifecycle!Retry(workers[w].doc) \/ Lifecycle!GiveUp(workers[w].doc)
               \/ UNCHANGED <<docs, artifacts>>
    <3> DEFINE d == workers[w].doc
               dead == Exhausted(workers[w].attempt)
    <3>1. /\ \/ Present(d) /\ docs' = [docs EXCEPT ![d] = IF dead THEN "failed" ELSE "queued"]
             \/ UNCHANGED docs
          /\ workers[w].pc = "working" /\ UNCHANGED artifacts
      BY <1>2, <2>8 DEF RecordJobFailure, Leased, WorkIsHeld
    <3>2. d \in Docs /\ (Present(d) => docs[d] = "processing")
      BY <2>6, <3>1
    <3> HIDE DEF d, dead
    <3>3. QED
      BY <3>1, <3>2 DEF Lifecycle!Retry, Lifecycle!GiveUp, d
  <2>9. ASSUME NEW w \in Workers, WorkerStep(w)
        PROVE  Lifecycle!Next \/ UNCHANGED <<docs, artifacts>>
    <3>1. ~CompleteUnacknowledged(w)
      BY <1>2 DEF CompleteUnacknowledged, Leased, NoFaults, LeasesOutliveWork
    <3>2. CASE SelectJob(w) \/ AbortClaim(w) \/ Interrupt(w)
      BY <3>2 DEF SelectJob, AbortClaim, Interrupt, docVars
    <3>3. QED
      BY <2>5, <2>7, <2>8, <2>9, <3>1, <3>2 DEF WorkerStep
  <2>10. ASSUME \/ \E d \in Docs : PutBlob(d) \/ PublishNextOutboxEvent(d) \/ ClockStep(d)
                \/ \E c \in Clients : \/ \E d \in Docs : BeginUploadComplete(c, d)
                                      \/ AbandonUploadComplete(c)
                \/ UNCHANGED vars
         PROVE  UNCHANGED <<docs, artifacts>>
    BY <2>10 DEF PutBlob, PublishNextOutboxEvent, ClockStep, LeaseRunsOut, LeaseOverrun,
                 BecomeAvailable, BeginUploadComplete, AbandonUploadComplete, vars, docVars
  <2>11. QED
    BY <1>2, <2>1, <2>2, <2>3, <2>4, <2>9, <2>10 DEF Next, RequestStep
<1>3. Coherent /\ Leased /\ InStep /\ [Next]_vars => [Lifecycle!Next]_<<docs, artifacts>>
  BY <1>2
<1>4. QED
  BY <1>1, <1>3, LeasedAlways, InStepAlways, PTL DEF Spec, ImplementsLifecycle, Lifecycle!Spec

\* With one client whose uploads nobody deletes, uploads are undisturbed.
LEMMA OneClientIsUndisturbed ==
    ASSUME Deletable \cap UploadDocs = {}, \A c, e \in Clients : c = e
    PROVE  Spec => []UploadsUndisturbed
<1> DEFINE Kept == \A d \in UploadDocs : docs[d] # "removed"
<1>1. Init => Kept
  BY DEF Init, Docs
<1>2. Coherent /\ Kept /\ [Next]_vars => Kept'
  <2> SUFFICES ASSUME Coherent, Kept, [Next]_vars, NEW d \in UploadDocs
               PROVE  docs'[d] # "removed"
    OBVIOUS
  <2>1. d \in Docs /\ docs[d] # "removed" /\ docs \in [Docs -> DocStatus]
    BY DEF Docs, Coherent, TypeOK
  <2>2. CASE RequestStep
    BY <2>1, <2>2 DEF RequestStep, CreateDocument, RequestDocumentUpload, PutBlob, DeleteDocument,
        BeginUploadComplete, FinishUploadComplete, AbandonUploadComplete, docVars
  <2>3. ASSUME NEW w \in Workers, WorkerStep(w)
        PROVE  docs'[d] # "removed"
    BY <2>1, <2>3 DEF WorkerStep, SelectJob, CommitClaim, AbortClaim, CompleteParseJob,
        CompleteUnacknowledged, CommitParse, RecordJobFailure, Interrupt, docVars
  <2>4. CASE \/ \E e \in Docs : PublishNextOutboxEvent(e) \/ ClockStep(e)
             \/ UNCHANGED vars
    BY <2>1, <2>4 DEF PublishNextOutboxEvent, ClockStep, LeaseRunsOut, LeaseOverrun,
        BecomeAvailable, vars, docVars
  <2>5. QED
    BY <2>2, <2>3, <2>4 DEF Next
<1>3. Coherent /\ Kept => UploadsUndisturbed
  BY DEF Coherent, Actors, RequestVerified, UploadsUndisturbed
<1>4. QED
  BY <1>1, <1>2, <1>3, CoherentAlways, PTL DEF Spec

\* So it is in the run pipeline_leases, and wherever browsers complete their uploads one
\* at a time and leave them in place.
THEOREM OneClientLifecycle ==
    LeasesOutliveWork /\ Deletable \cap UploadDocs = {} /\ (\A c, e \in Clients : c = e)
        => (Spec => ImplementsLifecycle)
<1> SUFFICES ASSUME LeasesOutliveWork, Deletable \cap UploadDocs = {}, \A c, e \in Clients : c = e
             PROVE  Spec => ImplementsLifecycle
  OBVIOUS
<1>1. QED
  BY OneClientIsUndisturbed, LifecycleImplemented, PTL

-------------------------------------------------------------------------------
(***************************************************************************)
(* The attempts of a job.  Each claim is paid for: by an attempt the job   *)
(* is entitled to, by a worker whose failure report can still schedule one *)
(* more, or by an interruption or an overrun that left a claim without its *)
(* report.  Lost commits and late reports, in any number, buy no attempt   *)
(* of their own.                                                           *)
(***************************************************************************)

\* Nobody is making the attempt that d's job may be claimed for.
Open(d) ==
    \/ jobs[d].status \in {"queued", "retry_scheduled"}
    \/ jobs[d].status = "running" /\ ~(leaseLive[d] /\ \E w \in Workers : HoldsLease(w, d))

\* The workers whose failure report would schedule d's job again.
Reschedulers(d) == {w \in Workers : Processing(w, d) /\ ~Exhausted(workers[w].attempt)}

\* The attempts after the next one.
Entitled(d) == IF jobs[d].attempts < MaxAttempts THEN MaxAttempts - 1 - jobs[d].attempts ELSE 0

Unreported == faults["interrupt"] + faults["overrun"]

InBudget(d) ==
    /\ IsFiniteSet(Reschedulers(d))
    /\ jobs[d].status = "none" => jobs[d].attempts = 0
    /\ jobs[d].attempts + Entitled(d) + Cardinality(Reschedulers(d))
         + (IF Open(d) THEN 1 ELSE 0) <= MaxAttempts + Unreported

\* A claim in progress is for an attempt nobody is making, until it commits.
ClaimsAreOpen == \A w \in Workers : workers[w].pc = "claiming" => Open(workers[w].doc)

Budgeted == ClaimsAreOpen /\ \A d \in Docs : InBudget(d)

-------------------------------------------------------------------------------

LEMMA SubsetCount ==
    ASSUME NEW S, NEW T, IsFiniteSet(S), T \subseteq S
    PROVE  /\ IsFiniteSet(T)
           /\ Cardinality(S) \in Nat /\ Cardinality(T) \in Nat
           /\ Cardinality(T) <= Cardinality(S)
           /\ T # S => Cardinality(T) + 1 <= Cardinality(S)
<1>1. IsFiniteSet(T) /\ Cardinality(T) <= Cardinality(S) /\ (Cardinality(S) = Cardinality(T) => S = T)
  BY FS_Subset
<1>2. Cardinality(S) \in Nat /\ Cardinality(T) \in Nat
  BY <1>1, FS_CardinalityType
<1>3. QED
  BY <1>1, <1>2

\* A step that claims nothing stays in budget if the attempt it opens, should it
\* open one, is an unreported one or costs a worker its report.
LEMMA BudgetKept ==
    ASSUME TypeOK, TypeOK', NEW d \in Docs, InBudget(d),
           jobs'[d].attempts = jobs[d].attempts,
           jobs'[d].status = "none" => jobs[d].status = "none",
           Reschedulers(d)' \subseteq Reschedulers(d),
           Unreported' >= Unreported,
           Open(d)' => \/ Open(d)
                       \/ Unreported' > Unreported
                       \/ Reschedulers(d)' # Reschedulers(d)
    PROVE  InBudget(d)'
<1> DEFINE late == Reschedulers(d)
           open == IF Open(d) THEN 1 ELSE 0
<1>1. /\ IsFiniteSet(late) /\ IsFiniteSet(late')
      /\ Cardinality(late) \in Nat /\ Cardinality(late') \in Nat
      /\ Cardinality(late') <= Cardinality(late)
      /\ late' # late => Cardinality(late') + 1 <= Cardinality(late)
  BY SubsetCount DEF InBudget
<1>2. jobs[d].attempts \in Nat /\ MaxAttempts \in Nat /\ Unreported \in Nat /\ Unreported' \in Nat
  BY ConstantsAssumption DEF TypeOK, Unreported, FaultKinds
<1>3. Entitled(d) \in Nat /\ Entitled(d)' = Entitled(d)
  BY <1>2 DEF Entitled
<1>4. /\ open \in 0..1 /\ open' \in 0..1
      /\ open' <= open \/ Unreported' > Unreported \/ late' # late
  OBVIOUS
<1>5. jobs[d].attempts + Entitled(d) + Cardinality(late) + open <= MaxAttempts + Unreported
  BY DEF InBudget
<1>6. jobs'[d].status = "none" => jobs'[d].attempts = 0
  BY DEF InBudget
<1> HIDE DEF late, open
<1>7. jobs'[d].attempts + Entitled(d)' + Cardinality(late') + open' <= MaxAttempts + Unreported'
  <2>1. jobs[d].attempts + Entitled(d) + Cardinality(late') + open' <= MaxAttempts + Unreported'
    <3> DEFINE a == jobs[d].attempts
               r == Entitled(d)
               l == Cardinality(late)
               m == Cardinality(late')
               f == Unreported
               g == Unreported'
               o == open
               p == open'
    <3>1. /\ a \in Nat /\ r \in Nat /\ l \in Nat /\ m \in Nat /\ f \in Nat /\ g \in Nat
          /\ o \in 0..1 /\ p \in 0..1 /\ m <= l /\ g >= f
          /\ p <= o \/ g > f \/ m + 1 <= l
          /\ a + r + l + o <= MaxAttempts + f
      BY <1>1, <1>2, <1>3, <1>4, <1>5
    <3> HIDE DEF a, r, l, m, f, g, o, p
    <3>2. a + r + m + p <= MaxAttempts + g
      BY <1>2, <3>1
    <3>3. QED
      BY <3>2 DEF a, r, m, p, g
  <2>2. QED
    BY <1>3, <2>1
<1>8. QED
  BY <1>1, <1>6, <1>7 DEF InBudget, late, open

\* A job that a step leaves alone, with those who work on it.
LEMMA BudgetUntouched ==
    ASSUME TypeOK, TypeOK', NEW d \in Docs, InBudget(d),
           jobs'[d] = jobs[d], leaseLive'[d] = leaseLive[d], UNCHANGED faults,
           \A w \in Workers :
               /\ Processing(w, d)' <=> Processing(w, d)
               /\ Processing(w, d) => workers'[w].attempt = workers[w].attempt
    PROVE  InBudget(d)' /\ (Open(d)' <=> Open(d))
<1>1. Reschedulers(d)' = Reschedulers(d)
  BY DEF Reschedulers
<1>2. \A w \in Workers : HoldsLease(w, d)' <=> HoldsLease(w, d)
  BY DEF HoldsLease
<1>3. Open(d)' <=> Open(d)
  BY <1>2 DEF Open
<1>4. Unreported' >= Unreported
  BY DEF Unreported, TypeOK, FaultKinds
<1>5. QED
  BY <1>1, <1>3, <1>4, BudgetKept

\* A request or the publisher gives its first attempt to a job nobody works on.
LEMMA RequestsStayInBudget ==
    ASSUME Coherent, Coherent', Budgeted,
           RequestStep \/ \E d \in Docs : PublishNextOutboxEvent(d)
    PROVE  Budgeted'
<1> USE DEF Coherent
<1>1. UNCHANGED <<workers, leaseLive, faults>>
  BY DEF RequestStep, CreateDocument, RequestDocumentUpload, PutBlob, DeleteDocument,
         BeginUploadComplete, FinishUploadComplete, AbandonUploadComplete,
         PublishNextOutboxEvent, queueVars
<1>2. \A w \in Workers : workers[w].pc # "idle" =>
         workers[w].doc \in Docs /\ jobs[workers[w].doc].status # "none"
  BY DEF Actors, WorkerHasJob
<1>3. ASSUME NEW d \in Docs, jobs'[d] = jobs[d]
      PROVE  InBudget(d)' /\ (Open(d)' <=> Open(d))
  BY <1>1, <1>3, BudgetUntouched DEF Budgeted, Processing
<1>4. ASSUME NEW d \in Docs, jobs'[d] # jobs[d]
      PROVE  InBudget(d)' /\ jobs[d].status = "none"
  <2>1. jobs[d].status = "none" /\ jobs'[d] = [status |-> "queued", attempts |-> 0]
    BY <1>4, RequestsCreateJobs
  <2>2. Reschedulers(d)' = {}
    BY <1>1, <1>2, <2>1 DEF Reschedulers, Processing
  <2>3. IsFiniteSet(Reschedulers(d)') /\ Cardinality(Reschedulers(d)') = 0
    BY <2>2, FS_EmptySet
  <2>4. Unreported' \in Nat /\ MaxAttempts \in Nat \ {0}
    BY ConstantsAssumption DEF TypeOK, Unreported, FaultKinds
  <2>5. Entitled(d)' = MaxAttempts - 1
    BY <2>1, <2>4 DEF Entitled
  <2>6. jobs'[d].attempts + Entitled(d)' + Cardinality(Reschedulers(d)')
          + (IF Open(d)' THEN 1 ELSE 0) <= MaxAttempts + Unreported'
    <3> DEFINE open == IF Open(d)' THEN 1 ELSE 0
               f == Unreported'
    <3>1. jobs'[d].attempts = 0 /\ open \in 0 .. 1
      BY <2>1
    <3>2. f \in Nat
      BY <2>4
    <3> HIDE DEF open, f
    <3>3. 0 + (MaxAttempts - 1) + 0 + open <= MaxAttempts + f
      BY <2>4, <3>1, <3>2
    <3>4. QED
      BY <2>3, <2>5, <3>1, <3>3 DEF open, f
  <2>7. QED
    BY <2>1, <2>3, <2>6 DEF InBudget
<1>5. ClaimsAreOpen'
  <2> SUFFICES ASSUME NEW w \in Workers, workers[w].pc = "claiming"
               PROVE  Open(workers[w].doc)'
    BY <1>1 DEF ClaimsAreOpen
  <2> DEFINE d == workers[w].doc
  <2>1. d \in Docs /\ jobs'[d] = jobs[d] /\ Open(d)
    BY <1>2, <1>4 DEF Budgeted, ClaimsAreOpen
  <2>2. workers'[w].doc = d
    BY <1>1
  <2>3. ASSUME NEW e \in Docs, e = d PROVE Open(e)'
    BY <1>3, <2>1, <2>3
  <2>4. QED
    BY <1>1, <2>1, <2>2, <2>3
<1>6. QED
  BY <1>3, <1>4, <1>5 DEF Budgeted

\* Time opens an attempt only by an overrun.
LEMMA ClockStaysInBudget ==
    ASSUME Coherent, Coherent', Budgeted, NEW d \in Docs, ClockStep(d)
    PROVE  Budgeted'
<1> USE DEF Coherent
<1>1. UNCHANGED <<workers, jobs>>
  BY DEF ClockStep, LeaseRunsOut, LeaseOverrun, BecomeAvailable
<1>2. /\ \A e \in Docs : \A w \in Workers : HoldsLease(w, e)' <=> HoldsLease(w, e)
      /\ \A e \in Docs : Reschedulers(e)' = Reschedulers(e)
  BY <1>1 DEF HoldsLease, Processing, Reschedulers
<1>3. \/ UNCHANGED <<leaseLive, faults>>
      \/ /\ leaseLive' = [leaseLive EXCEPT ![d] = FALSE]
         /\ \/ (\A w \in Workers : ~HoldsLease(w, d)) /\ UNCHANGED faults
            \/ faults' = [faults EXCEPT !["overrun"] = @ + 1]
  BY DEF ClockStep, LeaseRunsOut, LeaseOverrun, BecomeAvailable
<1>4. \A e \in Docs : leaseLive'[e] = leaseLive[e] \/ (e = d /\ ~leaseLive'[e])
  BY <1>3 DEF TypeOK
<1>5. ASSUME NEW e \in Docs PROVE Open(e) => Open(e)'
  BY <1>1, <1>2, <1>4 DEF Open
<1>6. ASSUME NEW e \in Docs
      PROVE  /\ Unreported' >= Unreported
             /\ Open(e)' => Open(e) \/ Unreported' > Unreported
  <2>1. CASE UNCHANGED <<leaseLive, faults>>
    BY <1>1, <1>2, <2>1 DEF Open, Unreported, TypeOK, FaultKinds
  <2>2. CASE /\ leaseLive' = [leaseLive EXCEPT ![d] = FALSE]
             /\ (\A w \in Workers : ~HoldsLease(w, d)) /\ UNCHANGED faults
    <3>1. Unreported' = Unreported /\ Unreported \in Nat
      BY <2>2 DEF Unreported, TypeOK, FaultKinds
    <3>2. CASE e = d
      BY <1>1, <2>2, <3>1, <3>2 DEF Open
    <3>3. CASE e # d
      <4>1. leaseLive'[e] = leaseLive[e]
        BY <2>2, <3>3 DEF TypeOK
      <4>2. QED
        BY <1>1, <1>2, <3>1, <4>1 DEF Open
    <3>4. QED
      BY <3>2, <3>3
  <2>3. CASE faults' = [faults EXCEPT !["overrun"] = @ + 1]
    BY <2>3 DEF Unreported, TypeOK, FaultKinds
  <2>4. QED
    BY <1>3, <2>1, <2>2, <2>3
<1>7. ASSUME NEW e \in Docs PROVE InBudget(e)'
  BY <1>1, <1>2, <1>6, BudgetKept DEF Budgeted
<1>8. ClaimsAreOpen'
  <2>1. \A w \in Workers : workers[w].pc = "claiming" => workers[w].doc \in Docs
    BY DEF Actors, WorkerHasJob
  <2>2. \A w \in Workers : workers[w].pc = "claiming" => Open(workers[w].doc)
    BY DEF Budgeted, ClaimsAreOpen
  <2>3. ASSUME NEW w \in Workers, NEW e \in Docs,
               workers[w].pc = "claiming", e = workers[w].doc
        PROVE  Open(e)'
    BY <1>5, <2>2, <2>3
  <2>4. QED
    BY <1>1, <2>1, <2>3 DEF ClaimsAreOpen
<1>9. QED
  BY <1>7, <1>8 DEF Budgeted

\* Selecting a job and giving a claim up open nothing; an interruption may, but it
\* is one more unreported.
LEMMA QuietWorkersStayInBudget ==
    ASSUME Coherent, Coherent', Budgeted, NEW w \in Workers,
           SelectJob(w) \/ AbortClaim(w) \/ Interrupt(w)
    PROVE  Budgeted'
<1> USE DEF Coherent
<1>1. UNCHANGED <<jobs, leaseLive>>
  BY DEF SelectJob, AbortClaim, Interrupt, queueVars
<1>2. \/ workers' = [workers EXCEPT ![w] = Idle]
      \/ /\ workers[w].pc = "idle"
         /\ \E d \in Docs :
              /\ Claimable(d)
              /\ workers' = [workers EXCEPT ![w] =
                                [pc |-> "claiming", doc |-> d, attempt |-> 0]]
  BY DEF SelectJob, AbortClaim, Interrupt
<1>3. \A v \in Workers :
         \/ workers'[v] = workers[v]
         \/ v = w /\ workers'[v].pc = "idle"
         \/ v = w /\ workers'[v].pc = "claiming" /\ Claimable(workers'[v].doc)
  BY <1>2 DEF Idle, TypeOK
<1>4. \A d \in Docs : \A v \in Workers :
         Processing(v, d)' => Processing(v, d) /\ workers'[v] = workers[v]
  BY <1>3 DEF Processing
<1>5. \A d \in Docs : Reschedulers(d)' \subseteq Reschedulers(d)
  BY <1>4 DEF Reschedulers
<1>6. ASSUME NEW d \in Docs PROVE Open(d) => Open(d)'
  BY <1>1, <1>4 DEF Open, HoldsLease
<1>7. ASSUME NEW d \in Docs
      PROVE  /\ Unreported' >= Unreported
             /\ Open(d)' => Open(d) \/ Unreported' > Unreported
  <2>1. CASE Interrupt(w)
    BY <2>1 DEF Interrupt, Unreported, TypeOK, FaultKinds
  <2>2. CASE SelectJob(w) \/ AbortClaim(w)
    <3>1. UNCHANGED faults /\ workers[w].pc \in {"idle", "claiming"}
      BY <2>2 DEF SelectJob, AbortClaim
    <3>2. \A v \in Workers : Processing(v, d) => Processing(v, d)' /\ workers'[v] = workers[v]
      BY <1>3, <3>1 DEF Processing
    <3>3. \A v \in Workers : HoldsLease(v, d) => HoldsLease(v, d)'
      BY <1>1, <3>2 DEF HoldsLease
    <3>4. Open(d)' => Open(d)
      BY <1>1, <3>3 DEF Open
    <3>5. QED
      BY <3>1, <3>4 DEF Unreported, TypeOK, FaultKinds
  <2>3. QED
    BY <2>1, <2>2
<1>8. ASSUME NEW d \in Docs PROVE InBudget(d)'
  BY <1>1, <1>5, <1>7, <1>8, BudgetKept DEF Budgeted
<1>9. ClaimsAreOpen'
  <2>1. ASSUME NEW v \in Workers, NEW d \in Docs,
               workers'[v].pc = "claiming", d = workers'[v].doc
        PROVE  Open(d)'
    <3>1. CASE workers'[v] = workers[v]
      BY <1>6, <2>1, <3>1 DEF Budgeted, ClaimsAreOpen
    <3>2. CASE workers'[v] # workers[v]
      <4>1. Claimable(d)
        BY <1>3, <2>1, <3>2
      <4>2. QED
        BY <1>6, <4>1 DEF Claimable, Open
    <3>3. QED
      BY <3>1, <3>2
  <2>2. \A v \in Workers : workers'[v].pc = "claiming" => workers'[v].doc \in Docs
    BY DEF Actors, WorkerHasJob
  <2>3. QED
    BY <2>1, <2>2 DEF ClaimsAreOpen
<1>10. QED
  BY <1>8, <1>9 DEF Budgeted

\* A claim takes the open attempt; if its worker's failure would schedule another,
\* that one comes out of what the job is entitled to.
LEMMA CommitClaimStaysInBudget ==
    ASSUME Coherent, Coherent', Budgeted, NEW w \in Workers, CommitClaim(w)
    PROVE  Budgeted'
<1> USE DEF Coherent
<1>1. PICK d \in Docs : d = workers[w].doc /\ jobs[d].status # "none"
  BY DEF CommitClaim, Actors, WorkerHasJob
<1> DEFINE a == jobs[d].attempts
<1>2. /\ workers[w].pc = "claiming"
      /\ jobs' = [jobs EXCEPT ![d].status = "running", ![d].attempts = @ + 1]
      /\ leaseLive' = [leaseLive EXCEPT ![d] = TRUE]
      /\ workers' = [workers EXCEPT ![w] =
                         [pc |-> "working", doc |-> d, attempt |-> a + 1]]
      /\ UNCHANGED faults
  BY <1>1 DEF CommitClaim
<1>3. a \in Nat /\ MaxAttempts \in Nat /\ Unreported \in Nat /\ Unreported' = Unreported
  BY <1>2, ConstantsAssumption DEF TypeOK, Unreported, FaultKinds
<1>4. /\ jobs'[d].status = "running" /\ jobs'[d].attempts = a + 1 /\ leaseLive'[d]
      /\ \A e \in Docs \ {d} : jobs'[e] = jobs[e] /\ leaseLive'[e] = leaseLive[e]
  BY <1>2 DEF TypeOK
<1>5. /\ workers'[w] = [pc |-> "working", doc |-> d, attempt |-> a + 1]
      /\ \A v \in Workers \ {w} : workers'[v] = workers[v]
  BY <1>2 DEF TypeOK
<1> HIDE DEF a
<1>6. Open(d)
  BY <1>1, <1>2 DEF Budgeted, ClaimsAreOpen
<1>7. ~Open(d)'
  <2>1. HoldsLease(w, d)'
    BY <1>4, <1>5 DEF HoldsLease, Processing
  <2>2. QED
    BY <1>4, <2>1 DEF Open
<1>8. \A v \in Workers \ {w} : Processing(v, d)' <=> Processing(v, d)
  BY <1>5 DEF Processing
<1>9. ~Processing(w, d) /\ Processing(w, d)'
  BY <1>2, <1>5 DEF Processing
<1>10. /\ w \notin Reschedulers(d)
       /\ Reschedulers(d)' = IF Exhausted(a + 1) THEN Reschedulers(d)
                                                 ELSE Reschedulers(d) \cup {w}
  <2>1. workers'[w].attempt = a + 1
    BY <1>5
  <2>2. QED
    BY <1>5, <1>8, <1>9, <2>1 DEF Reschedulers
<1>11. InBudget(d)'
  <2> DEFINE l == Cardinality(Reschedulers(d))
             m == Cardinality(Reschedulers(d)')
  <2>1. IsFiniteSet(Reschedulers(d)) /\ a + Entitled(d) + l + 1 <= MaxAttempts + Unreported
    BY <1>6 DEF Budgeted, InBudget, a
  <2>2. IsFiniteSet(Reschedulers(d)') /\ l \in Nat
        /\ m = IF Exhausted(a + 1) THEN l ELSE l + 1
    BY <1>10, <2>1, FS_AddElement, FS_CardinalityType
  <2>3. /\ Entitled(d) = IF a < MaxAttempts THEN MaxAttempts - 1 - a ELSE 0
        /\ Entitled(d)' = IF a + 1 < MaxAttempts THEN MaxAttempts - 1 - (a + 1) ELSE 0
    BY <1>4 DEF Entitled, a
  <2>4. Exhausted(a + 1) <=> a + 1 >= MaxAttempts
    BY DEF Exhausted
  <2> HIDE DEF l, m
  <2>5. (a + 1) + Entitled(d)' + m + 0 <= MaxAttempts + Unreported
    BY <1>3, <2>1, <2>2, <2>3, <2>4
  <2>6. QED
    BY <1>3, <1>4, <1>7, <2>2, <2>5 DEF InBudget, m
<1>12. ASSUME NEW e \in Docs \ {d} PROVE InBudget(e)' /\ (Open(e)' <=> Open(e))
  <2>1. \A v \in Workers :
           /\ Processing(v, e)' <=> Processing(v, e)
           /\ Processing(v, e) => workers'[v].attempt = workers[v].attempt
    BY <1>1, <1>5 DEF Processing
  <2>2. QED
    BY <1>2, <1>4, <2>1, BudgetUntouched DEF Budgeted
<1>13. ClaimsAreOpen'
  <2>1. ASSUME NEW v \in Workers, NEW e \in Docs,
               workers'[v].pc = "claiming", e = workers'[v].doc
        PROVE  Open(e)'
    <3>1. v # w /\ workers'[v] = workers[v]
      BY <1>5, <2>1
    <3>2. e # d /\ Open(e)
      BY <1>1, <1>2, <2>1, <3>1 DEF Budgeted, ClaimsAreOpen, Actors, OneOpenClaim, Claiming
    <3>3. QED
      BY <1>12, <3>2
  <2>2. \A v \in Workers : workers'[v].pc = "claiming" => workers'[v].doc \in Docs
    BY DEF Actors, WorkerHasJob
  <2>3. QED
    BY <2>1, <2>2 DEF ClaimsAreOpen
<1>14. QED
  BY <1>11, <1>12, <1>13 DEF Budgeted

\* A report closes the job, or schedules it again at the cost of its reporter.
LEMMA ReportStaysInBudget ==
    ASSUME Coherent, Coherent', Budgeted, NEW w \in Workers,
           CompleteParseJob(w) \/ CompleteUnacknowledged(w) \/ RecordJobFailure(w)
    PROVE  Budgeted'
<1> USE DEF Coherent
<1> DEFINE dead == Exhausted(workers[w].attempt)
<1>1. PICK d \in Docs : d = workers[w].doc /\ jobs[d].status # "none"
  BY DEF CompleteParseJob, CompleteUnacknowledged, RecordJobFailure, Actors, WorkerHasJob
<1>2. /\ workers[w].pc \in {"working", "failing"} /\ ~RowLocked(d)
      /\ leaseLive' = LeaseAfter(w, d)
      /\ \/ workers' = [workers EXCEPT ![w] = Idle]
         \/ workers' = [workers EXCEPT ![w].pc = "failing"]
      /\ \/ jobs' = [jobs EXCEPT ![d].status = "completed"]
         \/ /\ jobs' = [jobs EXCEPT ![d].status = IF dead THEN "dead_letter"
                                                          ELSE "retry_scheduled"]
            /\ workers' = [workers EXCEPT ![w] = Idle]
  <2>1. CASE CompleteParseJob(w) \/ CompleteUnacknowledged(w)
    BY <1>1, <2>1 DEF CompleteParseJob, CompleteUnacknowledged, CommitParse
  <2>2. CASE RecordJobFailure(w)
    BY <1>1, <2>2 DEF RecordJobFailure
  <2>3. QED
    BY <2>1, <2>2
<1>3. Unreported \in Nat /\ Unreported' = Unreported
  <2>1. UNCHANGED faults \/ faults' = [faults EXCEPT !["lost_commit"] = @ + 1]
    BY DEF CompleteParseJob, CompleteUnacknowledged, RecordJobFailure
  <2>2. QED
    BY <2>1 DEF TypeOK, Unreported, FaultKinds
<1> HIDE DEF dead
<1>4. /\ jobs'[d].attempts = jobs[d].attempts
      /\ \/ jobs'[d].status \in {"completed", "dead_letter"}
         \/ ~dead /\ jobs'[d].status = "retry_scheduled" /\ workers'[w].pc = "idle"
      /\ \A e \in Docs \ {d} : jobs'[e] = jobs[e] /\ leaseLive'[e] = leaseLive[e]
  BY <1>2 DEF LeaseAfter, TypeOK, Idle
<1>5. \A v \in Workers :
         \/ workers'[v] = workers[v]
         \/ v = w /\ workers'[v].pc = "idle"
         \/ v = w /\ workers'[v] = [workers[v] EXCEPT !.pc = "failing"]
  BY <1>2 DEF Idle, TypeOK
<1>6. \A v \in Workers : workers[v] \in [pc : {"idle", "claiming", "working", "failing"},
                                        doc : Docs \cup {None}, attempt : Nat]
  BY DEF TypeOK
<1>7. \A v \in Workers : \A e \in Docs : Processing(v, e)' =>
         Processing(v, e) /\ workers'[v].attempt = workers[v].attempt
  <2> SUFFICES ASSUME NEW v \in Workers, NEW e \in Docs, Processing(v, e)'
               PROVE  Processing(v, e) /\ workers'[v].attempt = workers[v].attempt
    OBVIOUS
  <2>1. workers'[v].pc # "idle"
    BY DEF Processing
  <2>2. CASE workers'[v] = workers[v]
    BY <2>2 DEF Processing
  <2>3. CASE v = w /\ workers'[v] = [workers[v] EXCEPT !.pc = "failing"]
    <3>1. workers'[v].doc = workers[v].doc /\ workers'[v].attempt = workers[v].attempt
      BY <1>6, <2>3
    <3>2. QED
      BY <1>2, <2>3, <3>1 DEF Processing
  <2>4. QED
    BY <1>5, <2>1, <2>2, <2>3
<1>8. InBudget(d)'
  <2>1. Reschedulers(d)' \subseteq Reschedulers(d)
    BY <1>7 DEF Reschedulers
  <2>2. ASSUME Open(d)' PROVE Reschedulers(d)' # Reschedulers(d)
    <3>1. ~dead /\ workers'[w].pc = "idle"
      BY <1>4, <2>2 DEF Open
    <3>2. w \in Reschedulers(d) /\ w \notin Reschedulers(d)'
      BY <1>1, <1>2, <3>1 DEF Reschedulers, Processing, dead
    <3>3. QED
      BY <3>2
  <2>3. QED
    BY <1>1, <1>3, <1>4, <2>1, <2>2, BudgetKept DEF Budgeted
<1>9. ASSUME NEW e \in Docs \ {d} PROVE InBudget(e)' /\ (Open(e)' <=> Open(e))
  <2>1. \A v \in Workers :
           /\ Processing(v, e)' <=> Processing(v, e)
           /\ Processing(v, e) => workers'[v].attempt = workers[v].attempt
    <3>1. \A v \in Workers \ {w} : workers'[v] = workers[v]
      BY <1>5
    <3>2. ~Processing(w, e)
      BY <1>1 DEF Processing
    <3>3. QED
      BY <1>7, <3>1, <3>2 DEF Processing
  <2>2. /\ Reschedulers(e)' = Reschedulers(e)
        /\ \A v \in Workers : HoldsLease(v, e)' <=> HoldsLease(v, e)
    BY <1>4, <2>1 DEF Reschedulers, HoldsLease
  <2>3. Open(e)' <=> Open(e)
    BY <1>4, <2>2 DEF Open
  <2>4. QED
    BY <1>3, <1>4, <2>2, <2>3, BudgetKept DEF Budgeted
<1>10. ClaimsAreOpen'
  <2>1. ASSUME NEW v \in Workers, NEW e \in Docs,
               workers'[v].pc = "claiming", e = workers'[v].doc
        PROVE  Open(e)'
    <3>1. workers'[v] = workers[v]
      BY <1>5, <1>6, <2>1
    <3>2. e # d /\ Open(e)
      BY <1>2, <2>1, <3>1 DEF RowLocked, Claiming, Budgeted, ClaimsAreOpen
    <3>3. QED
      BY <1>9, <3>2
  <2>2. \A v \in Workers : workers'[v].pc = "claiming" => workers'[v].doc \in Docs
    BY DEF Actors, WorkerHasJob
  <2>3. QED
    BY <2>1, <2>2 DEF ClaimsAreOpen
<1>11. QED
  BY <1>8, <1>9, <1>10 DEF Budgeted

LEMMA BudgetedInductive ==
    ASSUME Coherent, Coherent', Budgeted, [Next]_vars
    PROVE  Budgeted'
<1>1. ASSUME NEW w \in Workers, WorkerStep(w) PROVE Budgeted'
  BY <1>1, QuietWorkersStayInBudget, CommitClaimStaysInBudget, ReportStaysInBudget
  DEF WorkerStep
<1>2. CASE UNCHANGED vars
  <2>1. UNCHANGED <<jobs, leaseLive, workers, faults>>
    BY <1>2 DEF vars, queueVars
  <2>2. ASSUME NEW d \in Docs PROVE InBudget(d)' /\ (Open(d)' <=> Open(d))
    BY <2>1, BudgetUntouched DEF Coherent, Budgeted, Processing
  <2>3. \A w \in Workers : workers[w].pc = "claiming" => workers[w].doc \in Docs
    BY DEF Coherent, Actors, WorkerHasJob
  <2>4. ASSUME NEW w \in Workers, NEW d \in Docs,
               workers[w].pc = "claiming", d = workers[w].doc
        PROVE  Open(d)'
    BY <2>2, <2>4 DEF Budgeted, ClaimsAreOpen
  <2>5. ClaimsAreOpen'
    BY <2>1, <2>3, <2>4 DEF ClaimsAreOpen
  <2>6. QED
    BY <2>2, <2>5 DEF Budgeted
<1>3. QED
  BY <1>1, <1>2, RequestsStayInBudget, ClockStaysInBudget DEF Next

LEMMA BudgetedInitial == Init => Budgeted
<1> SUFFICES ASSUME Init PROVE Budgeted
  OBVIOUS
<1>1. ClaimsAreOpen
  BY DEF Init, ClaimsAreOpen, Idle
<1>2. ASSUME NEW d \in Docs PROVE InBudget(d)
  <2>1. Reschedulers(d) = {} /\ ~Open(d) /\ jobs[d] = [status |-> "none", attempts |-> 0]
    BY DEF Init, Reschedulers, Processing, Open, Idle
  <2>2. IsFiniteSet(Reschedulers(d)) /\ Cardinality(Reschedulers(d)) = 0
    BY <2>1, FS_EmptySet
  <2>3. Unreported = 0 /\ Entitled(d) = MaxAttempts - 1 /\ MaxAttempts \in Nat \ {0}
    BY <2>1, ConstantsAssumption DEF Init, Unreported, FaultKinds, Entitled
  <2>4. QED
    BY <2>1, <2>2, <2>3 DEF InBudget
<1>3. QED
  BY <1>1, <1>2 DEF Budgeted

LEMMA BudgetedAlways == Spec => []Budgeted
<1>1. Coherent /\ Coherent' /\ Budgeted /\ [Next]_vars => Budgeted'
  BY BudgetedInductive
<1>2. QED
  BY <1>1, BudgetedInitial, CoherentAlways, PTL DEF Spec

\* A job is claimed at most max_attempts times, and once more for each worker that
\* was interrupted or overran its lease: a late worker that schedules a settled job
\* again, as RecordJobFailure lets it, buys no attempt the job was not owed.  And a job
\* that is given up had every attempt it was owed.
THEOREM AttemptsBounded == Spec => []AttemptsAccounted
<1>1. Coherent /\ Budgeted => AttemptsWithinBudget
  <2> SUFFICES ASSUME Coherent, Budgeted, NEW d \in Docs
               PROVE  jobs[d].attempts <= MaxAttempts + Unreported
    BY ConstantsAssumption DEF AttemptsWithinBudget, Unreported, Coherent, TypeOK, FaultKinds
  <2> DEFINE open == IF Open(d) THEN 1 ELSE 0
  <2>1. jobs[d].attempts \in Nat /\ Unreported \in Nat /\ MaxAttempts \in Nat
    BY ConstantsAssumption DEF Coherent, TypeOK, Unreported, FaultKinds
  <2>2. Entitled(d) \in Nat /\ Cardinality(Reschedulers(d)) \in Nat /\ open \in Nat
    BY <2>1, FS_CardinalityType DEF Entitled, Budgeted, InBudget
  <2>3. jobs[d].attempts + Entitled(d) + Cardinality(Reschedulers(d)) + open
          <= MaxAttempts + Unreported
    BY DEF Budgeted, InBudget
  <2> HIDE DEF open
  <2>4. QED
    BY <2>1, <2>2, <2>3
<1>2. Coherent /\ Budgeted => AttemptsAccounted
  BY <1>1 DEF Coherent, Records, AttemptsAccounted
<1>3. QED
  BY <1>2, BudgetedAlways, CoherentAlways, PTL

-------------------------------------------------------------------------------
(* Attempt numbers tell workers apart: a claim takes a number no worker has. *)

OneLeaseHolder == \A d \in Docs : \A v, w \in Workers :
    HoldsLease(v, d) /\ HoldsLease(w, d) => v = w

LEMMA OneLeaseHolderInductive ==
    ASSUME Coherent, OneLeaseHolder, [Next]_vars
    PROVE  OneLeaseHolder'
<1> USE DEF Coherent
<1>1. ASSUME \A v \in Workers : \A d \in Docs : HoldsLease(v, d)' => HoldsLease(v, d)
      PROVE  OneLeaseHolder'
  BY <1>1 DEF OneLeaseHolder
<1>2. ASSUME NEW w \in Workers, CommitClaim(w) PROVE OneLeaseHolder'
  <2>1. PICK d \in Docs : d = workers[w].doc /\ jobs[d].status # "none"
    BY <1>2 DEF CommitClaim, Actors, WorkerHasJob
  <2>2. /\ jobs'[d].attempts = jobs[d].attempts + 1 /\ jobs[d].attempts \in Nat
        /\ \A e \in Docs \ {d} : jobs'[e] = jobs[e]
    BY <1>2, <2>1 DEF CommitClaim, TypeOK
  <2>3. /\ workers'[w].doc = d
        /\ \A v \in Workers \ {w} : workers'[v] = workers[v]
    BY <1>2, <2>1 DEF CommitClaim, TypeOK
  <2>4. ASSUME NEW v \in Workers \ {w}, HoldsLease(v, d)' PROVE FALSE
    <3>1. Processing(v, d) /\ workers[v].attempt = jobs[d].attempts + 1
      BY <2>2, <2>3, <2>4 DEF HoldsLease, Processing
    <3>2. workers[v].attempt <= jobs[d].attempts
      BY <3>1 DEF Actors, SnapshotNotAhead, Processing
    <3>3. QED
      BY <2>2, <3>1, <3>2
  <2>5. ASSUME NEW e \in Docs \ {d}, NEW v \in Workers, HoldsLease(v, e)'
        PROVE  HoldsLease(v, e)
    BY <2>2, <2>3, <2>5 DEF HoldsLease, Processing
  <2>6. QED
    BY <2>4, <2>5 DEF OneLeaseHolder
<1>3. ASSUME \A w \in Workers : ~CommitClaim(w)
      PROVE  \A v \in Workers : \A d \in Docs : HoldsLease(v, d)' => HoldsLease(v, d)
  <2> SUFFICES ASSUME NEW v \in Workers, NEW d \in Docs, HoldsLease(v, d)'
               PROVE  HoldsLease(v, d)
    OBVIOUS
  <2>1. Processing(v, d) /\ workers'[v].attempt = workers[v].attempt
    <3>1. workers[v] \in [pc : {"idle", "claiming", "working", "failing"},
                          doc : Docs \cup {None}, attempt : Nat]
      BY DEF TypeOK
    <3>2. CASE UNCHANGED workers
      BY <3>2 DEF HoldsLease, Processing
    <3>3. ASSUME NEW w \in Workers, SelectJob(w) \/ AbortClaim(w) \/ CompleteParseJob(w)
                                    \/ RecordJobFailure(w) \/ Interrupt(w)
          PROVE  workers'[v] = workers[v]
      <4>1. v # w => workers'[v] = workers[v]
        BY <3>3 DEF SelectJob, AbortClaim, CompleteParseJob, RecordJobFailure, Interrupt, TypeOK
      <4>2. workers'[w].pc \in {"idle", "claiming"}
        BY <3>3 DEF SelectJob, AbortClaim, CompleteParseJob, RecordJobFailure, Interrupt,
                    TypeOK, Idle
      <4>3. QED
        BY <4>1, <4>2 DEF HoldsLease, Processing
    <3>4. ASSUME NEW w \in Workers, CompleteUnacknowledged(w)
          PROVE  \/ workers'[v] = workers[v]
                 \/ /\ workers'[v] = [workers[v] EXCEPT !.pc = "failing"]
                    /\ workers[v].pc = "working"
      BY <3>4 DEF CompleteUnacknowledged, TypeOK
    <3>5. \/ workers'[v] = workers[v]
          \/ /\ workers'[v] = [workers[v] EXCEPT !.pc = "failing"]
             /\ workers[v].pc = "working"
      BY <1>3, <3>2, <3>3, <3>4, OthersLeaveWorkers DEF Next, WorkerStep, vars
    <3>6. QED
      BY <3>1, <3>5 DEF HoldsLease, Processing
  <2>2. jobs[d].status # "none"
    BY <2>1 DEF Actors, WorkerHasJob, Processing
  <2>3. jobs'[d].attempts = jobs[d].attempts
    <3>1. CASE jobs'[d] = jobs[d]
      BY <3>1
    <3>2. ASSUME NEW w \in Workers, workers[w].doc = d,
                 CompleteParseJob(w) \/ CompleteUnacknowledged(w) \/ RecordJobFailure(w)
          PROVE  jobs'[d].attempts = jobs[d].attempts
      <4>1. \E s \in JobStatus : jobs' = [jobs EXCEPT ![d].status = s]
        BY <3>2 DEF CompleteParseJob, CompleteUnacknowledged, RecordJobFailure, CommitParse,
                    JobStatus
      <4>2. QED
        BY <4>1 DEF TypeOK
    <3>3. QED
      BY <1>3, <2>2, <3>1, <3>2, JobChanges
  <2>4. QED
    BY <2>1, <2>3 DEF HoldsLease
<1>4. QED
  BY <1>1, <1>2, <1>3

\* No two workers ever work under the last claim of a job, faults or no faults.
LEMMA OneLeaseHolderAlways == Spec => []OneLeaseHolder
<1>1. Init => OneLeaseHolder
  BY DEF Init, OneLeaseHolder, HoldsLease, Processing, Idle
<1>2. Coherent /\ OneLeaseHolder /\ [Next]_vars => OneLeaseHolder'
  BY OneLeaseHolderInductive
<1>3. QED
  BY <1>1, <1>2, CoherentAlways, PTL DEF Spec
===============================================================================
