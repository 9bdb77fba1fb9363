---------------------------- MODULE JobTransactions ----------------------------
(***************************************************************************)
(* DocumentPipeline with the transactions on documents and jobs taken apart*)
(* into the row locks they wait for, as PostgreSQL grants them to the      *)
(* statements of internal/features/processing/postgres/repository.go and   *)
(* of the document use cases, at READ COMMITTED.                           *)
(*                                                                         *)
(* A transaction holds what it has locked until it commits or rolls back,  *)
(* and what it has written shows when it commits.  The transactions that   *)
(* lock nothing another may hold (a registration, the publisher) are the   *)
(* actions of DocumentPipeline.                                            *)
(***************************************************************************)
EXTENDS DocumentPipeline, Sequences

\* Every document has a storage object of its own, and nobody has two parts.
ASSUME PartiesAssumption ==
    /\ \A d, e \in Docs : KeyOf[d] = KeyOf[e] => d = e
    /\ Workers \cap Clients = {}
    /\ Deletable \cap (Workers \cup Clients) = {}

VARIABLE tx  \* each actor's transaction, and how many locks it has been granted

txVars == <<vars, tx>>

\* The deletion of a document goes by the document's name.
Parties == Workers \cup Clients \cup Deletable

NoTx == [kind |-> "none", locks |-> 0]

Enter(a, kind) == tx' = [tx EXCEPT ![a] = [kind |-> kind, locks |-> 0]]
Leave(a) == tx' = [tx EXCEPT ![a] = NoTx]

-------------------------------------------------------------------------------
(* Row locks. *)

\* The document a transaction is about: all its rows belong to it.
About(a) ==
    IF a \in Workers THEN workers[a].doc ELSE
    IF a \in Clients THEN requests[a] ELSE a

Lock(row, mode) == [row |-> row, mode |-> mode]

\* An inserted row that refers to the document takes a share of it, which goes
\* with an update of the document and not with its deletion.
Compatible(l, m) == l.row # m.row \/ {l.mode, m.mode} \in {{"share"}, {"share", "update"}}

\* A first parse inserts the result, which refers to the document; a later one updates
\* it.  The share that chunks take of the document comes right before its update.
ParseLocks(d) ==
    IF d \notin artifacts
    THEN <<Lock("result", "update"), Lock("document", "share"),
           Lock("object", "update"), Lock("document", "update"), Lock("job", "update")>>
    ELSE <<Lock("result", "update"),
           Lock("object", "update"), Lock("document", "update"), Lock("job", "update")>>

SlipDeletionLocks(d) == <<Lock("document", "delete"), Lock("job", "update")>>

\* The deletion goes on to the result, and the chunks, that it finds.
DeletionLocks(d) ==
    IF d \in artifacts
    THEN <<Lock("document", "delete"), Lock("result", "update")>>
    ELSE <<Lock("document", "delete")>>

\* The locks of a transaction, in the order of its statements.
Wanted(a) ==
    CASE tx[a].kind \in {"claim", "fail"} -> <<Lock("job", "update"), Lock("document", "update")>>
      [] tx[a].kind = "fail_job" -> <<Lock("job", "update")>>
      [] tx[a].kind = "complete" -> ParseLocks(About(a))
      [] tx[a].kind = "upload" -> <<Lock("document", "update"), Lock("object", "update")>>
      [] tx[a].kind = "delete" -> DeletionLocks(About(a))
      [] OTHER -> <<>>

\* Nothing but the statement under way is protected: each ran outside the transaction.
SlipHeld(a) == {Wanted(a)[i] : i \in {tx[a].locks} \ {0}}

Held(a) == {Wanted(a)[i] : i \in 1 .. tx[a].locks}

Ready(a, kind) == tx[a].kind = kind /\ tx[a].locks = Len(Wanted(a))

\* What the next statement of a's transaction locks.
Wants(a, row) == tx[a].locks < Len(Wanted(a)) /\ Wanted(a)[tx[a].locks + 1].row = row

\* a's next statement waits for b.
WaitsFor(a, b) ==
    /\ a # b
    /\ About(a) = About(b)
    /\ tx[a].locks < Len(Wanted(a))
    /\ \E l \in Held(b) : ~Compatible(l, Wanted(a)[tx[a].locks + 1])

\* An update finds only a row that is there; the upsert of an upload inserts it.
FindsNoDocument(a) ==
    /\ Wants(a, "document")
    /\ tx[a].kind # "upload"
    /\ ~Present(About(a))

LockRow(a) ==
    /\ tx[a].locks < Len(Wanted(a))
    /\ ~FindsNoDocument(a)
    /\ \A b \in Parties : ~WaitsFor(a, b)
    /\ tx' = [tx EXCEPT ![a].locks = @ + 1]
    /\ UNCHANGED vars

-------------------------------------------------------------------------------
(* ClaimNextJob. *)

JobRowFree(d) == \A a \in Parties : About(a) = d => Lock("job", "update") \notin Held(a)

\* FOR UPDATE SKIP LOCKED: rows that any transaction holds are passed over.
SelectForUpdate(w) ==
    /\ workers[w].pc = "idle"
    /\ \E d \in Docs :
         /\ Claimable(d) /\ JobRowFree(d)
         /\ \A e \in ahead[d] : ~(Claimable(e) /\ JobRowFree(e))
         /\ workers' = [workers EXCEPT ![w] =
                            [pc |-> "claiming", doc |-> d, attempt |-> 0]]
    /\ tx' = [tx EXCEPT ![w] = [kind |-> "claim", locks |-> 1]]
    /\ UNCHANGED <<docVars, httpVars, queueVars, outbox, faults>>

ClaimCommits(w) ==
    LET d == workers[w].doc IN
    /\ Ready(w, "claim")
    /\ jobs' = [jobs EXCEPT ![d].status = "running", ![d].attempts = @ + 1]
    /\ leaseLive' = [leaseLive EXCEPT ![d] = TRUE]
    /\ docs' = [docs EXCEPT ![d] = "processing"]
    /\ workers' = [workers EXCEPT ![w] =
                       [pc |-> "working", doc |-> d, attempt |-> jobs'[d].attempts]]
    /\ Leave(w)
    /\ UNCHANGED <<artifacts, storage, audit, httpVars, outbox, due, ahead, faults>>

ClaimFindsNoDocument(w) ==
    /\ tx[w].kind = "claim"
    /\ FindsNoDocument(w)
    /\ workers' = [workers EXCEPT ![w] = Idle]
    /\ Leave(w)
    /\ UNCHANGED <<docVars, httpVars, queueVars, outbox, faults>>

-------------------------------------------------------------------------------
(* CompleteParseJob and RecordJobFailure. *)

BeginComplete(w) ==
    /\ workers[w].pc = "working"
    /\ tx[w].kind = "none"
    /\ KeyOf[workers[w].doc] \in blobs
    /\ Enter(w, "complete")
    /\ UNCHANGED vars

\* The foreign key or the update fails, and processJob with it.
CompleteFindsNoDocument(w) ==
    /\ tx[w].kind = "complete"
    /\ FindsNoDocument(w)
    /\ Enter(w, "fail")
    /\ UNCHANGED vars

\* What CompleteParseJob has written shows.
ParseShows(w) ==
    LET d == workers[w].doc IN
    /\ artifacts' = artifacts \cup {d}
    /\ storage' = [storage EXCEPT ![KeyOf[d]].checksum = TRUE]
    /\ docs' = [docs EXCEPT ![d] = "parsed"]
    /\ jobs' = [jobs EXCEPT ![d].status = "completed"]
    /\ leaseLive' = LeaseAfter(w, d)
    /\ LeaveQueue(d)
    /\ Audit(d, "parsed")

ParseCommits(w) ==
    /\ Ready(w, "complete")
    /\ ParseShows(w)
    /\ workers' = [workers EXCEPT ![w] = Idle]
    /\ Leave(w)
    /\ UNCHANGED <<httpVars, outbox, faults>>

\* The answer to the commit is lost, and the worker goes on to record a failure.
ParseCommitsUnheard(w) ==
    /\ Ready(w, "complete")
    /\ faults["lost_commit"] < MaxFaults["lost_commit"]
    /\ ParseShows(w)
    /\ workers' = [workers EXCEPT ![w].pc = "failing"]
    /\ faults' = [faults EXCEPT !["lost_commit"] = @ + 1]
    /\ Enter(w, "fail")
    /\ UNCHANGED <<httpVars, outbox>>

\* Any error of processJob before its transaction.
BeginFailure(w) ==
    /\ workers[w].pc = "working"
    /\ tx[w].kind = "none"
    /\ Enter(w, "fail")
    /\ UNCHANGED vars

\* RecordJobFailure does not mind that its document is gone.
FailureFindsNoDocument(w) ==
    /\ tx[w].kind = "fail"
    /\ FindsNoDocument(w)
    /\ tx' = [tx EXCEPT ![w].kind = "fail_job"]
    /\ UNCHANGED vars

FailureCommits(w) ==
    LET d == workers[w].doc
        dead == Exhausted(workers[w].attempt)
    IN
    /\ \/ Ready(w, "fail") /\ docs' = [docs EXCEPT ![d] = IF dead THEN "failed" ELSE "queued"]
       \/ Ready(w, "fail_job") /\ UNCHANGED docs
    /\ jobs' = [jobs EXCEPT ![d].status = IF dead THEN "dead_letter" ELSE "retry_scheduled"]
    /\ leaseLive' = LeaseAfter(w, d)
    /\ LeaveQueue(d)
    /\ workers' = [workers EXCEPT ![w] = Idle]
    /\ Leave(w)
    /\ UNCHANGED <<artifacts, storage, audit, httpVars, outbox, faults>>

-------------------------------------------------------------------------------
(* The transactions of upload-complete and of a deletion. *)

BeginUploadTx(c) ==
    /\ requests[c] # None
    /\ tx[c].kind = "none"
    /\ Enter(c, "upload")
    /\ UNCHANGED vars

UploadCommits(c) ==
    LET d == requests[c] IN
    /\ Ready(c, "upload")
    /\ docs' = [docs EXCEPT ![d] = "queued"]
    /\ SaveStorageObject(d, TRUE)
    /\ Audit(d, "uploaded")
    /\ SaveOutboxEvent(d)
    /\ SaveJob(d)
    /\ requests' = [requests EXCEPT ![c] = None]
    /\ Leave(c)
    /\ UNCHANGED <<artifacts, blobs, urls, leaseLive, workers, faults>>

BeginDeletion(d) ==
    /\ d \in Deletable
    /\ Present(d)
    /\ tx[d].kind = "none"
    /\ Enter(d, "delete")
    /\ UNCHANGED vars

DeletionCommits(d) ==
    /\ Ready(d, "delete")
    /\ docs' = [docs EXCEPT ![d] = "removed"]
    /\ artifacts' = artifacts \ {d}
    /\ Audit(d, "deleted")
    /\ Leave(d)
    /\ UNCHANGED <<storage, httpVars, queueVars, outbox, workers, faults>>

-------------------------------------------------------------------------------
(* A statement fails, the request is cancelled, the process stops, or the      *)
(* transaction is the one PostgreSQL ends to resolve a deadlock.               *)

\* processJob returns the error, and a failure is recorded.
CompletionFails(w) ==
    /\ tx[w].kind = "complete"
    /\ Enter(w, "fail")
    /\ UNCHANGED vars

\* The poll ends; a job in progress waits for its lease to run out.
InterruptTx(w) == Interrupt(w) /\ Leave(w)

UploadFails(c) == AbandonUploadComplete(c) /\ Leave(c)

DeletionFails(d) == tx[d].kind = "delete" /\ Leave(d) /\ UNCHANGED vars

-------------------------------------------------------------------------------

TxInit == Init /\ tx = [a \in Parties |-> NoTx]

\* The actions of DocumentPipeline that are one step here as well.
PipelineStep ==
    /\ \/ \E d \in Docs :
            \/ CreateDocument(d)
            \/ RequestDocumentUpload(d)
            \/ PutBlob(d)
            \/ PublishNextOutboxEvent(d)
            \/ ClockStep(d)
       \/ \E c \in Clients, d \in Docs : BeginUploadComplete(c, d)
    /\ UNCHANGED tx

WorkerTxStep(w) ==
    \/ SelectForUpdate(w)
    \/ ClaimCommits(w)
    \/ ClaimFindsNoDocument(w)
    \/ BeginComplete(w)
    \/ CompleteFindsNoDocument(w)
    \/ ParseCommits(w)
    \/ ParseCommitsUnheard(w)
    \/ CompletionFails(w)
    \/ BeginFailure(w)
    \/ FailureFindsNoDocument(w)
    \/ FailureCommits(w)
    \/ InterruptTx(w)

TxNext ==
    \/ PipelineStep
    \/ \E a \in Parties : LockRow(a)
    \/ \E w \in Workers : WorkerTxStep(w)
    \/ \E c \in Clients : BeginUploadTx(c) \/ UploadCommits(c) \/ UploadFails(c)
    \/ \E d \in Deletable : BeginDeletion(d) \/ DeletionCommits(d) \/ DeletionFails(d)

TxSpec == TxInit /\ [][TxNext]_txVars

-------------------------------------------------------------------------------

TxTypeOK ==
    /\ TypeOK
    /\ tx \in [Parties -> [kind : {"none", "claim", "complete", "fail", "fail_job",
                                  "upload", "delete"}, locks : 0 .. 5]]
    /\ \A a \in Parties : tx[a].locks <= Len(Wanted(a))

\* Every transaction of a set waits for another one of the set: the database ends
\* one of them.
Deadlock(S) == S # {} /\ \A a \in S : \E b \in S : WaitsFor(a, b)

\* A worker's job is no longer running under its lease: the lease is over, the job was
\* claimed again, or a worker that was late itself has settled or rescheduled it.
LostLease(a) == a \in Workers /\ \E d \in Docs :
    Processing(a, d) /\ ~(HoldsLease(a, d) /\ leaseLive[d] /\ jobs[d].status = "running")

\* An upload-complete that is not the first for its document.
Overtaken(a) == a \in Clients /\ \E d \in Docs : requests[a] = d /\ jobs[d].status # "none"

\* A document deleted when it has been parsed, and is being parsed again.
Reparsed(a) == a \in Deletable /\ a \in artifacts /\ \E w \in Workers : Processing(w, a)

\* CompleteParseJob locks the document before the job, the others the job first:
\* still, transactions wait for one another in a circle only when a worker has lost
\* its lease, an upload is completed twice or a parse repeated while its document is deleted.
DeadlockNeedsLateness == \A S \in SUBSET Parties : Deadlock(S) =>
    \E a \in S : LostLease(a) \/ Overtaken(a) \/ Reparsed(a)

\* The row locks make every transaction look like a single step: what DocumentPipeline
\* says of the system holds of its statements, however they interleave.
TransactionsAreAtomic == Spec
===============================================================================
