------------------------- MODULE JobTransactionsProofs -------------------------
(***************************************************************************)
(* The row locks of JobTransactions make each transaction a single step:   *)
(* JobTransactions implements DocumentPipeline.  And they are waited for   *)
(* in a circle only when somebody is late.                                 *)
(*                                                                         *)
(* The last section is about the transactions of the outbox publishers.    *)
(***************************************************************************)
EXTENDS JobTransactions, DocumentPipelineProofs, Outbox

Kinds == {"none", "claim", "complete", "fail", "fail_job", "upload", "delete"}

TxTyped ==
    /\ tx \in [Parties -> [kind : Kinds, locks : Nat]]
    /\ \A a \in Parties : tx[a].locks <= Len(Wanted(a))

-------------------------------------------------------------------------------
(* What is held, kind by kind. *)

LEMMA LocksCounted ==
    ASSUME NEW a \in Parties, TxTyped
    PROVE  tx[a].kind \in Kinds /\ tx[a].locks \in Nat /\ tx[a].locks <= Len(Wanted(a))
BY DEF TxTyped

LEMMA HoldsNothing ==
    ASSUME NEW a \in Parties, tx[a].locks = 0
    PROVE  Held(a) = {}
BY DEF Held

LEMMA HoldsOfNone ==
    ASSUME NEW a \in Parties, TxTyped, tx[a].kind = "none"
    PROVE  tx[a].locks = 0 /\ Held(a) = {}
<1>1. Wanted(a) = <<>>
  BY DEF Wanted
<1>2. tx[a].locks = 0
  BY <1>1 DEF TxTyped
<1>3. QED
  BY <1>2, HoldsNothing

LEMMA HoldsOfReport ==
    ASSUME NEW a \in Parties, TxTyped, tx[a].kind \in {"claim", "fail"}
    PROVE  /\ Wanted(a) = <<Lock("job", "update"), Lock("document", "update")>>
           /\ Len(Wanted(a)) = 2
           /\ tx[a].locks \in 0 .. 2
           /\ tx[a].locks >= 1 => Lock("job", "update") \in Held(a)
           /\ tx[a].locks = 1 => Held(a) = {Lock("job", "update")}
           /\ tx[a].locks = 2 => Lock("document", "update") \in Held(a)
<1>1. Wanted(a) = <<Lock("job", "update"), Lock("document", "update")>> /\ Len(Wanted(a)) = 2
  BY DEF Wanted
<1>2. tx[a].locks \in 0 .. 2
  <2>1. Len(Wanted(a)) = 2
    BY <1>1
  <2>2. tx[a].locks \in Nat /\ tx[a].locks <= 2
    BY <2>1, LocksCounted
  <2>3. QED
    BY <2>2
<1>3. Wanted(a)[1] = Lock("job", "update") /\ Wanted(a)[2] = Lock("document", "update")
  BY <1>1
<1>4. tx[a].locks = 1 => Held(a) = {Lock("job", "update")}
  <2>1. 1 .. 1 = {1}
    OBVIOUS
  <2>2. QED
    BY <1>3, <2>1 DEF Held
<1>5. QED
  BY <1>1, <1>2, <1>3, <1>4 DEF Held

LEMMA HoldsOfJobFailure ==
    ASSUME NEW a \in Parties, TxTyped, tx[a].kind = "fail_job"
    PROVE  /\ Len(Wanted(a)) = 1
           /\ tx[a].locks \in 0 .. 1
           /\ tx[a].locks = 1 => Held(a) = {Lock("job", "update")}
<1>1. Wanted(a) = <<Lock("job", "update")>> /\ Len(Wanted(a)) = 1
  BY DEF Wanted
<1>2. tx[a].locks \in 0 .. 1
  <2>1. Len(Wanted(a)) = 1
    BY <1>1
  <2>2. tx[a].locks \in Nat /\ tx[a].locks <= 1
    BY <2>1, LocksCounted
  <2>3. QED
    BY <2>2
<1>3. 1 .. 1 = {1} /\ Wanted(a)[1] = Lock("job", "update")
  BY <1>1
<1>4. QED
  BY <1>1, <1>2, <1>3 DEF Held

LEMMA HoldsOfComplete ==
    ASSUME NEW a \in Parties, TxTyped, tx[a].kind = "complete"
    PROVE  /\ tx[a].locks >= 1 => Lock("result", "update") \in Held(a)
           /\ tx[a].locks = Len(Wanted(a)) =>
                  {Lock("document", "update"), Lock("job", "update")} \subseteq Held(a)
<1>1. Wanted(a) = ParseLocks(About(a))
  BY DEF Wanted
<1>2. CASE About(a) \notin artifacts
  <2>1. /\ Wanted(a) = <<Lock("result", "update"), Lock("document", "share"),
           Lock("object", "update"), Lock("document", "update"), Lock("job", "update")>>
        /\ Len(Wanted(a)) = 5
    BY <1>1, <1>2 DEF ParseLocks
  <2>2. /\ Wanted(a)[1] = Lock("result", "update") /\ Wanted(a)[4] = Lock("document", "update")
        /\ Wanted(a)[5] = Lock("job", "update")
    BY <2>1
  <2>3. QED
    BY <2>1, <2>2 DEF Held, TxTyped
<1>3. CASE About(a) \in artifacts
  <2>1. /\ Wanted(a) = <<Lock("result", "update"),
           Lock("object", "update"), Lock("document", "update"), Lock("job", "update")>>
        /\ Len(Wanted(a)) = 4
    BY <1>1, <1>3 DEF ParseLocks
  <2>2. /\ Wanted(a)[1] = Lock("result", "update") /\ Wanted(a)[3] = Lock("document", "update")
        /\ Wanted(a)[4] = Lock("job", "update")
    BY <2>1
  <2>3. QED
    BY <2>1, <2>2 DEF Held, TxTyped
<1>4. QED
  BY <1>2, <1>3

LEMMA HoldsOfDeletion ==
    ASSUME NEW a \in Parties, TxTyped, tx[a].kind = "delete"
    PROVE  /\ tx[a].locks >= 1 => Lock("document", "delete") \in Held(a)
           /\ Len(Wanted(a)) >= 1
           /\ tx[a].locks = Len(Wanted(a)) /\ About(a) \in artifacts =>
                  Lock("result", "update") \in Held(a)
<1>1. Wanted(a) = DeletionLocks(About(a))
  BY DEF Wanted
<1>2. CASE About(a) \in artifacts
  <2>1. /\ Wanted(a) = <<Lock("document", "delete"), Lock("result", "update")>>
        /\ Len(Wanted(a)) = 2
    BY <1>1, <1>2 DEF DeletionLocks
  <2>2. QED
    BY <2>1 DEF Held, TxTyped
<1>3. CASE About(a) \notin artifacts
  <2>1. Wanted(a) = <<Lock("document", "delete")>> /\ Len(Wanted(a)) = 1
    BY <1>1, <1>3 DEF DeletionLocks
  <2>2. QED
    BY <2>1, <1>3 DEF Held, TxTyped
<1>4. QED
  BY <1>2, <1>3

LEMMA WantedCounted ==
    /\ \A a \in Parties : Len(Wanted(a)) \in Nat
    /\ (\A a \in Parties : Len(Wanted(a)) \in Nat)'
<1>1. \A a \in Parties : Len(Wanted(a)) \in Nat
  BY DEF Wanted, ParseLocks, DeletionLocks
<1>2. (\A a \in Parties : Len(Wanted(a)) \in Nat)'
  BY DEF Wanted, ParseLocks, DeletionLocks
<1>3. QED
  BY <1>1, <1>2

-------------------------------------------------------------------------------
(* The invariant. *)

\* A transaction belongs to what its actor is doing.
WorkerEngaged(w) ==
    /\ tx[w].kind \in {"none", "claim", "complete", "fail", "fail_job"}
    /\ tx[w].kind = "claim" <=> workers[w].pc = "claiming"
    /\ tx[w].kind = "claim" => tx[w].locks >= 1
    /\ tx[w].kind = "complete" => workers[w].pc = "working" /\ KeyOf[workers[w].doc] \in blobs
    /\ tx[w].kind \in {"fail", "fail_job"} => workers[w].pc \in {"working", "failing"}

\* The document is away, or was, and an upload-complete has put it back.
Away(d) == ~Present(d) \/ PutBack(d)

\* A failure that found no document has the job's row, and the document stays away.
WithoutDocument(w) == tx[w].kind = "fail_job" => tx[w].locks = 1 /\ Away(workers[w].doc)

Engaged ==
    /\ \A w \in Workers : WorkerEngaged(w) /\ WithoutDocument(w)
    /\ \A c \in Clients : /\ tx[c].kind \in {"none", "upload"}
                          /\ tx[c].kind = "upload" => requests[c] # None
    /\ \A d \in Deletable : tx[d].kind \in {"none", "delete"}

\* No two transactions hold locks that exclude each other.
Apart == \A a, b \in Parties : a # b /\ About(a) = About(b) =>
    \A l \in Held(a), m \in Held(b) : Compatible(l, m)

\* The row that a transaction has locked as a document is there.
FoundBy(a) == tx[a].kind # "upload" =>
    \A l \in Held(a) : l.row = "document" => Present(About(a))

Found == \A a \in Parties : FoundBy(a)

\* What was removed was deleted by somebody.
Buried == \A d \in Docs : docs[d] = "removed" => audit[d]["deleted"] > 0

TxInv == Coherent /\ TxTyped /\ Engaged /\ Apart /\ Found /\ Buried

-------------------------------------------------------------------------------
(* What locks exclude. *)

LEMMA OneHolder ==
    ASSUME Apart, NEW a \in Parties, NEW b \in Parties, About(a) = About(b),
           NEW row, Lock(row, "update") \in Held(a), Lock(row, "update") \in Held(b)
    PROVE  a = b
<1>1. ~Compatible(Lock(row, "update"), Lock(row, "update"))
  BY DEF Compatible, Lock
<1>2. QED
  BY <1>1 DEF Apart

LEMMA DeletesAlone ==
    ASSUME Apart, NEW a \in Parties, NEW b \in Parties, About(a) = About(b),
           Lock("document", "delete") \in Held(a), NEW l \in Held(b), l.row = "document"
    PROVE  a = b
<1>1. ~Compatible(Lock("document", "delete"), l)
  BY DEF Compatible, Lock
<1>2. QED
  BY <1>1 DEF Apart

\* b's transaction goes on with what it holds, or holds nothing.
Keeps(b) ==
    /\ Held(b)' = Held(b)
    /\ About(b)' = About(b)
    /\ tx'[b].locks <= Len(Wanted(b)')
    /\ tx'[b].kind = "upload" <=> tx[b].kind = "upload"

Drops(b) == tx'[b].locks = 0

LEMMA KeepsOrDrops ==
    ASSUME TxTyped, NEW b \in Parties, tx'[b] = tx[b],
           \/ tx[b].locks = 0
           \/ About(b)' = About(b) /\ (About(b) \in artifacts' <=> About(b) \in artifacts)
           \/ About(b)' = About(b) /\ tx[b].kind \notin {"complete", "delete"}
    PROVE  Keeps(b) \/ Drops(b)
<1>1. CASE tx[b].locks = 0
  BY <1>1 DEF Drops
<1>2. CASE tx[b].locks # 0
  <2>1. Wanted(b)' = Wanted(b)
    BY <1>2 DEF Wanted, ParseLocks, DeletionLocks
  <2>2. QED
    BY <1>2, <2>1, LocksCounted DEF Keeps, Held
<1>3. QED
  BY <1>1, <1>2

\* Whoever keeps its locks, or lets them go, leaves the rest as it is.
LEMMA LocksKept ==
    ASSUME TxTyped, Apart, tx' \in [Parties -> [kind : Kinds, locks : Nat]],
           \A b \in Parties : Keeps(b) \/ Drops(b)
    PROVE  TxTyped' /\ Apart'
<1>1. TxTyped'
  <2>1. ASSUME NEW b \in Parties PROVE tx'[b].locks <= Len(Wanted(b))'
    <3>1. Len(Wanted(b))' \in Nat
      BY WantedCounted
    <3>2. QED
      BY <3>1 DEF Keeps, Drops
  <2>2. QED
    BY <2>1 DEF TxTyped
<1>2. \A b \in Parties : Held(b)' = {} \/ (Held(b)' = Held(b) /\ About(b)' = About(b))
  <2>1. ASSUME NEW b \in Parties, Drops(b) PROVE Held(b)' = {}
    BY <2>1 DEF Drops, Held
  <2>2. QED
    BY <2>1 DEF Keeps
<1>3. Apart'
  BY <1>2 DEF Apart
<1>4. QED
  BY <1>1, <1>3

\* And finds its documents, as long as no document leaves that another has locked.
LEMMA FoundKept ==
    ASSUME TxTyped, Found, \A b \in Parties : Keeps(b) \/ Drops(b),
           \A b \in Parties : \A l \in Held(b) :
               l.row = "document" /\ Keeps(b) /\ tx[b].kind # "upload" /\ Present(About(b))
                   => Present(About(b))'
    PROVE  Found'
<1> SUFFICES ASSUME NEW b \in Parties PROVE FoundBy(b)'
  BY DEF Found
<1>1. CASE Drops(b)
  BY <1>1 DEF Drops, FoundBy, Held
<1>2. CASE Keeps(b)
  BY <1>2 DEF Keeps, Found, FoundBy
<1>3. QED
  BY <1>1, <1>2

-------------------------------------------------------------------------------
(* Who holds what. *)

LEMMA HolderHasDocument ==
    ASSUME TxInv, NEW a \in Parties, tx[a].kind # "none"
    PROVE  About(a) \in Docs
<1>1. CASE a \in Workers
  <2>1. workers[a].pc # "idle"
    BY <1>1 DEF TxInv, Engaged, WorkerEngaged, TxTyped, Kinds
  <2>2. QED
    BY <1>1, <2>1 DEF About, TxInv, Coherent, Actors, WorkerHasJob
<1>2. CASE a \in Clients
  <2>1. requests[a] # None /\ a \notin Workers
    BY <1>2, PartiesAssumption DEF TxInv, Engaged
  <2>2. QED
    BY <1>2, <2>1 DEF About, TxInv, Coherent, TypeOK
<1>3. CASE a \in Deletable
  BY <1>3, PartiesAssumption, ConstantsAssumption DEF About
<1>4. QED
  BY <1>1, <1>2, <1>3 DEF Parties

LEMMA HoldsOfRequest ==
    ASSUME NEW a \in Parties, TxTyped, tx[a].kind \in {"upload", "delete"}
    PROVE  Lock("job", "update") \notin Held(a)
<1>1. CASE tx[a].kind = "upload"
  <2>1. Wanted(a) = <<Lock("document", "update"), Lock("object", "update")>>
        /\ Len(Wanted(a)) = 2
    BY <1>1 DEF Wanted
  <2>2. Wanted(a)[1].row # "job" /\ Wanted(a)[2].row # "job"
    BY <2>1 DEF Lock
  <2>3. Len(Wanted(a)) = 2
    BY <2>1
  <2>4. tx[a].locks \in 0 .. 2
    <3>1. tx[a].locks \in Nat /\ tx[a].locks <= 2
      BY <2>3, LocksCounted
    <3>2. QED
      BY <3>1
  <2>5. \A i \in 1 .. tx[a].locks : Wanted(a)[i].row # "job"
    BY <2>2, <2>4
  <2>6. QED
    BY <2>5 DEF Held, Lock
<1>2. CASE tx[a].kind = "delete" /\ About(a) \in artifacts
  <2>1. Wanted(a) = <<Lock("document", "delete"), Lock("result", "update")>>
        /\ Len(Wanted(a)) = 2
    BY <1>2 DEF Wanted, DeletionLocks
  <2>2. Wanted(a)[1].row # "job" /\ Wanted(a)[2].row # "job"
    BY <2>1 DEF Lock
  <2>3. Len(Wanted(a)) = 2
    BY <2>1
  <2>4. tx[a].locks \in 0 .. 2
    <3>1. tx[a].locks \in Nat /\ tx[a].locks <= 2
      BY <2>3, LocksCounted
    <3>2. QED
      BY <3>1
  <2>5. \A i \in 1 .. tx[a].locks : Wanted(a)[i].row # "job"
    BY <2>2, <2>4
  <2>6. QED
    BY <2>5 DEF Held, Lock
<1>3. CASE tx[a].kind = "delete" /\ About(a) \notin artifacts
  <2>1. Wanted(a) = <<Lock("document", "delete")>> /\ Len(Wanted(a)) = 1
    BY <1>3 DEF Wanted, DeletionLocks
  <2>2. Wanted(a)[1].row # "job"
    BY <2>1 DEF Lock
  <2>3. Len(Wanted(a)) = 1
    BY <2>1
  <2>4. tx[a].locks \in 0 .. 1
    <3>1. tx[a].locks \in Nat /\ tx[a].locks <= 1
      BY <2>3, LocksCounted
    <3>2. QED
      BY <3>1
  <2>5. \A i \in 1 .. tx[a].locks : Wanted(a)[i].row # "job"
    BY <2>2, <2>4
  <2>6. QED
    BY <2>5 DEF Held, Lock
<1>4. QED
  BY <1>1, <1>2, <1>3

\* Only the transactions of workers lock jobs.
LEMMA JobLockedByWorker ==
    ASSUME TxInv, NEW a \in Parties, Lock("job", "update") \in Held(a)
    PROVE  a \in Workers /\ (Claiming(a, About(a)) \/ Processing(a, About(a)))
<1>1. tx[a].kind \in {"claim", "complete", "fail", "fail_job"}
  <2>1. tx[a].kind # "none"
    BY HoldsOfNone DEF TxInv
  <2>2. tx[a].kind \notin {"upload", "delete"}
    BY HoldsOfRequest DEF TxInv
  <2>3. QED
    BY <2>1, <2>2 DEF TxInv, TxTyped, Kinds
<1>2. a \in Workers
  BY <1>1 DEF TxInv, Engaged, Parties
<1>3. WorkerEngaged(a) /\ About(a) = workers[a].doc
  BY <1>2 DEF TxInv, Engaged, About
<1>4. QED
  BY <1>1, <1>2, <1>3 DEF WorkerEngaged, Claiming, Processing

\* A worker that is claiming a document holds its job, and so does nobody else.
LEMMA ClaimerHoldsJob ==
    ASSUME TxInv, NEW a \in Parties, Lock("job", "update") \in Held(a),
           RowLocked(About(a))
    PROVE  tx[a].kind = "claim"
<1>1. PICK v \in Workers : Claiming(v, About(a))
  BY DEF RowLocked
<1>2. v \in Parties /\ tx[v].kind = "claim" /\ tx[v].locks >= 1 /\ About(v) = About(a)
  BY <1>1 DEF TxInv, Engaged, WorkerEngaged, Claiming, About, Parties
<1>3. Lock("job", "update") \in Held(v)
  BY <1>2, HoldsOfReport DEF TxInv
<1>4. QED
  BY <1>2, <1>3, OneHolder DEF TxInv

-------------------------------------------------------------------------------
(* What a step of one actor leaves to the others. *)

\* Steps of a: the others' transactions, and what they are about, stay.
StepOf(a) ==
    /\ tx' \in [Parties -> [kind : Kinds, locks : Nat]]
    /\ \A b \in Parties \ {a} : tx'[b] = tx[b]
    /\ \A w \in Workers \ {a} : workers'[w] = workers[w]
    /\ \A c \in Clients \ {a} : requests'[c] = requests[c]

LEMMA OthersAbout ==
    ASSUME NEW a, StepOf(a)
    PROVE  \A b \in Parties \ {a} : About(b)' = About(b)
BY DEF StepOf, About, Parties

\* The step of a keeps the locks in order when a keeps its locks or drops them, no
\* other deletion or completion is confused about the result, and no document
\* goes that another transaction has locked.
LEMMA LocksInOrder ==
    ASSUME TxInv, NEW a \in Parties, StepOf(a), Keeps(a) \/ Drops(a),
           \A b \in Parties \ {a} : tx[b].locks # 0 /\ tx[b].kind \in {"complete", "delete"} =>
               (About(b) \in artifacts' <=> About(b) \in artifacts),
           \A b \in Parties : \A l \in Held(b) :
               l.row = "document" /\ Present(About(b)) => Present(About(b))' \/ Drops(b)
    PROVE  TxTyped' /\ Apart' /\ Found'
<1>1. ASSUME NEW b \in Parties \ {a} PROVE Keeps(b) \/ Drops(b)
  <2>1. tx'[b] = tx[b] /\ About(b)' = About(b)
    BY OthersAbout DEF StepOf
  <2>2. QED
    BY <2>1, KeepsOrDrops DEF TxInv
<1>2. \A b \in Parties : Keeps(b) \/ Drops(b)
  BY <1>1
<1>3. TxTyped' /\ Apart'
  BY <1>2, LocksKept DEF StepOf, TxInv
<1>4. ASSUME NEW b \in Parties, NEW l \in Held(b), l.row = "document", Keeps(b),
             tx[b].kind # "upload", Present(About(b))
      PROVE  Present(About(b))'
  <2>1. ~Drops(b)
    <3>1. CASE Drops(b)
      <4>1. Held(b)' = {}
        BY <3>1 DEF Drops, Held
      <4>2. QED
        BY <1>4, <4>1 DEF Keeps
    <3>2. QED
      BY <3>1
  <2>2. QED
    BY <1>4, <2>1
<1>5. Found'
  BY <1>2, <1>4, FoundKept DEF TxInv
<1>6. QED
  BY <1>3, <1>5

\* No document goes, no result comes or goes, and a ends or begins a transaction.
LEMMA LocksDropped ==
    ASSUME TxInv, NEW a \in Parties, StepOf(a), Keeps(a) \/ Drops(a), UNCHANGED artifacts,
           \A d \in Docs : Present(d) => Present(d)'
    PROVE  TxTyped' /\ Apart' /\ Found'
<1>1. ASSUME NEW b \in Parties, NEW l \in Held(b), l.row = "document", Present(About(b))
      PROVE  Present(About(b))' \/ Drops(b)
  <2>1. tx[b].kind # "none"
    BY HoldsOfNone DEF TxInv
  <2>2. About(b) \in Docs
    BY <2>1, HolderHasDocument
  <2>3. CASE b = a /\ ~Drops(a)
    BY <1>1, <2>2, <2>3 DEF Keeps, Present
  <2>4. CASE b # a
    BY <1>1, <2>2, <2>4, OthersAbout DEF Present
  <2>5. QED
    BY <2>3, <2>4
<1>2. QED
  BY <1>1, LocksInOrder

\* What a client or a worker does next is its own affair.
LEMMA OthersEngaged ==
    ASSUME TxInv, NEW a \in Parties, StepOf(a), blobs \subseteq blobs',
           \A w \in Workers \ {a} : tx[w].kind = "fail_job" => Away(workers[w].doc)',
           a \in Workers => WorkerEngaged(a)' /\ WithoutDocument(a)',
           a \in Clients => tx'[a].kind \in {"none", "upload"}
                            /\ (tx'[a].kind = "upload" => requests'[a] # None),
           a \in Deletable => tx'[a].kind \in {"none", "delete"}
    PROVE  Engaged'
<1>1. ASSUME NEW w \in Workers \ {a} PROVE WorkerEngaged(w)' /\ WithoutDocument(w)'
  <2>1. tx'[w] = tx[w] /\ workers'[w] = workers[w]
    BY DEF StepOf, Parties
  <2>2. WorkerEngaged(w) /\ WithoutDocument(w)
    BY DEF TxInv, Engaged
  <2>3. WorkerEngaged(w)'
    BY <2>1, <2>2 DEF WorkerEngaged
  <2>4. WithoutDocument(w)'
    BY <2>1, <2>2 DEF WithoutDocument
  <2>5. QED
    BY <2>3, <2>4
<1>2. \A w \in Workers : WorkerEngaged(w)' /\ WithoutDocument(w)'
  BY <1>1
<1>3. ASSUME NEW c \in Clients
      PROVE  tx'[c].kind \in {"none", "upload"} /\ (tx'[c].kind = "upload" => requests'[c] # None)
  BY DEF TxInv, Engaged, StepOf, Parties
<1>4. ASSUME NEW d \in Deletable PROVE tx'[d].kind \in {"none", "delete"}
  BY DEF TxInv, Engaged, StepOf, Parties
<1>5. QED
  BY <1>2, <1>3, <1>4 DEF Engaged

-------------------------------------------------------------------------------
(* Documents that are away. *)

LEMMA AuditGrows ==
    ASSUME TypeOK, NEW d \in Docs, NEW act \in AuditActions, Audit(d, act)
    PROVE  \A e \in Docs : /\ audit'[e]["deleted"] \in Nat
                           /\ audit'[e]["deleted"] >= audit[e]["deleted"]
BY DEF TypeOK, Audit, AuditActions

\* A document stays away while it keeps its status, is removed or put back.
LEMMA StaysAway ==
    ASSUME TxInv, NEW d \in Docs, Away(d), jobs[d].status # "none",
           audit'[d]["deleted"] \in Nat, audit'[d]["deleted"] >= audit[d]["deleted"],
           docs'[d] \in {docs[d], "removed"} \/ (docs'[d] = "queued" /\ d \in UploadDocs)
    PROVE  Away(d)'
<1>1. docs[d] # "none"
  BY DEF TxInv, Coherent, Records, DocumentFollowsJob
<1>2. audit[d]["deleted"] > 0 /\ audit[d]["deleted"] \in Nat /\ audit'[d]["deleted"] > 0
  <2>1. audit[d]["deleted"] \in Nat
    BY DEF TxInv, Coherent, TypeOK, AuditActions
  <2>2. audit[d]["deleted"] > 0
    BY <1>1 DEF TxInv, Buried, Away, Present, PutBack
  <2>3. QED
    BY <2>1, <2>2
<1>3. QED
  BY <1>1, <1>2 DEF Away, Present, PutBack

\* What every step of a transaction preserves, beside Coherent and Buried.
TxKept == TxTyped' /\ Apart' /\ Found' /\ Engaged'

LEMMA WorkerAlone ==
    ASSUME NEW w \in Workers
    PROVE  w \in Parties /\ w \notin Clients /\ w \notin Deletable /\ About(w) = workers[w].doc
           /\ About(w)' = workers'[w].doc
BY PartiesAssumption DEF Parties, About

LEMMA ClientAlone ==
    ASSUME NEW c \in Clients
    PROVE  c \in Parties /\ c \notin Workers /\ c \notin Deletable /\ About(c) = requests[c]
BY PartiesAssumption DEF Parties, About

LEMMA DeletionAlone ==
    ASSUME NEW d \in Deletable
    PROVE  d \in Parties /\ d \in Docs /\ d \notin Workers /\ d \notin Clients /\ About(d) = d
BY PartiesAssumption, ConstantsAssumption DEF Parties, About

LEMMA EnterSteps ==
    ASSUME TxInv, NEW a \in Parties, NEW kind \in Kinds, Enter(a, kind),
           \A w \in Workers \ {a} : workers'[w] = workers[w],
           \A c \in Clients \ {a} : requests'[c] = requests[c]
    PROVE  StepOf(a) /\ Drops(a) /\ tx'[a] = [kind |-> kind, locks |-> 0]
BY DEF TxInv, TxTyped, Enter, StepOf, Drops

LEMMA LeaveEnters == ASSUME NEW a, Leave(a) PROVE Enter(a, "none") /\ "none" \in Kinds
BY DEF Leave, Enter, NoTx, Kinds

-------------------------------------------------------------------------------
(* Steps that begin a transaction, or end it, and write nothing. *)

LEMMA QuietEnter ==
    ASSUME TxInv, NEW a \in Parties, NEW kind \in Kinds, Enter(a, kind), UNCHANGED vars,
           a \in Workers =>
               \/ kind = "complete" /\ workers[a].pc = "working" /\ KeyOf[workers[a].doc] \in blobs
               \/ kind = "fail" /\ workers[a].pc = "working",
           a \in Clients => kind = "upload" /\ requests[a] # None,
           a \in Deletable => kind \in {"none", "delete"}
    PROVE  [Next]_vars /\ TxKept
<1> USE DEF vars, docVars, httpVars, queueVars
<1>1. StepOf(a) /\ Drops(a) /\ tx'[a] = [kind |-> kind, locks |-> 0]
  BY EnterSteps
<1>2. TxTyped' /\ Apart' /\ Found'
  BY <1>1, LocksDropped DEF Present
<1>3. ASSUME NEW w \in Workers, tx[w].kind = "fail_job" PROVE Away(workers[w].doc)'
  BY <1>3 DEF TxInv, Engaged, WithoutDocument, Away, Present, PutBack
<1>4. a \in Workers => WorkerEngaged(a)' /\ WithoutDocument(a)'
  BY <1>1 DEF WorkerEngaged, WithoutDocument
<1>5. Engaged'
  BY <1>1, <1>3, <1>4, OthersEngaged
<1>6. QED
  BY <1>2, <1>5 DEF TxKept

LEMMA BeginsAndFailures ==
    ASSUME TxInv,
           \/ \E w \in Workers : BeginComplete(w) \/ CompleteFindsNoDocument(w)
                                 \/ BeginFailure(w) \/ CompletionFails(w)
           \/ \E c \in Clients : BeginUploadTx(c)
           \/ \E d \in Deletable : BeginDeletion(d) \/ DeletionFails(d)
    PROVE  [Next]_vars /\ TxKept
<1>1. ASSUME NEW w \in Workers, BeginComplete(w) PROVE [Next]_vars /\ TxKept
  BY <1>1, QuietEnter, WorkerAlone DEF BeginComplete, Kinds
<1>2. ASSUME NEW w \in Workers, CompleteFindsNoDocument(w) \/ CompletionFails(w)
      PROVE  [Next]_vars /\ TxKept
  <2>1. tx[w].kind = "complete" /\ Enter(w, "fail") /\ UNCHANGED vars
    BY <1>2 DEF CompleteFindsNoDocument, CompletionFails
  <2>2. workers[w].pc = "working"
    BY <2>1 DEF TxInv, Engaged, WorkerEngaged
  <2>3. QED
    BY <2>1, <2>2, QuietEnter, WorkerAlone DEF Kinds
<1>3. ASSUME NEW w \in Workers, BeginFailure(w) PROVE [Next]_vars /\ TxKept
  BY <1>3, QuietEnter, WorkerAlone DEF BeginFailure, Kinds
<1>4. ASSUME NEW c \in Clients, BeginUploadTx(c) PROVE [Next]_vars /\ TxKept
  BY <1>4, QuietEnter, ClientAlone DEF BeginUploadTx, Kinds
<1>5. ASSUME NEW d \in Deletable, BeginDeletion(d) \/ DeletionFails(d)
      PROVE  [Next]_vars /\ TxKept
  BY <1>5, QuietEnter, DeletionAlone, LeaveEnters DEF BeginDeletion, DeletionFails, Kinds
<1>6. QED
  BY <1>1, <1>2, <1>3, <1>4, <1>5

-------------------------------------------------------------------------------
(* A lock is granted. *)

LEMMA CompatibleSymmetric == \A l, m : Compatible(l, m) <=> Compatible(m, l)
BY DEF Compatible

LEMMA LockGranted ==
    ASSUME TxInv, NEW a \in Parties, LockRow(a)
    PROVE  [Next]_vars /\ TxKept
<1> USE DEF vars, docVars, httpVars, queueVars
<1> DEFINE next == Wanted(a)[tx[a].locks + 1]
<1>1. /\ StepOf(a)
      /\ tx'[a] = [kind |-> tx[a].kind, locks |-> tx[a].locks + 1]
      /\ tx[a].locks < Len(Wanted(a))
      /\ UNCHANGED vars
  BY DEF LockRow, TxInv, TxTyped, StepOf
<1>2. Wanted(a)' = Wanted(a) /\ About(a)' = About(a)
  BY <1>1 DEF Wanted, ParseLocks, DeletionLocks, About
<1>3. ASSUME NEW b \in Parties \ {a}
      PROVE  Wanted(b)' = Wanted(b) /\ About(b)' = About(b) /\ Held(b)' = Held(b)
             /\ tx'[b] = tx[b]
  <2>1. tx'[b] = tx[b] /\ About(b)' = About(b)
    BY <1>1 DEF StepOf, About
  <2>2. Wanted(b)' = Wanted(b)
    BY <1>1, <2>1 DEF Wanted, ParseLocks, DeletionLocks
  <2>3. QED
    BY <2>1, <2>2 DEF Held
<1>4. Held(a)' = Held(a) \cup {next}
  <2>1. tx[a].locks \in Nat
    BY LocksCounted DEF TxInv
  <2>2. 1 .. (tx[a].locks + 1) = (1 .. tx[a].locks) \cup {tx[a].locks + 1}
    BY <2>1
  <2>3. Held(a)' = {Wanted(a)[i] : i \in 1 .. (tx[a].locks + 1)}
    BY <1>1, <1>2 DEF Held
  <2>4. QED
    BY <2>2, <2>3 DEF Held
<1>5. ASSUME NEW b \in Parties \ {a}, About(b) = About(a), NEW m \in Held(b)
      PROVE  Compatible(next, m) /\ Compatible(m, next)
  <2>1. ~WaitsFor(a, b)
    BY DEF LockRow
  <2>2. Compatible(m, next)
    BY <1>1, <1>5, <2>1 DEF WaitsFor
  <2>3. QED
    BY <2>2, CompatibleSymmetric
<1>6. Apart'
  <2> SUFFICES ASSUME NEW b \in Parties, NEW c \in Parties, b # c, About(b)' = About(c)',
                      NEW l \in Held(b)', NEW m \in Held(c)'
               PROVE  Compatible(l, m)
    BY DEF Apart, Compatible
  <2>1. About(b) = About(c)
    BY <1>2, <1>3
  <2>2. CASE l \in Held(b) /\ m \in Held(c)
    BY <2>1, <2>2 DEF TxInv, Apart
  <2>3. CASE b = a /\ l = next
    BY <2>1, <2>3, <1>3, <1>5
  <2>4. CASE c = a /\ m = next
    BY <2>1, <2>4, <1>3, <1>5
  <2>5. QED
    BY <1>3, <1>4, <2>2, <2>3, <2>4
<1>7. TxTyped'
  <2>1. tx[a].locks \in Nat /\ Len(Wanted(a)) \in Nat
    BY LocksCounted, WantedCounted DEF TxInv
  <2>2. tx'[a].locks <= Len(Wanted(a))'
    BY <1>1, <1>2, <2>1
  <2>3. ASSUME NEW b \in Parties \ {a} PROVE tx'[b].locks <= Len(Wanted(b))'
    BY <1>3 DEF TxInv, TxTyped
  <2>4. QED
    BY <1>1, <2>2, <2>3 DEF TxTyped, StepOf
<1>8. Found'
  <2>1. ASSUME NEW b \in Parties \ {a} PROVE FoundBy(b)'
    BY <1>1, <1>3 DEF TxInv, Found, FoundBy, Present
  <2>2. tx[a].kind # "upload" /\ next.row = "document" => Present(About(a))
    BY <1>1 DEF LockRow, FindsNoDocument, Wants
  <2>3. FoundBy(a)'
    BY <1>1, <1>2, <1>4, <2>2 DEF TxInv, Found, FoundBy, Present
  <2>4. QED
    BY <2>1, <2>3 DEF Found
<1>9. Engaged'
  <2>1. ASSUME NEW w \in Workers, tx[w].kind = "fail_job" PROVE Away(workers[w].doc)'
    BY <1>1, <2>1 DEF TxInv, Engaged, WithoutDocument, Away, Present, PutBack
  <2>2. a \in Workers => WorkerEngaged(a)' /\ WithoutDocument(a)'
    <3> SUFFICES ASSUME a \in Workers PROVE WorkerEngaged(a)' /\ WithoutDocument(a)'
      OBVIOUS
    <3>1. tx[a].kind # "fail_job"
      <4> SUFFICES ASSUME tx[a].kind = "fail_job" PROVE FALSE
        OBVIOUS
      <4>1. Len(Wanted(a)) = 1
        BY HoldsOfJobFailure DEF TxInv
      <4>2. tx[a].locks = 1
        BY DEF TxInv, Engaged, WithoutDocument
      <4>3. tx[a].locks < 1
        BY <1>1, <4>1
      <4>4. QED
        BY <4>2, <4>3
    <3>2. tx[a].locks \in Nat
      BY LocksCounted DEF TxInv
    <3>3. tx'[a].kind = tx[a].kind /\ tx'[a].locks >= 1
      BY <1>1, <3>2
    <3>4. workers' = workers /\ blobs' = blobs
      BY <1>1
    <3>5. WorkerEngaged(a)
      BY DEF TxInv, Engaged
    <3>6. WorkerEngaged(a)'
      BY <3>3, <3>4, <3>5 DEF WorkerEngaged
    <3>7. QED
      BY <3>1, <3>3, <3>6 DEF WithoutDocument
  <2>3. QED
    BY <1>1, <2>1, <2>2, OthersEngaged DEF TxInv, Engaged
<1>10. QED
  BY <1>1, <1>6, <1>7, <1>8, <1>9 DEF TxKept

-------------------------------------------------------------------------------
(* A failure whose document is gone goes on with the job it holds. *)

LEMMA FailureGoesOn ==
    ASSUME TxInv, NEW w \in Workers, FailureFindsNoDocument(w)
    PROVE  [Next]_vars /\ TxKept
<1> USE DEF vars, docVars, httpVars, queueVars
<1>0. w \in Parties /\ About(w) = workers[w].doc
  BY WorkerAlone
<1>1. /\ StepOf(w)
      /\ tx'[w] = [kind |-> "fail_job", locks |-> tx[w].locks]
      /\ tx[w].kind = "fail" /\ FindsNoDocument(w)
      /\ UNCHANGED vars
  BY <1>0 DEF FailureFindsNoDocument, TxInv, TxTyped, StepOf, Kinds
<1>2. tx[w].locks = 1
  <2>1. /\ Wanted(w) = <<Lock("job", "update"), Lock("document", "update")>>
        /\ Len(Wanted(w)) = 2
        /\ tx[w].locks \in 0 .. 2
    BY <1>0, <1>1, HoldsOfReport DEF TxInv
  <2>2. tx[w].locks < 2 /\ Wanted(w)[tx[w].locks + 1].row = "document"
    BY <1>1, <2>1 DEF FindsNoDocument, Wants
  <2>3. Wanted(w)[0 + 1].row # "document"
    BY <2>1 DEF Lock
  <2>4. QED
    BY <2>1, <2>2, <2>3
<1>3. Held(w) = {Lock("job", "update")}
  BY <1>0, <1>1, <1>2, HoldsOfReport DEF TxInv
<1>4. Wanted(w)' = <<Lock("job", "update")>>
  BY <1>1 DEF Wanted
<1>5. Held(w)' = {Lock("job", "update")}
  <2>1. tx'[w].locks = 1
    BY <1>1, <1>2
  <2>2. 1 .. 1 = {1} /\ <<Lock("job", "update")>>[1] = Lock("job", "update")
    OBVIOUS
  <2>3. QED
    BY <1>4, <2>1, <2>2 DEF Held
<1>6. Keeps(w)
  <2>1. Len(Wanted(w)') = 1 /\ tx'[w].locks = 1
    BY <1>1, <1>2, <1>4
  <2>2. About(w)' = About(w)
    BY <1>1 DEF About
  <2>3. QED
    BY <1>1, <1>3, <1>5, <2>1, <2>2 DEF Keeps
<1>7. TxTyped' /\ Apart' /\ Found'
  BY <1>0, <1>1, <1>6, LocksDropped DEF Present
<1>8. ASSUME NEW v \in Workers, tx[v].kind = "fail_job" PROVE Away(workers[v].doc)'
  BY <1>1, <1>8 DEF TxInv, Engaged, WithoutDocument, Away, Present, PutBack
<1>9. WorkerEngaged(w)' /\ WithoutDocument(w)'
  <2>1. WorkerEngaged(w)'
    BY <1>1 DEF TxInv, Engaged, WorkerEngaged
  <2>2. ~Present(workers[w].doc)'
    BY <1>0, <1>1 DEF FindsNoDocument, Present
  <2>3. WithoutDocument(w)'
    BY <1>1, <1>2, <2>2 DEF WithoutDocument, Away
  <2>4. QED
    BY <2>1, <2>3
<1>10. Engaged'
  BY <1>0, <1>1, <1>8, <1>9, WorkerAlone, OthersEngaged
<1>11. QED
  BY <1>1, <1>7, <1>10 DEF TxKept

-------------------------------------------------------------------------------
(* A job is selected. *)

\* Job rows are only locked for update.
LEMMA JobLocks ==
    ASSUME TxInv, NEW a \in Parties, NEW l \in Held(a), l.row = "job"
    PROVE  l = Lock("job", "update")
<1>1. PICK i \in 1 .. tx[a].locks : l = Wanted(a)[i]
  BY DEF Held
<1>2. i \in 1 .. Len(Wanted(a))
  BY <1>1, LocksCounted, WantedCounted DEF TxInv
<1>3. ASSUME NEW j \in 1 .. Len(Wanted(a)), Wanted(a)[j].row = "job"
      PROVE  Wanted(a)[j] = Lock("job", "update")
  BY <1>3 DEF Wanted, ParseLocks, DeletionLocks, Lock
<1>4. QED
  BY <1>1, <1>2, <1>3

LEMMA Selects ==
    ASSUME TxInv, NEW w \in Workers, SelectForUpdate(w)
    PROVE  [Next]_vars /\ TxKept
<1> USE DEF vars, docVars, httpVars, queueVars
<1>0. w \in Parties /\ About(w) = workers[w].doc
  BY WorkerAlone
<1>1. PICK d \in Docs :
         /\ Claimable(d) /\ JobRowFree(d)
         /\ \A e \in ahead[d] : ~(Claimable(e) /\ JobRowFree(e))
         /\ workers' = [workers EXCEPT ![w] =
                            [pc |-> "claiming", doc |-> d, attempt |-> 0]]
  BY DEF SelectForUpdate
<1>2. /\ workers[w].pc = "idle"
      /\ tx' = [tx EXCEPT ![w] = [kind |-> "claim", locks |-> 1]]
      /\ UNCHANGED <<docVars, httpVars, queueVars, outbox, faults>>
  BY DEF SelectForUpdate
<1>3. StepOf(w) /\ tx'[w] = [kind |-> "claim", locks |-> 1]
      /\ workers'[w] = [pc |-> "claiming", doc |-> d, attempt |-> 0]
  BY <1>0, <1>1, <1>2 DEF TxInv, TxTyped, Coherent, TypeOK, StepOf, Kinds
<1>4. [Next]_vars
  <2>1. ASSUME NEW e \in ahead[d], Claimable(e) PROVE \E v \in Workers : Processing(v, e)
    <3>1. PICK a \in Parties : About(a) = e /\ Lock("job", "update") \in Held(a)
      BY <1>1, <2>1 DEF JobRowFree
    <3>2. a \in Workers /\ (Claiming(a, e) \/ Processing(a, e))
      BY <3>1, JobLockedByWorker
    <3>3. ~Claiming(a, e)
      BY <2>1, <3>2 DEF Claimable, RowLocked
    <3>4. QED
      BY <3>2, <3>3
  <2>2. SelectJob(w)
    BY <1>1, <1>2, <2>1 DEF SelectJob
  <2>3. QED
    BY <2>2 DEF Next, WorkerStep
<1>5. Held(w)' = {Lock("job", "update")}
  <2>1. Wanted(w)' = <<Lock("job", "update"), Lock("document", "update")>>
    BY <1>3 DEF Wanted
  <2>2. 1 .. 1 = {1} /\ Wanted(w)'[1] = Lock("job", "update")
    BY <2>1
  <2>3. QED
    BY <1>3, <2>2 DEF Held
<1>6. ASSUME NEW b \in Parties \ {w}
      PROVE  About(b)' = About(b) /\ Wanted(b)' = Wanted(b) /\ Held(b)' = Held(b)
             /\ tx'[b] = tx[b]
  <2>1. tx'[b] = tx[b] /\ About(b)' = About(b)
    BY <1>0, <1>3, OthersAbout DEF StepOf
  <2>2. Wanted(b)' = Wanted(b)
    BY <1>2, <2>1 DEF Wanted, ParseLocks, DeletionLocks
  <2>3. QED
    BY <2>1, <2>2 DEF Held
<1>7. ASSUME NEW b \in Parties \ {w}, About(b) = d, NEW m \in Held(b)
      PROVE  Compatible(Lock("job", "update"), m) /\ Compatible(m, Lock("job", "update"))
  <2>1. m.row # "job"
    BY <1>1, <1>7, JobLocks DEF JobRowFree
  <2>2. QED
    BY <2>1 DEF Compatible, Lock
<1>8. About(w)' = d
  BY <1>3, WorkerAlone
<1>9. Apart'
  <2> SUFFICES ASSUME NEW b \in Parties, NEW c \in Parties, b # c, About(b)' = About(c)',
                      NEW l \in Held(b)', NEW m \in Held(c)'
               PROVE  Compatible(l, m)
    BY DEF Apart, Compatible
  <2>1. CASE b # w /\ c # w
    BY <1>6, <2>1 DEF TxInv, Apart
  <2>2. CASE b = w
    BY <1>5, <1>6, <1>7, <1>8, <2>2
  <2>3. CASE c = w
    BY <1>5, <1>6, <1>7, <1>8, <2>3
  <2>4. QED
    BY <2>1, <2>2, <2>3
<1>10. TxTyped'
  <2>1. Wanted(w)' = <<Lock("job", "update"), Lock("document", "update")>>
    BY <1>3 DEF Wanted
  <2>2. Len(Wanted(w))' = 2
    BY <2>1
  <2>3. tx'[w].locks <= Len(Wanted(w))'
    BY <1>3, <2>2
  <2>4. ASSUME NEW b \in Parties \ {w} PROVE tx'[b].locks <= Len(Wanted(b))'
    BY <1>6 DEF TxInv, TxTyped
  <2>5. QED
    BY <1>3, <2>3, <2>4 DEF TxTyped, StepOf
<1>11. Found'
  <2>1. ASSUME NEW b \in Parties \ {w} PROVE FoundBy(b)'
    BY <1>2, <1>6 DEF TxInv, Found, FoundBy, Present
  <2>2. FoundBy(w)'
    BY <1>5 DEF FoundBy, Lock
  <2>3. QED
    BY <2>1, <2>2 DEF Found
<1>12. Engaged'
  <2>1. ASSUME NEW v \in Workers \ {w}, tx[v].kind = "fail_job" PROVE Away(workers[v].doc)'
    <3>1. workers'[v] = workers[v]
      BY <1>3 DEF StepOf
    <3>2. Away(workers[v].doc)
      BY <2>1 DEF TxInv, Engaged, WithoutDocument
    <3>3. QED
      BY <1>2, <3>1, <3>2 DEF Away, Present, PutBack
  <2>2. WorkerEngaged(w)' /\ WithoutDocument(w)'
    BY <1>3 DEF WorkerEngaged, WithoutDocument
  <2>3. QED
    BY <1>0, <1>2, <1>3, <2>1, <2>2, WorkerAlone, OthersEngaged
<1>13. QED
  BY <1>4, <1>9, <1>10, <1>11, <1>12 DEF TxKept

-------------------------------------------------------------------------------
(* Transactions that are given up. *)

\* A worker that goes idle, and leaves its tables as they are.
LEMMA WorkerGivesUp ==
    ASSUME TxInv, NEW w \in Workers, Leave(w), workers' = [workers EXCEPT ![w] = Idle],
           UNCHANGED <<docVars, httpVars>>
    PROVE  TxKept
<1> USE DEF docVars, httpVars
<1>0. w \in Parties /\ About(w) = workers[w].doc
  BY WorkerAlone
<1>1. workers'[w] = Idle /\ (\A v \in Workers \ {w} : workers'[v] = workers[v])
  BY DEF TxInv, Coherent, TypeOK
<1>2. StepOf(w) /\ Drops(w) /\ tx'[w] = [kind |-> "none", locks |-> 0]
  BY <1>0, <1>1, LeaveEnters, EnterSteps
<1>3. TxTyped' /\ Apart' /\ Found'
  BY <1>0, <1>2, LocksDropped DEF Present
<1>4. ASSUME NEW v \in Workers \ {w}, tx[v].kind = "fail_job" PROVE Away(workers[v].doc)'
  <2>1. Away(workers[v].doc)
    BY <1>4 DEF TxInv, Engaged, WithoutDocument
  <2>2. QED
    BY <1>1, <2>1 DEF Away, Present, PutBack
<1>5. WorkerEngaged(w)' /\ WithoutDocument(w)'
  BY <1>1, <1>2 DEF WorkerEngaged, WithoutDocument, Idle
<1>6. QED
  BY <1>0, <1>2, <1>3, <1>4, <1>5, WorkerAlone, OthersEngaged DEF TxKept

LEMMA GivesUp ==
    ASSUME TxInv,
           \/ \E w \in Workers : ClaimFindsNoDocument(w) \/ InterruptTx(w)
           \/ \E c \in Clients : UploadFails(c)
    PROVE  [Next]_vars /\ TxKept
<1>1. ASSUME NEW w \in Workers, ClaimFindsNoDocument(w) PROVE [Next]_vars /\ TxKept
  <2>1. AbortClaim(w)
    BY <1>1, WorkerAlone
       DEF ClaimFindsNoDocument, FindsNoDocument, AbortClaim, TxInv, Engaged, WorkerEngaged
  <2>2. TxKept
    BY <1>1, WorkerGivesUp DEF ClaimFindsNoDocument
  <2>3. QED
    BY <2>1, <2>2 DEF Next, WorkerStep
<1>2. ASSUME NEW w \in Workers, InterruptTx(w) PROVE [Next]_vars /\ TxKept
  <2>1. TxKept
    BY <1>2, WorkerGivesUp DEF InterruptTx, Interrupt
  <2>2. QED
    BY <1>2, <2>1 DEF InterruptTx, Next, WorkerStep
<1>3. ASSUME NEW c \in Clients, UploadFails(c) PROVE [Next]_vars /\ TxKept
  <2> USE DEF docVars
  <2>0. c \in Parties
    BY ClientAlone
  <2>1. /\ requests' = [requests EXCEPT ![c] = None]
        /\ UNCHANGED <<docVars, blobs, workers>>
        /\ Leave(c)
    BY <1>3 DEF UploadFails, AbandonUploadComplete
  <2>2. \A b \in Clients \ {c} : requests'[b] = requests[b]
    BY <2>1 DEF TxInv, Coherent, TypeOK
  <2>3. StepOf(c) /\ Drops(c) /\ tx'[c] = [kind |-> "none", locks |-> 0]
    BY <2>0, <2>1, <2>2, LeaveEnters, EnterSteps
  <2>4. TxTyped' /\ Apart' /\ Found'
    BY <2>0, <2>1, <2>3, LocksDropped DEF Present
  <2>5. ASSUME NEW v \in Workers, tx[v].kind = "fail_job" PROVE Away(workers[v].doc)'
    <3>1. Away(workers[v].doc)
      BY <2>5 DEF TxInv, Engaged, WithoutDocument
    <3>2. QED
      BY <2>1, <3>1 DEF Away, Present, PutBack
  <2>6. Engaged'
    BY <2>0, <2>1, <2>3, <2>5, ClientAlone, OthersEngaged
  <2>7. QED
    BY <1>3, <2>4, <2>6 DEF TxKept, UploadFails, Next, RequestStep
<1>4. QED
  BY <1>1, <1>2, <1>3

-------------------------------------------------------------------------------
(* Commits of the workers' transactions. *)

\* What a worker writes while it holds its job: nobody else is about to record a
\* failure of that job, and the document does not go.
LEMMA WorkerCommits ==
    ASSUME TxInv, NEW w \in Workers, NEW kind \in {"none", "fail"}, Enter(w, kind),
           Lock("job", "update") \in Held(w),
           NEW r, workers' = [workers EXCEPT ![w] = r],
           kind = "none" => r.pc # "claiming",
           kind = "fail" => r.pc = "failing",
           UNCHANGED <<requests, blobs>>,
           NEW s \in DocStatus \ {"none", "removed"},
           docs' = [docs EXCEPT ![workers[w].doc] = s] \/ UNCHANGED docs,
           \A e \in Docs : audit'[e]["deleted"] = audit[e]["deleted"],
           UNCHANGED artifacts \/
               (/\ {Lock("result", "update"), Lock("document", "update")} \subseteq Held(w)
                /\ artifacts' = artifacts \cup {workers[w].doc})
    PROVE  TxKept
<1> DEFINE d == workers[w].doc
<1>0. w \in Parties /\ About(w) = d
  BY WorkerAlone
<1>1. workers'[w] = r /\ (\A v \in Workers \ {w} : workers'[v] = workers[v])
  BY DEF TxInv, Coherent, TypeOK
<1>2. StepOf(w) /\ Drops(w) /\ tx'[w] = [kind |-> kind, locks |-> 0]
  BY <1>0, <1>1, EnterSteps DEF Kinds
<1>3. d \in Docs
  <2>1. tx[w].kind # "none"
    BY <1>0, HoldsOfNone DEF TxInv
  <2>2. QED
    BY <1>0, <2>1, HolderHasDocument
<1>4. \A e \in Docs : Present(e) => Present(e)'
  BY <1>3 DEF Present, TxInv, Coherent, TypeOK
<1>5. ASSUME NEW b \in Parties \ {w}, tx[b].locks # 0, tx[b].kind \in {"complete", "delete"}
      PROVE  About(b) \in artifacts' <=> About(b) \in artifacts
  <2> SUFFICES ASSUME About(b) = d, artifacts' # artifacts PROVE FALSE
    OBVIOUS
  <2>1. {Lock("result", "update"), Lock("document", "update")} \subseteq Held(w)
    OBVIOUS
  <2>2. tx[b].locks >= 1
    BY <1>5, LocksCounted DEF TxInv
  <2>3. CASE tx[b].kind = "delete"
    <3>1. Lock("document", "delete") \in Held(b)
      BY <2>2, <2>3, HoldsOfDeletion DEF TxInv
    <3>2. Lock("document", "update").row = "document"
      BY DEF Lock
    <3>3. QED
      BY <1>0, <2>1, <3>1, <3>2, DeletesAlone DEF TxInv
  <2>4. CASE tx[b].kind = "complete"
    <3>1. Lock("result", "update") \in Held(b)
      BY <2>2, <2>4, HoldsOfComplete DEF TxInv
    <3>2. QED
      BY <1>0, <2>1, <3>1, OneHolder DEF TxInv
  <2>5. QED
    BY <1>5, <2>3, <2>4
<1>6. TxTyped' /\ Apart' /\ Found'
  <2>1. ASSUME NEW b \in Parties, NEW l \in Held(b), l.row = "document", Present(About(b))
        PROVE  Present(About(b))' \/ Drops(b)
    <3>1. tx[b].kind # "none"
      BY HoldsOfNone DEF TxInv
    <3>2. About(b) \in Docs
      BY <3>1, HolderHasDocument
    <3>3. b # w => About(b)' = About(b)
      BY <1>0, <1>2, OthersAbout
    <3>4. QED
      BY <1>2, <1>4, <2>1, <3>2, <3>3 DEF Present
  <2>2. QED
    BY <1>0, <1>2, <1>5, <2>1, LocksInOrder
<1>7. ASSUME NEW v \in Workers \ {w}, tx[v].kind = "fail_job" PROVE Away(workers[v].doc)'
  <2>1. v \in Parties /\ About(v) = workers[v].doc
    BY WorkerAlone
  <2>2. Away(workers[v].doc) /\ Lock("job", "update") \in Held(v)
    BY <1>7, <2>1, HoldsOfJobFailure DEF TxInv, Engaged, WithoutDocument
  <2>3. workers[v].doc # d
    BY <1>0, <2>1, <2>2, OneHolder DEF TxInv
  <2>4. workers[v].doc \in Docs
    BY <1>7, <2>1, HolderHasDocument
  <2>5. docs'[workers[v].doc] = docs[workers[v].doc]
    BY <2>3, <2>4 DEF TxInv, Coherent, TypeOK
  <2>6. QED
    BY <1>1, <2>2, <2>4, <2>5 DEF Away, Present, PutBack
<1>8. WorkerEngaged(w)' /\ WithoutDocument(w)'
  BY <1>1, <1>2 DEF WorkerEngaged, WithoutDocument
<1>9. QED
  BY <1>0, <1>2, <1>6, <1>7, <1>8, WorkerAlone, OthersEngaged DEF TxKept

\* A report that holds its locks holds its job, and its document if it found it.
LEMMA ReportReady ==
    ASSUME TxInv, NEW w \in Workers, NEW kind \in {"claim", "fail"}, Ready(w, kind)
    PROVE  /\ Lock("job", "update") \in Held(w)
           /\ Present(workers[w].doc)
<1>0. w \in Parties /\ About(w) = workers[w].doc
  BY WorkerAlone
<1>1. Len(Wanted(w)) = 2 /\ tx[w].kind = kind
  BY <1>0, HoldsOfReport DEF Ready, TxInv
<1>2. tx[w].locks = 2
  BY <1>1 DEF Ready
<1>3. Lock("job", "update") \in Held(w) /\ Lock("document", "update") \in Held(w)
  BY <1>0, <1>1, <1>2, HoldsOfReport DEF TxInv
<1>4. QED
  BY <1>0, <1>1, <1>3 DEF TxInv, Found, FoundBy, Lock

LEMMA ClaimIsOneStep ==
    ASSUME TxInv, NEW w \in Workers, ClaimCommits(w)
    PROVE  [Next]_vars /\ TxKept
<1> DEFINE d == workers[w].doc
<1>1. Ready(w, "claim") /\ tx[w].kind = "claim"
  BY DEF ClaimCommits, Ready
<1>2. Lock("job", "update") \in Held(w) /\ Present(d)
  BY <1>1, ReportReady
<1>3. workers[w].pc = "claiming" /\ d \in Docs
  <2>1. workers[w].pc = "claiming"
    BY <1>1 DEF TxInv, Engaged, WorkerEngaged
  <2>2. QED
    BY <2>1 DEF TxInv, Coherent, Actors, WorkerHasJob
<1>4. jobs'[d].attempts = jobs[d].attempts + 1
  BY <1>3 DEF ClaimCommits, TxInv, Coherent, TypeOK
<1>5. CommitClaim(w)
  BY <1>2, <1>3, <1>4 DEF ClaimCommits, CommitClaim
<1>6. TxKept
  <2>1. Enter(w, "none") /\ Lock("job", "update") \in Held(w)
    BY <1>2, LeaveEnters DEF ClaimCommits
  <2>2. /\ workers' = [workers EXCEPT ![w] =
                        [pc |-> "working", doc |-> d, attempt |-> jobs'[d].attempts]]
        /\ docs' = [docs EXCEPT ![d] = "processing"]
        /\ UNCHANGED <<requests, blobs, artifacts, audit>>
    BY DEF ClaimCommits, httpVars
  <2>3. "processing" \in DocStatus \ {"none", "removed"}
    BY DEF DocStatus
  <2>4. \A e \in Docs : audit'[e]["deleted"] = audit[e]["deleted"]
    BY <2>2
  <2>5. QED
    BY <2>1, <2>2, <2>3, <2>4, WorkerCommits
<1>7. QED
  BY <1>5, <1>6 DEF Next, WorkerStep

\* A completion that holds its locks commits the parse, and keeps them in order.
LEMMA ParseReady ==
    ASSUME TxInv, NEW w \in Workers, Ready(w, "complete"), ParseShows(w)
    PROVE  /\ workers[w].pc = "working"
           /\ CommitParse(w, workers[w].doc)
           /\ {Lock("result", "update"), Lock("document", "update"), Lock("job", "update")}
                  \subseteq Held(w)
<1> DEFINE d == workers[w].doc
<1>0. w \in Parties /\ About(w) = d /\ tx[w].kind = "complete"
  BY WorkerAlone DEF Ready
<1>1. workers[w].pc = "working" /\ KeyOf[d] \in blobs
  BY <1>0 DEF TxInv, Engaged, WorkerEngaged
<1>2. {Lock("document", "update"), Lock("job", "update")} \subseteq Held(w)
  BY <1>0, HoldsOfComplete DEF Ready, TxInv
<1>3. Lock("result", "update") \in Held(w)
  <2>1. tx[w].locks # 0
    BY <1>0, <1>2, HoldsNothing
  <2>2. tx[w].locks >= 1
    BY <1>0, <2>1, LocksCounted DEF TxInv
  <2>3. QED
    BY <1>0, <2>2, HoldsOfComplete DEF TxInv
<1>4. Present(d)
  BY <1>0, <1>2 DEF TxInv, Found, FoundBy, Lock
<1>5. ~RowLocked(d)
  BY <1>0, <1>2, ClaimerHoldsJob
<1>6. RawChecksum(d)
  <2>1. d \in Docs
    BY <1>1 DEF TxInv, Coherent, Actors, WorkerHasJob
  <2>2. storage[KeyOf[d]].owner = d
    BY <1>4, <2>1, PartiesAssumption
       DEF TxInv, Coherent, Records, ObjectOwned, Unshared, Present
  <2>3. storage' = [storage EXCEPT ![KeyOf[d]].checksum = TRUE]
    BY DEF ParseShows
  <2>4. storage' = [storage EXCEPT ![KeyOf[d]].checksum = @ \/ storage[KeyOf[d]].owner = d]
    BY <2>2, <2>3
  <2>5. QED
    BY <2>4 DEF RawChecksum
<1>7. CommitParse(w, d)
  BY <1>1, <1>4, <1>5, <1>6 DEF ParseShows, CommitParse
<1>8. QED
  BY <1>1, <1>2, <1>3, <1>7

LEMMA ParseIsOneStep ==
    ASSUME TxInv, NEW w \in Workers, ParseCommits(w) \/ ParseCommitsUnheard(w)
    PROVE  [Next]_vars /\ TxKept
<1> DEFINE d == workers[w].doc
<1>1. Ready(w, "complete") /\ ParseShows(w)
  BY DEF ParseCommits, ParseCommitsUnheard
<1>2. /\ workers[w].pc = "working"
      /\ CommitParse(w, d)
      /\ Lock("job", "update") \in Held(w)
      /\ {Lock("result", "update"), Lock("document", "update")} \subseteq Held(w)
  BY <1>1, ParseReady
<1>3. /\ docs' = [docs EXCEPT ![d] = "parsed"]
      /\ artifacts' = artifacts \cup {d}
      /\ "parsed" \in DocStatus \ {"none", "removed"}
      /\ \A e \in Docs : audit'[e]["deleted"] = audit[e]["deleted"]
  <2>1. audit' = [audit EXCEPT ![d]["parsed"] = @ + 1]
    BY <1>1 DEF ParseShows, Audit
  <2>2. \A e \in Docs : audit'[e]["deleted"] = audit[e]["deleted"]
    BY <2>1 DEF TxInv, Coherent, TypeOK, AuditActions
  <2>3. QED
    BY <1>1, <2>2 DEF ParseShows, DocStatus
<1>4. CASE ParseCommits(w)
  <2>1. CompleteParseJob(w)
    BY <1>2, <1>4 DEF ParseCommits, CompleteParseJob
  <2>2. /\ workers' = [workers EXCEPT ![w] = Idle] /\ Idle.pc # "claiming"
        /\ UNCHANGED <<requests, blobs>>
        /\ Enter(w, "none")
    BY <1>4, LeaveEnters DEF ParseCommits, httpVars, Idle
  <2>3. TxKept
    BY <1>2, <1>3, <2>2, WorkerCommits
  <2>4. QED
    BY <2>1, <2>3 DEF Next, WorkerStep
<1>5. CASE ParseCommitsUnheard(w)
  <2>1. CompleteUnacknowledged(w)
    BY <1>2, <1>5 DEF ParseCommitsUnheard, CompleteUnacknowledged
  <2> DEFINE r == [workers[w] EXCEPT !.pc = "failing"]
  <2>2. /\ workers' = [workers EXCEPT ![w] = r] /\ r.pc = "failing"
        /\ UNCHANGED <<requests, blobs>>
        /\ Enter(w, "fail")
    BY <1>5 DEF ParseCommitsUnheard, httpVars, TxInv, Coherent, TypeOK
  <2> HIDE DEF r
  <2>3. TxKept
    BY <1>2, <1>3, <2>2, WorkerCommits
  <2>4. QED
    BY <2>1, <2>3 DEF Next, WorkerStep
<1>6. QED
  BY <1>4, <1>5

LEMMA FailureIsOneStep ==
    ASSUME TxInv, NEW w \in Workers, FailureCommits(w)
    PROVE  [Next]_vars /\ TxKept
<1> DEFINE d == workers[w].doc
           s == IF Exhausted(workers[w].attempt) THEN "failed" ELSE "queued"
<1>0. w \in Parties /\ About(w) = d
  BY WorkerAlone
<1>1. workers[w].pc \in {"working", "failing"}
  BY DEF FailureCommits, Ready, TxInv, Engaged, WorkerEngaged
<1>2. /\ Lock("job", "update") \in Held(w)
      /\ tx[w].kind # "claim"
      /\ \/ Present(d) /\ docs' = [docs EXCEPT ![d] = s]
         \/ Away(d) /\ UNCHANGED docs
  <2>1. CASE Ready(w, "fail") /\ docs' = [docs EXCEPT ![d] = s]
    BY <2>1, ReportReady DEF Ready
  <2>2. CASE Ready(w, "fail_job") /\ UNCHANGED docs
    <3>1. tx[w].kind = "fail_job"
      BY <2>2 DEF Ready
    <3>2. tx[w].locks = 1 /\ Away(d)
      BY <3>1 DEF TxInv, Engaged, WithoutDocument
    <3>3. QED
      BY <1>0, <2>2, <3>1, <3>2, HoldsOfJobFailure DEF TxInv
  <2>3. QED
    BY <2>1, <2>2 DEF FailureCommits
<1>3. ~RowLocked(d)
  BY <1>0, <1>2, ClaimerHoldsJob
<1>4. RecordJobFailure(w)
  BY <1>1, <1>2, <1>3 DEF FailureCommits, RecordJobFailure, Away
<1>5. TxKept
  <2>1. /\ Enter(w, "none") /\ workers' = [workers EXCEPT ![w] = Idle]
        /\ Idle.pc # "claiming"
        /\ UNCHANGED <<requests, blobs, artifacts, audit>>
    BY LeaveEnters DEF FailureCommits, httpVars, Idle
  <2>2. s \in DocStatus \ {"none", "removed"}
    BY DEF DocStatus
  <2>3. \A e \in Docs : audit'[e]["deleted"] = audit[e]["deleted"]
    BY <2>1
  <2>4. docs' = [docs EXCEPT ![d] = s] \/ UNCHANGED docs
    BY <1>2
  <2> HIDE DEF s
  <2>5. QED
    BY <1>2, <2>1, <2>2, <2>3, <2>4, WorkerCommits
<1>6. QED
  BY <1>4, <1>5 DEF Next, WorkerStep

-------------------------------------------------------------------------------
(* Commits of the requests' transactions. *)

LEMMA UploadIsOneStep ==
    ASSUME TxInv, NEW c \in Clients, UploadCommits(c)
    PROVE  [Next]_vars /\ TxKept
<1> DEFINE d == requests[c]
<1>0. c \in Parties /\ c \notin Workers /\ c \notin Deletable
  BY ClientAlone
<1>1. d # None
  BY DEF UploadCommits, Ready, TxInv, Engaged
<1>2. d \in Docs /\ d \in UploadDocs
  BY <1>1 DEF TxInv, Coherent, TypeOK, Actors, RequestVerified
<1>3. FinishUploadComplete(c)
  BY <1>1 DEF UploadCommits, FinishUploadComplete
<1>4. /\ docs' = [docs EXCEPT ![d] = "queued"]
      /\ requests' = [requests EXCEPT ![c] = None]
      /\ Audit(d, "uploaded")
      /\ Leave(c)
      /\ UNCHANGED <<artifacts, blobs, workers>>
  BY DEF UploadCommits
<1>5. \A b \in Clients \ {c} : requests'[b] = requests[b]
  BY <1>4 DEF TxInv, Coherent, TypeOK
<1>6. StepOf(c) /\ Drops(c) /\ tx'[c] = [kind |-> "none", locks |-> 0]
  BY <1>0, <1>4, <1>5, LeaveEnters, EnterSteps
<1>7. \A e \in Docs : docs'[e] = IF e = d THEN "queued" ELSE docs[e]
  BY <1>4 DEF TxInv, Coherent, TypeOK
<1>8. TxTyped' /\ Apart' /\ Found'
  BY <1>0, <1>4, <1>6, <1>7, LocksDropped DEF Present
<1>9. ASSUME NEW v \in Workers, tx[v].kind = "fail_job" PROVE Away(workers[v].doc)'
  <2>1. workers[v].doc \in Docs /\ jobs[workers[v].doc].status # "none"
    BY <1>9 DEF TxInv, Engaged, WorkerEngaged, Coherent, Actors, WorkerHasJob
  <2>2. Away(workers[v].doc)
    BY <1>9 DEF TxInv, Engaged, WithoutDocument
  <2>3. \A e \in Docs : /\ audit'[e]["deleted"] \in Nat
                        /\ audit'[e]["deleted"] >= audit[e]["deleted"]
    BY <1>2, <1>4, AuditGrows DEF AuditActions, TxInv, Coherent
  <2>4. PICK e \in Docs : e = workers[v].doc
    BY <2>1
  <2>5. docs'[e] \in {docs[e], "removed"} \/ (docs'[e] = "queued" /\ e \in UploadDocs)
    BY <1>2, <1>7, <2>4
  <2>6. Away(e)'
    BY <2>1, <2>2, <2>3, <2>4, <2>5, StaysAway
  <2>7. QED
    BY <1>4, <2>4, <2>6
<1>10. Engaged'
  BY <1>0, <1>4, <1>6, <1>9, OthersEngaged
<1>11. QED
  BY <1>3, <1>8, <1>10 DEF TxKept, Next, RequestStep

LEMMA DeletionIsOneStep ==
    ASSUME TxInv, NEW d \in Deletable, DeletionCommits(d)
    PROVE  [Next]_vars /\ TxKept
<1>0. d \in Parties /\ d \in Docs /\ d \notin Workers /\ d \notin Clients /\ About(d) = d
  BY DeletionAlone
<1>1. tx[d].kind = "delete" /\ tx[d].locks = Len(Wanted(d)) /\ Ready(d, "delete")
  BY DEF DeletionCommits, Ready
<1>2. Lock("document", "delete") \in Held(d)
      /\ (d \in artifacts => Lock("result", "update") \in Held(d))
  BY <1>0, <1>1, HoldsOfDeletion DEF TxInv
<1>3. Present(d)
  BY <1>0, <1>1, <1>2 DEF TxInv, Found, FoundBy, Lock
<1>4. DeleteDocument(d)
  BY <1>3 DEF DeletionCommits, DeleteDocument
<1>5. /\ docs' = [docs EXCEPT ![d] = "removed"]
      /\ artifacts' = artifacts \ {d}
      /\ Audit(d, "deleted")
      /\ Leave(d)
      /\ UNCHANGED <<requests, blobs, workers>>
  BY DEF DeletionCommits, httpVars
<1>6. StepOf(d) /\ Drops(d) /\ tx'[d] = [kind |-> "none", locks |-> 0]
  BY <1>0, <1>5, LeaveEnters, EnterSteps
<1>7. \A e \in Docs : docs'[e] = IF e = d THEN "removed" ELSE docs[e]
  BY <1>5 DEF TxInv, Coherent, TypeOK
<1>8. ASSUME NEW b \in Parties \ {d}, tx[b].locks # 0, tx[b].kind \in {"complete", "delete"}
      PROVE  About(b) \in artifacts' <=> About(b) \in artifacts
  <2> SUFFICES ASSUME About(b) = d, d \in artifacts PROVE FALSE
    BY <1>5
  <2>1. tx[b].locks >= 1
    BY <1>8, LocksCounted DEF TxInv
  <2>2. CASE tx[b].kind = "delete"
    <3>1. Lock("document", "delete") \in Held(b) /\ Lock("document", "delete").row = "document"
      BY <2>1, <2>2, HoldsOfDeletion DEF TxInv, Lock
    <3>2. QED
      BY <1>0, <1>2, <3>1, DeletesAlone DEF TxInv
  <2>3. CASE tx[b].kind = "complete"
    <3>1. Lock("result", "update") \in Held(b)
      BY <2>1, <2>3, HoldsOfComplete DEF TxInv
    <3>2. QED
      BY <1>0, <1>2, <3>1, OneHolder DEF TxInv
  <2>4. QED
    BY <1>8, <2>2, <2>3
<1>9. ASSUME NEW b \in Parties, NEW l \in Held(b), l.row = "document", Present(About(b))
      PROVE  Present(About(b))' \/ Drops(b)
  <2>1. CASE b = d
    BY <1>6, <2>1
  <2>2. CASE b # d
    <3>1. About(b) # d
      BY <1>0, <1>2, <1>9, <2>2, DeletesAlone DEF TxInv
    <3>2. About(b) \in Docs
      BY HoldsOfNone, HolderHasDocument DEF TxInv
    <3>3. About(b)' = About(b)
      BY <1>6, <2>2, OthersAbout
    <3>4. QED
      BY <1>7, <1>9, <3>1, <3>2, <3>3 DEF Present
  <2>3. QED
    BY <2>1, <2>2
<1>10. TxTyped' /\ Apart' /\ Found'
  BY <1>0, <1>6, <1>8, <1>9, LocksInOrder
<1>11. ASSUME NEW v \in Workers, tx[v].kind = "fail_job" PROVE Away(workers[v].doc)'
  <2>1. workers[v].doc \in Docs /\ jobs[workers[v].doc].status # "none"
    BY <1>11 DEF TxInv, Engaged, WorkerEngaged, Coherent, Actors, WorkerHasJob
  <2>2. Away(workers[v].doc)
    BY <1>11 DEF TxInv, Engaged, WithoutDocument
  <2>3. \A e \in Docs : /\ audit'[e]["deleted"] \in Nat
                        /\ audit'[e]["deleted"] >= audit[e]["deleted"]
    BY <1>0, <1>5, AuditGrows DEF AuditActions, TxInv, Coherent
  <2>4. PICK e \in Docs : e = workers[v].doc
    BY <2>1
  <2>5. docs'[e] \in {docs[e], "removed"}
    BY <1>7, <2>4
  <2>6. Away(e)'
    BY <2>1, <2>2, <2>3, <2>4, <2>5, StaysAway
  <2>7. QED
    BY <1>5, <2>4, <2>6
<1>12. Engaged'
  BY <1>0, <1>5, <1>6, <1>11, OthersEngaged
<1>13. QED
  BY <1>0, <1>4, <1>10, <1>12 DEF TxKept, Next, RequestStep

-------------------------------------------------------------------------------
(* The steps that have no transaction of their own here. *)

LEMMA PipelineStepsKeep ==
    ASSUME TxInv, PipelineStep
    PROVE  [Next]_vars /\ TxKept
<1> USE DEF docVars, httpVars, queueVars
<1>1. [Next]_vars
  BY DEF PipelineStep, Next, RequestStep
<1>2. /\ UNCHANGED <<tx, workers, artifacts>>
      /\ blobs \subseteq blobs'
      /\ \A e \in Docs : docs'[e] = docs[e] \/ (docs[e] = "none" /\ Present(e)')
      /\ \A e \in Docs : audit'[e]["deleted"] = audit[e]["deleted"]
      /\ \A c \in Clients : requests[c] # None => requests'[c] = requests[c]
  <2> USE DEF TxInv, Coherent, TypeOK, Present, AuditActions
  <2>1. ASSUME NEW d \in Docs, CreateDocument(d) \/ RequestDocumentUpload(d) PROVE <1>2
    <3>1. PICK act \in {"uploaded", "upload_requested"} : Audit(d, act)
      BY <2>1 DEF CreateDocument, RequestDocumentUpload
    <3>2. PICK s \in {"queued", "upload_pending"} : docs' = [docs EXCEPT ![d] = s]
      BY <2>1 DEF CreateDocument, RequestDocumentUpload
    <3>3. docs[d] = "none" /\ UNCHANGED <<workers, artifacts, blobs, requests>>
      BY <2>1 DEF CreateDocument, RequestDocumentUpload
    <3>4. \A e \in Docs : docs'[e] = docs[e] \/ (docs[e] = "none" /\ Present(e)')
      BY <3>2, <3>3
    <3>5. \A e \in Docs : audit'[e]["deleted"] = audit[e]["deleted"]
      BY <3>1 DEF Audit
    <3>6. QED
      BY <3>3, <3>4, <3>5 DEF PipelineStep
  <2>2. ASSUME NEW d \in Docs, PutBlob(d) PROVE <1>2
    BY <2>2 DEF PutBlob, PipelineStep
  <2>3. ASSUME NEW d \in Docs, PublishNextOutboxEvent(d) PROVE <1>2
    BY <2>3 DEF PublishNextOutboxEvent, PipelineStep
  <2>4. ASSUME NEW d \in Docs, ClockStep(d) PROVE <1>2
    BY <2>4 DEF ClockStep, LeaseRunsOut, LeaseOverrun, BecomeAvailable, PipelineStep
  <2>5. ASSUME NEW c \in Clients, NEW d \in Docs, BeginUploadComplete(c, d) PROVE <1>2
    BY <2>5 DEF BeginUploadComplete, PipelineStep
  <2>6. QED
    BY <2>1, <2>2, <2>3, <2>4, <2>5 DEF PipelineStep
<1>3. ASSUME NEW b \in Parties PROVE Keeps(b) \/ Drops(b)
  <2>1. CASE tx[b].kind = "none"
    <3>1. tx[b].locks = 0
      BY <2>1, HoldsOfNone DEF TxInv
    <3>2. QED
      BY <1>2, <3>1 DEF Drops
  <2>2. CASE tx[b].kind # "none"
    <3>1. About(b)' = About(b)
      BY <1>2, <2>2 DEF About, Parties, TxInv, Engaged
    <3>2. QED
      BY <1>2, <3>1, KeepsOrDrops DEF TxInv
  <2>3. QED
    BY <2>1, <2>2
<1>4. TxTyped' /\ Apart'
  <2>1. tx' \in [Parties -> [kind : Kinds, locks : Nat]]
    BY <1>2 DEF TxInv, TxTyped
  <2>2. QED
    BY <1>3, <2>1, LocksKept DEF TxInv
<1>5. Found'
  <2>1. ASSUME NEW b \in Parties, NEW l \in Held(b), Keeps(b), Present(About(b))
        PROVE  Present(About(b))'
    <3>1. About(b) \in Docs
      BY HoldsOfNone, HolderHasDocument DEF TxInv
    <3>2. QED
      BY <1>2, <2>1, <3>1 DEF Keeps, Present
  <2>2. QED
    BY <1>3, <2>1, FoundKept DEF TxInv
<1>6. Engaged'
  <2>1. ASSUME NEW w \in Workers PROVE WorkerEngaged(w)' /\ WithoutDocument(w)'
    <3>1. WorkerEngaged(w) /\ WithoutDocument(w)
      BY DEF TxInv, Engaged
    <3>2. WorkerEngaged(w)'
      BY <1>2, <3>1 DEF WorkerEngaged
    <3>3. WithoutDocument(w)'
      <4> SUFFICES ASSUME tx[w].kind = "fail_job" PROVE Away(workers[w].doc)'
        BY <1>2, <3>1 DEF WithoutDocument
      <4> DEFINE d == workers[w].doc
      <4>1. d \in Docs /\ jobs[d].status # "none"
        BY <3>1 DEF WorkerEngaged, TxInv, Coherent, Actors, WorkerHasJob
      <4>2. docs[d] # "none"
        BY <4>1 DEF TxInv, Coherent, Records, DocumentFollowsJob
      <4>3. Away(d)
        BY <3>1 DEF WithoutDocument
      <4>4. QED
        BY <1>2, <4>1, <4>2, <4>3 DEF Away, Present, PutBack
    <3>4. QED
      BY <3>2, <3>3
  <2>2. QED
    BY <1>2, <2>1 DEF TxInv, Engaged
<1>7. QED
  BY <1>1, <1>4, <1>5, <1>6 DEF TxKept

-------------------------------------------------------------------------------
(* The invariant holds, and every step is one of the pipeline's. *)

LEMMA BuriedInductive ==
    ASSUME Coherent, Buried, [Next]_vars
    PROVE  Buried'
<1> USE DEF vars, docVars, httpVars, queueVars
<1> USE DEF Coherent, TypeOK, AuditActions
<1>1. CASE UNCHANGED <<docs, audit>>
  BY <1>1 DEF Buried
<1>2. ASSUME NEW d \in Docs, NEW s \in DocStatus \ {"removed"}, NEW act \in AuditActions,
             docs' = [docs EXCEPT ![d] = s], Audit(d, act)
      PROVE  Buried'
  BY <1>2 DEF Buried, Audit
<1>3. ASSUME NEW d \in Docs, NEW s \in DocStatus \ {"removed"},
             docs' = [docs EXCEPT ![d] = s], UNCHANGED audit
      PROVE  Buried'
  BY <1>3 DEF Buried
<1>4. ASSUME NEW d \in Docs, DeleteDocument(d) PROVE Buried'
  BY <1>4 DEF Buried, DeleteDocument, Audit
<1>5. CASE RequestStep
  <2>1. ASSUME NEW d \in Docs, CreateDocument(d) PROVE Buried'
    BY <2>1, <1>2 DEF CreateDocument, DocStatus
  <2>2. ASSUME NEW d \in Docs, RequestDocumentUpload(d) PROVE Buried'
    BY <2>2, <1>2 DEF RequestDocumentUpload, DocStatus
  <2>3. ASSUME NEW c \in Clients, FinishUploadComplete(c) PROVE Buried'
    <3>1. requests[c] \in Docs
      BY <2>3 DEF FinishUploadComplete
    <3>2. QED
      BY <2>3, <3>1, <1>2 DEF FinishUploadComplete, DocStatus
  <2>4. QED
    BY <1>1, <1>4, <1>5, <2>1, <2>2, <2>3
       DEF RequestStep, PutBlob, BeginUploadComplete, AbandonUploadComplete
<1>6. ASSUME NEW w \in Workers, WorkerStep(w) PROVE Buried'
  <2> DEFINE d == workers[w].doc
  <2>1. workers[w].pc # "idle" => d \in Docs
    BY DEF Actors, WorkerHasJob
  <2>2. CASE CommitClaim(w)
    BY <2>1, <2>2, <1>3 DEF CommitClaim, DocStatus
  <2>3. CASE CompleteParseJob(w) \/ CompleteUnacknowledged(w)
    <3>1. d \in Docs /\ docs' = [docs EXCEPT ![d] = "parsed"] /\ Audit(d, "parsed")
      BY <2>1, <2>3 DEF CompleteParseJob, CompleteUnacknowledged, CommitParse
    <3>2. QED
      BY <3>1, <1>2 DEF DocStatus
  <2>4. CASE RecordJobFailure(w)
    <3>1. d \in Docs /\ UNCHANGED audit
      BY <2>1, <2>4 DEF RecordJobFailure
    <3>2. UNCHANGED docs \/ \E s \in {"failed", "queued"} : docs' = [docs EXCEPT ![d] = s]
      BY <2>4 DEF RecordJobFailure
    <3>3. QED
      BY <3>1, <3>2, <1>1, <1>3 DEF DocStatus
  <2>5. QED
    BY <1>1, <1>6, <2>2, <2>3, <2>4 DEF WorkerStep, SelectJob, AbortClaim, Interrupt
<1>7. ASSUME NEW d \in Docs, PublishNextOutboxEvent(d) \/ ClockStep(d) PROVE Buried'
  BY <1>1, <1>7 DEF PublishNextOutboxEvent, ClockStep, LeaseRunsOut, LeaseOverrun, BecomeAvailable
<1>8. QED
  BY <1>1, <1>5, <1>6, <1>7 DEF Next

LEMMA TxInitial == TxInit => TxInv
<1> SUFFICES ASSUME TxInit PROVE TxInv
  OBVIOUS
<1>1. Coherent
  BY CoherentInitial DEF TxInit
<1>2. \A a \in Parties : tx[a] = [kind |-> "none", locks |-> 0]
  BY DEF TxInit, NoTx
<1>3. \A a \in Parties : Wanted(a) = <<>> /\ Held(a) = {}
  BY <1>2 DEF Wanted, Held
<1>4. TxTyped
  BY <1>2, <1>3 DEF TxInit, TxTyped, NoTx, Kinds
<1>5. Engaged
  BY <1>2 DEF TxInit, Init, Engaged, WorkerEngaged, WithoutDocument, Idle, Parties
<1>6. Apart /\ Found
  BY <1>3 DEF Apart, Found, FoundBy
<1>7. Buried
  BY DEF TxInit, Init, Buried
<1>8. QED
  BY <1>1, <1>4, <1>5, <1>6, <1>7 DEF TxInv

\* A step keeps the invariant, and is a step of DocumentPipeline or none.
LEMMA TxSteps == TxInv /\ [TxNext]_txVars => TxInv' /\ [Next]_vars
<1> SUFFICES ASSUME TxInv, [TxNext]_txVars PROVE TxInv' /\ [Next]_vars
  OBVIOUS
<1>1. CASE UNCHANGED txVars
  <2>1. UNCHANGED <<vars, tx>>
    BY <1>1 DEF txVars
  <2>2. [Next]_vars
    BY <2>1
  <2>3. UNCHANGED <<docs, audit, artifacts, workers, requests, blobs>>
    BY <2>1 DEF vars, docVars, httpVars
  <2>4. \A a \in Parties : UNCHANGED <<Wanted(a), Held(a), About(a)>>
    BY <2>1, <2>3 DEF Wanted, Held, About, ParseLocks, DeletionLocks
  <2>5. TxTyped'
    BY <2>1, <2>4 DEF TxInv, TxTyped
  <2>6. Apart'
    BY <2>4 DEF TxInv, Apart
  <2>7. Found'
    BY <2>1, <2>3, <2>4 DEF TxInv, Found, FoundBy, Present
  <2>8. Engaged'
    <3>1. \A w \in Workers : WorkerEngaged(w)'
      BY <2>1, <2>3 DEF TxInv, Engaged, WorkerEngaged
    <3>2. \A w \in Workers : WithoutDocument(w)'
      BY <2>1, <2>3 DEF TxInv, Engaged, WithoutDocument, Away, Present, PutBack
    <3>3. QED
      BY <2>1, <2>3, <3>1, <3>2 DEF TxInv, Engaged
  <2>9. QED
    BY <2>2, <2>5, <2>6, <2>7, <2>8, CoherentInductive, BuriedInductive DEF TxInv
<1>2. CASE TxNext
  <2>1. ASSUME PipelineStep PROVE [Next]_vars /\ TxKept
    BY <2>1, PipelineStepsKeep
  <2>2. ASSUME NEW a \in Parties, LockRow(a) PROVE [Next]_vars /\ TxKept
    BY <2>2, LockGranted
  <2>3. ASSUME NEW w \in Workers, WorkerTxStep(w) PROVE [Next]_vars /\ TxKept
    BY <2>3, Selects, ClaimIsOneStep, GivesUp, BeginsAndFailures, ParseIsOneStep,
       FailureGoesOn, FailureIsOneStep DEF WorkerTxStep
  <2>4. ASSUME NEW c \in Clients, BeginUploadTx(c) \/ UploadCommits(c) \/ UploadFails(c)
        PROVE  [Next]_vars /\ TxKept
    BY <2>4, BeginsAndFailures, UploadIsOneStep, GivesUp
  <2>5. ASSUME NEW d \in Deletable, BeginDeletion(d) \/ DeletionCommits(d) \/ DeletionFails(d)
        PROVE  [Next]_vars /\ TxKept
    BY <2>5, BeginsAndFailures, DeletionIsOneStep
  <2>6. [Next]_vars /\ TxKept
    BY <1>2, <2>1, <2>2, <2>3, <2>4, <2>5 DEF TxNext
  <2>7. QED
    BY <2>6, CoherentInductive, BuriedInductive DEF TxInv, TxKept
<1>3. QED
  BY <1>1, <1>2

LEMMA TxAlways == TxSpec => []TxInv
<1>1. TxInv /\ [TxNext]_txVars => TxInv'
  BY TxSteps
<1>2. QED
  BY <1>1, TxInitial, PTL DEF TxSpec

\* However the statements of claims, reports, upload-completes and deletions
\* interleave, and wherever a transaction fails, what commits is a behaviour of
\* DocumentPipeline: so everything proved of the pipeline holds of its statements.
THEOREM TransactionsLookAtomic == TxSpec => TransactionsAreAtomic
<1>1. TxInit => Init
  BY DEF TxInit
<1>2. TxInv /\ [TxNext]_txVars => [Next]_vars
  BY TxSteps
<1>3. QED
  BY <1>1, <1>2, TxAlways, PTL DEF TxSpec, TransactionsAreAtomic, Spec

\* A document never shows more than its job has reached, statement by statement.
THEOREM TransactionsFollowJob == TxSpec => []DocumentFollowsJob
BY TransactionsLookAtomic, FollowsJob, PTL DEF TransactionsAreAtomic

-------------------------------------------------------------------------------
(***************************************************************************)
(* Deadlocks.  In a circle of waits two neighbours both hold a lock.  Two  *)
(* upload-completes or two deletions of one document exclude each other at *)
(* their first lock, as two claims do; so one of the neighbours is an      *)
(* upload-complete beside a worker or a worker beside another one, and     *)
(* then one of them is late, or a deletion that has its document and waits *)
(* for a result that is being written again.                               *)
(***************************************************************************)

LEMMA HolderIsBusy ==
    ASSUME TxTyped, NEW a \in Parties, NEW l \in Held(a)
    PROVE  tx[a].kind # "none" /\ tx[a].locks >= 1
<1>1. tx[a].kind # "none" /\ tx[a].locks # 0
  BY HoldsOfNone, HoldsNothing
<1>2. QED
  BY <1>1, LocksCounted

LEMMA HoldsOfUpload ==
    ASSUME TxTyped, NEW a \in Parties, tx[a].kind = "upload", tx[a].locks >= 1
    PROVE  Lock("document", "update") \in Held(a)
<1>1. Wanted(a) = <<Lock("document", "update"), Lock("object", "update")>>
  BY DEF Wanted
<1>2. Wanted(a)[1] = Lock("document", "update")
  BY <1>1
<1>3. 1 \in 1 .. tx[a].locks
  BY LocksCounted
<1>4. QED
  BY <1>2, <1>3 DEF Held

\* The parse result is locked by those who write it and those who delete it.
LEMMA HoldsResult ==
    ASSUME TxTyped, NEW a \in Parties, NEW l \in Held(a), l.row = "result"
    PROVE  tx[a].kind \in {"complete", "delete"}
<1>1. PICK i \in 1 .. tx[a].locks : Wanted(a)[i].row = "result"
  BY DEF Held
<1>2. tx[a].locks \in Nat /\ tx[a].locks <= Len(Wanted(a)) /\ tx[a].kind \in Kinds
  BY LocksCounted
<1>3. CASE tx[a].kind \in {"claim", "fail"}
  <2>1. tx[a].locks \in 0 .. 2 /\ Wanted(a) = <<Lock("job", "update"), Lock("document", "update")>>
    BY <1>3, HoldsOfReport
  <2>2. Wanted(a)[1].row = "job" /\ Wanted(a)[2].row = "document" /\ i \in {1, 2}
    BY <2>1 DEF Lock
  <2>3. QED
    BY <1>1, <2>2
<1>4. CASE tx[a].kind = "fail_job"
  <2>1. tx[a].locks \in 0 .. 1 /\ Wanted(a) = <<Lock("job", "update")>>
    BY <1>4, HoldsOfJobFailure DEF Wanted
  <2>2. Wanted(a)[1].row = "job" /\ i = 1
    BY <2>1 DEF Lock
  <2>3. QED
    BY <1>1, <2>2
<1>5. CASE tx[a].kind = "upload"
  <2>1. Wanted(a) = <<Lock("document", "update"), Lock("object", "update")>>
    BY <1>5 DEF Wanted
  <2>2. Wanted(a)[1].row = "document" /\ Wanted(a)[2].row = "object" /\ Len(Wanted(a)) = 2
    BY <2>1 DEF Lock
  <2>3. i \in {1, 2}
    BY <1>2, <2>2
  <2>4. QED
    BY <1>1, <2>2, <2>3
<1>6. CASE tx[a].kind = "none"
  BY <1>6, HoldsOfNone
<1>7. QED
  BY <1>2, <1>3, <1>4, <1>5, <1>6 DEF Kinds

\* A deletion that has locked its document waits only for a result being written.
LEMMA DeletionWaits ==
    ASSUME TxInv, NEW a \in Parties, NEW b \in Parties,
           tx[a].kind = "delete", tx[a].locks >= 1, WaitsFor(a, b)
    PROVE  Reparsed(a)
<1> USE DEF TxInv
<1>1. a \in Deletable /\ a \notin Workers /\ a \notin Clients
  BY PartiesAssumption DEF Engaged, WorkerEngaged, Parties
<1>2. About(a) = a
  BY <1>1 DEF About
<1>3. a \in artifacts /\ Wanted(a)[tx[a].locks + 1] = Lock("result", "update")
  <2>1. tx[a].locks \in Nat /\ tx[a].locks < Len(Wanted(a))
    BY LocksCounted DEF WaitsFor
  <2>2. Wanted(a) = DeletionLocks(a)
    BY <1>2 DEF Wanted
  <2>3. CASE a \notin artifacts
    <3>1. Len(Wanted(a)) = 1
      BY <2>2, <2>3 DEF DeletionLocks
    <3>2. QED
      BY <2>1, <3>1
  <2>4. CASE a \in artifacts
    <3>1. Len(Wanted(a)) = 2 /\ Wanted(a)[2] = Lock("result", "update")
      BY <2>2, <2>4 DEF DeletionLocks
    <3>2. tx[a].locks = 1
      BY <2>1, <3>1
    <3>3. QED
      BY <2>4, <3>1, <3>2
  <2>5. QED
    BY <2>3, <2>4
<1>4. PICK l \in Held(b) : l.row = "result"
  BY <1>3 DEF WaitsFor, Compatible, Lock
<1>5. tx[b].kind \in {"complete", "delete"}
  BY <1>4, HoldsResult
<1>6. b \in Workers /\ tx[b].kind = "complete"
  <2>1. b \notin Deletable
    <3>1. SUFFICES ASSUME b \in Deletable PROVE FALSE
      OBVIOUS
    <3>2. About(b) = b
      BY <3>1, PartiesAssumption DEF About
    <3>3. QED
      BY <1>2, <3>2 DEF WaitsFor
  <2>2. b \notin Clients
    BY <1>5 DEF Engaged
  <2>3. QED
    BY <1>5, <2>1, <2>2 DEF Parties, Engaged, WorkerEngaged
<1>7. Processing(b, a)
  BY <1>2, <1>6 DEF WaitsFor, About, Engaged, WorkerEngaged, Processing
<1>8. QED
  BY <1>1, <1>3, <1>6, <1>7 DEF Reparsed

\* Two transactions of workers on one document: one of the workers is late.
LEMMA WorkersCollide ==
    ASSUME TxInv, Budgeted, OneLeaseHolder, NEW a \in Workers, NEW b \in Workers, a # b,
           About(a) = About(b), tx[a].kind # "none", tx[b].kind # "none"
    PROVE  LostLease(a) \/ LostLease(b)
<1> USE DEF TxInv
<1> DEFINE d == About(a)
<1>1. a \in Parties /\ b \in Parties /\ d = workers[a].doc /\ d = workers[b].doc
  BY DEF Parties, About
<1>2. d \in Docs
  BY <1>1, HolderHasDocument
<1>3. ASSUME NEW w \in {a, b}
      PROVE  Claiming(w, d) \/ Processing(w, d)
  BY <1>1, <1>3 DEF Engaged, WorkerEngaged, Claiming, Processing, TxTyped, Kinds
<1> HIDE DEF d
<1>4. ~(Claiming(a, d) /\ Claiming(b, d))
  BY <1>2 DEF Coherent, Actors, OneOpenClaim
<1>5. ASSUME NEW v \in Workers, NEW w \in Workers, Claiming(v, d), Processing(w, d)
      PROVE  LostLease(w)
  <2>1. Open(d)
    BY <1>5 DEF Budgeted, ClaimsAreOpen, Claiming
  <2>2. ~(HoldsLease(w, d) /\ leaseLive[d] /\ jobs[d].status = "running")
    BY <2>1 DEF Open
  <2>3. QED
    BY <1>2, <1>5, <2>2 DEF LostLease
<1>6. CASE Processing(a, d) /\ Processing(b, d)
  <2>1. ~HoldsLease(a, d) \/ ~HoldsLease(b, d)
    BY <1>2 DEF OneLeaseHolder
  <2>2. QED
    BY <1>2, <1>6, <2>1 DEF LostLease
<1>7. QED
  BY <1>3, <1>4, <1>5, <1>6

\* Row locks are taken in different orders by CompleteParseJob, by the deletion and
\* by everybody else.  Still, transactions wait for one another in a circle only
\* when a worker has lost its lease, an upload-complete is not the first for its
\* document or a document is deleted while it is parsed again.
THEOREM DeadlocksNeedLateness == TxSpec => []DeadlockNeedsLateness
<1>1. TxInv /\ Budgeted /\ OneLeaseHolder => DeadlockNeedsLateness
  <2> SUFFICES ASSUME TxInv, Budgeted, OneLeaseHolder,
                      NEW S \in SUBSET Parties, Deadlock(S)
               PROVE  \E a \in S : LostLease(a) \/ Overtaken(a) \/ Reparsed(a)
    BY DEF DeadlockNeedsLateness
  <2> USE DEF TxInv
  <2>1. PICK a, b, c \in S : WaitsFor(a, b) /\ WaitsFor(b, c)
    BY DEF Deadlock
  <2>2. /\ b \in Parties /\ c \in Parties /\ b # c /\ About(b) = About(c)
        /\ Held(b) # {} /\ Held(c) # {}
    BY <2>1 DEF WaitsFor
  <2>3. /\ tx[b].kind # "none" /\ tx[b].locks >= 1
        /\ tx[c].kind # "none" /\ tx[c].locks >= 1
    BY <2>2, HolderIsBusy
  <2>4. ASSUME NEW x \in S, x \in Deletable, tx[x].kind # "none", tx[x].locks >= 1
        PROVE  Reparsed(x)
    <3>1. tx[x].kind = "delete" /\ x \in Parties
      BY <2>4 DEF Engaged
    <3>2. PICK y \in S : WaitsFor(x, y)
      BY DEF Deadlock
    <3>3. QED
      BY <2>4, <3>1, <3>2, DeletionWaits
  <2>5. ASSUME NEW x \in {b, c}, NEW y \in {b, c}, x \in Clients, y \in Workers
        PROVE  Overtaken(x)
    <3>1. About(x) = requests[x] /\ About(y) = workers[y].doc /\ About(x) = About(y)
      BY <2>2, <2>5, PartiesAssumption DEF About
    <3>2. workers[y].pc # "idle"
      BY <2>3, <2>5 DEF Engaged, WorkerEngaged, TxTyped, Kinds
    <3>3. requests[x] \in Docs /\ jobs[requests[x]].status # "none"
      BY <2>5, <3>1, <3>2 DEF Coherent, Actors, WorkerHasJob
    <3>4. QED
      BY <2>5, <3>3 DEF Overtaken
  <2>6. ~(b \in Clients /\ c \in Clients)
    <3> SUFFICES ASSUME b \in Clients, c \in Clients PROVE FALSE
      OBVIOUS
    <3>1. tx[b].kind = "upload" /\ tx[c].kind = "upload"
      BY <2>3 DEF Engaged
    <3>2. Lock("document", "update") \in Held(b) /\ Lock("document", "update") \in Held(c)
      BY <2>2, <2>3, <3>1, HoldsOfUpload
    <3>3. QED
      BY <2>2, <3>2, OneHolder
  <2>7. CASE b \in Workers /\ c \in Workers
    BY <2>2, <2>3, <2>7, WorkersCollide
  <2>8. QED
    BY <2>2, <2>3, <2>4, <2>5, <2>6, <2>7 DEF Parties
<1>2. QED
  BY <1>1, TxAlways, TransactionsLookAtomic, BudgetedAlways, OneLeaseHolderAlways, PTL
  DEF TransactionsAreAtomic

-------------------------------------------------------------------------------
(* The outbox publishers. *)

\* The row lock of a claim: what its publisher has read is still so, and it is the only
\* one to write.
ClaimsHold ==
    /\ \A p \in Publishers : claims[p].event # NoEvent =>
           /\ events[claims[p].event].status = "pending"
           /\ events[claims[p].event].attempts = claims[p].attempts
    /\ \A p, q \in Publishers :
           claims[p].event = claims[q].event /\ claims[p].event # NoEvent => p = q

OutboxInv == OutboxTypeOK /\ ClaimsHold /\ AttemptsCounted

EventRows == [status : {"none", "pending", "published", "failed"},
              attempts : Nat, created : Nat]

\* A publisher that ends its transaction writes at most the event it has claimed.
LEMMA EndOfPublish ==
    ASSUME OutboxInv, NEW p \in Publishers, NEW e \in Events, claims[p].event = e,
           events' \in [Events -> EventRows],
           \A f \in Events \ {e} : events'[f] = events[f],
           \/ events'[e] = events[e]
           \/ events'[e].status = "published" /\ events'[e].attempts = 1
           \/ /\ e \in Unreadable
              /\ events'[e].status = "failed" /\ events'[e].attempts = MaxPublishAttempts
           \/ /\ e \in Unreadable
              /\ events'[e].status = "pending" /\ events'[e].attempts < MaxPublishAttempts,
           Release(p), errors' \in Nat
    PROVE  OutboxInv'
<1>1. /\ claims' = [claims EXCEPT ![p] = NoClaim]
      /\ claims \in [Publishers -> [event : Events \cup {NoEvent}, attempts : Nat]]
  BY DEF Release, OutboxInv, OutboxTypeOK
<1>2. claims'[p] = NoClaim /\ \A q \in Publishers \ {p} : claims'[q] = claims[q]
  BY <1>1
<1>3. OutboxTypeOK'
  BY <1>1 DEF OutboxTypeOK, EventRows, NoClaim
<1>4. ASSUME NEW q \in Publishers, claims'[q].event # NoEvent
      PROVE  /\ q # p /\ claims'[q] = claims[q]
             /\ claims[q].event \in Events \ {e}
  <2>1. q # p /\ claims'[q] = claims[q]
    BY <1>2, <1>4 DEF NoClaim
  <2>2. claims[q].event \in Events
    BY <1>1, <1>4, <2>1
  <2>3. claims[q].event # e
    BY <1>4, <2>1, OutboxAssumption DEF OutboxInv, ClaimsHold, OutboxAssumption
  <2>4. QED
    BY <2>1, <2>2, <2>3
<1>5. ClaimsHold'
  BY <1>4 DEF OutboxInv, ClaimsHold
<1>6. AttemptsCounted'
  BY DEF OutboxInv, AttemptsCounted
<1>7. QED
  BY <1>3, <1>5, <1>6 DEF OutboxInv

\* What each way of ending a transaction makes of the claimed event.
LEMMA ClaimedEvent ==
    ASSUME OutboxInv, NEW p \in Publishers, claims[p].event # NoEvent
    PROVE  /\ claims[p].event \in Events
           /\ events[claims[p].event] \in EventRows
           /\ events[claims[p].event].status = "pending"
           /\ events[claims[p].event].attempts = claims[p].attempts
           /\ claims[p].attempts \in Nat /\ claims[p].attempts < MaxPublishAttempts
           /\ claims[p].event \notin Unreadable => claims[p].attempts = 0
  BY DEF OutboxInv, OutboxTypeOK, ClaimsHold, AttemptsCounted, EventRows

LEMMA EndPublishKeeps ==
    ASSUME OutboxInv, NEW p \in Publishers, EndPublish(p) \/ LoseTransaction(p)
    PROVE  /\ OutboxInv'
           /\ \A f \in Events : events[f].status # "pending" => events'[f] = events[f]
<1> DEFINE e == claims[p].event
<1>1. e \in Events /\ e # NoEvent
  <2>1. e # NoEvent
    BY OutboxAssumption DEF EndPublish, MarkOutboxPublished, RecordOutboxPublishFailure,
                            RefuseJob, LoseTransaction, OutboxAssumption
  <2>2. QED
    BY <2>1, ClaimedEvent
<1>2. /\ events[e] \in EventRows /\ events[e].status = "pending"
      /\ events[e].attempts = claims[p].attempts /\ claims[p].attempts < MaxPublishAttempts
      /\ e \notin Unreadable => claims[p].attempts = 0
      /\ events \in [Events -> EventRows]
  BY <1>1, ClaimedEvent DEF OutboxInv, OutboxTypeOK, EventRows
<1>3. Release(p) /\ errors' \in Nat
  BY DEF EndPublish, MarkOutboxPublished, RecordOutboxPublishFailure, RefuseJob,
         LoseTransaction, OutboxInv, OutboxTypeOK
<1> HIDE DEF e
<1>4. /\ events' \in [Events -> EventRows]
      /\ \A f \in Events \ {e} : events'[f] = events[f]
      /\ \/ events'[e] = events[e]
         \/ events'[e].status = "published" /\ events'[e].attempts = 1
         \/ /\ e \in Unreadable
            /\ events'[e].status = "failed" /\ events'[e].attempts = MaxPublishAttempts
         \/ /\ e \in Unreadable
            /\ events'[e].status = "pending" /\ events'[e].attempts < MaxPublishAttempts
  <2>1. CASE UNCHANGED events
    BY <1>2, <2>1
  <2>2. CASE MarkOutboxPublished(p)
    <3> DEFINE row == [events[e] EXCEPT !.status = "published", !.attempts = @ + 1]
    <3>1. e \notin Unreadable
      BY <2>2 DEF MarkOutboxPublished, e
    <3>2. row \in EventRows /\ row.status = "published" /\ row.attempts = 1
      <4>1. events[e].attempts = 0
        BY <1>2, <3>1
      <4>2. events[e].attempts + 1 = 1 /\ events[e].attempts + 1 \in Nat
        BY <4>1
      <4>3. row \in EventRows
        BY <1>2, <4>2 DEF EventRows
      <4>4. row.status = "published" /\ row.attempts = events[e].attempts + 1
        BY <1>2 DEF EventRows
      <4>5. QED
        BY <4>2, <4>3, <4>4
    <3>3. events' = [events EXCEPT ![e] = row]
      BY <1>1, <1>2, <2>2 DEF MarkOutboxPublished, e
    <3> HIDE DEF row
    <3>4. QED
      BY <1>1, <1>2, <3>2, <3>3
  <2>3. CASE RecordOutboxPublishFailure(p)
    <3> DEFINE last == LastPublish(claims[p].attempts)
               row == [events[e] EXCEPT !.status = IF last THEN "failed" ELSE "pending",
                                        !.attempts = @ + 1]
    <3>1. e \in Unreadable
      BY <2>3 DEF RecordOutboxPublishFailure, e
    <3>2. /\ row \in EventRows
          /\ row.status = IF last THEN "failed" ELSE "pending"
          /\ row.attempts = claims[p].attempts + 1
      <4>1. events[e].attempts \in Nat
        BY <1>2 DEF EventRows
      <4>2. events[e].attempts + 1 \in Nat
        BY <4>1
      <4>3. row \in EventRows
        BY <1>2, <4>2 DEF EventRows
      <4>4. /\ row.status = IF last THEN "failed" ELSE "pending"
            /\ row.attempts = events[e].attempts + 1
        BY <1>2 DEF EventRows
      <4>5. QED
        BY <1>2, <4>3, <4>4
    <3>3. /\ last => row.attempts = MaxPublishAttempts
          /\ ~last => row.attempts < MaxPublishAttempts
      BY <1>2, <3>2, OutboxAssumption DEF LastPublish, OutboxAssumption, EventRows
    <3>4. events' = [events EXCEPT ![e] = row]
      BY <1>1, <1>2, <2>3 DEF RecordOutboxPublishFailure, e
    <3> HIDE DEF row
    <3>5. QED
      BY <1>1, <1>2, <3>1, <3>2, <3>3, <3>4
  <2>4. QED
    BY <2>1, <2>2, <2>3 DEF EndPublish, RefuseJob, LoseTransaction
<1>5. OutboxInv'
  BY <1>1, <1>3, <1>4, EndOfPublish DEF e
<1>6. QED
  BY <1>2, <1>4, <1>5

LEMMA ClaimKeeps ==
    ASSUME OutboxInv, NEW p \in Publishers, ClaimNextOutboxEvent(p)
    PROVE  OutboxInv' /\ UNCHANGED events
<1>1. PICK e \in Events :
        /\ Publishable(e)
        /\ claims' = [claims EXCEPT ![p] = [event |-> e, attempts |-> events[e].attempts]]
  BY DEF ClaimNextOutboxEvent
<1>2. UNCHANGED <<events, errors>>
  BY DEF ClaimNextOutboxEvent
<1>3. claims \in [Publishers -> [event : Events \cup {NoEvent}, attempts : Nat]]
      /\ events[e].attempts \in Nat
  BY DEF OutboxInv, OutboxTypeOK
<1>4. claims'[p] = [event |-> e, attempts |-> events[e].attempts]
      /\ \A q \in Publishers \ {p} : claims'[q] = claims[q] /\ claims[q].event # e
  BY <1>1, <1>3 DEF Publishable
<1>5. OutboxTypeOK'
  BY <1>1, <1>2, <1>3 DEF OutboxInv, OutboxTypeOK
<1>6. ClaimsHold'
  BY <1>1, <1>2, <1>4 DEF OutboxInv, ClaimsHold, Publishable
<1>7. AttemptsCounted'
  BY <1>2 DEF OutboxInv, AttemptsCounted
<1>8. QED
  BY <1>2, <1>5, <1>6, <1>7 DEF OutboxInv

LEMMA SaveKeeps ==
    ASSUME OutboxInv, NEW e \in Events, SaveEvent(e)
    PROVE  /\ OutboxInv'
           /\ \A f \in Events : events[f].status # "none" => events'[f] = events[f]
<1>1. PICK t \in Times :
        events' = [events EXCEPT ![e] = [status |-> "pending", attempts |-> 0, created |-> t]]
  BY DEF SaveEvent
<1>2. UNCHANGED <<claims, errors>> /\ events[e].status = "none" /\ t \in Nat
  BY OutboxAssumption DEF SaveEvent, OutboxAssumption
<1>3. /\ events'[e] = [status |-> "pending", attempts |-> 0, created |-> t]
      /\ \A f \in Events \ {e} : events'[f] = events[f]
  BY <1>1 DEF OutboxInv, OutboxTypeOK
<1>4. OutboxTypeOK'
  BY <1>1, <1>2 DEF OutboxInv, OutboxTypeOK
<1>5. \A p \in Publishers : claims[p].event # NoEvent => claims[p].event \in Events \ {e}
  BY <1>2 DEF OutboxInv, OutboxTypeOK, ClaimsHold
<1>6. ClaimsHold'
  BY <1>2, <1>3, <1>5 DEF OutboxInv, ClaimsHold
<1>7. AttemptsCounted'
  BY <1>3, OutboxAssumption DEF OutboxInv, AttemptsCounted, OutboxAssumption
<1>8. QED
  BY <1>2, <1>3, <1>4, <1>6, <1>7 DEF OutboxInv

SettledLeft == \A e \in Events :
    events[e].status \in {"published", "failed"} => events'[e] = events[e]

LEMMA OutboxKeeps ==
    ASSUME OutboxInv, [OutboxNext]_outboxVars
    PROVE  OutboxInv' /\ SettledLeft
<1>1. CASE UNCHANGED outboxVars
  BY <1>1 DEF outboxVars, OutboxInv, OutboxTypeOK, ClaimsHold, AttemptsCounted, SettledLeft
<1>2. ASSUME NEW e \in Events, SaveEvent(e) PROVE OutboxInv' /\ SettledLeft
  BY <1>2, SaveKeeps DEF SettledLeft
<1>3. ASSUME NEW p \in Publishers, ClaimNextOutboxEvent(p) PROVE OutboxInv' /\ SettledLeft
  BY <1>3, ClaimKeeps DEF SettledLeft
<1>4. ASSUME NEW p \in Publishers, EndPublish(p) \/ LoseTransaction(p)
      PROVE  OutboxInv' /\ SettledLeft
  BY <1>4, EndPublishKeeps DEF SettledLeft
<1>5. QED
  BY <1>1, <1>2, <1>3, <1>4 DEF OutboxNext

LEMMA OutboxStarts == OutboxInit => OutboxInv
  BY OutboxAssumption DEF OutboxInit, OutboxInv, OutboxTypeOK, ClaimsHold, AttemptsCounted,
                          NoClaim, OutboxAssumption

\* Attempts are counted exactly, for any number of publishers, events and lost transactions,
\* whatever the clocks say: the row lock of the claim keeps the count that decides true.
THEOREM AttemptsAreCounted == OutboxSpec => []AttemptsCounted
<1>1. OutboxInv /\ [OutboxNext]_outboxVars => OutboxInv'
  BY OutboxKeeps
<1>2. OutboxInv => AttemptsCounted
  BY DEF OutboxInv
<1>3. QED
  BY <1>1, <1>2, OutboxStarts, PTL DEF OutboxSpec

\* No publisher touches an event that another has published or given up.
THEOREM SettledEventsAreLeft == OutboxSpec => SettledEventsStay
<1>1. OutboxInv /\ [OutboxNext]_outboxVars => OutboxInv'
  BY OutboxKeeps
<1>2. OutboxInv /\ [OutboxNext]_outboxVars =>
        [\A e \in Events :
           events[e].status \in {"published", "failed"} => events'[e] = events[e]]_outboxVars
  BY OutboxKeeps DEF SettledLeft
<1>3. QED
  BY <1>1, <1>2, OutboxStarts, PTL DEF OutboxSpec, SettledEventsStay
===============================================================================
