--------------------------- MODULE DocumentLifecycle ---------------------------
(***************************************************************************)
(* What the pipeline promises a user who watches one document: it waits    *)
(* for its upload if it has one, is queued once, is processed until it is  *)
(* parsed or has failed for good, and neither outcome is ever taken back   *)
(* short of removing the document.  A document shows as parsed exactly     *)
(* while its parse result can be read.                                     *)
(* The statuses are those of internal/features/documents/document.go.      *)
(***************************************************************************)
CONSTANT Docs

VARIABLES
    status,  \* the status of each document
    results  \* the documents that have a parse result

Register(d) ==
    /\ status[d] = "none"
    /\ \E s \in {"upload_pending", "queued"} : status' = [status EXCEPT ![d] = s]
    /\ UNCHANGED results

Submit(d) ==
    /\ status[d] = "upload_pending"
    /\ status' = [status EXCEPT ![d] = "queued"]
    /\ UNCHANGED results

Start(d) ==
    /\ status[d] = "queued"
    /\ status' = [status EXCEPT ![d] = "processing"]
    /\ UNCHANGED results

Retry(d) ==
    /\ status[d] = "processing"
    /\ status' = [status EXCEPT ![d] = "queued"]
    /\ UNCHANGED results

Succeed(d) ==
    /\ status[d] = "processing"
    /\ status' = [status EXCEPT ![d] = "parsed"]
    /\ results' = results \cup {d}

GiveUp(d) ==
    /\ status[d] = "processing"
    /\ status' = [status EXCEPT ![d] = "failed"]
    /\ UNCHANGED results

Remove(d) ==
    /\ status[d] \notin {"none", "removed"}
    /\ status' = [status EXCEPT ![d] = "removed"]
    /\ results' = results \ {d}

Init ==
    /\ status = [d \in Docs |-> "none"]
    /\ results = {}

Next == \E d \in Docs :
    \/ Register(d)
    \/ Submit(d)
    \/ Start(d)
    \/ Retry(d)
    \/ Succeed(d)
    \/ GiveUp(d)
    \/ Remove(d)

Spec == Init /\ [][Next]_<<status, results>>
===============================================================================
