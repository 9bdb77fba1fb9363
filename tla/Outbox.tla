------------------------------- MODULE Outbox -------------------------------
(***************************************************************************)
(* The publishers of the outbox (internal/features/processing/worker and   *)
(* PublishNextOutboxEvent in internal/features/processing/postgres): every *)
(* server process runs one, and each takes the oldest pending event that   *)
(* no other holds, in a transaction that publishes it, counts a failure,   *)
(* or is rolled back and leaves the event as it was.                       *)
(*                                                                         *)
(* What publication writes besides the event is the event's job, and that  *)
(* has been there since the event was saved (SubmissionsAccounted in       *)
(* DocumentPipeline), so its insert does nothing.                          *)
(*                                                                         *)
(* An operator whose name starts with Slip is a plausible mistake in the   *)
(* definition below it.                                                    *)
(***************************************************************************)
EXTENDS Naturals

CONSTANTS
    Events,
    Unreadable,          \* events of a type, or with a payload, that is not understood
    Refused,             \* events whose transaction fails each time
    Times,               \* values of created_at
    Publishers,
    MaxPublishAttempts,  \* maxOutboxPublishAttempts: 5 in repository.go
    MaxErrors,           \* bound on the transactions lost to errors that pass
    NoEvent

\* Events that this version of the program saves are neither unreadable nor refused;
\* the table may hold those of another version.
ASSUME OutboxAssumption ==
    /\ Unreadable \subseteq Events
    /\ Refused \subseteq Events \ Unreadable
    /\ Times \subseteq Nat
    /\ MaxPublishAttempts \in Nat \ {0}
    /\ MaxErrors \in Nat
    /\ NoEvent \notin Events

VARIABLES
    events,  \* rows of outbox_events: status, attempts and created_at
    claims,  \* the row each publisher has locked, with its attempts as read
    errors   \* transactions lost so far

outboxVars == <<events, claims, errors>>

NoClaim == [event |-> NoEvent, attempts |-> 0]

\* The transaction of p ends.
Release(p) == claims' = [claims EXCEPT ![p] = NoClaim]

-------------------------------------------------------------------------------

\* The transaction of a submission commits.  created_at was taken from the clock of
\* its server before, so that it says nothing of the order of the commits.
SaveEvent(e) ==
    /\ events[e].status = "none"
    /\ \E t \in Times :
         events' = [events EXCEPT ![e] = [status |-> "pending", attempts |-> 0, created |-> t]]
    /\ UNCHANGED <<claims, errors>>

SlipIgnoreLocks(e) == events[e].status = "pending"

\* What FOR UPDATE SKIP LOCKED lets a publisher see.
Publishable(e) ==
    /\ events[e].status = "pending"
    /\ \A p \in Publishers : claims[p].event # e

ClaimNextOutboxEvent(p) ==
    /\ claims[p].event = NoEvent
    /\ \E e \in Events :
         /\ Publishable(e)
         /\ \A f \in Events : Publishable(f) => events[e].created <= events[f].created
         /\ claims' = [claims EXCEPT ![p] = [event |-> e, attempts |-> events[e].attempts]]
    /\ UNCHANGED <<events, errors>>

MarkOutboxPublished(p) ==
    LET e == claims[p].event IN
    /\ e \in Events \ (Unreadable \cup Refused)
    /\ events' = [events EXCEPT ![e].status = "published", ![e].attempts = @ + 1]
    /\ Release(p)
    /\ UNCHANGED errors

LastPublish(attempts) == attempts + 1 >= MaxPublishAttempts

SlipFailureRolledBack(p) ==
    /\ claims[p].event \in Unreadable
    /\ Release(p)
    /\ UNCHANGED <<events, errors>>

\* The event is not understood: the same transaction counts the attempt, and decides
\* by the attempts it has read whether there will be another.
RecordOutboxPublishFailure(p) ==
    LET e == claims[p].event IN
    /\ e \in Unreadable
    /\ events' = [events EXCEPT
                      ![e].status = IF LastPublish(claims[p].attempts) THEN "failed" ELSE "pending",
                      ![e].attempts = @ + 1]
    /\ Release(p)
    /\ UNCHANGED errors

\* The row does not scan, or the statement that saves the job fails.  The transaction
\* is rolled back, or aborted with the statement, and cannot count the failure any more.
RefuseJob(p) ==
    /\ claims[p].event \in Refused
    /\ Release(p)
    /\ UNCHANGED <<events, errors>>

\* The connection fails, the commit does, or the process stops, to be started again.
\* A commit whose answer is lost is only logged as an error.
LoseTransaction(p) ==
    /\ claims[p].event # NoEvent
    /\ errors < MaxErrors
    /\ errors' = errors + 1
    /\ Release(p)
    /\ UNCHANGED events

EndPublish(p) ==
    \/ MarkOutboxPublished(p)
    \/ RecordOutboxPublishFailure(p)
    \/ RefuseJob(p)

-------------------------------------------------------------------------------

OutboxInit ==
    /\ events = [e \in Events |-> [status |-> "none", attempts |-> 0, created |-> 0]]
    /\ claims = [p \in Publishers |-> NoClaim]
    /\ errors = 0

OutboxNext ==
    \/ \E e \in Events : SaveEvent(e)
    \/ \E p \in Publishers : ClaimNextOutboxEvent(p) \/ EndPublish(p) \/ LoseTransaction(p)

OutboxSpec == OutboxInit /\ [][OutboxNext]_outboxVars

\* Every publisher polls on its ticker, and every transaction it begins ends.
FairOutboxSpec ==
    /\ OutboxSpec
    /\ \A p \in Publishers : WF_outboxVars(ClaimNextOutboxEvent(p)) /\ WF_outboxVars(EndPublish(p))

-------------------------------------------------------------------------------

OutboxTypeOK ==
    /\ events \in [Events -> [status : {"none", "pending", "published", "failed"},
                              attempts : Nat, created : Nat]]
    /\ claims \in [Publishers -> [event : Events \cup {NoEvent}, attempts : Nat]]
    /\ errors \in Nat

\* However many publishers there are and whatever transactions they lose, an event is
\* published in one counted attempt, and only one that is not understood is given up,
\* after exactly the attempts it may have: no error of the database is ever counted.
AttemptsCounted == \A e \in Events :
    /\ events[e].status = "pending" =>
           events[e].attempts < MaxPublishAttempts /\ (events[e].attempts > 0 => e \in Unreadable)
    /\ events[e].status = "published" => events[e].attempts = 1
    /\ events[e].status = "failed" => events[e].attempts = MaxPublishAttempts /\ e \in Unreadable

\* An event that was published or given up is not touched again by a publisher that had
\* seen it pending.
SettledEventsStay ==
    [][\A e \in Events :
           events[e].status \in {"published", "failed"} => events'[e] = events[e]]_outboxVars

\* An event whose transaction fails is at the head of the queue again after each attempt.
HeldBack(e) == \E r \in Refused :
    events[r].status = "pending" /\ events[r].created <= events[e].created

\* The outbox drains: every pending event is published or given up in the end, though
\* younger ones keep coming and transactions are lost, unless an event that fails its
\* transaction each time, no younger than it, is pending for ever.
OutboxDrains == \A e \in Events :
    \/ events[e].status = "pending" ~> events[e].status \in {"published", "failed"}
    \/ <>[]HeldBack(e)
=============================================================================
