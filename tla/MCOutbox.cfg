\* Two publishers; two events of this version, an unreadable and a refused one.
CONSTANTS
    Events = {e1, e2, unreadable, refused}
    Unreadable = {unreadable}
    Refused = {refused}
    Times <- MCTimes
    Publishers = {p1, p2}
    MaxPublishAttempts = 2
    MaxErrors = 1
    NoEvent = NoEvent
SPECIFICATION FairOutboxSpec
INVARIANTS
    AttemptsCounted
PROPERTIES
    OutboxDrains
\* Every event settles: the system may stop.
CHECK_DEADLOCK FALSE
