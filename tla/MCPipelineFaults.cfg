\* Late workers, lost commits, racing requests and deletions.
CONSTANTS
    DirectDocs = {d1}
    UploadDocs = {u1}
    Deletable = {d1, u1}
    Workers = {w1, w2}
    Clients = {c1, c2}
    Keys = {d1, u1}
    KeyOf <- MCKeyOf
    MaxAttempts = 2
    MaxFaults <- OverrunAndLostCommit
    None = None
SPECIFICATION Spec
INVARIANTS
    DocumentFollowsJob
    DirectDocumentShowsJob
    ParsedIsBacked
    UploadVerifiedBeforeQueued
    SubmissionsAccounted
    AttemptsAccounted
SYMMETRY Symmetry
\* Every document settles and every request is answered: the system may stop.
CHECK_DEADLOCK FALSE
