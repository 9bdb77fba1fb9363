\* Leases outlive the work; workers may be interrupted and a document be deleted.
\* Both documents have one storage key.
CONSTANTS
    DirectDocs = {d1}
    UploadDocs = {u1}
    Deletable = {d1}
    Workers = {w1, w2}
    Clients = {c1}
    Keys = {k1}
    KeyOf <- MCSharedKey
    MaxAttempts = 2
    MaxFaults <- TwoInterrupts
    None = None
SPECIFICATION FairSpec
INVARIANTS
    OneWorkerPerDocument
    ParsedOnce
    ObjectSpeaksForOwner
PROPERTIES
    SettledIsFinal
    ImplementsLifecycle
    EveryDocumentSettles
\* Every document settles and every request is answered: the system may stop.
CHECK_DEADLOCK FALSE
