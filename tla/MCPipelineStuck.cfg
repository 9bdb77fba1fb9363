\* Racing upload-complete requests.
CONSTANTS
    DirectDocs = {}
    UploadDocs = {u1}
    Deletable = {}
    Workers = {w1}
    Clients = {c1, c2}
    Keys = {u1}
    KeyOf <- MCKeyOf
    MaxAttempts = 2
    MaxFaults <- Faultless
    None = None
SPECIFICATION Spec
INVARIANTS
    QueuedHasWork
\* Every document settles and every request is answered: the system may stop.
CHECK_DEADLOCK FALSE
