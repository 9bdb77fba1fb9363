\* One document, two workers, two requests and a deletion.
CONSTANTS
    DirectDocs = {}
    UploadDocs = {u1}
    Deletable = {u1}
    Workers = {w1, w2}
    Clients = {c1, c2}
    Keys = {u1}
    KeyOf <- MCKeyOf
    MaxAttempts = 2
    MaxFaults <- OneOfEach
    None = None
SPECIFICATION TxSpec
INVARIANTS
    DeadlockNeedsLateness
PROPERTIES
    TransactionsAreAtomic
SYMMETRY Symmetry
\* Every document settles and every request is answered: the system may stop.
CHECK_DEADLOCK FALSE
