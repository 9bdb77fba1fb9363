\* One request at a time, every answer received; the cleanup loop runs.
CONSTANTS
    Requests = {r1}
    Browsers = {b1}
    Grants = {g1, g2, g3}
    AuthStates = {s1}
    MaxLosses = 0
    None = None
SPECIFICATION FairSpec
INVARIANTS
    NoFalseReuse
PROPERTIES
    ExpiredTokensGo
\* No grant is left and every request is answered: the system may stop.
CHECK_DEADLOCK FALSE
