\* Refreshes, logouts and sign-ins of one browser, two at a time.
CONSTANTS
    Requests = {r1, r2}
    Browsers = {b1}
    Grants = {g1, g2, g3}
    AuthStates = {s1}
    MaxLosses = 1
    None = None
SPECIFICATION Spec
INVARIANTS
    OneLiveToken
    OneLiveSession
    LogoutShutsFamily
    AuthStateUsedOnce
PROPERTIES
    ClosedFamilyStaysClosed
SYMMETRY Symmetry
\* No grant is left and every request is answered: the system may stop.
CHECK_DEADLOCK FALSE
