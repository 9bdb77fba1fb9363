\* Two administrators, two regions, a venture, and two requests at once.
CONSTANTS
    Users = {root, ann}
    Root = root
    Regions = {r1, r2}
    Ventures = {v1}
    r1 = r1
    HomeOf <- MCHomeOf
    Granted = {"admin", "jv_admin"}
    Ids = {i1, i2, i3}
    Requests = {q1, q2}
    None = None
SPECIFICATION Spec
INVARIANTS
    DelegationStaysWithin
    ListingsAgree
PROPERTIES
    RevokedIsGone
SYMMETRY Symmetry
\* When the last administrator is revoked nobody may do anything.
CHECK_DEADLOCK FALSE
