\* Two regions whose codes meet, and a venture that two requests update.
CONSTANTS
    Regions = {r1, r2}
    Ventures = {v1}
    Requests = {q1, q2}
    Texts <- MCTexts
    NormalizeCode <- MCNormalizeCode
    Drafts <- MCDrafts
    Changes <- MCChanges
    None = None
SPECIFICATION Spec
INVARIANTS
    TypeOK
PROPERTIES
    OnlyRacesUndo
SYMMETRY Symmetry
\* Ids run out and everything is deleted: the system may stop.
CHECK_DEADLOCK FALSE
