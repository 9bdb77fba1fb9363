\* Two rule sets and a run, of two ventures that may be deleted meanwhile.
CONSTANTS
    j1 = j1
    j2 = j2
    d1 = d1
    d2 = d2
    Ventures = {j1, j2}
    Documents = {d1, d2}
    VentureOf <- MCVentureOf
    RowOf <- MCRowOf
    RuleSets = {s1, s2}
    Runs = {r1}
    Settings <- MCSettings
    Stamps = {1, 2}
    None = None
SPECIFICATION Spec
INVARIANTS
    BothActiveOnlyByOverlap
    SomeRuleSetActive
    RunsUseCurrentRules
    RunsAreWhole
    NothingOutlivesItsVenture
PROPERTIES
    SavesEnd
\* Rule sets and runs are used up and ventures gone: the system may stop.
CHECK_DEADLOCK FALSE
