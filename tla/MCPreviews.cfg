\* Three documents, which shares of a third, a half and a hundredth divide unevenly.
CONSTANTS
    Documents = {d1, d2, d3}
    Kinds <- MCKinds
    Stages <- MCStages
    Times = {1, 2}
    Inputs <- MCInputs
    RuleChoices <- MCRuleChoices
    NoPreview = NoPreview
SPECIFICATION Spec
INVARIANTS
    TakesTheTop
    RulesGiveWayToTheBest
    KeepsToItsLimits
SYMMETRY Symmetry
