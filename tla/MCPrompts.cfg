\* Two people at work on two prompts, or chatting.
CONSTANTS
    PromptIds = {p1, p2}
    Versions = {v1, v2, v3}
    Requests = {r1, r2}
    None = None
SPECIFICATION Spec
INVARIANTS
    NumbersInOrder
    StaleOnlyByRace
    ChatsHonourDeprecation
SYMMETRY Symmetry
