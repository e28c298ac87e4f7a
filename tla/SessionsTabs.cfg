\* Two tabs of one browser, four tokens, and up to two troubles of any kinds.
CONSTANTS
    Tabs = {t1, t2}
    MaxTokens = 4
    MaxTroubles = 2
SYMMETRY TabSymmetry
SPECIFICATION Spec
INVARIANTS
    OneUsable
    CookieWorks
PROPERTIES
    FamilyEnds
CHECK_DEADLOCK FALSE
