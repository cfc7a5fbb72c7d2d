SPECIFICATION Spec
CONSTANTS
    t1 = t1
    t2 = t2
    c1 = c1
    c2 = c2
    NoTab = NoTab
    NoCall = NoCall
    Tabs <- TwoTabs
    Calls <- TwoCalls
    MaxFamilies = 2
    MaxTokens = 5
    MaxFaults = 1
INVARIANT TokensChain
INVARIANT SessionsEndForCause
PROPERTY EndedFamilyIsFrozen
SYMMETRY Symmetry
CHECK_DEADLOCK FALSE
