CONSTANTS
    Ingredients = {i1}
    Legacy = {i1}
    Keys = {k1, k2}
    i1 = i1
    k1 = k1
    k2 = k2
    NoKey = NoKey
    NoOrder = NoOrder
    MaxQuantity = 1
    MaxThreshold = 1
    MaxVersion = 3
    MaxRevision = 4
SPECIFICATION AlertSpec
INVARIANTS LedgerExplained EpisodesTellLedger AlertsFollowLedger
PROPERTIES AlertsNeverGoBack
SYMMETRY Symmetry
