SPECIFICATION ScreenSpec
CONSTANTS
    Ingredients = {i1, i2}
    Payloads = {p1}
    AlertViews = {past}
    Active = active
    Past = past
    Items = items
    New = new
    None = none
    Denied = denied_
    Pages = {0, 1}
    MaxVersion = 1
    MaxLoads = 2
    MaxKeys = 2
    MaxLosses = 1
SYMMETRY ScreenSymmetry
INVARIANT PageConsistent
PROPERTY LateAnswersStayOut
CHECK_DEADLOCK FALSE
