SPECIFICATION CacheSpec
CONSTANTS
    Menus = {m1}
    Items = {i1}
    Readers = {r1, r2}
    Writers = {w1}
    List = list
    None = none
    MaxAge = 2
    Cooldown = 1
    MaxTime = 2
    MaxWrites = 1
    MaxFailures = 1
INVARIANT CacheAccounted
PROPERTY AnswersAreRecent
SYMMETRY CacheSymmetry
CHECK_DEADLOCK FALSE
