SPECIFICATION Spec
CONSTANTS
    u1 = u1
    u2 = u2
    o1 = o1
    o2 = o2
    r1 = r1
    r2 = r2
    x1 = x1
    x2 = x2
    None = None
    Users <- TwoUsers
    Orgs <- TwoOrgs
    Restaurants <- TwoRestaurants
    Txs <- TwoTxs
    Legacy = o1
    Old <- OldRestaurant
    MaxCommands = 3
INVARIANT CommandsSerialize
INVARIANT AdminsDoNotDeadlock
PROPERTY TenantsAreIsolated
SYMMETRY Symmetry
CHECK_DEADLOCK FALSE
