CONSTANTS
    Ingredients = {i1, i2}
    Legacy = {i1, i2}
    Keys = {}
    i1 = i1
    i2 = i2
    NoKey = NoKey
    NoOrder = NoOrder
    MaxQuantity = 1
    MaxThreshold = 0
    MaxVersion = 2
    MaxRevision = 2
    Orders = {o1, o2}
    o1 = o1
    o2 = o2
    MenuItems = {m1}
    m1 = m1
    OrderKeys = {ok1}
    ok1 = ok1
    MaxPortions = 1
    MaxDetail = 0
    MaxNeed = 1
    MaxOrderRevision = 7
    LegacyOrders = {o2}
    Days = {day1, day2}
    day1 = day1
    day2 = day2
    Price = 2
SPECIFICATION DatedSpec
INVARIANTS OrdersAccounted SalesMatchOrders
PROPERTIES AcceptanceTakesRecipe OrdersMoveForward
SYMMETRY Symmetry
