SPECIFICATION MigrationsSpec
CONSTANTS
    t1 = t1
    u1 = u1
    Tenants = {t1}
    Users = {u1}
    Stops <- MCStops
    MaxCommands = 4
    MaxWrites = 6
    MaxRevision = 3
INVARIANT HistoryKept
INVARIANT RowsFitRevision
CHECK_DEADLOCK FALSE
