SPECIFICATION GatewaySpec
CONSTANTS
    Procs = {p1, p2}
    NoProcess = NoProcess
    HeadOf <- MCHeadOf
    MaxRuns = 7
    MaxKills = 1
    MaxCrashes = 1
INVARIANT ReleasesMatch
PROPERTY OperationsExclude
CHECK_DEADLOCK FALSE
