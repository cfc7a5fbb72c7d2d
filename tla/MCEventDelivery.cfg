SPECIFICATION FairSpec
CONSTANTS
    Deliveries = {d1, d2}
    Workers = {w1, w2}
    NoWorker = NoWorker
    MaxAttempts = 2
    Rejected = {d2}
    MaxTokens = 3
    MaxCycle = 1
INVARIANTS
    EffectExactlyOnce
    RunningAttemptHoldsClaim
    HandlerOwnsDelivery
    FailuresAccounted
PROPERTIES
    HistoryPreserved
    TerminalStatusFinal
    ImplementsDurableEffect
    ClaimsAreTemporary
CHECK_DEADLOCK FALSE
