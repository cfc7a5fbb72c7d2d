SPECIFICATION FairLimiterSpec
CONSTANTS
    r1 = r1
    r2 = r2
    pair1 = pair1
    pair2 = pair2
    ip = ip
    Requests <- TwoRequests
    Buckets <- AllBuckets
    BucketsOf <- PairAndAddress
    Maximum <- LimitsOfOne
    LocalMaximum <- LimitsOfOne
    MaxEntries = 2
    StableProbes = 3
    MaxGeneration = 2
INVARIANT LimitsHold
PROPERTY FailuresCount
PROPERTY RecoversEventually
CHECK_DEADLOCK FALSE
