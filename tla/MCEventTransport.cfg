SPECIFICATION FairTransportSpec
CONSTANTS
    e1 = e1
    f1 = f1
    r1 = r1
    c1 = c1
    NoWorker = NoWorker
    Subscribed <- OneEvent
    Foreign <- OneForeign
    Strays <- None
    Relays <- OneLoop
    Scanners <- OneLoop
    Consumers <- OneConsumer
    BatchSize = 1
    BusyLimit = 1
    MaxMessages = 4
    MaxFaults = 1
INVARIANT ReferencesKept
PROPERTY EveryDeliveryFinishes
PROPERTY PendingDrains
CHECK_DEADLOCK FALSE
