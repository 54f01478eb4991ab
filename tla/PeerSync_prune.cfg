\* A client with two peers, one prune or one fault; one entry is too large to pull.
SPECIFICATION Spec
CONSTANTS
    Device <- ThreeDevices
    Client <- OneClient
    PushClient <- OneClient
    Entry <- ThreeEntries
    host <- MCHost
    targets <- MCTargets
    device_id <- MCDeviceId
    ts <- MCTs
    size <- RunSize
    RequestId = {1, 2, 3}
    Limit = 1
    Attempts = 2
    MaxFaults = 1
    MaxPrunes = 1
    MaxBoth = 1
    KeepRecent = {0, 1}
    Cutoff = {2, 3}
    MaxRequestBytes = 9
    MaxResponseBytes = 1
INVARIANTS PullCursorNoGap PushCursorNoGap
PROPERTIES PruneRespectsPushFloor ImplementsReplication CursorsNeverRegress
