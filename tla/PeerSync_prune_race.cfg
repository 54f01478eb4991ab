\* A first push between the two halves of a prune.
SPECIFICATION Spec
CONSTANTS
    Device <- TwoDevices
    Client <- OneClient
    PushClient <- OneClient
    Entry <- OwnEntries
    host <- MCHost
    targets <- MCTargets
    device_id <- MCDeviceId
    ts <- MCTs
    size <- MCSize
    RequestId = {1, 2, 3}
    Limit = 1
    Attempts = 1
    MaxFaults = 0
    MaxPrunes = 1
    MaxBoth = 1
    KeepRecent = {0}
    Cutoff = {2, 3}
    MaxRequestBytes = 9
    MaxResponseBytes = 9
PROPERTIES PruneSparesUnreceived
