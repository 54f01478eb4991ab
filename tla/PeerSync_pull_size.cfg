\* Batches too large to answer a pull with.
SPECIFICATION FairSpec
CONSTANTS
    Device <- TwoDevices
    Client <- OneClient
    PushClient <- OneClient
    Entry <- PeerEntries
    host <- MCHost
    targets <- MCTargets
    device_id <- MCDeviceId
    ts <- MCTs
    size <- MCSize
    RequestId = {1, 2, 3}
    Limit = 2
    Attempts = 2
    MaxFaults = 0
    MaxPrunes = 0
    MaxBoth = 0
    KeepRecent = {0}
    Cutoff = {2, 3}
    MaxRequestBytes = 9
    MaxResponseBytes = 1
PROPERTIES TooLargeAdapts
