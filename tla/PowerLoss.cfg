\* Two sync processes on one device or one on each, one fault or power loss.
SPECIFICATION LossSpec
CONSTANTS
    Device <- TwoDevices
    Client <- AllClients
    PushClient <- SameHostClients
    Crews <- MCCrews
    Lossy <- MCLossy
    Pruning <- MCPruning
    Entry = {e1, e2}
    host <- MCHost
    targets <- MCTargets
    device_id <- LossDeviceId
    ts <- LossTs
    size <- MCSize
    RequestId = {1, 2}
    Limit = 1
    Attempts = 2
    MaxFaults = 1
    MaxPrunes = 1
    MaxBoth = 2
    KeepRecent = {0, 1}
    Cutoff = {2}
    MaxRequestBytes = 9
    MaxResponseBytes = 9
INVARIANTS TypeOK OneRowPerEntry PullGapOnlyRenumbered PushGapOnlyUndone OneWayLeft
SYMMETRY LossSymmetry
