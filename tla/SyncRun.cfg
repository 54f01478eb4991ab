\* Runs over two targets by either transport, one fault.
SPECIFICATION RunSpec
CONSTANTS
    Device <- ThreeDevices
    Client <- OneClient
    PushClient <- OneClient
    Entry <- ThreeEntries
    host <- MCHost
    targets <- MCTargets
    device_id <- MCDeviceId
    ts <- MCTs
    size <- RunSize
    RequestId = {1}
    Limit = 2
    Attempts = 2
    MaxFaults = 1
    MaxPrunes = 0
    MaxBoth = 1
    KeepRecent = {0}
    Cutoff = {2, 3}
    MaxRequestBytes = 2
    MaxResponseBytes = 2
INVARIANTS RunTypeOK NoFalseAlarm
PROPERTIES SuccessMeansSynced FaultlessRunReachesAll
