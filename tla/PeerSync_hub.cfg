\* Two devices that exchange entries through a third: refinement with fairness.
SPECIFICATION FairSpec
CONSTANTS
    Device <- ThreeDevices
    Client <- HubClients
    PushClient <- HubClients
    Entry <- HubEntries
    host <- MCHost
    targets <- HubTargets
    device_id <- MCDeviceId
    ts <- MCTs
    size <- MCSize
    RequestId = {1, 2, 3}
    Limit = 2
    Attempts = 2
    MaxFaults = 0
    MaxPrunes = 0
    MaxBoth = 0
    KeepRecent = {0}
    Cutoff = {2, 3}
    MaxRequestBytes = 1
    MaxResponseBytes = 9
INVARIANTS EchoBounded
PROPERTIES ImplementsFairReplication TooLargeAdapts
