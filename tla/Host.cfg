\* Two processes on one machine: set-up and keys, record and push, imports.
SPECIFICATION FairSpec
CONSTANTS
    Process <- TwoProcesses
    Menus <- MCMenus
    exported <- MCExported
    device_env <- MCDeviceEnv
    flags <- MCFlags
    Initial <- MCInitial
    NoFile = NoFile
    Empty = Empty
    Broken = Broken
    Cmd = {"ls", "rr"}
    Skipped = {"rr"}
    BATCH = 2
    Now = 9
    Limits = {1, 9}
    MaxRecords = 1
    MaxLines = 3
    MaxTrims = 1
    MaxFaults = 1
INVARIANTS TypeOK KeySettles LeftOnlyMisnamed OwnTimestamp ImportExact
PROPERTIES ServesUnlessTorn IdKept
