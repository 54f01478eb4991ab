\* Two runs at once, by tracker and by hand, over one peer book.
CONSTANTS
    Client = {c1, c2}
    Peer = {"me", "p", "q"}
    user <- MCUser
    device <- MCDevice
    my_user = "user"
    my_device = "me"
    None = None
    TrackerCount = 2
    MaxAge = 1
    Head = 1
    MaxFaults = 1
    Carried = {"p"}
    Reachable = {"p"}
SYMMETRY ClientSymmetry
SPECIFICATION Spec
INVARIANTS TypeOK OwnOtherDevices CursorsCovered
PROPERTIES ListedPeersFallBack
