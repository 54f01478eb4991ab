\* One server, two trackers of which the first fails: one address event more.
CONSTANTS
    Server = {s1}
    Addr = {a1, a2}
    Dialable = {a2}
    TrackerCount = 2
    Reliable = {2}
    Ttl = 4
    Period = 2
    CallTime = 1
    Attempts = 2
    MaxEvents = 2
    MaxFaults = 1
SPECIFICATION FairSpec
INVARIANTS TypeOK StaysListed FreshWithin
PROPERTIES ListsSettle
