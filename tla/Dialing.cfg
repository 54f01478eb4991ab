\* Every set of addresses, one lost answer or connection against four attempts.
SPECIFICATION FairSpec
CONSTANTS
    RequestId = {1, 2, 3, 4, 5, 6}
    Attempts = 4
    DIAL_ATTEMPTS = 3
    MaxFaults = 2
INVARIANTS TypeOK FaultsTolerated
PROPERTIES PathsInOrder CallEnds
