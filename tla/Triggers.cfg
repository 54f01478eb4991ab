\* Two shells, both jobs, one fault, a clock set back once.
CONSTANTS
    Process = {p1, p2}
    Enabled = {"upload", "prune"}
    Interval = 2
    MaxStall = 1
    MaxBack = 1
    MaxUploads = 1
    MaxFaults = 1
SPECIFICATION FairSpec
INVARIANTS TypeOK
PROPERTIES NeverStuck EarlyOnlyWhileMarking BothJobsGoOn
