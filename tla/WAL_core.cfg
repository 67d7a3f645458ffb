\* One file, a crash and a restart, fair scheduling
SPECIFICATION FairSpec
CONSTANTS
    Capacity = 3
    PayloadArea = 3
    BatchSize = 1
    MaxMany = 2
    Sizes = {1}
    Clients = {c1}
    Markers = {m1}
    MaxTx = 3
    MaxFaults = 0
    MaxCrashes = 1
CHECK_DEADLOCK FALSE
INVARIANT Retained
INVARIANT ClosedIsFlushed
PROPERTY CommittedStable
PROPERTY AppendedReachesDisk
