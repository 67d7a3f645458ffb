\* Two files and an I/O error: rotation and its races included
SPECIFICATION Spec
CONSTANTS
    Capacity = 2
    PayloadArea = 3
    BatchSize = 1
    MaxMany = 2
    Sizes = {1}
    Clients = {c1}
    Markers = {m1}
    MaxTx = 3
    MaxFaults = 1
    MaxCrashes = 0
CHECK_DEADLOCK FALSE
INVARIANT TypeOK
INVARIANT RangeTestIsMembership
INVARIANT EntryInItsSlot
INVARIANT OnlyMarkedCompleted
