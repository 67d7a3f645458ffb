\* Two files and a crash: every step of the checkpoint against the log
SPECIFICATION FairSpec
CONSTANTS
    Capacity = 2
    MaxTx = 3
    MaxFaults = 1
    MaxCrashes = 1
CHECK_DEADLOCK FALSE
INVARIANT TypeOK
INVARIANT RemovedIsArchived
INVARIANT FullFileWasFinished
PROPERTY ArchiveKept
PROPERTY FinishedIsArchived
