\* The active file under the checkpoint
SPECIFICATION Spec
CONSTANTS
    Capacity = 2
    MaxTx = 3
    MaxFaults = 0
    MaxCrashes = 0
CHECK_DEADLOCK FALSE
INVARIANT ActiveStays
