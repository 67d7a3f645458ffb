\* One writer and one reader of a key, from before the table is created
SPECIFICATION Spec
CONSTANTS
    big = big
    middle = middle
    small = small
    Writers = {w}
    Readers = {r}
    Values <- MCValues
    Large <- MCLarge
    Parts <- MCParts
    Null = Null
    NoOne = NoOne
    MaxCalls = 2
    MaxFaults = 1
    MaxCrashes = 2
CHECK_DEADLOCK FALSE
INVARIANT StoredIsLatest
INVARIANT NoChunkLeft
INVARIANT ReadsRegular
PROPERTY RestartKeeps
