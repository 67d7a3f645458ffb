\* Four keys for three places
SPECIFICATION Spec
CONSTANTS
    Keys = {k1, k2, k3, k4}
    Capacity = 3
    MaxFreq = 4
INVARIANT TypeOK
INVARIANT GroupsAgree
INVARIANT VictimExists
PROPERTY EvictsLeastUsed
