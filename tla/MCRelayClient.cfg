\* Every kind of client, three connections, three messages and three files.
CONSTANTS
    MaxMessages = 3
    Configurations <- MCConfigurations
    MaxSockets = 3
    MaxFiles = 3
    MaxReconnect = 2
    WrapLimit = 2
SPECIFICATION FairSpec
INVARIANTS
    TypeOK
    ReplayedOnce
    ReplayInOrder
    ReplayKeeps
    LostOnlyUntilShunted
    FileWithinLimit
PROPERTIES
    FiledReachesDisk
CHECK_DEADLOCK FALSE
