\* A client that connects by itself and is to reconnect.
CONSTANTS
    MaxMessages = 1
    Configurations <- Reconnecting
    MaxSockets = 2
    MaxFiles = 2
    MaxReconnect = 20
    WrapLimit = 2
SPECIFICATION FairSpec
PROPERTIES
    Reconnects
CHECK_DEADLOCK FALSE
