\* A client that stays and one that leaves share a path and a topic; a third
\* also names paths the server does not know.
CONSTANTS
    c1 = c1
    c2 = c2
    c3 = c3
    p1 = p1
    p2 = p2
    t1 = t1
    NoConn = NoConn
    NoMsg = NoMsg
    NoPath = NoPath
    Conns <- MCConns
    Paths = {p1, p2}
    Topics = {t1}
    OpsOf <- MCOps
    PathsOf <- MCPaths
    Leavers = {c2}
    SendsOf <- MCSends
SPECIFICATION FairSpec
INVARIANTS
    TypeOK
    ListenersMatchClients
    EndpointAgrees
PROPERTIES
    EveryRequestAnswered
CHECK_DEADLOCK FALSE
