\* Two clients of one path and topic; the one that unsubscribes may leave
\* before its unsubscribe is answered.
CONSTANTS
    c1 = c1
    c2 = c2
    c3 = c3
    p1 = p1
    p2 = p2
    t1 = t1
    NoConn = NoConn
    NoMsg = NoMsg
    NoPath = NoPath
    Conns <- MCPair
    Paths = {p1}
    Topics = {t1}
    OpsOf <- MCPairOps
    PathsOf <- MCPairPaths
    Leavers = {c1}
    SendsOf <- MCPairSends
SPECIFICATION Spec
PROPERTIES
    OnlyOwnListenerRemoved
CHECK_DEADLOCK FALSE
