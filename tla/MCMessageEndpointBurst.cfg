\* One client sends two requests that arrive in one data event.
CONSTANTS
    s1 = s1
    s2 = s2
    parent = parent
    t1 = t1
    NoConn = NoConn
    Conns <- MCConns
    Streams <- MCStreams
    Names <- MCConns
    NameOf <- OwnNames
    Topics = {t1}
    Hooked = {FALSE}
    OpsOf <- AppOnly
    SendsOf <- FirstSends
SPECIFICATION FairSpec
PROPERTY AlwaysResponds
CHECK_DEADLOCK FALSE
