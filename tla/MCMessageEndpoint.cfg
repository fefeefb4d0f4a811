\* Two sockets that come and go and a parent process, one topic.
CONSTANTS
    s1 = s1
    s2 = s2
    parent = parent
    t1 = t1
    NoConn = NoConn
    Conns <- MCConns
    Streams <- MCStreams
    Names <- MCConns
    NameOf <- OwnNames
    Topics = {t1}
    Hooked = {TRUE, FALSE}
    OpsOf <- MCOps
    SendsOf <- MCSends
SPECIFICATION FairSpec
INVARIANTS
    TypeOK
    ReplyToSender
    NothingLost
    TopicsFollowRequests
PROPERTIES
    PublicationReachesSubscribers
    ObjectsAreAnswered
CHECK_DEADLOCK FALSE
