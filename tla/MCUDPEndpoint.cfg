\* A subscriber, a client that does everything and one that wants no response,
\* at endpoints of four configurations, for longer than three periods.
CONSTANTS
    s = s
    p = p
    q = q
    t = t
    Clients <- MCClients
    Quiet <- MCQuiet
    NoResponse = NoResponse
    Topics <- MCTopics
    OpsOf <- MCOpsOf
    SendsOf <- MCSendsOf
    Configurations <- MCConfigurations
    Period = 1
    MaxTime = 4
    Never = Never
SPECIFICATION Spec
INVARIANTS
    TypeOK
    TopicsWithinTable
    ForgottenUnlessFailed
PROPERTIES
    SubscriberIsServed
CHECK_DEADLOCK FALSE
