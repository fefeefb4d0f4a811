\* Two clients on any of two hosts, one of them the endpoint's, and two paths of
\* one topic.
CONSTANTS
    c1 = c1
    c2 = c2
    t1 = t1
    p1 = p1
    p2 = p2
    h1 = h1
    h2 = h2
    Clients <- MCClients
    Topics <- MCTopics
    Paths <- MCPaths
    Hosts <- MCHosts
    ServerHost = h2
    MaxAttempts = 3
SPECIFICATION Spec
INVARIANTS
    MembersAreNoted
    LeavesUnlessHasty
    CrashOnlyOnSharedHost
CHECK_DEADLOCK FALSE
