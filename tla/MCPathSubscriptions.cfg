\* Both kinds of client, two paths, three connections and five calls of the
\* application.
CONSTANTS
    p1 = p1
    p2 = p2
    t1 = t1
    Paths <- MCPaths
    Topics <- MCTopics
    Kinds = {"single", "multi"}
    MaxConns = 3
    MaxCalls = 5
SPECIFICATION Spec
INVARIANTS
    TypeOK
    ServedAsNoted
    HandlersFollowNotes
CHECK_DEADLOCK FALSE
