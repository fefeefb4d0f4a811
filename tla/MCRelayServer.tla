---------------------------- MODULE MCRelayServer ----------------------------
EXTENDS RelayServer, TLC

CONSTANTS c1, c2, c3, p1, p2, t1

MCConns == {c1, c2, c3}

\* c1 stays and does everything, c2 subscribes and leaves, c3 uses another path.
MCOps == [c \in MCConns |-> CASE c = c1 -> {"sub", "unsub", "call"}
                              [] c = c2 -> {"sub", "call"}
                              [] c = c3 -> {"call", "bad", "pathless"}]
MCPaths == [c \in MCConns |-> IF c = c3 THEN {p2} ELSE {p1}]
MCSends == [c \in MCConns |-> CASE c = c1 -> 3 [] c = c2 -> 2 [] c = c3 -> 1]

MCPair == {c1, c2}
MCPairOps == [c \in MCPair |-> IF c = c1 THEN {"sub", "unsub"} ELSE {"sub"}]
MCPairPaths == [c \in MCPair |-> {p1}]
MCPairSends == [c \in MCPair |-> IF c = c1 THEN 2 ELSE 1]
=============================================================================
