-------------------------- MODULE MCMessageEndpoint --------------------------
EXTENDS MessageEndpoint, TLC

CONSTANTS s1, s2, parent, t1

MCConns == {s1, s2, parent}
MCStreams == {s1, s2}

\* A name of its own for every socket (remoteAddress:remotePort).
OwnNames == [c \in MCConns |-> c]

\* s1 subscribes and asks, s2 publishes and subscribes, the parent asks.
MCOps == [c \in MCConns |-> CASE c = s1 -> {"sub", "unsub", "app"}
                              [] c = s2 -> {"sub", "pub"}
                              [] c = parent -> {"app"}]
MCSends == [c \in MCConns |-> IF c = parent THEN 1 ELSE 2]

\* Only the application's own messages.
AppOnly == [c \in MCConns |-> {"app"}]
\* Only s1 sends.
FirstSends == [c \in MCConns |-> IF c = s1 THEN 2 ELSE 0]
=============================================================================
