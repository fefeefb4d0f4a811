---------------------------- MODULE MCUDPEndpoint ----------------------------
EXTENDS UDPEndpoint, TLC

CONSTANTS s, p, q, t

MCClients == {s, p, q}
MCQuiet == {q}
MCTopics == {t}

\* A client that subscribes and never unsubscribes, one that does whatever a
\* client can do, and one that wants no response.
MCOpsOf == s :> {"sub", "app"} @@ p :> Ops @@ q :> {"sub", "pub"}
MCSendsOf == s :> 2 @@ p :> 1 @@ q :> 1

Child == [no_keeps |-> FALSE, use_broadcast |-> FALSE, child |-> TRUE]
MCConfigurations ==
    {Child, [Child EXCEPT !.no_keeps = TRUE], [Child EXCEPT !.child = FALSE],
     [Child EXCEPT !.use_broadcast = TRUE]}
=============================================================================
