----------------------------- MODULE MCMulticast -----------------------------
EXTENDS Multicast, TLC

CONSTANTS c1, c2, t1, p1, p2, h1, h2

MCClients == {c1, c2}
MCTopics == {t1}
MCPaths == {p1, p2}
MCHosts == {h1, h2}
=============================================================================
