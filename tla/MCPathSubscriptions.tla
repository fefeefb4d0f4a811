------------------------- MODULE MCPathSubscriptions -------------------------
EXTENDS PathSubscriptions, TLC

CONSTANTS p1, p2, t1

MCPaths == {p1, p2}
MCTopics == {t1}
=============================================================================
