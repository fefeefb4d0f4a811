--------------------------- MODULE MCCommunicator ---------------------------
EXTENDS Communicator, TLC

CONSTANTS c1, c2, c3, c4

MCCalls == {c1, c2, c3, c4}
MCUnencodable == {c4}
MCDroppable == {c3}
=============================================================================
