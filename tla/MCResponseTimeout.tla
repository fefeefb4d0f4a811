-------------------------- MODULE MCResponseTimeout --------------------------
EXTENDS ResponseTimeout, TLC

CONSTANTS c1, c2, c3

MCCalls == {c1, c2, c3}
MCUnencodable == {c3}
MCDroppable == {c2}
=============================================================================
