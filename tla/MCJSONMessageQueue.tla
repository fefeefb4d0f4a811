------------------------- MODULE MCJSONMessageQueue -------------------------
EXTENDS JSONMessageQueue

Flat == <<"open", "x", "close">>
Nested == <<"open", "x", "open", "x", "close", "close">>
TwoNested == <<"open", "x", "open", "close", "x", "open", "close", "close">>

\* Objects flat and nested, whose texts hold neither spaces nor characters
\* that are not ASCII.
MCTexts == {<<"open", "close">>, Flat, Nested, TwoNested}
MCSeparators == {<<>>, <<"space", "space">>}

ASSUME PlainAssumption == PlainTexts
=============================================================================
