\* Two ordinary calls, one of which the link may lose, and one that cannot be
\* encoded, for two slots; requests outlive max_age and several checks.
CONSTANTS
    c1 = c1
    c2 = c2
    c3 = c3
    NoCall = NoCall
    Calls <- MCCalls
    Unencodable <- MCUnencodable
    MaxUnanswered = 2
    Droppable <- MCDroppable
    MaxAge = 2
    CheckEvery = 2
    MaxTime = 5
    NoTime = NoTime
SPECIFICATION TimedFairSpec
INVARIANTS
    AgedWhileLocked
    
PROPERTIES
    SettledUnlessCrashed
CHECK_DEADLOCK FALSE
