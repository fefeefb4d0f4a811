\* Three messages of four shapes, cut anywhere.
CONSTANTS
    Texts <- MCTexts
    Separators <- MCSeparators
    SendBound = 3
SPECIFICATION Spec
INVARIANTS
    TypeOK
    
    NothingHeldBack
CHECK_DEADLOCK FALSE
