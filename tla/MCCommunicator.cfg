\* Three ordinary calls and one that cannot be encoded compete for two slots,
\* over a link that may lose the
\* messages of one of them: overflow, slot leak and slot reuse
\* after an answer all happen.
CONSTANTS
    c1 = c1
    c2 = c2
    c3 = c3
    c4 = c4
    NoCall = NoCall
    Calls <- MCCalls
    Unencodable <- MCUnencodable
    MaxUnanswered = 2
    Droppable <- MCDroppable
SPECIFICATION FairSpec
INVARIANTS
    TypeOK
    AnswerMatch
    SlotHeldByItsCall
    NoSlotLeftBehind
PROPERTIES
    RejectedOnlyWhenFull
    SettledWhileConnected
    ImplementsRequestReply
CHECK_DEADLOCK FALSE
