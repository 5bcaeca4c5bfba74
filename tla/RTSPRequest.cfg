SPECIFICATION Spec
CONSTANTS
    Symbols <- MCSymbols
    Requests <- MCRequests
    LineEnds <- MCLineEnds
CHECK_DEADLOCK FALSE
INVARIANTS
    TypeOK
    ChunksLeaveNoTrace
    UnderstoodWhenWhole
    NeverReadyEarly
