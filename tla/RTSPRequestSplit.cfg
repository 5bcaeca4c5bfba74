SPECIFICATION Spec
CHECK_DEADLOCK FALSE
CONSTANTS
    Symbols <- MCSymbols
    Requests <- MCRequests
    LineEnds <- MCLineEnds
INVARIANT
    SplitRequestUnderstood
