SPECIFICATION Spec
CONSTANTS
    MaxSize = 3
    HeaderSize = 2
    SeqModulus = 4
    MaxFrame = 13
INVARIANTS
    HeaderFirst
