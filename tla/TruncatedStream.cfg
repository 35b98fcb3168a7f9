CONSTANTS
    MaxText = 2
    MaxChunks = 1
SPECIFICATION Spec
INVARIANTS
    TruncationReported
CHECK_DEADLOCK FALSE
