CONSTANTS
    MaxText = 2
    MaxChunks = 1
SPECIFICATION Spec
INVARIANTS
    EndsWithVerdict
CHECK_DEADLOCK FALSE
