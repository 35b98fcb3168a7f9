CONSTANTS
    MaxText = 2
    MaxChunks = 2
SPECIFICATION Spec
INVARIANTS
    StreamTypeOK
    DeliveredWhole
    SentenceAfterItsText
    RePrimeIsWholeReply
    OneTakeHeard
    NoRivalSynthesis
PROPERTIES
    StreamEnds
CHECK_DEADLOCK FALSE
