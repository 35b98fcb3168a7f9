CONSTANTS
    MaxUtterances = 3
    MaxBlocks = 3
    Slack = 1
SPECIFICATION VoiceSpec
INVARIANTS
    VoiceTypeOK
    FinalJobIsTheUtterance
    NothingAfterFinal
    EveryTurnAnswered
PROPERTIES
    CommitReturns
CHECK_DEADLOCK FALSE
