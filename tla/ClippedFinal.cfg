CONSTANTS
    MaxUtterances = 2
    MaxBlocks = 3
    Slack = 1
SPECIFICATION VoiceSpec
INVARIANTS
    FinalCoversAllSpeech
CHECK_DEADLOCK FALSE
