SPECIFICATION LlmSpec
CONSTANTS
    w1 = w1
    w2 = w2
    m1 = m1
    m2 = m2
    v = v
    t = t
    digits = digits
    tiny = tiny
    NoModel = NoModel
    Keep = Keep
    Empty = Empty
    Torn = Torn
    Unreadable = Unreadable
    Writers <- WritersMC
    Models <- ModelsMC
    Values <- ValuesMC
    DefaultValue = v
    Texts <- TextsMC
    Digits <- DigitsMC
    Float <- FloatMC
    DefaultModel = m1
    MaxRestarts = 1
INVARIANTS
    WaitsForItsOwn
    RestartModelWorked
PROPERTIES
    FailedSwitchRestores
    SettingsAnswered
CHECK_DEADLOCK FALSE
