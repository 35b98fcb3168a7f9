SPECIFICATION SessionSafetySpec
CONSTANTS
    r1 = r1
    r2 = r2
    Requests <- RequestsMC
    MaxSessions = 2
    Used = {1}
    MaxEvents <- MaxEventsMC
    AudioCap = 1
    EventCap = 2
INVARIANT RunnersAlwaysJoined
CHECK_DEADLOCK FALSE
