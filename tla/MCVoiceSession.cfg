SPECIFICATION SessionSpec
CONSTANTS
    r1 = r1
    r2 = r2
    Requests <- RequestsMC
    MaxSessions = 2
    Used = {1}
    MaxEvents <- MaxEventsMC
    AudioCap = 1
    EventCap = 2
INVARIANTS
    SessionTypeOK
    DoneMeansAllSaid
    DrainedBeforeDone
CHECK_DEADLOCK FALSE
PROPERTIES
    EventsAreFeeds
    ForgottenIsJoined
    ClosingEnds
