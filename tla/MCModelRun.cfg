CONSTANTS
    t1 = t1
    t2 = t2
    v1 = v1
    NoOverride = NoOverride
    NoThread = NoThread
    Idle <- MCIdle
    Threads <- MCThreads
    VoiceThreads <- MCVoiceThreads
    Ceilings <- MCCeilings
    Requested <- MCRequested
    Horizon <- MCHorizon
SPECIFICATION Spec
INVARIANTS
    TypeOK
    RunsSerialized
    StampIsTheHolders
    RefusedOnlyIfContended
PROPERTIES
    BoundedWait
