CONSTANTS
    Bodies = {b1, b2}
    Workers = {w1, w2}
    Generators = {g1, g2}
    Pollers = {p1}
    NoBody = NoBody
SPECIFICATION WarmSpec
INVARIANTS
    WarmTypeOK
    OneWorkerForPending
PROPERTIES
    DispatchOnlyBetweenGenerations
    NewestIsDispatched
    PendingIsDispatched
