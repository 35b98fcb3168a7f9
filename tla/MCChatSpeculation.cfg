CONSTANTS
    s1 = s1
    s2 = s2
    r1 = r1
    r2 = r2
    p1 = p1
    Keys = {k1, k2}
    NoKey = NoKey
    NoSpec = NoSpec
    NoBody = NoBody
    DraftBody = "warm"
    ReplyBody = "warm"
    Bodies <- MCBodies
    Specs <- MCSpecs
    Sends <- MCSends
    Generators <- MCGenerators
    Prewarms = {p1}
    Workers = {w1}
    Pollers = {}
SPECIFICATION ChatSpec
SYMMETRY KeySymmetry
INVARIANTS
    ChatTypeOK
    OneOwner
    ReplayUndisturbed
    ReplayWillEnd
    DroppedIsAborted
CHECK_DEADLOCK FALSE
