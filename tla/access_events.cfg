SPECIFICATION Spec
CONSTANTS
    NoTask = NoTask
    d1 = d1
    d2 = d2
    k = k
    r1 = r1
    r2 = r2
    r3 = r3
    Device = {d1, d2}
    Key = {k}
    RequestId = {r1, r2, r3}
    Requester <- Twice
    Handler = {h1, h2}
    Founding <- Posted
    MaxPending = 1
    MaxEvents = 2
SYMMETRY HandlerSymmetry
CHECK_DEADLOCK FALSE
INVARIANTS
    TypeOK
    OwnerRemains
    GrantsAreForMembers
    MembersAsked
    OnePendingPerDevice
    PendingBounded
PROPERTIES
    RemovedStaysOut
    DecidedOnCurrentState
