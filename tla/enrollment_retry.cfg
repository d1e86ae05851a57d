SPECIFICATION Spec
CONSTANTS
    None = None
    Device = {d0, d1, d2}
    Key = {}
    RequestId = {}
    Founder = d0
    Place = {home, p1}
    Home = home
    MaxChanges = 1
    MaxFaults = 1
SYMMETRY JoinSymmetry
INVARIANTS
    PendingCanFinish
