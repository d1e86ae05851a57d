SPECIFICATION Spec
CONSTANTS
    None = None
    Device = {d0, d1, d2}
    Key = {}
    RequestId = {}
    Founder = d0
    Place = {home, p1, p2}
    Home = home
    MaxChanges = 1
    MaxFaults = 2
SYMMETRY JoinSymmetry
INVARIANTS
    TypeOK
    IdentityKept
    NoHalfWorkspace
    EnvelopeNotTooNew
