SPECIFICATION Spec
CONSTANTS
    None = None
    Foreign = Foreign
    Process = {p1, p2}
    Handler = {h1, h2}
    Nonce = {n1, n2}
    MaxSkew = 1
    Statements = 2
    Databases <- MCDatabases
    MaxTime = 2
    MaxStarts = 3
    MaxAborts = 1
SYMMETRY ServerSymmetry
CHECK_DEADLOCK FALSE
INVARIANTS
    TypeOK
    RepeatsAreStale
    ServedFromWholeSchema
PROPERTIES
    OpeningIsAtomic
