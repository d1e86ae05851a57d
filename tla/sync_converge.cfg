SPECIFICATION FairSpec
CONSTANTS
    f = f
    dir = dir
    d1 = d1
    d2 = d2
    a = a
    b = b
    c = c
    Name = {f, dir}
    Line = {0, 1}
    Directory = Directory
    None = None
    Binary <- Opaque
    Device <- MCDevice
    Seeds <- EmptySeed
    UserEntries <- OpaqueFile
    MaxEdits = 2
    MaxInterrupts = 1
    Modes = {"Reconcile"}
    LateEdits = FALSE
    TornApply = TRUE
INVARIANTS
    BaseIsPublished
    BaseIsCached
PROPERTIES
    Convergence
