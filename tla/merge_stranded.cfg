SPECIFICATION Spec
CONSTANTS
    f = f
    dir = dir
    d1 = d1
    d2 = d2
    a = a
    b = b
    c = c
    Name = {f, dir}
    Line = {0, 1}
    Directory = Directory
    None = None
    Binary <- NoBinary
    Device <- MCDevice
    Seeds <- TextSeed
    UserEntries <- TextFile
    MaxEdits = 3
    MaxInterrupts = 0
    Modes = {"Reconcile"}
    LateEdits = FALSE
    TornApply = FALSE
INVARIANTS
    BaseIsCached
