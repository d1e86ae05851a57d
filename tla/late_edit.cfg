SPECIFICATION Spec
CONSTANTS
    f = f
    dir = dir
    d1 = d1
    d2 = d2
    a = a
    b = b
    c = c
    Name = {f, dir}
    Line = {0, 1}
    Directory = Directory
    None = None
    Binary <- Opaque
    Device <- MCDevice
    Seeds <- FileSeed
    UserEntries <- AnyOpaque
    MaxEdits = 2
    MaxInterrupts = 0
    Modes = {"Reconcile"}
    LateEdits = TRUE
    TornApply = FALSE
INVARIANTS
    BaseIsPublished
