SPECIFICATION Spec
CONSTANTS
    f = f
    dir = dir
    d1 = d1
    d2 = d2
    a = a
    b = b
    c = c
    Name = {f, dir}
    Line = {0, 1}
    Directory = Directory
    None = None
    Binary <- OneBinary
    Device <- MCDevice
    Seeds <- InnerSeed
    UserEntries <- InnerText
    MaxEdits = 2
    MaxInterrupts = 1
    Modes = {"Reconcile", "DiscardLocal"}
    LateEdits = FALSE
    TornApply = FALSE
SYMMETRY DeviceSymmetry
INVARIANTS
    BaseIsPublished
    EditsPreserved
PROPERTIES
    PublishesOverBase
    NoLostUpdate
