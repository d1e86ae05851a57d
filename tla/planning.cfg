SPECIFICATION Spec
CONSTANTS
    d = d
    s = s
    f = f
    bin = bin
    Name = {d, s, f}
    Line = {0, 1, 2}
    Directory = Directory
    None = None
    Revision = 1
    Binary <- MCBinary
    Universe <- MCUniverse
    Versions <- MCVersions
INVARIANTS
    CombinedIsTree
    EditsSurvive
    UntouchedSideYields
    PlanIsSymmetric
