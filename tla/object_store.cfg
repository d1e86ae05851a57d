SPECIFICATION Spec
CONSTANTS
    None = None
    Object = {o1, o2}
    Handler = {h1, h2}
    MaxRevision = 2
SYMMETRY HandlerSymmetry
INVARIANTS
    TypeOK
    CatalogIsBacked
    FilesAreWhole
    OneWinnerPerRevision
PROPERTIES
    ImplementsHeadStore
