CONSTANTS
    Providers = {x1}
    Sessions = {s1}
    Processes = {p1, p2}
    Requests = {r1, r2}
    None = None
    Scenarios = {c1}
    Jobs = {j1, j2}
    MaxEditions = 2
    MaxVersion = 1
SPECIFICATION CatalogueSpec
SYMMETRY Symmetry
INVARIANTS
    CatalogueTypeOK
    RetiredProvidersRest
    DenialsAreJustified
    ExportsAreWhole
    ViewsAreUpToDate
PROPERTIES
    RefusalsAreJustified
CHECK_DEADLOCK FALSE
