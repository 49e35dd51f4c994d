CONSTANTS
    Modes <- AllModes
    MaxPieces = 6
SPECIFICATION Spec
INVARIANTS
    ShownIsFreeOfMarkers
CHECK_DEADLOCK FALSE
