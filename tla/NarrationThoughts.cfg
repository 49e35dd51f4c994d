CONSTANTS
    Modes <- OnlyUncut
    MaxPieces = 6
SPECIFICATION Spec
INVARIANTS
    SavedIsTheTale
CHECK_DEADLOCK FALSE
