CONSTANTS
    t1 = t1
    t2 = t2
    t3 = t3
    Turns = {t1, t2, t3}
    Streaming <- FirstTurn
SPECIFICATION FairSpec
INVARIANTS
    TypeOK
    SerialHistory
    AtMostOneLateTurn
PROPERTIES
    ImplementsLedger
    LockIsFreed
CHECK_DEADLOCK FALSE
