SPECIFICATION FairSpec
CONSTANTS
    Processes = {p1, p2}
    MaxWrites = 5
INVARIANTS
    TypeOK
    RestartsAreSound
PROPERTIES
    WritesLast
    ImplementsDurableState
CHECK_DEADLOCK FALSE
