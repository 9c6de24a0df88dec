SPECIFICATION FairSpec
CONSTANTS
    Browsers = {b1,b2}
    Pages = {p1,p2}
    FirstPage = p1
    MaxTime = 3
    MaxTroubles = 1
INVARIANTS TypeOK MergesConverge
PROPERTIES NothingLost EditsArrive
CHECK_DEADLOCK FALSE
