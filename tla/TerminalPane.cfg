SPECIFICATION FairSpec
CONSTANTS
    Sockets = {w1,w2}
    NoSocket = NoSocket
    MaxOverlaps = 1
INVARIANTS TypeOK OneSocket OverHoldsNothing NeverStuck
PROPERTIES UnmountedLeaves
CHECK_DEADLOCK FALSE
