SPECIFICATION FairSpec
CONSTANTS
    Devices = {d1,d2}
    Items = {i1}
    Buttons = {i1}
    Keys = {}
    MaxTime = 3
    MaxAge = 1
    MaxFaults = 1
    NoFile = NoFile
INVARIANTS TypeOK
PROPERTIES VersionsGrow RemoteLossCovered ItemsSettle
CHECK_DEADLOCK FALSE
