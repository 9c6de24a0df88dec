SPECIFICATION FairSpec
CONSTANTS
    Devices = {d1,d2}
    Items = {}
    Buttons = {}
    Keys = {k1,k2}
    MaxTime = 2
    MaxAge = 2
    MaxFaults = 0
    NoFile = NoFile
PROPERTIES VarsSettle
CHECK_DEADLOCK FALSE
