SPECIFICATION Spec
CONSTANTS
    Devices = {d1,d2}
    Items = {}
    Buttons = {}
    Keys = {k1}
    MaxTime = 3
    MaxAge = 1
    MaxFaults = 2
    NoFile = NoFile
INVARIANTS VarsHeld
PROPERTIES VarsGrow
SYMMETRY Symmetry
CHECK_DEADLOCK FALSE
