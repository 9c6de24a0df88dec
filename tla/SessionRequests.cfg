SPECIFICATION Spec
CONSTANTS
    Ids = {i1,i2}
    Handlers = {h1,h2}
    Sessions = {s1}
    Timers = {t1}
    Requests = {r1}
    NoSession = NoSession
    NoTimer = NoTimer
    MaxRetries = 2
    Wanted = {0,3}
    Lossy = FALSE
SYMMETRY Symmetry
INVARIANTS IdleSessionsTimed
CHECK_DEADLOCK FALSE
