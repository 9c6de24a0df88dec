SPECIFICATION FairSpec
CONSTANTS
    Ids = {i1}
    Handlers = {h1}
    Sessions = {s1}
    Timers = {t1}
    Requests = {}
    NoSession = NoSession
    NoTimer = NoTimer
    MaxRetries = 1
    Wanted = {0}
    Lossy = FALSE
PROPERTIES NoneLeftBehind
CHECK_DEADLOCK FALSE
