SPECIFICATION Spec
CONSTANTS
    Ids = {i1}
    Handlers = {h1,h2}
    Sessions = {s1,s2}
    Timers = {t1,t2}
    Requests = {}
    NoSession = NoSession
    NoTimer = NoTimer
    MaxRetries = 1
    Wanted = {0,1}
    Lossy = TRUE
SYMMETRY Symmetry
INVARIANTS TypeOK ListedChannelsOpen ListedTimersLive NoGhostListeners
CHECK_DEADLOCK FALSE
