SPECIFICATION FairSpec
CONSTANTS
    Ids = {i1}
    Handlers = {h1,h2}
    Sessions = {s1}
    Timers = {t1,t2}
    Requests = {}
    NoSession = NoSession
    NoTimer = NoTimer
    MaxRetries = 1
    Wanted = {0}
    Lossy = FALSE
PROPERTIES AbandonedSessionsEnd ClosedChannelsReturn
CHECK_DEADLOCK FALSE
