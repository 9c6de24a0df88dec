SPECIFICATION FairSpec
CONSTANTS
    Sessions = {s1}
    Clients = {c1}
    NoClient = NoClient
    Rules = {}
    Remote = {}
    Callers = {k1}
PROPERTIES SessionsRelease
CHECK_DEADLOCK FALSE
