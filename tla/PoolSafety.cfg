SPECIFICATION Spec
CONSTANTS
    Sessions = {s1,s2}
    Clients = {c1,c2,c3}
    NoClient = NoClient
    Rules = {r1,r2}
    Remote = {r2}
    Callers = {k1,k2}
SYMMETRY Symmetry
INVARIANTS TypeOK CountedByHolders ListenersListed
CHECK_DEADLOCK FALSE
