SPECIFICATION Spec
CONSTANTS
    PaneSessions = {s1, s2}
    Dirs = {a, b}
    MaxAsks = 2
    NoListing = NoListing
    MaxItems = 3
    Windows = {w1, w2}
    ButtonIds = {1, 2, 3}
    Groups = {g, h}
    MaxButtons = 3
    MaxAsked = 2
    Pinned = {1}
    MaxPanes = 2
    MaxIds = 2
    MaxMarks = 1
    MaxWrites = 3
    HostNames = {x, y}
    Parts = {c, d}
    Cols = 3
    Screen = 1
    MaxRows = 2
    MaxSteps = 2
    Latest = 1
    MaxRecent = 2
    MaxNews = 1
    BarPanes = {t, u}
    MaxPending = 2
    AppPasswords = {old, new}
    HostKeys = {k, m}
    MaxDeks = 2
    MaxChanges = 2
    MaxText = 2
    MaxCalls = 2
CONSTRAINT Bounded
SYMMETRY Symmetry
INVARIANTS TypeOK BrowserSafe QueueSafe ViewSettles
INVARIANTS TabsConsistent StorageSafe InputSafe TerminalSafe
INVARIANTS ImportSafe DialogSafe SidebarSafe PasswordsSafe
PROPERTIES ListChanges TabSteps ImplementsTransfers
CHECK_DEADLOCK FALSE
