CONSTANTS
    Ids = {t1, t2}
    Sockets = {s1, s2}
    Posts = {s1, s2}
    Hosts = {h1}
    NoId = NoId
    NoRun = NoRun
    TTL = 1
    MaxTime = 2
    MaxRestarts = 1
    MaxChanges = 1
CHECK_DEADLOCK FALSE
SYMMETRY Interchangeable
SPECIFICATION SpecConsole
INVARIANTS
    OneLiveSocket
    ShownIsTrue
PROPERTIES
    TicketLifetime
    Refinement
