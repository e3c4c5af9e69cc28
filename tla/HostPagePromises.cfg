CONSTANTS
    Hosts = {h1, h2}
    Elsewhere = Elsewhere
    NoRow = NoRow
    MaxVersion = 1
    MaxPolls = 1
    MaxCalls = 2
CHECK_DEADLOCK FALSE
SPECIFICATION Spec
PROPERTIES
    TypedTextKept
INVARIANTS
    DetailShowsError
