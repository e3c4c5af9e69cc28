CONSTANTS
    Sites = {s1, s2}
    New = new
    Elsewhere = Elsewhere
    NoSite = NoSite
    MaxVersion = 1
    MaxPolls = 2
    MaxFailures = 1
    MaxCalls = 1
    MaxClicks = 3
CHECK_DEADLOCK FALSE
SPECIFICATION Spec
INVARIANTS
    NoForeignSite
PROPERTIES
    OpenedStays
    OwnChangesShown
    TreeSettles
