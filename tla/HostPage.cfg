CONSTANTS
    Hosts = {h1, h2}
    Elsewhere = Elsewhere
    NoRow = NoRow
    MaxVersion = 1
    MaxPolls = 1
    MaxCalls = 2
SPECIFICATION Spec
INVARIANTS
    NoForeignHost
    SavedSticks
PROPERTIES
    LoadingEnds
