CONSTANTS
    Links = {l1, l2}
    Shells = {s1, s2}
    NoLink = NoLink
    Nobody = Nobody
    MaxOutput = 1
    MaxInput = 0
CHECK_DEADLOCK FALSE
SPECIFICATION Spec
SYMMETRY LinksAndShells
INVARIANTS
    NothingLeftBehind
    BlocksOnlyOnOpened
    NoConsoleOnDeadLink
