CONSTANTS
    Links = {l1, l2}
    Shells = {s1}
    NoLink = NoLink
    Nobody = Nobody
    MaxOutput = 2
    MaxInput = 1
CHECK_DEADLOCK FALSE
SPECIFICATION FairSpec
INVARIANTS
    NothingLeftBehind
    BlocksOnlyOnOpened
    NoConsoleOnDeadLink
PROPERTIES
    EveryOpenAnswered
    ReadLoopFreed
    HubLockReleased
    PtyExitEndsConsole
    CutEndsConsoles
