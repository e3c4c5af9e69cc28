CONSTANTS
    Links = {l1, l2}
    Shells = {s1}
    NoLink = NoLink
    Nobody = Nobody
    MaxOutput = 2
    MaxInput = 1
CHECK_DEADLOCK FALSE
SPECIFICATION FairSpec
PROPERTIES
    OpenTimesOut
    ReadLoopNeverHeld
