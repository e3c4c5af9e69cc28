CONSTANTS
    Width = 4
    MinBits = 1
    MaxHosts = 8
    Workers = {w1, w2}
    Buffer = 2
    Requested <- MCRequested
    Networks <- MCNetworks
    Rank <- MCRank
    NoAddr = NoAddr
    Inventories <- MCInventories
    Rescans <- MCRescans
    MaxScans = 2
    MaxAdds = 2
SPECIFICATION SpecPanel
INVARIANTS
    AddedOnce
    EmptyScanIsShown
CHECK_DEADLOCK FALSE
