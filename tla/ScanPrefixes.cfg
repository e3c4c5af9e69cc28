CONSTANTS
    Width = 4
    MinBits = 1
    MaxHosts = 8
    Workers = {w1, w2}
    Buffer = 2
    Requested <- MCPrefixes
    Networks <- MCPatterns
    Rank <- MCRank
    NoAddr = NoAddr
    Inventories <- MCInventories
    Rescans <- MCRescans
    MaxScans = 1
    MaxAdds = 0
SPECIFICATION SpecPanel
INVARIANTS
    PoolTypeOK
    AnswerIsRight
PROPERTIES
    ScanReturns
CHECK_DEADLOCK FALSE
