CONSTANTS
    Agents = {a1}
    Conns = {c1, c2}
    Hosts = {h1, h2}
    Portals = {p1}
    NoAgent = NoAgent
    NoConn = NoConn
    Nothing = Nothing
    Reports = {"absent"}
    MaxCrashes = 1
    MaxDbErrors = 0
SPECIFICATION Spec
SYMMETRY ConnsAndHosts
INVARIANTS
    OnlyStraddlingEditsTear
    HubEntryServed
    OneRowPerAgent
PROPERTIES
    SlotLostOnlyToNewer
    DeletedStaysDeleted
