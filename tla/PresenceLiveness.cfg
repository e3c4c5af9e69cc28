CONSTANTS
    Agents = {a1}
    Conns = {c1, c2}
    Hosts = {h1}
    Portals = {p1}
    NoAgent = NoAgent
    NoConn = NoConn
    Nothing = Nothing
    Reports = {"absent"}
    MaxCrashes = 0
    MaxDbErrors = 1
SPECIFICATION FairSpec
PROPERTIES
    PresenceComesBack
    DroppedLinkIsReleased
