CONSTANTS
    Calls = {c1, c2}
    NoCall = NoCall
    Gens = {g1, g2, g3}
    Logins = {n1, n2, n3}
    Mounts = {m1, m2}
    None = None
SPECIFICATION FairSpec
INVARIANTS
    SessionInvariant
    OneLogin
PROPERTIES
    EveryCallSettles
