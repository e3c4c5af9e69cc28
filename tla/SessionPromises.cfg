CONSTANTS
    Calls = {c1, c2}
    NoCall = NoCall
    Gens = {g1, g2, g3}
    Logins = {n1, n2, n3}
    Mounts = {m1}
    None = None
SPECIFICATION Spec
SYMMETRY Interchangeable
INVARIANTS
    CallbackFindsItsLogin
    LogoutEndsSession
