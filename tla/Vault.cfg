CONSTANTS
    Clients = {c1, c2}
    Operator = c1
    k1 = k1
    k2 = k2
    p1 = p1
    Keys = {k1, k2}
    Generated = {k2}
    Phrases = {p1}
    NoPhrase = NoPhrase
    Absent = Absent
    LockOf <- MCLockOf
    Password = Password
    NoKey = NoKey
    NoRow = NoRow
    NoCall = NoCall
    MaxTyped = 4
    MaxForms = 2
    MaxOthers = 1
CHECK_DEADLOCK FALSE
SPECIFICATION SpecForm
INVARIANTS
    VaultInvariant
PROPERTIES
    CopiedKeyIsStored
    BlankKeeps
