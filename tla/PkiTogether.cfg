CONSTANTS
    Gens = {g1, g2}
    NoGen = NoGen
    Together = TRUE
    MaxCrashes = 0
SPECIFICATION Spec
INVARIANTS
    StartedTogetherTalk
