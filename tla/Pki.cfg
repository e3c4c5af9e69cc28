CONSTANTS
    Gens = {g1, g2, g3, g4}
    NoGen = NoGen
    Together = FALSE
    MaxCrashes = 2
SPECIFICATION FairSpec
INVARIANTS
    EnsuredAssetsWork
PROPERTIES
    StartsWell
