CONSTANTS
    Gens = {g1, g2, g3}
    NoGen = NoGen
    Together = FALSE
    MaxCrashes = 1
SPECIFICATION FairSpec
PROPERTIES
    StartsAtLast
