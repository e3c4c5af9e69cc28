CONSTANTS
    Gens = {g1, g2}
    NoGen = NoGen
    Together = FALSE
    MaxCrashes = 0
SPECIFICATION FairSpec
PROPERTIES
    AgentReconnects
