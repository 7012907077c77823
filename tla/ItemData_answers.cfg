SPECIFICATION FairSpec
CONSTANTS
    Items = {sword, ring}
    Exists = {sword, ring}
    Owned = {ring}
    MaxTransfers = 1
    MaxReloads = 0
    EngineAsks = FALSE
PROPERTIES EveryRequestCompletes
