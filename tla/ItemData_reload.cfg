SPECIFICATION FairSpec
CONSTANTS
    Items = {sword}
    Exists = {sword}
    Owned = {}
    MaxTransfers = 1
    MaxReloads = 1
    EngineAsks = FALSE
PROPERTIES EveryRequestCompletes
