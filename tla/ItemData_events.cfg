SPECIFICATION Spec
CONSTANTS
    Items = {sword, ring}
    Exists = {sword}
    Owned = {ring}
    MaxTransfers = 1
    MaxReloads = 1
    EngineAsks = TRUE
INVARIANTS TypeOK SentCanComplete NoneWaitsInWorld
PROPERTIES PromiseKept
