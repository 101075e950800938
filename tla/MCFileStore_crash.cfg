CONSTANTS
    t1 = t1
    t2 = t2
    Clients <- MCClients
    NONE = NONE
    NoInfo = NoInfo
    MaxTs = 2
    IOErrors = FALSE
    MaxCrashes = 1
SPECIFICATION Spec
INVARIANT CacheCoversData
SYMMETRY Symmetry
