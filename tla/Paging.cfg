SPECIFICATION FairSpec
CONSTANTS
    Args <- Calls
    Byte = 8
    MaxQuery = 7
    Cols = 2
INVARIANTS
    TypeOK
    LruHoldsMostRecent
    ReferencesServed
    MinStaysOptimal
PROPERTIES
    EvictionSpec
    RunEnds
