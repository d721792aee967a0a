SPECIFICATION FairServerSpec
CONSTANTS
    MaxHups = 3
    MaxConns = 3
    MaxData = 3
INVARIANTS
    ServerTypeOK
    NeverBlocks
    NoPhantomReport
PROPERTIES
    HupReported
    Served
CHECK_DEADLOCK FALSE
