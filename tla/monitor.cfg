SPECIFICATION FairMonitorSpec
CONSTANTS
    EventCount = 8
INVARIANTS
    NeverBothWaiting
    InOrder
    AllProcessed
PROPERTIES
    Ends
