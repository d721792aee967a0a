SPECIFICATION Spec
CONSTANTS
    u1 = u1
    u2 = u2
    p1 = p1
    p2 = p2
    Jobs = {j1}
    Urls = {u1, u2}
    Sinks = {s1, s2}
    ResultPartitions = {p1, p2}
    ResultPartition <- TwoPartitions
    NotCreated = NotCreated
    Deleted = Deleted
    Garbage = Garbage
    NoWork = NoWork
    Nobody = Nobody
    NoOffset = NoOffset
    FreshGroup = FALSE
    MaxTotal = 2
    MaxResults = 3
    MaxFailures = 2
    MaxStops = 1
    MaxEvictions = 1
SYMMETRY TwoPartitionSymmetry
CONSTRAINT FourMessagesAndFaults
INVARIANTS
    CountersMatchRows
    SinkInvariant
    AtLeastOnceUnlessRejected
    LossesNeedRejections
PROPERTIES
    ImplementsJobBoard
CHECK_DEADLOCK FALSE
