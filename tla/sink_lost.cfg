SPECIFICATION Spec
CONSTANTS
    u1 = u1
    u2 = u2
    p1 = p1
    p2 = p2
    Jobs = {j1}
    Urls = {u1, u2}
    Sinks = {s1, s2}
    ResultPartitions = {p1}
    ResultPartition <- OnePartition
    NotCreated = NotCreated
    Deleted = Deleted
    Garbage = Garbage
    NoWork = NoWork
    Nobody = Nobody
    NoOffset = NoOffset
    FreshGroup = FALSE
    MaxTotal = 2
    MaxResults = 2
    MaxFailures = 1
    MaxStops = 0
    MaxEvictions = 0
SYMMETRY SinkSymmetry
INVARIANTS
    AtLeastOnce
CHECK_DEADLOCK FALSE
