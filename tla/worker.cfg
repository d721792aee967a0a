SPECIFICATION Spec
CONSTANTS
    u1 = u1
    u2 = u2
    d1 = d1
    d2 = d2
    p1 = p1
    p2 = p2
    r1 = r1
    Jobs = {j1}
    Urls = {u1, u2}
    Workers = {w1, w2}
    Domains = {d1, d2}
    DomainOf <- SameDomain
    RequestPartitions = {p1, p2}
    RequestPartition <- TwoPartitions
    ResultPartitions = {r1}
    ResultPartition <- OneResultPartition
    Outcomes <- AnyOutcome
    Garbage = Garbage
    NoWork = NoWork
    NoResult = NoResult
    Nobody = Nobody
    NoOffset = NoOffset
    FreshGroup = FALSE
    MaxRequests = 2
    MaxFailures = 2
    MaxStops = 1
    MaxEvictions = 1
SYMMETRY WorkerSymmetry
INVARIANTS
    AtLeastOnceUnlessRejected
    LossesNeedRejections
    DuplicatesNeedFaults
    OneVisitorPerDomain
CHECK_DEADLOCK FALSE
