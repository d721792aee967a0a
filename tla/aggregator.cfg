SPECIFICATION FairSpec
CONSTANTS
    u1 = u1
    u2 = u2
    d1 = d1
    p1 = p1
    r1 = r1
    Jobs = {j1}
    Urls = {u1, u2}
    Domains = {d1}
    DomainOf <- SameDomain
    Workers = {w1, w2}
    ApiProcess = api
    RequestPartitions = {p1}
    RequestPartition <- OneRequestPartition
    ResultPartitions = {r1}
    ResultPartition <- OneResultPartition
    Outcomes <- AnyOutcome
    Bodies <- DistinctUrls
    MaxUrls = 2
    ChunkSize = 1
    NotCreated = NotCreated
    Deleted = Deleted
    NoBody = NoBody
    Garbage = Garbage
    NoWork = NoWork
    NoResult = NoResult
    Nobody = Nobody
    NoOffset = NoOffset
    FreshGroup = FALSE
    MaxFailures = 0
    MaxStops = 1
    MaxEvictions = 1
INVARIANTS
    TypeOK
    HonestDone
    OvercountNeedsFaults
PROPERTIES
    JobFinishes
CHECK_DEADLOCK FALSE
