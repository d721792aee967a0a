SPECIFICATION ProcessSpec
CONSTANTS
    u1 = u1
    u2 = u2
    d1 = d1
    d2 = d2
    p1 = p1
    p2 = p2
    Jobs = {j1, j2}
    Urls = {u1, u2}
    Domains = {d1, d2}
    DomainOf <- OwnDomain
    RequestPartitions = {p1, p2}
    RequestPartition <- TwoPartitions
    Bodies <- SomeBodies
    MaxUrls = 4
    ChunkSize = 2
    NotCreated = NotCreated
    NoBody = NoBody
    MaxFailures = 2
    MaxStops = 2
    MaxFiles = 3
SYMMETRY JobSymmetry
INVARIANTS
    AcceptedMeansPublished
    RowBeforeRequests
    OrphansNeedFaults
    MigratedOnceBeforeServing
CHECK_DEADLOCK FALSE
