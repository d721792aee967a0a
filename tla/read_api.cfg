SPECIFICATION Spec
CONSTANTS
    j1 = j1
    j2 = j2
    u1 = u1
    u2 = u2
    Jobs = {j1, j2}
    Urls = {u1, u2}
    NotCreated = NotCreated
    Deleted = Deleted
    JobUrls <- SomeUrls
    Sinks = {s1, s2}
    NoTx = NoTx
    Limits <- SomeLimits
    DefaultLimit = 1
    MaxLimit = 2
    NoJob = NoJob
    MaxIds = 3
SYMMETRY ReadSymmetry
INVARIANTS
    PagesArePrefix
    NoJobSkipped
    BenchReportsRecorded
CHECK_DEADLOCK FALSE
