SPECIFICATION Spec
CONSTANTS
    u1 = u1
    u2 = u2
    d1 = d1
    o1 = o1
    o2 = o2
    Handlers = {h1, h2, h3}
    Urls = {u1, u2}
    Domains = {d1}
    DomainOf <- OneHost
    Origins = {o1, o2}
    OriginOf <- TwoOrigins
    Disallowed = {u1}
    NoUrl = NoUrl
    Concurrency = 2
    DomainConcurrency = 1
    MaxAttempts = 3
    Endings = {"200", "503", "Connect Timeout Error", "max_bytes_exceeded"}
    MaxRequests = 3
INVARIANTS
    SemaphoresSound
    HonestResult
    RobotsRespected
SYMMETRY HandlerSymmetry
