SPECIFICATION FairSpec
CONSTANTS
    Containers = {c1, c2}
    Nobody = Nobody
    MaxRounds = 2
    MaxCrashes = 2
INVARIANTS
    TypeOK
    NameExclusive
    OwnContent
    NamesBounded
PROPERTIES
    LockIsReleased
CHECK_DEADLOCK FALSE
