\* Three overlapping attempts, on Redis and in memory, every set of faults.
CONSTANTS
    Request = {r1, r2, r3}
    MaxAttempts = 2
    Window = 3
    MaxAge = 1
    Stores = {"redis", "memory"}
    Faults = {"redis", "crash"}

SPECIFICATION FairSpec
INVARIANTS
    TypeOK
    LockoutBounded
    ExpiryBounded
PROPERTIES
    LimitSpec
    LockoutEnds
