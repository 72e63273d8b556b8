\* Fair scheduling, a connection that fails now and then.
CONSTANTS
    Request = {r1, r2, r3}
    MaxAttempts = 2
    Window = 2
    MaxAge = 1
    Stores = {"redis"}
    Faults = {"redis"}

SPECIFICATION FairSpec
PROPERTY EveryLockoutEnds
