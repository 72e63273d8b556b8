\* Two instances, two overlapping calls, any two faults but stops.
CONSTANTS
    Comment = {c1, c2}
    Request = {r1, r2}
    Instance = {i1, i2}
    NoComment = NoComment
    NoInstance = NoInstance
    Faults = {"broker", "redis", "crash", "rebalance"}
    MaxFaults = 2

SPECIFICATION Spec
INVARIANTS
    TypeOK
    EventsNameOwner
    HandledBeforeCommitted
PROPERTIES
    DuplicateRejected
    NoticesSpec
SYMMETRY Symmetry
