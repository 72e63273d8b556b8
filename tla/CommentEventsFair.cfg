\* Two instances, one call at a time, any one fault, under fairness; liveness
\* rules symmetry out.
CONSTANTS
    Comment = {c1, c2}
    Request = {r1}
    Instance = {i1, i2}
    NoComment = NoComment
    NoInstance = NoInstance
    Faults = {"broker", "redis", "crash", "rebalance", "stop"}
    MaxFaults = 1

SPECIFICATION FairSpec
PROPERTIES
    SuccessSettled
    Recovers
