\* Some sets of optional services, two requests that share a pool of one.
CONSTANTS
    Configs <- SomeConfigs
    Request = {r1, r2}
    MaxQueries = 1
    PoolMax = 1
    RateLimit = 1
    Faults = {"start", "drain"}

SPECIFICATION FairSpec
INVARIANTS
    TypeOK
    CleanExit
    NoRequestCut
    NoQueryOnClosedPool
PROPERTIES
    SignalsLeadToExit
    RequestsSettle
\* The process ends.
CHECK_DEADLOCK FALSE
