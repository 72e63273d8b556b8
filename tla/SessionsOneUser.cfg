\* Two overlapping requests, with and without Redis, a lagging replica, every fault.
CONSTANTS
    u1 = u1
    u2 = u2
    t1 = t1
    t2 = t2
    t3 = t3
    NoUser = NoUser
    NoToken = NoToken
    Gone = Gone
    User <- OneUser
    Token = {t1, t2}
    Owner <- OwnerOfAll
    Request = {r1, r2}
    Ops = {"query", "login"}
    Modes = {TRUE, FALSE}
    UseReplica = TRUE
    Faults = {"redis", "db", "crash", "expiry"}
    TTL = 2
    MaxAge = 1
    MaxLag = 1

SPECIFICATION Spec
SYMMETRY Symmetry
INVARIANTS
    TypeOK
    StaleEntryAges
    ExpiredTokenRejected
    RetiredWithoutRedis
PROPERTY RevocationLagBounded
