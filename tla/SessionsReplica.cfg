\* Redis, no fault, one request at a time, a lagging replica.
CONSTANTS
    u1 = u1
    u2 = u2
    t1 = t1
    t2 = t2
    t3 = t3
    NoUser = NoUser
    NoToken = NoToken
    Gone = Gone
    User <- OneUser
    Token = {t1, t2, t3}
    Owner <- OwnerOfAll
    Request = {r1}
    Ops = {"query", "login", "logout"}
    Modes = {TRUE}
    UseReplica = TRUE
    Faults = {}
    TTL = 2
    MaxAge = 1
    MaxLag = 2

SPECIFICATION Spec
SYMMETRY Symmetry
INVARIANT RetiredTokenRejected
