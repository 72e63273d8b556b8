\* Redis, no fault, no replica, two overlapping requests.
CONSTANTS
    u1 = u1
    u2 = u2
    t1 = t1
    t2 = t2
    t3 = t3
    NoUser = NoUser
    NoToken = NoToken
    Gone = Gone
    User <- OneUser
    Token = {t1, t2}
    Owner <- OwnerOfAll
    Request = {r1, r2}
    Ops = {"query", "login", "logout"}
    Modes = {TRUE}
    UseReplica = FALSE
    Faults = {}
    TTL = 2
    MaxAge = 1
    MaxLag = 0

SPECIFICATION Spec
SYMMETRY Symmetry
INVARIANT RetiredTokenRejected
