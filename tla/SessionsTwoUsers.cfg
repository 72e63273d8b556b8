\* Two users, with and without Redis; operations name any user.
CONSTANTS
    u1 = u1
    u2 = u2
    t1 = t1
    t2 = t2
    t3 = t3
    NoUser = NoUser
    NoToken = NoToken
    Gone = Gone
    User <- TwoUsers
    Token = {t1, t3}
    Owner <- OwnerShared
    Request = {r1, r2}
    Ops = {"login", "logout", "deleteUser"}
    Modes = {TRUE, FALSE}
    UseReplica = FALSE
    Faults = {}
    TTL = 1
    MaxAge = 0
    MaxLag = 0

SPECIFICATION Spec
SYMMETRY RequestSymmetry
INVARIANTS
    ActsAsTokenOwner
    RetiredWithoutRedis
PROPERTY OnlyOwnerEndsSession
