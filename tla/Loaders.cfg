\* One context after the other, an HTTP request or a subscription, four writes.
CONSTANTS
    u1 = u1
    u2 = u2
    p1 = p1
    p2 = p2
    k1 = k1
    k2 = k2
    User = {u1, u2}
    Post = {p1, p2}
    Comment = {k1, k2}
    Writer <- Writers
    About <- Abouts
    Seeded <- Seed
    Context = {c1}
    Limits = {0, 1, 3}
    MAX_PAGE_LIMIT = 2
    MaxWrites = 4
    Replicas = {TRUE, FALSE}

SPECIFICATION Spec
INVARIANTS
    TypeOK
    AnswersFresh
    OneValuePerKey
    QueriesBounded
    ReadYourWrites
    MissingAuthorDeleted
