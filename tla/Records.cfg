\* Two overlapping calls of any operation, from an empty database.
CONSTANTS
    Name = {n1, n2}
    Request = {r1, r2}
    MaxUser = 2
    MaxPost = 1
    MaxComment = 1
    SeedName <- NoSeed
    SeedOwner <- NoSeed
    NoRow = NoRow
    NoName = NoName

SPECIFICATION Spec
SYMMETRY Symmetry
INVARIANTS
    TypeOK
    NamesUnique
    NoOrphans
    IndexRefMirrorsId
    DeletedOnce
PROPERTIES
    OwnersWrite
    InternalErrorsExplained
    AtomicSpec
