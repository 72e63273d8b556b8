\* The broker refuses one connection or message.
CONSTANTS
    Comment = {c1}
    Request = {r1, r2}
    Instance = {i1}
    NoComment = NoComment
    NoInstance = NoInstance
    Faults = {"broker"}
    MaxFaults = 1

SPECIFICATION FairSpec
PROPERTY InsertedAnnounced
