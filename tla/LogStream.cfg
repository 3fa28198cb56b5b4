CONSTANTS
    Capacity = 3
    Buffer = 2
    MaxSeq = 12
SPECIFICATION Spec
INVARIANTS
    BacklogIsTail
    ShownOnce
    GapAnnounced
