CONSTANTS
    Capacity = 3
    Buffer = 2
    MaxSeq = 6
SPECIFICATION Spec
INVARIANTS
    NoSilentGap
