CONSTANTS
    Keys = {k1, k2}
    NoKey = NoKey
    Urls = {u1}
    NoURL = NoURL
    d1 = d1
    d2 = d2
    d3 = d3
    Device = d2
    DeviceIds = {d1, d2, d3}
    NoId = NoId
    Canon <- MCCanon
    Mixed = FALSE
    MaxLost = 1
    MaxBoots = 1
SYMMETRY KeySymmetry
SPECIFICATION Spec
CONSTRAINT Bounded
INVARIANTS
    OneDestination
    HeldKeyAccepted
PROPERTIES
    PersonKeysKept
    MakeBeforeBreak
CHECK_DEADLOCK FALSE
