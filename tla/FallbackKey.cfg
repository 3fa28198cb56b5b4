CONSTANTS
    Keys = {k1, k2}
    NoKey = NoKey
    Urls = {u1}
    NoURL = NoURL
    d1 = d1
    d2 = d2
    d3 = d3
    Device = d2
    DeviceIds = {d2}
    NoId = NoId
    Canon <- MCCanon
    Mixed = TRUE
    MaxLost = 0
    MaxBoots = 1
SPECIFICATION Spec
INVARIANTS
    HeldKeyAccepted
CHECK_DEADLOCK FALSE
