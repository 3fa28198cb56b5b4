CONSTANTS
    Keys = {}
    NoKey = NoKey
    Urls = {u1, u2}
    NoURL = NoURL
    DeviceIds = {d1}
    NoId = NoId
    Canon <- MCCanon
    Mixed = TRUE
    MaxLost = 0
    MaxBoots = 0
SPECIFICATION FairSpec
INVARIANTS
    BeliefConsistent
    NoLostWakeup
    DestinationKnown
PROPERTIES
    Converges
    Withdraws
CHECK_DEADLOCK FALSE
