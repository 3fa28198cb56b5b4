CONSTANTS
    Conns = {c1, c2}
    Nobody = Nobody
    Kids = {1, 2}
    MaxVersion = 3
    Gens = {g1, g2}
    NoGen = NoGen
    maxClients = 1
    MaxStarts = 2
SPECIFICATION FairSpec
INVARIANTS
    SlotsKept
    NoOrphans
    KnownKid
    NoFetchStorm
PROPERTIES
    KeysNotRegress
    VerificationEnds
CHECK_DEADLOCK FALSE
