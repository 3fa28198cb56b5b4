CONSTANTS
    Procs = {p1, p2}
    NoProc = NoProc
    Models = {m1}
    NoModel = NoModel
    Id = Id
    NoId = NoId
    NoTXT = NoTXT
SPECIFICATION Spec
INVARIANTS
    ServersAccounted
    NoModelWhenStopped
    AdvertWithdrawn
SYMMETRY Symmetry
