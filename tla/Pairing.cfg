CONSTANTS
    Accounts = {x}
    Apps = {a1, a2}
    Conns = {c1, c2}
    NoAccount = NoAccount
    NoApp = NoApp
    MaxBoots = 1
SPECIFICATION FairSpec
INVARIANTS
    ConfirmedInference
    OneKeyPerAccount
    AwaitingListed
PROPERTIES
    ConfirmationKept
    NoDowngrade
    ConfirmationPickedUp
