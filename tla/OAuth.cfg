CONSTANTS
    Flows = {f1, f2}
    NoFlow = NoFlow
    Callers = {heartbeat, gateway}
    Nobody = Nobody
    MaxGen = 2
SPECIFICATION Spec
INVARIANTS
    StoredTokenLive
    NoTokenReuse
    CacheAgrees
    DisconnectForgets
PROPERTIES
    FlowSingleUse
