------------------------------ MODULE Bonjour ------------------------------
(***************************************************************************)
(* The Bonjour advertisement (internal/lanserve/capability.go, bonjour.go):*)
(* published while LAN serving is on and the LAN server runs, with the     *)
(* current model and the device id in its TXT record.  A watcher looks     *)
(* every 15 seconds; Start and Stop of the LAN capability, and the         *)
(* watcher's looks, each hold the capability's mutex.                      *)
(***************************************************************************)
CONSTANTS Models,   \* model tags
          NoModel,  \* ""
          Id, NoId, \* the device id, and ""
          NoTXT     \* nothing is published

VARIABLES
    lanEnabled,  \* lan.enabled
    server,      \* c.server is set, and its watcher runs
    doomed,      \* a watcher whose context is cancelled has not returned
    device,      \* the id bonjourDeviceID has cached
    advert,      \* the TXT record that is published
    model        \* the compute capability's currentModel

bonjourVars == <<lanEnabled, server, doomed, device, advert>>

TXT == [model: Models \cup {NoModel}, device: {Id, NoId}]

BonjourTypeOK ==
    /\ lanEnabled \in BOOLEAN /\ server \in BOOLEAN /\ doomed \in BOOLEAN
    /\ device \in {Id, NoId}
    /\ advert \in TXT \cup {NoTXT}
    /\ model \in Models \cup {NoModel}

BonjourInit ==
    /\ lanEnabled \in BOOLEAN /\ server = FALSE /\ doomed = FALSE
    /\ device = NoId
    /\ advert = NoTXT
    /\ model = NoModel

\* An id that was resolved is kept, a failure is tried again the next time.
bonjourDeviceID == device' \in IF device = NoId THEN {Id, NoId} ELSE {device}

\* An announcement may fail; an update does not.
reconcileBonjour ==
    /\ bonjourDeviceID
    /\ LET txt == [model |-> model, device |-> device']
       IN \/ lanEnabled /\ advert' = txt
          \/ lanEnabled /\ advert = NoTXT /\ advert' = NoTXT
          \/ ~lanEnabled /\ advert' = NoTXT

LanStart ==
    /\ ~server /\ server' = TRUE
    /\ reconcileBonjour
    /\ UNCHANGED <<lanEnabled, doomed, model>>

\* The watcher's context is cancelled after the mutex is released.
LanStop ==
    /\ server /\ server' = FALSE
    /\ advert' = NoTXT
    /\ doomed' = TRUE
    /\ UNCHANGED <<lanEnabled, device, model>>

\* A mutant: the watcher does not look whether the server is still there.
WatchUnchecked ==
    /\ server \/ doomed
    /\ reconcileBonjour
    /\ UNCHANGED <<lanEnabled, server, doomed, model>>

\* A tick, which a watcher whose context was just cancelled may still take.
Watch ==
    /\ server \/ doomed
    /\ IF server THEN reconcileBonjour /\ UNCHANGED doomed
                 ELSE doomed' = FALSE /\ UNCHANGED <<device, advert>>
    /\ UNCHANGED <<lanEnabled, server, model>>

WatcherReturns ==
    /\ doomed /\ doomed' = FALSE
    /\ UNCHANGED <<lanEnabled, server, device, advert, model>>

ToggleLan ==
    /\ lanEnabled' = ~lanEnabled
    /\ UNCHANGED <<server, doomed, device, advert, model>>
=============================================================================
