------------------------------ MODULE PinStore ------------------------------
(***************************************************************************)
(* The trust-on-first-use registry of app identity keys                    *)
(* (internal/pairing/pinstore.go).  Every operation holds the store's      *)
(* mutex; the ones that change it rewrite <data_dir>/paired_devices.json   *)
(* atomically, and when that write fails the change stays in memory.       *)
(***************************************************************************)
CONSTANTS Accounts,  \* account ids
          Apps       \* app identity keys

VARIABLES devices,     \* s.devices: what is recorded for each account and key
          devicesDisk  \* the file

pinVars == <<devices, devicesDisk>>

PinStates == {"none", "unverified", "verified"}

PinTypeOK ==
    /\ devices \in [Accounts -> [Apps -> PinStates]]
    /\ devicesDisk \in [Accounts -> [Apps -> PinStates]]

PinInit ==
    /\ devices = [a \in Accounts |-> [p \in Apps |-> "none"]]
    /\ devicesDisk = devices

IsVerified(a, p) == devices[a][p] = "verified"

\* No record of this key, and a different key of the account is verified.
SafetyNumberChanged(a, p) ==
    /\ devices[a][p] = "none"
    /\ \E q \in Apps : q # p /\ devices[a][q] = "verified"

FirstContact(a, p) == devices[a][p] = "none" /\ ~SafetyNumberChanged(a, p)

\* A mutant: earlier attempts stay in the store.
EvictedNone(a, p) == [devices[a] EXCEPT ![p] = "unverified"]

\* The account's unverified keys make room for the new one.
Evicted(a, p) ==
    [q \in Apps |-> CASE q = p -> "unverified"
                      [] q # p /\ devices[a][q] = "unverified" -> "none"
                      [] OTHER -> devices[a][q]]

\* saveLocked: the whole map is written, or the write fails.
saveLocked(ok) == devicesDisk' = IF ok THEN devices' ELSE devicesDisk

\* Observe, where it changes the store.
Observe(a, p, saved) ==
    /\ FirstContact(a, p)
    /\ devices' = [devices EXCEPT ![a] = Evicted(a, p)]
    /\ saveLocked(saved)

\* Verify: an error unless the key is recorded.
PinVerify(a, p, saved) ==
    /\ devices[a][p] # "none"
    /\ devices' = [devices EXCEPT ![a][p] = "verified"]
    /\ saveLocked(saved)

\* A mutant: a file that cannot be read counts as no file.
LoadPinStoreAnyway ==
    /\ devices' \in {devicesDisk, [a \in Accounts |-> [p \in Apps |-> "none"]]}
    /\ UNCHANGED devicesDisk

\* LoadPinStore, when the process starts again.
LoadPinStore ==
    /\ devices' = devicesDisk
    /\ UNCHANGED devicesDisk
=============================================================================
