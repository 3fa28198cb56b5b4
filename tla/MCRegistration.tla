--------------------------- MODULE MCRegistration ---------------------------
(***************************************************************************)
(* The registration loop and its wakeups: two URLs, one device id, no keys *)
(* and a control plane some of whose instances predate the newer fields.   *)
(***************************************************************************)
EXTENDS Registration
MCCanon == [d \in DeviceIds |-> d]
=============================================================================
