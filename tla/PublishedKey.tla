---------------------------- MODULE PublishedKey ----------------------------
(***************************************************************************)
(* The key published for one device, as the registration protocol rotates  *)
(* it, against what KeyRotation promises of such a key.                    *)
(***************************************************************************)
EXTENDS Registration

CONSTANT Device  \* the id whose published key is looked at

ASSUME PublishedKeyAssumption == Device \in DeviceIds

\* The key held for the device: nobody comes back to an identity it lost.
Holding == IF Device \in lost THEN NoKey ELSE held[Device]

Rotation == INSTANCE KeyRotation WITH Key <- Keys, Nobody <- NoKey,
                accepted <- Accepted, taken <- revoked, holding <- Holding

(***************************************************************************)
(* The registration protocol, with its lost answers, retries, crashes and  *)
(* restarts, rotates the published key make-before-break: it never takes   *)
(* from the control plane a key it is holding.                             *)
(***************************************************************************)
MakeBeforeBreak == Rotation!Rotates
=============================================================================
