---------------------------- MODULE KeyRotation -----------------------------
(***************************************************************************)
(* What the key the node publishes promises, without requests, retries or  *)
(* restarts: make before break.  A new key is accepted before it is handed *)
(* over, the holder switches to keys that were accepted, and keys are      *)
(* retired only when the holder holds a different one.  The operator alone *)
(* may take a key away from its holder.                                    *)
(***************************************************************************)
CONSTANTS Key, Nobody

VARIABLES accepted,  \* the keys the node accepts
          taken,     \* the keys the operator revoked
          holding    \* the key the control plane holds

rotationVars == <<accepted, taken, holding>>

RotationInit ==
    /\ accepted = {} /\ taken = {} /\ holding = Nobody

\* The holder may forget its key at any time, also as a new one is offered.
Offer(k) ==
    /\ k \notin accepted \cup taken
    /\ accepted' = accepted \cup {k}
    /\ holding' \in {holding, Nobody}
    /\ UNCHANGED taken

HandOver(k) ==
    /\ k \in accepted \cup taken
    /\ holding' = k
    /\ UNCHANGED <<accepted, taken>>

Forget ==
    /\ holding' = Nobody
    /\ UNCHANGED <<accepted, taken>>

Retire(S) ==
    /\ holding \notin S
    /\ accepted' = accepted \ S
    /\ UNCHANGED <<taken, holding>>

OperatorRevokes(k) ==
    /\ k \in accepted
    /\ accepted' = accepted \ {k}
    /\ taken' = taken \cup {k}
    /\ UNCHANGED holding

\* The node starts over with an empty key store, under another identity.
StartOver ==
    /\ accepted' = {} /\ holding' = Nobody
    /\ UNCHANGED taken

RotationNext ==
    \/ \E k \in Key : Offer(k) \/ HandOver(k) \/ OperatorRevokes(k)
    \/ Forget \/ StartOver
    \/ \E S \in SUBSET accepted : Retire(S)

Rotates == RotationInit /\ [][RotationNext]_rotationVars
=============================================================================
