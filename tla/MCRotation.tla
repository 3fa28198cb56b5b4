----------------------------- MODULE MCRotation -----------------------------
(***************************************************************************)
(* The keys a node publishes and the identity it registers under.  The     *)
(* control plane normalises d1 to d2 and keeps d2 and d3, so the node may  *)
(* adopt an id it did not draw, fail to save it, start again, and lose one *)
(* of the identities d2 and d3.                                            *)
(***************************************************************************)
EXTENDS PublishedKey, TLC
CONSTANTS d1, d2, d3

MCCanon == [d \in DeviceIds |-> IF d = d3 THEN d3 ELSE d2]

\* Keys are drawn at random: any two behave alike.
KeySymmetry == Permutations(Keys)

\* Bounds: what other ids do is explored without keys, and what keys do under
\* the one id d2; capabilities stay on and tokens do not lapse.
Bounded ==
    /\ capable /\ token # "stale"
    /\ \/ ~publish /\ drawn = {}
       \/ lost = {} /\ {deviceID, diskID, minting} \subseteq {NoId, Device}
=============================================================================
