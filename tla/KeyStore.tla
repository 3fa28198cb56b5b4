------------------------------ MODULE KeyStore ------------------------------
(***************************************************************************)
(* The store of bearer keys for the node's OpenAI-compatible surface       *)
(* (internal/openaiapi/keys.go) and the rotation of the one key the node   *)
(* publishes to the control plane (internal/node/inference_key.go).        *)
(*                                                                         *)
(* Every mutation holds the store's mutex, rewrites the file atomically    *)
(* and restores the old slice when the write fails, so memory and disk     *)
(* agree between steps: one variable stands for both and a crash keeps it. *)
(* A secret is known only when it is minted; its hash is what the store    *)
(* keeps, so a key is an element of Keys and Verify is membership.         *)
(***************************************************************************)
CONSTANTS Keys,     \* the secrets the generator can still draw
          NoKey     \* "publish nothing"

ASSUME KeysAssumption == NoKey \notin Keys

VARIABLES keys,     \* the keys stored: records [id, scope]
          drawn,    \* every id ever minted; random ids never repeat
          revoked   \* history: the ids the operator revoked by hand

keyVars == <<keys, drawn, revoked>>

PersonScope == "person"                 \* Scope "" in the file
ControlPlaneKeyScope == "control-plane"
Scopes == {PersonScope, ControlPlaneKeyScope}

KeyRecord == [id: Keys, scope: Scopes]

KeysInit ==
    /\ keys = {}
    /\ drawn = {}
    /\ revoked = {}

\* The ids the store accepts as bearer keys (Verify).
Accepted == {k.id : k \in keys}

\* A mutant: every key counts as the control plane's.
ControlPlaneIdsByName == Accepted

\* The ids of the keys minted for the control plane (MintForControlPlane).
ControlPlaneIds == {k.id : k \in {r \in keys : r.scope = ControlPlaneKeyScope}}

\* mint: a fresh secret is appended and persisted.
MintKey(k, scope) ==
    /\ k \in Keys \ drawn
    /\ keys' = keys \cup {[id |-> k, scope |-> scope]}
    /\ drawn' = drawn \cup {k}
    /\ UNCHANGED revoked

\* RevokeAll on the ids a published key replaces: `gone` are the ones whose
\* removal persisted. Unknown ids are ignored, and a failed write leaves its
\* key in place.
RevokeAll(gone) ==
    /\ keys' = {k \in keys : k.id \notin gone}
    /\ UNCHANGED <<drawn, revoked>>

\* Revoke, from the admin API.
Revoke(id) ==
    /\ id \in Accepted
    /\ keys' = {k \in keys : k.id # id}
    /\ revoked' = revoked \cup {id}
    /\ UNCHANGED drawn
=============================================================================
