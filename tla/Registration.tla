---------------------------- MODULE Registration ----------------------------
(***************************************************************************)
(* The registration manager (internal/controlplane/heartbeat.go), the      *)
(* destinations client it calls (client.go) and the control plane it talks *)
(* to, which is external and modelled from the requests the client makes   *)
(* and the answers it tells apart.                                         *)
(*                                                                         *)
(* The manager is one goroutine.  Its requests are split into sending, the *)
(* control plane's answer and the handling of the answer, because tunnel   *)
(* callbacks, config patches, token pushes, the admin API and shutdown all *)
(* run between them.  Between two such points the goroutine reads state    *)
(* that different actors write one variable at a time, so reading it in    *)
(* one step loses no interleaving.                                         *)
(***************************************************************************)
EXTENDS Naturals, FiniteSets, KeyStore

CONSTANTS Urls,       \* public URLs the tunnel can come up with
          NoURL,      \* ""
          DeviceIds,  \* the ids the node or the control plane can draw
          NoId,       \* ""
          Canon,      \* the id under which the control plane files a device
          Mixed,      \* TRUE: some instances predate the newer request fields
          MaxLost,    \* bound: how many identities the node loses; 0: only the
                      \* loop writes device_id, the file stays readable and
                      \* data_dir the same
          MaxBoots    \* bound: how often the process is started again

ASSUME RegistrationAssumption ==
    /\ NoURL \notin Urls
    /\ NoId \notin DeviceIds
    /\ Canon \in [DeviceIds -> DeviceIds]
    /\ \A d \in DeviceIds : Canon[Canon[d]] = Canon[d]
    /\ Mixed \in BOOLEAN
    /\ MaxLost \in Nat
    /\ MaxBoots \in Nat

VARIABLES
    \* Manager fields, guarded by m.mu
    deviceID, tunnelURL, registered, registeredURL, authBlocked,
    subscriptionBlocked,
    \* the goroutine: the kick channel (capacity 1), where it is, what the
    \* last step told it to wait for, and the request it has under way
    kick, pc, wait, req,
    \* the rest of the process: run context cancelled, capabilities that
    \* register enabled, key publishing on, the token, how often the process
    \* was started, and (history) a patch was stored since the last kick and
    \* its Reconcile has yet to come to its Kick
    stopping, capable, publish, token, boots, owed,
    \* <data_dir>/device_id, the id another caller of LoadOrCreateDeviceID
    \* drew and has yet to save there, and (history) the identities whose
    \* file was overwritten or left behind
    diskID, minting, lost,
    \* the control plane: state of the service, destinations, keys it holds
    plane, dest, held,
    \* history: an answer was lost or refused since the last registration
    unsure

mgrVars == <<deviceID, tunnelURL, registered, registeredURL, authBlocked,
             subscriptionBlocked>>
envVars == <<stopping, capable, publish, token, boots, owed>>
idVars  == <<diskID, minting, lost>>
cpVars  == <<plane, dest, held>>
vars    == <<mgrVars, kick, pc, wait, req, envVars, idVars, cpVars, unsure,
             keyVars>>

Tokens  == {"none", "stale", "fresh"}
Answers == {"none", "ok", "401", "402", "404", "422", "error"}
Waits   == {"none", "idle", "interval", "retry", "backoff"}

Registering == {"register", "fallback"}
Deleting    == {"delete", "finalDelete"}
InFlight    == Registering \cup Deleting \cup {"heartbeat"}
Changing    == Registering \cup Deleting  \* requests that change a destination
Phases      == InFlight \cup {"step", "wait", "stopped", "down"}
Up          == pc \notin {"stopped", "down"}

Request == [url: Urls \cup {NoURL}, dev: DeviceIds \cup {NoId},
            key: Keys \cup {NoKey}, olds: SUBSET Keys, token: Tokens,
            answer: Answers]
NoReq   == [url |-> NoURL, dev |-> NoId, key |-> NoKey, olds |-> {},
            token |-> "none", answer |-> "none"]

\* POST /destinations, and a heartbeat or DELETE on one.
RegisterRequest(u, d, k, olds) ==
    [NoReq EXCEPT !.url = u, !.dev = d, !.key = k, !.olds = olds]
\* A 422 to a heartbeat only repeats it without its capability report, which
\* is not part of the model: the two are one heartbeat.
DeviceRequest(d) == [NoReq EXCEPT !.dev = d]

TypeOK ==
    /\ deviceID \in DeviceIds \cup {NoId}
    /\ tunnelURL \in Urls \cup {NoURL}
    /\ registered \in BOOLEAN
    /\ registeredURL \in Urls \cup {NoURL}
    /\ authBlocked \in BOOLEAN
    /\ subscriptionBlocked \in BOOLEAN
    /\ kick \in BOOLEAN
    /\ pc \in Phases
    /\ wait \in Waits /\ (wait = "none" <=> pc # "wait")
    /\ req \in Request /\ (pc \in Registering => req.dev \in DeviceIds)
    /\ stopping \in BOOLEAN
    /\ capable \in BOOLEAN
    /\ publish \in BOOLEAN
    /\ token \in Tokens
    /\ diskID \in DeviceIds \cup {NoId}
    /\ boots \in 0..MaxBoots
    /\ owed \in BOOLEAN
    /\ minting \in DeviceIds \cup {NoId}
    /\ lost \in SUBSET DeviceIds
    /\ plane \in {"ok", "unpaid", "down"}
    /\ dest \in [DeviceIds -> Urls \cup {NoURL}]
    /\ held \in [DeviceIds -> Keys \cup {NoKey}]
    /\ unsure \in BOOLEAN
    /\ keys \in SUBSET KeyRecord
    /\ drawn \in SUBSET Keys
    /\ revoked \in SUBSET Keys

\* With no key to draw, publishing on and off are the same.
Publishing == IF Keys = {} THEN {FALSE} ELSE BOOLEAN

\* NewManager: nothing registered and no tunnel.
Init ==
    /\ KeysInit
    /\ deviceID = NoId /\ tunnelURL = NoURL
    /\ registered = FALSE /\ registeredURL = NoURL
    /\ authBlocked = FALSE /\ subscriptionBlocked = FALSE
    /\ kick = FALSE /\ pc = "step" /\ wait = "none" /\ req = NoReq
    /\ stopping = FALSE
    /\ capable \in BOOLEAN /\ publish \in Publishing
    /\ token = "none"
    /\ diskID = NoId /\ minting = NoId /\ lost = {}
    /\ boots = 0 /\ owed = FALSE
    /\ plane = "ok"
    /\ dest = [d \in DeviceIds |-> NoURL]
    /\ held = [d \in DeviceIds |-> NoKey]
    /\ unsure = FALSE

-----------------------------------------------------------------------------
(***************************************************************************)
(* step: one action of the loop.  The decision reads the manager's fields  *)
(* under the lock and the live configuration.                              *)
(***************************************************************************)
Desired == tunnelURL # NoURL /\ capable

\* A mutant: an unexposed node keeps its registration.
StepIdleKeeping ==
    /\ pc = "step" /\ (~Desired \/ authBlocked)
    /\ pc' = "wait" /\ wait' = "idle"
    /\ UNCHANGED <<mgrVars, kick, req, envVars, idVars, cpVars, unsure, keyVars>>

\* Desired is false and nothing is registered, or the token was refused.
StepIdle ==
    /\ pc = "step"
    /\ \/ ~Desired /\ ~registered
       \/ Desired /\ authBlocked
    /\ pc' = "wait" /\ wait' = "idle"
    /\ UNCHANGED <<mgrVars, kick, req, envVars, idVars, cpVars, unsure, keyVars>>

\* do: the token is read first (ErrNoToken is handled like a 401), and a
\* request on a cancelled context is not sent.
Sent(r, ctx) ==
    [r EXCEPT !.token = token,
              !.answer = IF token = "none" THEN "401"
                         ELSE IF ctx /\ stopping THEN "error" ELSE "none"]

\* A mutant: the control plane is not told.
DeregisterLocally(phase, after) ==
    /\ registered' = FALSE /\ registeredURL' = NoURL
    /\ pc' = after /\ wait' = "none"
    /\ UNCHANGED <<deviceID, tunnelURL, authBlocked, subscriptionBlocked, req,
                   envVars, idVars, cpVars, unsure, keyVars>>

\* deregister: the fields are cleared under the lock, the DELETE follows.
Deregister(phase, after) ==
    /\ registered' = FALSE /\ registeredURL' = NoURL
    /\ IF registered
         THEN /\ pc' = phase
              /\ req' = Sent(DeviceRequest(deviceID), FALSE)
         ELSE pc' = after /\ UNCHANGED req
    /\ wait' = "none"
    /\ UNCHANGED <<deviceID, tunnelURL, authBlocked, subscriptionBlocked,
                   envVars, idVars, cpVars, unsure, keyVars>>

StepDeregister ==
    /\ pc = "step" /\ ~Desired /\ registered
    /\ Deregister("delete", "wait")
    /\ UNCHANGED kick

\* The identity of a device: the id the control plane files it under.
Identity(d) == IF d = NoId THEN {} ELSE {Canon[d]}

MayLose == Cardinality(lost) < MaxLost

\* SaveDeviceID over whatever the file held.
SaveDeviceID(d) ==
    /\ diskID' = d
    /\ lost' = lost \cup (Identity(diskID) \ Identity(d))

\* A mutant: a new id is used without being saved.
LoadOrCreateUnsaved(d) ==
    /\ diskID # NoId => d = diskID
    /\ UNCHANGED <<diskID, lost>>

\* LoadOrCreateDeviceID: the file's id, or, when there is none or the file
\* cannot be read or parsed, a new one that is saved before it is used.
LoadOrCreate(d) ==
    \/ diskID # NoId /\ d = diskID /\ UNCHANGED <<diskID, lost>>
    \/ (diskID = NoId \/ MayLose) /\ SaveDeviceID(d)

EnsureDeviceID(d) ==
    \/ deviceID # NoId /\ d = deviceID /\ UNCHANGED <<deviceID, diskID, lost>>
    \/ deviceID = NoId /\ LoadOrCreate(d) /\ deviceID' = d

\* A mutant: break before make.
MintForRevokingFirst(k, olds) ==
    \/ /\ publish
       /\ k \in Keys \ drawn
       /\ keys' = {[id |-> k, scope |-> ControlPlaneKeyScope]}
       /\ drawn' = drawn \cup {k}
       /\ olds = {} /\ UNCHANGED revoked
    \/ k = NoKey /\ olds = {} /\ UNCHANGED keyVars

\* inferenceKeyProvider.Mint: nothing unless publishing is on; a mint whose
\* write fails registers without a key. The ids the key replaces are noted.
MintFor(k, olds) ==
    \/ /\ publish
       /\ MintKey(k, ControlPlaneKeyScope)
       /\ olds = ControlPlaneIds
    \/ k = NoKey /\ olds = {} /\ UNCHANGED keyVars

\* A mutant: a changed URL is not noticed.
NeverReRegisters == Desired /\ ~authBlocked /\ ~registered

\* Not registered, or under another URL.
NeedsRegister == Desired /\ ~authBlocked /\ (~registered \/ registeredURL # tunnelURL)

StepRegister ==
    /\ pc = "step" /\ NeedsRegister
    /\ \E d \in DeviceIds, k \in Keys \cup {NoKey}, olds \in {{}, ControlPlaneIds} :
         /\ EnsureDeviceID(d)
         /\ MintFor(k, olds)
         /\ req' = Sent(RegisterRequest(tunnelURL, d, k, olds), TRUE)
    /\ pc' = "register"
    /\ UNCHANGED <<tunnelURL, registered, registeredURL, authBlocked,
                   subscriptionBlocked, kick, wait, envVars, minting, cpVars,
                   unsure>>

\* The id could not be persisted: no request, retry later.
StepNoDeviceID ==
    /\ pc = "step" /\ NeedsRegister
    /\ deviceID = NoId /\ (diskID = NoId \/ MayLose)
    /\ pc' = "wait" /\ wait' = "retry"
    /\ UNCHANGED <<mgrVars, kick, req, envVars, idVars, cpVars, unsure, keyVars>>

StepHeartbeat ==
    /\ pc = "step" /\ Desired /\ ~authBlocked /\ ~NeedsRegister
    /\ pc' = "heartbeat"
    /\ req' = Sent(DeviceRequest(deviceID), TRUE)
    /\ UNCHANGED <<mgrVars, kick, wait, envVars, idVars, cpVars, unsure, keyVars>>

-----------------------------------------------------------------------------
(***************************************************************************)
(* The control plane answers the request under way (external).  A request  *)
(* is handled before the client gives up on it or not at all.              *)
(***************************************************************************)
Reply(a) ==
    /\ req' = [req EXCEPT !.answer = a]
    /\ UNCHANGED <<mgrVars, kick, pc, wait, envVars, idVars, plane, unsure, keyVars>>

ServerRegister ==
    /\ pc \in Registering /\ req.answer = "none"
    /\ plane # "down" /\ req.token = "fresh"
    /\ \/ /\ plane = "unpaid"
          /\ Reply("402") /\ UNCHANGED <<dest, held>>
       \/ /\ plane = "ok" /\ Mixed /\ pc = "register"
          /\ Reply("422") /\ UNCHANGED <<dest, held>>
       \/ /\ plane = "ok"
          /\ Reply("ok")
          /\ dest' = [dest EXCEPT ![Canon[req.dev]] = req.url]
          /\ held' = IF req.key = NoKey THEN held
                     ELSE [held EXCEPT ![Canon[req.dev]] = req.key]

ServerHeartbeat ==
    /\ pc = "heartbeat" /\ req.answer = "none"
    /\ plane # "down" /\ req.token = "fresh"
    /\ Reply(CASE plane = "unpaid" -> "402"
               [] plane = "ok" /\ dest[req.dev] = NoURL -> "404"
               [] OTHER -> "ok")
    /\ UNCHANGED <<dest, held>>

ServerDelete ==
    /\ pc \in Deleting /\ req.answer = "none"
    /\ plane # "down" /\ req.token = "fresh"
    /\ Reply(IF dest[req.dev] = NoURL THEN "404" ELSE "ok")
    /\ dest' = [dest EXCEPT ![req.dev] = NoURL]
    /\ held' = [held EXCEPT ![req.dev] = NoKey]

ServerUnauthorized ==
    /\ pc \in InFlight /\ req.answer = "none"
    /\ plane # "down" /\ req.token # "fresh"
    /\ Reply("401") /\ UNCHANGED <<dest, held>>

\* Transport error, 5xx, the client's timeout, or the cancelled run context:
\* the answer does not reach the client, whether or not it was given.
AnswerLost ==
    /\ pc \in InFlight /\ req.answer # "error"
    /\ \/ plane = "down"
       \/ stopping /\ pc \notin Deleting
    /\ Reply("error") /\ UNCHANGED <<dest, held>>

-----------------------------------------------------------------------------
(***************************************************************************)
(* The manager handles the answer.                                         *)
(***************************************************************************)
\* commit: RevokeAll on the keys the new one replaces; a removal whose write
\* fails is logged and leaves its key behind.
CommitKey ==
    \E gone \in SUBSET req.olds : RevokeAll(gone)

\* Register succeeded, on the first request or the fallback: the keys are
\* committed, an id the control plane issued is adopted and saved (a failed
\* save is logged), and the fields change under the lock.
Registers ==
    LET issued == Canon[req.dev] IN
    /\ CommitKey
    /\ \/ issued # req.dev /\ SaveDeviceID(issued)
       \/ UNCHANGED <<diskID, lost>>
    /\ deviceID' = issued
    /\ registered' = TRUE /\ registeredURL' = req.url
    /\ subscriptionBlocked' = FALSE
    /\ unsure' = FALSE
    /\ pc' = "wait" /\ wait' = "interval" /\ req' = NoReq
    /\ UNCHANGED <<tunnelURL, authBlocked, kick, envVars, minting, cpVars>>

RegisterOk ==
    /\ pc \in Registering /\ req.answer = "ok"
    /\ Registers

\* Client.Register on a 422: the request again without capabilities_status
\* and inference_key.
RegisterFallback ==
    /\ pc = "register" /\ req.answer = "422"
    /\ pc' = "fallback"
    /\ req' = [Sent(req, TRUE) EXCEPT !.key = NoKey]
    /\ UNCHANGED <<mgrVars, kick, wait, envVars, idVars, cpVars, unsure, keyVars>>

Settle(w) ==
    /\ pc' = "wait" /\ wait' = w /\ req' = NoReq
    /\ UNCHANGED <<deviceID, tunnelURL, kick, envVars, idVars, cpVars, keyVars>>

\* 401 or no token: blocked until NotifyTokenUpdated; the registration is
\* left as it was.
RegisterUnauthorized ==
    /\ pc \in Registering /\ req.answer = "401"
    /\ Settle("idle")
    /\ authBlocked' = TRUE /\ unsure' = TRUE
    /\ UNCHANGED <<registered, registeredURL, subscriptionBlocked>>

\* A mutant: the node still looks registered.
KeepRegistered402 ==
    /\ pc \in {"register", "fallback", "heartbeat"} /\ req.answer = "402"
    /\ Settle("backoff")
    /\ subscriptionBlocked' = TRUE /\ registeredURL' = NoURL
    /\ unsure' = TRUE
    /\ UNCHANGED <<registered, authBlocked>>

\* 402, on a registration or a heartbeat: under one lock.
PaymentRequired ==
    /\ pc \in {"register", "fallback", "heartbeat"} /\ req.answer = "402"
    /\ Settle("backoff")
    /\ subscriptionBlocked' = TRUE
    /\ registered' = FALSE /\ registeredURL' = NoURL
    /\ unsure' = TRUE
    /\ UNCHANGED authBlocked

\* A mutant: the old keys are retired although the request failed.
RegisterFailedCommits ==
    /\ pc \in Registering /\ req.answer = "error"
    /\ CommitKey
    /\ pc' = "wait" /\ wait' = "retry" /\ req' = NoReq /\ unsure' = TRUE
    /\ UNCHANGED <<mgrVars, kick, envVars, idVars, cpVars>>

\* Any other failure: nothing changes, and the loop retries.
RegisterFailed ==
    /\ pc \in Registering /\ req.answer = "error"
    /\ Settle("retry")
    /\ unsure' = TRUE
    /\ UNCHANGED <<registered, registeredURL, authBlocked, subscriptionBlocked>>

\* A heartbeat that fails for any other reason is repeated like one that
\* succeeds.
HeartbeatKept ==
    /\ pc = "heartbeat" /\ req.answer \in {"ok", "error"}
    /\ Settle("interval")
    /\ UNCHANGED <<registered, registeredURL, authBlocked, subscriptionBlocked,
                   unsure>>

HeartbeatUnauthorized ==
    /\ pc = "heartbeat" /\ req.answer = "401"
    /\ Settle("idle")
    /\ authBlocked' = TRUE
    /\ registered' = FALSE /\ registeredURL' = NoURL
    /\ unsure' = TRUE
    /\ UNCHANGED subscriptionBlocked

HeartbeatNotFound ==
    /\ pc = "heartbeat" /\ req.answer = "404"
    /\ Settle("retry")
    /\ registered' = FALSE /\ registeredURL' = NoURL
    /\ UNCHANGED <<authBlocked, subscriptionBlocked, unsure>>

\* Best effort: the outcome is only logged.
DeleteDone ==
    /\ pc \in Deleting /\ req.answer # "none"
    /\ IF pc = "delete" THEN pc' = "wait" /\ wait' = "idle"
                        ELSE pc' = "stopped" /\ UNCHANGED wait
    /\ req' = NoReq
    /\ unsure' = (unsure \/ req.answer \in {"401", "error"})
    /\ UNCHANGED <<mgrVars, kick, envVars, idVars, cpVars, keyVars>>

HandleAnswer ==
    \/ RegisterOk \/ RegisterFallback \/ RegisterUnauthorized
    \/ PaymentRequired \/ RegisterFailed \/ HeartbeatKept
    \/ HeartbeatUnauthorized \/ HeartbeatNotFound \/ DeleteDone

Step ==
    \/ StepIdle \/ StepDeregister \/ StepRegister \/ StepNoDeviceID
    \/ StepHeartbeat

-----------------------------------------------------------------------------
(***************************************************************************)
(* Run's select: a kick, the timer, or the cancelled context; any of them  *)
(* that is ready may be taken.                                             *)
(***************************************************************************)
WakeKick ==
    /\ pc = "wait" /\ kick
    /\ kick' = FALSE /\ pc' = "step" /\ wait' = "none"
    /\ UNCHANGED <<mgrVars, req, envVars, idVars, cpVars, unsure, keyVars>>

WakeTimer ==
    /\ pc = "wait"
    /\ pc' = "step" /\ wait' = "none"
    /\ UNCHANGED <<mgrVars, kick, req, envVars, idVars, cpVars, unsure, keyVars>>

RunDone ==
    /\ pc = "wait" /\ stopping
    /\ Deregister("finalDelete", "stopped")
    /\ UNCHANGED kick

-----------------------------------------------------------------------------
(***************************************************************************)
(* The rest of the node.                                                   *)
(***************************************************************************)
\* A mutant: the loop is not woken.
SetTunnelURLSilent(u) ==
    /\ Up /\ u # tunnelURL
    /\ tunnelURL' = u
    /\ UNCHANGED <<deviceID, registered, registeredURL, authBlocked,
                   subscriptionBlocked, kick, pc, wait, req, envVars, idVars, cpVars,
                   unsure, keyVars>>

\* A tunnel manager's callback or Reconcile feeds the URL; a change kicks.
SetTunnelURL(u) ==
    /\ Up /\ u # tunnelURL
    /\ tunnelURL' = u /\ kick' = TRUE /\ owed' = FALSE
    /\ UNCHANGED <<deviceID, registered, registeredURL, authBlocked,
                   subscriptionBlocked, pc, wait, req, stopping, capable, publish,
                   token, boots, idVars, cpVars, unsure, keyVars>>

\* ApplyConfigPatch: capabilities, key publishing, or an auth_mode whose source
\* has another token. The configuration is visible at once; the kick comes at
\* the end of the Reconcile that follows, much later. Only NotifyTokenUpdated
\* clears authBlocked.
ConfigPatch(c, p, t) ==
    /\ Up /\ <<c, p, t>> # <<capable, publish, token>>
    /\ capable' = c /\ publish' = p /\ token' = t /\ owed' = ~kick
    /\ UNCHANGED <<mgrVars, kick, pc, wait, req, stopping, boots, idVars, cpVars,
                   unsure, keyVars>>

\* A mutant: Reconcile ends without its Kick.
ReconcileSilent ==
    /\ Up /\ owed
    /\ owed' = FALSE
    /\ UNCHANGED <<mgrVars, kick, pc, wait, req, stopping, capable, publish,
                   token, boots, idVars, cpVars, unsure, keyVars>>

\* Every Reconcile, on its 30 second tick too, ends with Kick.
ReconcileKick ==
    /\ Up /\ ~kick
    /\ kick' = TRUE /\ owed' = FALSE
    /\ UNCHANGED <<mgrVars, pc, wait, req, stopping, capable, publish, token,
                   boots, idVars, cpVars, unsure, keyVars>>

\* The credential changes (SetJWT, sign-in, disconnect), and the manager is
\* told with NotifyTokenUpdated. The token is read only when a request is
\* sent, so the two may be one step.
SetToken(t) ==
    /\ Up
    /\ token' = t
    /\ authBlocked' = FALSE /\ kick' = TRUE /\ owed' = FALSE
    /\ UNCHANGED <<deviceID, tunnelURL, registered, registeredURL,
                   subscriptionBlocked, pc, wait, req, stopping, capable,
                   publish, boots, idVars, cpVars, unsure, keyVars>>

\* bonjourDeviceID or provisionManagedTunnel calls LoadOrCreateDeviceID too,
\* with no lock in common with the loop: it found no id it could read and
\* drew one ...
OtherMints(d) ==
    /\ MayLose /\ Up /\ minting = NoId
    /\ minting' = d
    /\ UNCHANGED <<mgrVars, kick, pc, wait, req, envVars, diskID, lost, cpVars,
                   unsure, keyVars>>

\* ... and saves it, over an id the loop may have saved and used meanwhile; or
\* the save fails. A save the loop overwrites in turn leaves what a failed one
\* leaves, so the loop's own read and write may be one step.
OtherSaves ==
    /\ minting # NoId /\ minting' = NoId
    /\ SaveDeviceID(minting) \/ UNCHANGED <<diskID, lost>>
    /\ UNCHANGED <<mgrVars, kick, pc, wait, req, envVars, cpVars, unsure, keyVars>>

\* data_dir is changed: the next start finds neither the id nor the keys.
OtherDataDir ==
    /\ MayLose /\ ~Up
    /\ diskID' = NoId /\ lost' = lost \cup Identity(diskID)
    /\ keys' = {}
    /\ UNCHANGED <<mgrVars, kick, pc, wait, req, envVars, minting, cpVars, unsure,
                   drawn, revoked>>

\* The admin API's key routes.
AdminMintKey(k) ==
    /\ Up /\ MintKey(k, PersonScope)
    /\ UNCHANGED <<mgrVars, kick, pc, wait, req, envVars, idVars, cpVars, unsure>>

AdminRevokeKey(k) ==
    /\ Up /\ Revoke(k)
    /\ UNCHANGED <<mgrVars, kick, pc, wait, req, envVars, idVars, cpVars, unsure>>

\* A signal or the admin API's shutdown cancels the run context.
Shutdown ==
    /\ Up /\ ~stopping
    /\ stopping' = TRUE
    /\ UNCHANGED <<mgrVars, kick, pc, wait, req, capable, publish, token,
                   boots, owed, idVars, cpVars, unsure, keyVars>>

\* The process dies: everything in memory is gone.
Crash ==
    /\ Up
    /\ deviceID' = NoId /\ tunnelURL' = NoURL
    /\ registered' = FALSE /\ registeredURL' = NoURL
    /\ authBlocked' = FALSE /\ subscriptionBlocked' = FALSE
    /\ kick' = FALSE /\ pc' = "down" /\ wait' = "none" /\ req' = NoReq
    /\ stopping' = FALSE /\ owed' = FALSE /\ minting' = NoId /\ unsure' = TRUE
    /\ UNCHANGED <<capable, publish, token, boots, diskID, lost, cpVars, keyVars>>

\* The process is started again (NewManager). A pushed JWT is gone; a key in
\* the environment or a stored grant is still there.
Boot ==
    /\ ~Up /\ boots < MaxBoots
    /\ boots' = boots + 1
    /\ deviceID' = NoId /\ tunnelURL' = NoURL
    /\ registered' = FALSE /\ registeredURL' = NoURL
    /\ authBlocked' = FALSE /\ subscriptionBlocked' = FALSE
    /\ kick' = FALSE /\ pc' = "step" /\ wait' = "none" /\ req' = NoReq
    /\ stopping' = FALSE /\ owed' = FALSE /\ minting' = NoId
    /\ token' \in {token, "none"}
    /\ UNCHANGED <<capable, publish, diskID, lost, cpVars, unsure, keyVars>>

-----------------------------------------------------------------------------
(***************************************************************************)
(* The control plane on its own (external): tokens lapse, the plan and the *)
(* service change, and a destination nobody refreshes is dropped at TTL.   *)
(***************************************************************************)
TokenLapses ==
    /\ token = "fresh" /\ token' = "stale"
    /\ UNCHANGED <<mgrVars, kick, pc, wait, req, stopping, capable, publish,
                   boots, owed, idVars, cpVars, unsure, keyVars>>

PlaneChange(s) ==
    /\ s # plane /\ plane' = s
    /\ UNCHANGED <<mgrVars, kick, pc, wait, req, envVars, idVars, dest, held,
                   unsure, keyVars>>

\* Registered a moment ago, or kept alive by heartbeats.
Refreshing ==
    \/ pc \in Registering /\ req.answer = "ok"
    \/ Up /\ registered /\ ~authBlocked /\ Desired /\ plane = "ok"

TTLReap(d) ==
    /\ dest[d] # NoURL /\ ~Refreshing
    /\ dest' = [dest EXCEPT ![d] = NoURL]
    /\ held' = [held EXCEPT ![d] = NoKey]
    /\ UNCHANGED <<mgrVars, kick, pc, wait, req, envVars, idVars, plane, unsure,
                   keyVars>>

-----------------------------------------------------------------------------
Server ==
    \/ ServerRegister \/ ServerHeartbeat \/ ServerDelete
    \/ ServerUnauthorized \/ AnswerLost

Wake == WakeKick \/ WakeTimer \/ RunDone

Next ==
    \/ Step \/ Server \/ HandleAnswer \/ Wake
    \/ \E u \in Urls \cup {NoURL} : SetTunnelURL(u)
    \/ \E c \in BOOLEAN, p \in Publishing, t \in {"none", "fresh", token} :
         ConfigPatch(c, p, t)
    \/ ReconcileKick
    \/ \E t \in {"none", "fresh"} : SetToken(t)
    \/ \E d \in DeviceIds : OtherMints(d)
    \/ OtherSaves \/ OtherDataDir
    \/ \E k \in Keys : AdminMintKey(k) \/ AdminRevokeKey(k)
    \/ Shutdown \/ Crash \/ Boot
    \/ TokenLapses
    \/ \E s \in {"ok", "unpaid", "down"} : PlaneChange(s)
    \/ \E d \in DeviceIds : TTLReap(d)

Spec == Init /\ [][Next]_vars

\* The goroutine keeps running; a request is answered or times out; among the
\* ready cases of the select, the cancelled context is eventually drawn; and
\* writes to the data directory do not fail forever.
FairSpec ==
    /\ Spec
    /\ WF_vars(Step) /\ WF_vars(Server) /\ WF_vars(HandleAnswer)
    /\ WF_vars(WakeTimer) /\ SF_vars(RunDone) /\ SF_vars(StepRegister)

-----------------------------------------------------------------------------
(***************************************************************************)
(* What the manager believes (Status, SubscriptionBlocked) is never half   *)
(* changed: without a registration no URL is remembered, with one there    *)
(* are a URL and an id to heartbeat and delete, and a node that looks      *)
(* refused for its plan does not look registered at the same time.         *)
(***************************************************************************)
BeliefConsistent ==
    /\ registered <=> registeredURL # NoURL
    /\ registered => deviceID # NoId
    /\ subscriptionBlocked => ~registered

(***************************************************************************)
(* A change of URL or capabilities that comes while a request is under way *)
(* is not slept through: the loop parks for an hour only when there is     *)
(* nothing to do, when the control plane refused the token, or when a kick *)
(* is in the channel or owed by a Reconcile on its way.  (A token pushed   *)
(* while the old one's 401 is on its way is slept through: that 401 sets   *)
(* authBlocked again, and the loop waits for another push.)                *)
(***************************************************************************)
NoLostWakeup ==
    pc = "wait" /\ wait = "idle" /\ ~kick /\ ~owed
        => \/ ~Desired /\ ~registered
           \/ Desired /\ authBlocked

(***************************************************************************)
(* A destination on the control plane is the one the manager believes in,  *)
(* under that URL, and will delete when it stops, unless a request that    *)
(* changes it is under way or an answer was lost or refused since it last  *)
(* registered, or it was left behind under an identity the node lost (the  *)
(* TTL is for those).                                                      *)
(***************************************************************************)
DestinationKnown ==
    \A d \in DeviceIds :
        dest[d] # NoURL => \/ registered /\ d = deviceID /\ dest[d] = registeredURL
                           \/ pc \in Changing
                           \/ unsure
                           \/ d \in lost \ {deviceID}

(***************************************************************************)
(* Re-registrations, adopted ids, failed saves and restarts never leave    *)
(* the account with two destinations for this machine.  The only           *)
(* destinations beside the one are those of identities the node lost: its  *)
(* device_id file could not be read, was overwritten by another caller of  *)
(* LoadOrCreateDeviceID, or stayed in another data_dir.                    *)
(***************************************************************************)
OneDestination ==
    \A d, e \in DeviceIds \ lost :
        dest[d] # NoURL /\ dest[e] # NoURL => d = e

(***************************************************************************)
(* No step of the registration loop removes a key a person minted:         *)
(* rotation retires only keys that carry the control plane's scope.        *)
(***************************************************************************)
PersonKeysKept ==
    [][pc' # pc => \A k \in keys : k.scope = PersonScope => k \in keys']_vars

(***************************************************************************)
(* The key the control plane holds is one this node accepts, whatever      *)
(* requests failed on the way, unless the operator revoked it or it is     *)
(* held for an identity the node lost: "retiring the control plane's       *)
(* working key while sending it no replacement is the one outcome this     *)
(* whole path must never produce" (register).                              *)
(***************************************************************************)
HeldKeyAccepted ==
    \A d \in DeviceIds \ lost : held[d] # NoKey => held[d] \in Accepted \cup revoked

\* The environment leaves a node with URL u alone.
Steady(u) ==
    /\ Up /\ ~stopping
    /\ tunnelURL = u /\ capable
    /\ token = "fresh" /\ plane = "ok"

(***************************************************************************)
(* Left alone with a working token, an exposed node ends up registered     *)
(* under its current URL, for good, from any state of the loop that is not *)
(* waiting for a token; and the control plane has that URL too, unless an  *)
(* answer was lost.                                                        *)
(***************************************************************************)
Converges ==
    \A u \in Urls :
        <>[](Steady(u) /\ ~authBlocked)
            => <>[](registered /\ registeredURL = u /\ (dest[deviceID] = u \/ unsure))

(***************************************************************************)
(* A node that is no longer exposed, or is told to stop, withdraws: the    *)
(* loop ends and the manager holds no registration.                        *)
(***************************************************************************)
Withdraws ==
    /\ (Up /\ stopping) ~> (~Up /\ ~registered)
    /\ <>[](Up /\ ~Desired) => <>[]~registered
=============================================================================
