------------------------- MODULE RegistrationProofs -------------------------
(***************************************************************************)
(* Proofs about Registration for every set of keys, URLs and device ids,   *)
(* every way the control plane files ids and any number of restarts.       *)
(***************************************************************************)
EXTENDS PublishedKey, TLAPS

-----------------------------------------------------------------------------
(***************************************************************************)
(* The inductive invariant.                                                *)
(***************************************************************************)
\* What the goroutine put in a request it has under way.
ReqInv ==
    /\ pc \in InFlight => req.dev # NoId
    /\ pc \in Registering => req.url # NoURL
    /\ pc \in Deleting => ~registered /\ req.answer \notin {"402", "422"}
    /\ pc = "heartbeat" => registered /\ req.dev = deviceID
    /\ pc \in Deleting => Canon[req.dev] = req.dev /\ req.dev = deviceID
    /\ pc \notin Registering => req.key = NoKey

\* A registered node goes by the id the control plane filed it under.
BeliefInv ==
    /\ BeliefConsistent
    /\ registered => Canon[deviceID] = deviceID

\* Every id in use is filed under the same one as the id on disk, unless the
\* node lost that identity; what the control plane has for an identity the
\* node did not lose, it has for the one the manager goes by.
IdInv ==
    /\ deviceID # NoId
         => \/ Canon[deviceID] \in lost
            \/ diskID # NoId /\ Canon[deviceID] = Canon[diskID]
    /\ pc \in InFlight => deviceID # NoId /\ Canon[req.dev] = Canon[deviceID]
    /\ \A d \in DeviceIds \ lost :
         dest[d] # NoURL \/ held[d] # NoKey
           => /\ diskID # NoId /\ d = Canon[diskID]
              /\ deviceID # NoId => d = Canon[deviceID]

\* What an answer says about the destinations is still so when it is handled.
DestInv ==
    /\ pc \in Registering /\ req.answer = "ok" => dest[Canon[req.dev]] = req.url
    /\ pc = "heartbeat" /\ req.answer = "404" => dest[req.dev] = NoURL
    /\ pc \in Deleting /\ req.answer \in {"ok", "404"} => dest[req.dev] = NoURL
    /\ pc \in {"stopped", "down"} => ~registered
    /\ DestinationKnown

\* A request under way fits what the node wants, or a kick is waiting or owed.
WakeInv ==
    /\ pc \in Registering \cup {"heartbeat"} => Desired \/ kick \/ owed
    /\ pc = "delete" => ~Desired \/ kick \/ owed
    /\ NoLostWakeup

\* Ids are drawn once, and the keys a request will retire are the control
\* plane's and not the one it carries.
KeyInv ==
    /\ Accepted \cup revoked \cup req.olds \subseteq drawn
    /\ \A a, b \in keys : a.id = b.id => a = b
    /\ \A k \in keys : k.scope = PersonScope => k.id \notin req.olds
    /\ req.key # NoKey => req.key \in (Accepted \cup revoked) \ req.olds

\* Without instances that refuse the newer fields: a request without a key
\* retires none, and once accepted its key is the one held.
HoldInv ==
    /\ pc # "fallback" /\ req.answer # "422"
    /\ req.key = NoKey => req.olds = {}
    /\ pc = "register" /\ req.answer = "ok" /\ req.key # NoKey
         => held[Canon[req.dev]] = req.key
    /\ HeldKeyAccepted

-----------------------------------------------------------------------------
(***************************************************************************)
(* Helpers: what sending does to a request, and a step's shape.            *)
(***************************************************************************)
\* Sending fills in the token and perhaps an answer, and nothing else.
LEMMA SentFields ==
    ASSUME NEW r \in Request, NEW ctx \in BOOLEAN, token \in Tokens
    PROVE  /\ Sent(r, ctx) \in Request
           /\ Sent(r, ctx).url = r.url /\ Sent(r, ctx).dev = r.dev
           /\ Sent(r, ctx).key = r.key /\ Sent(r, ctx).olds = r.olds
           /\ Sent(r, ctx).answer \in {"none", "401", "error"}
<1> DEFINE a == IF token = "none" THEN "401"
                ELSE IF ctx /\ stopping THEN "error" ELSE "none"
<1>1. a \in {"none", "401", "error"} /\ a \in Answers
  BY DEF Answers
<1>2. Sent(r, ctx) = [r EXCEPT !.token = token, !.answer = a]
  BY DEF Sent
<1> HIDE DEF a
<1> QED
  BY <1>1, <1>2 DEF Request

\* The empty request, field by field.
LEMMA NoReqFields ==
    /\ NoReq \in Request
    /\ NoReq.url = NoURL /\ NoReq.dev = NoId /\ NoReq.key = NoKey
    /\ NoReq.olds = {} /\ NoReq.answer = "none"
  BY DEF NoReq, Request, Tokens, Answers

\* The control plane's reply changes only the answer.
LEMMA ReplyFields ==
    ASSUME TypeOK, NEW a \in Answers, Reply(a)
    PROVE  /\ req' \in Request
           /\ req'.url = req.url /\ req'.dev = req.dev
           /\ req'.key = req.key /\ req'.olds = req.olds
           /\ req'.answer = a
  BY DEF Reply, TypeOK, Request

\* A request under way is a well-formed request.
LEMMA ReqType ==
    ASSUME TypeOK
    PROVE  /\ req.url \in Urls \cup {NoURL} /\ req.dev \in DeviceIds \cup {NoId}
           /\ req.key \in Keys \cup {NoKey} /\ req.olds \in SUBSET Keys
           /\ req.answer \in Answers
  BY DEF TypeOK, Request

\* A request about an id: a heartbeat or a DELETE.
LEMMA DeviceRequestFields ==
    ASSUME NEW d \in DeviceIds \cup {NoId}
    PROVE  /\ DeviceRequest(d) \in Request
           /\ DeviceRequest(d).dev = d /\ DeviceRequest(d).url = NoURL
           /\ DeviceRequest(d).key = NoKey /\ DeviceRequest(d).olds = {}
  BY NoReqFields DEF DeviceRequest, NoReq, Request

\* A registration, field by field.
LEMMA RegisterRequestFields ==
    ASSUME NEW u \in Urls \cup {NoURL}, NEW d \in DeviceIds,
           NEW k \in Keys \cup {NoKey}, NEW olds \in SUBSET Keys
    PROVE  LET r == RegisterRequest(u, d, k, olds) IN
           /\ r \in Request
           /\ r.url = u /\ r.dev = d /\ r.key = k /\ r.olds = olds
  BY NoReqFields DEF RegisterRequest, NoReq, Request

\* The heartbeat and the DELETE as they are sent.
LEMMA SentDeviceFields ==
    ASSUME TypeOK, NEW ctx \in BOOLEAN
    PROVE  LET r == Sent(DeviceRequest(deviceID), ctx) IN
           /\ r \in Request
           /\ r.dev = deviceID /\ r.url = NoURL /\ r.key = NoKey /\ r.olds = {}
           /\ r.answer \in {"none", "401", "error"}
<1>1. deviceID \in DeviceIds \cup {NoId} /\ token \in Tokens
  BY DEF TypeOK
<1> DEFINE q == DeviceRequest(deviceID)
<1>2. /\ q \in Request /\ q.dev = deviceID /\ q.url = NoURL /\ q.key = NoKey
      /\ q.olds = {}
  BY <1>1, DeviceRequestFields
<1> HIDE DEF q
<1>3. CASE ctx = TRUE
  BY <1>1, <1>2, <1>3, SentFields DEF q
<1>4. CASE ctx = FALSE
  BY <1>1, <1>2, <1>4, SentFields DEF q
<1> QED
  BY <1>3, <1>4

\* The step that registers: the request it sends.
LEMMA StepRegisterRequest ==
    ASSUME TypeOK, StepRegister
    PROVE  \E d \in DeviceIds, k \in Keys \cup {NoKey}, olds \in SUBSET Keys :
             /\ EnsureDeviceID(d) /\ MintFor(k, olds)
             /\ req' \in Request
             /\ req'.url = tunnelURL /\ req'.dev = d
             /\ req'.key = k /\ req'.olds = olds
             /\ req'.answer \in {"none", "401", "error"}
<1>1. PICK d \in DeviceIds, k \in Keys \cup {NoKey}, olds \in {{}, ControlPlaneIds} :
        /\ EnsureDeviceID(d) /\ MintFor(k, olds)
        /\ req' = Sent(RegisterRequest(tunnelURL, d, k, olds), TRUE)
  BY DEF StepRegister
<1>2. olds \in SUBSET Keys /\ tunnelURL \in Urls \cup {NoURL} /\ token \in Tokens
  BY DEF ControlPlaneIds, TypeOK, KeyRecord
<1> DEFINE q == RegisterRequest(tunnelURL, d, k, olds)
<1>3. /\ q \in Request /\ q.url = tunnelURL /\ q.dev = d /\ q.key = k
      /\ q.olds = olds
  BY <1>1, <1>2, RegisterRequestFields
<1>4. req' = Sent(q, TRUE)
  BY <1>1
<1> HIDE DEF q
<1>5. /\ req' \in Request /\ req'.url = tunnelURL /\ req'.dev = d
      /\ req'.key = k /\ req'.olds = olds
      /\ req'.answer \in {"none", "401", "error"}
  BY <1>2, <1>3, <1>4, SentFields
<1> QED
  BY <1>1, <1>2, <1>5

\* The fallback request carries no key, but still knows what a key replaces.
LEMMA FallbackFields ==
    ASSUME TypeOK, RegisterFallback
    PROVE  /\ req' \in Request
           /\ req'.dev = req.dev /\ req'.url = req.url /\ req'.key = NoKey
           /\ req'.olds = req.olds
           /\ req'.answer \in {"none", "401", "error"}
<1>1. req \in Request /\ token \in Tokens
  BY DEF TypeOK
<1> DEFINE q == Sent(req, TRUE)
<1>2. /\ q \in Request /\ q.url = req.url /\ q.dev = req.dev
      /\ q.olds = req.olds /\ q.answer \in {"none", "401", "error"}
  BY <1>1, SentFields
<1>3. req' = [q EXCEPT !.key = NoKey]
  BY DEF RegisterFallback
<1> HIDE DEF q
<1> QED
  BY <1>2, <1>3 DEF Request

\* What deregister does to the request and the phase.
LEMMA DeregisterFields ==
    ASSUME TypeOK, NEW phase, NEW after, Deregister(phase, after)
    PROVE  /\ req' \in Request
           /\ registered => /\ pc' = phase /\ req'.dev = deviceID
                            /\ req'.url = NoURL /\ req'.key = NoKey /\ req'.olds = {}
                            /\ req'.answer \in {"none", "401", "error"}
           /\ ~registered => pc' = after /\ req' = req
<1>1. CASE registered
  BY <1>1, SentDeviceFields DEF Deregister
<1>2. CASE ~registered
  BY <1>2 DEF Deregister, TypeOK
<1> QED
  BY <1>1, <1>2 DEF TypeOK

\* Saving an id over another loses that one's identity, and no other.
LEMMA SaveFields ==
    ASSUME TypeOK, NEW d \in DeviceIds, SaveDeviceID(d)
    PROVE  /\ diskID' = d /\ d # NoId
           /\ lost \subseteq lost' /\ lost' \subseteq DeviceIds
           /\ diskID # NoId => Canon[diskID] \in lost' \/ Canon[diskID] = Canon[d]
           /\ Canon[d] \in lost' => Canon[d] \in lost
<1>1. diskID' = d /\ d # NoId
  BY RegistrationAssumption DEF SaveDeviceID
<1>2. lost' = lost \cup (Identity(diskID) \ {Canon[d]})
  BY <1>1 DEF SaveDeviceID, Identity
<1>3. CASE diskID = NoId
  BY <1>1, <1>2, <1>3 DEF Identity, TypeOK
<1>4. CASE diskID # NoId
  <2>1. Identity(diskID) = {Canon[diskID]} /\ Canon[diskID] \in DeviceIds
    BY <1>4, RegistrationAssumption DEF Identity, TypeOK
  <2> QED
    BY <1>1, <1>2, <2>1 DEF TypeOK
<1> QED
  BY <1>3, <1>4

\* The id a step of the loop goes by, and what becomes of the file.
LEMMA EnsureFields ==
    ASSUME TypeOK, NEW d \in DeviceIds, EnsureDeviceID(d)
    PROVE  /\ deviceID' = d /\ lost \subseteq lost' /\ lost' \subseteq DeviceIds
           /\ deviceID # NoId => d = deviceID /\ UNCHANGED <<diskID, lost>>
           /\ deviceID = NoId => diskID' = d
           /\ diskID # NoId => \/ diskID' = diskID
                              \/ Canon[diskID] \in lost'
                              \/ Canon[diskID] = Canon[d]
           /\ diskID' \in DeviceIds \cup {NoId}
<1>1. CASE deviceID # NoId
  BY <1>1 DEF EnsureDeviceID, TypeOK
<1>2. CASE deviceID = NoId /\ UNCHANGED <<diskID, lost>>
  BY <1>2 DEF EnsureDeviceID, LoadOrCreate, SaveDeviceID, TypeOK
<1>3. CASE deviceID = NoId /\ SaveDeviceID(d)
  BY <1>3, SaveFields DEF EnsureDeviceID, TypeOK
<1> QED
  BY <1>1, <1>2, <1>3 DEF EnsureDeviceID, LoadOrCreate

\* Another caller's save.
LEMMA OtherSavesFields ==
    ASSUME TypeOK, OtherSaves
    PROVE  /\ minting' = NoId /\ lost \subseteq lost' /\ lost' \subseteq DeviceIds
           /\ diskID' \in DeviceIds \cup {NoId}
           /\ \/ diskID' = diskID
              \/ /\ diskID' # NoId
                 /\ diskID # NoId => \/ Canon[diskID] \in lost'
                                    \/ Canon[diskID] = Canon[diskID']
<1>1. minting \in DeviceIds /\ minting' = NoId
  BY DEF OtherSaves, TypeOK
<1>2. CASE UNCHANGED <<diskID, lost>>
  BY <1>1, <1>2 DEF TypeOK
<1>3. CASE SaveDeviceID(minting)
  BY <1>1, <1>3, SaveFields
<1> QED
  BY <1>2, <1>3 DEF OtherSaves

\* A change of data_dir.
LEMMA OtherDataDirFields ==
    ASSUME TypeOK, OtherDataDir
    PROVE  /\ diskID' = NoId /\ lost \subseteq lost' /\ lost' \subseteq DeviceIds
           /\ diskID # NoId => Canon[diskID] \in lost'
           /\ Accepted' = {} /\ ~Up
<1>1. /\ diskID' = NoId /\ lost' = lost \cup Identity(diskID)
      /\ keys' = {} /\ ~Up
  BY DEF OtherDataDir
<1>2. Accepted' = {}
  BY <1>1 DEF Accepted
<1>3. CASE diskID = NoId
  BY <1>1, <1>2, <1>3 DEF Identity, TypeOK
<1>4. CASE diskID # NoId
  <2>1. Identity(diskID) = {Canon[diskID]} /\ Canon[diskID] \in DeviceIds
    BY <1>4, RegistrationAssumption DEF Identity, TypeOK
  <2> QED
    BY <1>1, <1>2, <2>1 DEF TypeOK
<1> QED
  BY <1>3, <1>4

-----------------------------------------------------------------------------
(***************************************************************************)
(* Types.                                                                  *)
(***************************************************************************)
LEMMA TypeStep == TypeOK /\ [Next]_vars => TypeOK'
<1> SUFFICES ASSUME TypeOK, [Next]_vars PROVE TypeOK'
  OBVIOUS
<1>1. CASE Step
  <2>1. CASE StepIdle
    BY <2>1 DEF StepIdle, TypeOK, Phases, InFlight, Registering, Deleting,
         Waits, mgrVars, envVars, idVars, cpVars, keyVars
  <2>2. CASE StepDeregister
    <3>1. req' \in Request
      BY <2>2, DeregisterFields DEF StepDeregister
    <3>2. (pc' \in Registering => req'.dev \in DeviceIds) /\ pc' \in Phases /\
         wait' \in Waits /\ (wait' = "none" <=> pc' # "wait")
      BY <2>2, DeregisterFields DEF StepDeregister, Deregister, TypeOK,
           Phases, InFlight, Registering, Deleting, Waits
    <3>3. registered' \in BOOLEAN /\ registeredURL' \in Urls \cup {NoURL}
      BY <2>2 DEF StepDeregister, Deregister
    <3>4. UNCHANGED <<deviceID, tunnelURL, authBlocked, subscriptionBlocked,
         kick, envVars, idVars, cpVars, unsure, keyVars>>
      BY <2>2 DEF StepDeregister, Deregister
    <3> QED
      BY <3>1, <3>2, <3>3, <3>4 DEF TypeOK, mgrVars, envVars, idVars, cpVars,
           keyVars
  <2>3. CASE StepRegister
    <3>1. PICK d \in DeviceIds, k \in Keys \cup {NoKey}, olds \in SUBSET Keys :
            /\ EnsureDeviceID(d) /\ MintFor(k, olds)
            /\ req' \in Request /\ req'.dev = d
      BY <2>3, StepRegisterRequest
    <3>2. req' \in Request /\ req'.dev = d
      BY <3>1
    <3>3. /\ diskID' \in DeviceIds \cup {NoId} /\ deviceID' \in DeviceIds
          /\ lost' \in SUBSET DeviceIds
      BY <3>1, EnsureFields
    <3>4. keys' \in SUBSET KeyRecord /\ drawn' \in SUBSET Keys /\ revoked' \in
         SUBSET Keys
      BY <3>1 DEF MintFor, MintKey, KeyRecord, Scopes, TypeOK, keyVars
    <3>5. pc' \in Phases /\ wait' \in Waits /\ (wait' = "none" <=> pc' #
         "wait")
      BY <2>3 DEF StepRegister, TypeOK, Phases, InFlight, Registering,
           Deleting, Waits
    <3>6. UNCHANGED <<tunnelURL, registered, registeredURL, authBlocked,
                      subscriptionBlocked, kick, envVars, minting, cpVars,
                      unsure>>
      BY <2>3 DEF StepRegister
    <3>7. d \in DeviceIds
      BY <3>1
    <3> QED
      BY <3>2, <3>3, <3>4, <3>5, <3>6, <3>7 DEF TypeOK, envVars, idVars, cpVars
  <2>4. CASE StepNoDeviceID
    BY <2>4 DEF StepNoDeviceID, NeedsRegister, TypeOK, Phases, InFlight,
         Registering, Deleting, Waits, mgrVars, envVars, idVars, cpVars, keyVars
  <2>5. CASE StepHeartbeat
    <3>1. req' \in Request
      BY <2>5, SentDeviceFields DEF StepHeartbeat
    <3>2. (pc' \in Registering => req'.dev \in DeviceIds) /\ pc' \in Phases /\
         wait' \in Waits /\ (wait' = "none" <=> pc' # "wait")
      BY <2>5 DEF StepHeartbeat, TypeOK, Phases, InFlight, Registering,
           Deleting, Waits
    <3>3. UNCHANGED <<mgrVars, kick, envVars, idVars, cpVars, unsure, keyVars>>
      BY <2>5 DEF StepHeartbeat
    <3> QED
      BY <3>1, <3>2, <3>3 DEF TypeOK, mgrVars, envVars, idVars, cpVars, keyVars
  <2> QED BY <1>1, <2>1, <2>2, <2>3, <2>4, <2>5 DEF Step
<1>2. CASE Server
  <2>1. CASE ServerRegister
    <3>1. req' \in Request /\ req'.dev = req.dev
      BY <2>1, ReplyFields DEF ServerRegister, Answers
    <3>2. dest' \in [DeviceIds -> Urls \cup {NoURL}] /\ held' \in [DeviceIds
         -> Keys \cup {NoKey}]
      BY <2>1, ReqType, RegistrationAssumption DEF ServerRegister, Reply,
           TypeOK
    <3>3. UNCHANGED <<mgrVars, kick, pc, wait, envVars, idVars, plane, unsure,
         keyVars>>
      BY <2>1 DEF ServerRegister, Reply
    <3> QED
      BY <3>1, <3>2, <3>3 DEF TypeOK, mgrVars, envVars, idVars, cpVars, keyVars
  <2>2. CASE ServerHeartbeat
    BY <2>2, ReplyFields DEF ServerHeartbeat, Reply, Answers, TypeOK, Phases,
         InFlight, Registering, Deleting, Waits, mgrVars, envVars, idVars, cpVars,
         keyVars
  <2>3. CASE ServerDelete
    <3>1. req' \in Request /\ req'.dev = req.dev
      BY <2>3, ReplyFields DEF ServerDelete, Answers
    <3>2. dest' \in [DeviceIds -> Urls \cup {NoURL}] /\ held' \in [DeviceIds
         -> Keys \cup {NoKey}]
      BY <2>3, ReqType, RegistrationAssumption DEF ServerDelete, Reply, TypeOK
    <3>3. UNCHANGED <<mgrVars, kick, pc, wait, envVars, idVars, plane, unsure,
         keyVars>>
      BY <2>3 DEF ServerDelete, Reply
    <3> QED
      BY <3>1, <3>2, <3>3 DEF TypeOK, mgrVars, envVars, idVars, cpVars, keyVars
  <2>4. CASE ServerUnauthorized
    BY <2>4, ReplyFields DEF ServerUnauthorized, Reply, Answers, TypeOK,
         Phases, InFlight, Registering, Deleting, Waits, mgrVars, envVars, idVars,
         cpVars, keyVars
  <2>5. CASE AnswerLost
    BY <2>5, ReplyFields DEF AnswerLost, Reply, Answers, TypeOK, Phases,
         InFlight, Registering, Deleting, Waits, mgrVars, envVars, idVars, cpVars,
         keyVars
  <2> QED BY <1>2, <2>1, <2>2, <2>3, <2>4, <2>5 DEF Server
<1>3. CASE HandleAnswer
  <2>1. CASE RegisterOk
    <3>1. registeredURL' \in Urls \cup {NoURL}
      BY <2>1, ReqType DEF RegisterOk, Registers
    <3>2. /\ deviceID' \in DeviceIds /\ diskID' \in DeviceIds \cup {NoId}
          /\ lost' \in SUBSET DeviceIds
      <4>1. Canon[req.dev] \in DeviceIds /\ deviceID' = Canon[req.dev]
        BY <2>1, RegistrationAssumption DEF RegisterOk, Registers, TypeOK
      <4>2. SaveDeviceID(Canon[req.dev]) \/ UNCHANGED <<diskID, lost>>
        BY <2>1 DEF RegisterOk, Registers
      <4> QED
        BY <4>1, <4>2, SaveFields DEF TypeOK
    <3>3. registered' \in BOOLEAN /\ subscriptionBlocked' \in BOOLEAN /\
         unsure' \in BOOLEAN
      BY <2>1 DEF RegisterOk, Registers
    <3>4. (pc' \in Registering => req'.dev \in DeviceIds) /\ pc' \in Phases /\
         wait' \in Waits /\ (wait' = "none" <=> pc' # "wait") /\ req' \in
         Request
      BY <2>1, NoReqFields DEF RegisterOk, Registers, Phases, InFlight,
           Registering, Deleting, Waits
    <3>5. keys' \in SUBSET KeyRecord /\ UNCHANGED <<drawn, revoked>>
      BY <2>1 DEF RegisterOk, Registers, CommitKey, RevokeAll, TypeOK
    <3>6. UNCHANGED <<tunnelURL, authBlocked, kick, envVars, minting, cpVars>>
      BY <2>1 DEF RegisterOk, Registers
    <3> QED
      BY <3>1, <3>2, <3>3, <3>4, <3>5, <3>6 DEF TypeOK, mgrVars, envVars,
           idVars,
           cpVars, keyVars
  <2>2. CASE RegisterFallback
    <3>1. req' \in Request
      BY <2>2, FallbackFields
    <3>2. (pc' \in Registering => req'.dev \in DeviceIds) /\ pc' \in Phases /\
         wait' \in Waits /\ (wait' = "none" <=> pc' # "wait")
      BY <2>2, FallbackFields DEF RegisterFallback, TypeOK, Phases, InFlight,
           Registering, Deleting, Waits
    <3>3. UNCHANGED <<mgrVars, kick, envVars, idVars, cpVars, unsure, keyVars>>
      BY <2>2 DEF RegisterFallback
    <3> QED
      BY <3>1, <3>2, <3>3 DEF TypeOK, mgrVars, envVars, idVars, cpVars, keyVars
  <2>3. CASE RegisterUnauthorized
    BY <2>3, NoReqFields DEF RegisterUnauthorized, Settle, TypeOK, Phases,
         InFlight, Registering, Deleting, Waits, mgrVars, envVars, idVars, cpVars,
         keyVars
  <2>4. CASE PaymentRequired
    BY <2>4, NoReqFields, ZenonT(60) DEF PaymentRequired, Settle, TypeOK,
         Phases,
         InFlight, Registering, Deleting, Waits, mgrVars, envVars, idVars, cpVars,
         keyVars
  <2>5. CASE RegisterFailed
    BY <2>5, NoReqFields DEF RegisterFailed, Settle, TypeOK, Phases, InFlight,
         Registering, Deleting, Waits, mgrVars, envVars, idVars, cpVars, keyVars
  <2>6. CASE HeartbeatKept
    BY <2>6, NoReqFields DEF HeartbeatKept, Settle, TypeOK, Phases, InFlight,
         Registering, Deleting, Waits, mgrVars, envVars, idVars, cpVars, keyVars
  <2>7. CASE HeartbeatUnauthorized
    BY <2>7, NoReqFields, ZenonT(60) DEF HeartbeatUnauthorized, Settle,
         TypeOK, Phases,
         InFlight, Registering, Deleting, Waits, mgrVars, envVars, idVars, cpVars,
         keyVars
  <2>8. CASE HeartbeatNotFound
    <3>1. registered' \in BOOLEAN /\ registeredURL' \in Urls \cup {NoURL}
      BY <2>8 DEF HeartbeatNotFound
    <3>2. (pc' \in Registering => req'.dev \in DeviceIds) /\ pc' \in Phases /\
         wait' \in Waits /\ (wait' = "none" <=> pc' # "wait") /\ req' \in
         Request
      BY <2>8, NoReqFields DEF HeartbeatNotFound, Settle, Phases, InFlight,
           Registering, Deleting, Waits
    <3>3. UNCHANGED <<deviceID, tunnelURL, authBlocked, subscriptionBlocked,
         kick, envVars, idVars, cpVars, unsure, keyVars>>
      BY <2>8 DEF HeartbeatNotFound, Settle
    <3> QED
      BY <3>1, <3>2, <3>3 DEF TypeOK, mgrVars, envVars, idVars, cpVars, keyVars
  <2>9. CASE DeleteDone
    BY <2>9, NoReqFields DEF DeleteDone, TypeOK, Phases, InFlight,
         Registering, Deleting, Waits, mgrVars, envVars, idVars, cpVars, keyVars
  <2> QED BY <1>3, <2>1, <2>2, <2>3, <2>4, <2>5, <2>6, <2>7, <2>8, <2>9 DEF
       HandleAnswer
<1>4. CASE Wake
  <2>1. CASE WakeKick
    <3>1. kick' \in BOOLEAN
      BY <2>1 DEF WakeKick
    <3>2. (pc' \in Registering => req'.dev \in DeviceIds) /\ pc' \in Phases /\
         wait' \in Waits /\ (wait' = "none" <=> pc' # "wait")
      BY <2>1 DEF WakeKick, Phases, InFlight, Registering, Deleting, Waits
    <3>3. UNCHANGED <<mgrVars, req, envVars, idVars, cpVars, unsure, keyVars>>
      BY <2>1 DEF WakeKick
    <3> QED
      BY <3>1, <3>2, <3>3 DEF TypeOK, mgrVars, envVars, idVars, cpVars, keyVars
  <2>2. CASE WakeTimer
    BY <2>2 DEF WakeTimer, TypeOK, Phases, InFlight, Registering, Deleting,
         Waits, mgrVars, envVars, idVars, cpVars, keyVars
  <2>3. CASE RunDone
    <3>1. req' \in Request
      BY <2>3, DeregisterFields DEF RunDone
    <3>2. (pc' \in Registering => req'.dev \in DeviceIds) /\ pc' \in Phases /\
         wait' \in Waits /\ (wait' = "none" <=> pc' # "wait")
      BY <2>3, DeregisterFields DEF RunDone, Deregister, TypeOK, Phases,
           InFlight, Registering, Deleting, Waits
    <3>3. registered' \in BOOLEAN /\ registeredURL' \in Urls \cup {NoURL}
      BY <2>3 DEF RunDone, Deregister
    <3>4. UNCHANGED <<deviceID, tunnelURL, authBlocked, subscriptionBlocked,
         kick, envVars, idVars, cpVars, unsure, keyVars>>
      BY <2>3 DEF RunDone, Deregister
    <3> QED
      BY <3>1, <3>2, <3>3, <3>4 DEF TypeOK, mgrVars, envVars, idVars, cpVars,
           keyVars
  <2> QED BY <1>4, <2>1, <2>2, <2>3 DEF Wake
<1>5. ASSUME NEW u \in Urls \cup {NoURL}, SetTunnelURL(u) PROVE TypeOK'
  <2>1. tunnelURL' \in Urls \cup {NoURL} /\ kick' \in BOOLEAN /\ owed' \in BOOLEAN
    BY <1>5 DEF SetTunnelURL
  <2>2. UNCHANGED <<deviceID, registered, registeredURL, authBlocked,
                    subscriptionBlocked, pc, wait, req, stopping, capable,
                    publish, token, boots, idVars, cpVars, unsure, keyVars>>
    BY <1>5 DEF SetTunnelURL
  <2> QED
    BY <2>1, <2>2 DEF TypeOK, idVars, cpVars, keyVars
<1>6. ASSUME NEW c \in BOOLEAN, NEW p \in Publishing,
            NEW t \in {"none", "fresh", token}, ConfigPatch(c, p, t) PROVE
     TypeOK'
  <2>1. /\ capable' \in BOOLEAN /\ publish' \in BOOLEAN /\ owed' \in BOOLEAN
        /\ token' \in Tokens
    BY <1>6 DEF ConfigPatch, Publishing, TypeOK, Tokens
  <2>2. UNCHANGED <<mgrVars, kick, pc, wait, req, stopping, boots, idVars,
                    cpVars, unsure, keyVars>>
    BY <1>6 DEF ConfigPatch
  <2> QED
    BY <2>1, <2>2 DEF TypeOK, mgrVars, idVars, cpVars, keyVars
<1>7. CASE ReconcileKick
  <2>1. kick' \in BOOLEAN /\ owed' \in BOOLEAN
    BY <1>7 DEF ReconcileKick
  <2>2. UNCHANGED <<mgrVars, pc, wait, req, stopping, capable, publish, token,
                    boots, idVars, cpVars, unsure, keyVars>>
    BY <1>7 DEF ReconcileKick
  <2> QED
    BY <2>1, <2>2 DEF TypeOK, mgrVars, idVars, cpVars, keyVars
<1>8. ASSUME NEW t \in {"none", "fresh"}, SetToken(t) PROVE TypeOK'
  <2>1. /\ authBlocked' \in BOOLEAN /\ kick' \in BOOLEAN /\ owed' \in BOOLEAN
        /\ token' \in Tokens
    BY <1>8 DEF SetToken, Tokens
  <2>2. UNCHANGED <<deviceID, tunnelURL, registered, registeredURL,
       subscriptionBlocked, pc, wait, req, stopping, capable, publish, boots,
       idVars, cpVars, unsure, keyVars>>
    BY <1>8 DEF SetToken
  <2> QED
    BY <2>1, <2>2 DEF TypeOK, mgrVars, envVars, idVars, cpVars, keyVars
<1>9. ASSUME NEW k \in Keys, AdminMintKey(k) PROVE TypeOK'
  BY <1>9 DEF AdminMintKey, MintKey, KeyRecord, Scopes, TypeOK, Phases,
       InFlight, Registering, Deleting, Waits, mgrVars, envVars, idVars, cpVars,
       keyVars
<1>10. ASSUME NEW k \in Keys, AdminRevokeKey(k) PROVE TypeOK'
  BY <1>10 DEF AdminRevokeKey, Revoke, Accepted, KeyRecord, TypeOK, Phases,
       InFlight, Registering, Deleting, Waits, mgrVars, envVars, idVars, cpVars,
       keyVars
<1>11. CASE Shutdown
  BY <1>11 DEF Shutdown, TypeOK, Phases, InFlight, Registering, Deleting,
       Waits, mgrVars, envVars, idVars, cpVars, keyVars
<1>12. CASE Crash
  BY <1>12, NoReqFields DEF Crash, TypeOK, Phases, InFlight, Registering,
       Deleting, Waits, mgrVars, envVars, idVars, cpVars, keyVars
<1>13. CASE Boot
  <2>1. /\ deviceID' = NoId /\ tunnelURL' = NoURL /\ registeredURL' = NoURL
        /\ pc' = "step" /\ wait' = "none" /\ req' = NoReq
    BY <1>13 DEF Boot
  <2>2. /\ registered' \in BOOLEAN /\ authBlocked' \in BOOLEAN
        /\ subscriptionBlocked' \in BOOLEAN
        /\ kick' \in BOOLEAN /\ stopping' \in BOOLEAN
        /\ owed' \in BOOLEAN /\ minting' = NoId
    BY <1>13 DEF Boot
  <2>3. token' \in Tokens /\ boots' \in 0..MaxBoots
    BY <1>13, RegistrationAssumption DEF Boot, TypeOK, Tokens
  <2>4. NoReq \in Request /\ "step" \in Phases \ Registering /\ "none" \in
       Waits
    BY NoReqFields DEF Phases, InFlight, Registering, Deleting, Waits
  <2>5. UNCHANGED <<capable, publish, diskID, lost, cpVars, unsure, keyVars>>
    BY <1>13 DEF Boot
  <2> QED
    BY <2>1, <2>2, <2>3, <2>4, <2>5 DEF TypeOK, mgrVars, envVars, idVars,
         cpVars,
         keyVars
<1>14. CASE TokenLapses
  <2>1. token' \in Tokens
    BY <1>14 DEF TokenLapses, Tokens
  <2>2. UNCHANGED <<mgrVars, kick, pc, wait, req, stopping, capable, publish,
       boots, owed, idVars, cpVars, unsure, keyVars>>
    BY <1>14 DEF TokenLapses
  <2> QED
    BY <2>1, <2>2 DEF TypeOK, mgrVars, envVars, idVars, cpVars, keyVars
<1>15. ASSUME NEW s \in {"ok", "unpaid", "down"}, PlaneChange(s) PROVE TypeOK'
  BY <1>15 DEF PlaneChange, TypeOK, Phases, InFlight, Registering, Deleting,
       Waits, mgrVars, envVars, idVars, cpVars, keyVars
<1>16. ASSUME NEW d \in DeviceIds, TTLReap(d) PROVE TypeOK'
  BY <1>16 DEF TTLReap, TypeOK, Phases, InFlight, Registering, Deleting,
       Waits, mgrVars, envVars, idVars, cpVars, keyVars
<1>17. CASE UNCHANGED vars
  BY <1>17 DEF vars, TypeOK, Phases, InFlight, Registering, Deleting, Waits,
       mgrVars, envVars, idVars, cpVars, keyVars
<1>18. ASSUME NEW d \in DeviceIds, OtherMints(d) PROVE TypeOK'
  BY <1>18 DEF OtherMints, TypeOK, mgrVars, envVars, idVars, cpVars, keyVars
<1>19. CASE OtherSaves
  BY <1>19, OtherSavesFields DEF OtherSaves, TypeOK, mgrVars, envVars,
       idVars, cpVars, keyVars
<1>20. CASE OtherDataDir
  BY <1>20, OtherDataDirFields DEF OtherDataDir, TypeOK, mgrVars, envVars,
       idVars, cpVars, keyVars
<1> QED
  BY <1>1, <1>2, <1>3, <1>4, <1>5, <1>6, <1>7, <1>8, <1>9, <1>10, <1>11,
       <1>12, <1>13, <1>14, <1>15, <1>16, <1>17, <1>18, <1>19, <1>20 DEF Next

(***************************************************************************)
(* The type invariant: every field, request, destination and key of the    *)
(* registration loop keeps its type, a registration request always has an  *)
(* id, and the loop never goes back to its select without a wait.          *)
(***************************************************************************)
THEOREM TypeCorrect == Spec => []TypeOK
<1>1. Init => TypeOK
  <2> SUFFICES ASSUME Init PROVE TypeOK
    OBVIOUS
  <2>1. /\ registered \in BOOLEAN /\ authBlocked \in BOOLEAN
        /\ subscriptionBlocked \in BOOLEAN /\ kick \in BOOLEAN
        /\ stopping \in BOOLEAN /\ capable \in BOOLEAN
        /\ publish \in BOOLEAN /\ unsure \in BOOLEAN /\ owed \in BOOLEAN
    BY DEF Init, Publishing
  <2>2. req \in Request /\ pc \notin Registering
    BY NoReqFields DEF Init, Registering
  <2>3. /\ pc \in Phases /\ wait \in Waits /\ token \in Tokens
        /\ plane \in {"ok", "unpaid", "down"}
        /\ (wait = "none" <=> pc # "wait")
    BY DEF Init, Phases, Waits, Tokens
  <2>4. /\ dest \in [DeviceIds -> Urls \cup {NoURL}]
        /\ held \in [DeviceIds -> Keys \cup {NoKey}]
        /\ boots \in 0..MaxBoots
    BY RegistrationAssumption DEF Init
  <2>5. /\ deviceID \in DeviceIds \cup {NoId} /\ diskID \in DeviceIds \cup {NoId}
        /\ minting \in DeviceIds \cup {NoId} /\ lost \in SUBSET DeviceIds
        /\ tunnelURL \in Urls \cup {NoURL} /\ registeredURL \in Urls \cup {NoURL}
        /\ keys \in SUBSET KeyRecord
        /\ drawn \in SUBSET Keys /\ revoked \in SUBSET Keys
    BY DEF Init, KeysInit
  <2> QED
    BY <2>1, <2>2, <2>3, <2>4, <2>5, Zenon DEF TypeOK
<1>2. TypeOK /\ [Next]_vars => TypeOK'
  BY TypeStep
<1> QED
  BY <1>1, <1>2, PTL DEF Spec

-----------------------------------------------------------------------------
(***************************************************************************)
(* What the manager believes.                                              *)
(***************************************************************************)
LEMMA BeliefStep == TypeOK /\ ReqInv /\ BeliefInv /\ [Next]_vars => BeliefInv'
<1> SUFFICES ASSUME TypeOK, ReqInv, BeliefInv, [Next]_vars PROVE BeliefInv'
  OBVIOUS
<1>1. CASE Step
  <2>1. CASE StepIdle
    BY <2>1 DEF StepIdle, BeliefInv, BeliefConsistent, mgrVars, envVars,
         idVars,
         cpVars, keyVars
  <2>2. CASE StepDeregister
    BY <2>2 DEF StepDeregister, Deregister, BeliefInv, BeliefConsistent,
         mgrVars, envVars, idVars, cpVars, keyVars
  <2>3. CASE StepRegister
    <3>1. PICK d \in DeviceIds, k \in Keys \cup {NoKey}, olds \in SUBSET Keys :
            EnsureDeviceID(d)
      BY <2>3, StepRegisterRequest
    <3>2. registered => deviceID' = deviceID
      BY <3>1 DEF EnsureDeviceID, BeliefInv, BeliefConsistent
    <3>3. UNCHANGED <<registered, registeredURL, subscriptionBlocked>>
      BY <2>3 DEF StepRegister
    <3> QED
      BY <3>2, <3>3 DEF BeliefInv, BeliefConsistent
  <2>4. CASE StepNoDeviceID
    BY <2>4 DEF StepNoDeviceID, NeedsRegister, BeliefInv, BeliefConsistent,
         mgrVars, envVars, idVars, cpVars, keyVars
  <2>5. CASE StepHeartbeat
    BY <2>5 DEF StepHeartbeat, NeedsRegister, BeliefInv, BeliefConsistent,
         mgrVars, envVars, idVars, cpVars, keyVars
  <2> QED BY <1>1, <2>1, <2>2, <2>3, <2>4, <2>5 DEF Step
<1>2. CASE Server
  <2>1. CASE ServerRegister
    BY <2>1 DEF ServerRegister, Reply, BeliefInv, BeliefConsistent, mgrVars,
         envVars, idVars, cpVars, keyVars
  <2>2. CASE ServerHeartbeat
    BY <2>2 DEF ServerHeartbeat, Reply, BeliefInv, BeliefConsistent, mgrVars,
         envVars, idVars, cpVars, keyVars
  <2>3. CASE ServerDelete
    BY <2>3 DEF ServerDelete, Reply, BeliefInv, BeliefConsistent, mgrVars,
         envVars, idVars, cpVars, keyVars
  <2>4. CASE ServerUnauthorized
    BY <2>4 DEF ServerUnauthorized, Reply, BeliefInv, BeliefConsistent,
         mgrVars, envVars, idVars, cpVars, keyVars
  <2>5. CASE AnswerLost
    BY <2>5 DEF AnswerLost, Reply, BeliefInv, BeliefConsistent, mgrVars,
         envVars, idVars, cpVars, keyVars
  <2> QED BY <1>2, <2>1, <2>2, <2>3, <2>4, <2>5 DEF Server
<1>3. CASE HandleAnswer
  <2>1. CASE RegisterOk
    <3>1. req.dev \in DeviceIds /\ req.url # NoURL
      BY <2>1 DEF RegisterOk, ReqInv, TypeOK
    <3>2. /\ Canon[req.dev] \in DeviceIds
          /\ Canon[Canon[req.dev]] = Canon[req.dev] /\ Canon[req.dev] # NoId
      BY <3>1, RegistrationAssumption
    <3>3. /\ registered' = TRUE /\ subscriptionBlocked' = FALSE
          /\ deviceID' = Canon[req.dev] /\ registeredURL' = req.url
      BY <2>1 DEF RegisterOk, Registers
    <3> QED
      BY <3>1, <3>2, <3>3 DEF BeliefInv, BeliefConsistent
  <2>2. CASE RegisterFallback
    BY <2>2 DEF RegisterFallback, BeliefInv, BeliefConsistent, mgrVars,
         envVars, idVars, cpVars, keyVars
  <2>3. CASE RegisterUnauthorized
    BY <2>3 DEF RegisterUnauthorized, Settle, BeliefInv, BeliefConsistent,
         mgrVars, envVars, idVars, cpVars, keyVars
  <2>4. CASE PaymentRequired
    BY <2>4 DEF PaymentRequired, Settle, BeliefInv, BeliefConsistent, mgrVars,
         envVars, idVars, cpVars, keyVars
  <2>5. CASE RegisterFailed
    BY <2>5 DEF RegisterFailed, Settle, BeliefInv, BeliefConsistent, mgrVars,
         envVars, idVars, cpVars, keyVars
  <2>6. CASE HeartbeatKept
    BY <2>6 DEF HeartbeatKept, Settle, BeliefInv, BeliefConsistent, mgrVars,
         envVars, idVars, cpVars, keyVars
  <2>7. CASE HeartbeatUnauthorized
    BY <2>7 DEF HeartbeatUnauthorized, Settle, BeliefInv, BeliefConsistent,
         mgrVars, envVars, idVars, cpVars, keyVars
  <2>8. CASE HeartbeatNotFound
    BY <2>8 DEF HeartbeatNotFound, Settle, BeliefInv, BeliefConsistent,
         mgrVars, envVars, idVars, cpVars, keyVars
  <2>9. CASE DeleteDone
    BY <2>9 DEF DeleteDone, BeliefInv, BeliefConsistent, mgrVars, envVars,
         idVars,
         cpVars, keyVars
  <2> QED BY <1>3, <2>1, <2>2, <2>3, <2>4, <2>5, <2>6, <2>7, <2>8, <2>9 DEF
       HandleAnswer
<1>4. CASE Wake
  <2>1. CASE WakeKick
    BY <2>1 DEF WakeKick, BeliefInv, BeliefConsistent, mgrVars, envVars,
         idVars,
         cpVars, keyVars
  <2>2. CASE WakeTimer
    BY <2>2 DEF WakeTimer, BeliefInv, BeliefConsistent, mgrVars, envVars,
         idVars,
         cpVars, keyVars
  <2>3. CASE RunDone
    BY <2>3 DEF RunDone, Deregister, BeliefInv, BeliefConsistent, mgrVars,
         envVars, idVars, cpVars, keyVars
  <2> QED BY <1>4, <2>1, <2>2, <2>3 DEF Wake
<1>5. ASSUME NEW u \in Urls \cup {NoURL}, SetTunnelURL(u) PROVE BeliefInv'
  BY <1>5 DEF SetTunnelURL, BeliefInv, BeliefConsistent, mgrVars, envVars,
       idVars,
       cpVars, keyVars
<1>6. ASSUME NEW c \in BOOLEAN, NEW p \in Publishing,
            NEW t \in {"none", "fresh", token}, ConfigPatch(c, p, t) PROVE
     BeliefInv'
  BY <1>6 DEF ConfigPatch, BeliefInv, BeliefConsistent, mgrVars, envVars,
       idVars,
       cpVars, keyVars
<1>7. CASE ReconcileKick
  BY <1>7 DEF ReconcileKick, BeliefInv, BeliefConsistent, mgrVars, envVars,
       idVars,
       cpVars, keyVars
<1>8. ASSUME NEW t \in {"none", "fresh"}, SetToken(t) PROVE BeliefInv'
  BY <1>8 DEF SetToken, BeliefInv, BeliefConsistent, mgrVars, envVars,
       idVars, cpVars,
       keyVars
<1>9. ASSUME NEW k \in Keys, AdminMintKey(k) PROVE BeliefInv'
  BY <1>9 DEF AdminMintKey, MintKey, BeliefInv, BeliefConsistent, mgrVars,
       envVars, idVars, cpVars, keyVars
<1>10. ASSUME NEW k \in Keys, AdminRevokeKey(k) PROVE BeliefInv'
  BY <1>10 DEF AdminRevokeKey, Revoke, BeliefInv, BeliefConsistent, mgrVars,
       envVars, idVars, cpVars, keyVars
<1>11. CASE Shutdown
  BY <1>11 DEF Shutdown, BeliefInv, BeliefConsistent, mgrVars, envVars, idVars,
       cpVars, keyVars
<1>12. CASE Crash
  BY <1>12 DEF Crash, BeliefInv, BeliefConsistent, mgrVars, envVars, idVars,
       cpVars,
       keyVars
<1>13. CASE Boot
  BY <1>13 DEF Boot, BeliefInv, BeliefConsistent, mgrVars, envVars, idVars,
       cpVars,
       keyVars
<1>14. CASE TokenLapses
  BY <1>14 DEF TokenLapses, BeliefInv, BeliefConsistent, mgrVars, envVars,
       idVars,
       cpVars, keyVars
<1>15. ASSUME NEW s \in {"ok", "unpaid", "down"}, PlaneChange(s) PROVE
     BeliefInv'
  BY <1>15 DEF PlaneChange, BeliefInv, BeliefConsistent, mgrVars, envVars,
       idVars,
       cpVars, keyVars
<1>16. ASSUME NEW d \in DeviceIds, TTLReap(d) PROVE BeliefInv'
  BY <1>16 DEF TTLReap, BeliefInv, BeliefConsistent, mgrVars, envVars,
       idVars, cpVars,
       keyVars
<1>17. CASE UNCHANGED vars
  BY <1>17 DEF vars, BeliefInv, BeliefConsistent, mgrVars, envVars, idVars,
       cpVars,
       keyVars
<1>18. ASSUME NEW d \in DeviceIds, OtherMints(d) PROVE BeliefInv'
  BY <1>18 DEF OtherMints, BeliefInv, BeliefConsistent, mgrVars, envVars,
       idVars, cpVars, keyVars
<1>19. CASE OtherSaves
  BY <1>19, OtherSavesFields DEF OtherSaves, BeliefInv, BeliefConsistent,
       mgrVars, envVars, idVars, cpVars, keyVars
<1>20. CASE OtherDataDir
  BY <1>20, OtherDataDirFields DEF OtherDataDir, BeliefInv, BeliefConsistent,
       mgrVars, envVars, idVars, cpVars, keyVars
<1> QED
  BY <1>1, <1>2, <1>3, <1>4, <1>5, <1>6, <1>7, <1>8, <1>9, <1>10, <1>11,
       <1>12, <1>13, <1>14, <1>15, <1>16, <1>17, <1>18, <1>19, <1>20 DEF Next

\* Every step keeps the request under way consistent with the fields.
LEMMA ReqStep == TypeOK /\ ReqInv /\ BeliefInv /\ [Next]_vars => ReqInv'
<1> SUFFICES ASSUME TypeOK, ReqInv, BeliefInv, [Next]_vars PROVE ReqInv'
  OBVIOUS
<1>1. CASE Step
  <2>1. CASE StepIdle
    BY <2>1 DEF StepIdle, ReqInv, InFlight, Registering, Deleting, mgrVars,
         envVars, idVars, cpVars, keyVars
  <2>2. CASE StepDeregister
    BY <2>2, DeregisterFields DEF StepDeregister, Deregister, BeliefInv,
         BeliefConsistent, ReqInv, InFlight, Registering, Deleting, mgrVars,
         envVars, idVars, cpVars, keyVars
  <2>3. CASE StepRegister
    <3>1. PICK d \in DeviceIds, k \in Keys \cup {NoKey}, olds \in SUBSET Keys :
            req'.url = tunnelURL /\ req'.dev = d
      BY <2>3, StepRegisterRequest
    <3>2. pc' = "register" /\ tunnelURL # NoURL
      BY <2>3 DEF StepRegister, NeedsRegister, Desired
    <3> QED
      BY <3>1, <3>2, RegistrationAssumption DEF ReqInv, InFlight, Registering,
           Deleting
  <2>4. CASE StepNoDeviceID
    BY <2>4 DEF StepNoDeviceID, NeedsRegister, ReqInv, InFlight, Registering,
         Deleting, mgrVars, envVars, idVars, cpVars, keyVars
  <2>5. CASE StepHeartbeat
    BY <2>5, SentDeviceFields DEF StepHeartbeat, NeedsRegister, BeliefInv,
         BeliefConsistent, ReqInv, InFlight, Registering, Deleting, mgrVars,
         envVars, idVars, cpVars, keyVars
  <2> QED BY <1>1, <2>1, <2>2, <2>3, <2>4, <2>5 DEF Step
<1>2. CASE Server
  <2>1. CASE ServerRegister
    BY <2>1, ReplyFields DEF ServerRegister, Reply, Answers, ReqInv, InFlight,
         Registering, Deleting, mgrVars, envVars, idVars, cpVars, keyVars
  <2>2. CASE ServerHeartbeat
    BY <2>2, ReplyFields DEF ServerHeartbeat, Reply, Answers, ReqInv,
         InFlight, Registering, Deleting, mgrVars, envVars, idVars, cpVars, keyVars
  <2>3. CASE ServerDelete
    BY <2>3, ReplyFields DEF ServerDelete, Reply, Answers, ReqInv, InFlight,
         Registering, Deleting, mgrVars, envVars, idVars, cpVars, keyVars
  <2>4. CASE ServerUnauthorized
    BY <2>4, ReplyFields DEF ServerUnauthorized, Reply, Answers, ReqInv,
         InFlight, Registering, Deleting, mgrVars, envVars, idVars, cpVars, keyVars
  <2>5. CASE AnswerLost
    BY <2>5, ReplyFields DEF AnswerLost, Reply, Answers, ReqInv, InFlight,
         Registering, Deleting, mgrVars, envVars, idVars, cpVars, keyVars
  <2> QED BY <1>2, <2>1, <2>2, <2>3, <2>4, <2>5 DEF Server
<1>3. CASE HandleAnswer
  <2>1. CASE RegisterOk
    BY <2>1, NoReqFields DEF RegisterOk, Registers, CommitKey, RevokeAll, ReqInv, InFlight,
         Registering, Deleting, mgrVars, envVars, idVars, cpVars, keyVars
  <2>2. CASE RegisterFallback
    BY <2>2, FallbackFields DEF RegisterFallback, ReqInv, InFlight,
         Registering, Deleting, mgrVars, envVars, idVars, cpVars, keyVars
  <2>3. CASE RegisterUnauthorized
    BY <2>3, NoReqFields DEF RegisterUnauthorized, Settle, ReqInv, InFlight, Registering,
         Deleting, mgrVars, envVars, idVars, cpVars, keyVars
  <2>4. CASE PaymentRequired
    BY <2>4, NoReqFields DEF PaymentRequired, Settle, ReqInv, InFlight, Registering,
         Deleting, mgrVars, envVars, idVars, cpVars, keyVars
  <2>5. CASE RegisterFailed
    BY <2>5, NoReqFields DEF RegisterFailed, Settle, ReqInv, InFlight, Registering,
         Deleting, mgrVars, envVars, idVars, cpVars, keyVars
  <2>6. CASE HeartbeatKept
    BY <2>6, NoReqFields DEF HeartbeatKept, Settle, ReqInv, InFlight, Registering,
         Deleting, mgrVars, envVars, idVars, cpVars, keyVars
  <2>7. CASE HeartbeatUnauthorized
    BY <2>7, NoReqFields DEF HeartbeatUnauthorized, Settle, ReqInv, InFlight, Registering,
         Deleting, mgrVars, envVars, idVars, cpVars, keyVars
  <2>8. CASE HeartbeatNotFound
    BY <2>8, NoReqFields DEF HeartbeatNotFound, Settle, ReqInv, InFlight, Registering,
         Deleting, mgrVars, envVars, idVars, cpVars, keyVars
  <2>9. CASE DeleteDone
    BY <2>9, NoReqFields DEF DeleteDone, ReqInv, InFlight, Registering, Deleting, mgrVars,
         envVars, idVars, cpVars, keyVars
  <2> QED BY <1>3, <2>1, <2>2, <2>3, <2>4, <2>5, <2>6, <2>7, <2>8, <2>9 DEF
       HandleAnswer
<1>4. CASE Wake
  <2>1. CASE WakeKick
    BY <2>1 DEF WakeKick, ReqInv, InFlight, Registering, Deleting, mgrVars,
         envVars, idVars, cpVars, keyVars
  <2>2. CASE WakeTimer
    BY <2>2 DEF WakeTimer, ReqInv, InFlight, Registering, Deleting, mgrVars,
         envVars, idVars, cpVars, keyVars
  <2>3. CASE RunDone
    BY <2>3, DeregisterFields DEF RunDone, Deregister, BeliefInv,
         BeliefConsistent, ReqInv, InFlight, Registering, Deleting, mgrVars,
         envVars, idVars, cpVars, keyVars
  <2> QED BY <1>4, <2>1, <2>2, <2>3 DEF Wake
<1>5. ASSUME NEW u \in Urls \cup {NoURL}, SetTunnelURL(u) PROVE ReqInv'
  BY <1>5 DEF SetTunnelURL, ReqInv, InFlight, Registering, Deleting, mgrVars,
       envVars, idVars, cpVars, keyVars
<1>6. ASSUME NEW c \in BOOLEAN, NEW p \in Publishing,
            NEW t \in {"none", "fresh", token}, ConfigPatch(c, p, t) PROVE
     ReqInv'
  BY <1>6 DEF ConfigPatch, ReqInv, InFlight, Registering, Deleting, mgrVars,
       envVars, idVars, cpVars, keyVars
<1>7. CASE ReconcileKick
  BY <1>7 DEF ReconcileKick, ReqInv, InFlight, Registering, Deleting, mgrVars,
       envVars, idVars, cpVars, keyVars
<1>8. ASSUME NEW t \in {"none", "fresh"}, SetToken(t) PROVE ReqInv'
  BY <1>8 DEF SetToken, ReqInv, InFlight, Registering, Deleting, mgrVars,
       envVars, idVars, cpVars, keyVars
<1>9. ASSUME NEW k \in Keys, AdminMintKey(k) PROVE ReqInv'
  BY <1>9 DEF AdminMintKey, MintKey, ReqInv, InFlight, Registering, Deleting,
       mgrVars, envVars, idVars, cpVars, keyVars
<1>10. ASSUME NEW k \in Keys, AdminRevokeKey(k) PROVE ReqInv'
  BY <1>10 DEF AdminRevokeKey, Revoke, ReqInv, InFlight, Registering,
       Deleting, mgrVars, envVars, idVars, cpVars, keyVars
<1>11. CASE Shutdown
  BY <1>11 DEF Shutdown, ReqInv, InFlight, Registering, Deleting, mgrVars,
       envVars, idVars, cpVars, keyVars
<1>12. CASE Crash
  BY <1>12, NoReqFields DEF Crash, ReqInv, InFlight, Registering, Deleting, mgrVars,
       envVars, idVars, cpVars, keyVars
<1>13. CASE Boot
  BY <1>13, NoReqFields DEF Boot, ReqInv, InFlight, Registering, Deleting, mgrVars,
       envVars, idVars, cpVars, keyVars
<1>14. CASE TokenLapses
  BY <1>14 DEF TokenLapses, ReqInv, InFlight, Registering, Deleting, mgrVars,
       envVars, idVars, cpVars, keyVars
<1>15. ASSUME NEW s \in {"ok", "unpaid", "down"}, PlaneChange(s) PROVE ReqInv'
  BY <1>15 DEF PlaneChange, ReqInv, InFlight, Registering, Deleting, mgrVars,
       envVars, idVars, cpVars, keyVars
<1>16. ASSUME NEW d \in DeviceIds, TTLReap(d) PROVE ReqInv'
  BY <1>16 DEF TTLReap, ReqInv, InFlight, Registering, Deleting, mgrVars,
       envVars, idVars, cpVars, keyVars
<1>17. CASE UNCHANGED vars
  BY <1>17 DEF vars, ReqInv, InFlight, Registering, Deleting, mgrVars,
       envVars, idVars, cpVars, keyVars
<1>18. ASSUME NEW d \in DeviceIds, OtherMints(d) PROVE ReqInv'
  BY <1>18 DEF OtherMints, ReqInv, InFlight, Registering, Deleting, mgrVars,
       envVars, idVars, cpVars, keyVars
<1>19. CASE OtherSaves
  BY <1>19, OtherSavesFields DEF OtherSaves, ReqInv, InFlight, Registering,
       Deleting, mgrVars, envVars, idVars, cpVars, keyVars
<1>20. CASE OtherDataDir
  BY <1>20, OtherDataDirFields DEF OtherDataDir, ReqInv, InFlight,
       Registering, Deleting, mgrVars, envVars, idVars, cpVars, keyVars
<1> QED
  BY <1>1, <1>2, <1>3, <1>4, <1>5, <1>6, <1>7, <1>8, <1>9, <1>10, <1>11,
       <1>12, <1>13, <1>14, <1>15, <1>16, <1>17, <1>18, <1>19, <1>20 DEF Next

(***************************************************************************)
(* Whatever the control plane answers and whenever tunnel, token or config *)
(* change, the manager's fields are consistent: no registration without a  *)
(* URL and an id, no URL without a registration, and never registered and  *)
(* refused for the plan at once.                                           *)
(***************************************************************************)
THEOREM BeliefCorrect == Spec => []BeliefConsistent
<1>1. Init => ReqInv /\ BeliefInv
  BY NoReqFields DEF Init, ReqInv, BeliefInv, BeliefConsistent, InFlight, Registering,
       Deleting
<1>2. TypeOK /\ (ReqInv /\ BeliefInv) /\ [Next]_vars => (ReqInv /\ BeliefInv)'
  BY ReqStep, BeliefStep
<1>3. BeliefInv => BeliefConsistent
  BY DEF BeliefInv
<1> QED
  BY <1>1, <1>2, <1>3, TypeCorrect, PTL DEF Spec

-----------------------------------------------------------------------------
(***************************************************************************)
(* Where the destinations are.                                             *)
(***************************************************************************)
LEMMA IdStep == TypeOK /\ ReqInv /\ BeliefInv /\ IdInv /\ [Next]_vars => IdInv'
<1> SUFFICES ASSUME TypeOK, ReqInv, BeliefInv, IdInv, [Next]_vars PROVE IdInv'
  OBVIOUS
<1>1. CASE Step
  <2>1. CASE StepIdle
    BY <2>1 DEF StepIdle, IdInv, InFlight, Registering, Deleting, mgrVars,
         envVars, idVars, cpVars, keyVars
  <2>2. CASE StepDeregister
    BY <2>2, DeregisterFields DEF StepDeregister, Deregister, TypeOK,
         BeliefInv, BeliefConsistent, IdInv, InFlight, Registering, Deleting,
         mgrVars, envVars, idVars, cpVars, keyVars
  <2>3. CASE StepRegister
    <3>1. PICK d \in DeviceIds, k \in Keys \cup {NoKey}, olds \in SUBSET Keys :
            EnsureDeviceID(d) /\ req'.dev = d
      BY <2>3, StepRegisterRequest
    <3>2. d # NoId /\ pc' = "register" /\ UNCHANGED <<dest, held>>
      BY <2>3, RegistrationAssumption DEF StepRegister, cpVars
    <3>3. CASE deviceID # NoId
      <4>1. UNCHANGED <<deviceID, diskID, lost>> /\ d = deviceID
        BY <3>1, <3>3, EnsureFields
      <4> QED
        BY <3>1, <3>2, <4>1 DEF IdInv
    <3>4. CASE deviceID = NoId
      <4>1. deviceID' = d /\ diskID' = d /\ lost \subseteq lost'
        BY <3>1, <3>4, EnsureFields
      <4>2. diskID # NoId => Canon[diskID] \in lost' \/ Canon[diskID] = Canon[d]
        BY <3>1, <4>1, EnsureFields
      <4> QED
        BY <3>1, <3>2, <4>1, <4>2 DEF IdInv
    <3> QED
      BY <3>3, <3>4
  <2>4. CASE StepNoDeviceID
    BY <2>4 DEF StepNoDeviceID, NeedsRegister, IdInv, InFlight, Registering,
         Deleting, mgrVars, envVars, idVars, cpVars, keyVars
  <2>5. CASE StepHeartbeat
    BY <2>5, SentDeviceFields DEF StepHeartbeat, NeedsRegister, TypeOK,
         BeliefInv, BeliefConsistent, IdInv, InFlight, Registering, Deleting,
         mgrVars, envVars, idVars, cpVars, keyVars
  <2> QED BY <1>1, <2>1, <2>2, <2>3, <2>4, <2>5 DEF Step
<1>2. CASE Server
  <2>1. CASE ServerRegister
    BY <2>1, ReplyFields DEF ServerRegister, Reply, TypeOK, Answers, IdInv,
         InFlight, Registering, Deleting, mgrVars, envVars, idVars, cpVars, keyVars
  <2>2. CASE ServerHeartbeat
    BY <2>2, ReplyFields DEF ServerHeartbeat, Reply, TypeOK, Answers, IdInv,
         InFlight, Registering, Deleting, mgrVars, envVars, idVars, cpVars, keyVars
  <2>3. CASE ServerDelete
    BY <2>3, ReplyFields DEF ServerDelete, Reply, TypeOK, Answers, IdInv,
         InFlight, Registering, Deleting, mgrVars, envVars, idVars, cpVars, keyVars
  <2>4. CASE ServerUnauthorized
    BY <2>4, ReplyFields DEF ServerUnauthorized, Reply, TypeOK, Answers,
         IdInv, InFlight, Registering, Deleting, mgrVars, envVars, idVars, cpVars,
         keyVars
  <2>5. CASE AnswerLost
    BY <2>5, ReplyFields DEF AnswerLost, Reply, TypeOK, Answers, IdInv,
         InFlight, Registering, Deleting, mgrVars, envVars, idVars, cpVars, keyVars
  <2> QED BY <1>2, <2>1, <2>2, <2>3, <2>4, <2>5 DEF Server
<1>3. CASE HandleAnswer
  <2>1. CASE RegisterOk
    <3> DEFINE issued == Canon[req.dev]
    <3>1. /\ req.dev \in DeviceIds /\ issued \in DeviceIds /\ issued # NoId
          /\ Canon[issued] = issued
      BY <2>1, RegistrationAssumption DEF RegisterOk, TypeOK
    <3>2. deviceID # NoId /\ issued = Canon[deviceID]
      BY <2>1 DEF RegisterOk, IdInv, InFlight
    <3>3. deviceID' = issued /\ pc' = "wait" /\ UNCHANGED <<dest, held>>
      BY <2>1 DEF RegisterOk, Registers, cpVars
    <3>4. SaveDeviceID(issued) \/ UNCHANGED <<diskID, lost>>
      BY <2>1 DEF RegisterOk, Registers
    <3> HIDE DEF issued
    <3>5. CASE SaveDeviceID(issued)
      <4>1. /\ diskID' = issued /\ lost \subseteq lost'
            /\ diskID # NoId => Canon[diskID] \in lost' \/ Canon[diskID] = issued
        BY <3>1, <3>5, SaveFields
      <4> QED
        BY <3>1, <3>2, <3>3, <4>1 DEF IdInv, InFlight, Registering, Deleting
    <3>6. CASE UNCHANGED <<diskID, lost>>
      BY <3>1, <3>2, <3>3, <3>6 DEF IdInv, InFlight, Registering, Deleting
    <3> QED
      BY <3>4, <3>5, <3>6
  <2>2. CASE RegisterFallback
    BY <2>2, FallbackFields DEF RegisterFallback, IdInv, InFlight,
         Registering, Deleting, mgrVars, envVars, idVars, cpVars, keyVars
  <2>3. CASE RegisterUnauthorized
    BY <2>3 DEF RegisterUnauthorized, Settle, IdInv, InFlight, Registering,
         Deleting, mgrVars, envVars, idVars, cpVars, keyVars
  <2>4. CASE PaymentRequired
    BY <2>4 DEF PaymentRequired, Settle, IdInv, InFlight, Registering,
         Deleting, mgrVars, envVars, idVars, cpVars, keyVars
  <2>5. CASE RegisterFailed
    BY <2>5 DEF RegisterFailed, Settle, IdInv, InFlight, Registering,
         Deleting, mgrVars, envVars, idVars, cpVars, keyVars
  <2>6. CASE HeartbeatKept
    BY <2>6 DEF HeartbeatKept, Settle, IdInv, InFlight, Registering, Deleting,
         mgrVars, envVars, idVars, cpVars, keyVars
  <2>7. CASE HeartbeatUnauthorized
    BY <2>7 DEF HeartbeatUnauthorized, Settle, IdInv, InFlight, Registering,
         Deleting, mgrVars, envVars, idVars, cpVars, keyVars
  <2>8. CASE HeartbeatNotFound
    BY <2>8 DEF HeartbeatNotFound, Settle, IdInv, InFlight, Registering,
         Deleting, mgrVars, envVars, idVars, cpVars, keyVars
  <2>9. CASE DeleteDone
    BY <2>9 DEF DeleteDone, IdInv, InFlight, Registering, Deleting, mgrVars,
         envVars, idVars, cpVars, keyVars
  <2> QED BY <1>3, <2>1, <2>2, <2>3, <2>4, <2>5, <2>6, <2>7, <2>8, <2>9 DEF
       HandleAnswer
<1>4. CASE Wake
  <2>1. CASE WakeKick
    BY <2>1 DEF WakeKick, IdInv, InFlight, Registering, Deleting, mgrVars,
         envVars, idVars, cpVars, keyVars
  <2>2. CASE WakeTimer
    BY <2>2 DEF WakeTimer, IdInv, InFlight, Registering, Deleting, mgrVars,
         envVars, idVars, cpVars, keyVars
  <2>3. CASE RunDone
    BY <2>3, DeregisterFields DEF RunDone, Deregister, TypeOK, BeliefInv,
         BeliefConsistent, IdInv, InFlight, Registering, Deleting, mgrVars,
         envVars, idVars, cpVars, keyVars
  <2> QED BY <1>4, <2>1, <2>2, <2>3 DEF Wake
<1>5. ASSUME NEW u \in Urls \cup {NoURL}, SetTunnelURL(u) PROVE IdInv'
  BY <1>5 DEF SetTunnelURL, IdInv, InFlight, Registering, Deleting, mgrVars,
       envVars, idVars, cpVars, keyVars
<1>6. ASSUME NEW c \in BOOLEAN, NEW p \in Publishing,
            NEW t \in {"none", "fresh", token}, ConfigPatch(c, p, t) PROVE
     IdInv'
  BY <1>6 DEF ConfigPatch, IdInv, InFlight, Registering, Deleting, mgrVars,
       envVars, idVars, cpVars, keyVars
<1>7. CASE ReconcileKick
  BY <1>7 DEF ReconcileKick, IdInv, InFlight, Registering, Deleting, mgrVars,
       envVars, idVars, cpVars, keyVars
<1>8. ASSUME NEW t \in {"none", "fresh"}, SetToken(t) PROVE IdInv'
  BY <1>8 DEF SetToken, IdInv, InFlight, Registering, Deleting, mgrVars,
       envVars, idVars, cpVars, keyVars
<1>9. ASSUME NEW k \in Keys, AdminMintKey(k) PROVE IdInv'
  BY <1>9 DEF AdminMintKey, MintKey, IdInv, InFlight, Registering, Deleting,
       mgrVars, envVars, idVars, cpVars, keyVars
<1>10. ASSUME NEW k \in Keys, AdminRevokeKey(k) PROVE IdInv'
  BY <1>10 DEF AdminRevokeKey, Revoke, IdInv, InFlight, Registering, Deleting,
       mgrVars, envVars, idVars, cpVars, keyVars
<1>11. CASE Shutdown
  BY <1>11 DEF Shutdown, IdInv, InFlight, Registering, Deleting, mgrVars,
       envVars, idVars, cpVars, keyVars
<1>12. CASE Crash
  BY <1>12 DEF Crash, IdInv, InFlight, Registering, Deleting, mgrVars,
       envVars, idVars, cpVars, keyVars
<1>13. CASE Boot
  BY <1>13 DEF Boot, IdInv, InFlight, Registering, Deleting, mgrVars,
       envVars, idVars,
       cpVars, keyVars
<1>14. CASE TokenLapses
  BY <1>14 DEF TokenLapses, IdInv, InFlight, Registering, Deleting, mgrVars,
       envVars, idVars, cpVars, keyVars
<1>15. ASSUME NEW s \in {"ok", "unpaid", "down"}, PlaneChange(s) PROVE IdInv'
  BY <1>15 DEF PlaneChange, IdInv, InFlight, Registering, Deleting, mgrVars,
       envVars, idVars, cpVars, keyVars
<1>16. ASSUME NEW d \in DeviceIds, TTLReap(d) PROVE IdInv'
  BY <1>16 DEF TTLReap, TypeOK, IdInv, InFlight, Registering, Deleting,
       mgrVars, envVars, idVars, cpVars, keyVars
<1>17. CASE UNCHANGED vars
  BY <1>17 DEF vars, IdInv, InFlight, Registering, Deleting, mgrVars,
       envVars, idVars,
       cpVars, keyVars
<1>18. ASSUME NEW d \in DeviceIds, OtherMints(d) PROVE IdInv'
  BY <1>18 DEF OtherMints, IdInv, mgrVars, envVars, idVars, cpVars, keyVars
<1>19. CASE OtherSaves
  <2>1. UNCHANGED <<deviceID, pc, req, dest, held>> /\ lost \subseteq lost'
    BY <1>19, OtherSavesFields DEF OtherSaves, mgrVars, cpVars
  <2>2. CASE diskID' = diskID
    BY <2>1, <2>2 DEF IdInv
  <2>3. CASE /\ diskID' # NoId
             /\ diskID # NoId => \/ Canon[diskID] \in lost'
                                \/ Canon[diskID] = Canon[diskID']
    BY <2>1, <2>3 DEF IdInv
  <2> QED
    BY <1>19, <2>2, <2>3, OtherSavesFields
<1>20. CASE OtherDataDir
  BY <1>20, OtherDataDirFields DEF OtherDataDir, IdInv, mgrVars, envVars,
       idVars, cpVars, keyVars
<1> QED
  BY <1>1, <1>2, <1>3, <1>4, <1>5, <1>6, <1>7, <1>8, <1>9, <1>10, <1>11,
       <1>12, <1>13, <1>14, <1>15, <1>16, <1>17, <1>18, <1>19, <1>20 DEF Next

(***************************************************************************)
(* Re-registrations, adopted ids, failed saves and restarts never leave    *)
(* the account with two destinations for this machine; and however often   *)
(* the file is unreadable, another caller of LoadOrCreateDeviceID writes   *)
(* over it, or data_dir changes, every further destination is under an     *)
(* identity so lost.                                                       *)
(***************************************************************************)
THEOREM OneDestinationCorrect == Spec => []OneDestination
<1>1. Init => ReqInv /\ BeliefInv /\ IdInv
  BY NoReqFields DEF Init, ReqInv, BeliefInv, BeliefConsistent, IdInv, InFlight,
         Registering, Deleting
<1>2. TypeOK /\ (ReqInv /\ BeliefInv /\ IdInv) /\ [Next]_vars
        => (ReqInv /\ BeliefInv /\ IdInv)'
  BY ReqStep, BeliefStep, IdStep
<1>3. IdInv => OneDestination
  BY DEF IdInv, OneDestination
<1> QED
  BY <1>1, <1>2, <1>3, TypeCorrect, PTL DEF Spec

\* Every step keeps the answers and the destinations consistent.
LEMMA DestStep ==
    TypeOK /\ ReqInv /\ BeliefInv /\ IdInv /\ DestInv /\ [Next]_vars => DestInv'
<1> SUFFICES ASSUME TypeOK, ReqInv, BeliefInv, IdInv, DestInv, [Next]_vars
             PROVE  DestInv'
  OBVIOUS
<1>1. CASE Step
  <2>1. CASE StepIdle
    BY <2>1 DEF StepIdle, DestInv, DestinationKnown, Changing, InFlight,
         Registering, Deleting, mgrVars, envVars, idVars, cpVars, keyVars
  <2>2. CASE StepDeregister
    BY <2>2, DeregisterFields DEF StepDeregister, Deregister, TypeOK, DestInv,
         DestinationKnown, Changing, InFlight, Registering, Deleting, mgrVars,
         envVars, idVars, cpVars, keyVars
  <2>3. CASE StepRegister
    <3>1. PICK d \in DeviceIds, k \in Keys \cup {NoKey}, olds \in SUBSET Keys :
            req'.answer \in {"none", "401", "error"}
      BY <2>3, StepRegisterRequest
    <3>2. pc' = "register"
      BY <2>3 DEF StepRegister
    <3> QED
      BY <3>1, <3>2 DEF DestInv, DestinationKnown, Changing, Registering,
           Deleting
  <2>4. CASE StepNoDeviceID
    BY <2>4 DEF StepNoDeviceID, NeedsRegister, DestInv, DestinationKnown,
         Changing, InFlight, Registering, Deleting, mgrVars, envVars, idVars, cpVars,
         keyVars
  <2>5. CASE StepHeartbeat
    BY <2>5, SentDeviceFields DEF StepHeartbeat, NeedsRegister, TypeOK,
         DestInv, DestinationKnown, Changing, InFlight, Registering, Deleting,
         mgrVars, envVars, idVars, cpVars, keyVars
  <2> QED BY <1>1, <2>1, <2>2, <2>3, <2>4, <2>5 DEF Step
<1>2. CASE Server
  <2>1. CASE ServerRegister
    <3>1. req.dev \in DeviceIds /\ Canon[req.dev] \in DeviceIds
      BY <2>1, RegistrationAssumption DEF ServerRegister, TypeOK
    <3>2. \/ req'.answer \in {"402", "422"}
          \/ dest' = [dest EXCEPT ![Canon[req.dev]] = req.url]
      BY <2>1, ReplyFields DEF ServerRegister, Answers
    <3>3. pc' = pc /\ pc \in Registering /\ req'.dev = req.dev /\ req'.url =
         req.url
      BY <2>1, ReplyFields DEF ServerRegister, Reply, Answers
    <3> QED
      BY <3>1, <3>2, <3>3
         DEF DestInv, DestinationKnown, Changing, Registering, Deleting, TypeOK
  <2>2. CASE ServerHeartbeat
    BY <2>2, ReplyFields, ReqType DEF ServerHeartbeat, Reply, TypeOK, Answers,
         DestInv, DestinationKnown, Changing, InFlight, Registering, Deleting,
         mgrVars, envVars, idVars, cpVars, keyVars
  <2>3. CASE ServerDelete
    <3>1. req.dev \in DeviceIds
      BY <2>3, ReqType DEF ServerDelete, ReqInv, InFlight
    <3>2. dest' = [dest EXCEPT ![req.dev] = NoURL]
      BY <2>3 DEF ServerDelete
    <3>3. pc' = pc /\ pc \in Deleting /\ req'.dev = req.dev
      BY <2>3, ReplyFields DEF ServerDelete, Reply, Answers
    <3> QED
      BY <3>1, <3>2, <3>3
         DEF DestInv, DestinationKnown, Changing, Registering, Deleting, TypeOK
  <2>4. CASE ServerUnauthorized
    BY <2>4, ReplyFields, ReqType DEF ServerUnauthorized, Reply, TypeOK,
         Answers, DestInv, DestinationKnown, Changing, InFlight, Registering,
         Deleting, mgrVars, envVars, idVars, cpVars, keyVars
  <2>5. CASE AnswerLost
    BY <2>5, ReplyFields, ReqType DEF AnswerLost, Reply, TypeOK, Answers,
         DestInv, DestinationKnown, Changing, InFlight, Registering, Deleting,
         mgrVars, envVars, idVars, cpVars, keyVars
  <2> QED BY <1>2, <2>1, <2>2, <2>3, <2>4, <2>5 DEF Server
<1>3. CASE HandleAnswer
  <2>1. CASE RegisterOk
    <3>1. /\ deviceID' = Canon[req.dev] /\ registered' = TRUE
          /\ registeredURL' = req.url /\ pc' = "wait" /\ dest' = dest
      BY <2>1 DEF RegisterOk, Registers, cpVars
    <3>2. dest[Canon[req.dev]] = req.url
      BY <2>1 DEF RegisterOk, DestInv
    <3>3. \A d \in DeviceIds \ lost : dest[d] # NoURL => d = Canon[req.dev]
      BY <2>1 DEF RegisterOk, IdInv, InFlight
    <3>4. lost \subseteq lost'
      BY <2>1 DEF RegisterOk, Registers, SaveDeviceID
    <3> QED
      BY <3>1, <3>2, <3>3, <3>4
         DEF DestInv, DestinationKnown, Registering, Deleting
  <2>2. CASE RegisterFallback
    BY <2>2, FallbackFields DEF RegisterFallback, TypeOK, DestInv,
         DestinationKnown, Changing, InFlight, Registering, Deleting, mgrVars,
         envVars, idVars, cpVars, keyVars
  <2>3. CASE RegisterUnauthorized
    BY <2>3, ReqType DEF RegisterUnauthorized, Settle, TypeOK, ReqInv, IdInv,
         Answers, DestInv, DestinationKnown, Changing, InFlight, Registering,
         Deleting, mgrVars, envVars, idVars, cpVars, keyVars
  <2>4. CASE PaymentRequired
    BY <2>4, ReqType DEF PaymentRequired, Settle, TypeOK, ReqInv, IdInv,
         Answers, DestInv, DestinationKnown, Changing, InFlight, Registering,
         Deleting, mgrVars, envVars, idVars, cpVars, keyVars
  <2>5. CASE RegisterFailed
    BY <2>5, ReqType DEF RegisterFailed, Settle, TypeOK, ReqInv, IdInv,
         Answers, DestInv, DestinationKnown, Changing, InFlight, Registering,
         Deleting, mgrVars, envVars, idVars, cpVars, keyVars
  <2>6. CASE HeartbeatKept
    BY <2>6, ReqType DEF HeartbeatKept, Settle, TypeOK, ReqInv, IdInv,
         Answers, DestInv, DestinationKnown, Changing, InFlight, Registering,
         Deleting, mgrVars, envVars, idVars, cpVars, keyVars
  <2>7. CASE HeartbeatUnauthorized
    BY <2>7, ReqType DEF HeartbeatUnauthorized, Settle, TypeOK, ReqInv, IdInv,
         Answers, DestInv, DestinationKnown, Changing, InFlight, Registering,
         Deleting, mgrVars, envVars, idVars, cpVars, keyVars
  <2>8. CASE HeartbeatNotFound
    BY <2>8, ReqType DEF HeartbeatNotFound, Settle, TypeOK, ReqInv, IdInv,
         Answers, DestInv, DestinationKnown, Changing, InFlight, Registering,
         Deleting, mgrVars, envVars, idVars, cpVars, keyVars
  <2>9. CASE DeleteDone
    BY <2>9, ReqType DEF DeleteDone, TypeOK, ReqInv, IdInv, Answers, DestInv,
         DestinationKnown, Changing, InFlight, Registering, Deleting, mgrVars,
         envVars, idVars, cpVars, keyVars
  <2> QED BY <1>3, <2>1, <2>2, <2>3, <2>4, <2>5, <2>6, <2>7, <2>8, <2>9 DEF
       HandleAnswer
<1>4. CASE Wake
  <2>1. CASE WakeKick
    BY <2>1 DEF WakeKick, DestInv, DestinationKnown, Changing, InFlight,
         Registering, Deleting, mgrVars, envVars, idVars, cpVars, keyVars
  <2>2. CASE WakeTimer
    BY <2>2 DEF WakeTimer, DestInv, DestinationKnown, Changing, InFlight,
         Registering, Deleting, mgrVars, envVars, idVars, cpVars, keyVars
  <2>3. CASE RunDone
    BY <2>3, DeregisterFields DEF RunDone, Deregister, TypeOK, DestInv,
         DestinationKnown, Changing, InFlight, Registering, Deleting, mgrVars,
         envVars, idVars, cpVars, keyVars
  <2> QED BY <1>4, <2>1, <2>2, <2>3 DEF Wake
<1>5. ASSUME NEW u \in Urls \cup {NoURL}, SetTunnelURL(u) PROVE DestInv'
  BY <1>5 DEF SetTunnelURL, Up, DestInv, DestinationKnown, Changing, InFlight,
       Registering, Deleting, mgrVars, envVars, idVars, cpVars, keyVars
<1>6. ASSUME NEW c \in BOOLEAN, NEW p \in Publishing,
            NEW t \in {"none", "fresh", token}, ConfigPatch(c, p, t) PROVE
     DestInv'
  BY <1>6 DEF ConfigPatch, Up, DestInv, DestinationKnown, Changing, InFlight,
       Registering, Deleting, mgrVars, envVars, idVars, cpVars, keyVars
<1>7. CASE ReconcileKick
  BY <1>7 DEF ReconcileKick, DestInv, DestinationKnown, Changing, InFlight,
       Registering, Deleting, mgrVars, envVars, idVars, cpVars, keyVars
<1>8. ASSUME NEW t \in {"none", "fresh"}, SetToken(t) PROVE DestInv'
  BY <1>8 DEF SetToken, Up, DestInv, DestinationKnown, Changing, InFlight,
       Registering, Deleting, mgrVars, envVars, idVars, cpVars, keyVars
<1>9. ASSUME NEW k \in Keys, AdminMintKey(k) PROVE DestInv'
  BY <1>9 DEF AdminMintKey, MintKey, DestInv, DestinationKnown, Changing,
       InFlight, Registering, Deleting, mgrVars, envVars, idVars, cpVars, keyVars
<1>10. ASSUME NEW k \in Keys, AdminRevokeKey(k) PROVE DestInv'
  BY <1>10 DEF AdminRevokeKey, Revoke, DestInv, DestinationKnown, Changing,
       InFlight, Registering, Deleting, mgrVars, envVars, idVars, cpVars, keyVars
<1>11. CASE Shutdown
  BY <1>11 DEF Shutdown, Up, DestInv, DestinationKnown, Changing, InFlight,
       Registering, Deleting, mgrVars, envVars, idVars, cpVars, keyVars
<1>12. CASE Crash
  BY <1>12 DEF Crash, Up, DestInv, DestinationKnown, Changing, InFlight,
       Registering, Deleting, mgrVars, envVars, idVars, cpVars, keyVars
<1>13. CASE Boot
  BY <1>13, RegistrationAssumption DEF Boot, Up, DestInv, DestinationKnown, Changing, InFlight,
       Registering, Deleting, mgrVars, envVars, idVars, cpVars, keyVars
<1>14. CASE TokenLapses
  BY <1>14 DEF TokenLapses, DestInv, DestinationKnown, Changing, InFlight,
       Registering, Deleting, mgrVars, envVars, idVars, cpVars, keyVars
<1>15. ASSUME NEW s \in {"ok", "unpaid", "down"}, PlaneChange(s) PROVE DestInv'
  BY <1>15 DEF PlaneChange, DestInv, DestinationKnown, Changing, InFlight,
       Registering, Deleting, mgrVars, envVars, idVars, cpVars, keyVars
<1>16. ASSUME NEW d \in DeviceIds, TTLReap(d) PROVE DestInv'
  BY <1>16, ReqType, RegistrationAssumption DEF TTLReap, TypeOK, Refreshing,
       ReqInv, DestInv, DestinationKnown, Changing, InFlight, Registering,
       Deleting, mgrVars, envVars, idVars, cpVars, keyVars
<1>17. CASE UNCHANGED vars
  BY <1>17 DEF vars, DestInv, DestinationKnown, Changing, InFlight,
       Registering, Deleting, mgrVars, envVars, idVars, cpVars, keyVars
<1>18. ASSUME NEW d \in DeviceIds, OtherMints(d) PROVE DestInv'
  BY <1>18 DEF OtherMints, DestInv, DestinationKnown, Changing, Registering,
       Deleting, mgrVars, envVars, idVars, cpVars, keyVars
<1>19. CASE OtherSaves
  BY <1>19, OtherSavesFields DEF OtherSaves, DestInv, DestinationKnown,
       Changing, Registering, Deleting, mgrVars, envVars, idVars, cpVars,
       keyVars
<1>20. CASE OtherDataDir
  BY <1>20, OtherDataDirFields DEF OtherDataDir, DestInv, DestinationKnown,
       Changing, Registering, Deleting, mgrVars, envVars, idVars, cpVars,
       keyVars
<1> QED
  BY <1>1, <1>2, <1>3, <1>4, <1>5, <1>6, <1>7, <1>8, <1>9, <1>10, <1>11,
       <1>12, <1>13, <1>14, <1>15, <1>16, <1>17, <1>18, <1>19, <1>20 DEF Next

(***************************************************************************)
(* A destination on the control plane is the one the manager believes in   *)
(* and will delete, unless a request about it is under way, an answer was  *)
(* lost or refused, or the node lost the identity it is under.             *)
(***************************************************************************)
THEOREM DestinationCorrect == Spec => []DestinationKnown
<1>1. Init => ReqInv /\ BeliefInv /\ IdInv /\ DestInv
  BY NoReqFields DEF Init, ReqInv, BeliefInv, BeliefConsistent, IdInv, DestInv,
         DestinationKnown, InFlight, Registering, Deleting
<1>2. TypeOK /\ (ReqInv /\ BeliefInv /\ IdInv /\ DestInv) /\ [Next]_vars
        => (ReqInv /\ BeliefInv /\ IdInv /\ DestInv)'
  BY ReqStep, BeliefStep, IdStep, DestStep
<1>3. DestInv => DestinationKnown
  BY DEF DestInv
<1> QED
  BY <1>1, <1>2, <1>3, TypeCorrect, PTL DEF Spec

-----------------------------------------------------------------------------
(***************************************************************************)
(* Nothing is slept through.                                               *)
(***************************************************************************)
LEMMA WakeStep == TypeOK /\ ReqInv /\ WakeInv /\ [Next]_vars => WakeInv'
<1> SUFFICES ASSUME TypeOK, ReqInv, WakeInv, [Next]_vars PROVE WakeInv'
  OBVIOUS
<1>1. CASE Step
  <2>1. CASE StepIdle
    BY <2>1 DEF StepIdle, WakeInv, NoLostWakeup, InFlight, Registering,
         Deleting, Desired, mgrVars, envVars, idVars, cpVars, keyVars
  <2>2. CASE StepDeregister
    BY <2>2 DEF StepDeregister, Deregister, TypeOK, WakeInv, NoLostWakeup,
         InFlight, Registering, Deleting, Desired, mgrVars, envVars, idVars, cpVars,
         keyVars
  <2>3. CASE StepRegister
    BY <2>3 DEF StepRegister, NeedsRegister, EnsureDeviceID, LoadOrCreate,
         MintFor, MintKey, WakeInv, NoLostWakeup, InFlight, Registering,
         Deleting, Desired, mgrVars, envVars, idVars, cpVars, keyVars
  <2>4. CASE StepNoDeviceID
    BY <2>4 DEF StepNoDeviceID, NeedsRegister, WakeInv, NoLostWakeup,
         InFlight, Registering, Deleting, Desired, mgrVars, envVars, idVars, cpVars,
         keyVars
  <2>5. CASE StepHeartbeat
    BY <2>5 DEF StepHeartbeat, NeedsRegister, WakeInv, NoLostWakeup, InFlight,
         Registering, Deleting, Desired, mgrVars, envVars, idVars, cpVars, keyVars
  <2> QED BY <1>1, <2>1, <2>2, <2>3, <2>4, <2>5 DEF Step
<1>2. CASE Server
  <2>1. CASE ServerRegister
    BY <2>1 DEF ServerRegister, Reply, WakeInv, NoLostWakeup, InFlight,
         Registering, Deleting, Desired, mgrVars, envVars, idVars, cpVars, keyVars
  <2>2. CASE ServerHeartbeat
    BY <2>2 DEF ServerHeartbeat, Reply, WakeInv, NoLostWakeup, InFlight,
         Registering, Deleting, Desired, mgrVars, envVars, idVars, cpVars, keyVars
  <2>3. CASE ServerDelete
    BY <2>3 DEF ServerDelete, Reply, WakeInv, NoLostWakeup, InFlight,
         Registering, Deleting, Desired, mgrVars, envVars, idVars, cpVars, keyVars
  <2>4. CASE ServerUnauthorized
    BY <2>4 DEF ServerUnauthorized, Reply, WakeInv, NoLostWakeup, InFlight,
         Registering, Deleting, Desired, mgrVars, envVars, idVars, cpVars, keyVars
  <2>5. CASE AnswerLost
    BY <2>5 DEF AnswerLost, Reply, WakeInv, NoLostWakeup, InFlight,
         Registering, Deleting, Desired, mgrVars, envVars, idVars, cpVars, keyVars
  <2> QED BY <1>2, <2>1, <2>2, <2>3, <2>4, <2>5 DEF Server
<1>3. CASE HandleAnswer
  <2>1. CASE RegisterOk
    BY <2>1 DEF RegisterOk, Registers, CommitKey, RevokeAll, WakeInv,
         NoLostWakeup, InFlight, Registering, Deleting, Desired, mgrVars,
         envVars, idVars, cpVars, keyVars
  <2>2. CASE RegisterFallback
    BY <2>2 DEF RegisterFallback, WakeInv, NoLostWakeup, InFlight,
         Registering, Deleting, Desired, mgrVars, envVars, idVars, cpVars, keyVars
  <2>3. CASE RegisterUnauthorized
    BY <2>3 DEF RegisterUnauthorized, Settle, WakeInv, NoLostWakeup, InFlight,
         Registering, Deleting, Desired, mgrVars, envVars, idVars, cpVars, keyVars
  <2>4. CASE PaymentRequired
    BY <2>4 DEF PaymentRequired, Settle, WakeInv, NoLostWakeup, InFlight,
         Registering, Deleting, Desired, mgrVars, envVars, idVars, cpVars, keyVars
  <2>5. CASE RegisterFailed
    BY <2>5 DEF RegisterFailed, Settle, WakeInv, NoLostWakeup, InFlight,
         Registering, Deleting, Desired, mgrVars, envVars, idVars, cpVars, keyVars
  <2>6. CASE HeartbeatKept
    BY <2>6 DEF HeartbeatKept, Settle, WakeInv, NoLostWakeup, InFlight,
         Registering, Deleting, Desired, mgrVars, envVars, idVars, cpVars, keyVars
  <2>7. CASE HeartbeatUnauthorized
    BY <2>7 DEF HeartbeatUnauthorized, Settle, WakeInv, NoLostWakeup,
         InFlight, Registering, Deleting, Desired, mgrVars, envVars, idVars, cpVars,
         keyVars
  <2>8. CASE HeartbeatNotFound
    BY <2>8 DEF HeartbeatNotFound, Settle, WakeInv, NoLostWakeup, InFlight,
         Registering, Deleting, Desired, mgrVars, envVars, idVars, cpVars, keyVars
  <2>9. CASE DeleteDone
    BY <2>9 DEF DeleteDone, ReqInv, WakeInv, NoLostWakeup, InFlight,
         Registering, Deleting, Desired, mgrVars, envVars, idVars, cpVars, keyVars
  <2> QED BY <1>3, <2>1, <2>2, <2>3, <2>4, <2>5, <2>6, <2>7, <2>8, <2>9 DEF
       HandleAnswer
<1>4. CASE Wake
  <2>1. CASE WakeKick
    BY <2>1 DEF WakeKick, WakeInv, NoLostWakeup, InFlight, Registering,
         Deleting, Desired, mgrVars, envVars, idVars, cpVars, keyVars
  <2>2. CASE WakeTimer
    BY <2>2 DEF WakeTimer, WakeInv, NoLostWakeup, InFlight, Registering,
         Deleting, Desired, mgrVars, envVars, idVars, cpVars, keyVars
  <2>3. CASE RunDone
    BY <2>3 DEF RunDone, Deregister, WakeInv, NoLostWakeup, InFlight,
         Registering, Deleting, Desired, mgrVars, envVars, idVars, cpVars, keyVars
  <2> QED BY <1>4, <2>1, <2>2, <2>3 DEF Wake
<1>5. ASSUME NEW u \in Urls \cup {NoURL}, SetTunnelURL(u) PROVE WakeInv'
  BY <1>5 DEF SetTunnelURL, WakeInv, NoLostWakeup, InFlight, Registering,
       Deleting, Desired, mgrVars, envVars, idVars, cpVars, keyVars
<1>6. ASSUME NEW c \in BOOLEAN, NEW p \in Publishing,
            NEW t \in {"none", "fresh", token}, ConfigPatch(c, p, t) PROVE
     WakeInv'
  BY <1>6 DEF ConfigPatch, WakeInv, NoLostWakeup, InFlight, Registering,
       Deleting, Desired, mgrVars, envVars, idVars, cpVars, keyVars
<1>7. CASE ReconcileKick
  BY <1>7 DEF ReconcileKick, WakeInv, NoLostWakeup, InFlight, Registering,
       Deleting, Desired, mgrVars, envVars, idVars, cpVars, keyVars
<1>8. ASSUME NEW t \in {"none", "fresh"}, SetToken(t) PROVE WakeInv'
  BY <1>8 DEF SetToken, WakeInv, NoLostWakeup, InFlight, Registering,
       Deleting, Desired, mgrVars, envVars, idVars, cpVars, keyVars
<1>9. ASSUME NEW k \in Keys, AdminMintKey(k) PROVE WakeInv'
  BY <1>9 DEF AdminMintKey, MintKey, WakeInv, NoLostWakeup, InFlight,
       Registering, Deleting, Desired, mgrVars, envVars, idVars, cpVars, keyVars
<1>10. ASSUME NEW k \in Keys, AdminRevokeKey(k) PROVE WakeInv'
  BY <1>10 DEF AdminRevokeKey, Revoke, WakeInv, NoLostWakeup, InFlight,
       Registering, Deleting, Desired, mgrVars, envVars, idVars, cpVars, keyVars
<1>11. CASE Shutdown
  BY <1>11 DEF Shutdown, WakeInv, NoLostWakeup, InFlight, Registering,
       Deleting, Desired, mgrVars, envVars, idVars, cpVars, keyVars
<1>12. CASE Crash
  BY <1>12 DEF Crash, WakeInv, NoLostWakeup, InFlight, Registering, Deleting,
       Desired, mgrVars, envVars, idVars, cpVars, keyVars
<1>13. CASE Boot
  BY <1>13 DEF Boot, WakeInv, NoLostWakeup, InFlight, Registering, Deleting,
       Desired, mgrVars, envVars, idVars, cpVars, keyVars
<1>14. CASE TokenLapses
  BY <1>14 DEF TokenLapses, WakeInv, NoLostWakeup, InFlight, Registering,
       Deleting, Desired, mgrVars, envVars, idVars, cpVars, keyVars
<1>15. ASSUME NEW s \in {"ok", "unpaid", "down"}, PlaneChange(s) PROVE WakeInv'
  BY <1>15 DEF PlaneChange, WakeInv, NoLostWakeup, InFlight, Registering,
       Deleting, Desired, mgrVars, envVars, idVars, cpVars, keyVars
<1>16. ASSUME NEW d \in DeviceIds, TTLReap(d) PROVE WakeInv'
  BY <1>16 DEF TTLReap, WakeInv, NoLostWakeup, InFlight, Registering,
       Deleting, Desired, mgrVars, envVars, idVars, cpVars, keyVars
<1>17. CASE UNCHANGED vars
  BY <1>17 DEF vars, WakeInv, NoLostWakeup, InFlight, Registering, Deleting,
       Desired, mgrVars, envVars, idVars, cpVars, keyVars
<1>18. ASSUME NEW d \in DeviceIds, OtherMints(d) PROVE WakeInv'
  BY <1>18 DEF OtherMints, WakeInv, NoLostWakeup, Desired, mgrVars, envVars,
       idVars, cpVars, keyVars
<1>19. CASE OtherSaves
  BY <1>19, OtherSavesFields DEF OtherSaves, WakeInv, NoLostWakeup, Desired,
       mgrVars, envVars, idVars, cpVars, keyVars
<1>20. CASE OtherDataDir
  BY <1>20, OtherDataDirFields DEF OtherDataDir, WakeInv, NoLostWakeup,
       Desired, mgrVars, envVars, idVars, cpVars, keyVars
<1> QED
  BY <1>1, <1>2, <1>3, <1>4, <1>5, <1>6, <1>7, <1>8, <1>9, <1>10, <1>11,
       <1>12, <1>13, <1>14, <1>15, <1>16, <1>17, <1>18, <1>19, <1>20 DEF Next

(***************************************************************************)
(* Whatever changes while a request is under way, the loop parks for an    *)
(* hour only when there is nothing to do, when the control plane refused   *)
(* the token, or when a kick is waiting or owed by a Reconcile.            *)
(***************************************************************************)
THEOREM WakeCorrect == Spec => []NoLostWakeup
<1>1. Init => ReqInv /\ BeliefInv /\ WakeInv
  BY NoReqFields DEF Init, ReqInv, BeliefInv, BeliefConsistent, WakeInv, NoLostWakeup,
         InFlight, Registering, Deleting
<1>2. TypeOK /\ (ReqInv /\ BeliefInv /\ WakeInv) /\ [Next]_vars
        => (ReqInv /\ BeliefInv /\ WakeInv)'
  BY ReqStep, BeliefStep, WakeStep
<1>3. WakeInv => NoLostWakeup
  BY DEF WakeInv
<1> QED
  BY <1>1, <1>2, <1>3, TypeCorrect, PTL DEF Spec

-----------------------------------------------------------------------------
(***************************************************************************)
(* The key the node publishes.                                             *)
(***************************************************************************)
LEMMA AcceptedPlus ==
    ASSUME NEW k, NEW s, keys' = keys \cup {[id |-> k, scope |-> s]}
    PROVE  Accepted' = Accepted \cup {k}
<1> DEFINE r == [id |-> k, scope |-> s]
<1>1. r.id = k
  OBVIOUS
<1> HIDE DEF r
<1>2. keys' = keys \cup {r}
  BY DEF r
<1>3. \A x : x \in Accepted' <=> x \in Accepted \/ x = k
  BY <1>1, <1>2, Zenon DEF Accepted
<1> QED
  BY <1>3

\* Every step keeps ids unique and the keys to retire apart.
LEMMA KeyStep == TypeOK /\ ReqInv /\ KeyInv /\ [Next]_vars => KeyInv'
<1> SUFFICES ASSUME TypeOK, ReqInv, KeyInv, [Next]_vars PROVE KeyInv'
  OBVIOUS
<1>1. CASE Step
  <2>1. CASE StepIdle
    BY <2>1 DEF StepIdle, KeyInv, Accepted, mgrVars, envVars, idVars, cpVars,
         keyVars
  <2>2. CASE StepDeregister
    BY <2>2, DeregisterFields DEF StepDeregister, Deregister, KeyInv,
         Accepted, mgrVars, envVars, idVars, cpVars, keyVars
  <2>3. CASE StepRegister
    <3>1. PICK d \in DeviceIds, k \in Keys \cup {NoKey}, olds \in SUBSET Keys :
            MintFor(k, olds) /\ req'.key = k /\ req'.olds = olds
      BY <2>3, StepRegisterRequest
    <3>2. CASE UNCHANGED keyVars /\ k = NoKey /\ olds = {}
      BY <3>1, <3>2 DEF KeyInv, Accepted, keyVars
    <3>3. CASE MintKey(k, ControlPlaneKeyScope) /\ olds = ControlPlaneIds
      <4>1. /\ k \in Keys \ drawn /\ revoked' = revoked
            /\ keys' = keys \cup {[id |-> k, scope |-> ControlPlaneKeyScope]}
            /\ drawn' = drawn \cup {k}
        BY <3>3 DEF MintKey
      <4>2. Accepted' = Accepted \cup {k} /\ olds \subseteq Accepted
        <5>1. Accepted' = Accepted \cup {k}
          BY <4>1, AcceptedPlus
        <5>2. olds \subseteq Accepted
          BY <3>3, Zenon DEF Accepted, ControlPlaneIds
        <5> QED
          BY <5>1, <5>2
      <4>3. k \notin Accepted \cup revoked \cup olds
        BY <4>1, <4>2 DEF KeyInv
      <4>4. \A a, b \in keys' : a.id = b.id => a = b
        BY <4>1, <4>3 DEF KeyInv, Accepted
      <4>5. \A a \in keys' : a.scope = PersonScope => a.id \notin olds
        BY <3>3, <4>1, <4>3 DEF KeyInv, ControlPlaneIds, PersonScope,
             ControlPlaneKeyScope
      <4> QED
        BY <3>1, <4>1, <4>2, <4>3, <4>4, <4>5 DEF KeyInv
    <3> QED
      BY <3>1, <3>2, <3>3 DEF MintFor
  <2>4. CASE StepNoDeviceID
    BY <2>4 DEF StepNoDeviceID, NeedsRegister, KeyInv, Accepted, mgrVars,
         envVars, idVars, cpVars, keyVars
  <2>5. CASE StepHeartbeat
    BY <2>5, SentDeviceFields DEF StepHeartbeat, NeedsRegister, KeyInv,
         Accepted, mgrVars, envVars, idVars, cpVars, keyVars
  <2> QED BY <1>1, <2>1, <2>2, <2>3, <2>4, <2>5 DEF Step
<1>2. CASE Server
  <2>1. CASE ServerRegister
    BY <2>1, ReplyFields, ReqType DEF ServerRegister, Reply, TypeOK, Answers,
         KeyInv, Accepted, mgrVars, envVars, idVars, cpVars, keyVars
  <2>2. CASE ServerHeartbeat
    BY <2>2, ReplyFields, ReqType DEF ServerHeartbeat, Reply, TypeOK, Answers,
         KeyInv, Accepted, mgrVars, envVars, idVars, cpVars, keyVars
  <2>3. CASE ServerDelete
    BY <2>3, ReplyFields, ReqType DEF ServerDelete, Reply, TypeOK, Answers,
         KeyInv, Accepted, mgrVars, envVars, idVars, cpVars, keyVars
  <2>4. CASE ServerUnauthorized
    BY <2>4, ReplyFields, ReqType DEF ServerUnauthorized, Reply, TypeOK,
         Answers, KeyInv, Accepted, mgrVars, envVars, idVars, cpVars, keyVars
  <2>5. CASE AnswerLost
    BY <2>5, ReplyFields, ReqType DEF AnswerLost, Reply, TypeOK, Answers,
         KeyInv, Accepted, mgrVars, envVars, idVars, cpVars, keyVars
  <2> QED BY <1>2, <2>1, <2>2, <2>3, <2>4, <2>5 DEF Server
<1>3. CASE HandleAnswer
  <2>1. CASE RegisterOk
    <3>1. PICK gone \in SUBSET req.olds : RevokeAll(gone)
      BY <2>1 DEF RegisterOk, Registers, CommitKey
    <3>2. keys' \subseteq keys /\ UNCHANGED <<drawn, revoked>>
      BY <3>1 DEF RevokeAll
    <3>3. req'.key = NoKey /\ req'.olds = {}
      BY <2>1, NoReqFields DEF RegisterOk, Registers
    <3> QED
      BY <3>2, <3>3 DEF KeyInv, Accepted
  <2>2. CASE RegisterFallback
    BY <2>2, FallbackFields DEF RegisterFallback, KeyInv, Accepted, mgrVars,
         envVars, idVars, cpVars, keyVars
  <2>3. CASE RegisterUnauthorized
    BY <2>3, NoReqFields DEF RegisterUnauthorized, Settle, KeyInv, Accepted,
         mgrVars, envVars, idVars, cpVars, keyVars
  <2>4. CASE PaymentRequired
    BY <2>4, NoReqFields DEF PaymentRequired, Settle, KeyInv, Accepted,
         mgrVars, envVars, idVars, cpVars, keyVars
  <2>5. CASE RegisterFailed
    BY <2>5, NoReqFields DEF RegisterFailed, Settle, KeyInv, Accepted,
         mgrVars, envVars, idVars, cpVars, keyVars
  <2>6. CASE HeartbeatKept
    BY <2>6, NoReqFields DEF HeartbeatKept, Settle, KeyInv, Accepted, mgrVars,
         envVars, idVars, cpVars, keyVars
  <2>7. CASE HeartbeatUnauthorized
    BY <2>7, NoReqFields DEF HeartbeatUnauthorized, Settle, KeyInv, Accepted,
         mgrVars, envVars, idVars, cpVars, keyVars
  <2>8. CASE HeartbeatNotFound
    BY <2>8, NoReqFields DEF HeartbeatNotFound, Settle, KeyInv, Accepted,
         mgrVars, envVars, idVars, cpVars, keyVars
  <2>9. CASE DeleteDone
    BY <2>9, NoReqFields DEF DeleteDone, KeyInv, Accepted, mgrVars, envVars,
         idVars,
         cpVars, keyVars
  <2> QED BY <1>3, <2>1, <2>2, <2>3, <2>4, <2>5, <2>6, <2>7, <2>8, <2>9 DEF
       HandleAnswer
<1>4. CASE Wake
  <2>1. CASE WakeKick
    BY <2>1 DEF WakeKick, KeyInv, Accepted, mgrVars, envVars, idVars, cpVars,
         keyVars
  <2>2. CASE WakeTimer
    BY <2>2 DEF WakeTimer, KeyInv, Accepted, mgrVars, envVars, idVars,
         cpVars, keyVars
  <2>3. CASE RunDone
    BY <2>3, DeregisterFields DEF RunDone, Deregister, KeyInv, Accepted,
         mgrVars, envVars, idVars, cpVars, keyVars
  <2> QED BY <1>4, <2>1, <2>2, <2>3 DEF Wake
<1>5. ASSUME NEW u \in Urls \cup {NoURL}, SetTunnelURL(u) PROVE KeyInv'
  BY <1>5 DEF SetTunnelURL, KeyInv, Accepted, mgrVars, envVars, idVars,
       cpVars, keyVars
<1>6. ASSUME NEW c \in BOOLEAN, NEW p \in Publishing,
            NEW t \in {"none", "fresh", token}, ConfigPatch(c, p, t) PROVE
     KeyInv'
  BY <1>6 DEF ConfigPatch, KeyInv, Accepted, mgrVars, envVars, idVars,
       cpVars, keyVars
<1>7. CASE ReconcileKick
  BY <1>7 DEF ReconcileKick, KeyInv, Accepted, mgrVars, envVars, idVars,
       cpVars,
       keyVars
<1>8. ASSUME NEW t \in {"none", "fresh"}, SetToken(t) PROVE KeyInv'
  BY <1>8 DEF SetToken, KeyInv, Accepted, mgrVars, envVars, idVars, cpVars,
       keyVars
<1>9. ASSUME NEW k \in Keys, AdminMintKey(k) PROVE KeyInv'
  <2>1. /\ k \notin drawn /\ drawn' = drawn \cup {k} /\ revoked' = revoked
        /\ keys' = keys \cup {[id |-> k, scope |-> PersonScope]}
        /\ req' = req
    BY <1>9 DEF AdminMintKey, MintKey
  <2>2. k \notin Accepted \cup revoked \cup req.olds
    BY <2>1 DEF KeyInv
  <2>3. Accepted' = Accepted \cup {k}
    BY <2>1, AcceptedPlus
  <2>4. \A a, b \in keys' : a.id = b.id => a = b
    BY <2>1, <2>2 DEF KeyInv, Accepted
  <2> QED
    BY <2>1, <2>2, <2>3, <2>4 DEF KeyInv
<1>10. ASSUME NEW k \in Keys, AdminRevokeKey(k) PROVE KeyInv'
  <2>1. /\ k \in Accepted /\ revoked' = revoked \cup {k} /\ drawn' = drawn
        /\ keys' = {r \in keys : r.id # k} /\ req' = req
    BY <1>10 DEF AdminRevokeKey, Revoke
  <2>2. Accepted' = Accepted \ {k}
    BY <2>1 DEF Accepted
  <2> QED
    BY <2>1, <2>2 DEF KeyInv
<1>11. CASE Shutdown
  BY <1>11 DEF Shutdown, KeyInv, Accepted, mgrVars, envVars, idVars, cpVars,
       keyVars
<1>12. CASE Crash
  BY <1>12, NoReqFields DEF Crash, KeyInv, Accepted, mgrVars, envVars,
       idVars, cpVars,
       keyVars
<1>13. CASE Boot
  BY <1>13, NoReqFields DEF Boot, KeyInv, Accepted, mgrVars, envVars, idVars,
       cpVars,
       keyVars
<1>14. CASE TokenLapses
  BY <1>14 DEF TokenLapses, KeyInv, Accepted, mgrVars, envVars, idVars,
       cpVars, keyVars
<1>15. ASSUME NEW s \in {"ok", "unpaid", "down"}, PlaneChange(s) PROVE KeyInv'
  BY <1>15 DEF PlaneChange, KeyInv, Accepted, mgrVars, envVars, idVars,
       cpVars, keyVars
<1>16. ASSUME NEW d \in DeviceIds, TTLReap(d) PROVE KeyInv'
  BY <1>16 DEF TTLReap, KeyInv, Accepted, mgrVars, envVars, idVars, cpVars,
       keyVars
<1>17. CASE UNCHANGED vars
  BY <1>17 DEF vars, KeyInv, Accepted, mgrVars, envVars, idVars, cpVars,
       keyVars
<1>18. ASSUME NEW d \in DeviceIds, OtherMints(d) PROVE KeyInv'
  BY <1>18 DEF OtherMints, KeyInv, Accepted, mgrVars, envVars, idVars,
       cpVars, keyVars
<1>19. CASE OtherSaves
  BY <1>19, OtherSavesFields DEF OtherSaves, KeyInv, Accepted, mgrVars,
       envVars, idVars, cpVars, keyVars
<1>20. CASE OtherDataDir
  <2>1. keys' = {} /\ Accepted' = {} /\ UNCHANGED <<req, drawn, revoked>>
    BY <1>20, OtherDataDirFields DEF OtherDataDir
  <2>2. req.key = NoKey
    BY <1>20 DEF OtherDataDir, Up, ReqInv, Registering
  <2> QED
    BY <2>1, <2>2 DEF KeyInv
<1> QED
  BY <1>1, <1>2, <1>3, <1>4, <1>5, <1>6, <1>7, <1>8, <1>9, <1>10, <1>11,
       <1>12, <1>13, <1>14, <1>15, <1>16, <1>17, <1>18, <1>19, <1>20 DEF Next

\* Every step keeps the held key accepted, when no instance is old.
LEMMA HoldStep ==
    ASSUME Mixed = FALSE
    PROVE  TypeOK /\ IdInv /\ KeyInv /\ HoldInv /\ [Next]_vars => HoldInv'
<1> SUFFICES ASSUME TypeOK, IdInv, KeyInv, HoldInv, [Next]_vars PROVE HoldInv'
  OBVIOUS
<1>1. CASE Step
  <2>1. CASE StepIdle
    BY <2>1 DEF StepIdle, HoldInv, HeldKeyAccepted, Accepted, mgrVars,
         envVars, idVars, cpVars, keyVars
  <2>2. CASE StepDeregister
    BY <2>2, DeregisterFields DEF StepDeregister, Deregister, HoldInv,
         HeldKeyAccepted, Accepted, mgrVars, envVars, idVars, cpVars, keyVars
  <2>3. CASE StepRegister
    <3>1. PICK d \in DeviceIds, k \in Keys \cup {NoKey}, olds \in SUBSET Keys :
            /\ EnsureDeviceID(d) /\ MintFor(k, olds)
            /\ req'.key = k /\ req'.olds = olds
            /\ req'.answer \in {"none", "401", "error"}
      BY <2>3, StepRegisterRequest
    <3>2. pc' = "register" /\ held' = held
      BY <2>3 DEF StepRegister, cpVars
    <3>3. keys \subseteq keys' /\ revoked' = revoked
      BY <3>1 DEF MintFor, MintKey, keyVars
    <3>4. k = NoKey => olds = {}
      BY <3>1, KeysAssumption DEF MintFor, MintKey
    <3>5. Accepted \subseteq Accepted'
      BY <3>3 DEF Accepted
    <3>6. lost \subseteq lost'
      BY <3>1, EnsureFields
    <3> QED
      BY <3>1, <3>2, <3>3, <3>4, <3>5, <3>6 DEF HoldInv, HeldKeyAccepted
  <2>4. CASE StepNoDeviceID
    BY <2>4 DEF StepNoDeviceID, NeedsRegister, HoldInv, HeldKeyAccepted,
         Accepted, mgrVars, envVars, idVars, cpVars, keyVars
  <2>5. CASE StepHeartbeat
    BY <2>5, SentDeviceFields DEF StepHeartbeat, NeedsRegister, HoldInv,
         HeldKeyAccepted, Accepted, mgrVars, envVars, idVars, cpVars, keyVars
  <2> QED BY <1>1, <2>1, <2>2, <2>3, <2>4, <2>5 DEF Step
<1>2. CASE Server
  <2>1. CASE ServerRegister
    <3>1. req.dev \in DeviceIds /\ Canon[req.dev] \in DeviceIds
      BY <2>1, RegistrationAssumption DEF ServerRegister, TypeOK
    <3>2. /\ req'.dev = req.dev /\ req'.key = req.key /\ req'.olds = req.olds
          /\ pc' = pc /\ UNCHANGED <<keys, revoked, lost>>
          /\ req'.answer \in {"402", "ok"}
      BY <2>1, ReplyFields DEF ServerRegister, Reply, Answers, idVars, keyVars
    <3>3. \/ held' = held /\ (req'.answer = "ok" => req.key = NoKey)
          \/ req.key # NoKey /\ held' = [held EXCEPT ![Canon[req.dev]] =
               req.key]
      BY <2>1, ReplyFields DEF ServerRegister, Answers
    <3>4. req.key # NoKey => req.key \in Accepted \cup revoked
      BY DEF KeyInv
    <3>5. Accepted' = Accepted
      BY <3>2 DEF Accepted
    <3> QED
      BY <3>1, <3>2, <3>3, <3>4, <3>5 DEF HoldInv, HeldKeyAccepted, TypeOK
  <2>2. CASE ServerHeartbeat
    BY <2>2, ReplyFields, ReqType DEF ServerHeartbeat, Reply, TypeOK, Answers,
         HoldInv, HeldKeyAccepted, Accepted, mgrVars, envVars, idVars, cpVars, keyVars
  <2>3. CASE ServerDelete
    <3>1. pc' = pc /\ pc \in Deleting /\ UNCHANGED <<keys, revoked, lost>>
      BY <2>3 DEF ServerDelete, Reply, idVars, keyVars
    <3>2. /\ req'.key = req.key /\ req'.olds = req.olds
          /\ req'.answer \in {"404", "ok"}
      BY <2>3, ReplyFields DEF ServerDelete, Answers
    <3>3. \A d \in DeviceIds : held'[d] # NoKey => held'[d] = held[d]
      BY <2>3 DEF ServerDelete, TypeOK
    <3>4. Accepted' = Accepted
      BY <3>1 DEF Accepted
    <3> QED
      BY <3>1, <3>2, <3>3, <3>4 DEF HoldInv, HeldKeyAccepted, Deleting
  <2>4. CASE ServerUnauthorized
    BY <2>4, ReplyFields, ReqType DEF ServerUnauthorized, Reply, TypeOK,
         Answers, HoldInv, HeldKeyAccepted, Accepted, mgrVars, envVars, idVars,
         cpVars, keyVars
  <2>5. CASE AnswerLost
    BY <2>5, ReplyFields, ReqType DEF AnswerLost, Reply, TypeOK, Answers,
         HoldInv, HeldKeyAccepted, Accepted, mgrVars, envVars, idVars, cpVars, keyVars
  <2> QED BY <1>2, <2>1, <2>2, <2>3, <2>4, <2>5 DEF Server
<1>3. CASE HandleAnswer
  <2>1. CASE RegisterOk
    <3>1. PICK gone \in SUBSET req.olds : RevokeAll(gone)
      BY <2>1 DEF RegisterOk, Registers, CommitKey
    <3>2. Accepted' = Accepted \ gone /\ revoked' = revoked /\ held' = held
      BY <2>1, <3>1 DEF RevokeAll, Accepted, RegisterOk, Registers, cpVars
    <3>3. /\ req'.key = NoKey /\ req'.olds = {} /\ req'.answer = "none"
          /\ pc' = "wait"
      BY <2>1, NoReqFields DEF RegisterOk, Registers
    <3>4. \A d \in DeviceIds \ lost :
            held[d] # NoKey => held[d] \notin req.olds
      <4>1. pc = "register" /\ req.answer = "ok"
        BY <2>1 DEF RegisterOk, HoldInv, Registering
      <4>2. \A d \in DeviceIds \ lost : held[d] # NoKey => d = Canon[req.dev]
        BY <4>1 DEF IdInv, InFlight, Registering
      <4>3. CASE req.key = NoKey
        BY <4>3 DEF HoldInv
      <4>4. CASE req.key # NoKey
        BY <4>1, <4>2, <4>4 DEF HoldInv, KeyInv
      <4> QED
        BY <4>3, <4>4
    <3>5. lost \subseteq lost'
      BY <2>1 DEF RegisterOk, Registers, SaveDeviceID
    <3> QED
      BY <3>1, <3>2, <3>3, <3>4, <3>5 DEF HoldInv, HeldKeyAccepted
  <2>2. CASE RegisterFallback
    BY <2>2, FallbackFields DEF RegisterFallback, HoldInv, HeldKeyAccepted,
         Accepted, mgrVars, envVars, idVars, cpVars, keyVars
  <2>3. CASE RegisterUnauthorized
    BY <2>3, NoReqFields DEF RegisterUnauthorized, Settle, Settle, HoldInv,
         HeldKeyAccepted, Accepted, mgrVars, envVars, idVars, cpVars, keyVars
  <2>4. CASE PaymentRequired
    BY <2>4, NoReqFields DEF PaymentRequired, Settle, Settle, HoldInv,
         HeldKeyAccepted, Accepted, mgrVars, envVars, idVars, cpVars, keyVars
  <2>5. CASE RegisterFailed
    BY <2>5, NoReqFields DEF RegisterFailed, Settle, Settle, HoldInv,
         HeldKeyAccepted, Accepted, mgrVars, envVars, idVars, cpVars, keyVars
  <2>6. CASE HeartbeatKept
    BY <2>6, NoReqFields DEF HeartbeatKept, Settle, Settle, HoldInv,
         HeldKeyAccepted, Accepted, mgrVars, envVars, idVars, cpVars, keyVars
  <2>7. CASE HeartbeatUnauthorized
    BY <2>7, NoReqFields DEF HeartbeatUnauthorized, Settle, Settle, HoldInv,
         HeldKeyAccepted, Accepted, mgrVars, envVars, idVars, cpVars, keyVars
  <2>8. CASE HeartbeatNotFound
    BY <2>8, NoReqFields DEF HeartbeatNotFound, Settle, Settle, HoldInv,
         HeldKeyAccepted, Accepted, mgrVars, envVars, idVars, cpVars, keyVars
  <2>9. CASE DeleteDone
    BY <2>9, NoReqFields DEF DeleteDone, Settle, HoldInv, HeldKeyAccepted,
         Accepted, mgrVars, envVars, idVars, cpVars, keyVars
  <2> QED BY <1>3, <2>1, <2>2, <2>3, <2>4, <2>5, <2>6, <2>7, <2>8, <2>9 DEF
       HandleAnswer
<1>4. CASE Wake
  <2>1. CASE WakeKick
    BY <2>1 DEF WakeKick, HoldInv, HeldKeyAccepted, Accepted, mgrVars,
         envVars, idVars, cpVars, keyVars
  <2>2. CASE WakeTimer
    BY <2>2 DEF WakeTimer, HoldInv, HeldKeyAccepted, Accepted, mgrVars,
         envVars, idVars, cpVars, keyVars
  <2>3. CASE RunDone
    BY <2>3, DeregisterFields DEF RunDone, Deregister, HoldInv,
         HeldKeyAccepted, Accepted, mgrVars, envVars, idVars, cpVars, keyVars
  <2> QED BY <1>4, <2>1, <2>2, <2>3 DEF Wake
<1>5. ASSUME NEW u \in Urls \cup {NoURL}, SetTunnelURL(u) PROVE HoldInv'
  BY <1>5 DEF SetTunnelURL, HoldInv, HeldKeyAccepted, Accepted, mgrVars,
       envVars, idVars, cpVars, keyVars
<1>6. ASSUME NEW c \in BOOLEAN, NEW p \in Publishing,
            NEW t \in {"none", "fresh", token}, ConfigPatch(c, p, t) PROVE
     HoldInv'
  BY <1>6 DEF ConfigPatch, HoldInv, HeldKeyAccepted, Accepted, mgrVars,
       envVars, idVars, cpVars, keyVars
<1>7. CASE ReconcileKick
  BY <1>7 DEF ReconcileKick, HoldInv, HeldKeyAccepted, Accepted, mgrVars,
       envVars, idVars, cpVars, keyVars
<1>8. ASSUME NEW t \in {"none", "fresh"}, SetToken(t) PROVE HoldInv'
  BY <1>8 DEF SetToken, HoldInv, HeldKeyAccepted, Accepted, mgrVars, envVars,
       idVars,
       cpVars, keyVars
<1>9. ASSUME NEW k \in Keys, AdminMintKey(k) PROVE HoldInv'
  <2>1. Accepted' = Accepted \cup {k}
    BY <1>9, AcceptedPlus DEF AdminMintKey, MintKey
  <2>2. UNCHANGED <<held, revoked, lost, pc, req>>
    BY <1>9 DEF AdminMintKey, MintKey, cpVars, idVars
  <2> QED
    BY <2>1, <2>2 DEF HoldInv, HeldKeyAccepted
<1>10. ASSUME NEW k \in Keys, AdminRevokeKey(k) PROVE HoldInv'
  <2>1. Accepted' = Accepted \ {k} /\ revoked' = revoked \cup {k}
    BY <1>10 DEF AdminRevokeKey, Revoke, Accepted
  <2>2. UNCHANGED <<held, lost, pc, req>>
    BY <1>10 DEF AdminRevokeKey, cpVars, idVars
  <2> QED
    BY <2>1, <2>2 DEF HoldInv, HeldKeyAccepted
<1>11. CASE Shutdown
  BY <1>11 DEF Shutdown, HoldInv, HeldKeyAccepted, Accepted, mgrVars,
       envVars, idVars,
       cpVars, keyVars
<1>12. CASE Crash
  BY <1>12, NoReqFields DEF Crash, Settle, HoldInv, HeldKeyAccepted, Accepted,
       mgrVars, envVars, idVars, cpVars, keyVars
<1>13. CASE Boot
  BY <1>13, NoReqFields DEF Boot, Settle, HoldInv, HeldKeyAccepted, Accepted,
       mgrVars, envVars, idVars, cpVars, keyVars
<1>14. CASE TokenLapses
  BY <1>14 DEF TokenLapses, HoldInv, HeldKeyAccepted, Accepted, mgrVars,
       envVars, idVars, cpVars, keyVars
<1>15. ASSUME NEW s \in {"ok", "unpaid", "down"}, PlaneChange(s) PROVE HoldInv'
  BY <1>15 DEF PlaneChange, HoldInv, HeldKeyAccepted, Accepted, mgrVars,
       envVars, idVars, cpVars, keyVars
<1>16. ASSUME NEW d \in DeviceIds, TTLReap(d) PROVE HoldInv'
  BY <1>16, ReqType, RegistrationAssumption DEF TTLReap, TypeOK, Refreshing,
       Registering, HoldInv, HeldKeyAccepted, Accepted, mgrVars, envVars, idVars,
       cpVars, keyVars
<1>17. CASE UNCHANGED vars
  BY <1>17 DEF vars, HoldInv, HeldKeyAccepted, Accepted, mgrVars, envVars,
       idVars,
       cpVars, keyVars
<1>18. ASSUME NEW d \in DeviceIds, OtherMints(d) PROVE HoldInv'
  BY <1>18 DEF OtherMints, HoldInv, HeldKeyAccepted, Accepted, mgrVars,
       envVars, idVars, cpVars, keyVars
<1>19. CASE OtherSaves
  BY <1>19, OtherSavesFields DEF OtherSaves, HoldInv, HeldKeyAccepted,
       Accepted, mgrVars, envVars, idVars, cpVars, keyVars
<1>20. CASE OtherDataDir
  <2>1. /\ UNCHANGED <<held, revoked, pc, req>> /\ lost \subseteq lost'
        /\ diskID # NoId => Canon[diskID] \in lost'
    BY <1>20, OtherDataDirFields DEF OtherDataDir, cpVars
  <2>2. \A d \in DeviceIds \ lost' : held[d] = NoKey
    BY <2>1 DEF IdInv
  <2> QED
    BY <2>1, <2>2 DEF HoldInv, HeldKeyAccepted
<1> QED
  BY <1>1, <1>2, <1>3, <1>4, <1>5, <1>6, <1>7, <1>8, <1>9, <1>10, <1>11,
       <1>12, <1>13, <1>14, <1>15, <1>16, <1>17, <1>18, <1>19, <1>20 DEF Next

(***************************************************************************)
(* When every instance of the control plane takes the node's requests as   *)
(* they are, the key it holds for an identity the node did not lose is one *)
(* the node accepts or the operator revoked: no lost answer, retry, failed *)
(* write or restart retires it.                                            *)
(***************************************************************************)
THEOREM HeldKeyCorrect ==
    ASSUME Mixed = FALSE
    PROVE  Spec => []HeldKeyAccepted
<1>1. Init => ReqInv /\ BeliefInv /\ IdInv /\ KeyInv /\ HoldInv
  <2> SUFFICES ASSUME Init PROVE ReqInv /\ BeliefInv /\ IdInv /\ KeyInv /\ HoldInv
    OBVIOUS
  <2>1. ReqInv /\ BeliefInv /\ IdInv
    BY NoReqFields DEF Init, ReqInv, BeliefInv, BeliefConsistent, IdInv,
       InFlight, Registering, Deleting
  <2>2. KeyInv /\ HoldInv
    BY NoReqFields DEF Init, KeysInit, KeyInv, HoldInv, HeldKeyAccepted,
         Accepted
  <2> QED
    BY <2>1, <2>2
<1>2. TypeOK /\ (ReqInv /\ BeliefInv /\ IdInv /\ KeyInv /\ HoldInv) /\ [Next]_vars
        => (ReqInv /\ BeliefInv /\ IdInv /\ KeyInv /\ HoldInv)'
  BY ReqStep, BeliefStep, IdStep, KeyStep, HoldStep
<1>3. HoldInv => HeldKeyAccepted
  BY DEF HoldInv
<1> QED
  BY <1>1, <1>2, <1>3, TypeCorrect, PTL DEF Spec

\* No step of the loop removes a key a person minted.
LEMMA PersonStep ==
    TypeOK /\ KeyInv /\ [Next]_vars
        => (pc' # pc => \A k \in keys : k.scope = PersonScope => k \in keys')
<1> DEFINE Kept == pc' # pc => \A k \in keys : k.scope = PersonScope => k \in keys'
<1> SUFFICES ASSUME TypeOK, KeyInv, [Next]_vars PROVE Kept
  OBVIOUS
<1>1. CASE Step
  <2>1. CASE StepIdle
    BY <2>1 DEF StepIdle, mgrVars, envVars, idVars, cpVars, keyVars
  <2>2. CASE StepDeregister
    BY <2>2 DEF StepDeregister, Deregister, mgrVars, envVars, idVars, cpVars,
         keyVars
  <2>3. CASE StepRegister
    <3>1. PICK d \in DeviceIds, k \in Keys \cup {NoKey}, olds \in SUBSET Keys :
            MintFor(k, olds)
      BY <2>3, StepRegisterRequest
    <3> QED
      BY <3>1 DEF MintFor, MintKey, keyVars
  <2>4. CASE StepNoDeviceID
    BY <2>4 DEF StepNoDeviceID, NeedsRegister, mgrVars, envVars, idVars,
         cpVars,
         keyVars
  <2>5. CASE StepHeartbeat
    BY <2>5 DEF StepHeartbeat, NeedsRegister, mgrVars, envVars, idVars, cpVars,
         keyVars
  <2> QED BY <1>1, <2>1, <2>2, <2>3, <2>4, <2>5 DEF Step
<1>2. CASE Server
  <2>1. CASE ServerRegister
    BY <2>1 DEF ServerRegister, Reply, mgrVars, envVars, idVars, cpVars,
         keyVars
  <2>2. CASE ServerHeartbeat
    BY <2>2 DEF ServerHeartbeat, Reply, mgrVars, envVars, idVars, cpVars,
         keyVars
  <2>3. CASE ServerDelete
    BY <2>3 DEF ServerDelete, Reply, mgrVars, envVars, idVars, cpVars, keyVars
  <2>4. CASE ServerUnauthorized
    BY <2>4 DEF ServerUnauthorized, Reply, mgrVars, envVars, idVars, cpVars,
         keyVars
  <2>5. CASE AnswerLost
    BY <2>5 DEF AnswerLost, Reply, mgrVars, envVars, idVars, cpVars, keyVars
  <2> QED BY <1>2, <2>1, <2>2, <2>3, <2>4, <2>5 DEF Server
<1>3. CASE HandleAnswer
  <2>1. CASE RegisterOk
    <3>1. PICK gone \in SUBSET req.olds : RevokeAll(gone)
      BY <2>1 DEF RegisterOk, Registers, CommitKey
    <3> QED
      BY <3>1 DEF RevokeAll, KeyInv
  <2>2. CASE RegisterFallback
    BY <2>2 DEF RegisterFallback, mgrVars, envVars, idVars, cpVars, keyVars
  <2>3. CASE RegisterUnauthorized
    BY <2>3 DEF RegisterUnauthorized, Settle, mgrVars, envVars, idVars, cpVars,
         keyVars
  <2>4. CASE PaymentRequired
    BY <2>4 DEF PaymentRequired, Settle, mgrVars, envVars, idVars, cpVars,
         keyVars
  <2>5. CASE RegisterFailed
    BY <2>5 DEF RegisterFailed, Settle, mgrVars, envVars, idVars, cpVars,
         keyVars
  <2>6. CASE HeartbeatKept
    BY <2>6 DEF HeartbeatKept, Settle, mgrVars, envVars, idVars, cpVars,
         keyVars
  <2>7. CASE HeartbeatUnauthorized
    BY <2>7 DEF HeartbeatUnauthorized, Settle, mgrVars, envVars, idVars,
         cpVars,
         keyVars
  <2>8. CASE HeartbeatNotFound
    BY <2>8 DEF HeartbeatNotFound, Settle, mgrVars, envVars, idVars, cpVars,
         keyVars
  <2>9. CASE DeleteDone
    BY <2>9 DEF DeleteDone, Settle, mgrVars, envVars, idVars, cpVars, keyVars
  <2> QED BY <1>3, <2>1, <2>2, <2>3, <2>4, <2>5, <2>6, <2>7, <2>8, <2>9 DEF
       HandleAnswer
<1>4. CASE Wake
  <2>1. CASE WakeKick
    BY <2>1 DEF WakeKick, mgrVars, envVars, idVars, cpVars, keyVars
  <2>2. CASE WakeTimer
    BY <2>2 DEF WakeTimer, mgrVars, envVars, idVars, cpVars, keyVars
  <2>3. CASE RunDone
    BY <2>3 DEF RunDone, Deregister, mgrVars, envVars, idVars, cpVars, keyVars
  <2> QED BY <1>4, <2>1, <2>2, <2>3 DEF Wake
<1>5. ASSUME NEW u \in Urls \cup {NoURL}, SetTunnelURL(u) PROVE Kept
  BY <1>5 DEF SetTunnelURL, mgrVars, envVars, idVars, cpVars, keyVars
<1>6. ASSUME NEW c \in BOOLEAN, NEW p \in Publishing,
            NEW t \in {"none", "fresh", token}, ConfigPatch(c, p, t) PROVE Kept
  BY <1>6 DEF ConfigPatch, mgrVars, envVars, idVars, cpVars, keyVars
<1>7. CASE ReconcileKick
  BY <1>7 DEF ReconcileKick, mgrVars, envVars, idVars, cpVars, keyVars
<1>8. ASSUME NEW t \in {"none", "fresh"}, SetToken(t) PROVE Kept
  BY <1>8 DEF SetToken, mgrVars, envVars, idVars, cpVars, keyVars
<1>9. ASSUME NEW k \in Keys, AdminMintKey(k) PROVE Kept
  BY <1>9 DEF AdminMintKey
<1>10. ASSUME NEW k \in Keys, AdminRevokeKey(k) PROVE Kept
  BY <1>10 DEF AdminRevokeKey
<1>11. CASE Shutdown
  BY <1>11 DEF Shutdown, mgrVars, envVars, idVars, cpVars, keyVars
<1>12. CASE Crash
  BY <1>12 DEF Crash, mgrVars, envVars, idVars, cpVars, keyVars
<1>13. CASE Boot
  BY <1>13 DEF Boot, mgrVars, envVars, idVars, cpVars, keyVars
<1>14. CASE TokenLapses
  BY <1>14 DEF TokenLapses, mgrVars, envVars, idVars, cpVars, keyVars
<1>15. ASSUME NEW s \in {"ok", "unpaid", "down"}, PlaneChange(s) PROVE Kept
  BY <1>15 DEF PlaneChange, mgrVars, envVars, idVars, cpVars, keyVars
<1>16. ASSUME NEW d \in DeviceIds, TTLReap(d) PROVE Kept
  BY <1>16 DEF TTLReap, mgrVars, envVars, idVars, cpVars, keyVars
<1>17. CASE UNCHANGED vars
  BY <1>17 DEF vars, mgrVars, envVars, idVars, cpVars, keyVars
<1>18. ASSUME NEW d \in DeviceIds, OtherMints(d) PROVE Kept
  BY <1>18 DEF OtherMints, mgrVars, envVars, idVars, cpVars, keyVars
<1>19. CASE OtherSaves
  BY <1>19, OtherSavesFields DEF OtherSaves, mgrVars, envVars, idVars,
       cpVars, keyVars
<1>20. CASE OtherDataDir
  BY <1>20, OtherDataDirFields DEF OtherDataDir, mgrVars, envVars, idVars,
       cpVars, keyVars
<1> QED
  BY <1>1, <1>2, <1>3, <1>4, <1>5, <1>6, <1>7, <1>8, <1>9, <1>10, <1>11,
       <1>12, <1>13, <1>14, <1>15, <1>16, <1>17, <1>18, <1>19, <1>20 DEF Next

(***************************************************************************)
(* Rotation never takes a key a person minted.                             *)
(***************************************************************************)
THEOREM PersonKeysCorrect == Spec => PersonKeysKept
<1>1. Init => ReqInv /\ BeliefInv /\ KeyInv
  BY NoReqFields DEF Init, KeysInit, ReqInv, BeliefInv, BeliefConsistent,
     KeyInv, Accepted, InFlight, Registering, Deleting
<1>2. TypeOK /\ (ReqInv /\ BeliefInv /\ KeyInv) /\ [Next]_vars
        => (ReqInv /\ BeliefInv /\ KeyInv)'
  BY ReqStep, BeliefStep, KeyStep
<1>3. TypeOK /\ (ReqInv /\ BeliefInv /\ KeyInv) /\ [Next]_vars
        => [pc' # pc => \A k \in keys : k.scope = PersonScope => k \in keys']_vars
  BY PersonStep
<1> QED
  BY <1>1, <1>2, <1>3, TypeCorrect, PTL DEF Spec, PersonKeysKept

-----------------------------------------------------------------------------
(***************************************************************************)
(* The refinement: every step is one of KeyRotation's, or changes neither  *)
(* the keys the node accepts nor the one the control plane holds.          *)
(***************************************************************************)
LEMMA RotationStutters ==
    ASSUME UNCHANGED <<keys, revoked, held, lost>>
    PROVE  UNCHANGED Rotation!rotationVars
BY DEF Rotation!rotationVars, Accepted, Holding

\* What is held for the device is at most forgotten, as its identity is lost
\* or its destination goes.
LEMMA HoldingShrinks ==
    ASSUME TypeOK, lost \subseteq lost',
           \/ held' = held
           \/ \E d \in DeviceIds : held' = [held EXCEPT ![d] = NoKey]
    PROVE  Holding' \in {Holding, NoKey}
<1>1. held'[Device] \in {held[Device], NoKey}
  BY PublishedKeyAssumption DEF TypeOK
<1> QED
  BY <1>1 DEF Holding

LEMMA ForgetRefines ==
    ASSUME Holding' \in {Holding, NoKey}, UNCHANGED <<keys, revoked>>
    PROVE  [Rotation!RotationNext]_(Rotation!rotationVars)
<1>1. Accepted' = Accepted
  BY DEF Accepted
<1>2. CASE Holding' = NoKey
  <2>1. Rotation!Forget
    BY <1>1, <1>2 DEF Rotation!Forget
  <2> QED
    BY <2>1 DEF Rotation!RotationNext
<1>3. CASE Holding' = Holding
  BY <1>1, <1>3 DEF Rotation!rotationVars
<1> QED
  BY <1>2, <1>3

LEMMA OfferRefines ==
    ASSUME TypeOK, KeyInv, NEW k \in Keys, NEW s, MintKey(k, s),
           Holding' \in {Holding, NoKey}
    PROVE  Rotation!RotationNext
<1>1. k \notin Accepted \cup revoked
  BY DEF KeyInv, MintKey
<1>2. Accepted' = Accepted \cup {k}
  BY AcceptedPlus DEF MintKey
<1>3. revoked' = revoked
  BY DEF MintKey
<1>4. Rotation!Offer(k)
  BY <1>1, <1>2, <1>3 DEF Rotation!Offer
<1> QED
  BY <1>4 DEF Rotation!RotationNext

LEMMA HandOverRefines ==
    ASSUME TypeOK, KeyInv, ServerRegister
    PROVE  [Rotation!RotationNext]_(Rotation!rotationVars)
<1>1. req.dev \in DeviceIds /\ Canon[req.dev] \in DeviceIds
  BY RegistrationAssumption DEF ServerRegister, TypeOK
<1>2. UNCHANGED <<keys, revoked, lost>>
  BY DEF ServerRegister, Reply, idVars, keyVars
<1>3. Accepted' = Accepted
  BY <1>2 DEF Accepted
<1>4. \/ held' = held
      \/ req.key # NoKey /\ held' = [held EXCEPT ![Canon[req.dev]] = req.key]
  BY DEF ServerRegister
<1>5. CASE held'[Device] = held[Device] \/ Device \in lost
  <2>1. Holding' = Holding
    BY <1>2, <1>5 DEF Holding
  <2> QED
    BY <1>2, <1>3, <2>1 DEF Rotation!rotationVars
<1>6. CASE held'[Device] # held[Device] /\ Device \notin lost
  <2>1. held'[Device] = req.key /\ req.key # NoKey
    BY <1>1, <1>4, <1>6, PublishedKeyAssumption DEF TypeOK
  <2>2. Holding' = req.key
    BY <1>2, <1>6, <2>1 DEF Holding
  <2>3. req.key \in Keys /\ req.key \in Accepted \cup revoked
    BY <2>1, ReqType DEF KeyInv, TypeOK
  <2>4. Rotation!HandOver(req.key)
    BY <1>2, <1>3, <2>2, <2>3 DEF Rotation!HandOver
  <2> QED
    BY <2>3, <2>4 DEF Rotation!RotationNext
<1> QED
  BY <1>5, <1>6

\* The identity that registered is the one whose key may be held: it is not
\* lost as the id the control plane issued is saved.
LEMMA RetireRefines ==
    ASSUME TypeOK, IdInv, KeyInv, HoldInv, RegisterOk
    PROVE  Rotation!RotationNext
<1> DEFINE issued == Canon[req.dev]
<1>1. PICK gone \in SUBSET req.olds : RevokeAll(gone)
  BY DEF RegisterOk, Registers, CommitKey
<1>2. Accepted' = Accepted \ gone /\ revoked' = revoked /\ held' = held
  BY <1>1 DEF RevokeAll, Accepted, RegisterOk, Registers, cpVars
<1>3. /\ lost \subseteq lost'
      /\ issued \in lost' => issued \in lost
  <2>1. issued \in DeviceIds /\ Canon[issued] = issued
    BY RegistrationAssumption DEF RegisterOk, TypeOK
  <2>2. SaveDeviceID(issued) \/ lost' = lost
    BY DEF RegisterOk, Registers
  <2> HIDE DEF issued
  <2> QED
    BY <2>1, <2>2, SaveFields
<1>4. CASE Holding = NoKey
  <2>1. Holding' = NoKey
    BY <1>2, <1>3, <1>4 DEF Holding
  <2>2. NoKey \notin gone
    BY <1>1, ReqType, KeysAssumption
  <2> DEFINE S == Accepted \cap gone
  <2>3. S \in SUBSET Accepted /\ Holding \notin S /\ Accepted' = Accepted \ S
    BY <1>2, <1>4, <2>2
  <2>4. Rotation!Retire(S)
    BY <1>2, <1>4, <2>1, <2>3 DEF Rotation!Retire
  <2> QED
    BY <2>3, <2>4 DEF Rotation!RotationNext
<1>5. CASE Holding # NoKey
  <2>1. Device \notin lost /\ Holding = held[Device] /\ held[Device] # NoKey
    BY <1>5 DEF Holding
  <2>2. pc = "register" /\ req.answer = "ok"
    BY DEF RegisterOk, HoldInv, Registering
  <2>3. Device = issued
    BY <2>1, <2>2, PublishedKeyAssumption DEF IdInv, InFlight, Registering
  <2>4. Holding' = Holding
    BY <1>2, <1>3, <2>1, <2>3 DEF Holding
  <2>5. held[Device] \notin req.olds
    <3>1. CASE req.key = NoKey
      BY <3>1 DEF HoldInv
    <3>2. CASE req.key # NoKey
      BY <2>2, <2>3, <3>2 DEF HoldInv, KeyInv
    <3> QED
      BY <3>1, <3>2
  <2> DEFINE S == Accepted \cap gone
  <2>6. S \in SUBSET Accepted /\ Holding \notin S /\ Accepted' = Accepted \ S
    BY <1>1, <1>2, <2>1, <2>5
  <2>7. Rotation!Retire(S)
    BY <1>2, <2>4, <2>6 DEF Rotation!Retire
  <2> QED
    BY <2>6, <2>7 DEF Rotation!RotationNext
<1> QED
  BY <1>4, <1>5

LEMMA StartOverRefines ==
    ASSUME TypeOK, IdInv, OtherDataDir
    PROVE  Rotation!RotationNext
<1>1. /\ Accepted' = {} /\ UNCHANGED <<revoked, held>> /\ lost \subseteq lost'
      /\ diskID # NoId => Canon[diskID] \in lost'
  BY OtherDataDirFields DEF OtherDataDir, cpVars
<1>2. Holding' = NoKey
  BY <1>1, PublishedKeyAssumption DEF Holding, IdInv
<1>3. Rotation!StartOver
  BY <1>1, <1>2 DEF Rotation!StartOver
<1> QED
  BY <1>3 DEF Rotation!RotationNext

LEMMA RevokeRefines ==
    ASSUME NEW k \in Keys, AdminRevokeKey(k)
    PROVE  Rotation!RotationNext
<1>1. k \in Accepted /\ Accepted' = Accepted \ {k}
  BY DEF AdminRevokeKey, Revoke, Accepted
<1>2. revoked' = revoked \cup {k} /\ Holding' = Holding
  BY DEF AdminRevokeKey, Revoke, cpVars, idVars, Holding
<1>3. Rotation!OperatorRevokes(k)
  BY <1>1, <1>2 DEF Rotation!OperatorRevokes
<1> QED
  BY <1>3 DEF Rotation!RotationNext

LEMMA RotationStep ==
    TypeOK /\ ReqInv /\ IdInv /\ KeyInv /\ HoldInv /\ [Next]_vars
        => [Rotation!RotationNext]_(Rotation!rotationVars)
<1> DEFINE Rotates == [Rotation!RotationNext]_(Rotation!rotationVars)
<1> SUFFICES ASSUME TypeOK, ReqInv, IdInv, KeyInv, HoldInv, [Next]_vars
             PROVE  Rotates
  OBVIOUS
<1>0. UNCHANGED <<keys, revoked, held, lost>> => Rotates
  BY RotationStutters
<1> HIDE DEF Rotates
<1>1. CASE Step
  <2>1. CASE StepRegister
    <3>1. PICK d \in DeviceIds, k \in Keys \cup {NoKey}, olds \in SUBSET Keys :
            EnsureDeviceID(d) /\ MintFor(k, olds)
      BY <2>1, StepRegisterRequest
    <3>2. held' = held /\ lost \subseteq lost'
      BY <2>1, <3>1, EnsureFields DEF StepRegister, cpVars
    <3>3. Holding' \in {Holding, NoKey}
      BY <3>2, HoldingShrinks
    <3>4. CASE UNCHANGED keyVars
      BY <3>3, <3>4, ForgetRefines DEF Rotates, keyVars
    <3>5. CASE MintKey(k, ControlPlaneKeyScope)
      <4>1. k \in Keys
        BY <3>5 DEF MintKey
      <4> QED
        BY <3>3, <3>5, <4>1, OfferRefines DEF Rotates
    <3> QED
      BY <3>1, <3>4, <3>5 DEF MintFor
  <2>2. CASE ~StepRegister
    BY <1>0, <1>1, <2>2 DEF Step, StepIdle, StepDeregister, Deregister,
         StepNoDeviceID, StepHeartbeat, idVars, cpVars, keyVars
  <2> QED
    BY <2>1, <2>2
<1>2. CASE Server
  <2>1. CASE ServerRegister
    BY <2>1, HandOverRefines DEF Rotates
  <2>2. CASE ServerDelete
    <3>1. req.dev \in DeviceIds
      BY <2>2, ReqType DEF ServerDelete, ReqInv, InFlight
    <3>2. /\ held' = [held EXCEPT ![req.dev] = NoKey]
          /\ UNCHANGED <<keys, revoked, lost>>
      BY <2>2 DEF ServerDelete, Reply, idVars, keyVars
    <3>3. Holding' \in {Holding, NoKey}
      BY <3>1, <3>2, HoldingShrinks
    <3> QED
      BY <3>2, <3>3, ForgetRefines DEF Rotates
  <2>3. CASE ServerHeartbeat \/ ServerUnauthorized \/ AnswerLost
    BY <1>0, <2>3 DEF ServerHeartbeat, ServerUnauthorized, AnswerLost, Reply,
         idVars, keyVars
  <2> QED
    BY <1>2, <2>1, <2>2, <2>3 DEF Server
<1>3. CASE HandleAnswer
  <2>1. CASE RegisterOk
    BY <2>1, RetireRefines DEF Rotates
  <2>2. CASE ~RegisterOk
    BY <1>0, <1>3, <2>2 DEF HandleAnswer, RegisterFallback,
         RegisterUnauthorized, PaymentRequired, RegisterFailed, HeartbeatKept,
         HeartbeatUnauthorized, HeartbeatNotFound, DeleteDone, Settle, idVars, cpVars,
         keyVars
  <2> QED
    BY <2>1, <2>2
<1>4. CASE Wake
  BY <1>0, <1>4 DEF Wake, WakeKick, WakeTimer, RunDone, Deregister, idVars, cpVars,
       keyVars
<1>5. ASSUME NEW u \in Urls \cup {NoURL}, SetTunnelURL(u) PROVE Rotates
  BY <1>0, <1>5 DEF SetTunnelURL, idVars, cpVars, keyVars
<1>6. ASSUME NEW c \in BOOLEAN, NEW p \in Publishing,
             NEW t \in {"none", "fresh", token}, ConfigPatch(c, p, t)
      PROVE  Rotates
  BY <1>0, <1>6 DEF ConfigPatch, idVars, cpVars, keyVars
<1>7. ASSUME NEW t \in {"none", "fresh"}, SetToken(t) PROVE Rotates
  BY <1>0, <1>7 DEF SetToken, idVars, cpVars, keyVars
<1>8. ASSUME NEW k \in Keys, AdminMintKey(k) PROVE Rotates
  <2>1. MintKey(k, PersonScope) /\ UNCHANGED <<held, lost>>
    BY <1>8 DEF AdminMintKey, cpVars, idVars
  <2>2. Holding' \in {Holding, NoKey}
    BY <2>1 DEF Holding
  <2> QED
    BY <2>1, <2>2, OfferRefines DEF Rotates
<1>9. ASSUME NEW k \in Keys, AdminRevokeKey(k) PROVE Rotates
  BY <1>9, RevokeRefines DEF Rotates
<1>10. ASSUME NEW s \in {"ok", "unpaid", "down"}, PlaneChange(s) PROVE Rotates
  BY <1>0, <1>10 DEF PlaneChange, idVars, keyVars
<1>11. ASSUME NEW d \in DeviceIds, TTLReap(d) PROVE Rotates
  <2>1. held' = [held EXCEPT ![d] = NoKey] /\ UNCHANGED <<keys, revoked, lost>>
    BY <1>11 DEF TTLReap, idVars, keyVars
  <2>2. Holding' \in {Holding, NoKey}
    BY <2>1, HoldingShrinks
  <2> QED
    BY <2>1, <2>2, ForgetRefines DEF Rotates
<1>12. CASE ReconcileKick \/ Shutdown \/ Crash \/ Boot \/ TokenLapses
  BY <1>0, <1>12 DEF ReconcileKick, Shutdown, Crash, Boot, TokenLapses, idVars, cpVars,
       keyVars
<1>13. CASE UNCHANGED vars
  BY <1>0, <1>13 DEF vars, idVars, cpVars, keyVars
<1>14. ASSUME NEW d \in DeviceIds, OtherMints(d) PROVE Rotates
  BY <1>0, <1>14 DEF OtherMints, idVars, cpVars, keyVars
<1>15. CASE OtherSaves
  <2>1. UNCHANGED <<keys, revoked, held>> /\ lost \subseteq lost'
    BY <1>15, OtherSavesFields DEF OtherSaves, cpVars, keyVars
  <2>2. Holding' \in {Holding, NoKey}
    BY <2>1, HoldingShrinks
  <2> QED
    BY <2>1, <2>2, ForgetRefines DEF Rotates
<1>16. CASE OtherDataDir
  BY <1>16, StartOverRefines DEF Rotates
<1> QED
  BY <1>1, <1>2, <1>3, <1>4, <1>5, <1>6, <1>7, <1>8, <1>9, <1>10, <1>11,
       <1>12, <1>13, <1>14, <1>15, <1>16 DEF Next

(***************************************************************************)
(* When every instance of the control plane takes the node's requests as   *)
(* they are, register's mint, post and commit, with the lost answers,      *)
(* retries, failed writes and restarts between them, implement             *)
(* KeyRotation for every device: a new key is accepted before the control  *)
(* plane gets it, and an old one is retired only when it holds another.    *)
(* The key of an identity the node loses is forgotten there and then.      *)
(***************************************************************************)
THEOREM RotationCorrect ==
    ASSUME Mixed = FALSE
    PROVE  Spec => MakeBeforeBreak
<1>1. Init => ReqInv /\ BeliefInv /\ IdInv /\ KeyInv /\ HoldInv
  <2> SUFFICES ASSUME Init PROVE ReqInv /\ BeliefInv /\ IdInv /\ KeyInv /\ HoldInv
    OBVIOUS
  <2>1. ReqInv /\ BeliefInv /\ IdInv
    BY NoReqFields DEF Init, ReqInv, BeliefInv, BeliefConsistent, IdInv,
       InFlight, Registering, Deleting
  <2>2. KeyInv /\ HoldInv
    BY NoReqFields DEF Init, KeysInit, KeyInv, HoldInv, HeldKeyAccepted,
         Accepted
  <2> QED
    BY <2>1, <2>2
<1>2. TypeOK /\ (ReqInv /\ BeliefInv /\ IdInv /\ KeyInv /\ HoldInv) /\ [Next]_vars
        => (ReqInv /\ BeliefInv /\ IdInv /\ KeyInv /\ HoldInv)'
  BY ReqStep, BeliefStep, IdStep, KeyStep, HoldStep
<1>3. Init => Rotation!RotationInit
  BY PublishedKeyAssumption
     DEF Init, KeysInit, Accepted, Holding, Rotation!RotationInit
<1>4. TypeOK /\ (ReqInv /\ BeliefInv /\ IdInv /\ KeyInv /\ HoldInv) /\ [Next]_vars
        => [Rotation!RotationNext]_(Rotation!rotationVars)
  BY RotationStep
<1> QED
  BY <1>1, <1>2, <1>3, <1>4, TypeCorrect, PTL
     DEF Spec, MakeBeforeBreak, Rotation!Rotates

=============================================================================
